------------------------------ MODULE EventRouting ------------------------------
(***************************************************************************)
(* An event from publish_event() to the handlers of every service that      *)
(* subscribed to its topic (protobus/event_dispatcher.py, event_listener.py,*)
(* trie.py), over the schemas of the processes involved (SchemaLoading): the*)
(* publisher encodes with its factory, each subscriber decodes with its own.*)
(*                                                                          *)
(* A service has one durable queue, which all its replicas consume and which*)
(* outlives them, with its bindings.  The ladder is SettleLadder's, for the *)
(* topology that setup_retry_topology declares.                             *)
(***************************************************************************)
EXTENDS SchemaLoading

CONSTANTS
  Subscribers,    \* services, each with its <Service>.Events queue
  Replicas,       \* their processes
  ServiceOf,      \* replica -> service
  FactoryOf,      \* replica -> factory
  Publisher,      \* the publisher's factory
  Subscriptions,  \* service -> what its replicas subscribe to once they run, in order
  MaxRetries,     \* service -> EventRetryOptions.max_retries; 0: no ladder
  Events,
  Words,          \* of topics and patterns
  Published,      \* what an event may be: [by, key, topic, type]
  Tables, Topics, \* route tables and topics the trie is checked on
  Deployments,    \* the files of every factory events are explored with (a bound)
  MaxFaults, MaxCrashes, MaxLosses   \* handlers that raise, replicas and confirms lost (bounds)

\* A subscription is [pattern, handler, all]; "all" that of subscribe_all().  A
\* handler is one value: a method bound twice is two of them.  An event "by" a raw
\* publisher may carry another topic in its body than its key, no key or no topic.
ASSUME EventAssumption ==
  /\ \A s \in Subscribers :
       MaxRetries[s] \in Nat /\ Subscriptions[s] \in Seq(Range(Subscriptions[s]))
  /\ {"*", "#"} \subseteq Words
  /\ \A s \in Subscribers : \A sub \in Range(Subscriptions[s]) :
       sub.pattern \in Seq(Words) /\ sub.all \in BOOLEAN /\ (sub.all => sub.pattern = <<"#">>)
  /\ \A r \in Replicas : ServiceOf[r] \in Subscribers
  /\ \A e \in Published : /\ e.key \in Seq(Words) /\ e.topic \in Seq(Words)
                          /\ e.by = "dispatcher" => e.key = e.topic /\ e.key # <<>>
  /\ \A table \in Tables :
       table \in Seq(Range(table)) /\ \A route \in Range(table) : route.pattern \in Seq(Words)
  /\ Topics \subseteq Seq(Words)
  /\ MaxFaults \in Nat /\ MaxCrashes \in Nat /\ MaxLosses \in Nat

VARIABLES
  event,      \* what each event is
  stage,      \* where its publish() is
  bindings,   \* of the queues to the events exchange
  queue,      \* <Service>.Events
  parked,     \* <Service>.Events.Retry
  dead,       \* <Service>.Events.DLQ
  router,     \* replica -> its subscriptions so far, <<>> after a restart
  up,         \* replicas whose listener consumes
  work,       \* the delivery a replica works on (the prefetch is 1)
  routed,     \* copies the exchange put into each queue (history)
  failed,     \* attempts that failed, and those that were dropped (history)
  dropped,
  missed,     \* copies delivered to a replica that had not subscribed yet (history)
  calls,      \* handler calls: <<copy, handler>> -> outcomes so far (history)
  accepted,   \* events the broker took, with the attempt (history)
  faults, crashes, losses   \* against their bounds

eventVars == <<event, stage, bindings, queue, parked, dead, router, up, work, routed, failed, dropped,
               missed, calls, accepted, faults, crashes, losses>>
vars == <<schemaVars, eventVars>>

--------------------------------------------------------------------------------
(* Topics. *)

\* RabbitMQ's rule: cut the topic into one piece per word of the pattern.
Matches(pattern, topic) ==
  \E cut \in [0..Len(pattern) -> 0..Len(topic)] :
    /\ cut[0] = 0 /\ cut[Len(pattern)] = Len(topic)
    /\ \A i \in 1..Len(pattern) :
         IF pattern[i] = "#" THEN cut[i] >= cut[i - 1]
         ELSE cut[i] = cut[i - 1] + 1 /\ pattern[i] \in {"*", topic[cut[i]]}

Wildcards == {"*", "#"}

\* The elements of s that are in S, in their order.
Only(s, S) == FoldLeft(LAMBDA found, x : IF x \in S THEN Append(found, x) ELSE found, <<>>, s)

\* The trie of a table: a node is the prefix that leads to it.
Nodes(table) == UNION {{SubSeq(route.pattern, 1, n) : n \in 0..Len(route.pattern)} : route \in Range(table)}
Values(table, node) ==
  LET here == Only(table, {route \in Range(table) : route.pattern = node})
  IN  [i \in 1..Len(here) |-> here[i].handler]

\* _collect: a value once, where it was reached first.  Values are told apart by
\* id(), so two objects are two values, equal or not.
Distinct(s) == FoldLeft(LAMBDA found, x : IF x \in Range(found) THEN found ELSE Append(found, x), <<>>, s)

\* Mutants of MatchTopic: '#' takes one word at least; it is not tried at the end.
MatchTopic_hashTakesOne(table, topic) ==
  LET nodes == Nodes(table)
      visit[node \in nodes] ==
        [i \in 1..Len(topic) + 1 |->
           LET Go(word, j) == IF Append(node, word) \in nodes THEN visit[Append(node, word)][j] ELSE <<>>
           IN  IF i > Len(topic) THEN Values(table, node)
               ELSE Go(topic[i], i + 1) \o Go("*", i + 1)
                    \o FlattenSeq([k \in 1..(Len(topic) + 1 - i) |-> Go("#", i + k)])]
  IN  IF table = <<>> THEN <<>> ELSE Distinct(visit[<<>>][1])

\* Trie.match_topic: from each node, at each word of the topic, the exact child, '*',
\* and '#' having consumed none, one, ... all of the words that are left.
MatchTopic(table, topic) ==
  LET nodes == Nodes(table)
      visit[node \in nodes] ==
        [i \in 1..Len(topic) + 1 |->
           LET Go(word, j) == IF Append(node, word) \in nodes THEN visit[Append(node, word)][j] ELSE <<>>
           IN  IF i > Len(topic) THEN Values(table, node) \o Go("#", i)
               ELSE (IF topic[i] \in Wildcards THEN <<>> ELSE Go(topic[i], i + 1))
                    \o Go("*", i + 1)
                    \o FlattenSeq([k \in 1..(Len(topic) + 2 - i) |-> Go("#", i + k - 1)])]
  IN  IF table = <<>> THEN <<>> ELSE Distinct(visit[<<>>][1])

--------------------------------------------------------------------------------
Copies == [event : Events, n : 1..2, retry : Nat]
NoWork == [copy |-> [event |-> "none", n |-> 0, retry |-> 0], todo |-> <<>>, known |-> TRUE, matched |-> TRUE]

EventTypeOK ==
  /\ stage \in [Events -> {"idle", "first", "second", "done", "raised"}]
  /\ \A s \in Subscribers :
       /\ queue[s] \cup parked[s] \cup dead[s] \cup failed[s] \cup dropped[s] \cup missed[s] \subseteq Copies
       /\ \A c \in queue[s] \cup parked[s] \cup dead[s] : c.retry <= MaxRetries[s]
  /\ \A r \in Replicas : IsPrefix(router[r], Subscriptions[ServiceOf[r]]) /\ (r \notin up => router[r] = <<>>)
  /\ faults \in 0..MaxFaults /\ losses \in 0..MaxLosses /\ crashes \in 0..MaxCrashes

\* The queues may be those of an earlier run of the services, with its bindings.
Init ==
  /\ SchemaInit
  /\ event \in [Events -> Published]
  /\ stage = [e \in Events |-> "idle"]
  /\ bindings \in {{}, UNION {{<<s, sub.pattern>> : sub \in Range(Subscriptions[s])} : s \in Subscribers}}
  /\ queue = [s \in Subscribers |-> {}] /\ parked = queue /\ dead = queue
  /\ routed = queue /\ failed = queue /\ dropped = queue /\ missed = queue
  /\ router = [r \in Replicas |-> <<>>] /\ up = {}
  /\ work = [r \in Replicas |-> NoWork]
  /\ calls = {} /\ accepted = {} /\ faults = 0 /\ crashes = 0 /\ losses = 0

Known(f, type) == type \in UNION {Schema[t].types : t \in root[f].files}

--------------------------------------------------------------------------------
(* The publisher: EventDispatcher.publish. *)

Receives(s, e) == \E b \in bindings : b[1] = s /\ Matches(b[2], event[e].key)

\* An event no schema of the publisher has is refused; so is one published while
\* nothing is connected.
Publish(e) ==
  /\ stage[e] = "idle" /\ initialized[Publisher]
  /\ \E next \in {"first", "raised"} :
       /\ next = "first" => event[e].by = "raw" \/ Known(Publisher, event[e].type)
       /\ stage' = [stage EXCEPT ![e] = next]
  /\ UNCHANGED <<event, bindings, queue, parked, dead, router, up, work, routed, failed, dropped, missed,
                 accepted, calls, faults, crashes, losses>>

\* Mutant of Outcome: a publish whose channel closed is taken for done.
Outcome_closedIsDone(e, taken) ==
  \/ stage' = [stage EXCEPT ![e] = "done"] /\ UNCHANGED losses

\* One confirmed publish, twice at most: a channel that closes is waited for, and
\* the event is published again under its message id - unless the connection is
\* back before the exception arrives.
Outcome(e, taken) ==
  \/ taken /\ stage' = [stage EXCEPT ![e] = "done"] /\ UNCHANGED losses
  \/ /\ event[e].by = "dispatcher" /\ losses < MaxLosses /\ losses' = losses + 1
     /\ \E next \in {"second", "raised"} :
          /\ stage[e] = "second" => next = "raised"
          /\ stage' = [stage EXCEPT ![e] = next]

Attempt(e) ==
  /\ stage[e] \in {"first", "second"}
  /\ \E taken \in BOOLEAN :
       LET copy == [event |-> e, n |-> IF stage[e] = "first" THEN 1 ELSE 2, retry |-> 0]
           Put(f) == [s \in Subscribers |-> IF taken /\ Receives(s, e) THEN f[s] \cup {copy} ELSE f[s]]
       IN  /\ Outcome(e, taken)
           /\ queue' = Put(queue) /\ routed' = Put(routed)
           /\ accepted' = IF taken THEN accepted \cup {copy} ELSE accepted
  /\ UNCHANGED <<event, bindings, parked, dead, router, up, work, failed, dropped, missed, calls, faults,
                 crashes>>

--------------------------------------------------------------------------------
(* A subscriber. *)

\* MessageService.init() starts the consumer; the handlers are subscribed after it.
Start(r) ==
  /\ r \notin up /\ initialized[FactoryOf[r]]
  /\ up' = up \cup {r}
  /\ UNCHANGED <<event, stage, bindings, queue, parked, dead, router, work, routed, failed, dropped, missed,
                 calls, accepted, faults, crashes, losses>>

Subscribe(r) ==
  LET subs == Subscriptions[ServiceOf[r]]
  IN  /\ r \in up /\ Len(router[r]) < Len(subs)
      /\ router' = [router EXCEPT ![r] = Append(@, subs[Len(@) + 1])]
      /\ bindings' = bindings \cup {<<ServiceOf[r], subs[Len(router[r]) + 1].pattern>>}
      /\ UNCHANGED <<event, stage, queue, parked, dead, up, work, routed, failed, dropped, missed, calls,
                     accepted, faults, crashes, losses>>

Table(r) == Only(router[r], {sub \in Range(router[r]) : ~sub.all})
AllHandler(r) ==
  LET all == Only(router[r], {sub \in Range(router[r]) : sub.all}) IN IF all = <<>> THEN <<>> ELSE <<Last(all).handler>>

\* match_topic: the key the broker delivered on, or without one the body's topic.
RoutedOn(e) == IF event[e].key # <<>> THEN event[e].key ELSE event[e].topic

\* Mutant of Route: by the topic in the body.
Route_byBody(r, e) ==
  IF event[e].topic = <<>> THEN <<>> ELSE MatchTopic(Table(r), event[e].topic)

\* Mutant of Route: by the key, whether or not there is one.
Route_emptyKey(r, e) == MatchTopic(Table(r), event[e].key)

\* An event with neither is ignored, with a warning: even '#' does not hear of it.
Route(r, e) == IF RoutedOn(e) = <<>> THEN <<>> ELSE MatchTopic(Table(r), RoutedOn(e))

\* default_handler: the event is decoded before any handler runs, and the handler of
\* all events, if there is one, ends before the others are looked up.
Deliver(r) ==
  LET s == ServiceOf[r]
  IN  /\ r \in up /\ work[r] = NoWork
      /\ \E c \in queue[s] :
           /\ queue' = [queue EXCEPT ![s] = @ \ {c}]
           /\ work' = [work EXCEPT ![r] =
                [copy |-> c, known |-> Known(FactoryOf[r], event[c.event].type),
                 todo |-> IF AllHandler(r) = <<>> THEN Route(r, c.event) ELSE AllHandler(r),
                 matched |-> AllHandler(r) = <<>>]]
           /\ missed' = IF router[r] = Subscriptions[s] THEN missed ELSE [missed EXCEPT ![s] = @ \cup {c}]
      /\ UNCHANGED <<event, stage, bindings, parked, dead, router, up, routed, failed, dropped, calls,
                     accepted, faults, crashes, losses>>

LookUp(r) ==
  /\ work[r] # NoWork /\ work[r].known /\ work[r].todo = <<>> /\ ~work[r].matched
  /\ work' = [work EXCEPT ![r].todo = Route(r, work[r].copy.event), ![r].matched = TRUE]
  /\ UNCHANGED <<event, stage, bindings, queue, parked, dead, router, up, routed, failed, dropped, missed,
                 calls, accepted, faults, crashes, losses>>

\* Mutant of Settle: a failure is acknowledged.
Settle_acks(r, error) ==
  /\ work' = [work EXCEPT ![r] = NoWork]
  /\ UNCHANGED <<parked, dead, failed, dropped>>

\* The end of a delivery that failed: parked for a retry, dead-lettered, or - no
\* ladder, or a HandledError - rejected into nothing.
Settle(r, error) ==
  LET s == ServiceOf[r]
      c == work[r].copy
      climbs == MaxRetries[s] > 0 /\ error # "handled"
      Put(f, there, x) == IF there THEN [f EXCEPT ![s] = @ \cup {x}] ELSE f
  IN  /\ work' = [work EXCEPT ![r] = NoWork]
      /\ failed' = Put(failed, TRUE, c)
      /\ parked' = Put(parked, climbs /\ c.retry < MaxRetries[s], [c EXCEPT !.retry = @ + 1])
      /\ dead' = Put(dead, climbs /\ c.retry = MaxRetries[s], c)
      /\ dropped' = Put(dropped, ~climbs, c)

\* The handlers are awaited one by one; the first that raises ends the delivery.
RunHandler(r) ==
  /\ work[r] # NoWork /\ work[r].known /\ work[r].todo # <<>>
  /\ LET c == work[r].copy
         Call(how) == calls' = calls \cup {[copy |-> c, handler |-> Head(work[r].todo), how |-> how,
                                            service |-> ServiceOf[r]]}
     IN  \/ /\ Call("done")
            /\ work' = [work EXCEPT ![r].todo = Tail(@)]
            /\ UNCHANGED <<parked, dead, failed, dropped, faults>>
         \/ /\ faults < MaxFaults /\ faults' = faults + 1
            /\ Call("raised")
            /\ \E error \in {"handled", "other"} : Settle(r, error)
  /\ UNCHANGED <<event, stage, bindings, queue, router, up, routed, missed, accepted, crashes, losses>>

\* An event of a type the subscriber does not know never decodes.
FailToDecode(r) ==
  /\ work[r] # NoWork /\ ~work[r].known
  /\ Settle(r, "other")
  /\ UNCHANGED <<event, stage, bindings, queue, router, up, routed, missed, calls, accepted, faults, crashes,
                 losses>>

Ack(r) ==
  /\ work[r] # NoWork /\ work[r].known /\ work[r].todo = <<>> /\ work[r].matched
  /\ work' = [work EXCEPT ![r] = NoWork]
  /\ UNCHANGED <<event, stage, bindings, queue, parked, dead, router, up, routed, failed, dropped, missed,
                 calls, accepted, faults, crashes, losses>>

\* Mutant of Redeliver: the retry queue dead-letters to the events exchange.
Redeliver_fansOut(s) ==
  /\ \E c \in parked[s] :
       /\ parked' = [parked EXCEPT ![s] = @ \ {c}]
       /\ queue' = [t \in Subscribers |-> IF Receives(t, c.event) THEN queue[t] \cup {c} ELSE queue[t]]
  /\ UNCHANGED <<event, stage, bindings, dead, router, up, work, routed, failed, dropped, missed, calls,
                 accepted, faults, crashes, losses>>

\* The time to live ends: through <Service>.Events.Redelivery, to which only this
\* queue is bound.
Redeliver(s) ==
  /\ \E c \in parked[s] :
       /\ parked' = [parked EXCEPT ![s] = @ \ {c}]
       /\ queue' = [queue EXCEPT ![s] = @ \cup {c}]
  /\ UNCHANGED <<event, stage, bindings, dead, router, up, work, routed, failed, dropped, missed, calls,
                 accepted, faults, crashes, losses>>

\* A replica is killed: its delivery was never settled, its subscriptions are gone.
Crash(r) ==
  /\ r \in up /\ crashes < MaxCrashes /\ crashes' = crashes + 1
  /\ up' = up \ {r}
  /\ router' = [router EXCEPT ![r] = <<>>]
  /\ work' = [work EXCEPT ![r] = NoWork]
  /\ queue' = IF work[r] = NoWork THEN queue ELSE [queue EXCEPT ![ServiceOf[r]] = @ \cup {work[r].copy}]
  /\ UNCHANGED <<event, stage, bindings, parked, dead, routed, failed, dropped, missed, calls, accepted,
                 faults, losses>>

--------------------------------------------------------------------------------
\* A process loads its schemas before it publishes or subscribes.
Booting == up = {} /\ crashes = 0 /\ \A e \in Events : stage[e] = "idle"

Deployed ==
  /\ Free /\ [f \in Factories |-> root[f].files] \in Deployments
  /\ \A f \in Factories : inits[f] = 1
  /\ parses = 0

EventNext ==
  \/ \E e \in Events : Publish(e) \/ Attempt(e)
  \/ \E r \in Replicas :
       Start(r) \/ Subscribe(r) \/ Deliver(r) \/ LookUp(r) \/ RunHandler(r) \/ FailToDecode(r) \/ Ack(r) \/ Crash(r)
  \/ \E s \in Subscribers : Redeliver(s)

Next ==
  \/ Booting /\ SchemaNext /\ UNCHANGED eventVars
  \/ Deployed /\ EventNext /\ UNCHANGED schemaVars

Spec == Init /\ [][Next]_vars

--------------------------------------------------------------------------------
(* Properties. *)

\* The handlers of some routes by RabbitMQ's rule.
Wanted(routes, topic) == {route.handler : route \in {route \in routes : Matches(route.pattern, topic)}}

\* The trie finds exactly the handlers whose patterns match by RabbitMQ's rule, each
\* once, on every table and topic of the instance.
TrieIsExact ==
  \A table \in Tables, topic \in Topics :
    LET found == MatchTopic(table, topic)
    IN  Range(found) = Wanted(Range(table), topic) /\ Len(found) = Cardinality(Range(found))

\* The subscriptions an event is meant for: the key decides, whatever topic the body
\* names; the body decides only where there is no key; and where there is neither,
\* the handler of all events alone hears of it.
Addressed(sub, e) ==
  LET topic == IF event[e].key = <<>> THEN event[e].topic ELSE event[e].key
  IN  sub.all \/ (topic # <<>> /\ Matches(sub.pattern, topic))
Meant(subs, e) == {sub.handler : sub \in {sub \in subs : Addressed(sub, e)}}

\* No handler runs for an event that was not meant for it: a publisher cannot reach,
\* by the topic it writes into the body, what its routing key does not match.
CallsAreRouted ==
  \A call \in calls : call.handler \in Meant(Range(Subscriptions[call.service]), call.copy.event)

RoutingIsExact == EventTypeOK /\ TrieIsExact /\ CallsAreRouted

\* "The per-subscriber exchange confines the retry to the service that failed": an
\* attempt after the first follows a failure of this very service, and only those
\* that failed on every hop are in its DLQ.
RetriesStayHome ==
  \A s \in Subscribers :
    LET here == queue[s] \cup parked[s] \cup dead[s] \cup
                {work[r].copy : r \in {r \in Replicas : ServiceOf[r] = s /\ work[r] # NoWork}}
    IN  /\ \A c \in here : /\ [c EXCEPT !.retry = 0] \in routed[s]
                           /\ \A k \in 0..c.retry - 1 : [c EXCEPT !.retry = k] \in failed[s]
        /\ dead[s] \subseteq {c \in failed[s] : c.retry = MaxRetries[s]}

\* A copy and its later attempts, and whether they are over.
Over(s, c) ==
  \A d \in queue[s] \cup parked[s] \cup {work[r].copy : r \in {r \in Replicas : ServiceOf[r] = s /\ work[r] # NoWork}} :
    d.event # c.event \/ d.n # c.n
Ended(f, c) == \E d \in f : d.event = c.event /\ d.n = c.n
HandledBy(h, s, c) ==
  \E call \in calls : /\ call.copy.event = c.event /\ call.copy.n = c.n
                      /\ call.service = s /\ call.handler = h /\ call.how = "done"

\* A service has one handler of all events: another subscribe_all() replaces it.
InForce(s) ==
  LET subs == Subscriptions[s]
      alls == Only(subs, {sub \in Range(subs) : sub.all})
  IN  {sub \in Range(subs) : sub.all => sub.handler = Last(alls).handler}

\* Once a queue is done with an event, every handler of its service that it is meant
\* for has handled it to the end, unless it is dead-lettered, or failed where nothing
\* retries it, or "excused".
HandledUnless(excused) ==
  \A s \in Subscribers : \A c \in routed[s] :
    Over(s, c) /\ ~Ended(dead[s] \cup dropped[s] \cup excused[s], c) =>
      \A h \in Meant(InForce(s), c.event) : HandledBy(h, s, c)

\* A publish() that returned is with the broker, and no queue loses it: the one
\* excuse is a replica that consumed the event before it had subscribed.
HandledOrExplained ==
  /\ \A e \in Events : stage[e] = "done" => \E c \in accepted : c.event = e
  /\ HandledUnless(missed)

\* "Every replica of a subscriber is down | survives: the queue is durable and not
\* auto-delete, so it accumulates" (docs/guide/events.md): what accumulated is
\* handled once a replica is back.
BacklogSurvives == HandledUnless([s \in Subscribers |-> {}])

================================================================================
