---------------------- MODULE ListenerLifecycle_proofs ----------------------
(***************************************************************************)
(* Theorems about ListenerLifecycle, for any set of channels, tags and      *)
(* recoveries, any number of attempts, faults and windows, and either kind  *)
(* of listener.                                                             *)
(***************************************************************************)
EXTENDS ListenerLifecycle, FiniteSetTheorems, TLAPS

(***************************************************************************)
(* The inductive invariant.  It says what each coroutine can rely on while  *)
(* it awaits the broker: which of them may be at work together, on which    *)
(* channel each of them is, who accounts for the consumer, and who will     *)
(* still declare what the channel lacks.  What a window spoils is not       *)
(* claimed after it.                                                        *)
(***************************************************************************)

Rebuilders == {"restore"} \cup Recoverers

\* None of these windows has occurred.
Clear(w)  == \A x \in w : x \notin windows
InTurn    == Clear({"overtaken"})
NoRivals  == Clear({"overslept", "second", "overtaken"})
Alone     == Clear({"overslept", "second", "overtaken", "resumed"})
Unbroken  == Clear({"overslept", "second", "overtaken", "ignored", "gaveUp", "stopInStart"})

\* start() awaits its basic_consume; close() awaits a call on the channel it gave up.
Starting == At("app", "consume")
Closing  == task["ops"].call = "close" /\ task["ops"].pc \in OnBroker

\* A rebuild without a channel, and one that has yet to consume.
Detached == \E t \in Rebuilders : task[t].pc \in {"spawned", "sleep", "open", "raised"}
Lacking  == Detached \/ \E t \in Rebuilders : task[t].pc \in {"declare", "bind", "ladder"}

\* Which call each task makes, and how far it can be in it: the owner's, the
\* closer's, and the rebuilds'.
AppFits ==
  /\ task["app"].call \in {"none", "init", "subscribe", "start"}
  /\ task["app"].pc \in {"idle", "open", "raised", "declare", "bind", "ladder", "consume"}
  /\ task["app"].call = "none" <=> IsIdle("app")
  /\ task["app"].pc \in {"open", "declare"} => task["app"].call = "init"
  /\ At("app", "bind") => task["app"].call = "subscribe"
  /\ At("app", "ladder") =>
       task["app"].call = IF kind = "event" THEN "init" ELSE "subscribe"
  /\ At("app", "consume") => task["app"].call = "start"
OpsFits ==
  /\ task["ops"].call \in {"none", "stop", "close"}
  /\ task["ops"].pc \in {"idle", "raised", "cancel", "shut"}
  /\ task["ops"].call = "none" <=> IsIdle("ops")
  /\ At("ops", "shut") => task["ops"].call = "close"
RebuildersFit ==
  /\ task["restore"].call = IF IsIdle("restore") THEN "none" ELSE "restore"
  /\ task["restore"].pc \in {"idle", "due", "open", "raised", "declare", "bind", "ladder", "consume"}
  /\ \A r \in Recoverers : /\ task[r].call = IF IsIdle(r) THEN "none" ELSE "recover"
                           /\ task[r].pc \notin {"due", "cancel", "shut"}

\* A call still awaited was issued on a channel that is still open.
AwaitedOnOpen == \A t \in Tasks : task[t].pc \in OnBroker => task[t].on \in open

\* What the connection's flags say of one another and of the rebuilds: during an
\* attempt the restorer may be at work, and no recovery but one that overslept.
ConnFits ==
  /\ conn.alive => conn.connected
  /\ ~conn.connected => conn.reconnecting
  /\ conn.attempt => conn.reconnecting
  /\ open # {} => conn.alive
  /\ conn.alive /\ conn.reconnecting => conn.attempt
  /\ ~IsIdle("restore") => conn.attempt
  /\ conn.attempt => \A r \in Recoverers : task[r].pc \in {"idle", "overslept"}
  /\ InTurn /\ At("restore", "open") => open = {}

\* Before init() has declared the queue nobody else is at work, though the restorer
\* may be waiting for its turn, and only init() itself may have a channel.
InitFits ==
  /\ lst.hears /\ ~lst.initialized =>
       /\ ~lst.started /\ ~lst.bound /\ (kind = "request" => ~lst.knows)
       /\ task["app"].call \in {"none", "init"}
       /\ IsIdle("ops") /\ \A t \in Rebuilders : task[t].pc \in {"idle", "due"}
       /\ lst.channel \in open => At("app", "declare") /\ task["app"].on = lst.channel
  /\ task["app"].pc \in {"open", "declare"} => lst.hears /\ ~lst.initialized

\* stop_consuming() and close() leave nothing that would start the consumer again.
StopFits ==
  /\ ~IsIdle("ops") \/ ~lst.hears => stopped
  /\ stopped => ~lst.attached
  /\ task["ops"].call = "close" => ~lst.hears
  /\ ~lst.hears /\ task["ops"].call # "close" => ~lst.initialized
  /\ stopped /\ Clear({"stopInStart"}) =>
       /\ ~lst.started /\ task["app"].call # "start"
       /\ task["ops"].call # "close" => lst.tag = None

\* Who starts a consumer, or declares the ladder again, knows of the ladder.
KnowingFits ==
  /\ kind = "request" => /\ lst.started => lst.knows
                         /\ task["app"].call = "start" => lst.knows
                         /\ \A r \in Recoverers : ~IsIdle(r) => lst.knows
  /\ \A t \in Tasks : At(t, "ladder") /\ (kind = "event" \/ t # "app") => lst.knows
  /\ InTurn /\ At("app", "ladder") /\ ~lst.knows /\ lst.channel \in open =>
       task["app"].on = lst.channel

\* What the channel's owner has not declared, it is about to.
QueueFits == lst.channel \in open =>
  "queue" \in broker \/ \E t \in Tasks : At(t, "declare") /\ task[t].on = lst.channel
BindingFits == lst.channel \in open /\ lst.bound =>
  \/ "binding" \in broker
  \/ \E t \in Tasks : /\ task[t].on = lst.channel
                      /\ At(t, "bind") \/ (At(t, "declare") /\ t # "app")
LadderFits == InTurn /\ lst.channel \in open /\ lst.knows =>
  \/ "ladder" \in broker
  \/ \E t \in Tasks : /\ task[t].on = lst.channel
                      /\ At(t, "ladder") \/ At(t, "declare") \/ (At(t, "bind") /\ t # "app")

\* Unless a recovery overslept or began beside another, or the owner had overtaken the
\* restorer: there is one recovery; while a rebuild has no channel the listener has
\* none; and the calls of a rebuild are on the channel that the listener holds.
OneRecovery ==
  NoRivals => \A r, s \in Recoverers : ~IsIdle(r) /\ ~IsIdle(s) => r = s
ChannelFits == NoRivals =>
  /\ Detached => lst.channel \notin open
  /\ \A t \in Rebuilders :
       task[t].pc \in OnBroker /\ (lst.hears \/ lst.channel \in open) => task[t].on = lst.channel

\* No channel is open but the listener's and the one close() is about to close.
OpenFits == NoRivals /\ Clear({"closeInRebuild", "stopInStart"}) =>
  /\ \A c \in open : c = lst.channel \/ (Closing /\ c = task["ops"].on)
  /\ ~lst.hears => lst.channel = None /\ \A t \in Tasks : ~At(t, "open")

\* Somebody accounts for the consumer: who is ending it, or who started it.
Backed(k) ==
  \/ Closing /\ task["ops"].on = k.chan
  \/ /\ k.chan = lst.channel
     /\ \/ At("ops", "cancel") /\ task["ops"].tag = k.tag /\ task["ops"].on = k.chan
        \/ k.tag = lst.tag /\ (lst.started \/ Starting)

\* There is one consumer, accounted for, and none while a rebuild has yet to
\* start it.
ConsumersFit == Alone =>
  /\ \A k \in consumers : Backed(k)
  /\ \A j, k \in consumers : j = k
  /\ Lacking => consumers = {}

\* What start() and close() can rely on while they await the broker: no rebuild
\* is about to consume as well, nor to open another channel.
StartFits == Alone =>
  /\ Closing => /\ lst.channel = None /\ \A t \in Tasks : ~At(t, "open")
                /\ \A t \in Rebuilders :
                     task[t].pc \in OnBroker => task[t].on = task["ops"].on
  /\ Starting => /\ \A t \in Rebuilders : ~At(t, "consume")
                 /\ ~Lacking
                 /\ \/ task["app"].on = lst.channel
                    \/ Closing /\ task["app"].on = task["ops"].on
  /\ ~lst.hears => consumers = {} \/ Closing
  /\ ~lst.hears /\ (lst.started \/ Starting) =>
       /\ task["ops"].call = "close" /\ lst.channel = None
       /\ ~Lacking /\ \A t \in Rebuilders : ~At(t, "consume")

\* A started listener consumes, or its channel is lost, or a rebuild is on its way
\* to the consumer.
WholeFits == Unbroken =>
  /\ lst.started \/ task["app"].call = "start" => lst.attached /\ lst.initialized
  /\ Starting => task["app"].on = lst.channel /\ \E k \in consumers : k.chan = lst.channel
  /\ lst.started => \/ \E k \in consumers : k.chan = lst.channel
                    \/ ~conn.alive \/ lst.channel \in closing
                    \/ Lacking \/ At("restore", "due")

TasksFit ==
  AppFits /\ OpsFits /\ RebuildersFit /\ AwaitedOnOpen

IInv ==
  /\ TypeOK /\ TasksFit /\ ConnFits /\ InitFits /\ StopFits /\ KnowingFits
  /\ QueueFits /\ BindingFits /\ LadderFits /\ SomewhereToFail
  /\ OneRecovery /\ ChannelFits /\ OpenFits /\ ConsumersFit /\ StartFits /\ WholeFits

--------------------------------------------------------------------------------
(* Types and roles. *)

TaskSet == [call : Calls, pc : Places, on : Channels \cup {None},
            tag : Tags \cup {None}, try : 0..MaxAttempts]
FieldSet == [channel : Channels \cup {None}, tag : Tags \cup {None},
             initialized : BOOLEAN, started : BOOLEAN, attached : BOOLEAN,
             hears : BOOLEAN, knows : BOOLEAN, bound : BOOLEAN]
ConnSet == [alive : BOOLEAN, connected : BOOLEAN, reconnecting : BOOLEAN, attempt : BOOLEAN]
ConsumerSet(o) == [chan : o, tag : Tags, climbs : BOOLEAN]

LEMMA Roles ==
  /\ "app" \in Tasks /\ "ops" \in Tasks /\ "restore" \in Tasks
  /\ "restore" \in Rebuilders /\ Recoverers \subseteq Rebuilders /\ Rebuilders \subseteq Tasks
  /\ "app" \notin Rebuilders /\ "ops" \notin Rebuilders /\ "restore" \notin Recoverers
  /\ \A t \in Tasks : t = "app" \/ t = "ops" \/ t = "restore" \/ t \in Recoverers
  /\ \A t \in Rebuilders : t = "restore" \/ t \in Recoverers
  BY TasksAssumption DEF Tasks, Rebuilders

LEMMA Types ==
  ASSUME TypeOK
  PROVE  /\ kind \in {"request", "event"} /\ conn \in ConnSet /\ broker \subseteq {"queue", "binding", "ladder"}
         /\ open \subseteq Channels /\ closing \subseteq Channels \ open
         /\ consumers \subseteq ConsumerSet(open)
         /\ lst \in FieldSet /\ task \in [Tasks -> TaskSet]
         /\ faults \in 0..MaxFaults /\ stopped \in BOOLEAN /\ windows \subseteq Windows
  BY DEF TypeOK, TaskSet, FieldSet, ConnSet, ConsumerSet

LEMMA ToTypes ==
  ASSUME kind' \in {"request", "event"}, conn' \in ConnSet, broker' \subseteq {"queue", "binding", "ladder"},
         open' \subseteq Channels, closing' \subseteq Channels \ open',
         consumers' \subseteq ConsumerSet(open'),
         lst' \in FieldSet, task' \in [Tasks -> TaskSet],
         faults' \in 0..MaxFaults, stopped' \in BOOLEAN, windows' \subseteq Windows
  PROVE  TypeOK'
  BY DEF TypeOK, TaskSet, FieldSet, ConnSet, ConsumerSet

LEMMA IdleTyped == Idle \in TaskSet
  BY BoundAssumption DEF Idle, TaskSet, Calls, Places

LEMMA FreshTagIs ==
  ASSUME TypeOK, FreshTags # {}
  PROVE  /\ FirstOf(FreshTags) \in Tags /\ FirstOf(FreshTags) # lst.tag
         /\ FirstOf(FreshTags) # task["ops"].tag /\ FirstOf(FreshTags) # None
  BY NoneAssumption DEF FirstOf, FreshTags

LEMMA FreshChannelIs ==
  ASSUME TypeOK, FreshChannels # {}
  PROVE  /\ FirstOf(FreshChannels) \in Channels \ (open \cup closing)
         /\ FirstOf(FreshChannels) # lst.channel /\ FirstOf(FreshChannels) # None
         /\ \A t \in Tasks : task[t].on # FirstOf(FreshChannels)
  BY NoneAssumption DEF FirstOf, FreshChannels

LEMMA ConsumersAre ==
  ASSUME TypeOK
  PROVE  /\ \A k \in consumers : k.chan \in open /\ k.tag \in Tags /\ k.tag # None
         /\ None \notin open /\ None \notin closing
         /\ lst.channel \in open => lst.channel # None
  BY Types, NoneAssumption DEF ConsumerSet

--------------------------------------------------------------------------------
(* What each step does to the fields and the tasks. *)

\* The step that completes one call and issues the next, field by field.
LEMMA AwaitingIs ==
  ASSUME TypeOK, NEW t \in Tasks, NEW pc \in Places, NEW l, l.channel \in Channels \cup {None}
  PROVE  /\ Awaiting(t, pc, l) \in TaskSet
         /\ Awaiting(t, pc, l).call = task[t].call
         /\ Awaiting(t, pc, l).pc = IF l.channel \in open' THEN pc ELSE "raised"
         /\ Awaiting(t, pc, l).on = l.channel
         /\ Awaiting(t, pc, l).tag = task[t].tag /\ Awaiting(t, pc, l).try = task[t].try
<1>1. task[t] \in TaskSet
  BY Types
<1>2. "raised" \in Places
  BY DEF Places
<1>3. PICK p \in Places : p = IF l.channel \in open' THEN pc ELSE "raised"
  BY <1>2
<1>4. Awaiting(t, pc, l) = [task[t] EXCEPT !.pc = p, !.on = l.channel]
  BY <1>3 DEF Awaiting
<1> QED BY <1>1, <1>3, <1>4 DEF TaskSet

\* Task t goes on to the call pc with the fields l; a consumer gets the tag g.
Goes(t, pc, l, g) ==
  /\ \A u \in Tasks : u # t => task'[u] = task[u]
  /\ pc = "done" => task'[t] = Idle
  /\ pc # "done" => /\ task'[t].call = task[t].call /\ task'[t].on = l.channel
                    /\ task'[t].pc = IF l.channel \in open' THEN pc ELSE "raised"
                    /\ task'[t].tag = task[t].tag /\ task'[t].try = task[t].try
  /\ lst'.channel = l.channel /\ lst'.initialized = l.initialized /\ lst'.started = l.started
  /\ lst'.attached = l.attached /\ lst'.hears = l.hears /\ lst'.bound = l.bound
  /\ lst'.knows = (l.knows \/ (pc = "ladder" /\ kind = "event"))
  /\ lst'.tag = IF pc = "consume" THEN g ELSE l.tag
  /\ consumers' = IF pc = "consume" /\ l.channel \in open'
                    THEN consumers \cup {[chan |-> l.channel, tag |-> g, climbs |-> l.knows]}
                    ELSE consumers
  /\ lst' \in FieldSet /\ task' \in [Tasks -> TaskSet]
  /\ g \in Tags \/ pc = "done"
  /\ g # task["ops"].tag \/ pc = "done"

LEMMA ProceedIs ==
  ASSUME TypeOK, NEW t \in Tasks, NEW l \in FieldSet,
         NEW pc \in {"declare", "bind", "ladder", "consume", "done"}, Proceed(t, pc, l)
  PROVE  \E g : Goes(t, pc, l, g)
<1> DEFINE g == FirstOf(FreshTags)
<1>0. task \in [Tasks -> TaskSet]
  BY Types
<1>1. CASE pc = "done"
  <2>1. lst' = l /\ task' = [task EXCEPT ![t] = Idle] /\ consumers' = consumers
    BY <1>1 DEF Proceed
  <2>2. task' \in [Tasks -> TaskSet] /\ task'[t] = Idle /\ \A u \in Tasks : u # t => task'[u] = task[u]
    BY <2>1, <1>0, IdleTyped
  <2>3. l.knows \in BOOLEAN
    BY DEF FieldSet
  <2> QED BY <1>1, <2>1, <2>2, <2>3 DEF Goes
<1>2. CASE pc # "done"
  <2>1. /\ lst' = KeepsTag(Names(l, pc), pc, g) /\ FreshTags # {}
        /\ task' = [task EXCEPT ![t] = Awaiting(t, pc, l)]
        /\ consumers' = IF pc = "consume" /\ l.channel \in open'
              THEN consumers \cup {[chan |-> l.channel, tag |-> g, climbs |-> l.knows]}
              ELSE consumers
    BY <1>2 DEF Proceed
  <2>2. /\ g \in Tags /\ g # task["ops"].tag
    BY <2>1, FreshTagIs
  <2> HIDE DEF g
  <2>3. pc \in Places /\ l.channel \in Channels \cup {None}
    BY <1>2 DEF Places, OnBroker, FieldSet
  <2>4. /\ task' \in [Tasks -> TaskSet] /\ \A u \in Tasks : u # t => task'[u] = task[u]
        /\ task'[t] = Awaiting(t, pc, l)
    BY <2>1, <1>0, <2>3, AwaitingIs
  <2>5. /\ lst' \in FieldSet
        /\ lst'.channel = l.channel /\ lst'.initialized = l.initialized /\ lst'.started = l.started
        /\ lst'.attached = l.attached /\ lst'.hears = l.hears /\ lst'.bound = l.bound
        /\ lst'.knows = (l.knows \/ (pc = "ladder" /\ kind = "event"))
        /\ lst'.tag = IF pc = "consume" THEN g ELSE l.tag
    <3>1. CASE pc = "consume"
      <4>1. lst' = [l EXCEPT !.tag = g]
        BY <2>1, <3>1 DEF KeepsTag, Names
      <4> QED BY <2>2, <3>1, <4>1 DEF FieldSet
    <3>2. CASE pc = "ladder" /\ kind = "event"
      <4>1. lst' = [l EXCEPT !.knows = TRUE]
        BY <2>1, <3>2 DEF KeepsTag, Names
      <4> QED BY <3>2, <4>1 DEF FieldSet
    <3>3. CASE pc # "consume" /\ ~(pc = "ladder" /\ kind = "event")
      <4>1. lst' = l
        BY <2>1, <3>3 DEF KeepsTag, Names
      <4> QED BY <3>3, <4>1 DEF FieldSet
    <3> QED BY <3>1, <3>2, <3>3
  <2>6. /\ task'[t].call = task[t].call /\ task'[t].on = l.channel
        /\ task'[t].pc = IF l.channel \in open' THEN pc ELSE "raised"
        /\ task'[t].tag = task[t].tag /\ task'[t].try = task[t].try
    BY <2>3, <2>4, AwaitingIs
  <2> QED BY <1>2, <2>1, <2>2, <2>4, <2>5, <2>6 DEF Goes
<1> QED BY <1>1, <1>2

\* Only task t moves.
Others(t) == \A u \in Tasks : u # t => task'[u] = task[u]

LEMMA CallInitIs ==
  ASSUME TypeOK, CallInit
  PROVE  /\ Others("app") /\ task' \in [Tasks -> TaskSet]
         /\ task'["app"].call = "init" /\ task'["app"].pc = "open"
<1> DEFINE r == [Idle EXCEPT !.call = "init", !.pc = "open"]
<1>1. r \in TaskSet /\ r.call = "init" /\ r.pc = "open"
  BY IdleTyped DEF Idle, TaskSet, Calls, Places
<1>2. task' = [task EXCEPT !["app"] = r]
  BY DEF CallInit
<1> HIDE DEF r
<1> QED BY <1>1, <1>2, Types, Roles DEF Others

LEMMA CallSubscribeIs ==
  ASSUME TypeOK, CallSubscribe
  PROVE  /\ Others("app") /\ task' \in [Tasks -> TaskSet] /\ lst' \in FieldSet
         /\ task'["app"].call = "subscribe" /\ task'["app"].on = lst.channel
         /\ task'["app"].pc = IF lst.channel \in open THEN "bind" ELSE "raised"
         /\ lst'.channel = lst.channel /\ lst'.tag = lst.tag
         /\ lst'.initialized = lst.initialized /\ lst'.started = lst.started
         /\ lst'.attached = lst.attached /\ lst'.hears = lst.hears /\ lst'.knows = lst.knows
         /\ lst'.bound = (lst.bound \/ kind = "event")
<1> DEFINE l == IF kind = "event" THEN [lst EXCEPT !.bound = TRUE] ELSE lst
           r == [Awaiting("app", "bind", l) EXCEPT !.call = "subscribe"]
<1>1. lst' = l /\ task' = [task EXCEPT !["app"] = r] /\ open' = open
  BY DEF CallSubscribe
<1>2. /\ l \in FieldSet /\ l.channel = lst.channel /\ l.tag = lst.tag
      /\ l.initialized = lst.initialized /\ l.started = lst.started
      /\ l.attached = lst.attached /\ l.hears = lst.hears /\ l.knows = lst.knows
      /\ l.bound = (lst.bound \/ kind = "event")
  BY Types DEF FieldSet
<1>3. l.channel \in Channels \cup {None} /\ "bind" \in Places
  BY <1>2 DEF FieldSet, Places, OnBroker
<1> HIDE DEF l
<1>4. /\ r \in TaskSet /\ r.call = "subscribe" /\ r.on = l.channel
      /\ r.pc = IF l.channel \in open THEN "bind" ELSE "raised"
  BY <1>1, <1>3, AwaitingIs, Roles DEF TaskSet, Calls
<1> HIDE DEF r
<1> QED BY <1>1, <1>2, <1>4, Types, Roles DEF Others

LEMMA CallStartIs ==
  ASSUME TypeOK, CallStart
  PROVE  \E g \in Tags :
         /\ Others("app") /\ task' \in [Tasks -> TaskSet] /\ lst' \in FieldSet
         /\ task'["app"].call = "start" /\ task'["app"].on = lst.channel
         /\ task'["app"].pc = IF lst.channel \in open THEN "consume" ELSE "raised"
         /\ lst'.channel = lst.channel /\ lst'.tag = g /\ lst'.attached = TRUE
         /\ lst'.initialized = lst.initialized /\ lst'.started = lst.started
         /\ lst'.hears = lst.hears /\ lst'.knows = lst.knows /\ lst'.bound = lst.bound
         /\ consumers' = IF lst.channel \in open
              THEN consumers \cup {[chan |-> lst.channel, tag |-> g, climbs |-> lst.knows]}
              ELSE consumers
<1> DEFINE l == [lst EXCEPT !.attached = TRUE]
           g == FirstOf(FreshTags)
           r == [Awaiting("app", "consume", l) EXCEPT !.call = "start"]
<1>1. /\ FreshTags # {} /\ lst' = KeepsTag(l, "consume", g)
      /\ task' = [task EXCEPT !["app"] = r] /\ open' = open
      /\ consumers' = IF lst.channel \in open
              THEN consumers \cup {[chan |-> lst.channel, tag |-> g, climbs |-> lst.knows]}
              ELSE consumers
  BY DEF CallStart
<1>2. g \in Tags
  BY <1>1, FreshTagIs
<1>3. /\ l \in FieldSet /\ l.channel = lst.channel /\ l.attached = TRUE
      /\ l.initialized = lst.initialized /\ l.started = lst.started
      /\ l.hears = lst.hears /\ l.knows = lst.knows /\ l.bound = lst.bound
  BY Types DEF FieldSet
<1>4. l.channel \in Channels \cup {None} /\ "consume" \in Places
  BY <1>3 DEF FieldSet, Places, OnBroker
<1> HIDE DEF l, g
<1>5. /\ r \in TaskSet /\ r.call = "start" /\ r.on = l.channel
      /\ r.pc = IF l.channel \in open THEN "consume" ELSE "raised"
  BY <1>1, <1>4, AwaitingIs, Roles DEF TaskSet, Calls
<1> HIDE DEF r
<1>6. lst' = [l EXCEPT !.tag = g]
  BY <1>1 DEF KeepsTag
<1>7. /\ lst' \in FieldSet /\ lst'.channel = lst.channel /\ lst'.tag = g /\ lst'.attached = TRUE
      /\ lst'.initialized = lst.initialized /\ lst'.started = lst.started
      /\ lst'.hears = lst.hears /\ lst'.knows = lst.knows /\ lst'.bound = lst.bound
  BY <1>2, <1>3, <1>6 DEF FieldSet
<1> QED BY <1>1, <1>2, <1>3, <1>5, <1>7, Types, Roles DEF Others

LEMMA CallStopIs ==
  ASSUME TypeOK, CallStop
  PROVE  /\ Others("ops") /\ task' \in [Tasks -> TaskSet] /\ lst' \in FieldSet
         /\ \/ /\ task' = task
               /\ lst.tag = None \/ ~conn.connected \/ lst.channel = None
            \/ /\ task'["ops"].call = "stop" /\ task'["ops"].on = lst.channel
               /\ task'["ops"].pc = IF lst.channel \in open THEN "cancel" ELSE "raised"
               /\ task'["ops"].tag = lst.tag /\ lst.tag # None
         /\ lst'.channel = lst.channel /\ lst'.tag = None
         /\ lst'.initialized = lst.initialized /\ lst'.started = FALSE
         /\ lst'.attached = FALSE /\ lst'.hears = lst.hears
         /\ lst'.knows = lst.knows /\ lst'.bound = lst.bound
<1> DEFINE r == [Awaiting("ops", "cancel", lst) EXCEPT !.call = "stop", !.tag = lst.tag]
<1>1. /\ lst' = [lst EXCEPT !.tag = None, !.started = FALSE, !.attached = FALSE]
      /\ task' = IF lst.tag # None /\ conn.connected /\ lst.channel # None
                   THEN [task EXCEPT !["ops"] = r] ELSE task
      /\ open' = open
  BY DEF CallStop
<1>2. /\ lst' \in FieldSet /\ lst'.channel = lst.channel /\ lst'.tag = None
      /\ lst'.initialized = lst.initialized /\ lst'.started = FALSE
      /\ lst'.attached = FALSE /\ lst'.hears = lst.hears
      /\ lst'.knows = lst.knows /\ lst'.bound = lst.bound
  BY <1>1, Types DEF FieldSet
<1>3. lst.channel \in Channels \cup {None} /\ lst.tag \in Tags \cup {None} /\ "cancel" \in Places
  BY Types DEF FieldSet, Places, OnBroker
<1>4. /\ r \in TaskSet /\ r.call = "stop" /\ r.on = lst.channel /\ r.tag = lst.tag
      /\ r.pc = IF lst.channel \in open THEN "cancel" ELSE "raised"
  <2>1. /\ Awaiting("ops", "cancel", lst) \in TaskSet /\ "stop" \in Calls
        /\ Awaiting("ops", "cancel", lst).on = lst.channel
        /\ Awaiting("ops", "cancel", lst).pc = IF lst.channel \in open THEN "cancel" ELSE "raised"
    BY <1>1, <1>3, AwaitingIs, Roles DEF Calls
  <2>2. PICK q \in TaskSet : q = Awaiting("ops", "cancel", lst)
    BY <2>1
  <2>3. r = [q EXCEPT !.call = "stop", !.tag = lst.tag]
    BY <2>2
  <2> HIDE DEF r
  <2> QED BY <1>3, <2>1, <2>2, <2>3 DEF TaskSet
<1> HIDE DEF r
<1> QED BY <1>1, <1>2, <1>4, Types, Roles DEF Others

LEMMA ForgottenIs ==
  ASSUME NEW l \in FieldSet
  PROVE  /\ Forgotten(l) \in FieldSet
         /\ Forgotten(l).channel = l.channel /\ Forgotten(l).tag = None
         /\ Forgotten(l).initialized = FALSE /\ Forgotten(l).started = FALSE
         /\ Forgotten(l).attached = l.attached /\ Forgotten(l).hears = l.hears
         /\ Forgotten(l).knows = l.knows /\ Forgotten(l).bound = FALSE
  BY DEF Forgotten, FieldSet

LEMMA CallCloseIs ==
  ASSUME TypeOK, CallClose
  PROVE  /\ Others("ops") /\ task' \in [Tasks -> TaskSet] /\ lst' \in FieldSet
         /\ \/ /\ task' = task /\ (~conn.connected \/ lst.channel = None)
               /\ lst'.tag = None /\ lst'.initialized = FALSE /\ lst'.bound = FALSE
            \/ /\ task'["ops"].call = "close" /\ task'["ops"].on = lst.channel
               /\ lst.channel \in open => task'["ops"].pc \in {"cancel", "shut"}
               /\ lst.channel \notin open => task'["ops"].pc = "raised"
               /\ task'["ops"].tag = lst.tag
               /\ task'["ops"].pc = "cancel" => lst.tag # None
               /\ lst'.tag = lst.tag /\ lst'.initialized = lst.initialized
               /\ lst'.bound = lst.bound
         /\ lst'.channel = None /\ lst'.started = FALSE
         /\ lst'.attached = FALSE /\ lst'.hears = FALSE /\ lst'.knows = lst.knows
<1> DEFINE l == [lst EXCEPT !.attached = FALSE, !.hears = FALSE, !.channel = None,
                            !.started = FALSE]
<1>1. /\ l \in FieldSet /\ l.channel = None /\ l.started = FALSE
      /\ l.attached = FALSE /\ l.hears = FALSE /\ l.knows = lst.knows
      /\ l.tag = lst.tag /\ l.initialized = lst.initialized /\ l.bound = lst.bound
  BY Types DEF FieldSet
<1>2. open' = open
  BY DEF CallClose
<1>3. CASE conn.connected /\ lst.channel # None
  <2>1. PICK pc \in {"cancel", "shut"} : pc = IF lst.tag # None THEN "cancel" ELSE "shut"
    OBVIOUS
  <2> DEFINE r == [Awaiting("ops", pc, lst) EXCEPT !.call = "close", !.tag = lst.tag]
  <2>2. lst' = l /\ task' = [task EXCEPT !["ops"] = r]
    BY <1>3, <2>1 DEF CallClose
  <2>3. lst.channel \in Channels \cup {None} /\ lst.tag \in Tags \cup {None} /\ pc \in Places
    BY Types DEF FieldSet, Places, OnBroker
  <2>4. /\ r \in TaskSet /\ r.call = "close" /\ r.on = lst.channel /\ r.tag = lst.tag
        /\ r.pc = IF lst.channel \in open THEN pc ELSE "raised"
    <3>1. /\ Awaiting("ops", pc, lst) \in TaskSet /\ "close" \in Calls
          /\ Awaiting("ops", pc, lst).on = lst.channel
          /\ Awaiting("ops", pc, lst).pc = IF lst.channel \in open THEN pc ELSE "raised"
      BY <1>2, <2>3, AwaitingIs, Roles DEF Calls
    <3>2. PICK q \in TaskSet : q = Awaiting("ops", pc, lst)
      BY <3>1
    <3>3. r = [q EXCEPT !.call = "close", !.tag = lst.tag]
      BY <3>2
    <3> HIDE DEF r
    <3> QED BY <2>3, <3>1, <3>2, <3>3 DEF TaskSet
  <2> HIDE DEF r, l
  <2> QED BY <1>1, <2>1, <2>2, <2>4, Types, Roles DEF Others
<1>4. CASE ~(conn.connected /\ lst.channel # None)
  <2>1. lst' = Forgotten(l) /\ task' = task
    BY <1>4 DEF CallClose
  <2> HIDE DEF l
  <2> QED BY <1>1, <1>4, <2>1, ForgottenIs, Types DEF Others
<1> QED BY <1>3, <1>4

\* Task t moves to p, or ends.
Moves(t, p) ==
  /\ Others(t) /\ task' \in [Tasks -> TaskSet]
  /\ task'[t].call = task[t].call /\ task'[t].pc = p
Ends(t) == /\ Others(t) /\ task' \in [Tasks -> TaskSet] /\ task'[t] = Idle

LEMMA EndsIs ==
  ASSUME TypeOK, NEW t \in Tasks, task' = [task EXCEPT ![t] = Idle]
  PROVE  Ends(t)
  BY Types, IdleTyped DEF Ends, Others

LEMMA OpenFailsIs ==
  ASSUME TypeOK, NEW t \in Tasks, OpenRaises(t) \/ OpenRefused(t)
  PROVE  /\ Moves(t, "raised") /\ task'[t].on = task[t].on
         /\ faults' \in 0..MaxFaults
<1>1. task' = [task EXCEPT ![t].pc = "raised"]
  BY DEF OpenRaises, OpenRefused
<1>2. faults' \in 0..MaxFaults
  BY Types, BoundAssumption DEF OpenRaises, OpenRefused, Fault
<1> QED BY <1>1, <1>2, Types DEF Moves, Others, TaskSet, Places

LEMMA AttemptFailsIs ==
  ASSUME TypeOK, NEW t \in Tasks, AttemptFails(t)
  PROVE  /\ Moves(t, "sleep") /\ lst' \in FieldSet
         /\ lst'.channel = None /\ lst'.tag = lst.tag /\ lst'.initialized = lst.initialized
         /\ lst'.started = lst.started /\ lst'.attached = lst.attached
         /\ lst'.hears = lst.hears /\ lst'.knows = lst.knows /\ lst'.bound = lst.bound
<1>1. task' = [task EXCEPT ![t].pc = "sleep", ![t].on = None]
  BY DEF AttemptFails
<1>2. lst' = [lst EXCEPT !.channel = None]
  BY DEF AttemptFails
<1>3. Moves(t, "sleep")
  BY <1>1, Types DEF Moves, Others, TaskSet, Places
<1> QED BY <1>2, <1>3, Types DEF FieldSet

LEMMA AttemptIs ==
  ASSUME TypeOK, NEW t \in Tasks, Attempt(t)
  PROVE  \/ /\ lst.started /\ conn.connected /\ ~conn.reconnecting
            /\ Moves(t, "open")
            /\ windows' = windows \cup (IF At(t, "overslept") THEN {"overslept"} ELSE {})
         \/ /\ ~lst.started \/ ~conn.connected \/ conn.reconnecting
            /\ Ends(t) /\ windows' = windows
<1>1. CASE lst.started /\ conn.connected /\ ~conn.reconnecting
  <2>1. /\ task' = [task EXCEPT ![t].pc = "open", ![t].try = @ + 1]
        /\ windows' = windows \cup (IF At(t, "overslept") THEN {"overslept"} ELSE {})
    BY <1>1 DEF Attempt, Seen
  <2>2. task[t].try + 1 \in 0..MaxAttempts
    BY Types, BoundAssumption DEF Attempt, TaskSet
  <2> QED BY <1>1, <2>1, <2>2, Types DEF Moves, Others, TaskSet, Places
<1>2. CASE ~lst.started \/ ~conn.connected \/ conn.reconnecting
  <2>1. task' = [task EXCEPT ![t] = Idle] /\ windows' = windows
    BY <1>2 DEF Attempt
  <2> QED BY <1>2, <2>1, EndsIs
<1> QED BY <1>1, <1>2

LEMMA CancelledIs ==
  ASSUME TypeOK, Cancelled
  PROVE  \/ /\ task["ops"].call = "close" /\ Moves("ops", "shut")
            /\ task'["ops"].on = task["ops"].on
         \/ task["ops"].call # "close" /\ Ends("ops")
<1>1. CASE task["ops"].call = "close"
  <2>1. task' = [task EXCEPT !["ops"] = [@ EXCEPT !.pc = "shut"]]
    BY <1>1, Types, Roles DEF Cancelled
  <2> QED BY <1>1, <2>1, Types, Roles DEF Moves, Others, TaskSet, Places, OnBroker
<1>2. CASE task["ops"].call # "close"
  <2>1. task' = [task EXCEPT !["ops"] = Idle]
    BY <1>2, Types, Roles DEF Cancelled
  <2> QED BY <1>2, <2>1, EndsIs, Roles
<1> QED BY <1>1, <1>2

LEMMA RaiseIs ==
  ASSUME TypeOK, NEW t \in Tasks, NEW cs
  PROVE  /\ Raise(t, cs) \in TaskSet /\ Raise(t, cs).call = task[t].call
         /\ Raise(t, cs).on = task[t].on /\ Raise(t, cs).tag = task[t].tag
         /\ Raise(t, cs).pc = IF task[t].pc \in OnBroker /\ task[t].on \in cs
                                THEN "raised" ELSE task[t].pc
  BY Types DEF Raise, TaskSet, Places

\* Channels cs go, and the tasks of X end.
Loses(cs, X) ==
  /\ open' = open \ cs /\ closing' = closing \cup (open \cap cs)
  /\ consumers' = {k \in consumers : k.chan \notin cs}
  /\ task' \in [Tasks -> TaskSet]
  /\ \A t \in Tasks \ X :
       /\ task'[t].call = task[t].call /\ task'[t].on = task[t].on /\ task'[t].tag = task[t].tag
       /\ task'[t].pc = IF task[t].pc \in OnBroker /\ task[t].on \in cs
                          THEN "raised" ELSE task[t].pc
  /\ \A t \in Tasks \cap X : task'[t] = Idle

LEMMA LosesIs ==
  ASSUME TypeOK, NEW cs, Drop(cs), NEW X,
         task' = [t \in Tasks |-> IF t \in X THEN Idle ELSE Raise(t, cs)]
  PROVE  Loses(cs, X)
<1>1. open' = open \ cs /\ closing' = closing \cup (open \cap cs)
      /\ consumers' = {k \in consumers : k.chan \notin cs}
  BY DEF Drop
<1>2. task' \in [Tasks -> TaskSet]
  BY RaiseIs, IdleTyped
<1>3. ASSUME NEW t \in Tasks \ X
      PROVE /\ task'[t].call = task[t].call /\ task'[t].on = task[t].on /\ task'[t].tag = task[t].tag
            /\ task'[t].pc = IF task[t].pc \in OnBroker /\ task[t].on \in cs
                          THEN "raised" ELSE task[t].pc
  BY RaiseIs
<1>4. ASSUME NEW t \in Tasks \cap X PROVE task'[t] = Idle
  OBVIOUS
<1> QED BY <1>1, <1>2, <1>3, <1>4 DEF Loses

\* A ladder whose declaration was awaited on a lost channel may be known after all.
Learns(cs) ==
  /\ lst' \in FieldSet
  /\ lst'.channel = lst.channel /\ lst'.tag = lst.tag /\ lst'.initialized = lst.initialized
  /\ lst'.started = lst.started /\ lst'.attached = lst.attached
  /\ lst'.hears = lst.hears /\ lst'.bound = lst.bound
  /\ \/ lst'.knows = lst.knows
     \/ lst'.knows = TRUE /\ \E t \in Tasks : At(t, "ladder") /\ task[t].on \in cs

LEMMA LearnsIs == ASSUME TypeOK, NEW cs, MayKnow(cs) PROVE Learns(cs)
  BY Types DEF MayKnow, Learns, FieldSet

LEMMA ShutIs ==
  ASSUME TypeOK, Shut
  PROVE  /\ Loses({task["ops"].on}, {"ops"}) /\ lst' \in FieldSet
         /\ lst'.channel = lst.channel /\ lst'.tag = None
         /\ lst'.initialized = FALSE /\ lst'.started = FALSE
         /\ lst'.attached = lst.attached /\ lst'.hears = lst.hears
         /\ lst'.knows = lst.knows /\ lst'.bound = FALSE
<1>1. lst' = Forgotten(lst) /\ Drop({task["ops"].on})
  BY DEF Shut
<1>2. task' = [t \in Tasks |-> IF t \in {"ops"} THEN Idle ELSE Raise(t, {task["ops"].on})]
  BY DEF Shut
<1> QED BY <1>1, <1>2, LosesIs, ForgottenIs, Types

LEMMA ChannelClosesIs ==
  ASSUME TypeOK, NEW c \in Channels, ChannelCloses(c)
  PROVE  c \in open /\ Loses({c}, {}) /\ Learns({c}) /\ faults' \in 0..MaxFaults
<1>1. task' = [t \in Tasks |-> IF t \in {} THEN Idle ELSE Raise(t, {c})]
  BY DEF ChannelCloses
<1>2. Drop({c}) /\ MayKnow({c}) /\ c \in open
  BY DEF ChannelCloses
<1>3. faults' \in 0..MaxFaults
  BY Types, BoundAssumption DEF ChannelCloses, Fault
<1> QED BY <1>1, <1>2, <1>3, LosesIs, LearnsIs

LEMMA SocketDiesIs ==
  ASSUME TypeOK, SocketDies
  PROVE  /\ Loses(open, {}) /\ Learns(open) /\ faults' \in 0..MaxFaults
         /\ conn' \in ConnSet /\ conn'.alive = FALSE /\ conn'.connected = conn.connected
         /\ conn'.reconnecting = conn.reconnecting /\ conn'.attempt = conn.attempt
<1>1. task' = [t \in Tasks |-> IF t \in {} THEN Idle ELSE Raise(t, open)]
  BY DEF SocketDies
<1>2. Drop(open) /\ MayKnow(open)
  BY DEF SocketDies
<1>3. faults' \in 0..MaxFaults
  BY Types, BoundAssumption DEF SocketDies, Fault
<1>4. /\ conn' \in ConnSet /\ conn'.alive = FALSE /\ conn'.connected = conn.connected
      /\ conn'.reconnecting = conn.reconnecting /\ conn'.attempt = conn.attempt
  BY Types DEF SocketDies, ConnSet
<1> QED BY <1>1, <1>2, <1>3, <1>4, LosesIs, LearnsIs

LEMMA DiscardedIs ==
  ASSUME TypeOK, RestoreFails \/ OtherRestorerFails
  PROVE  /\ Loses(open, {"restore"}) /\ Learns(open) /\ faults' \in 0..MaxFaults
         /\ conn' \in ConnSet /\ conn'.alive = FALSE /\ conn'.connected = FALSE
         /\ conn'.reconnecting = TRUE /\ conn'.attempt = FALSE /\ conn.attempt
         /\ UNCHANGED <<kind, stopped, broker, windows>>
<1>0. Discarded
  BY DEF RestoreFails, OtherRestorerFails
<1>1. task' = [t \in Tasks |-> IF t \in {"restore"} THEN Idle ELSE Raise(t, open)]
  BY <1>0 DEF Discarded
<1>2. Drop(open) /\ MayKnow(open) /\ UNCHANGED <<kind, stopped, broker, windows>>
  BY <1>0 DEF Discarded
<1>3. faults' \in 0..MaxFaults
  BY Types, BoundAssumption DEF RestoreFails, OtherRestorerFails, Fault
<1>4. /\ conn' \in ConnSet /\ conn'.alive = FALSE /\ conn'.connected = FALSE
      /\ conn'.reconnecting = TRUE /\ conn'.attempt = FALSE /\ conn.attempt
  BY <1>0 DEF Discarded, ConnSet
<1> QED BY <1>1, <1>2, <1>3, <1>4, LosesIs, LearnsIs

LEMMA HandleClosedIs ==
  ASSUME TypeOK, HandleClosed
  PROVE  /\ lst' \in FieldSet /\ lst'.initialized = lst.initialized
         /\ lst'.started = lst.started /\ lst'.attached = lst.attached
         /\ lst'.hears = lst.hears /\ lst'.knows = lst.knows /\ lst'.bound = lst.bound
         /\ lst'.channel = (IF lst.hears THEN None ELSE lst.channel)
         /\ lst'.tag = (IF lst.hears THEN None ELSE lst.tag)
         /\ conn' \in ConnSet /\ conn'.alive = FALSE /\ conn'.connected = FALSE
         /\ conn'.reconnecting = TRUE /\ conn'.attempt = conn.attempt
<1>1. conn' = [conn EXCEPT !.connected = FALSE, !.reconnecting = TRUE] /\ ~conn.alive
  BY DEF HandleClosed
<1>2. lst' = IF lst.hears THEN [lst EXCEPT !.channel = None, !.tag = None] ELSE lst
  BY DEF HandleClosed
<1>3. /\ conn' \in ConnSet /\ conn'.alive = FALSE /\ conn'.connected = FALSE
      /\ conn'.reconnecting = TRUE /\ conn'.attempt = conn.attempt
  BY <1>1, Types DEF ConnSet
<1> QED BY <1>2, <1>3, Types DEF FieldSet

LEMMA ReconnectIs ==
  ASSUME TypeOK, Reconnect
  PROVE  /\ task' \in [Tasks -> TaskSet]
         /\ \A t \in Tasks \ {"restore"} :
              /\ task'[t].call = task[t].call /\ task'[t].on = task[t].on /\ task'[t].tag = task[t].tag
              /\ task'[t].pc = IF At(t, "sleep") THEN "overslept" ELSE task[t].pc
         /\ lst.attached =>
              task'["restore"].call = "restore" /\ task'["restore"].pc = "due"
         /\ ~lst.attached =>
              /\ task'["restore"].call = task["restore"].call
              /\ task'["restore"].pc = IF At("restore", "sleep") THEN "overslept" ELSE task["restore"].pc
         /\ conn' \in ConnSet /\ conn'.alive = TRUE /\ conn'.connected = TRUE
         /\ conn'.reconnecting = TRUE /\ conn'.attempt = TRUE
         /\ broker' \subseteq {"queue", "binding", "ladder"} /\ faults' \in 0..MaxFaults
<1> DEFINE r == [Idle EXCEPT !.call = "restore", !.pc = "due"]
           new(t) == IF t = "restore" /\ lst.attached THEN r
                     ELSE IF At(t, "sleep") THEN [task[t] EXCEPT !.pc = "overslept"] ELSE task[t]
<1>1. task' = [t \in Tasks |-> new(t)]
  BY DEF Reconnect
<1>2. r \in TaskSet /\ r.call = "restore" /\ r.pc = "due"
  BY IdleTyped DEF Idle, TaskSet, Calls, Places
<1> HIDE DEF r
<1>3. ASSUME NEW t \in Tasks PROVE new(t) \in TaskSet
  BY <1>2, Types DEF TaskSet, Places
<1>4. ASSUME NEW t \in Tasks, ~(t = "restore" /\ lst.attached)
      PROVE  /\ new(t).call = task[t].call /\ new(t).on = task[t].on /\ new(t).tag = task[t].tag
             /\ new(t).pc = IF At(t, "sleep") THEN "overslept" ELSE task[t].pc
  BY <1>4, Types DEF TaskSet, At
<1>5. lst.attached => new("restore") = r
  OBVIOUS
<1> HIDE DEF new
<1>6. task' \in [Tasks -> TaskSet]
  BY <1>1, <1>3
<1>7. /\ conn' \in ConnSet /\ conn'.alive = TRUE /\ conn'.connected = TRUE
      /\ conn'.reconnecting = TRUE /\ conn'.attempt = TRUE
  BY DEF Reconnect, ConnSet
<1>8. broker' \subseteq {"queue", "binding", "ladder"} /\ faults' \in 0..MaxFaults
  BY Types, BoundAssumption DEF Reconnect, Fault
<1> QED BY <1>1, <1>2, <1>4, <1>5, <1>6, <1>7, <1>8, Roles

LEMMA RestoreTurnIs ==
  ASSUME TypeOK, RestoreTurn
  PROVE  /\ task' \in [Tasks -> TaskSet]
         /\ \A t \in Tasks \ {"restore"} : task'[t] = task[t]
         /\ lst.initialized =>
              /\ task'["restore"].call = task["restore"].call /\ task'["restore"].pc = "open"
              /\ windows' = windows \cup (IF Overtaken THEN {"overtaken"} ELSE {})
         /\ ~lst.initialized =>
              /\ task'["restore"].call = "none" /\ task'["restore"].pc = "idle"
              /\ windows' = windows
<1>1. task \in [Tasks -> TaskSet] /\ Idle \in TaskSet
  BY Types, IdleTyped
<1>2. CASE lst.initialized
  <2>1. /\ task' = [task EXCEPT !["restore"].pc = "open"]
        /\ windows' = windows \cup (IF Overtaken THEN {"overtaken"} ELSE {})
    BY <1>2 DEF RestoreTurn, Seen
  <2> QED BY <1>1, <1>2, <2>1, Roles DEF TaskSet, Places
<1>3. CASE ~lst.initialized
  <2>1. task' = [task EXCEPT !["restore"] = Idle] /\ windows' = windows
    BY <1>3 DEF RestoreTurn
  <2> QED BY <1>1, <1>3, <2>1, Roles DEF Idle
<1> QED BY <1>2, <1>3

\* on_closed() starts a recovery.
Spawns(r) ==
  /\ Others(r) /\ task' \in [Tasks -> TaskSet]
  /\ task'[r].call = "recover" /\ task'[r].pc = "spawned"

LEMMA OnClosedIs ==
  ASSUME TypeOK, NEW c \in Channels, OnClosed(c)
  PROVE  \/ /\ lst.channel = c /\ lst.started /\ conn.connected /\ ~conn.reconnecting
            /\ \E r \in Recoverers \ Recovering : Spawns(r)
            /\ lst' \in FieldSet /\ lst'.channel = None /\ lst'.tag = None
            /\ lst'.initialized = lst.initialized /\ lst'.started = lst.started
            /\ lst'.attached = lst.attached /\ lst'.hears = lst.hears
            /\ lst'.knows = lst.knows /\ lst'.bound = lst.bound
            /\ windows' = windows \cup (IF Recovering # {} THEN {"second"} ELSE {})
         \/ /\ lst.channel # c \/ ~lst.started \/ ~conn.connected \/ conn.reconnecting
            /\ windows' = windows \cup
                 (IF lst.channel = c /\ lst.started /\ conn.alive /\ conn.reconnecting
                    /\ IsIdle("restore") THEN {"ignored"} ELSE {})
            /\ UNCHANGED <<lst, task>>
<1>1. CASE lst.channel = c /\ lst.started /\ conn.connected /\ ~conn.reconnecting
  <2> DEFINE s == [Idle EXCEPT !.call = "recover", !.pc = "spawned"]
  <2>1. PICK r \in Recoverers \ Recovering : task' = [task EXCEPT ![r] = s]
    BY <1>1 DEF OnClosed
  <2>2. s \in TaskSet /\ s.call = "recover" /\ s.pc = "spawned"
    BY IdleTyped DEF Idle, TaskSet, Calls, Places
  <2>3. r \in Tasks
    BY Roles
  <2> HIDE DEF s
  <2>4. Spawns(r)
    BY <2>1, <2>2, <2>3, Types DEF Spawns, Others
  <2>5. lst' = [lst EXCEPT !.channel = None, !.tag = None]
    BY <1>1 DEF OnClosed
  <2>6. windows' = windows \cup (IF Recovering # {} THEN {"second"} ELSE {})
    BY <1>1 DEF OnClosed, Seen
  <2>7. /\ lst' \in FieldSet /\ lst'.channel = None /\ lst'.tag = None
        /\ lst'.initialized = lst.initialized /\ lst'.started = lst.started
        /\ lst'.attached = lst.attached /\ lst'.hears = lst.hears
        /\ lst'.knows = lst.knows /\ lst'.bound = lst.bound
    BY <2>5, Types DEF FieldSet
  <2> QED BY <1>1, <2>4, <2>6, <2>7
<1>2. CASE ~(lst.channel = c /\ lst.started /\ conn.connected /\ ~conn.reconnecting)
  BY <1>2 DEF OnClosed, Seen
<1> QED BY <1>1, <1>2

LEMMA TakesChannel ==
  ASSUME NEW l \in FieldSet, NEW c \in Channels
  PROVE  /\ [l EXCEPT !.channel = c] \in FieldSet
         /\ [l EXCEPT !.channel = c].channel = c /\ [l EXCEPT !.channel = c].tag = l.tag
         /\ [l EXCEPT !.channel = c].initialized = l.initialized
         /\ [l EXCEPT !.channel = c].started = l.started
         /\ [l EXCEPT !.channel = c].attached = l.attached
         /\ [l EXCEPT !.channel = c].hears = l.hears
         /\ [l EXCEPT !.channel = c].knows = l.knows
         /\ [l EXCEPT !.channel = c].bound = l.bound
  BY DEF FieldSet

LEMMA OpenedIs ==
  ASSUME TypeOK, NEW t \in Tasks, Opened(t)
  PROVE  \E c \in Channels \ (open \cup closing) :
         /\ c # lst.channel /\ c # None /\ open' = open \cup {c}
         /\ task[t].pc = "open" /\ conn.alive
         /\ UNCHANGED <<kind, stopped, conn, broker, closing, consumers, faults, windows>>
         /\ Others(t) /\ task' \in [Tasks -> TaskSet]
         /\ task'[t].call = task[t].call /\ task'[t].on = c /\ task'[t].pc = "declare"
         /\ task'[t].tag = task[t].tag /\ lst' \in FieldSet
         /\ lst'.channel = c /\ lst'.tag = lst.tag /\ lst'.initialized = lst.initialized
         /\ lst'.started = lst.started /\ lst'.attached = lst.attached
         /\ lst'.hears = lst.hears /\ lst'.knows = lst.knows /\ lst'.bound = lst.bound
         /\ \A u \in Tasks : task[u].on # c
<1> DEFINE c == FirstOf(FreshChannels)
           l == [lst EXCEPT !.channel = c]
<1>1. /\ FreshChannels # {} /\ open' = open \cup {c} /\ Proceed(t, "declare", l)
      /\ At(t, "open") /\ conn.alive
      /\ UNCHANGED <<kind, stopped, conn, broker, closing, faults, windows>>
  BY DEF Opened
<1>2. /\ c \in Channels \ (open \cup closing) /\ c # lst.channel /\ c # None
      /\ \A u \in Tasks : task[u].on # c
  BY <1>1, FreshChannelIs
<1> HIDE DEF c
<1>3. /\ l \in FieldSet /\ l.channel = c /\ l.tag = lst.tag /\ l.initialized = lst.initialized
      /\ l.started = lst.started /\ l.attached = lst.attached
      /\ l.hears = lst.hears /\ l.knows = lst.knows /\ l.bound = lst.bound
  BY <1>2, TakesChannel, Types
<1> HIDE DEF l
<1>4. PICK g : Goes(t, "declare", l, g)
  BY <1>1, <1>3, ProceedIs
<1>5. l.knows \in BOOLEAN
  BY <1>3 DEF FieldSet
<1> QED BY <1>1, <1>2, <1>3, <1>4, <1>5 DEF Goes, Others, At

\* Task t leaves a declaration for the next one, or ends.
Advances(t, pc) ==
  /\ Others(t) /\ task' \in [Tasks -> TaskSet] /\ lst' \in FieldSet
  /\ pc = "done" => task'[t].pc = "idle" /\ task'[t].call = "none"
  /\ pc # "done" => /\ task'[t].call = task[t].call /\ task'[t].on = lst.channel
                    /\ task'[t].pc = IF lst.channel \in open THEN pc ELSE "raised"
  /\ lst'.channel = lst.channel /\ lst'.tag = lst.tag /\ lst'.started = lst.started
  /\ lst'.attached = lst.attached /\ lst'.hears = lst.hears
  /\ lst'.knows = (lst.knows \/ (pc = "ladder" /\ kind = "event"))
  /\ UNCHANGED <<kind, stopped, conn, open, closing, consumers, faults, windows>>

LEMMA AdvancesIs ==
  ASSUME TypeOK, NEW t \in Tasks, NEW l \in FieldSet,
         NEW pc \in {"bind", "ladder", "done"}, Proceed(t, pc, l),
         l.channel = lst.channel, l.tag = lst.tag, l.started = lst.started,
         l.attached = lst.attached, l.hears = lst.hears, l.knows = lst.knows,
         UNCHANGED <<kind, stopped, conn, open, closing, faults, windows>>
  PROVE  Advances(t, pc) /\ lst'.bound = l.bound /\ lst'.initialized = l.initialized
<1>1. PICK g : Goes(t, pc, l, g)
  BY ProceedIs
<1>2. /\ Others(t) /\ consumers' = consumers
      /\ pc = "done" => task'[t].pc = "idle" /\ task'[t].call = "none"
  BY <1>1 DEF Goes, Others, Idle
<1>3. l.knows \in BOOLEAN
  BY DEF FieldSet
<1> QED BY <1>1, <1>2 DEF Goes, Advances

LEMMA ConsumingIs ==
  ASSUME TypeOK, NEW t \in Tasks, Consuming(t)
  PROVE  /\ task[t].pc = "consume" /\ Others(t) /\ task' \in [Tasks -> TaskSet]
         /\ task'[t].pc = "idle" /\ task'[t].call = "none" /\ lst' \in FieldSet
         /\ lst'.channel = lst.channel /\ lst'.tag = lst.tag /\ lst'.initialized = lst.initialized
         /\ lst'.started = (lst.started \/ task[t].call = "start")
         /\ lst'.attached = lst.attached /\ lst'.hears = lst.hears
         /\ lst'.knows = lst.knows /\ lst'.bound = lst.bound
         /\ UNCHANGED <<kind, stopped, conn, broker, open, closing, consumers, faults, windows>>
<1>1. /\ lst' = [lst EXCEPT !.started = @ \/ task[t].call = "start"]
      /\ task' = [task EXCEPT ![t] = Idle] /\ task[t].pc = "consume"
      /\ UNCHANGED <<kind, stopped, conn, broker, open, closing, consumers, faults, windows>>
  BY DEF Consuming, Proceed, At
<1>2. Ends(t)
  BY <1>1, EndsIs
<1>3. /\ lst' \in FieldSet /\ lst'.channel = lst.channel /\ lst'.tag = lst.tag
      /\ lst'.initialized = lst.initialized
      /\ lst'.started = (lst.started \/ task[t].call = "start")
      /\ lst'.attached = lst.attached /\ lst'.hears = lst.hears
      /\ lst'.knows = lst.knows /\ lst'.bound = lst.bound
  BY <1>1, Types DEF FieldSet
<1> QED BY <1>1, <1>2, <1>3 DEF Ends, Idle

LEMMA LadderDeclaredIs ==
  ASSUME TypeOK, NEW t \in Tasks, LadderDeclared(t)
  PROVE  \E g :
         /\ task[t].pc = "ladder" /\ broker' = broker \cup {"ladder"}
         /\ UNCHANGED <<kind, stopped, conn, open, closing, faults, windows>>
         /\ Others(t) /\ task' \in [Tasks -> TaskSet] /\ lst' \in FieldSet
         /\ lst'.channel = lst.channel /\ lst'.initialized = lst.initialized
         /\ lst'.started = lst.started /\ lst'.attached = lst.attached
         /\ lst'.hears = lst.hears /\ lst'.knows = TRUE /\ lst'.bound = lst.bound
         /\ \/ /\ ~(task[t].call \in {"restore", "recover"} /\ lst.started)
               /\ task'[t].pc = "idle" /\ task'[t].call = "none"
               /\ lst'.tag = lst.tag /\ consumers' = consumers
            \/ /\ task[t].call \in {"restore", "recover"} /\ lst.started
               /\ task'[t].call = task[t].call /\ task'[t].on = lst.channel
               /\ task'[t].pc = IF lst.channel \in open THEN "consume" ELSE "raised"
               /\ lst'.tag = g /\ g \in Tags /\ g # task["ops"].tag
               /\ consumers' = IF lst.channel \in open
                    THEN consumers \cup {[chan |-> lst.channel, tag |-> g, climbs |-> TRUE]}
                    ELSE consumers
<1> DEFINE l == [lst EXCEPT !.knows = TRUE]
           pc == AfterLadder(task[t].call, l)
<1>1. /\ task[t].pc = "ladder" /\ broker' = broker \cup {"ladder"} /\ Proceed(t, pc, l)
      /\ UNCHANGED <<kind, stopped, conn, open, closing, faults, windows>>
  BY DEF LadderDeclared, At
<1>2. /\ l \in FieldSet /\ l.channel = lst.channel /\ l.tag = lst.tag
      /\ l.initialized = lst.initialized /\ l.started = lst.started
      /\ l.attached = lst.attached /\ l.hears = lst.hears
      /\ l.knows = TRUE /\ l.bound = lst.bound
  BY Types DEF FieldSet
<1>3. pc = IF task[t].call \in {"restore", "recover"} /\ lst.started THEN "consume" ELSE "done"
  BY <1>2 DEF AfterLadder
<1> HIDE DEF l, pc
<1>4. PICK g : Goes(t, pc, l, g)
  BY <1>1, <1>2, <1>3, ProceedIs
<1>5. /\ Others(t) /\ task' \in [Tasks -> TaskSet] /\ lst' \in FieldSet
      /\ lst'.channel = lst.channel /\ lst'.initialized = lst.initialized
      /\ lst'.started = lst.started /\ lst'.attached = lst.attached
      /\ lst'.hears = lst.hears /\ lst'.knows = TRUE /\ lst'.bound = lst.bound
  BY <1>2, <1>4 DEF Goes, Others
<1>6. ASSUME task[t].call \in {"restore", "recover"}, lst.started
      PROVE  /\ task'[t].call = task[t].call /\ task'[t].on = lst.channel
             /\ task'[t].pc = IF lst.channel \in open THEN "consume" ELSE "raised"
             /\ lst'.tag = g /\ g \in Tags /\ g # task["ops"].tag
             /\ consumers' = IF lst.channel \in open
                  THEN consumers \cup {[chan |-> lst.channel, tag |-> g, climbs |-> TRUE]}
                  ELSE consumers
  BY <1>1, <1>2, <1>3, <1>4, <1>6 DEF Goes
<1>7. ASSUME ~(task[t].call \in {"restore", "recover"} /\ lst.started)
      PROVE  /\ task'[t].pc = "idle" /\ task'[t].call = "none"
             /\ lst'.tag = lst.tag /\ consumers' = consumers
  BY <1>1, <1>2, <1>3, <1>4, <1>7 DEF Goes, Idle
<1> QED BY <1>1, <1>5, <1>6, <1>7

LEMMA DeclaredIs ==
  ASSUME IInv, NEW t \in Tasks, Declared(t)
  PROVE  \E pc \in {"bind", "ladder", "done"} :
         /\ Advances(t, pc) /\ task[t].pc = "declare" /\ broker' = broker \cup {"queue"}
         /\ lst'.bound = lst.bound /\ lst'.initialized = (lst.initialized \/ t = "app")
         /\ \/ t = "app" /\ pc = IF kind = "event" THEN "ladder" ELSE "done"
            \/ /\ t \in Rebuilders
               /\ \/ pc = "bind" /\ lst.bound
                  \/ pc = "ladder" /\ ~lst.bound /\ (kind = "event" \/ lst.knows)
                  \/ pc = "done" /\ ~lst.bound /\ kind = "request" /\ ~lst.knows /\ ~lst.started
<1> DEFINE l == [lst EXCEPT !.initialized = @ \/ task[t].call = "init"]
           pc == AfterDeclare(task[t].call, l)
<1>1. /\ task[t].pc = "declare" /\ broker' = broker \cup {"queue"} /\ Proceed(t, pc, l)
      /\ UNCHANGED <<kind, stopped, conn, open, closing, faults, windows>>
  BY DEF Declared, At
<1>2. /\ l \in FieldSet /\ l.channel = lst.channel /\ l.tag = lst.tag
      /\ l.initialized = (lst.initialized \/ task[t].call = "init") /\ l.started = lst.started
      /\ l.attached = lst.attached /\ l.hears = lst.hears
      /\ l.knows = lst.knows /\ l.bound = lst.bound
  BY Types DEF IInv, FieldSet
<1>3. \/ t = "app" /\ task[t].call = "init"
      \/ t \in Rebuilders /\ task[t].call \in {"restore", "recover"}
  BY <1>1, Roles DEF IInv, TasksFit, AppFits, OpsFits, RebuildersFit, IsIdle, At
<1>4. kind = "request" /\ lst.started => lst.knows
  BY DEF IInv, KnowingFits
<1>5. /\ pc \in {"bind", "ladder", "done"}
      /\ \/ t = "app" /\ pc = IF kind = "event" THEN "ladder" ELSE "done"
         \/ /\ t \in Rebuilders
            /\ \/ pc = "bind" /\ lst.bound
               \/ pc = "ladder" /\ ~lst.bound /\ (kind = "event" \/ lst.knows)
               \/ pc = "done" /\ ~lst.bound /\ kind = "request" /\ ~lst.knows /\ ~lst.started
  BY <1>2, <1>3, <1>4, Types DEF IInv, AfterDeclare, AfterBind, AfterLadder
<1> HIDE DEF l, pc
<1>6. Advances(t, pc) /\ lst'.bound = l.bound /\ lst'.initialized = l.initialized
  BY <1>1, <1>2, <1>5, AdvancesIs DEF IInv
<1>7. l.initialized = (lst.initialized \/ t = "app")
  BY <1>2, <1>3, Roles
<1> QED BY <1>1, <1>2, <1>5, <1>6, <1>7

LEMMA BoundIs ==
  ASSUME IInv, NEW t \in Tasks, Bound(t)
  PROVE  \E pc \in {"bind", "ladder", "done"} :
         /\ Advances(t, pc) /\ task[t].pc = "bind" /\ broker' = broker \cup {"binding"}
         /\ lst'.bound = (lst.bound \/ t = "app") /\ lst'.initialized = lst.initialized
         /\ \/ t = "app" /\ pc = IF kind = "request" THEN "ladder" ELSE "done"
            \/ /\ t \in Rebuilders
               /\ \/ pc = "ladder" /\ (kind = "event" \/ lst.knows)
                  \/ pc = "done" /\ kind = "request" /\ ~lst.knows /\ ~lst.started
<1> DEFINE l == [lst EXCEPT !.bound = @ \/ task[t].call = "subscribe"]
           pc == AfterBind(task[t].call, l)
<1>1. /\ task[t].pc = "bind" /\ broker' = broker \cup {"binding"} /\ Proceed(t, pc, l)
      /\ UNCHANGED <<kind, stopped, conn, open, closing, faults, windows>>
  BY DEF Bound, At
<1>2. /\ l \in FieldSet /\ l.channel = lst.channel /\ l.tag = lst.tag
      /\ l.bound = (lst.bound \/ task[t].call = "subscribe") /\ l.started = lst.started
      /\ l.attached = lst.attached /\ l.hears = lst.hears
      /\ l.knows = lst.knows /\ l.initialized = lst.initialized
  BY Types DEF IInv, FieldSet
<1>3. \/ t = "app" /\ task[t].call = "subscribe"
      \/ t \in Rebuilders /\ task[t].call \in {"restore", "recover"}
  BY <1>1, Roles DEF IInv, TasksFit, AppFits, OpsFits, RebuildersFit, IsIdle, At
<1>4. kind = "request" /\ lst.started => lst.knows
  BY DEF IInv, KnowingFits
<1>5. /\ pc \in {"bind", "ladder", "done"}
      /\ \/ t = "app" /\ pc = IF kind = "request" THEN "ladder" ELSE "done"
         \/ /\ t \in Rebuilders
            /\ \/ pc = "ladder" /\ (kind = "event" \/ lst.knows)
               \/ pc = "done" /\ kind = "request" /\ ~lst.knows /\ ~lst.started
  BY <1>2, <1>3, <1>4, Types DEF IInv, AfterBind, AfterLadder
<1> HIDE DEF l, pc
<1>6. Advances(t, pc) /\ lst'.bound = l.bound /\ lst'.initialized = l.initialized
  BY <1>1, <1>2, <1>5, AdvancesIs DEF IInv
<1>7. l.bound = (lst.bound \/ t = "app")
  BY <1>2, <1>3, Roles
<1> QED BY <1>1, <1>2, <1>5, <1>6, <1>7

--------------------------------------------------------------------------------
(* Each step preserves the invariant. The calls of the owner. *)

LEMMA CallInitKeeps ==
  ASSUME IInv, CallInit PROVE IInv'
<1> USE DEF IInv, TasksFit, At, IsIdle
<1>1. /\ Others("app") /\ task' \in [Tasks -> TaskSet]
      /\ task'["app"].call = "init" /\ task'["app"].pc = "open"
  BY CallInitIs
<1>2. /\ IsIdle("app") /\ ~lst.initialized /\ lst.hears /\ conn.connected
      /\ UNCHANGED <<kind, stopped, conn, broker, open, closing, consumers, lst, faults, windows>>
  BY DEF CallInit
<1>3. \A u \in Tasks : u # "app" => task'[u] = task[u]
  BY <1>1 DEF Others
<1>4. TypeOK'
  BY <1>1, <1>2, ToTypes, Types
<1>5. AppFits'
  BY <1>1, <1>2 DEF AppFits
<1>6. OpsFits'
  BY <1>1, <1>2, <1>3, Roles DEF OpsFits
<1>7. RebuildersFit'
  BY <1>1, <1>2, <1>3, Roles DEF RebuildersFit
<1>8. AwaitedOnOpen'
  BY <1>1, <1>2, <1>3 DEF AwaitedOnOpen, OnBroker
<1>9. ConnFits'
  BY <1>1, <1>2, <1>3, Roles DEF ConnFits, InTurn, Clear
<1>10. InitFits'
  BY <1>1, <1>2, <1>3, Roles DEF InitFits
<1>11. StopFits'
  BY <1>1, <1>2, <1>3, Roles DEF StopFits, Clear
<1>12. KnowingFits'
  BY <1>1, <1>2, <1>3, Roles DEF KnowingFits
<1>13. QueueFits'
  BY <1>1, <1>2, <1>3 DEF QueueFits
<1>14. BindingFits'
  BY <1>1, <1>2, <1>3 DEF BindingFits
<1>15. LadderFits'
  BY <1>1, <1>2, <1>3 DEF LadderFits, InTurn, Clear
<1>16. SomewhereToFail'
  BY <1>1, <1>2 DEF SomewhereToFail
<1>17. OneRecovery'
  BY <1>1, <1>2, <1>3, Roles DEF OneRecovery, NoRivals, Clear
<1>18. ChannelFits'
  BY <1>1, <1>2, <1>3, Roles DEF ChannelFits, NoRivals, Clear, Detached
<1>19. OpenFits'
  BY <1>1, <1>2, <1>3, Roles DEF OpenFits, NoRivals, Clear, Closing
<1>20. ConsumersFit'
  BY <1>1, <1>2, <1>3, Roles
  DEF ConsumersFit, Backed, Alone, Clear, Lacking, Detached, Closing, Starting
<1>21. StartFits'
  BY <1>1, <1>2, <1>3, Roles DEF StartFits, Closing, Starting, StopFits
<1>22. WholeFits'
  BY <1>1, <1>2 DEF WholeFits, Unbroken, Clear, Starting
<1> QED BY <1>4, <1>5, <1>6, <1>7, <1>8, <1>9, <1>10, <1>11, <1>12, <1>13, <1>14, <1>15,
           <1>16, <1>17, <1>18, <1>19, <1>20, <1>21, <1>22

LEMMA CallSubscribeKeeps ==
  ASSUME IInv, CallSubscribe PROVE IInv'
<1> USE DEF IInv, TasksFit, At, IsIdle
<1>1. /\ Others("app") /\ task' \in [Tasks -> TaskSet] /\ lst' \in FieldSet
      /\ task'["app"].call = "subscribe" /\ task'["app"].on = lst.channel
      /\ task'["app"].pc = IF lst.channel \in open THEN "bind" ELSE "raised"
      /\ lst'.channel = lst.channel /\ lst'.tag = lst.tag
      /\ lst'.initialized = lst.initialized /\ lst'.started = lst.started
      /\ lst'.attached = lst.attached /\ lst'.hears = lst.hears /\ lst'.knows = lst.knows
      /\ lst'.bound = (lst.bound \/ kind = "event")
  BY CallSubscribeIs
<1>2. /\ IsIdle("app") /\ lst.initialized /\ ~lst.bound /\ (kind = "request" => ~lst.started)
      /\ UNCHANGED <<kind, stopped, conn, broker, open, closing, consumers, faults, windows>>
  BY DEF CallSubscribe
<1>3. \A u \in Tasks : u # "app" => task'[u] = task[u]
  BY <1>1 DEF Others
<1>4. TypeOK'
  BY <1>1, <1>2, ToTypes, Types
<1>5. AppFits'
  BY <1>1, <1>2 DEF AppFits
<1>6. OpsFits'
  BY <1>1, <1>2, <1>3, Roles DEF OpsFits
<1>7. RebuildersFit'
  BY <1>1, <1>2, <1>3, Roles DEF RebuildersFit
<1>8. AwaitedOnOpen'
  BY <1>1, <1>2, <1>3 DEF AwaitedOnOpen, OnBroker
<1>9. ConnFits'
  BY <1>1, <1>2, <1>3, Roles DEF ConnFits, InTurn, Clear
<1>10. InitFits'
  BY <1>1, <1>2 DEF InitFits
<1>11. StopFits'
  BY <1>1, <1>2, <1>3, Roles DEF StopFits, Clear
<1>12. KnowingFits'
  BY <1>1, <1>2, <1>3, Roles DEF KnowingFits
<1>13. QueueFits'
  BY <1>1, <1>2, <1>3 DEF QueueFits
<1>14. BindingFits'
  BY <1>1, <1>2, Roles DEF BindingFits
<1>15. LadderFits'
  BY <1>1, <1>2, <1>3 DEF LadderFits, InTurn, Clear
<1>16. SomewhereToFail'
  BY <1>1, <1>2 DEF SomewhereToFail
<1>17. OneRecovery'
  BY <1>1, <1>2, <1>3, Roles DEF OneRecovery, NoRivals, Clear
<1>18. ChannelFits'
  BY <1>1, <1>2, <1>3, Roles DEF ChannelFits, NoRivals, Clear, Detached
<1>19. OpenFits'
  BY <1>1, <1>2, <1>3, Roles DEF OpenFits, NoRivals, Clear, Closing
<1>20. ConsumersFit'
  BY <1>1, <1>2, <1>3, Roles
  DEF ConsumersFit, Backed, Alone, Clear, Lacking, Detached, Closing, Starting
<1>21. StartFits'
  BY <1>1, <1>2, <1>3, Roles
  DEF StartFits, Alone, Clear, Lacking, Detached, Closing, Starting
<1>22. WholeFits'
  BY <1>1, <1>2, <1>3, Roles DEF WholeFits, Unbroken, Clear, Lacking, Detached, Starting
<1> QED BY <1>4, <1>5, <1>6, <1>7, <1>8, <1>9, <1>10, <1>11, <1>12, <1>13, <1>14, <1>15,
           <1>16, <1>17, <1>18, <1>19, <1>20, <1>21, <1>22

\* start() over a rebuild is the window "resumed".
LEMMA CallStartKeeps ==
  ASSUME IInv, CallStart PROVE IInv'
<1> USE DEF IInv, TasksFit, At, IsIdle
<1>1. PICK g \in Tags :
         /\ Others("app") /\ task' \in [Tasks -> TaskSet] /\ lst' \in FieldSet
         /\ task'["app"].call = "start" /\ task'["app"].on = lst.channel
         /\ task'["app"].pc = IF lst.channel \in open THEN "consume" ELSE "raised"
         /\ lst'.channel = lst.channel /\ lst'.tag = g /\ lst'.attached = TRUE
         /\ lst'.initialized = lst.initialized /\ lst'.started = lst.started
         /\ lst'.hears = lst.hears /\ lst'.knows = lst.knows /\ lst'.bound = lst.bound
         /\ consumers' = IF lst.channel \in open
              THEN consumers \cup {[chan |-> lst.channel, tag |-> g, climbs |-> lst.knows]}
              ELSE consumers
  BY CallStartIs
<1>2. /\ IsIdle("app") /\ IsIdle("ops") /\ lst.initialized /\ conn.connected /\ stopped' = FALSE
      /\ ~(lst.started /\ lst.tag # None) /\ (kind = "request" => lst.bound /\ lst.knows)
      /\ windows' = windows \cup (IF Rebuilding # {} THEN {"resumed"} ELSE {})
      /\ UNCHANGED <<kind, conn, broker, open, closing, faults>>
  BY DEF CallStart, Seen
<1>3. \A u \in Tasks : u # "app" => task'[u] = task[u]
  BY <1>1 DEF Others
<1>4. "resumed" \notin windows' => windows' = windows /\
        \A t \in Rebuilders : task[t].pc \notin {"open", "declare", "bind", "ladder", "consume"}
  BY <1>2, Roles DEF Rebuilding, OnBroker, RebuildersFit
<1>5. windows' \subseteq Windows /\ windows \subseteq windows'
  BY <1>2, Types DEF Windows
<1>6. /\ \A k \in consumers : k.chan \in open /\ k.tag \in Tags /\ k.tag # None
      /\ None \notin open /\ None \notin closing
      /\ lst.channel \in open => lst.channel # None
  BY ConsumersAre
<1>7. TypeOK'
  <2>1. consumers' \subseteq ConsumerSet(open')
    <3>1. lst.channel \in open => [chan |-> lst.channel, tag |-> g, climbs |-> lst.knows] \in ConsumerSet(open)
      BY Types DEF ConsumerSet, FieldSet
    <3> QED BY <1>1, <1>2, <3>1, Types
  <2> QED BY <1>1, <1>2, <1>5, <2>1, ToTypes, Types
<1>8. AppFits'
  BY <1>1, <1>2 DEF AppFits
<1>9. OpsFits'
  BY <1>1, <1>2, <1>3, Roles DEF OpsFits
<1>10. RebuildersFit'
  BY <1>1, <1>2, <1>3, Roles DEF RebuildersFit
<1>11. AwaitedOnOpen'
  BY <1>1, <1>2, <1>3 DEF AwaitedOnOpen, OnBroker
<1>12. ConnFits'
  BY <1>1, <1>2, <1>3, Roles DEF ConnFits, InTurn, Clear
<1>13. InitFits'
  BY <1>1, <1>2 DEF InitFits
<1>14. StopFits'
  BY <1>1, <1>2, <1>3, Roles DEF StopFits, OpsFits
<1>15. KnowingFits'
  BY <1>1, <1>2, <1>3 DEF KnowingFits
<1>16. QueueFits'
  BY <1>1, <1>2, <1>3 DEF QueueFits
<1>17. BindingFits'
  BY <1>1, <1>2, <1>3 DEF BindingFits
<1>18. LadderFits'
  BY <1>1, <1>2, <1>3 DEF LadderFits, InTurn, Clear
<1>19. SomewhereToFail'
  BY <1>1, <1>2, <1>4, Roles DEF SomewhereToFail, LadderFits, InTurn, Clear
<1>20. OneRecovery'
  BY <1>1, <1>2, <1>3, Roles DEF OneRecovery, NoRivals, Clear
<1>21. ChannelFits'
  BY <1>1, <1>2, <1>3, Roles DEF ChannelFits, NoRivals, Clear, Detached
<1>22. OpenFits'
  BY <1>1, <1>2, <1>3, Roles DEF OpenFits, NoRivals, Clear, Closing
<1>23. ConsumersFit'
  <2> SUFFICES ASSUME Alone' PROVE ConsumersFit'
    BY DEF ConsumersFit
  <2>1. Alone /\ \A t \in Rebuilders : task[t].pc \notin {"open", "declare", "bind", "ladder", "consume"}
    BY <1>2, <1>4 DEF Alone, Clear
  <2>2. consumers = {}
    BY <1>2, <1>6, <2>1 DEF ConsumersFit, Backed, Closing, Starting, OpsFits
  <2>3. lst.channel \in open => ~Lacking'
    BY <1>1, <1>2, <1>3, <2>1, Roles
    DEF Lacking, Detached, ChannelFits, NoRivals, Alone, Clear
  <2>4. \A k \in consumers' : k = [chan |-> lst.channel, tag |-> g, climbs |-> lst.knows] /\ lst.channel \in open
    BY <1>1, <2>2
  <2> QED BY <1>1, <2>2, <2>3, <2>4 DEF ConsumersFit, Backed, Starting
<1>24. StartFits'
  <2> SUFFICES ASSUME Alone' PROVE StartFits'
    BY DEF StartFits
  <2>1. Alone /\ \A t \in Rebuilders : task[t].pc \notin {"open", "declare", "bind", "ladder", "consume"}
    BY <1>2, <1>4 DEF Alone, Clear
  <2>2. lst.channel \in open => ~Lacking'
    BY <1>1, <1>2, <1>3, <2>1, Roles
    DEF Lacking, Detached, ChannelFits, NoRivals, Alone, Clear
  <2>3. lst.hears /\ ~Closing'
    BY <1>1, <1>2, <1>3, Roles DEF StopFits, Closing, OpsFits
  <2> QED BY <1>1, <1>3, <2>1, <2>2, <2>3, Roles DEF StartFits, Starting
<1>25. WholeFits'
  <2>1. Starting' => lst.channel \in open /\ \E k \in consumers' : k.chan = lst.channel
    <3>1. Starting' => lst.channel \in open
      BY <1>1 DEF Starting
    <3>2. [chan |-> lst.channel, tag |-> g, climbs |-> lst.knows].chan = lst.channel
      OBVIOUS
    <3> QED BY <1>1, <3>1, <3>2
  <2>2. consumers \subseteq consumers' /\ (Lacking => Lacking')
    BY <1>1, <1>3, Roles DEF Lacking, Detached
  <2>3. task["restore"].pc = "due" => task'["restore"].pc = "due"
    BY <1>3, Roles
  <2> QED BY <1>1, <1>2, <2>1, <2>2, <2>3 DEF WholeFits, Unbroken, Clear
<1> QED BY <1>7, <1>8, <1>9, <1>10, <1>11, <1>12, <1>13, <1>14, <1>15, <1>16, <1>17,
           <1>18, <1>19, <1>20, <1>21, <1>22, <1>23, <1>24, <1>25

\* The consumer outlives stop_consuming() until its basic_cancel is answered.
LEMMA CallStopKeeps ==
  ASSUME IInv, CallStop PROVE IInv'
<1> USE DEF IInv, TasksFit, At, IsIdle
<1>1. /\ Others("ops") /\ task' \in [Tasks -> TaskSet] /\ lst' \in FieldSet
      /\ \/ /\ task' = task
            /\ lst.tag = None \/ ~conn.connected \/ lst.channel = None
         \/ /\ task'["ops"].call = "stop" /\ task'["ops"].on = lst.channel
            /\ task'["ops"].pc = IF lst.channel \in open THEN "cancel" ELSE "raised"
            /\ task'["ops"].tag = lst.tag /\ lst.tag # None
      /\ lst'.channel = lst.channel /\ lst'.tag = None
      /\ lst'.initialized = lst.initialized /\ lst'.started = FALSE
      /\ lst'.attached = FALSE /\ lst'.hears = lst.hears
      /\ lst'.knows = lst.knows /\ lst'.bound = lst.bound
  BY CallStopIs
<1>2. /\ IsIdle("ops") /\ lst.initialized /\ stopped' = TRUE
      /\ windows' = windows \cup (IF task["app"].call = "start" THEN {"stopInStart"} ELSE {})
      /\ UNCHANGED <<kind, conn, broker, open, closing, consumers, faults>>
  BY DEF CallStop, Seen
<1>3. \A u \in Tasks : u # "ops" => task'[u] = task[u]
  BY <1>1 DEF Others
<1>4. windows' \subseteq Windows /\ windows \subseteq windows'
  BY <1>2, Types DEF Windows
<1>5. /\ \A k \in consumers : k.chan \in open /\ k.tag \in Tags /\ k.tag # None
      /\ None \notin open /\ None \notin closing
      /\ lst.channel \in open => lst.channel # None
  BY ConsumersAre
<1>6. TypeOK'
  BY <1>1, <1>2, <1>4, ToTypes, Types
<1>7. AppFits'
  BY <1>1, <1>2, <1>3, Roles DEF AppFits
<1>8. OpsFits'
  BY <1>1, <1>2 DEF OpsFits
<1>9. RebuildersFit'
  BY <1>1, <1>2, <1>3, Roles DEF RebuildersFit
<1>10. AwaitedOnOpen'
  BY <1>1, <1>2, <1>3 DEF AwaitedOnOpen, OnBroker
<1>11. ConnFits'
  BY <1>1, <1>2, <1>3, Roles DEF ConnFits, InTurn, Clear
<1>12. InitFits'
  BY <1>1, <1>2, <1>3, Roles DEF InitFits
<1>13. StopFits'
  BY <1>1, <1>2, <1>3, Roles DEF StopFits, Clear, OpsFits
<1>14. KnowingFits'
  BY <1>1, <1>2, <1>3, Roles DEF KnowingFits, InTurn, Clear
<1>15. QueueFits'
  BY <1>1, <1>2, <1>3 DEF QueueFits
<1>16. BindingFits'
  BY <1>1, <1>2, <1>3 DEF BindingFits
<1>17. LadderFits'
  BY <1>1, <1>2, <1>3 DEF LadderFits, InTurn, Clear
<1>18. SomewhereToFail'
  BY <1>1, <1>2 DEF SomewhereToFail
<1>19. OneRecovery'
  BY <1>1, <1>2, <1>3, Roles DEF OneRecovery, NoRivals, Clear
<1>20. ChannelFits'
  BY <1>1, <1>2, <1>3, Roles DEF ChannelFits, NoRivals, Clear, Detached
<1>21. OpenFits'
  BY <1>1, <1>2, <1>3 DEF OpenFits, NoRivals, Clear, Closing, OpsFits
<1>22. ConsumersFit'
  BY <1>1, <1>2, <1>3, <1>5, Roles
  DEF ConsumersFit, Backed, Alone, Clear, Lacking, Detached, Closing, OpsFits, ConnFits
<1>23. StartFits'
  BY <1>1, <1>2, <1>3, Roles
  DEF StartFits, Alone, Clear, Lacking, Detached, Closing, Starting, OpsFits
<1>24. WholeFits'
  BY <1>1, <1>2, <1>3, Roles DEF WholeFits, Unbroken, Clear, Starting
<1> QED BY <1>6, <1>7, <1>8, <1>9, <1>10, <1>11, <1>12, <1>13, <1>14, <1>15, <1>16, <1>17,
           <1>18, <1>19, <1>20, <1>21, <1>22, <1>23, <1>24

\* close() gives up the fields first and its channel last.
LEMMA CallCloseKeeps ==
  ASSUME IInv, CallClose PROVE IInv'
<1> USE DEF IInv, TasksFit, At, IsIdle
<1>1. /\ Others("ops") /\ task' \in [Tasks -> TaskSet] /\ lst' \in FieldSet
      /\ \/ /\ task' = task /\ (~conn.connected \/ lst.channel = None)
            /\ lst'.tag = None /\ lst'.initialized = FALSE /\ lst'.bound = FALSE
         \/ /\ task'["ops"].call = "close" /\ task'["ops"].on = lst.channel
            /\ lst.channel \in open => task'["ops"].pc \in {"cancel", "shut"}
            /\ lst.channel \notin open => task'["ops"].pc = "raised"
            /\ task'["ops"].tag = lst.tag
            /\ task'["ops"].pc = "cancel" => lst.tag # None
            /\ lst'.tag = lst.tag /\ lst'.initialized = lst.initialized
            /\ lst'.bound = lst.bound
      /\ lst'.channel = None /\ lst'.started = FALSE
      /\ lst'.attached = FALSE /\ lst'.hears = FALSE /\ lst'.knows = lst.knows
  BY CallCloseIs
<1>2. /\ IsIdle("ops") /\ lst.initialized /\ stopped' = TRUE
      /\ windows' = windows \cup ((IF \E t \in Rebuilding : At(t, "open") THEN {"closeInRebuild"} ELSE {})
          \cup (IF task["app"].call = "start" THEN {"stopInStart"} ELSE {}))
      /\ UNCHANGED <<kind, conn, broker, open, closing, consumers, faults>>
  BY DEF CallClose, Seen
<1>3. \A u \in Tasks : u # "ops" => task'[u] = task[u]
  BY <1>1 DEF Others
<1>4. windows' \subseteq Windows /\ windows \subseteq windows'
  BY <1>2, Types DEF Windows
<1>5. /\ \A k \in consumers : k.chan \in open /\ k.tag \in Tags /\ k.tag # None
      /\ None \notin open /\ None \notin closing
      /\ lst.channel \in open => lst.channel # None
  BY ConsumersAre
<1>6. /\ lst.channel \in open => Closing'
      /\ Closing' => lst.channel \in open /\ task'["ops"].on = lst.channel
      /\ task'["ops"].pc \in {"idle", "cancel", "shut", "raised"}
  BY <1>1, <1>2, <1>5, Roles DEF Closing, OnBroker, OpsFits, ConnFits
<1>7. ~Closing /\ \A t \in Tasks : At(t, "open") => t \in Rebuilding
  BY <1>2, Roles DEF Closing, Rebuilding, OpsFits, RebuildersFit, InitFits
<1>8. TypeOK'
  BY <1>1, <1>2, <1>4, ToTypes, Types
<1>9. AppFits'
  BY <1>1, <1>2, <1>3, Roles DEF AppFits
<1>10. OpsFits'
  BY <1>1, <1>2, <1>3, <1>4, <1>5, <1>6, <1>7, Roles, Types DEF OpsFits
<1>11. RebuildersFit'
  BY <1>1, <1>2, <1>3, Roles DEF RebuildersFit
<1>12. AwaitedOnOpen'
  BY <1>1, <1>2, <1>3, <1>4, <1>5, <1>6, <1>7, Roles, Types DEF AwaitedOnOpen, OnBroker
<1>13. ConnFits'
  BY <1>1, <1>2, <1>3, Roles DEF ConnFits, InTurn, Clear
<1>14. InitFits'
  BY <1>1, <1>2, <1>3, Roles DEF InitFits
<1>15. StopFits'
  BY <1>1, <1>2, <1>3, <1>4, <1>5, <1>6, <1>7, Roles, Types DEF StopFits, Clear
<1>16. KnowingFits'
  BY <1>1, <1>2, <1>3, <1>5, <1>6, Roles DEF KnowingFits
<1>17. QueueFits'
  BY <1>1, <1>2, <1>5 DEF QueueFits
<1>18. BindingFits'
  BY <1>1, <1>2, <1>5 DEF BindingFits
<1>19. LadderFits'
  BY <1>1, <1>2, <1>5 DEF LadderFits
<1>20. SomewhereToFail'
  BY <1>1, <1>2 DEF SomewhereToFail
<1>21. OneRecovery'
  BY <1>1, <1>2, <1>3, Roles DEF OneRecovery, NoRivals, Clear
<1>22. ChannelFits'
  BY <1>1, <1>2, <1>5 DEF ChannelFits
<1>23. OpenFits'
  BY <1>1, <1>2, <1>3, <1>6, <1>7 DEF OpenFits, NoRivals, Clear
<1>24. ConsumersFit'
  BY <1>1, <1>2, <1>3, <1>5, <1>6, <1>7, Roles
  DEF ConsumersFit, Backed, Alone, Clear, Lacking, Detached
<1>25. StartFits'
  <2> SUFFICES ASSUME Alone' PROVE StartFits'
    BY DEF StartFits
  <2>1. Alone /\ NoRivals
    BY <1>4 DEF Alone, NoRivals, Clear
  <2>2. \A k \in consumers : k.chan = lst.channel
    BY <1>2, <1>7, <2>1 DEF ConsumersFit, Backed
  <2>3. Starting => lst.channel \in open
    BY <1>7, <2>1, Roles DEF StartFits, Starting, AwaitedOnOpen, OnBroker
  <2>4. lst.channel \in open => \A t \in Tasks : ~At(t, "open")
    BY <1>2, <2>1, Roles DEF ChannelFits, Detached, InitFits
  <2>5. Starting' <=> Starting
    BY <1>3, Roles DEF Starting
  <2>6. Closing' => \A t \in Tasks : task'[t].pc # "open"
    BY <1>3, <1>6, <2>4
  <2>7. Starting => ~Lacking' /\ \A t \in Rebuilders : task'[t].pc # "consume"
    BY <1>3, <2>1, Roles DEF StartFits, Lacking, Detached
  <2>8. consumers = {} \/ Closing'
    BY <1>5, <1>6, <2>2
  <2>9. Starting => task'["ops"].call = "close"
    BY <1>6, <2>3 DEF Closing
  <2>10. Closing' => \A t \in Rebuilders : task'[t].pc \in OnBroker => task'[t].on = task'["ops"].on
    BY <1>3, <1>6, <2>1, Roles DEF ChannelFits
  <2>11. Starting => task["app"].on = lst.channel /\ task'["app"].on = task'["ops"].on
    BY <1>3, <1>6, <1>7, <2>1, <2>3, Roles DEF StartFits
  <2> QED BY <1>1, <1>2, <1>6, <2>3, <2>5, <2>6, <2>7, <2>8, <2>9, <2>10, <2>11
          DEF StartFits
<1>26. WholeFits'
  BY <1>1, <1>2, <1>3, Roles DEF WholeFits, Unbroken, Clear, Starting, AppFits
<1> QED BY <1>8, <1>9, <1>10, <1>11, <1>12, <1>13, <1>14, <1>15, <1>16, <1>17, <1>18,
           <1>19, <1>20, <1>21, <1>22, <1>23, <1>24, <1>25, <1>26

--------------------------------------------------------------------------------
(* Each step preserves the invariant. The steps of a task, from the first to the last. *)

LEMMA OpenFailsKeeps ==
  ASSUME IInv, NEW t \in Tasks, OpenRaises(t) \/ OpenRefused(t) PROVE IInv'
<1> USE DEF IInv, TasksFit, At, IsIdle
<1>1. /\ Moves(t, "raised") /\ task'[t].on = task[t].on
      /\ faults' \in 0..MaxFaults
  BY OpenFailsIs
<1>2. /\ At(t, "open")
      /\ UNCHANGED <<kind, stopped, conn, broker, open, closing, consumers, lst, windows>>
  BY DEF OpenRaises, OpenRefused
<1>3. \A u \in Tasks : u # t => task'[u] = task[u]
  BY <1>1 DEF Others, Moves
<1>4. /\ task'[t].pc = "raised" /\ task'[t].call = task[t].call /\ task' \in [Tasks -> TaskSet]
  BY <1>1 DEF Moves
<1>5. TypeOK'
  BY <1>1, <1>2, <1>4, ToTypes, Types
<1>6. AppFits'
  BY <1>1, <1>2, <1>3, <1>4, Roles DEF AppFits
<1>7. OpsFits'
  BY <1>1, <1>2, <1>3, Roles DEF OpsFits
<1>8. RebuildersFit'
  BY <1>1, <1>2, <1>3, <1>4, Roles DEF RebuildersFit
<1>9. AwaitedOnOpen'
  BY <1>1, <1>2, <1>3, <1>4 DEF AwaitedOnOpen, OnBroker
<1>10. ConnFits'
  BY <1>1, <1>2, <1>3, Roles DEF ConnFits, InTurn, Clear
<1>11. InitFits'
  BY <1>1, <1>2, <1>3, <1>4, Roles DEF InitFits
<1>12. StopFits'
  BY <1>1, <1>2, <1>3, <1>4, Roles DEF StopFits, Clear
<1>13. KnowingFits'
  BY <1>1, <1>2, <1>3, <1>4, Roles DEF KnowingFits, InTurn, Clear
<1>14. QueueFits'
  BY <1>1, <1>2, <1>3 DEF QueueFits
<1>15. BindingFits'
  BY <1>1, <1>2, <1>3 DEF BindingFits
<1>16. LadderFits'
  BY <1>1, <1>2, <1>3 DEF LadderFits, InTurn, Clear
<1>17. SomewhereToFail'
  BY <1>1, <1>2 DEF SomewhereToFail
<1>18. OneRecovery'
  BY <1>1, <1>2, <1>3, Roles DEF OneRecovery, NoRivals, Clear
<1>19. ChannelFits'
  BY <1>1, <1>2, <1>3, <1>4, Roles DEF ChannelFits, NoRivals, Clear, Detached, OnBroker
<1>20. OpenFits'
  BY <1>1, <1>2, <1>3, Roles DEF OpenFits, NoRivals, Clear, Closing, OpsFits
<1>21. ConsumersFit'
  BY <1>1, <1>2, <1>3, Roles
  DEF ConsumersFit, StartFits, Backed, Alone, Clear, Lacking, Detached, Starting
<1>22. StartFits'
  BY <1>1, <1>2, <1>3, <1>4, Roles
  DEF StartFits, Alone, Clear, Lacking, Detached, Closing, Starting, OpsFits
<1>23. WholeFits'
  BY <1>1, <1>2, <1>3, <1>4, Roles
  DEF WholeFits, Unbroken, Clear, Lacking, Detached, Starting
<1> QED BY <1>5, <1>6, <1>7, <1>8, <1>9, <1>10, <1>11, <1>12, <1>13, <1>14, <1>15, <1>16,
           <1>17, <1>18, <1>19, <1>20, <1>21, <1>22, <1>23

\* A recovery that attempts a rebuild after a restoration has overslept.
LEMMA AttemptKeeps ==
  ASSUME IInv, NEW t \in Recoverers, Attempt(t) PROVE IInv'
<1> USE DEF IInv, TasksFit, At, IsIdle
<1>1. \/ /\ lst.started /\ conn.connected /\ ~conn.reconnecting
         /\ Moves(t, "open")
         /\ windows' = windows \cup (IF At(t, "overslept") THEN {"overslept"} ELSE {})
      \/ /\ ~lst.started \/ ~conn.connected \/ conn.reconnecting
         /\ Ends(t) /\ windows' = windows
  BY AttemptIs, Roles
<1>2. /\ task[t].pc \in {"spawned", "sleep", "overslept"}
      /\ UNCHANGED <<kind, stopped, conn, broker, open, closing, consumers, lst, faults>>
  BY DEF Attempt
<1>3. \A u \in Tasks : u # t => task'[u] = task[u]
  BY <1>1 DEF Others, Moves, Ends
<1>4. task' \in [Tasks -> TaskSet]
  BY <1>1 DEF Moves, Ends
<1>5. \/ /\ lst.started /\ conn.connected /\ ~conn.reconnecting
         /\ task'[t].pc = "open" /\ task'[t].call = task[t].call
         /\ windows' = windows \cup (IF At(t, "overslept") THEN {"overslept"} ELSE {})
      \/ /\ ~lst.started \/ ~conn.connected \/ conn.reconnecting
         /\ task'[t].pc = "idle" /\ task'[t].call = "none" /\ windows' = windows
  BY <1>1 DEF Moves, Ends, Idle
<1>6. windows' \subseteq Windows /\ windows \subseteq windows'
  BY <1>1, <1>2, Types DEF Windows
<1>7. /\ \A k \in consumers : k.chan \in open /\ k.tag \in Tags /\ k.tag # None
      /\ None \notin open /\ None \notin closing
      /\ lst.channel \in open => lst.channel # None
  BY ConsumersAre
<1>8. /\ NoRivals' => (Detached' => Detached) /\ (Lacking' => Lacking) /\ (At(t, "overslept") => ~At(t, "open")')
      /\ Lacking /\ ~Lacking' => ~lst.started \/ ~conn.connected \/ conn.reconnecting
  BY <1>2, <1>3, <1>5, Roles DEF Detached, Lacking, NoRivals, Clear
<1>9. TypeOK'
  BY <1>1, <1>2, <1>4, <1>6, ToTypes, Types
<1>10. AppFits'
  BY <1>1, <1>2, <1>3, Roles DEF AppFits
<1>11. OpsFits'
  BY <1>1, <1>2, <1>3, Roles DEF OpsFits
<1>12. RebuildersFit'
  BY <1>1, <1>2, <1>3, <1>5, Roles DEF RebuildersFit
<1>13. AwaitedOnOpen'
  BY <1>1, <1>2, <1>3, <1>5 DEF AwaitedOnOpen, OnBroker
<1>14. ConnFits'
  BY <1>1, <1>2, <1>3, <1>5, Roles DEF ConnFits, InTurn, Clear
<1>15. InitFits'
  BY <1>1, <1>2, <1>3, Roles DEF InitFits
<1>16. StopFits'
  BY <1>1, <1>2, <1>3, Roles DEF StopFits, Clear
<1>17. KnowingFits'
  BY <1>1, <1>2, <1>3, <1>5, Roles DEF KnowingFits, InTurn, Clear
<1>18. QueueFits'
  BY <1>1, <1>2, <1>3 DEF QueueFits
<1>19. BindingFits'
  BY <1>1, <1>2, <1>3 DEF BindingFits
<1>20. LadderFits'
  BY <1>1, <1>2, <1>3 DEF LadderFits, InTurn, Clear
<1>21. SomewhereToFail'
  BY <1>1, <1>2 DEF SomewhereToFail
<1>22. OneRecovery'
  BY <1>1, <1>2, <1>3, Roles DEF OneRecovery, NoRivals, Clear
<1>23. ChannelFits'
  BY <1>2, <1>3, <1>5, <1>8, Roles DEF ChannelFits, NoRivals, Clear, OnBroker
<1>24. OpenFits'
  BY <1>2, <1>3, <1>5, Roles DEF OpenFits, StopFits, Closing, NoRivals, Clear
<1>25. ConsumersFit'
  BY <1>1, <1>2, <1>3, <1>5, Roles
  DEF ConsumersFit, Backed, Alone, Clear, Lacking, Detached, Closing, Starting
<1>26. StartFits'
  BY <1>2, <1>3, <1>5, Roles
  DEF StartFits, StopFits, Closing, OnBroker, Starting, Alone, Clear, Lacking, Detached
<1>27. WholeFits'
  BY <1>2, <1>3, <1>5, Roles
  DEF WholeFits, ConnFits, Starting, Unbroken, Clear, Lacking, Detached
<1> QED BY <1>9, <1>10, <1>11, <1>12, <1>13, <1>14, <1>15, <1>16, <1>17, <1>18, <1>19,
           <1>20, <1>21, <1>22, <1>23, <1>24, <1>25, <1>26, <1>27

\* A recovery out of attempts leaves the listener without a channel.
LEMMA GivesUpKeeps ==
  ASSUME IInv, NEW t \in Recoverers, GivesUp(t) PROVE IInv'
<1> USE DEF IInv, TasksFit, At, IsIdle
<1>1. Ends(t)
  BY EndsIs, Roles DEF GivesUp
<1>2. /\ task[t].pc \in {"sleep", "overslept"} /\ windows' = windows \cup {"gaveUp"}
      /\ UNCHANGED <<kind, stopped, conn, broker, open, closing, consumers, lst, faults>>
  BY DEF GivesUp, Seen
<1>3. \A u \in Tasks : u # t => task'[u] = task[u]
  BY <1>1 DEF Others, Ends
<1>4. task' \in [Tasks -> TaskSet] /\ task'[t].pc = "idle" /\ task'[t].call = "none"
  BY <1>1 DEF Moves, Ends, Idle
<1>5. windows' \subseteq Windows /\ windows \subseteq windows'
  BY <1>1, <1>2, Types DEF Windows
<1>6. Detached' => Detached
  BY <1>3, <1>4, Roles DEF Detached
<1>7. TypeOK'
  BY <1>1, <1>2, <1>4, <1>5, ToTypes, Types
<1>8. AppFits'
  BY <1>1, <1>2, <1>3, Roles DEF AppFits
<1>9. OpsFits'
  BY <1>1, <1>2, <1>3, Roles DEF OpsFits
<1>10. RebuildersFit'
  BY <1>1, <1>2, <1>3, <1>4, Roles DEF RebuildersFit
<1>11. AwaitedOnOpen'
  BY <1>1, <1>2, <1>3, <1>4 DEF AwaitedOnOpen, OnBroker
<1>12. ConnFits'
  BY <1>1, <1>2, <1>3, <1>4, Roles DEF ConnFits, InTurn, Clear
<1>13. InitFits'
  BY <1>1, <1>2, <1>3, Roles DEF InitFits
<1>14. StopFits'
  BY <1>1, <1>2, <1>3, Roles DEF StopFits, Clear
<1>15. KnowingFits'
  BY <1>1, <1>2, <1>3, <1>4, Roles DEF KnowingFits, InTurn, Clear
<1>16. QueueFits'
  BY <1>1, <1>2, <1>3 DEF QueueFits
<1>17. BindingFits'
  BY <1>1, <1>2, <1>3 DEF BindingFits
<1>18. LadderFits'
  BY <1>1, <1>2, <1>3 DEF LadderFits, InTurn, Clear
<1>19. SomewhereToFail'
  BY <1>1, <1>2 DEF SomewhereToFail
<1>20. OneRecovery'
  BY <1>1, <1>2, <1>3, Roles DEF OneRecovery, NoRivals, Clear
<1>21. ChannelFits'
  BY <1>2, <1>3, <1>4, <1>6, Roles DEF ChannelFits, NoRivals, Clear, OnBroker
<1>22. OpenFits'
  BY <1>1, <1>2, <1>3, <1>4, Roles DEF OpenFits, NoRivals, Clear, Closing
<1>23. ConsumersFit'
  BY <1>1, <1>2, <1>3, <1>4, Roles
  DEF ConsumersFit, Backed, Alone, Clear, Lacking, Detached, Closing, Starting
<1>24. StartFits'
  BY <1>1, <1>2, <1>3, <1>4, Roles
  DEF StartFits, Alone, Clear, Lacking, Detached, Closing, Starting, OnBroker
<1>25. WholeFits'
  BY <1>1, <1>2 DEF WholeFits, Unbroken, Clear
<1> QED BY <1>7, <1>8, <1>9, <1>10, <1>11, <1>12, <1>13, <1>14, <1>15, <1>16, <1>17,
           <1>18, <1>19, <1>20, <1>21, <1>22, <1>23, <1>24, <1>25

LEMMA AttemptFailsKeeps ==
  ASSUME IInv, NEW t \in Recoverers, AttemptFails(t) PROVE IInv'
<1> USE DEF IInv, TasksFit, At, IsIdle
<1>1. /\ Moves(t, "sleep") /\ lst' \in FieldSet /\ lst'.channel = None
      /\ lst'.tag = lst.tag /\ lst'.initialized = lst.initialized
      /\ lst'.started = lst.started /\ lst'.attached = lst.attached
      /\ lst'.hears = lst.hears /\ lst'.knows = lst.knows /\ lst'.bound = lst.bound
  BY AttemptFailsIs, Roles
<1>2. /\ At(t, "raised")
      /\ UNCHANGED <<kind, stopped, conn, broker, open, closing, consumers, faults, windows>>
  BY DEF AttemptFails
<1>3. \A u \in Tasks : u # t => task'[u] = task[u]
  BY <1>1 DEF Others, Moves
<1>4. task' \in [Tasks -> TaskSet] /\ task'[t].pc = "sleep" /\ task'[t].call = task[t].call
  BY <1>1 DEF Moves
<1>5. /\ \A k \in consumers : k.chan \in open /\ k.tag \in Tags /\ k.tag # None
      /\ None \notin open /\ None \notin closing
      /\ lst.channel \in open => lst.channel # None
  BY ConsumersAre
<1>6. TypeOK'
  BY <1>1, <1>2, <1>4, ToTypes, Types
<1>7. AppFits'
  BY <1>1, <1>2, <1>3, Roles DEF AppFits
<1>8. OpsFits'
  BY <1>1, <1>2, <1>3, Roles DEF OpsFits
<1>9. RebuildersFit'
  BY <1>1, <1>2, <1>3, <1>4, Roles DEF RebuildersFit
<1>10. AwaitedOnOpen'
  BY <1>1, <1>2, <1>3, <1>4 DEF AwaitedOnOpen, OnBroker
<1>11. ConnFits'
  BY <1>1, <1>2, <1>3, Roles DEF ConnFits
<1>12. InitFits'
  BY <1>1, <1>2, <1>3, Roles DEF InitFits
<1>13. StopFits'
  BY <1>1, <1>2, <1>3, Roles DEF StopFits, Clear
<1>14. KnowingFits'
  BY <1>1, <1>2, <1>3, <1>4, <1>5 DEF KnowingFits
<1>15. QueueFits'
  BY <1>1, <1>2, <1>5 DEF QueueFits
<1>16. BindingFits'
  BY <1>1, <1>2, <1>5 DEF BindingFits
<1>17. LadderFits'
  BY <1>1, <1>2, <1>5 DEF LadderFits
<1>18. SomewhereToFail'
  BY <1>1, <1>2 DEF SomewhereToFail
<1>19. OneRecovery'
  BY <1>1, <1>2, <1>3, Roles DEF OneRecovery, NoRivals, Clear
<1>20. ChannelFits'
  BY <1>1, <1>2, <1>3, <1>4, <1>5, Roles
  DEF ChannelFits, OneRecovery, NoRivals, Clear, OnBroker, ConnFits
<1>21. OpenFits'
  BY <1>1, <1>2, <1>3, <1>4, Roles
  DEF OpenFits, NoRivals, Clear, Closing, ChannelFits, Detached
<1>22. ConsumersFit'
  BY <1>1, <1>2, Roles DEF ConsumersFit, Alone, Clear, Lacking, Detached
<1>23. StartFits'
  BY <1>1, <1>2, <1>3, <1>4, Roles
  DEF StartFits, Alone, Clear, Lacking, Detached, Closing, Starting, OnBroker
<1>24. WholeFits'
  BY <1>1, <1>2, <1>3, <1>4, Roles
  DEF WholeFits, Unbroken, Clear, Lacking, Detached, Starting, ChannelFits, NoRivals,
      AwaitedOnOpen, OnBroker
<1> QED BY <1>6, <1>7, <1>8, <1>9, <1>10, <1>11, <1>12, <1>13, <1>14, <1>15, <1>16, <1>17,
           <1>18, <1>19, <1>20, <1>21, <1>22, <1>23, <1>24

LEMMA RaisedToUserKeeps ==
  ASSUME IInv, NEW t \in Tasks, RaisedToUser(t) PROVE IInv'
<1> USE DEF IInv, TasksFit, At, IsIdle
<1>1. Ends(t)
  BY EndsIs DEF RaisedToUser
<1>2. /\ At(t, "raised") /\ t \in {"app", "ops"}
      /\ lst' = IF task[t].call = "close" THEN Forgotten(lst) ELSE lst
      /\ UNCHANGED <<kind, stopped, conn, broker, open, closing, consumers, faults, windows>>
  BY DEF RaisedToUser
<1>3. \A u \in Tasks : u # t => task'[u] = task[u]
  BY <1>1 DEF Others, Ends
<1>4. task' \in [Tasks -> TaskSet] /\ task'[t].pc = "idle" /\ task'[t].call = "none"
  BY <1>1 DEF Moves, Ends, Idle
<1>5. \/ lst' = lst /\ task[t].call # "close"
      \/ /\ t = "ops" /\ task["ops"].call = "close" /\ lst' \in FieldSet
         /\ lst'.channel = lst.channel /\ lst'.tag = None /\ lst'.initialized = FALSE
         /\ lst'.started = FALSE /\ lst'.attached = lst.attached /\ lst'.hears = lst.hears
         /\ lst'.knows = lst.knows /\ lst'.bound = FALSE
  BY <1>2, ForgottenIs, Types DEF AppFits
<1>6. /\ \A k \in consumers : k.chan \in open /\ k.tag \in Tags /\ k.tag # None
      /\ None \notin open /\ None \notin closing
      /\ lst.channel \in open => lst.channel # None
  BY ConsumersAre
<1>7. TypeOK'
  BY <1>1, <1>2, <1>4, <1>5, ToTypes, Types
<1>8. AppFits'
  BY <1>1, <1>2, <1>3, <1>4, Roles DEF AppFits
<1>9. OpsFits'
  BY <1>1, <1>2, <1>3, <1>4, Roles DEF OpsFits
<1>10. RebuildersFit'
  BY <1>1, <1>2, <1>3, Roles DEF RebuildersFit
<1>11. AwaitedOnOpen'
  BY <1>1, <1>2, <1>3, <1>4, Types DEF AwaitedOnOpen, OnBroker
<1>12. ConnFits'
  BY <1>1, <1>2, <1>3, Roles DEF ConnFits, InTurn, Clear
<1>13. InitFits'
  BY <1>1, <1>2, <1>3, <1>4, <1>5, Roles DEF InitFits, StopFits
<1>14. StopFits'
  BY <1>1, <1>2, <1>3, <1>4, <1>5, Roles DEF StopFits, Clear
<1>15. KnowingFits'
  BY <1>1, <1>2, <1>3, <1>4, <1>5, Roles DEF KnowingFits, InTurn, Clear
<1>16. QueueFits'
  BY <1>1, <1>2, <1>3, <1>5 DEF QueueFits
<1>17. BindingFits'
  BY <1>1, <1>2, <1>3, <1>5 DEF BindingFits
<1>18. LadderFits'
  BY <1>1, <1>2, <1>3, <1>5 DEF LadderFits, InTurn, Clear
<1>19. SomewhereToFail'
  BY <1>1, <1>2 DEF SomewhereToFail
<1>20. OneRecovery'
  BY <1>1, <1>2, <1>3, Roles DEF OneRecovery, NoRivals, Clear
<1>21. ChannelFits'
  BY <1>1, <1>2, <1>3, <1>5, Roles DEF ChannelFits, NoRivals, Clear, Detached
<1>22. OpenFits'
  BY <1>1, <1>2, <1>3, <1>4, <1>5, Roles DEF OpenFits, NoRivals, Clear, Closing, OnBroker
<1>23. ConsumersFit'
  BY <1>1, <1>2, <1>3, <1>5, Roles
  DEF ConsumersFit, StartFits, Backed, Alone, Clear, Lacking, Detached, Closing, Starting,
      StopFits, OnBroker
<1>24. StartFits'
  BY <1>1, <1>2, <1>3, <1>4, <1>5, <1>6, Roles
  DEF StartFits, Alone, Clear, Lacking, Detached, Closing, Starting, AwaitedOnOpen,
      OnBroker
<1>25. WholeFits'
  BY <1>1, <1>2, <1>3, <1>4, <1>5, Roles
  DEF WholeFits, Unbroken, Clear, Lacking, Detached, Starting, StopFits
<1> QED BY <1>7, <1>8, <1>9, <1>10, <1>11, <1>12, <1>13, <1>14, <1>15, <1>16, <1>17,
           <1>18, <1>19, <1>20, <1>21, <1>22, <1>23, <1>24, <1>25

LEMMA CancelledKeeps ==
  ASSUME IInv, Cancelled PROVE IInv'
<1> USE DEF IInv, TasksFit, At, IsIdle
<1>1. \/ /\ task["ops"].call = "close" /\ Moves("ops", "shut")
         /\ task'["ops"].on = task["ops"].on
      \/ task["ops"].call # "close" /\ Ends("ops")
  BY CancelledIs
<1>2. /\ At("ops", "cancel")
      /\ consumers' = {k \in consumers : k.chan # task["ops"].on \/ k.tag # task["ops"].tag}
      /\ UNCHANGED <<kind, stopped, conn, broker, open, closing, lst, faults, windows>>
  BY DEF Cancelled
<1>3. \A u \in Tasks : u # "ops" => task'[u] = task[u]
  BY <1>1 DEF Others, Moves, Ends
<1>4. /\ task' \in [Tasks -> TaskSet]
      /\ \/ /\ task["ops"].call = "close" /\ task'["ops"].pc = "shut" /\ task'["ops"].call = "close"
            /\ task'["ops"].on = task["ops"].on
         \/ task["ops"].call # "close" /\ task'["ops"].pc = "idle" /\ task'["ops"].call = "none"
  BY <1>1 DEF Moves, Ends, Idle
<1>5. /\ \A k \in consumers : k.chan \in open /\ k.tag \in Tags /\ k.tag # None
      /\ None \notin open /\ None \notin closing
      /\ lst.channel \in open => lst.channel # None
  BY ConsumersAre
<1>6. TypeOK'
  BY <1>1, <1>2, <1>4, ToTypes, Types
<1>7. AppFits'
  BY <1>1, <1>2, <1>3, Roles DEF AppFits
<1>8. OpsFits'
  BY <1>1, <1>2, <1>4 DEF OpsFits
<1>9. RebuildersFit'
  BY <1>1, <1>2, <1>3, Roles DEF RebuildersFit
<1>10. AwaitedOnOpen'
  BY <1>1, <1>2, <1>3, <1>4 DEF AwaitedOnOpen, OnBroker
<1>11. ConnFits'
  BY <1>1, <1>2, <1>3, Roles DEF ConnFits, InTurn, Clear
<1>12. InitFits'
  BY <1>1, <1>2, <1>3, Roles DEF InitFits
<1>13. StopFits'
  BY <1>1, <1>2, <1>3, <1>4, Roles DEF StopFits, Clear
<1>14. KnowingFits'
  BY <1>1, <1>2, <1>3, <1>4, Roles DEF KnowingFits, InTurn, Clear
<1>15. QueueFits'
  BY <1>1, <1>2, <1>3 DEF QueueFits
<1>16. BindingFits'
  BY <1>1, <1>2, <1>3 DEF BindingFits
<1>17. LadderFits'
  BY <1>1, <1>2, <1>3 DEF LadderFits, InTurn, Clear
<1>18. SomewhereToFail'
  BY <1>1, <1>2 DEF SomewhereToFail
<1>19. OneRecovery'
  BY <1>1, <1>2, <1>3, Roles DEF OneRecovery, NoRivals, Clear
<1>20. ChannelFits'
  BY <1>1, <1>2, <1>3, Roles DEF ChannelFits, NoRivals, Clear, Detached
<1>21. OpenFits'
  BY <1>1, <1>2, <1>3, <1>4 DEF OpenFits, NoRivals, Clear, Closing, OnBroker
<1>22. ConsumersFit'
  BY <1>1, <1>2, <1>3, <1>4, Roles
  DEF ConsumersFit, Backed, Alone, Clear, Lacking, Detached, Closing, Starting, OnBroker
<1>23. StartFits'
  BY <1>1, <1>2, <1>3, <1>4, Roles
  DEF StartFits, Alone, Clear, Lacking, Detached, Closing, Starting, OnBroker
<1>24. WholeFits'
  BY <1>1, <1>2, <1>3, Roles DEF WholeFits, Unbroken, Clear, StopFits, AppFits, Starting
<1> QED BY <1>6, <1>7, <1>8, <1>9, <1>10, <1>11, <1>12, <1>13, <1>14, <1>15, <1>16, <1>17,
           <1>18, <1>19, <1>20, <1>21, <1>22, <1>23, <1>24

\* Two rebuilds are never under way together, barring a recovery that slept
\* through a reconnection.
LEMMA OthersRest ==
  ASSUME TasksFit, ConnFits, OneRecovery, NoRivals, NEW t \in Rebuilders,
         task[t].pc \notin {"idle", "overslept"}
  PROVE  \A u \in Rebuilders : u # t => task[u].pc \in {"idle", "overslept"}
  BY Roles DEF ConnFits, OneRecovery, IsIdle, At

\* Whoever opens a channel makes it the listener's; nobody else is at work on one.
LEMMA OpenedKeeps ==
  ASSUME IInv, NEW t \in Tasks, Opened(t) PROVE IInv'
<1> USE DEF IInv, TasksFit, At, IsIdle
<1>1. PICK c \in Channels \ (open \cup closing) :
         /\ c # lst.channel /\ c # None /\ open' = open \cup {c}
         /\ task[t].pc = "open" /\ conn.alive
         /\ UNCHANGED <<kind, stopped, conn, broker, closing, consumers, faults, windows>>
         /\ Others(t) /\ task' \in [Tasks -> TaskSet]
         /\ task'[t].call = task[t].call /\ task'[t].on = c /\ task'[t].pc = "declare"
         /\ task'[t].tag = task[t].tag /\ lst' \in FieldSet
         /\ lst'.channel = c /\ lst'.tag = lst.tag /\ lst'.initialized = lst.initialized
         /\ lst'.started = lst.started /\ lst'.attached = lst.attached
         /\ lst'.hears = lst.hears /\ lst'.knows = lst.knows /\ lst'.bound = lst.bound
         /\ \A u \in Tasks : task[u].on # c
  BY OpenedIs
<1>2. \A u \in Tasks : u # t => task'[u] = task[u]
  BY <1>1 DEF Others
<1>3. /\ \A k \in consumers : k.chan \in open /\ k.tag \in Tags /\ k.tag # None
      /\ None \notin open /\ None \notin closing
      /\ lst.channel \in open => lst.channel # None
  BY ConsumersAre
<1>4. t = "app" \/ t \in Rebuilders
  BY <1>1, Roles DEF OpsFits
<1>5. t = "app" =>
        /\ lst.hears /\ ~lst.initialized /\ lst.channel \notin open
        /\ \A u \in Rebuilders : task[u].pc \in {"idle", "due"}
        /\ ~lst.started /\ ~lst.bound /\ task["app"].call = "init"
  BY <1>1 DEF InitFits, AppFits
<1>6. t \in Rebuilders => Detached /\ Lacking
  BY <1>1 DEF Detached, Lacking
<1>7. NoRivals =>
        /\ lst.channel \notin open
        /\ \A u \in Rebuilders : u # t => task[u].pc \in {"idle", "due", "overslept"}
  BY <1>1, <1>4, <1>5, <1>6, OthersRest DEF ChannelFits
<1>8. NoRivals' => NoRivals /\ ~Detached'
  BY <1>1, <1>2, <1>7, Roles DEF NoRivals, Clear, Detached
<1>9. Alone =>
        /\ ~Closing /\ ~Starting /\ consumers = {}
        /\ lst.hears \/ ~(lst.started \/ Starting)
  <2> SUFFICES ASSUME Alone
               PROVE  /\ ~Closing /\ ~Starting /\ consumers = {}
                      /\ lst.hears \/ ~(lst.started \/ Starting)
    OBVIOUS
  <2>1. ~Closing
    BY <1>1 DEF StartFits
  <2>2. t = "app" => ~Starting
    BY <1>1 DEF Starting
  <2>3. t \in Rebuilders => ~Starting /\ consumers = {} /\ (lst.hears \/ ~lst.started)
    BY <1>6 DEF StartFits, ConsumersFit
  <2>4. t = "app" => consumers = {} /\ lst.hears
    BY <1>3, <1>5, <2>1 DEF ConsumersFit, Backed
  <2> QED BY <1>4, <2>1, <2>2, <2>3, <2>4
<1>10. TypeOK'
  <2>1. consumers' \subseteq ConsumerSet(open')
    BY <1>1, Types DEF ConsumerSet
  <2> QED BY <1>1, <2>1, ToTypes, Types
<1>11. AppFits'
  BY <1>1, <1>2, Roles DEF AppFits
<1>12. OpsFits'
  BY <1>1, <1>2, Roles DEF OpsFits
<1>13. RebuildersFit'
  BY <1>1, <1>2, Roles DEF RebuildersFit
<1>14. AwaitedOnOpen'
  BY <1>1, <1>2 DEF AwaitedOnOpen
<1>15. ConnFits'
  BY <1>1, <1>2, <1>4, <1>5, Roles DEF ConnFits
<1>16. InitFits'
  BY <1>1, <1>2, Roles DEF InitFits
<1>17. StopFits'
  BY <1>1, <1>2, Roles DEF StopFits, Clear
<1>18. KnowingFits'
  <2>1. ASSUME InTurn, task'["app"].pc = "ladder", lst'.knows = FALSE PROVE FALSE
    <3>1. t # "app" /\ task["app"].pc = "ladder" /\ lst.knows = FALSE
      BY <1>1, <1>2, <2>1, Roles
    <3>2. kind = "request" /\ task["app"].on \in open
      BY <3>1, Types, Roles DEF KnowingFits, AwaitedOnOpen, OnBroker
    <3>3. t \notin Recoverers
      BY <1>1, <3>1, <3>2 DEF KnowingFits
    <3> QED BY <1>1, <1>4, <2>1, <3>1, <3>2, <3>3, Roles DEF ConnFits
  <2>2. \A u \in Tasks :
          /\ task'[u].call = task[u].call
          /\ task'[u].pc # "idle" => task[u].pc # "idle"
          /\ task'[u].pc = "ladder" => task[u].pc = "ladder"
    BY <1>1, <1>2
  <2>3. lst'.knows = lst.knows /\ lst.knows \in BOOLEAN /\ lst'.started = lst.started /\ kind' = kind
    BY <1>1 DEF FieldSet
  <2>4. InTurn' => InTurn
    BY <1>1 DEF InTurn, Clear
  <2> QED BY <2>1, <2>2, <2>3, <2>4, Roles DEF KnowingFits
<1>19. QueueFits'
  BY <1>1, <1>2 DEF QueueFits
<1>20. BindingFits'
  BY <1>1, <1>2, <1>5 DEF BindingFits
<1>21. LadderFits'
  BY <1>1, <1>2 DEF LadderFits
<1>22. SomewhereToFail'
  BY <1>1, <1>2 DEF SomewhereToFail
<1>23. OneRecovery'
  BY <1>1, <1>2, Roles DEF OneRecovery, NoRivals, Clear
<1>24. ChannelFits'
  <2>1. ASSUME NoRivals', NEW u \in Rebuilders, task'[u].pc \in OnBroker PROVE task'[u].on = c
    BY <1>1, <1>2, <1>7, <1>8, <2>1, Roles DEF OnBroker
  <2> QED BY <1>1, <1>8, <2>1 DEF ChannelFits
<1>25. OpenFits'
  BY <1>1, <1>2, <1>4, <1>7, Roles DEF OpenFits, NoRivals, Clear, Closing
<1>26. ConsumersFit'
  BY <1>1, <1>2, <1>3, <1>4, <1>5
  DEF ConsumersFit, StartFits, Backed, Alone, Clear, Lacking, Detached
<1>27. StartFits'
  BY <1>1, <1>2, <1>4, <1>5, Roles
  DEF StartFits, Alone, Clear, Lacking, Detached, Closing, Starting
<1>28. WholeFits'
  <2> SUFFICES ASSUME Unbroken' PROVE WholeFits'
    BY DEF WholeFits
  <2>1. Unbroken /\ NoRivals
    BY <1>1 DEF Unbroken, NoRivals, Clear
  <2>2. ASSUME t = "app" PROVE ~Starting' /\ ~lst.started /\ task'["app"].call = "init"
    <3>1. task'[t].call = task[t].call /\ task'[t].pc = "declare"
      BY <1>1
    <3>2. task'["app"].call = task["app"].call /\ task'["app"].pc = "declare"
      BY <2>2, <3>1, Zenon
    <3>3. ~lst.started /\ task["app"].call = "init"
      BY <1>5, <2>2
    <3>4. ~Starting'
      BY <3>2 DEF Starting
    <3> QED BY <3>2, <3>3, <3>4
  <2>3. t \in Rebuilders => Lacking' /\ task'["app"] = task["app"]
    BY <1>1, <1>2, Roles DEF Lacking
  <2>4. t \in Rebuilders => ~Starting'
    BY <1>7, <2>1, <2>3, Roles DEF WholeFits, AwaitedOnOpen, Starting, OnBroker
  <2> QED BY <1>1, <1>4, <2>1, <2>2, <2>3, <2>4 DEF WholeFits
<1> QED BY <1>10, <1>11, <1>12, <1>13, <1>14, <1>15, <1>16, <1>17, <1>18, <1>19, <1>20,
           <1>21, <1>22, <1>23, <1>24, <1>25, <1>26, <1>27, <1>28

\* Whoever has declared the queue goes on to what else the channel needs.
LEMMA DeclaredKeeps ==
  ASSUME IInv, NEW t \in Tasks, Declared(t) PROVE IInv'
<1> USE DEF IInv, TasksFit, At, IsIdle
<1>1. PICK pc \in {"bind", "ladder", "done"} :
         /\ Advances(t, pc) /\ task[t].pc = "declare" /\ broker' = broker \cup {"queue"}
         /\ lst'.bound = lst.bound /\ lst'.initialized = (lst.initialized \/ t = "app")
         /\ \/ t = "app" /\ pc = IF kind = "event" THEN "ladder" ELSE "done"
            \/ /\ t \in Rebuilders
               /\ \/ pc = "bind" /\ lst.bound
                  \/ pc = "ladder" /\ ~lst.bound /\ (kind = "event" \/ lst.knows)
                  \/ pc = "done" /\ ~lst.bound /\ kind = "request" /\ ~lst.knows /\ ~lst.started
  BY DeclaredIs
<1>2. /\ \A u \in Tasks : u # t => task'[u] = task[u]
      /\ task' \in [Tasks -> TaskSet] /\ lst' \in FieldSet
      /\ \/ pc = "done" /\ task'[t].pc = "idle" /\ task'[t].call = "none"
         \/ /\ pc # "done" /\ task'[t].call = task[t].call /\ task'[t].on = lst.channel
            /\ task'[t].pc = IF lst.channel \in open THEN pc ELSE "raised"
      /\ lst'.channel = lst.channel /\ lst'.tag = lst.tag /\ lst'.started = lst.started
      /\ lst'.attached = lst.attached /\ lst'.hears = lst.hears
      /\ lst'.knows = (lst.knows \/ (pc = "ladder" /\ kind = "event"))
      /\ UNCHANGED <<kind, stopped, conn, open, closing, consumers, faults, windows>>
  BY <1>1 DEF Advances, Others
<1>3. /\ \A k \in consumers : k.chan \in open /\ k.tag \in Tags /\ k.tag # None
      /\ None \notin open /\ None \notin closing
      /\ lst.channel \in open => lst.channel # None
  BY ConsumersAre
<1>4. t \in Rebuilders => Lacking /\ (lst.started => Lacking')
  <2>1. task[t].pc \in {"declare", "bind"}
    BY <1>1
  <2>2. t \in Rebuilders /\ lst.started => task'[t].pc \in {"bind", "ladder", "raised"}
    BY <1>1, <1>2, Roles
  <2> QED BY <2>1, <2>2 DEF Lacking, Detached
<1>5. (NoRivals' <=> NoRivals) /\ (Alone' <=> Alone) /\ (Alone => NoRivals) /\ (Unbroken' <=> Unbroken)
  BY <1>2 DEF NoRivals, Alone, Unbroken, Clear
<1>6. NoRivals /\ t \in Rebuilders => \A u \in Rebuilders : u # t => task'[u].pc \in {"idle", "overslept"}
  BY <1>1, <1>2, OthersRest, Roles
<1>7. /\ task'["ops"] = task["ops"] /\ (Closing' <=> Closing) /\ (Starting' <=> Starting)
      /\ t \in Rebuilders => task'["app"] = task["app"]
      /\ t = "app" => (Lacking' <=> Lacking) /\ (Detached' <=> Detached) /\ \A u \in Rebuilders : task'[u] = task[u]
  BY <1>1, <1>2, Roles DEF Lacking, Detached, Closing, Starting
<1>8. TypeOK'
  <2>1. broker' \subseteq {"queue", "binding", "ladder"}
    BY <1>1, Types
  <2> QED BY <1>2, <2>1, ToTypes, Types
<1>9. AppFits'
  BY <1>1, <1>2, Roles DEF AppFits
<1>10. OpsFits'
  BY <1>1, <1>2, Roles DEF OpsFits
<1>11. RebuildersFit'
  BY <1>1, <1>2, Roles DEF RebuildersFit
<1>12. AwaitedOnOpen'
  BY <1>1, <1>2 DEF AwaitedOnOpen, OnBroker
<1>13. ConnFits'
  BY <1>1, <1>2, Roles DEF ConnFits, InTurn, Clear
<1>14. InitFits'
  BY <1>1, <1>2, <1>3, <1>4, <1>5, <1>6, <1>7, Roles, Types DEF InitFits, AppFits
<1>15. StopFits'
  BY <1>1, <1>2, <1>3, <1>4, <1>5, <1>6, <1>7, Roles, Types
  DEF StopFits, Clear, InitFits, AppFits
<1>16. KnowingFits'
  <2>1. \A u \in Tasks :
          /\ task'[u].call = "start" => task[u].call = "start"
          /\ task'[u].pc # "idle" => task[u].pc # "idle"
    BY <1>1, <1>2
  <2>2. /\ lst.knows => lst'.knows
        /\ pc = "ladder" /\ (kind = "event" \/ t # "app") => lst'.knows
    BY <1>1, <1>2, Roles
  <2>3. ASSUME NEW u \in Tasks, task'[u].pc = "ladder", kind = "event" \/ u # "app" PROVE lst'.knows
    BY <1>1, <1>2, <2>2, <2>3 DEF KnowingFits
  <2>4. ASSUME InTurn, task'["app"].pc = "ladder", ~lst'.knows, lst.channel \in open
        PROVE  task'["app"].on = lst.channel
    BY <1>1, <1>2, <2>2, <2>4, Roles DEF KnowingFits
  <2> QED BY <1>2, <2>1, <2>2, <2>3, <2>4, Roles DEF KnowingFits, InTurn, Clear
<1>17. QueueFits'
  BY <1>1, <1>2 DEF QueueFits
<1>18. BindingFits'
  BY <1>1, <1>2 DEF BindingFits
<1>19. LadderFits'
  <2> SUFFICES ASSUME InTurn, lst.channel \in open, lst'.knows
               PROVE  \/ "ladder" \in broker'
                      \/ \E u \in Tasks : /\ task'[u].on = lst.channel
                                          /\ \/ task'[u].pc = "ladder" \/ task'[u].pc = "declare"
                                             \/ task'[u].pc = "bind" /\ u # "app"
    BY <1>2 DEF LadderFits, InTurn, Clear
  <2>1. pc # "done" => /\ task'[t].on = lst.channel
                       /\ task'[t].pc = "ladder" \/ (task'[t].pc = "bind" /\ t # "app")
    BY <1>1, <1>2, Roles
  <2>2. CASE pc = "done"
    <3>1. lst.knows
      BY <1>2, <2>2
    <3>2. t = "app" /\ ~(task[t].pc = "declare")
      BY <1>1, <2>2, <3>1, Types DEF InitFits
    <3>3. CASE "ladder" \in broker
      BY <1>1, <3>3
    <3>4. CASE "ladder" \notin broker
      <4>1. PICK u \in Tasks : /\ task[u].on = lst.channel
                               /\ \/ task[u].pc = "ladder" \/ task[u].pc = "declare"
                                  \/ task[u].pc = "bind" /\ u # "app"
        BY <3>1, <3>4 DEF LadderFits
      <4>2. u # t
        BY <1>1, <3>2, <4>1
      <4> QED BY <1>2, <4>1, <4>2
    <3> QED BY <3>3, <3>4
  <2> QED BY <2>1, <2>2
<1>20. SomewhereToFail'
  BY <1>1, <1>2 DEF SomewhereToFail
<1>21. OneRecovery'
  BY <1>1, <1>2, Roles DEF OneRecovery, NoRivals, Clear
<1>22. ChannelFits'
  <2>1. ASSUME NoRivals, t \in Rebuilders
        PROVE  /\ Detached' => lst.channel \notin open
               /\ \A u \in Rebuilders : task'[u].pc \in OnBroker => task'[u].on = lst.channel
    BY <1>2, <1>6, <2>1 DEF Detached, OnBroker
  <2>2. ASSUME NoRivals, t = "app"
        PROVE  /\ Detached' => lst.channel \notin open
               /\ \A u \in Rebuilders : task'[u].pc \in OnBroker /\ (lst.hears \/ lst.channel \in open)
                                           => task'[u].on = lst.channel
    BY <1>7, <2>2 DEF ChannelFits
  <2> QED BY <1>1, <1>2, <1>5, <2>1, <2>2 DEF ChannelFits
<1>23. OpenFits'
  BY <1>1, <1>2, Roles DEF OpenFits, NoRivals, Clear, Closing
<1>24. ConsumersFit'
  <2>1. \A k \in consumers : Backed(k) => Backed(k)'
    BY <1>2, <1>7 DEF Backed
  <2> QED BY <1>1, <1>2, <1>4, <1>5, <1>7, <2>1 DEF ConsumersFit
<1>25. StartFits'
  <2> SUFFICES ASSUME Alone PROVE StartFits'
    BY <1>5 DEF StartFits
  <2>1. \A u \in Tasks : task'[u].pc # "open" \/ task[u].pc = "open"
    BY <1>1, <1>2
  <2>2. CASE t = "app"
    <3>1. ~Starting
      BY <1>1, <2>2 DEF Starting
    <3> QED BY <1>2, <1>7, <2>1, <2>2, <3>1 DEF StartFits
  <2>3. CASE t \in Rebuilders
    <3>1. ~Starting /\ (lst.hears \/ ~lst.started)
      BY <1>4, <2>3 DEF StartFits
    <3>2. Closing => \A u \in Rebuilders : task'[u].pc \in OnBroker => task'[u].on = task["ops"].on
      BY <1>2, <1>3, Roles DEF StartFits, OnBroker
    <3> QED BY <1>2, <1>7, <2>1, <3>1, <3>2 DEF StartFits
  <2> QED BY <1>1, <2>2, <2>3
<1>26. WholeFits'
  <2> SUFFICES ASSUME Unbroken PROVE WholeFits'
    BY <1>5 DEF WholeFits
  <2>1. lst'.initialized = lst.initialized \/ lst'.initialized = TRUE
    BY <1>1, Types DEF FieldSet
  <2>2. task'["app"].call = "start" => task["app"].call = "start"
    BY <1>1, <1>2, <1>7
  <2>3. Starting => task'["app"] = task["app"]
    BY <1>1, <1>2, <1>7 DEF Starting
  <2>4. lst.started /\ Lacking => Lacking'
    BY <1>1, <1>4, <1>7
  <2>5. task["restore"].pc = "due" => task'["restore"].pc = "due"
    BY <1>1, <1>2, Roles
  <2> QED BY <1>2, <1>7, <2>1, <2>2, <2>3, <2>4, <2>5 DEF WholeFits
<1> QED BY <1>8, <1>9, <1>10, <1>11, <1>12, <1>13, <1>14, <1>15, <1>16, <1>17, <1>18,
           <1>19, <1>20, <1>21, <1>22, <1>23, <1>24, <1>25, <1>26

LEMMA BoundKeeps ==
  ASSUME IInv, NEW t \in Tasks, Bound(t) PROVE IInv'
<1> USE DEF IInv, TasksFit, At, IsIdle
<1>1. PICK pc \in {"bind", "ladder", "done"} :
         /\ Advances(t, pc) /\ task[t].pc = "bind" /\ broker' = broker \cup {"binding"}
         /\ lst'.bound = (lst.bound \/ t = "app") /\ lst'.initialized = lst.initialized
         /\ \/ t = "app" /\ pc = IF kind = "request" THEN "ladder" ELSE "done"
            \/ /\ t \in Rebuilders
               /\ \/ pc = "ladder" /\ (kind = "event" \/ lst.knows)
                  \/ pc = "done" /\ kind = "request" /\ ~lst.knows /\ ~lst.started
  BY BoundIs
<1>2. /\ \A u \in Tasks : u # t => task'[u] = task[u]
      /\ task' \in [Tasks -> TaskSet] /\ lst' \in FieldSet
      /\ \/ pc = "done" /\ task'[t].pc = "idle" /\ task'[t].call = "none"
         \/ /\ pc # "done" /\ task'[t].call = task[t].call /\ task'[t].on = lst.channel
            /\ task'[t].pc = IF lst.channel \in open THEN pc ELSE "raised"
      /\ lst'.channel = lst.channel /\ lst'.tag = lst.tag /\ lst'.started = lst.started
      /\ lst'.attached = lst.attached /\ lst'.hears = lst.hears
      /\ lst'.knows = (lst.knows \/ (pc = "ladder" /\ kind = "event"))
      /\ UNCHANGED <<kind, stopped, conn, open, closing, consumers, faults, windows>>
  BY <1>1 DEF Advances, Others
<1>3. /\ \A k \in consumers : k.chan \in open /\ k.tag \in Tags /\ k.tag # None
      /\ None \notin open /\ None \notin closing
      /\ lst.channel \in open => lst.channel # None
  BY ConsumersAre
<1>4. t \in Rebuilders => Lacking /\ (lst.started => Lacking')
  <2>1. task[t].pc \in {"declare", "bind"}
    BY <1>1
  <2>2. t \in Rebuilders /\ lst.started => task'[t].pc \in {"bind", "ladder", "raised"}
    BY <1>1, <1>2, Roles
  <2> QED BY <2>1, <2>2 DEF Lacking, Detached
<1>5. (NoRivals' <=> NoRivals) /\ (Alone' <=> Alone) /\ (Alone => NoRivals) /\ (Unbroken' <=> Unbroken)
  BY <1>2 DEF NoRivals, Alone, Unbroken, Clear
<1>6. NoRivals /\ t \in Rebuilders => \A u \in Rebuilders : u # t => task'[u].pc \in {"idle", "overslept"}
  BY <1>1, <1>2, OthersRest, Roles
<1>7. /\ task'["ops"] = task["ops"] /\ (Closing' <=> Closing) /\ (Starting' <=> Starting)
      /\ t \in Rebuilders => task'["app"] = task["app"]
      /\ t = "app" => (Lacking' <=> Lacking) /\ (Detached' <=> Detached) /\ \A u \in Rebuilders : task'[u] = task[u]
  BY <1>1, <1>2, Roles DEF Lacking, Detached, Closing, Starting
<1>8. TypeOK'
  <2>1. broker' \subseteq {"queue", "binding", "ladder"}
    BY <1>1, Types
  <2> QED BY <1>2, <2>1, ToTypes, Types
<1>9. AppFits'
  BY <1>1, <1>2, Roles DEF AppFits
<1>10. OpsFits'
  BY <1>1, <1>2, Roles DEF OpsFits
<1>11. RebuildersFit'
  BY <1>1, <1>2, Roles DEF RebuildersFit
<1>12. AwaitedOnOpen'
  BY <1>1, <1>2 DEF AwaitedOnOpen, OnBroker
<1>13. ConnFits'
  BY <1>1, <1>2, Roles DEF ConnFits, InTurn, Clear
<1>14. InitFits'
  BY <1>1, <1>2, Roles DEF InitFits, AppFits
<1>15. StopFits'
  BY <1>1, <1>2, Roles DEF StopFits, Clear
<1>16. KnowingFits'
  <2>1. \A u \in Tasks :
          /\ task'[u].call = "start" => task[u].call = "start"
          /\ task'[u].pc # "idle" => task[u].pc # "idle"
    BY <1>1, <1>2
  <2>2. /\ lst.knows => lst'.knows
        /\ pc = "ladder" /\ (kind = "event" \/ t # "app") => lst'.knows
    BY <1>1, <1>2, Roles
  <2>3. ASSUME NEW u \in Tasks, task'[u].pc = "ladder", kind = "event" \/ u # "app" PROVE lst'.knows
    BY <1>1, <1>2, <2>2, <2>3 DEF KnowingFits
  <2>4. ASSUME InTurn, task'["app"].pc = "ladder", ~lst'.knows, lst.channel \in open
        PROVE  task'["app"].on = lst.channel
    BY <1>1, <1>2, <2>2, <2>4, Roles DEF KnowingFits
  <2> QED BY <1>2, <2>1, <2>2, <2>3, <2>4, Roles DEF KnowingFits, InTurn, Clear
<1>17. QueueFits'
  BY <1>1, <1>2 DEF QueueFits
<1>18. BindingFits'
  BY <1>1, <1>2 DEF BindingFits
<1>19. LadderFits'
  <2> SUFFICES ASSUME InTurn, lst.channel \in open, lst'.knows
               PROVE  \/ "ladder" \in broker'
                      \/ \E u \in Tasks : /\ task'[u].on = lst.channel
                                          /\ \/ task'[u].pc = "ladder" \/ task'[u].pc = "declare"
                                             \/ task'[u].pc = "bind" /\ u # "app"
    BY <1>2 DEF LadderFits, InTurn, Clear
  <2>1. pc # "done" => /\ task'[t].on = lst.channel
                       /\ task'[t].pc = "ladder" \/ (task'[t].pc = "bind" /\ t # "app")
    BY <1>1, <1>2
  <2>2. CASE pc = "done"
    <3>1. lst.knows
      BY <1>2, <2>2
    <3>2. t = "app" /\ ~(task[t].pc = "declare")
      BY <1>1, <2>2, <3>1 DEF InitFits
    <3>3. CASE "ladder" \in broker
      BY <1>1, <3>3
    <3>4. CASE "ladder" \notin broker
      <4>1. PICK u \in Tasks : /\ task[u].on = lst.channel
                               /\ \/ task[u].pc = "ladder" \/ task[u].pc = "declare"
                                  \/ task[u].pc = "bind" /\ u # "app"
        BY <3>1, <3>4 DEF LadderFits
      <4>2. u # t
        BY <1>1, <3>2, <4>1
      <4> QED BY <1>2, <4>1, <4>2
    <3> QED BY <3>3, <3>4
  <2> QED BY <2>1, <2>2
<1>20. SomewhereToFail'
  BY <1>1, <1>2 DEF SomewhereToFail
<1>21. OneRecovery'
  BY <1>1, <1>2, Roles DEF OneRecovery, NoRivals, Clear
<1>22. ChannelFits'
  <2>1. ASSUME NoRivals, t \in Rebuilders
        PROVE  /\ Detached' => lst.channel \notin open
               /\ \A u \in Rebuilders : task'[u].pc \in OnBroker => task'[u].on = lst.channel
    BY <1>2, <1>6, <2>1 DEF Detached, OnBroker
  <2>2. ASSUME NoRivals, t = "app"
        PROVE  /\ Detached' => lst.channel \notin open
               /\ \A u \in Rebuilders : task'[u].pc \in OnBroker /\ (lst.hears \/ lst.channel \in open)
                                           => task'[u].on = lst.channel
    BY <1>7, <2>2 DEF ChannelFits
  <2> QED BY <1>1, <1>2, <1>5, <2>1, <2>2 DEF ChannelFits
<1>23. OpenFits'
  BY <1>1, <1>2, Roles DEF OpenFits, NoRivals, Clear, Closing
<1>24. ConsumersFit'
  <2>1. \A k \in consumers : Backed(k) => Backed(k)'
    BY <1>2, <1>7 DEF Backed
  <2> QED BY <1>1, <1>2, <1>4, <1>5, <1>7, <2>1 DEF ConsumersFit
<1>25. StartFits'
  <2> SUFFICES ASSUME Alone PROVE StartFits'
    BY <1>5 DEF StartFits
  <2>1. \A u \in Tasks : task'[u].pc # "open" \/ task[u].pc = "open"
    BY <1>1, <1>2
  <2>2. CASE t = "app"
    <3>1. ~Starting
      BY <1>1, <2>2 DEF Starting
    <3> QED BY <1>2, <1>7, <2>1, <2>2, <3>1 DEF StartFits
  <2>3. CASE t \in Rebuilders
    <3>1. ~Starting /\ (lst.hears \/ ~lst.started)
      BY <1>4, <2>3 DEF StartFits
    <3>2. Closing => \A u \in Rebuilders : task'[u].pc \in OnBroker => task'[u].on = task["ops"].on
      BY <1>2, <1>3, Roles DEF StartFits, OnBroker
    <3> QED BY <1>2, <1>7, <2>1, <3>1, <3>2 DEF StartFits
  <2> QED BY <1>1, <2>2, <2>3
<1>26. WholeFits'
  <2> SUFFICES ASSUME Unbroken PROVE WholeFits'
    BY <1>5 DEF WholeFits
  <2>1. lst'.initialized = lst.initialized \/ lst'.initialized = TRUE
    BY <1>1 DEF FieldSet
  <2>2. task'["app"].call = "start" => task["app"].call = "start"
    BY <1>1, <1>2, <1>7
  <2>3. Starting => task'["app"] = task["app"]
    BY <1>1, <1>2, <1>7 DEF Starting
  <2>4. lst.started /\ Lacking => Lacking'
    BY <1>1, <1>4, <1>7
  <2>5. task["restore"].pc = "due" => task'["restore"].pc = "due"
    BY <1>1, <1>2, Roles
  <2> QED BY <1>2, <1>7, <2>1, <2>2, <2>3, <2>4, <2>5 DEF WholeFits
<1> QED BY <1>8, <1>9, <1>10, <1>11, <1>12, <1>13, <1>14, <1>15, <1>16, <1>17, <1>18,
           <1>19, <1>20, <1>21, <1>22, <1>23, <1>24, <1>25, <1>26

\* After the ladder a rebuild starts the consumer, if the listener was started.
LEMMA LadderDeclaredKeeps ==
  ASSUME IInv, NEW t \in Tasks, LadderDeclared(t) PROVE IInv'
<1> USE DEF IInv, TasksFit, At, IsIdle
<1>1. PICK g :
         /\ task[t].pc = "ladder" /\ broker' = broker \cup {"ladder"}
         /\ UNCHANGED <<kind, stopped, conn, open, closing, faults, windows>>
         /\ Others(t) /\ task' \in [Tasks -> TaskSet] /\ lst' \in FieldSet
         /\ lst'.channel = lst.channel /\ lst'.initialized = lst.initialized
         /\ lst'.started = lst.started /\ lst'.attached = lst.attached
         /\ lst'.hears = lst.hears /\ lst'.knows = TRUE /\ lst'.bound = lst.bound
         /\ \/ /\ ~(task[t].call \in {"restore", "recover"} /\ lst.started)
               /\ task'[t].pc = "idle" /\ task'[t].call = "none"
               /\ lst'.tag = lst.tag /\ consumers' = consumers
            \/ /\ task[t].call \in {"restore", "recover"} /\ lst.started
               /\ task'[t].call = task[t].call /\ task'[t].on = lst.channel
               /\ task'[t].pc = IF lst.channel \in open THEN "consume" ELSE "raised"
               /\ lst'.tag = g /\ g \in Tags /\ g # task["ops"].tag
               /\ consumers' = IF lst.channel \in open
                    THEN consumers \cup {[chan |-> lst.channel, tag |-> g, climbs |-> TRUE]}
                    ELSE consumers
  BY LadderDeclaredIs
<1>2. \A u \in Tasks : u # t => task'[u] = task[u]
  BY <1>1 DEF Others
<1>3. /\ \A k \in consumers : k.chan \in open /\ k.tag \in Tags /\ k.tag # None
      /\ None \notin open /\ None \notin closing
      /\ lst.channel \in open => lst.channel # None
  BY ConsumersAre
<1>4. t = "app" \/ t \in Rebuilders
  BY <1>1, Roles DEF OpsFits
<1>5. /\ t = "app" => task["app"].call \in {"init", "subscribe"}
      /\ t \in Rebuilders => task[t].call \in {"restore", "recover"} /\ Lacking
  BY <1>1, Roles DEF AppFits, RebuildersFit, Lacking
<1>6. NoRivals' => NoRivals /\ \A u \in Rebuilders : u # t => task'[u].pc \in {"idle", "overslept"} \/ t = "app"
  BY <1>1, <1>2, <1>4, OthersRest, Roles DEF NoRivals, Clear
<1>7. Alone' => Alone /\ NoRivals'
  BY <1>1 DEF Alone, NoRivals, Clear
<1>8. \/ /\ t = "app" /\ consumers' = consumers /\ lst'.tag = lst.tag
         /\ (Lacking' <=> Lacking) /\ (Detached' <=> Detached)
         /\ ~Starting /\ ~Starting' /\ task'["app"].call = "none" /\ task'["app"].pc = "idle"
      \/ /\ t \in Rebuilders /\ task'["app"] = task["app"] /\ (Starting' <=> Starting)
  BY <1>1, <1>2, <1>4, <1>5, Roles DEF Lacking, Detached, Starting
<1>9. task'["ops"] = task["ops"] /\ (Closing' <=> Closing)
  BY <1>1, <1>2, <1>4, Roles DEF Closing
<1>10. TypeOK'
  <2>1. consumers' \subseteq ConsumerSet(open')
    <3>1. ASSUME lst.channel \in open, g \in Tags
          PROVE  [chan |-> lst.channel, tag |-> g, climbs |-> TRUE] \in ConsumerSet(open)
      BY <3>1 DEF ConsumerSet
    <3> QED BY <1>1, <3>1, Types
  <2>2. broker' \subseteq {"queue", "binding", "ladder"}
    BY <1>1, Types
  <2> QED BY <1>1, <2>1, <2>2, ToTypes, Types
<1>11. AppFits'
  BY <1>1, <1>2, Roles DEF AppFits
<1>12. OpsFits'
  BY <1>1, <1>2, Roles DEF OpsFits
<1>13. RebuildersFit'
  BY <1>1, <1>2, Roles DEF RebuildersFit
<1>14. AwaitedOnOpen'
  BY <1>1, <1>2 DEF AwaitedOnOpen, OnBroker
<1>15. ConnFits'
  BY <1>1, <1>2, Roles DEF ConnFits, InTurn, Clear
<1>16. InitFits'
  BY <1>1, <1>2, Roles DEF InitFits, AppFits
<1>17. StopFits'
  BY <1>1, <1>2, <1>4, Roles DEF StopFits, Clear
<1>18. KnowingFits'
  BY <1>1, <1>2 DEF KnowingFits
<1>19. QueueFits'
  BY <1>1, <1>2 DEF QueueFits
<1>20. BindingFits'
  BY <1>1, <1>2 DEF BindingFits
<1>21. LadderFits'
  BY <1>1, <1>2 DEF LadderFits
<1>22. SomewhereToFail'
  BY <1>1, <1>2 DEF SomewhereToFail
<1>23. OneRecovery'
  BY <1>1, <1>2, Roles DEF OneRecovery, NoRivals, Clear
<1>24. ChannelFits'
  <2>1. ASSUME NoRivals', t \in Rebuilders
        PROVE  /\ Detached' => lst.channel \notin open
               /\ \A u \in Rebuilders : task'[u].pc \in OnBroker => task'[u].on = lst.channel
    BY <1>1, <1>6, <2>1, Roles DEF Detached, OnBroker
  <2>2. ASSUME NoRivals', t = "app"
        PROVE  /\ Detached' => lst.channel \notin open
               /\ \A u \in Rebuilders : task'[u].pc \in OnBroker /\ (lst.hears \/ lst.channel \in open)
                                           => task'[u].on = lst.channel
    BY <1>2, <1>6, <1>8, <2>2, Roles DEF ChannelFits
  <2> QED BY <1>1, <1>4, <2>1, <2>2 DEF ChannelFits
<1>25. OpenFits'
  BY <1>1, <1>2, <1>4, Roles DEF OpenFits, NoRivals, Clear, Closing
<1>26. ConsumersFit'
  <2> SUFFICES ASSUME Alone' PROVE ConsumersFit'
    BY DEF ConsumersFit
  <2>1. CASE t = "app"
    <3>1. \A k \in consumers : Backed(k) => Backed(k)'
      BY <1>1, <1>8, <1>9, <2>1 DEF Backed
    <3> QED BY <1>7, <1>8, <2>1, <3>1, Roles DEF ConsumersFit
  <2>2. CASE t \in Rebuilders
    <3>1. consumers = {}
      BY <1>5, <1>7, <2>2 DEF ConsumersFit
    <3>2. consumers' = {} \/ (/\ lst.channel \in open /\ lst.started /\ task'[t].pc = "consume"
                              /\ consumers' = {[chan |-> lst.channel, tag |-> lst'.tag, climbs |-> TRUE]})
      BY <1>1, <3>1
    <3>3. task'[t].pc = "consume" => ~Lacking'
      BY <1>6, <1>7, <2>2, Roles DEF Lacking, Detached
    <3>4. ASSUME NEW k \in consumers' PROVE Backed(k)' /\ ~Lacking'
      <4>1. k.chan = lst.channel /\ k.tag = lst'.tag /\ lst.started /\ task'[t].pc = "consume"
        BY <3>2
      <4> QED BY <1>1, <3>3, <4>1 DEF Backed
    <3> QED BY <3>2, <3>4 DEF ConsumersFit
  <2> QED BY <1>4, <2>1, <2>2
<1>27. StartFits'
  <2> SUFFICES ASSUME Alone' PROVE StartFits'
    BY DEF StartFits
  <2>1. \A u \in Tasks : task'[u].pc = "open" => task[u].pc = "open"
    BY <1>1, <1>2
  <2>2. CASE t = "app"
    <3>1. \A u \in Rebuilders : task'[u] = task[u]
      BY <1>2, <2>2, Roles
    <3> QED BY <1>1, <1>7, <1>8, <1>9, <2>1, <2>2, <3>1 DEF StartFits
  <2>3. CASE t \in Rebuilders
    <3>1. Alone /\ Lacking /\ ~Starting /\ ~Starting'
      BY <1>5, <1>7, <1>8, <2>3 DEF StartFits
    <3>2. Closing => task'[t].pc # "consume" /\ \A u \in Rebuilders :
             task'[u].pc \in OnBroker => task'[u].on = task["ops"].on
      BY <1>1, <1>2, <1>3, <3>1, Roles DEF StartFits, OnBroker
    <3>3. lst.hears \/ (~lst.started /\ consumers' = consumers)
      BY <1>1, <3>1 DEF StartFits
    <3> QED BY <1>1, <1>9, <2>1, <3>1, <3>2, <3>3 DEF StartFits
  <2> QED BY <1>4, <2>2, <2>3
<1>28. WholeFits'
  <2> SUFFICES ASSUME Unbroken' PROVE WholeFits'
    BY DEF WholeFits
  <2>1. Unbroken
    BY <1>1 DEF Unbroken, Clear
  <2>2. CASE t = "app"
    <3>1. task'["restore"].pc = task["restore"].pc
      BY <1>2, <2>2, Roles
    <3> QED BY <1>1, <1>8, <2>1, <2>2, <3>1 DEF WholeFits
  <2>3. CASE t \in Rebuilders
    <3>1. lst.started => Lacking' \/ \E k \in consumers' : k.chan = lst.channel
      <4>1. lst.started /\ lst.channel \in open =>
              [chan |-> lst.channel, tag |-> g, climbs |-> TRUE] \in consumers'
        BY <1>1, <1>5, <2>3
      <4>2. [chan |-> lst.channel, tag |-> g, climbs |-> TRUE].chan = lst.channel
        OBVIOUS
      <4>3. lst.started /\ lst.channel \notin open => task'[t].pc = "raised"
        BY <1>1, <1>5, <2>3
      <4> QED BY <2>3, <4>1, <4>2, <4>3 DEF Lacking, Detached
    <3>2. consumers \subseteq consumers'
      BY <1>1
    <3> QED BY <1>1, <1>8, <2>1, <2>3, <3>1, <3>2 DEF WholeFits
  <2> QED BY <1>4, <2>2, <2>3
<1> QED BY <1>10, <1>11, <1>12, <1>13, <1>14, <1>15, <1>16, <1>17, <1>18, <1>19, <1>20,
           <1>21, <1>22, <1>23, <1>24, <1>25, <1>26, <1>27, <1>28

\* The consumer exists since the call was issued; now its caller knows.
LEMMA ConsumingKeeps ==
  ASSUME IInv, NEW t \in Tasks, Consuming(t) PROVE IInv'
<1> USE DEF IInv, TasksFit, At, IsIdle
<1>1. /\ task[t].pc = "consume" /\ Others(t) /\ task' \in [Tasks -> TaskSet]
      /\ task'[t].pc = "idle" /\ task'[t].call = "none" /\ lst' \in FieldSet
      /\ lst'.channel = lst.channel /\ lst'.tag = lst.tag /\ lst'.initialized = lst.initialized
      /\ lst'.started = (lst.started \/ task[t].call = "start")
      /\ lst'.attached = lst.attached /\ lst'.hears = lst.hears
      /\ lst'.knows = lst.knows /\ lst'.bound = lst.bound
      /\ UNCHANGED <<kind, stopped, conn, broker, open, closing, consumers, faults, windows>>
  BY ConsumingIs
<1>2. \A u \in Tasks : u # t => task'[u] = task[u]
  BY <1>1 DEF Others
<1>3. \/ t = "app" /\ task["app"].call = "start" /\ lst'.started = TRUE
      \/ t \in Rebuilders /\ lst'.started = lst.started
  BY <1>1, Roles, Types DEF AppFits, OpsFits, RebuildersFit, FieldSet
<1>4. (Detached' <=> Detached) /\ (Lacking' <=> Lacking) /\ (Closing' <=> Closing)
  BY <1>1, <1>2, <1>3, Roles DEF Detached, Lacking, Closing
<1>5. \/ t = "app" /\ Starting /\ ~Starting' /\ task'["app"].call = "none"
      \/ t \in Rebuilders /\ (Starting' <=> Starting) /\ task'["app"] = task["app"]
  BY <1>1, <1>2, <1>3, Roles DEF Starting
<1>6. TypeOK'
  BY <1>1, <1>2, ToTypes, Types
<1>7. AppFits'
  BY <1>1, <1>2, Roles DEF AppFits
<1>8. OpsFits'
  BY <1>1, <1>2, Roles DEF OpsFits
<1>9. RebuildersFit'
  BY <1>1, <1>2, Roles DEF RebuildersFit
<1>10. AwaitedOnOpen'
  BY <1>1, <1>2 DEF AwaitedOnOpen, OnBroker
<1>11. ConnFits'
  BY <1>1, <1>2, Roles DEF ConnFits, InTurn, Clear
<1>12. InitFits'
  BY <1>1, <1>2, <1>3, Roles DEF InitFits
<1>13. StopFits'
  BY <1>1, <1>2, <1>3, Roles DEF StopFits, Clear
<1>14. KnowingFits'
  BY <1>1, <1>2, <1>3, Roles DEF KnowingFits, InTurn, Clear
<1>15. QueueFits'
  BY <1>1, <1>2 DEF QueueFits
<1>16. BindingFits'
  BY <1>1, <1>2 DEF BindingFits
<1>17. LadderFits'
  BY <1>1, <1>2 DEF LadderFits, InTurn, Clear
<1>18. SomewhereToFail'
  BY <1>1, <1>2 DEF SomewhereToFail
<1>19. OneRecovery'
  BY <1>1, <1>2, Roles DEF OneRecovery, NoRivals, Clear
<1>20. ChannelFits'
  BY <1>1, <1>2, <1>4, Roles DEF ChannelFits, NoRivals, Clear, OnBroker
<1>21. OpenFits'
  BY <1>1, <1>2, <1>3, Roles DEF OpenFits, NoRivals, Clear, Closing
<1>22. ConsumersFit'
  <2>1. task'["ops"] = task["ops"]
    BY <1>1, <1>2, <1>3, Roles
  <2>2. ASSUME NEW k \in consumers, Backed(k) PROVE Backed(k)'
    <3>1. lst.started \/ Starting => lst'.started \/ Starting'
      BY <1>3, <1>5, Roles
    <3>2. lst'.channel = lst.channel /\ lst'.tag = lst.tag
      BY <1>1
    <3> QED BY <1>4, <2>1, <2>2, <3>1, <3>2 DEF Backed
  <2> QED BY <1>1, <1>4, <2>2 DEF ConsumersFit, Alone, Clear
<1>23. StartFits'
  <2>1. task'["ops"] = task["ops"]
    BY <1>1, <1>2, <1>3, Roles
  <2>2. \A u \in Tasks :
          /\ task'[u].pc = "open" => task[u].pc = "open"
          /\ task'[u].pc = "consume" => task[u].pc = "consume"
          /\ task'[u].pc \in OnBroker => task'[u] = task[u]
    BY <1>1, <1>2 DEF OnBroker
  <2> QED BY <1>1, <1>3, <1>4, <1>5, <2>1, <2>2, Roles DEF StartFits, Alone, Clear
<1>24. WholeFits'
  <2>1. task["restore"].pc = "due" => task'["restore"].pc = "due"
    BY <1>1, <1>2, Roles
  <2> QED BY <1>1, <1>3, <1>4, <1>5, <2>1 DEF WholeFits, Unbroken, Clear
<1> QED BY <1>6, <1>7, <1>8, <1>9, <1>10, <1>11, <1>12, <1>13, <1>14, <1>15, <1>16, <1>17,
           <1>18, <1>19, <1>20, <1>21, <1>22, <1>23, <1>24

--------------------------------------------------------------------------------
(* Each step preserves the invariant. Channels and sockets come and go. *)

\* Channels are lost: their consumers go, and the calls awaited on them raise. This
\* is ChannelCloses, SocketDies and a discarded attempt of the connection.
LEMMA LossKeeps ==
  ASSUME IInv, NEW cs, NEW X \in SUBSET Tasks, Loses(cs, X), Learns(cs), ConnFits',
         X = {} \/ (X = {"restore"} /\ open' = {} /\ ~conn'.alive), faults' \in 0..MaxFaults, conn' \in ConnSet,
         conn' = conn \/ ~conn'.alive, UNCHANGED <<kind, stopped, broker, windows>>
  PROVE  IInv'
<1> USE DEF IInv, TasksFit, At, IsIdle
<1>1. /\ open' = open \ cs /\ closing' = closing \cup (open \cap cs)
      /\ consumers' = {k \in consumers : k.chan \notin cs} /\ task' \in [Tasks -> TaskSet]
  BY DEF Loses
<1>2. \A t \in Tasks :
        \/ /\ task'[t].call = task[t].call /\ task'[t].on = task[t].on /\ task'[t].tag = task[t].tag
           /\ task'[t].pc = IF task[t].pc \in OnBroker /\ task[t].on \in cs THEN "raised" ELSE task[t].pc
        \/ t = "restore" /\ open' = {} /\ ~conn'.alive /\ task'[t].pc = "idle" /\ task'[t].call = "none"
  BY DEF Loses, Idle
<1>3. /\ lst'.channel = lst.channel /\ lst'.tag = lst.tag /\ lst'.initialized = lst.initialized
      /\ lst'.started = lst.started /\ lst'.attached = lst.attached
      /\ lst'.hears = lst.hears /\ lst'.bound = lst.bound
      /\ lst' \in FieldSet
      /\ \/ lst'.knows = lst.knows
         \/ lst'.knows = TRUE /\ \E t \in Tasks : At(t, "ladder") /\ task[t].on \in cs
  BY DEF Learns
<1>4. /\ \A k \in consumers : k.chan \in open /\ k.tag \in Tags /\ k.tag # None
      /\ None \notin open /\ None \notin closing
      /\ lst.channel \in open => lst.channel # None
  BY ConsumersAre
<1>5. \A t \in {"app", "ops"} :
        /\ task'[t].call = task[t].call /\ task'[t].on = task[t].on /\ task'[t].tag = task[t].tag
        /\ \/ task'[t].pc = task[t].pc /\ (task[t].pc \in OnBroker => task[t].on \notin cs)
           \/ task'[t].pc = "raised" /\ task[t].pc \in OnBroker /\ task[t].on \in cs
  BY <1>2, Roles
<1>6. \A t \in Rebuilders :
        \/ /\ task'[t].pc = task[t].pc /\ task'[t].call = task[t].call /\ task'[t].on = task[t].on
           /\ task[t].pc \in OnBroker => task[t].on \notin cs
        \/ /\ task'[t].pc = "raised" /\ task[t].pc \in OnBroker /\ task[t].on \in cs
           /\ task'[t].call = task[t].call
        \/ t = "restore" /\ open' = {} /\ ~conn'.alive /\ task'[t].pc = "idle" /\ task'[t].call = "none"
  BY <1>2, Roles
<1>7. TypeOK'
  <2>1. consumers' \subseteq ConsumerSet(open')
    BY <1>1, Types DEF ConsumerSet
  <2>2. open' \subseteq Channels /\ closing' \subseteq Channels \ open'
    BY <1>1, Types
  <2> QED BY <1>1, <1>3, <2>1, ToTypes, Types
<1>8. AppFits'
  BY <1>5 DEF AppFits, OnBroker
<1>9. OpsFits'
  BY <1>5 DEF OpsFits, OnBroker
<1>10. RebuildersFit'
  BY <1>6, Roles DEF RebuildersFit, OnBroker
<1>11. AwaitedOnOpen'
  BY <1>1, <1>2 DEF AwaitedOnOpen, OnBroker
<1>12. ConnFits'
  OBVIOUS
<1>13. InitFits'
  BY <1>1, <1>3, <1>5, <1>6, Roles DEF InitFits, OnBroker, AppFits
<1>14. StopFits'
  BY <1>3, <1>5 DEF StopFits, OnBroker, Clear
<1>15. KnowingFits'
  BY <1>1, <1>2, <1>3, Roles DEF KnowingFits, OnBroker, InTurn, Clear
<1>16. QueueFits'
  BY <1>1, <1>2, <1>3 DEF QueueFits
<1>17. BindingFits'
  BY <1>1, <1>2, <1>3 DEF BindingFits
<1>18. LadderFits'
  <2>1. ASSUME InTurn, lst'.channel \in open', lst'.knows = TRUE, "ladder" \notin broker
        PROVE  \E t \in Tasks :
                 /\ task'[t].on = lst'.channel
                 /\ \/ task'[t].pc = "ladder" \/ task'[t].pc = "declare"
                    \/ task'[t].pc = "bind" /\ t # "app"
    <3>1. lst.channel \in open /\ lst.channel \notin cs /\ lst'.channel = lst.channel
      BY <1>1, <1>3, <2>1
    <3>2. CASE lst.knows = TRUE
      <4>1. PICK t \in Tasks : /\ task[t].on = lst.channel
                              /\ \/ task[t].pc = "ladder" \/ task[t].pc = "declare"
                                 \/ task[t].pc = "bind" /\ t # "app"
        BY <2>1, <3>1, <3>2 DEF LadderFits
      <4> QED BY <1>2, <2>1, <3>1, <4>1
    <3>3. CASE lst.knows = FALSE
      <4>1. PICK t \in Tasks : task[t].pc = "ladder" /\ task[t].on \in cs
        BY <1>3, <2>1, <3>3
      <4> QED BY <2>1, <3>1, <3>3, <4>1 DEF KnowingFits
    <3> QED BY <3>2, <3>3, Types DEF FieldSet
  <2>2. InTurn' => InTurn
    BY DEF InTurn, Clear
  <2> QED BY <1>3, <2>1, <2>2 DEF LadderFits, FieldSet
<1>19. SomewhereToFail'
  BY <1>1 DEF SomewhereToFail
<1>20. OneRecovery'
  BY <1>6, Roles DEF OneRecovery, NoRivals, Clear, OnBroker
<1>21. ChannelFits'
  <2>1. \A t \in Rebuilders : task'[t].pc \in OnBroker =>
          task[t].pc \in OnBroker /\ task'[t].on = task[t].on
    BY <1>6 DEF OnBroker
  <2>2. ASSUME NoRivals', Detached', lst.channel \in open' PROVE FALSE
    <3>1. NoRivals /\ lst.channel \in open /\ lst.channel \notin cs
      BY <1>1, <2>2 DEF NoRivals, Clear
    <3>2. ~Detached
      BY <3>1 DEF ChannelFits
    <3>3. PICK t \in Rebuilders : task[t].pc \in OnBroker /\ task[t].on \in cs
      BY <1>6, <2>2, <3>2 DEF Detached
    <3> QED BY <3>1, <3>3 DEF ChannelFits
  <2> QED BY <1>1, <1>3, <2>1, <2>2 DEF ChannelFits, NoRivals, Clear
<1>22. OpenFits'
  BY <1>1, <1>2, <1>3, <1>5 DEF OpenFits, NoRivals, Clear, Closing
<1>23. ConsumersFit'
  <2> SUFFICES ASSUME Alone' PROVE ConsumersFit'
    BY DEF ConsumersFit
  <2>1. Alone /\ NoRivals
    BY DEF Alone, NoRivals, Clear
  <2>2. \A k \in consumers' : k \in consumers /\ k.chan \notin cs /\ Backed(k)
    BY <1>1, <2>1 DEF ConsumersFit
  <2>3. Starting => task["app"].on = lst.channel \/ (Closing /\ lst.channel = None)
    BY <2>1 DEF StartFits
  <2>4. ASSUME NEW k \in consumers' PROVE Backed(k)'
    BY <1>3, <1>4, <1>5, <2>2, <2>3 DEF Backed, Closing, Starting
  <2>5. ASSUME NEW k \in consumers' PROVE ~Lacking'
    <3>1. ~Lacking
      BY <2>1, <2>2 DEF ConsumersFit
    <3>2. SUFFICES ASSUME NEW t \in Rebuilders, task[t].pc = "consume", task[t].on \in cs
                   PROVE FALSE
      BY <1>6, <3>1, Roles DEF Lacking, Detached, OnBroker, RebuildersFit
    <3>3. lst.channel \in open => task[t].on = lst.channel
      BY <2>1, <3>2 DEF ChannelFits, OnBroker
    <3>4. Closing => task[t].on = task["ops"].on
      BY <2>1, <3>2 DEF StartFits, OnBroker
    <3>5. k.chan \in open /\ k.chan \notin cs /\ Backed(k)
      BY <1>4, <2>2
    <3> QED BY <3>2, <3>3, <3>4, <3>5 DEF Backed
  <2>6. \A j, k \in consumers' : j = k
    BY <2>1, <2>2 DEF ConsumersFit
  <2> QED BY <2>4, <2>5, <2>6 DEF ConsumersFit
<1>24. StartFits'
  <2> SUFFICES ASSUME Alone' PROVE StartFits'
    BY DEF StartFits
  <2>1. Alone /\ NoRivals
    BY DEF Alone, NoRivals, Clear
  <2>2. \A k \in consumers' : k \in consumers /\ k.chan \notin cs /\ k.chan \in open /\ Backed(k)
    BY <1>1, <1>4, <2>1 DEF ConsumersFit
  <2>3. /\ Closing' => Closing /\ task["ops"].on \notin cs
        /\ Closing /\ task["ops"].on \notin cs => Closing'
        /\ Starting' => Starting /\ task["app"].on \notin cs
    BY <1>5 DEF Closing, Starting, OnBroker
  <2>4. \A t \in Tasks : task'[t].pc = "open" => task[t].pc = "open"
    BY <1>2
  <2>5. \A t \in Rebuilders :
          /\ task'[t].pc = "consume" => task[t].pc = "consume"
          /\ task'[t].pc \in OnBroker => task[t].pc \in OnBroker /\ task'[t].on = task[t].on
    BY <1>6 DEF OnBroker
  <2>6. ~Lacking /\ (\A t \in Rebuilders : task[t].pc # "consume") => ~Lacking'
    BY <1>6, Roles DEF Lacking, Detached, OnBroker, RebuildersFit
  <2>7. ~lst.hears => consumers' = {} \/ Closing'
    BY <1>4, <2>1, <2>2, <2>3 DEF StartFits, Backed
  <2>8. Closing => lst.channel = None
    BY <2>1 DEF StartFits
  <2>9. task["ops"].call = task'["ops"].call /\ task'["ops"].on = task["ops"].on /\ task'["app"].on = task["app"].on
    BY <1>5
  <2>10. Starting => task["app"].on \in open
    BY Roles DEF Starting, AwaitedOnOpen, OnBroker
  <2> QED BY <1>3, <2>1, <2>3, <2>4, <2>5, <2>6, <2>7, <2>9 DEF StartFits
<1>25. WholeFits'
  <2> SUFFICES ASSUME Unbroken' PROVE WholeFits'
    BY DEF WholeFits
  <2>1. Unbroken
    BY DEF Unbroken, Clear
  <2>2. Starting' => Starting /\ task["app"].on \notin cs /\ task'["app"].on = task["app"].on
    BY <1>5 DEF Starting, OnBroker
  <2>3. \A k \in consumers : k.chan \in open /\ (k \in consumers' \/ k.chan \in closing')
    BY <1>1, <1>4
  <2>4. Lacking /\ conn'.alive => Lacking'
    BY <1>6 DEF Lacking, Detached
  <2>5. closing \subseteq closing' /\ (~conn.alive => ~conn'.alive)
    BY <1>1
  <2>6. Starting' => \E k \in consumers' : k.chan = lst.channel
    BY <1>1, <2>1, <2>2 DEF WholeFits
  <2>7. task["restore"].pc = "due" /\ conn'.alive => task'["restore"].pc = "due"
    BY <1>6, Roles DEF OnBroker
  <2> QED BY <1>3, <1>5, <2>1, <2>2, <2>3, <2>4, <2>5, <2>6, <2>7 DEF WholeFits
<1> QED BY <1>7, <1>8, <1>9, <1>10, <1>11, <1>12, <1>13, <1>14, <1>15, <1>16, <1>17,
           <1>18, <1>19, <1>20, <1>21, <1>22, <1>23, <1>24, <1>25

LEMMA ChannelClosesKeeps ==
  ASSUME IInv, NEW c \in Channels, ChannelCloses(c) PROVE IInv'
<1>1. c \in open /\ Loses({c}, {}) /\ Learns({c}) /\ faults' \in 0..MaxFaults
  BY ChannelClosesIs DEF IInv
<1>2. UNCHANGED <<kind, stopped, conn, broker, windows>>
  BY DEF ChannelCloses
<1>3. ConnFits'
  BY <1>1, <1>2, Roles DEF IInv, ConnFits, Loses, OnBroker, IsIdle, At, InTurn, Clear
<1> QED BY <1>1, <1>2, <1>3, LossKeeps, Types DEF IInv

LEMMA SocketDiesKeeps ==
  ASSUME IInv, SocketDies PROVE IInv'
<1>1. /\ Loses(open, {}) /\ Learns(open) /\ faults' \in 0..MaxFaults
      /\ conn' \in ConnSet /\ conn'.alive = FALSE /\ conn'.connected = conn.connected
      /\ conn'.reconnecting = conn.reconnecting /\ conn'.attempt = conn.attempt
  BY SocketDiesIs DEF IInv
<1>2. UNCHANGED <<kind, stopped, broker, windows>>
  BY DEF SocketDies
<1>3. ConnFits'
  BY <1>1, <1>2, Roles DEF IInv, ConnFits, Loses, OnBroker, IsIdle, At
<1> QED BY <1>1, <1>2, <1>3, LossKeeps DEF IInv

LEMMA DiscardedKeeps ==
  ASSUME IInv, RestoreFails \/ OtherRestorerFails PROVE IInv'
<1>1. /\ Loses(open, {"restore"}) /\ Learns(open) /\ faults' \in 0..MaxFaults
      /\ conn' \in ConnSet /\ conn'.alive = FALSE /\ conn'.connected = FALSE
      /\ conn'.reconnecting = TRUE /\ conn'.attempt = FALSE /\ conn.attempt
      /\ UNCHANGED <<kind, stopped, broker, windows>>
  BY DiscardedIs DEF IInv
<1>2. open' = {} /\ task'["restore"] = Idle
  BY <1>1, Roles DEF Loses
<1>3. ConnFits'
  BY <1>1, <1>2 DEF IInv, ConnFits, IsIdle, At, Idle
<1> QED BY <1>1, <1>2, <1>3, LossKeeps, Roles DEF IInv

LEMMA ShutKeeps ==
  ASSUME IInv, Shut PROVE IInv'
<1> USE DEF IInv, TasksFit, At, IsIdle
<1>1. /\ Loses({task["ops"].on}, {"ops"}) /\ lst' \in FieldSet
      /\ lst'.channel = lst.channel /\ lst'.tag = None
      /\ lst'.initialized = FALSE /\ lst'.started = FALSE
      /\ lst'.attached = lst.attached /\ lst'.hears = lst.hears
      /\ lst'.knows = lst.knows /\ lst'.bound = FALSE
  BY ShutIs
<1>2. /\ task["ops"].pc = "shut" /\ task["ops"].call = "close"
      /\ UNCHANGED <<kind, stopped, conn, broker, faults, windows>>
  BY DEF Shut, OpsFits
<1>3. /\ open' = open \ {task["ops"].on} /\ closing' = closing \cup (open \cap {task["ops"].on})
      /\ consumers' = {k \in consumers : k.chan # task["ops"].on} /\ task' \in [Tasks -> TaskSet]
  BY <1>1 DEF Loses
<1>4. \A t \in Tasks : t # "ops" =>
        /\ task'[t].call = task[t].call /\ task'[t].on = task[t].on /\ task'[t].tag = task[t].tag
        /\ task'[t].pc = IF task[t].pc \in OnBroker /\ task[t].on = task["ops"].on
                          THEN "raised" ELSE task[t].pc
  BY <1>1 DEF Loses
<1>5. task'["ops"].pc = "idle" /\ task'["ops"].call = "none"
  BY <1>1, Roles DEF Loses, Idle
<1>6. /\ \A k \in consumers : k.chan \in open /\ k.tag \in Tags /\ k.tag # None
      /\ None \notin open /\ None \notin closing
      /\ lst.channel \in open => lst.channel # None
  BY ConsumersAre
<1>7. /\ ~lst.hears /\ stopped /\ ~lst.attached
  BY <1>2 DEF StopFits
<1>8. /\ task'["app"].call = task["app"].call
      /\ \/ task'["app"].pc = task["app"].pc /\ (task["app"].pc \in OnBroker => task["app"].on # task["ops"].on)
         \/ task'["app"].pc = "raised" /\ task["app"].pc \in OnBroker /\ task["app"].on = task["ops"].on
      /\ task'["app"].on = task["app"].on
  BY <1>4, Roles
<1>9. \A t \in Rebuilders :
        /\ task'[t].call = task[t].call /\ task'[t].on = task[t].on
        /\ \/ task'[t].pc = task[t].pc /\ (task[t].pc \in OnBroker => task[t].on # task["ops"].on)
           \/ task'[t].pc = "raised" /\ task[t].pc \in OnBroker /\ task[t].on = task["ops"].on
  BY <1>4, Roles
<1>10. \A t \in Tasks : task'[t].pc \in {"open", "declare", "bind", "ladder", "consume"}
      => task'[t].pc = task[t].pc /\ task'[t].on = task[t].on
  BY <1>4, <1>5
<1>11. /\ Closing /\ ~Closing' /\ (Starting' => Starting /\ task["app"].on # task["ops"].on)
  BY <1>2, <1>5, <1>8 DEF Closing, Starting, OnBroker
<1>12. Alone => consumers' = {} /\ ~Starting'
  <2>1. Alone => /\ \A k \in consumers : k.chan = task["ops"].on
                 /\ lst.channel = None
    BY <1>2, <1>6, <1>11 DEF ConsumersFit, StartFits, Backed
  <2>2. Alone => ~Starting'
    BY <1>6, <1>11, <2>1, Roles DEF StartFits, AwaitedOnOpen, Starting, OnBroker
  <2> QED BY <1>3, <2>1, <2>2
<1>13. TypeOK'
  <2>1. consumers' \subseteq ConsumerSet(open')
    BY <1>3, Types DEF ConsumerSet
  <2>2. open' \subseteq Channels /\ closing' \subseteq Channels \ open'
    BY <1>3, Types
  <2> QED BY <1>1, <1>2, <1>3, <2>1, <2>2, ToTypes, Types
<1>14. AppFits'
  BY <1>2, <1>8 DEF AppFits, OnBroker
<1>15. OpsFits'
  BY <1>5 DEF OpsFits
<1>16. RebuildersFit'
  BY <1>9, Roles DEF RebuildersFit, OnBroker
<1>17. AwaitedOnOpen'
  <2>1. \A t \in Tasks : task'[t].pc \in OnBroker => t # "ops" /\ task[t].pc \in OnBroker
                        /\ task'[t].on = task[t].on /\ task[t].on # task["ops"].on
    BY <1>4, <1>5 DEF OnBroker
  <2> QED BY <1>3, <2>1 DEF AwaitedOnOpen
<1>18. ConnFits'
  BY <1>2, <1>3, <1>9, Roles DEF ConnFits, OnBroker, InTurn, Clear
<1>19. InitFits'
  BY <1>1, <1>7, <1>8 DEF InitFits
<1>20. StopFits'
  BY <1>1, <1>2, <1>8 DEF StopFits, Clear
<1>21. KnowingFits'
  BY <1>1, <1>2, <1>3, <1>8, <1>9, <1>10, Roles DEF KnowingFits, OnBroker, InTurn, Clear
<1>22. QueueFits'
  BY <1>1, <1>2, <1>3, <1>4 DEF QueueFits
<1>23. BindingFits'
  BY <1>1 DEF BindingFits
<1>24. LadderFits'
  BY <1>1, <1>2, <1>3, <1>4 DEF LadderFits, InTurn, Clear
<1>25. SomewhereToFail'
  BY <1>2, <1>3 DEF SomewhereToFail
<1>26. OneRecovery'
  BY <1>2, <1>9, Roles DEF OneRecovery, NoRivals, Clear, OnBroker
<1>27. ChannelFits'
  <2>1. \A t \in Rebuilders : task'[t].pc \in OnBroker =>
          task[t].pc \in OnBroker /\ task'[t].on = task[t].on
    BY <1>9 DEF OnBroker
  <2>2. ASSUME NoRivals', Detached', lst.channel \in open' PROVE FALSE
    <3>1. NoRivals /\ lst.channel \in open /\ lst.channel # task["ops"].on
      BY <1>2, <1>3, <2>2 DEF NoRivals, Clear
    <3>2. ~Detached
      BY <3>1 DEF ChannelFits
    <3>3. PICK t \in Rebuilders : task[t].pc \in OnBroker /\ task[t].on = task["ops"].on
      BY <1>9, <2>2, <3>2 DEF Detached
    <3> QED BY <3>1, <3>3 DEF ChannelFits
  <2> QED BY <1>1, <1>2, <1>3, <2>1, <2>2 DEF ChannelFits, NoRivals, Clear
<1>28. OpenFits'
  BY <1>1, <1>2, <1>3, <1>10 DEF OpenFits, NoRivals, Clear
<1>29. ConsumersFit'
  BY <1>2, <1>12 DEF ConsumersFit, Alone, Clear
<1>30. StartFits'
  BY <1>1, <1>2, <1>11, <1>12 DEF StartFits, Alone, Clear
<1>31. WholeFits'
  <2>1. Unbroken' => Unbroken /\ task["app"].call # "start"
    BY <1>2 DEF Unbroken, Clear, StopFits
  <2> QED BY <1>1, <1>8, <2>1 DEF WholeFits, Starting, AppFits
<1> QED BY <1>13, <1>14, <1>15, <1>16, <1>17, <1>18, <1>19, <1>20, <1>21, <1>22, <1>23,
           <1>24, <1>25, <1>26, <1>27, <1>28, <1>29, <1>30, <1>31

\* The callback of a lost channel starts a recovery, or has no say.
LEMMA RecoveryStarts ==
  ASSUME IInv, NEW c \in closing, closing' = closing \ {c},
         lst.channel = c, lst.started, conn.connected, ~conn.reconnecting,
         NEW r \in Recoverers \ Recovering, Spawns(r),
         lst' \in FieldSet, lst'.channel = None, lst'.tag = None,
         lst'.initialized = lst.initialized, lst'.started = lst.started,
         lst'.attached = lst.attached, lst'.hears = lst.hears,
         lst'.knows = lst.knows, lst'.bound = lst.bound,
         windows' = windows \cup (IF Recovering # {} THEN {"second"} ELSE {}),
         UNCHANGED <<kind, stopped, conn, broker, open, consumers, faults>>
  PROVE  IInv'
<1> USE DEF IInv, TasksFit, At, IsIdle
<1>1. /\ \A u \in Tasks : u # r => task'[u] = task[u]
      /\ task' \in [Tasks -> TaskSet] /\ task'[r].call = "recover" /\ task'[r].pc = "spawned"
  BY DEF Spawns, Others
<1>2. task[r].pc = "idle" /\ r \in Rebuilders /\ r \in Tasks
  BY Roles DEF Recovering
<1>3. lst.channel \notin open /\ lst.channel # None /\ None \notin open
  BY ConsumersAre, Types
<1>4. windows' \subseteq Windows /\ windows \subseteq windows'
  BY Types DEF Windows
<1>5. Alone => lst.hears /\ ~Closing /\ ~Starting /\ consumers = {}
  <2> SUFFICES ASSUME Alone PROVE lst.hears /\ ~Closing /\ ~Starting /\ consumers = {}
    OBVIOUS
  <2>1. lst.hears /\ ~Closing
    BY <1>3 DEF StartFits
  <2>2. ~Starting
    BY <1>3, <2>1, Roles DEF StartFits, Starting, AwaitedOnOpen, OnBroker
  <2>3. \A k \in consumers : k.chan \in open /\ Backed(k)
    BY ConsumersAre DEF ConsumersFit
  <2> QED BY <1>3, <2>1, <2>2, <2>3 DEF Backed
<1>6. Alone' => Alone
  BY DEF Alone, Clear
<1>7. TypeOK'
  BY <1>1, <1>2, <1>4, ToTypes, Types
<1>8. AppFits'
  BY <1>1, <1>2, Roles DEF AppFits
<1>9. OpsFits'
  BY <1>1, <1>2, Roles DEF OpsFits
<1>10. RebuildersFit'
  BY <1>1, <1>2, Roles DEF RebuildersFit
<1>11. AwaitedOnOpen'
  BY <1>1, <1>2 DEF AwaitedOnOpen, OnBroker
<1>12. ConnFits'
  BY <1>1, <1>2, Roles DEF ConnFits
<1>13. InitFits'
  BY <1>1, <1>2, Roles DEF InitFits
<1>14. StopFits'
  BY <1>1, <1>2, Roles DEF StopFits, Clear
<1>15. KnowingFits'
  BY <1>1, <1>2, <1>3 DEF KnowingFits
<1>16. QueueFits'
  BY <1>1, <1>2, <1>3 DEF QueueFits
<1>17. BindingFits'
  BY <1>1, <1>2, <1>3 DEF BindingFits
<1>18. LadderFits'
  BY <1>1, <1>2, <1>3 DEF LadderFits
<1>19. SomewhereToFail'
  BY <1>1, <1>2 DEF SomewhereToFail
<1>20. OneRecovery'
  BY <1>1, <1>2, Roles DEF OneRecovery, NoRivals, Clear, Recovering
<1>21. ChannelFits'
  BY <1>1, <1>2, <1>3, Roles DEF ChannelFits, NoRivals, Clear, AwaitedOnOpen, OnBroker
<1>22. OpenFits'
  BY <1>1, <1>2, <1>3, Roles DEF OpenFits, NoRivals, Clear, Closing
<1>23. ConsumersFit'
  BY <1>5, <1>6 DEF ConsumersFit
<1>24. StartFits'
  <2>1. Closing' <=> Closing
    BY <1>1, <1>2, Roles DEF Closing
  <2>2. Starting' <=> Starting
    BY <1>1, <1>2, Roles DEF Starting
  <2> QED BY <1>5, <1>6, <2>1, <2>2 DEF StartFits
<1>25. WholeFits'
  <2> SUFFICES ASSUME Unbroken' PROVE WholeFits'
    BY DEF WholeFits
  <2>1. Unbroken
    BY DEF Unbroken, Clear
  <2>2. Lacking'
    BY <1>1, <1>2 DEF Lacking, Detached
  <2>3. task'["app"] = task["app"]
    BY <1>1, Roles
  <2>4. ~Starting
    BY <1>3, <2>1, Roles DEF WholeFits, Starting, AwaitedOnOpen, OnBroker
  <2>5. ~Starting'
    BY <2>3, <2>4 DEF Starting
  <2> QED BY <2>1, <2>2, <2>3, <2>5 DEF WholeFits
<1> QED BY <1>7, <1>8, <1>9, <1>10, <1>11, <1>12, <1>13, <1>14, <1>15, <1>16, <1>17,
           <1>18, <1>19, <1>20, <1>21, <1>22, <1>23, <1>24, <1>25

LEMMA CallbackIgnored ==
  ASSUME IInv, NEW c \in closing, closing' = closing \ {c},
         lst.channel # c \/ ~lst.started \/ ~conn.connected \/ conn.reconnecting,
         windows' = windows \cup
           (IF lst.channel = c /\ lst.started /\ conn.alive /\ conn.reconnecting
              /\ IsIdle("restore") THEN {"ignored"} ELSE {}),
         UNCHANGED <<kind, stopped, conn, broker, open, consumers, lst, task, faults>>
  PROVE  IInv'
<1> USE DEF IInv, TasksFit, At, IsIdle
<1>1. windows' \subseteq Windows /\ windows \subseteq windows'
  BY Types DEF Windows
<1>2. TypeOK'
  BY <1>1, ToTypes, Types
<1>3. AppFits'
  BY <1>1 DEF AppFits
<1>4. OpsFits'
  BY <1>1 DEF OpsFits
<1>5. RebuildersFit'
  BY <1>1 DEF RebuildersFit
<1>6. AwaitedOnOpen'
  BY <1>1 DEF AwaitedOnOpen
<1>7. ConnFits'
  BY <1>1 DEF ConnFits, InTurn, Clear
<1>8. InitFits'
  BY <1>1 DEF InitFits
<1>9. StopFits'
  BY <1>1 DEF StopFits, Clear
<1>10. KnowingFits'
  BY <1>1 DEF KnowingFits, InTurn, Clear
<1>11. QueueFits'
  BY <1>1 DEF QueueFits
<1>12. BindingFits'
  BY <1>1 DEF BindingFits
<1>13. LadderFits'
  BY <1>1 DEF LadderFits, InTurn, Clear
<1>14. SomewhereToFail'
  BY <1>1 DEF SomewhereToFail
<1>15. OneRecovery'
  BY <1>1 DEF OneRecovery, NoRivals, Clear
<1>16. ChannelFits'
  BY <1>1 DEF ChannelFits, NoRivals, Clear, Detached
<1>17. OpenFits'
  BY <1>1 DEF OpenFits, NoRivals, Clear, Closing
<1>18. ConsumersFit'
  BY <1>1 DEF ConsumersFit, Backed, Alone, Clear, Lacking, Detached, Closing, Starting
<1>19. StartFits'
  BY <1>1 DEF StartFits, Alone, Clear, Lacking, Detached, Closing, Starting
<1>20. WholeFits'
  <2> SUFFICES ASSUME Unbroken' PROVE WholeFits'
    BY DEF WholeFits
  <2>1. Unbroken /\ NoRivals
    BY <1>1 DEF Unbroken, NoRivals, Clear
  <2>2. ASSUME lst.started, lst.channel = c, conn.alive
        PROVE  Lacking \/ task["restore"].pc = "due"
    <3>1. conn.reconnecting /\ ~IsIdle("restore")
      BY <2>2 DEF ConnFits, Unbroken, Clear
    <3>2. lst.hears
      BY <2>1, <2>2 DEF WholeFits, StopFits
    <3>3. c \notin open
      BY Types
    <3>4. task["restore"].pc # "consume"
      BY <2>1, <2>2, <3>2, <3>3, Roles DEF ChannelFits, AwaitedOnOpen, OnBroker
    <3> QED BY <3>1, <3>4, Roles DEF RebuildersFit, Lacking, Detached
  <2>3. Lacking' <=> Lacking
    BY DEF Lacking, Detached
  <2>4. Starting' <=> Starting
    BY DEF Starting
  <2> QED BY <2>1, <2>2, <2>3, <2>4 DEF WholeFits
<1> QED BY <1>2, <1>3, <1>4, <1>5, <1>6, <1>7, <1>8, <1>9, <1>10, <1>11, <1>12, <1>13,
           <1>14, <1>15, <1>16, <1>17, <1>18, <1>19, <1>20

LEMMA OnClosedKeeps ==
  ASSUME IInv, NEW c \in Channels, OnClosed(c) PROVE IInv'
<1>1. /\ c \in closing /\ closing' = closing \ {c}
      /\ UNCHANGED <<kind, stopped, conn, broker, open, consumers, faults>>
  BY DEF OnClosed
<1> QED BY <1>1, OnClosedIs, RecoveryStarts, CallbackIgnored DEF IInv

\* The handle_closed event clears the listener's channel and tag.
LEMMA HandleClosedKeeps ==
  ASSUME IInv, HandleClosed PROVE IInv'
<1> USE DEF IInv, TasksFit, At, IsIdle
<1>1. /\ lst' \in FieldSet /\ lst'.initialized = lst.initialized
      /\ lst'.started = lst.started /\ lst'.attached = lst.attached
      /\ lst'.hears = lst.hears /\ lst'.knows = lst.knows /\ lst'.bound = lst.bound
      /\ lst'.channel = (IF lst.hears THEN None ELSE lst.channel)
      /\ lst'.tag = (IF lst.hears THEN None ELSE lst.tag)
      /\ conn' \in ConnSet /\ conn'.alive = FALSE /\ conn'.connected = FALSE
      /\ conn'.reconnecting = TRUE /\ conn'.attempt = conn.attempt
  BY HandleClosedIs
<1>2. /\ ~conn.alive /\ conn.connected
      /\ UNCHANGED <<kind, stopped, broker, open, closing, consumers, task, faults, windows>>
  BY DEF HandleClosed
<1>3. /\ open = {} /\ consumers = {} /\ \A t \in Tasks : task[t].pc \notin OnBroker
      /\ ~Starting /\ ~Closing
  BY <1>2, ConsumersAre, Roles DEF ConnFits, AwaitedOnOpen, Starting, Closing, OnBroker
<1>4. TypeOK'
  BY <1>1, <1>2, ToTypes, Types
<1>5. AppFits'
  BY <1>1, <1>2 DEF AppFits
<1>6. OpsFits'
  BY <1>1, <1>2 DEF OpsFits
<1>7. RebuildersFit'
  BY <1>1, <1>2 DEF RebuildersFit
<1>8. AwaitedOnOpen'
  BY <1>1, <1>2 DEF AwaitedOnOpen
<1>9. ConnFits'
  BY <1>1, <1>2 DEF ConnFits
<1>10. InitFits'
  BY <1>1, <1>2, <1>3 DEF InitFits
<1>11. StopFits'
  BY <1>1, <1>2 DEF StopFits, Clear
<1>12. KnowingFits'
  BY <1>1, <1>2, <1>3 DEF KnowingFits
<1>13. QueueFits'
  BY <1>1, <1>2, <1>3 DEF QueueFits
<1>14. BindingFits'
  BY <1>1, <1>2, <1>3 DEF BindingFits
<1>15. LadderFits'
  BY <1>1, <1>2, <1>3 DEF LadderFits
<1>16. SomewhereToFail'
  BY <1>1, <1>2 DEF SomewhereToFail
<1>17. OneRecovery'
  BY <1>1, <1>2 DEF OneRecovery, NoRivals, Clear
<1>18. ChannelFits'
  BY <1>2, <1>3, Roles DEF ChannelFits
<1>19. OpenFits'
  BY <1>1, <1>2, <1>3 DEF OpenFits, NoRivals, Clear
<1>20. ConsumersFit'
  BY <1>1, <1>2, <1>3 DEF ConsumersFit
<1>21. StartFits'
  BY <1>1, <1>2, <1>3 DEF StartFits, Alone, Clear, Lacking, Detached, Closing, Starting
<1>22. WholeFits'
  BY <1>1, <1>2, <1>3 DEF WholeFits, Unbroken, Clear, Starting
<1> QED BY <1>4, <1>5, <1>6, <1>7, <1>8, <1>9, <1>10, <1>11, <1>12, <1>13, <1>14, <1>15,
           <1>16, <1>17, <1>18, <1>19, <1>20, <1>21, <1>22

\* A new socket: the restorer rebuilds what was initialized and is attached.
LEMMA ReconnectKeeps ==
  ASSUME IInv, Reconnect PROVE IInv'
<1> USE DEF IInv, TasksFit, At, IsIdle
<1>1. /\ task' \in [Tasks -> TaskSet]
      /\ \A t \in Tasks \ {"restore"} :
           /\ task'[t].call = task[t].call /\ task'[t].on = task[t].on /\ task'[t].tag = task[t].tag
           /\ task'[t].pc = IF At(t, "sleep") THEN "overslept" ELSE task[t].pc
      /\ lst.attached => task'["restore"].call = "restore" /\ task'["restore"].pc = "due"
      /\ ~lst.attached =>
           /\ task'["restore"].call = task["restore"].call
           /\ task'["restore"].pc = IF At("restore", "sleep") THEN "overslept" ELSE task["restore"].pc
      /\ conn' \in ConnSet /\ conn'.alive = TRUE /\ conn'.connected = TRUE
      /\ conn'.reconnecting = TRUE /\ conn'.attempt = TRUE
      /\ broker' \subseteq {"queue", "binding", "ladder"} /\ faults' \in 0..MaxFaults
  BY ReconnectIs
<1>2. /\ conn.reconnecting /\ ~conn.connected /\ ~conn.attempt
      /\ \A t \in Tasks : task[t].pc \notin {"raised", "open", "spawned"}
      /\ UNCHANGED <<kind, stopped, open, closing, consumers, lst, windows>>
  BY DEF Reconnect, Settled
<1>3. /\ open = {} /\ consumers = {} /\ \A t \in Tasks : task[t].pc \notin OnBroker
      /\ ~Starting /\ ~Closing /\ task["restore"].pc = "idle" /\ task["restore"].call = "none"
  BY <1>2, ConsumersAre, Roles
  DEF ConnFits, AwaitedOnOpen, Starting, Closing, OnBroker, RebuildersFit
<1>4. /\ task["app"].pc = "idle" /\ task["ops"].pc = "idle"
      /\ \A r \in Recoverers : task[r].pc \in {"idle", "sleep", "overslept"}
  BY <1>2, <1>3, Roles, Types DEF AppFits, OpsFits, RebuildersFit, TaskSet, Places
<1>5. /\ task'["app"].pc = "idle" /\ task'["app"].call = task["app"].call
      /\ task'["ops"].pc = "idle" /\ task'["ops"].call = task["ops"].call
      /\ \A r \in Recoverers : /\ task'[r].call = task[r].call /\ task'[r].pc \in {"idle", "overslept"}
                               /\ task'[r].pc = "idle" <=> task[r].pc = "idle"
      /\ \/ /\ lst.attached
            /\ task'["restore"].call = "restore" /\ task'["restore"].pc = "due"
         \/ /\ ~lst.attached
            /\ task'["restore"].call = "none" /\ task'["restore"].pc = "idle"
  BY <1>1, <1>3, <1>4, Roles
<1>6. /\ \A t \in Tasks : task'[t].pc \in {"idle", "due", "overslept"}
      /\ ~Starting' /\ ~Closing'
  BY <1>5, Roles DEF Starting, Closing, OnBroker
<1>7. lst.hears \/ ~lst.attached
  BY DEF StopFits
<1>8. TypeOK'
  BY <1>1, <1>2, ToTypes, Types
<1>9. AppFits'
  BY <1>1, <1>2, Roles DEF AppFits
<1>10. OpsFits'
  BY <1>1, <1>2, Roles DEF OpsFits
<1>11. RebuildersFit'
  BY <1>1, <1>2, Roles DEF RebuildersFit
<1>12. AwaitedOnOpen'
  BY <1>1, <1>2, <1>3 DEF AwaitedOnOpen, OnBroker
<1>13. ConnFits'
  BY <1>1, <1>2, <1>4, Roles DEF ConnFits, InTurn, Clear
<1>14. InitFits'
  BY <1>1, <1>2, Roles DEF InitFits
<1>15. StopFits'
  BY <1>1, <1>2, Roles DEF StopFits, Clear
<1>16. KnowingFits'
  BY <1>1, <1>2, Roles DEF KnowingFits, InTurn, Clear
<1>17. QueueFits'
  BY <1>1, <1>2, <1>3 DEF QueueFits
<1>18. BindingFits'
  BY <1>1, <1>2, <1>3 DEF BindingFits
<1>19. LadderFits'
  BY <1>1, <1>2, <1>3 DEF LadderFits, InTurn, Clear
<1>20. SomewhereToFail'
  BY <1>1, <1>2, <1>3 DEF SomewhereToFail
<1>21. OneRecovery'
  BY <1>1, <1>2, Roles DEF OneRecovery, NoRivals, Clear
<1>22. ChannelFits'
  BY <1>2, <1>3, <1>6, Roles DEF ChannelFits, OnBroker
<1>23. OpenFits'
  BY <1>1, <1>2, <1>3, <1>7 DEF OpenFits, NoRivals, Clear
<1>24. ConsumersFit'
  BY <1>2, <1>3 DEF ConsumersFit
<1>25. StartFits'
  <2>1. ~Lacking'
    BY <1>6, Roles DEF Lacking, Detached
  <2> QED BY <1>2, <1>3, <1>5, <1>6, <1>7, <2>1, Roles DEF StartFits, Alone, Clear
<1>26. WholeFits'
  <2>1. lst.attached => task'["restore"].pc = "due"
    BY <1>5
  <2> QED BY <1>2, <1>5, <1>6, <2>1 DEF WholeFits, Unbroken, Clear
<1> QED BY <1>8, <1>9, <1>10, <1>11, <1>12, <1>13, <1>14, <1>15, <1>16, <1>17, <1>18,
           <1>19, <1>20, <1>21, <1>22, <1>23, <1>24, <1>25, <1>26

LEMMA RestoreTurnKeeps ==
  ASSUME IInv, RestoreTurn PROVE IInv'
<1> USE DEF IInv, TasksFit, At, IsIdle
<1>1. /\ task' \in [Tasks -> TaskSet]
      /\ \A t \in Tasks \ {"restore"} : task'[t] = task[t]
      /\ lst.initialized =>
           /\ task'["restore"].call = task["restore"].call /\ task'["restore"].pc = "open"
           /\ windows' = windows \cup (IF Overtaken THEN {"overtaken"} ELSE {})
      /\ ~lst.initialized =>
           /\ task'["restore"].call = "none" /\ task'["restore"].pc = "idle"
           /\ windows' = windows
  BY RestoreTurnIs
<1>2. /\ task["restore"].pc = "due" /\ conn.connected
      /\ UNCHANGED <<kind, stopped, conn, broker, open, closing, consumers, lst, faults>>
  BY DEF RestoreTurn
<1>3. \A w \in windows : w \in windows'
  BY <1>1
<1>4. windows' \subseteq Windows
  BY <1>1, Types DEF Windows
\* A turn that rebuilds finds nothing of the listener's on this socket, and its owner at rest.
<1>5. ASSUME lst.initialized, "overtaken" \notin windows'
      PROVE  /\ open = {} /\ consumers = {} /\ \A t \in Tasks : task[t].pc \notin OnBroker
             /\ lst.hears /\ task["app"].pc # "open"
  <2>1. open = {} /\ task["ops"].call # "close"
    BY <1>1, <1>5 DEF Overtaken
  <2>2. consumers = {} /\ \A t \in Tasks : task[t].pc \notin OnBroker
    BY <2>1, ConsumersAre DEF AwaitedOnOpen
  <2>3. lst.hears /\ task["app"].pc # "open"
    BY <1>5, <2>1 DEF StopFits, InitFits
  <2> QED BY <2>1, <2>2, <2>3
<1>6. TypeOK'
  BY <1>1, <1>2, <1>4, ToTypes, Types
<1>7. AppFits'
  BY <1>1, <1>2, Roles DEF AppFits
<1>8. OpsFits'
  BY <1>1, <1>2, Roles DEF OpsFits
<1>9. RebuildersFit'
  BY <1>1, <1>2, Roles DEF RebuildersFit
<1>10. AwaitedOnOpen'
  BY <1>1, <1>2, Roles DEF AwaitedOnOpen, OnBroker
<1>11. ConnFits'
  BY <1>1, <1>2, <1>5, Roles DEF ConnFits, InTurn, Clear
<1>12. InitFits'
  BY <1>1, <1>2, Roles DEF InitFits
<1>13. StopFits'
  BY <1>1, <1>2, <1>3, Roles DEF StopFits, Clear
<1>14. KnowingFits'
  BY <1>1, <1>2, <1>3, Roles DEF KnowingFits, InTurn, Clear
<1>15. QueueFits'
  BY <1>1, <1>2, Roles DEF QueueFits
<1>16. BindingFits'
  BY <1>1, <1>2, Roles DEF BindingFits
<1>17. LadderFits'
  BY <1>1, <1>2, <1>3, Roles DEF LadderFits, InTurn, Clear
<1>18. SomewhereToFail'
  BY <1>2, <1>3 DEF SomewhereToFail
<1>19. OneRecovery'
  BY <1>1, <1>2, <1>3, Roles DEF OneRecovery, NoRivals, Clear
<1>20. CASE ~lst.initialized
  <2>1. task'["restore"].pc = "idle" /\ windows' = windows
    BY <1>1, <1>20
  <2>2. Lacking' => Lacking
    BY <1>1, <2>1, Roles DEF Lacking, Detached
  <2>3. Detached' => Detached
    BY <1>1, <2>1, Roles DEF Detached
  <2>4. Closing' = Closing /\ Starting' = Starting
    BY <1>1, Roles DEF Closing, Starting
  <2>5. ChannelFits'
    BY <1>1, <1>2, <2>1, <2>3, Roles DEF ChannelFits, NoRivals, Clear, OnBroker
  <2>6. OpenFits'
    BY <1>1, <1>2, <2>1, <2>4, Roles DEF OpenFits, NoRivals, Clear
  <2>7. ConsumersFit'
    BY <1>1, <1>2, <2>1, <2>2, <2>4, Roles DEF ConsumersFit, Backed, Alone, Clear
  <2>8. StartFits'
    BY <1>1, <1>2, <2>1, <2>2, <2>4, Roles DEF StartFits, Alone, Clear, OnBroker
  <2>9. WholeFits'
    BY <1>1, <1>2, <1>20, <2>1, <2>4, Roles DEF WholeFits, Unbroken, Clear
  <2> QED BY <1>6, <1>7, <1>8, <1>9, <1>10, <1>11, <1>12, <1>13, <1>14, <1>15, <1>16, <1>17,
             <1>18, <1>19, <2>5, <2>6, <2>7, <2>8, <2>9
<1>21. CASE lst.initialized
  <2>1. task'["restore"].pc = "open" /\ Lacking'
    BY <1>1, <1>21, Roles DEF Lacking, Detached
  <2>2. "overtaken" \notin windows' =>
          /\ \A t \in Tasks : task'[t].pc \notin OnBroker
          /\ ~Starting' /\ ~Closing'
    BY <1>1, <1>5, <1>21, <2>1, Roles DEF Closing, Starting, OnBroker
  <2>3. ChannelFits'
    BY <1>2, <1>5, <1>21, <2>2 DEF ChannelFits, NoRivals, Clear, Rebuilders, Tasks
  <2>4. OpenFits'
    BY <1>2, <1>5, <1>21 DEF OpenFits, NoRivals, Clear
  <2>5. ConsumersFit'
    BY <1>2, <1>5, <1>21 DEF ConsumersFit, Alone, Clear
  <2>6. StartFits'
    BY <1>2, <1>5, <1>21, <2>2 DEF StartFits, Alone, Clear
  <2>7. WholeFits'
    BY <1>1, <1>2, <1>3, <1>21, <2>1, <2>2, Roles DEF WholeFits, Unbroken, Clear
  <2> QED BY <1>6, <1>7, <1>8, <1>9, <1>10, <1>11, <1>12, <1>13, <1>14, <1>15, <1>16, <1>17,
             <1>18, <1>19, <2>3, <2>4, <2>5, <2>6, <2>7
<1> QED BY <1>20, <1>21

LEMMA ReadyKeeps ==
  ASSUME IInv, Ready PROVE IInv'
<1> USE DEF IInv, TasksFit, At, IsIdle
<1>1. /\ conn.attempt /\ conn.alive /\ task["restore"].pc = "idle"
      /\ conn' = [conn EXCEPT !.reconnecting = FALSE, !.attempt = FALSE]
      /\ UNCHANGED <<kind, stopped, broker, open, closing, consumers, lst, task, faults, windows>>
  BY DEF Ready
<1>2. /\ conn' \in ConnSet /\ conn'.alive = conn.alive /\ conn'.connected = conn.connected
      /\ conn'.reconnecting = FALSE /\ conn'.attempt = FALSE
  BY <1>1, Types DEF ConnSet
<1>3. TypeOK'
  BY <1>1, <1>2, ToTypes, Types
<1>4. AppFits'
  BY <1>1, <1>2 DEF AppFits
<1>5. OpsFits'
  BY <1>1, <1>2 DEF OpsFits
<1>6. RebuildersFit'
  BY <1>1, <1>2 DEF RebuildersFit
<1>7. AwaitedOnOpen'
  BY <1>1, <1>2 DEF AwaitedOnOpen
<1>8. ConnFits'
  BY <1>1, <1>2 DEF ConnFits, InTurn, Clear
<1>9. InitFits'
  BY <1>1, <1>2 DEF InitFits
<1>10. StopFits'
  BY <1>1, <1>2 DEF StopFits, Clear
<1>11. KnowingFits'
  BY <1>1, <1>2 DEF KnowingFits, InTurn, Clear
<1>12. QueueFits'
  BY <1>1, <1>2 DEF QueueFits
<1>13. BindingFits'
  BY <1>1, <1>2 DEF BindingFits
<1>14. LadderFits'
  BY <1>1, <1>2 DEF LadderFits, InTurn, Clear
<1>15. SomewhereToFail'
  BY <1>1, <1>2 DEF SomewhereToFail
<1>16. OneRecovery'
  BY <1>1, <1>2 DEF OneRecovery, NoRivals, Clear
<1>17. ChannelFits'
  BY <1>1, <1>2 DEF ChannelFits, NoRivals, Clear, Detached
<1>18. OpenFits'
  BY <1>1, <1>2 DEF OpenFits, NoRivals, Clear, Closing
<1>19. ConsumersFit'
  BY <1>1, <1>2 DEF ConsumersFit, Backed, Alone, Clear, Lacking, Detached, Closing, Starting
<1>20. StartFits'
  BY <1>1, <1>2 DEF StartFits, Alone, Clear, Lacking, Detached, Closing, Starting
<1>21. WholeFits'
  BY <1>1, <1>2 DEF WholeFits, Unbroken, Clear, Lacking, Detached, Starting
<1> QED BY <1>3, <1>4, <1>5, <1>6, <1>7, <1>8, <1>9, <1>10, <1>11, <1>12, <1>13, <1>14,
           <1>15, <1>16, <1>17, <1>18, <1>19, <1>20, <1>21

--------------------------------------------------------------------------------
(* Each step preserves the invariant. All steps. *)

LEMMA InitHolds == Init => IInv
<1> SUFFICES ASSUME Init PROVE IInv
  OBVIOUS
<1>1. /\ \A t \in Tasks : task[t] = Idle /\ task[t].pc = "idle" /\ task[t].call = "none"
      /\ task \in [Tasks -> TaskSet]
  BY IdleTyped DEF Init, Idle
<1>2. /\ open = {} /\ closing = {} /\ consumers = {} /\ broker = {} /\ windows = {}
      /\ stopped = FALSE /\ kind \in {"request", "event"} /\ faults = 0
      /\ lst \in FieldSet /\ lst.channel = None /\ lst.tag = None /\ lst.initialized = FALSE
      /\ lst.started = FALSE /\ lst.attached = TRUE /\ lst.hears = TRUE
      /\ lst.knows = FALSE /\ lst.bound = FALSE
      /\ conn \in ConnSet /\ conn.alive = TRUE /\ conn.connected = TRUE
      /\ conn.reconnecting = FALSE /\ conn.attempt = FALSE
  BY DEF Init, FieldSet, ConnSet
<1>0. 0 \in 0..MaxFaults
  BY BoundAssumption
<1> USE <1>1, <1>2, Roles DEF At, IsIdle
<1>3. TypeOK
  <2>1. faults \in 0..MaxFaults /\ stopped \in BOOLEAN
    BY <1>0
  <2>2. conn \in [alive : BOOLEAN, connected : BOOLEAN, reconnecting : BOOLEAN, attempt : BOOLEAN]
    BY DEF ConnSet
  <2> QED BY <2>1, <2>2 DEF TypeOK, FieldSet, TaskSet
<1>4. AppFits /\ OpsFits /\ RebuildersFit /\ AwaitedOnOpen
  BY DEF AppFits, OpsFits, RebuildersFit, AwaitedOnOpen, OnBroker
<1>5. ConnFits /\ InitFits /\ StopFits /\ KnowingFits
  BY DEF ConnFits, InitFits, StopFits, KnowingFits
<1>6. QueueFits /\ BindingFits /\ LadderFits /\ SomewhereToFail
  BY DEF QueueFits, BindingFits, LadderFits, SomewhereToFail
<1>7. ~Detached /\ ~Lacking /\ ~Starting /\ ~Closing
  BY DEF Detached, Lacking, Starting, Closing, OnBroker
<1>8. OneRecovery /\ ChannelFits /\ OpenFits
  BY <1>7 DEF OneRecovery, ChannelFits, OpenFits, OnBroker
<1>9. ConsumersFit /\ StartFits /\ WholeFits
  BY <1>7 DEF ConsumersFit, StartFits, WholeFits, OnBroker
<1> QED BY <1>3, <1>4, <1>5, <1>6, <1>8, <1>9 DEF IInv, TasksFit

LEMMA StutterKeeps == ASSUME IInv, UNCHANGED vars PROVE IInv'
<1> USE DEF vars, At, IsIdle
<1>1. TypeOK' /\ ConnFits' /\ InitFits' /\ StopFits' /\ KnowingFits'
  BY DEF IInv, TypeOK, ConnFits, InitFits, StopFits, KnowingFits, InTurn, Clear
<1>2. TasksFit'
  BY DEF IInv, TasksFit, AppFits, OpsFits, RebuildersFit, AwaitedOnOpen
<1>3. QueueFits' /\ BindingFits' /\ LadderFits' /\ SomewhereToFail'
  BY DEF IInv, QueueFits, BindingFits, LadderFits, SomewhereToFail, InTurn, Clear
<1>4. OneRecovery' /\ ChannelFits' /\ OpenFits'
  BY DEF IInv, OneRecovery, ChannelFits, OpenFits, NoRivals, Clear, Detached, Closing
<1>5. ConsumersFit' /\ StartFits' /\ WholeFits'
  BY DEF IInv, ConsumersFit, StartFits, WholeFits, Alone, Unbroken, Clear, Backed, Lacking,
         Detached, Starting, Closing
<1> QED BY <1>1, <1>2, <1>3, <1>4, <1>5 DEF IInv

LEMMA TaskStepKeeps == ASSUME IInv, NEW t \in Tasks, TaskStep(t) \/ OpenRefused(t) PROVE IInv'
<1>1. Attempt(t) \/ GivesUp(t) \/ AttemptFails(t) => t \in Recoverers
  BY Roles
  DEF IInv, TasksFit, AppFits, OpsFits, RebuildersFit, IsIdle, At, Attempt, GivesUp,
               AttemptFails
<1> QED BY <1>1, OpenedKeeps, OpenFailsKeeps, DeclaredKeeps, BoundKeeps,
           LadderDeclaredKeeps,
           ConsumingKeeps, RaisedToUserKeeps, AttemptKeeps, GivesUpKeeps, AttemptFailsKeeps
        DEF TaskStep

LEMMA NextKeeps == IInv /\ [Next]_vars => IInv'
<1> SUFFICES ASSUME IInv, [Next]_vars PROVE IInv'
  OBVIOUS
<1>1. CASE UserCalls
  BY <1>1, CallInitKeeps, CallSubscribeKeeps, CallStartKeeps, CallStopKeeps, CallCloseKeeps
     DEF UserCalls
<1>2. CASE \E t \in Tasks : TaskStep(t) \/ OpenRefused(t)
  BY <1>2, TaskStepKeeps
<1>3. CASE Cancelled \/ Shut
  BY <1>3, CancelledKeeps, ShutKeeps
<1>4. CASE \E c \in Channels : OnClosed(c) \/ ChannelCloses(c)
  BY <1>4, OnClosedKeeps, ChannelClosesKeeps
<1>5. CASE \/ SocketDies \/ HandleClosed \/ Reconnect \/ RestoreTurn \/ Ready
           \/ RestoreFails \/ OtherRestorerFails
  BY <1>5, SocketDiesKeeps, HandleClosedKeeps, ReconnectKeeps, RestoreTurnKeeps, ReadyKeeps,
     DiscardedKeeps
<1>6. CASE UNCHANGED vars
  BY <1>6, StutterKeeps
<1> QED BY <1>1, <1>2, <1>3, <1>4, <1>5, <1>6 DEF Next

LEMMA InvHolds == Spec => []IInv
  BY InitHolds, NextKeeps, PTL DEF Spec

--------------------------------------------------------------------------------
(* The theorems. *)

\* A set with no two members has one at most.
LEMMA OneOf == ASSUME NEW S, \A x, y \in S : x = y PROVE Cardinality(S) <= 1
<1>1. CASE S = {}
  BY <1>1, FS_EmptySet
<1>2. CASE S # {}
  <2>1. PICK x \in S : TRUE
    BY <1>2
  <2>2. S = {x}
    BY <2>1
  <2> QED BY <2>2, FS_Singleton
<1> QED BY <1>1, <1>2

\* At most one consumer is on the queue, whatever channels, sockets and calls come
\* and go, but for a recovery that overslept or was the second, a start() over a
\* rebuild, and a restorer overtaken by its owner (_start_consuming, _recover_channel,
\* _restore).
THEOREM ListenerConsumesOnce == Spec => []ConsumesOnce
<1>1. IInv => ConsumesOnce
  <2> SUFFICES ASSUME IInv, windows \cap {"overslept", "second", "resumed", "overtaken"} = {}
               PROVE  Cardinality(consumers) <= 1
    BY DEF IInv, ConsumesOnce, OneConsumer
  <2>1. Alone
    BY DEF Alone, Clear
  <2>2. \A j, k \in consumers : j = k
    BY <2>1 DEF IInv, ConsumersFit
  <2> QED BY <2>2, OneOf
<1> QED BY <1>1, InvHolds, PTL

\* After stop_consuming() nothing consumes, and after close() no channel is left open,
\* whatever rebuild was under way, but for the same windows and a stop during start()
\* (stop_consuming, close, on_closed).
THEOREM ListenerStopIsFinal == Spec => []StopIsFinal
<1>1. IInv => QuietAfterStop
  <2> SUFFICES ASSUME IInv, stopped, IsIdle("ops"),
                      windows \cap {"overslept", "second", "resumed", "overtaken",
                                   "stopInStart"} = {}
               PROVE  consumers = {}
    BY DEF QuietAfterStop
  <2>1. Alone /\ Clear({"stopInStart"})
    BY DEF Alone, Clear
  <2>2. task["ops"].call = "none" /\ ~Closing /\ ~At("ops", "cancel")
    BY DEF IInv, TasksFit, OpsFits, IsIdle, At, Closing
  <2>3. ~lst.started /\ lst.tag = None
    BY <2>1, <2>2 DEF IInv, StopFits
  <2>4. \A k \in consumers : Backed(k) /\ k.tag # None
    BY <2>1, ConsumersAre DEF IInv, ConsumersFit
  <2> QED BY <2>2, <2>3, <2>4 DEF Backed
<1>2. IInv => NothingHeldAfterClose
  <2> SUFFICES ASSUME IInv, ~lst.hears, \A t \in Tasks : IsIdle(t),
                      windows \cap {"closeInRebuild", "stopInStart", "overslept", "second",
                                   "overtaken"} = {}
               PROVE  open = {}
    BY DEF NothingHeldAfterClose
  <2>1. NoRivals /\ Clear({"closeInRebuild", "stopInStart"})
    BY DEF NoRivals, Clear
  <2>2. ~Closing
    BY Roles DEF Closing, OnBroker, IsIdle, At
  <2>3. lst.channel = None /\ \A c \in open : c = lst.channel
    BY <2>1, <2>2 DEF IInv, OpenFits
  <2> QED BY <2>3, ConsumersAre DEF IInv
<1> QED BY <1>1, <1>2, InvHolds, PTL DEF StopIsFinal

\* A started listener at rest consumes on its own channel with its queue and bindings
\* declared, and no consumer lacks the ladder it climbs, however many channels, sockets
\* and brokers were lost (_rebuild, _restore_topology).
THEOREM ListenerRebuildIsWhole == Spec => []RebuildIsWhole
<1>1. IInv => RestedIsWhole
  <2> SUFFICES ASSUME IInv, \A t \in Tasks : IsIdle(t), closing = {}, conn.alive,
                      ~conn.reconnecting, lst.started,
                      windows \cap {"ignored", "gaveUp", "stopInStart", "overslept", "second",
                                   "overtaken"} = {}
               PROVE  /\ \E k \in consumers : k.chan = lst.channel
                      /\ {"queue"} \cup (IF lst.bound THEN {"binding"} ELSE {}) \subseteq broker
    BY DEF RestedIsWhole
  <2>1. Unbroken
    BY DEF Unbroken, Clear
  <2>2. ~Lacking
    BY Roles DEF Lacking, Detached, IsIdle, At
  <2>3. PICK k \in consumers : k.chan = lst.channel
    BY <2>1, <2>2, Roles DEF IInv, WholeFits, IsIdle, At
  <2>4. lst.channel \in open
    BY <2>3, ConsumersAre DEF IInv
  <2>5. "queue" \in broker /\ (lst.bound => "binding" \in broker)
    BY <2>4 DEF IInv, QueueFits, BindingFits, IsIdle, At
  <2> QED BY <2>3, <2>5
<1>2. IInv => SomewhereToFail
  BY DEF IInv
<1> QED BY <1>1, <1>2, InvHolds, PTL DEF RebuildIsWhole

================================================================================
