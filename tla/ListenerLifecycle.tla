--------------------------- MODULE ListenerLifecycle ---------------------------
(***************************************************************************)
(* One listener and its consumer, through lost channels, lost sockets and   *)
(* replaced brokers (protobus/base_listener.py, with what MessageListener   *)
(* and EventListener add).                                                  *)
(*                                                                          *)
(* Four kinds of coroutine rebuild or use the same fields: the caller's     *)
(* init, subscribe and start; the restorer the connection runs after a      *)
(* reconnection; a recovery task per channel lost on a live socket; and     *)
(* stop_consuming or close, from a shutdown.  They interleave at every      *)
(* broker call, and each call reads self._channel anew.  A task records     *)
(* the call it awaits and the channel it was issued on.                     *)
(*                                                                          *)
(* Some interleavings do break what the listener promises.  The history     *)
(* variable windows names those that have occurred, so that the properties  *)
(* say both that everything else is safe and which ones are not.            *)
(***************************************************************************)
EXTENDS Integers, FiniteSets

CONSTANTS
  Channels,    \* identifiers of channels; a closed one's is used again
  Tags,        \* identifiers of consumer tags, likewise
  Recoverers,  \* identifiers of recovery tasks
  MaxAttempts, \* attempts of _recover_channel (5 in the code)
  MaxFaults,   \* faults of the network and the broker (a bound)
  MaxWindows   \* unsafe interleavings after which callers and faults rest (a bound)

None == 0   \* self._channel is None; the empty consumer tag

ASSUME TasksAssumption == Recoverers \cap {"app", "ops", "restore"} = {}
ASSUME NoneAssumption  == None \notin Channels /\ None \notin Tags
ASSUME BoundAssumption == MaxAttempts \in Nat \ {0} /\ MaxFaults \in Nat
                          /\ MaxWindows \in Nat

VARIABLES
  kind,       \* the listener's class: "request" or "event" with a ladder
  conn,       \* the connection, as the listener sees it
  broker,     \* what it has declared at the broker: "queue", "binding", "ladder"
  open,       \* the listener's channels that are open
  closing,    \* closed channels whose callback has not run yet
  consumers,  \* the broker's consumers on open channels
  lst,        \* the listener's fields
  task,       \* the coroutines
  faults,     \* faults so far
  stopped,    \* stop_consuming() or close() was called after any start() (history)
  windows     \* the unsafe interleavings that have occurred (history)

vars == <<kind, conn, broker, open, closing, consumers, lst, task, faults,
          stopped, windows>>

Tasks    == {"app", "ops", "restore"} \cup Recoverers
Calls    == {"none", "init", "subscribe", "start", "stop", "close", "restore", "recover"}
OnBroker == {"declare", "bind", "ladder", "consume", "cancel", "shut"}
Places   == {"idle", "due", "open", "raised", "spawned", "sleep", "overslept"} \cup OnBroker
Windows  == {"overslept", "second", "ignored", "resumed", "overtaken", "stopInStart",
             "closeInRebuild", "gaveUp"}

Idle == [call |-> "none", pc |-> "idle", on |-> None, tag |-> None, try |-> 0]

TypeOK ==
  /\ kind \in {"request", "event"}
  /\ conn \in [alive : BOOLEAN, connected : BOOLEAN, reconnecting : BOOLEAN, attempt : BOOLEAN]
  /\ broker \subseteq {"queue", "binding", "ladder"}
  /\ open \subseteq Channels /\ closing \subseteq Channels \ open
  /\ consumers \subseteq [chan : open, tag : Tags, climbs : BOOLEAN]
  /\ lst \in [channel : Channels \cup {None}, tag : Tags \cup {None},
              initialized : BOOLEAN, started : BOOLEAN, attached : BOOLEAN,
              hears : BOOLEAN, knows : BOOLEAN, bound : BOOLEAN]
  /\ task \in [Tasks -> [call : Calls, pc : Places, on : Channels \cup {None},
                        tag : Tags \cup {None}, try : 0..MaxAttempts]]
  /\ faults \in 0..MaxFaults /\ stopped \in BOOLEAN
  /\ windows \subseteq Windows

\* __init__: attached to restoration and to 'disconnected' from the start.
Init ==
  /\ kind \in {"request", "event"}
  /\ conn = [alive |-> TRUE, connected |-> TRUE, reconnecting |-> FALSE, attempt |-> FALSE]
  /\ broker = {} /\ open = {} /\ closing = {} /\ consumers = {}
  /\ lst = [channel |-> None, tag |-> None, initialized |-> FALSE, started |-> FALSE,
            attached |-> TRUE, hears |-> TRUE, knows |-> FALSE, bound |-> FALSE]
  /\ task = [t \in Tasks |-> Idle]
  /\ faults = 0 /\ stopped = FALSE /\ windows = {}

--------------------------------------------------------------------------------
(* Helpers. *)

At(t, pc)  == task[t].pc = pc
IsIdle(t)  == At(t, "idle")
Rebuilding == {t \in Tasks : /\ task[t].call \in {"restore", "recover"}
                             /\ task[t].pc \in {"open"} \cup OnBroker}
Recovering == {t \in Recoverers : ~IsIdle(t)}
Eventful   == Cardinality(windows) < MaxWindows
Fault      == Eventful /\ faults < MaxFaults /\ faults' = faults + 1
Seen(w)    == windows' = windows \cup w

FreshChannels ==
  {c \in Channels \ (open \cup closing \cup {lst.channel}) : \A t \in Tasks : task[t].on # c}
FreshTags == {g \in Tags \ {lst.tag, task["ops"].tag} : \A k \in consumers : k.tag # g}
FirstOf(S) == CHOOSE x \in S : TRUE

\* A call issued on no channel, or on a closed one, raises at once.
Awaiting(t, pc, l) ==
  [task[t] EXCEPT !.pc = IF l.channel \in open' THEN pc ELSE "raised", !.on = l.channel]

\* _start_consuming records its tag before it awaits basic_consume.
KeepsTag(l, pc, g) == IF pc = "consume" THEN [l EXCEPT !.tag = g] ELSE l

\* EventListener names its retry objects before it declares them.
Names(l, pc) == IF pc = "ladder" /\ kind = "event" THEN [l EXCEPT !.knows = TRUE] ELSE l

\* Task t leaves a step with the fields l and awaits its next call, or ends.
Proceed(t, pc, l) ==
  IF pc = "done"
    THEN /\ lst' = l /\ task' = [task EXCEPT ![t] = Idle]
         /\ UNCHANGED consumers
    ELSE LET g == FirstOf(FreshTags) IN
         /\ FreshTags # {}
         /\ lst' = KeepsTag(Names(l, pc), pc, g)
         /\ task' = [task EXCEPT ![t] = Awaiting(t, pc, l)]
         /\ consumers' = IF pc = "consume" /\ l.channel \in open'
              THEN consumers \cup {[chan |-> l.channel, tag |-> g, climbs |-> l.knows]}
              ELSE consumers

\* The calls in the order of _rebuild, init and subscribe.
AfterLadder(call, l) ==
  IF call \in {"restore", "recover"} /\ l.started THEN "consume" ELSE "done"

\* Mutant of AfterBind: a rebuild that does not restore the ladder.
AfterBind_noTopology(call, l) ==
  IF call = "subscribe" /\ kind = "request" THEN "ladder" ELSE AfterLadder(call, l)

AfterBind(call, l) ==
  IF call = "subscribe" THEN IF kind = "request" THEN "ladder" ELSE "done"
  ELSE IF kind = "event" \/ l.knows THEN "ladder"
  ELSE AfterLadder(call, l)

AfterDeclare_noBindings(call, l) ==
  IF call = "init" THEN IF kind = "event" THEN "ladder" ELSE "done"
  ELSE AfterBind(call, l)

AfterDeclare(call, l) ==
  IF call = "init" THEN IF kind = "event" THEN "ladder" ELSE "done"
  ELSE IF l.bound THEN "bind"
  ELSE AfterBind(call, l)

--------------------------------------------------------------------------------
(* The calls of the listener's user. *)

CallInit ==
  /\ Eventful /\ IsIdle("app") /\ ~lst.initialized /\ lst.hears /\ conn.connected
  /\ task' = [task EXCEPT !["app"] = [Idle EXCEPT !.call = "init", !.pc = "open"]]
  /\ UNCHANGED <<kind, stopped, conn, broker, open, closing, consumers, lst, faults, windows>>

\* EventListener tracks a binding before it binds it, MessageListener after.
CallSubscribe ==
  /\ Eventful /\ IsIdle("app") /\ lst.initialized /\ ~lst.bound
  /\ kind = "request" => ~lst.started
  /\ UNCHANGED <<kind, stopped, conn, broker, open, closing, consumers, faults, windows>>
  /\ LET l == IF kind = "event" THEN [lst EXCEPT !.bound = TRUE] ELSE lst IN
     /\ lst' = l
     /\ task' = [task EXCEPT !["app"] = [Awaiting("app", "bind", l) EXCEPT !.call = "subscribe"]]

\* start(), first or once a stop has returned.  MessageService starts a request
\* listener once it is subscribed.
CallStart ==
  /\ Eventful /\ IsIdle("app") /\ IsIdle("ops") /\ lst.initialized /\ conn.connected
  /\ stopped' = FALSE
  /\ ~(lst.started /\ lst.tag # None)
  /\ kind = "request" => lst.bound /\ lst.knows
  /\ Seen(IF Rebuilding # {} THEN {"resumed"} ELSE {})
  /\ UNCHANGED <<kind, conn, broker, open, closing, faults>>
  /\ LET l == [lst EXCEPT !.attached = TRUE]
         g == FirstOf(FreshTags) IN
     /\ FreshTags # {}
     /\ lst' = KeepsTag(l, "consume", g)
     /\ task' = [task EXCEPT !["app"] = [Awaiting("app", "consume", l) EXCEPT !.call = "start"]]
     /\ consumers' = IF lst.channel \in open
          THEN consumers \cup {[chan |-> lst.channel, tag |-> g, climbs |-> lst.knows]}
          ELSE consumers

\* Mutant of CallStop: nothing recorded when there is no tag to cancel.
CallStop_onlyTagged ==
  /\ Eventful /\ IsIdle("ops") /\ lst.initialized
  /\ stopped' = TRUE
  /\ UNCHANGED <<kind, conn, broker, open, closing, consumers, faults>>
  /\ lst' = [lst EXCEPT !.tag = None, !.started = @ /\ lst.tag = None,
                        !.attached = @ /\ lst.tag = None]
  /\ task' = IF lst.tag # None /\ conn.connected /\ lst.channel # None
               THEN [task EXCEPT !["ops"] = [Awaiting("ops", "cancel", lst) EXCEPT !.call = "stop", !.tag = lst.tag]]
               ELSE task
  /\ Seen(IF task["app"].call = "start" THEN {"stopInStart"} ELSE {})

\* stop_consuming(): recorded before anything is awaited, whatever the tag.
CallStop ==
  /\ Eventful /\ IsIdle("ops") /\ lst.initialized
  /\ stopped' = TRUE
  /\ UNCHANGED <<kind, conn, broker, open, closing, consumers, faults>>
  /\ lst' = [lst EXCEPT !.tag = None, !.started = FALSE, !.attached = FALSE]
  /\ task' = IF lst.tag # None /\ conn.connected /\ lst.channel # None
               THEN [task EXCEPT !["ops"] = [Awaiting("ops", "cancel", lst) EXCEPT !.call = "stop", !.tag = lst.tag]]
               ELSE task
  /\ Seen(IF task["app"].call = "start" THEN {"stopInStart"} ELSE {})

Forgotten(l) == [l EXCEPT !.tag = None, !.initialized = FALSE, !.started = FALSE, !.bound = FALSE]

\* Mutant of CallClose: the channel is closed only if it consumes.
CallClose_onlyConsuming ==
  /\ Eventful /\ IsIdle("ops") /\ lst.initialized
  /\ stopped' = TRUE
  /\ UNCHANGED <<kind, conn, broker, open, closing, consumers, faults>>
  /\ LET l == [lst EXCEPT !.attached = FALSE, !.hears = FALSE, !.channel = None,
                          !.started = FALSE] IN
     IF conn.connected /\ lst.channel # None /\ lst.tag # None
       THEN /\ lst' = l
            /\ task' = [task EXCEPT !["ops"] = [Awaiting("ops", IF lst.tag # None THEN "cancel" ELSE "shut", lst)
                                               EXCEPT !.call = "close", !.tag = lst.tag]]
       ELSE /\ lst' = Forgotten(l)
            /\ UNCHANGED task
  /\ Seen((IF \E t \in Rebuilding : At(t, "open") THEN {"closeInRebuild"} ELSE {})
          \cup (IF task["app"].call = "start" THEN {"stopInStart"} ELSE {}))

\* close(): the channel is given up before it is closed.
CallClose ==
  /\ Eventful /\ IsIdle("ops") /\ lst.initialized
  /\ stopped' = TRUE
  /\ UNCHANGED <<kind, conn, broker, open, closing, consumers, faults>>
  /\ LET l == [lst EXCEPT !.attached = FALSE, !.hears = FALSE, !.channel = None,
                          !.started = FALSE] IN
     IF conn.connected /\ lst.channel # None
       THEN /\ lst' = l
            /\ task' = [task EXCEPT !["ops"] = [Awaiting("ops", IF lst.tag # None THEN "cancel" ELSE "shut", lst)
                                               EXCEPT !.call = "close", !.tag = lst.tag]]
       ELSE /\ lst' = Forgotten(l)
            /\ UNCHANGED task
  /\ Seen((IF \E t \in Rebuilding : At(t, "open") THEN {"closeInRebuild"} ELSE {})
          \cup (IF task["app"].call = "start" THEN {"stopInStart"} ELSE {}))

--------------------------------------------------------------------------------
(* The steps of the tasks: each completes the call awaited and issues the next. *)

\* open_channel resolves: the new channel is assigned and watched.
Opened(t) ==
  /\ At(t, "open") /\ conn.alive
  /\ LET c == FirstOf(FreshChannels) IN
     /\ FreshChannels # {}
     /\ open' = open \cup {c}
     /\ Proceed(t, "declare", [lst EXCEPT !.channel = c])
  /\ UNCHANGED <<kind, stopped, conn, broker, closing, faults, windows>>

\* Prefetch, exchange and queue.
Declared(t) ==
  /\ At(t, "declare")
  /\ broker' = broker \cup {"queue"}
  /\ UNCHANGED <<kind, stopped, conn, open, closing, faults, windows>>
  /\ LET l == [lst EXCEPT !.initialized = @ \/ task[t].call = "init"] IN
     Proceed(t, AfterDeclare(task[t].call, l), l)

Bound(t) ==
  /\ At(t, "bind")
  /\ broker' = broker \cup {"binding"}
  /\ UNCHANGED <<kind, stopped, conn, open, closing, faults, windows>>
  /\ LET l == [lst EXCEPT !.bound = @ \/ task[t].call = "subscribe"] IN
     Proceed(t, AfterBind(task[t].call, l), l)

\* setup_retry_queues / setup_retry_topology.
LadderDeclared(t) ==
  /\ At(t, "ladder")
  /\ broker' = broker \cup {"ladder"}
  /\ UNCHANGED <<kind, stopped, conn, open, closing, faults, windows>>
  /\ LET l == [lst EXCEPT !.knows = TRUE] IN Proceed(t, AfterLadder(task[t].call, l), l)

\* basic_consume resolves: start() records itself started only now.
Consuming(t) ==
  /\ At(t, "consume")
  /\ UNCHANGED <<kind, stopped, conn, broker, open, closing, faults, windows>>
  /\ Proceed(t, "done", [lst EXCEPT !.started = @ \/ task[t].call = "start"])

\* The cancel names the consumer by the tag its caller took; close() goes on to
\* close the channel.
Cancelled ==
  /\ At("ops", "cancel")
  /\ consumers' = {k \in consumers : k.chan # task["ops"].on \/ k.tag # task["ops"].tag}
  /\ task' = [task EXCEPT !["ops"] = IF @.call = "close" THEN [@ EXCEPT !.pc = "shut"] ELSE Idle]
  /\ UNCHANGED <<kind, stopped, conn, broker, open, closing, lst, faults, windows>>

Raise(t, cs) == IF task[t].pc \in OnBroker /\ task[t].on \in cs
                  THEN [task[t] EXCEPT !.pc = "raised"] ELSE task[t]

\* Channels cs go: their consumers with them, and what was awaited on them
\* raises.  A setup_retry_queues that fails may have named its queue already.
Drop(cs) ==
  /\ open' = open \ cs
  /\ closing' = closing \cup (open \cap cs)
  /\ consumers' = {k \in consumers : k.chan \notin cs}
MayKnow(cs) ==
  \/ UNCHANGED lst
  \/ /\ \E t \in Tasks : At(t, "ladder") /\ task[t].on \in cs
     /\ lst' = [lst EXCEPT !.knows = TRUE]

Shut ==
  /\ At("ops", "shut")
  /\ Drop({task["ops"].on})
  /\ task' = [[t \in Tasks |-> Raise(t, {task["ops"].on})] EXCEPT !["ops"] = Idle]
  /\ lst' = Forgotten(lst)
  /\ UNCHANGED <<kind, stopped, conn, broker, faults, windows>>

\* An exception reaching the caller of init, subscribe, start, stop or close:
\* the last two swallow it.
RaisedToUser(t) ==
  /\ At(t, "raised") /\ t \in {"app", "ops"}
  /\ lst' = IF task[t].call = "close" THEN Forgotten(lst) ELSE lst
  /\ task' = [task EXCEPT ![t] = Idle]
  /\ UNCHANGED <<kind, stopped, conn, broker, open, closing, consumers, faults, windows>>

--------------------------------------------------------------------------------
(* Recovery of a channel lost while the socket is up. *)

\* Mutant of OnClosed: a channel already replaced is recovered too.
OnClosed_anyChannel(c) ==
  /\ c \in closing /\ closing' = closing \ {c}
  /\ UNCHANGED <<kind, stopped, conn, broker, open, consumers, faults>>
  /\ \/ /\ lst.started /\ conn.connected /\ ~conn.reconnecting
        /\ \E r \in Recoverers \ Recovering :
             task' = [task EXCEPT ![r] = [Idle EXCEPT !.call = "recover", !.pc = "spawned"]]
        /\ lst' = [lst EXCEPT !.channel = None, !.tag = None]
        /\ UNCHANGED windows
     \/ /\ ~lst.started \/ ~conn.connected \/ conn.reconnecting
        /\ UNCHANGED <<lst, task, windows>>

\* The closing callback of a watched channel.
OnClosed(c) ==
  /\ c \in closing /\ closing' = closing \ {c}
  /\ UNCHANGED <<kind, stopped, conn, broker, open, consumers, faults>>
  /\ \/ /\ lst.channel = c /\ lst.started /\ conn.connected /\ ~conn.reconnecting
        /\ \E r \in Recoverers \ Recovering :
             task' = [task EXCEPT ![r] = [Idle EXCEPT !.call = "recover", !.pc = "spawned"]]
        /\ lst' = [lst EXCEPT !.channel = None, !.tag = None]
        /\ Seen(IF Recovering # {} THEN {"second"} ELSE {})
     \/ /\ lst.channel # c \/ ~lst.started \/ ~conn.connected \/ conn.reconnecting
        /\ Seen(IF lst.channel = c /\ lst.started /\ conn.alive /\ conn.reconnecting
                   /\ IsIdle("restore")
                  THEN {"ignored"} ELSE {})
        /\ UNCHANGED <<lst, task>>

\* The head of _recover_channel's loop.
Attempt(t) ==
  /\ task[t].pc \in {"spawned", "sleep", "overslept"} /\ task[t].try < MaxAttempts
  /\ UNCHANGED <<kind, stopped, conn, broker, open, closing, consumers, lst, faults>>
  /\ \/ /\ lst.started /\ conn.connected /\ ~conn.reconnecting
        /\ task' = [task EXCEPT ![t].pc = "open", ![t].try = @ + 1]
        /\ Seen(IF At(t, "overslept") THEN {"overslept"} ELSE {})
     \/ /\ ~lst.started \/ ~conn.connected \/ conn.reconnecting
        /\ task' = [task EXCEPT ![t] = Idle]
        /\ UNCHANGED windows

GivesUp(t) ==
  /\ task[t].pc \in {"sleep", "overslept"} /\ task[t].try = MaxAttempts
  /\ task' = [task EXCEPT ![t] = Idle]
  /\ Seen({"gaveUp"})
  /\ UNCHANGED <<kind, stopped, conn, broker, open, closing, consumers, lst, faults>>

\* Mutant of AttemptFails: the first failure ends the recovery.
AttemptFails_returns(t) ==
  /\ At(t, "raised") /\ task[t].call = "recover"
  /\ lst' = [lst EXCEPT !.channel = None]
  /\ task' = [task EXCEPT ![t] = Idle]
  /\ UNCHANGED <<kind, stopped, conn, broker, open, closing, consumers, faults, windows>>

\* A failed attempt: whatever channel the listener has by now is forgotten.
AttemptFails(t) ==
  /\ At(t, "raised") /\ task[t].call = "recover"
  /\ lst' = [lst EXCEPT !.channel = None]
  /\ task' = [task EXCEPT ![t].pc = "sleep", ![t].on = None]
  /\ UNCHANGED <<kind, stopped, conn, broker, open, closing, consumers, faults, windows>>

--------------------------------------------------------------------------------
(* The connection and the broker. *)

\* One channel is closed: by the broker, over a mismatched declare or a
\* missing exchange.
ChannelCloses(c) ==
  /\ c \in open /\ Fault
  /\ Drop({c})
  /\ task' = [t \in Tasks |-> Raise(t, {c})]
  /\ MayKnow({c})
  /\ UNCHANGED <<kind, stopped, conn, broker, windows>>

\* open_channel on a dead socket.
OpenRaises(t) ==
  /\ At(t, "open") /\ ~conn.alive
  /\ task' = [task EXCEPT ![t].pc = "raised"]
  /\ UNCHANGED <<kind, stopped, conn, broker, open, closing, consumers, lst, faults, windows>>

\* open_channel refused by the broker.  One that has failed a recovery may go on
\* refusing it: that is one fault.
OpenRefused(t) ==
  /\ At(t, "open") /\ conn.alive
  /\ IF task[t].try > 1 THEN UNCHANGED faults ELSE Fault
  /\ task' = [task EXCEPT ![t].pc = "raised"]
  /\ UNCHANGED <<kind, stopped, conn, broker, open, closing, consumers, lst, windows>>

SocketDies ==
  /\ conn.alive /\ Fault
  /\ conn' = [conn EXCEPT !.alive = FALSE]
  /\ Drop(open)
  /\ task' = [t \in Tasks |-> Raise(t, open)]
  /\ MayKnow(open)
  /\ UNCHANGED <<kind, stopped, broker, windows>>

\* _on_handle_closed and the listener's 'disconnected' handler.
HandleClosed ==
  /\ ~conn.alive /\ conn.connected
  /\ conn' = [conn EXCEPT !.connected = FALSE, !.reconnecting = TRUE]
  /\ lst' = IF lst.hears THEN [lst EXCEPT !.channel = None, !.tag = None] ELSE lst
  /\ UNCHANGED <<kind, stopped, broker, open, closing, consumers, task, faults, windows>>

Settled == closing = {} /\ \A t \in Tasks : task[t].pc \notin {"raised", "open", "spawned"}

\* The socket comes back, once the loop has run what the loss had queued.  The
\* restorers attached by now will run, one after the other.  A replaced broker has
\* none of the listener's objects.
Reconnect ==
  /\ conn.reconnecting /\ ~conn.connected /\ ~conn.attempt /\ Settled
  /\ conn' = [alive |-> TRUE, connected |-> TRUE, reconnecting |-> TRUE, attempt |-> TRUE]
  /\ task' = [t \in Tasks |->
       IF t = "restore" /\ lst.attached THEN [Idle EXCEPT !.call = "restore", !.pc = "due"]
       ELSE IF At(t, "sleep") THEN [task[t] EXCEPT !.pc = "overslept"]
       ELSE task[t]]
  /\ \/ UNCHANGED <<broker, faults>>
     \/ broker' = {} /\ Fault
  /\ UNCHANGED <<kind, stopped, open, closing, consumers, lst, windows>>

\* The owner has used the new socket before the restorer, or is closing.
Overtaken == open # {} \/ task["ops"].call = "close"

\* Mutant of RestoreTurn: what was attached is rebuilt, closed as it may be by now.
RestoreTurn_anyway ==
  /\ At("restore", "due") /\ conn.connected
  /\ task' = [task EXCEPT !["restore"].pc = "open"]
  /\ Seen(IF Overtaken THEN {"overtaken"} ELSE {})
  /\ UNCHANGED <<kind, stopped, conn, broker, open, closing, consumers, lst, faults>>

\* This listener's turn: _restore rebuilds whatever is initialised by now, detached
\* or consuming as it may be.
RestoreTurn ==
  /\ At("restore", "due") /\ conn.connected
  /\ IF lst.initialized
       THEN /\ task' = [task EXCEPT !["restore"].pc = "open"]
            /\ Seen(IF Overtaken THEN {"overtaken"} ELSE {})
       ELSE task' = [task EXCEPT !["restore"] = Idle] /\ UNCHANGED windows
  /\ UNCHANGED <<kind, stopped, conn, broker, open, closing, consumers, lst, faults>>

\* Every restorer has finished on a socket still alive.
Ready ==
  /\ conn.attempt /\ conn.alive /\ IsIdle("restore")
  /\ conn' = [conn EXCEPT !.reconnecting = FALSE, !.attempt = FALSE]
  /\ UNCHANGED <<kind, stopped, broker, open, closing, consumers, lst, task, faults, windows>>

\* _discard_generation emits no 'disconnected': the listener keeps its channel,
\* dead as it is.
Discarded ==
  /\ conn.attempt
  /\ conn' = [alive |-> FALSE, connected |-> FALSE, reconnecting |-> TRUE, attempt |-> FALSE]
  /\ Drop(open)
  /\ task' = [[t \in Tasks |-> Raise(t, open)] EXCEPT !["restore"] = Idle]
  /\ MayKnow(open)
  /\ UNCHANGED <<kind, stopped, broker, windows>>

\* This listener's restorer is not running: its turn is over, or yet to come.
Elsewhere == task["restore"].pc \in {"idle", "due"}

\* This listener's restorer failed, or the socket died.
RestoreFails ==
  /\ At("restore", "raised") \/ (Elsewhere /\ ~conn.alive)
  /\ Discarded /\ UNCHANGED faults

\* Another component's restorer failed, before or after this one's.
OtherRestorerFails == Elsewhere /\ conn.alive /\ Fault /\ Discarded

--------------------------------------------------------------------------------
TaskStep(t) ==
  \/ Opened(t) \/ OpenRaises(t) \/ Declared(t) \/ Bound(t)
  \/ LadderDeclared(t) \/ Consuming(t) \/ RaisedToUser(t)
  \/ Attempt(t) \/ GivesUp(t) \/ AttemptFails(t)

UserCalls == CallInit \/ CallSubscribe \/ CallStart \/ CallStop \/ CallClose

Next ==
  \/ UserCalls
  \/ (\E t \in Tasks : TaskStep(t) \/ OpenRefused(t))
  \/ Cancelled \/ Shut
  \/ \E c \in Channels : OnClosed(c) \/ ChannelCloses(c)
  \/ SocketDies \/ HandleClosed \/ Reconnect \/ RestoreTurn \/ Ready
  \/ RestoreFails \/ OtherRestorerFails

Spec == Init /\ [][Next]_vars

(***************************************************************************)
(* The event loop runs every task and callback, the broker answers, timers  *)
(* expire and the connection reconnects.  Callers and faults are free.      *)
(***************************************************************************)
FairSpec ==
  /\ Spec
  /\ \A t \in Tasks : WF_vars(TaskStep(t))
  /\ WF_vars(Cancelled \/ Shut) /\ \A c \in Channels : WF_vars(OnClosed(c))
  /\ WF_vars(HandleClosed) /\ WF_vars(Reconnect) /\ WF_vars(RestoreTurn)
  /\ WF_vars(Ready) /\ WF_vars(RestoreFails)


--------------------------------------------------------------------------------
(* Properties. *)

\* The listener never consumes its queue twice over: a rebuild replaces the
\* consumer, it does not add one.  Three ways around it exist: a recovery that
\* sleeps through a reconnection (or a second one started beside it), a start()
\* during a rebuild, and a restorer whose turn comes after its owner has used the
\* new socket, or while it is closing the listener.
OneConsumer ==
  windows \cap {"overslept", "second", "resumed", "overtaken"} = {} => Cardinality(consumers) <= 1

\* One listener is one consumer (BaseListener.start, _rebuild).
ConsumesOnce == TypeOK /\ OneConsumer

\* After stop_consuming() or close() nothing of this listener consumes until the
\* next start(), whatever was being rebuilt when it was called.
QuietAfterStop ==
  (stopped /\ IsIdle("ops"))
    => consumers = {} \/ windows \cap {"overslept", "second", "resumed", "overtaken", "stopInStart"} # {}

\* Nothing consumes before it has somewhere to fail to (_rebuild): a consumer
\* that climbs the retry ladder has one at this broker, even a replaced one,
\* unless its owner called start() while the rebuild was under way, or had used the
\* new socket before it.
SomewhereToFail ==
  windows \cap {"resumed", "overtaken"} = {} =>
    \A k \in consumers : k.climbs => "ladder" \in broker

\* A rebuilt listener is whole: once every task has ended on a ready connection,
\* a started listener consumes on its channel, with its queue and binding
\* declared.
RestedIsWhole ==
  (/\ \A t \in Tasks : IsIdle(t)
   /\ closing = {} /\ conn.alive /\ ~conn.reconnecting /\ lst.started)
    => \/ /\ \E k \in consumers : k.chan = lst.channel
          /\ {"queue"} \cup (IF lst.bound THEN {"binding"} ELSE {}) \subseteq broker
       \/ windows \cap {"ignored", "gaveUp", "stopInStart", "overslept", "second", "overtaken"} # {}

\* A closed listener holds no channel, unless it was closed while a rebuild was
\* opening one or while start() was awaited.
NothingHeldAfterClose ==
  (~lst.hears /\ \A t \in Tasks : IsIdle(t))
    => open = {} \/ windows \cap {"closeInRebuild", "stopInStart", "overslept", "second", "overtaken"} # {}

\* stop_consuming() and close() end what they say they end, whatever is under way.
StopIsFinal == QuietAfterStop /\ NothingHeldAfterClose

\* _rebuild puts back all of the topology, in an order that never leaves a
\* consumer without what it relies on.
RebuildIsWhole == RestedIsWhole /\ SomewhereToFail

\* A started listener consumes again after any loss of its channel, socket or
\* broker, unless it is stopped, its recovery gives up, or its channel closed
\* while the connection was still restoring other components.
ConsumesAgain ==
  lst.started ~> (\/ \E k \in consumers : k.chan = lst.channel
                  \/ ~lst.started
                  \/ windows \cap {"ignored", "gaveUp", "stopInStart", "overslept", "second", "overtaken"} # {})

================================================================================
