-------------------------------- MODULE RpcCall --------------------------------
(***************************************************************************)
(* One RPC call of the MessageDispatcher: what its caller learns, and how   *)
(* true it is, when the confirm, the reply, the deadline, the loss of the   *)
(* socket or of the publishing channel and the caller's own cancellation    *)
(* arrive in any order (protobus/message_dispatcher.py, publish).           *)
(*                                                                          *)
(* A call sends its request at most twice, under one message id and one     *)
(* correlation id; copy n is what attempt n put on the wire.                *)
(***************************************************************************)
EXTENDS Naturals

CONSTANTS
  MaxGenerations,   \* sockets the connection goes through (a bound)
  ReadyHolds        \* nothing runs between readiness and the woken publisher

ASSUME BoundAssumption == MaxGenerations \in Nat \ {0} /\ ReadyHolds \in BOOLEAN

VARIABLES
  conn,         \* the connection: up, down (reconnecting) or closed
  gen,          \* which socket, and so which callback queue, there is
  channel,      \* the socket the dispatcher's _channel is of, 0 for None
  channelOpen,
  pc,           \* where the call's coroutine stands
  republished,
  via,          \* the channel the publish task was given
  publish,      \* the publish task
  slot,         \* the future in _callbacks
  copy,         \* what became of each attempt's request
  replyTo,      \* the callback queue it names
  expired,      \* the deadline has passed
  outcome       \* what the caller was told

link == <<conn, gen, channel, channelOpen>>
call == <<pc, republished, via, publish, slot, outcome>>
sent == <<copy, replyTo>>
vars == <<link, call, sent, expired>>

Attempts == 1..2
Attempt  == IF republished THEN 2 ELSE 1

Failures == {"refused", "unroutable", "unknown", "closed", "untyped"}
Outcomes == {"none", "result", "timeoutFalse", "timeoutTrue", "timeoutNone", "disconnected",
             "notReady", "notConnected", "cancelled"} \cup Failures

TypeOK ==
  /\ conn \in {"up", "down", "closed"}
  /\ gen \in 1..MaxGenerations /\ channel \in 0..gen /\ channelOpen \in BOOLEAN
  /\ pc \in {"ready", "parked", "woken", "wait", "settle", "reply", "done"}
  /\ republished \in BOOLEAN /\ expired \in BOOLEAN
  /\ via \in 0..gen
  /\ publish \in {"none", "queued", "sending", "ok"} \cup Failures
  /\ slot \in {"none", "pending", "reply", "lost"}
  /\ copy \in [Attempts -> {"no", "wire", "stored", "answered"}]
  /\ replyTo \in [Attempts -> 0..gen]
  /\ outcome \in Outcomes
  /\ pc = "done" <=> outcome # "none"

Init ==
  /\ conn \in {"up", "down", "closed"} /\ gen = 1
  /\ channel = (IF conn = "up" THEN 1 ELSE 0) /\ channelOpen = (conn = "up")
  /\ pc = "ready" /\ republished = FALSE /\ via = 0 /\ publish = "none" /\ slot = "none"
  /\ copy = [n \in Attempts |-> "no"] /\ replyTo = [n \in Attempts |-> 0]
  /\ expired = FALSE /\ outcome = "none"

--------------------------------------------------------------------------------
(* The call's coroutine. *)

\* _release_callback on every exit, then the reply or the exception.
End(told) ==
  /\ pc' = "done" /\ outcome' = told /\ slot' = "none"
  /\ UNCHANGED <<republished, via, publish>>

Goto(step) == pc' = step /\ UNCHANGED <<republished, via, publish, slot, outcome>>

Settled(p) == p \notin {"none", "queued", "sending"}

\* Mutant: a deadline after a lost channel is reported like one before it.
NeverLeft_always == "timeoutFalse"

\* After a lost channel the fate of the first copy is unknown.
NeverLeft == IF republished THEN "timeoutNone" ELSE "timeoutFalse"

\* Arm the reply slot, then start the publish on the channel as it is now.
Send ==
  IF expired THEN End(NeverLeft)
  ELSE /\ pc' = "wait" /\ slot' = "pending" /\ publish' = "queued" /\ via' = channel
       /\ UNCHANGED <<republished, outcome>>

\* _await_publishable_within: at once, refused, or parked on when_ready.
AwaitPublishable ==
  \/ /\ pc = "ready" /\ conn = "up" /\ Send
  \/ /\ pc = "ready" /\ conn = "closed" /\ End("notConnected")
  \/ /\ pc = "ready" /\ conn = "down"
     /\ Goto("parked")
  \/ /\ pc = "parked" /\ expired /\ End(NeverLeft)

\* when_ready gave up: its own limit, or a connection closed or abandoned.
ReadinessFails ==
  /\ pc = "parked" /\ End("notReady")

Woken == pc = "woken" /\ Send

\* Mutant: any ambiguous publish is repeated.
PublishFailed_repeatsAll ==
  IF publish \in {"closed", "unknown"} /\ ~republished
    THEN /\ republished' = TRUE /\ pc' = "ready" /\ slot' = "none" /\ publish' = "none"
         /\ UNCHANGED <<via, outcome>>
    ELSE End(publish)

\* A publish error is raised, except that a request whose channel was lost with
\* the socket is sent once more.
PublishFailed ==
  IF publish = "closed" /\ ~republished /\ conn # "up"
    THEN /\ republished' = TRUE /\ pc' = "ready" /\ slot' = "none" /\ publish' = "none"
         /\ UNCHANGED <<via, outcome>>
    ELSE End(publish)

\* Mutant: a lost slot is reported without waiting for the publish.
Resume_slotFirst ==
  /\ pc = "wait" /\ (slot # "pending" \/ Settled(publish) \/ expired)
  /\ IF slot = "reply" THEN End("result")
     ELSE IF slot = "lost" THEN End("disconnected")
     ELSE IF publish = "ok" THEN Goto("reply")
     ELSE IF Settled(publish) THEN PublishFailed
     ELSE End("timeoutNone")

\* Mutant: a failed publish wins over the reply that came all the same.
Resume_errorWins ==
  /\ pc = "wait" /\ (slot # "pending" \/ Settled(publish) \/ expired)
  /\ IF publish = "ok" THEN Goto("reply")
     ELSE IF Settled(publish) THEN PublishFailed
     ELSE IF slot = "reply" THEN End("result")
     ELSE IF slot = "lost" THEN Goto("settle")
     ELSE End("timeoutNone")

\* asyncio.wait on the publish and the reply returned.
Resume ==
  /\ pc = "wait" /\ (slot # "pending" \/ Settled(publish) \/ expired)
  /\ IF slot = "reply" THEN End("result")
     ELSE IF publish = "ok" THEN Goto("reply")
     ELSE IF Settled(publish) THEN PublishFailed
     ELSE IF slot = "lost" THEN Goto("settle")
     ELSE End("timeoutNone")

\* The slot was failed by a disconnection: the publish decides what that means.
ResumeSettled ==
  /\ pc = "settle" /\ (Settled(publish) \/ expired)
  /\ IF publish = "ok" THEN Goto("reply")
     ELSE IF Settled(publish) THEN PublishFailed
     ELSE End("timeoutNone")

\* Mutant: the wait for the reply has no deadline.
ResumeReply_unbounded ==
  /\ pc = "reply" /\ slot # "pending"
  /\ End(IF slot = "reply" THEN "result" ELSE "disconnected")

ResumeReply ==
  /\ pc = "reply" /\ (slot # "pending" \/ expired)
  /\ End(CASE slot = "reply" -> "result" [] slot = "lost" -> "disconnected"
           [] OTHER -> "timeoutTrue")

CallStep ==
  /\ AwaitPublishable \/ ReadinessFails \/ Woken \/ Resume \/ ResumeSettled \/ ResumeReply
  /\ UNCHANGED <<link, sent, expired>>

\* The caller's task is cancelled: the publish is cancelled in turn.
CallerGivesUp ==
  /\ pc \notin {"ready", "done"}
  /\ pc' = "done" /\ outcome' = "cancelled" /\ slot' = "none"
  /\ publish' = IF Settled(publish) THEN publish ELSE "none"
  /\ UNCHANGED <<republished, via, link, sent, expired>>

--------------------------------------------------------------------------------
(* The publish task (_confirmed_publish). *)

OnWire == via = gen /\ channelOpen

\* The wait for a free confirm is over.  A channel that is None has no
\* basic_publish: the AttributeError is no protobus error.
PublishStarts ==
  /\ publish = "queued"
  /\ IF OnWire
       THEN /\ publish' = "sending"
            /\ copy' = [copy EXCEPT ![Attempt] = "wire"]
            /\ replyTo' = [replyTo EXCEPT ![Attempt] = gen]
       ELSE publish' = (IF via = 0 THEN "untyped" ELSE "closed") /\ UNCHANGED sent
  /\ UNCHANGED <<link, pc, republished, via, slot, outcome, expired>>

BrokerConfirms ==
  /\ publish = "sending" /\ copy[Attempt] \in {"stored", "answered"}
  /\ publish' = "ok"
  /\ UNCHANGED <<link, pc, republished, via, slot, outcome, sent, expired>>

BrokerRefuses ==
  /\ publish = "sending" /\ copy[Attempt] = "wire"
  /\ copy' = [copy EXCEPT ![Attempt] = "no"]
  /\ publish' \in {"refused", "unroutable"}
  /\ UNCHANGED <<link, pc, republished, via, slot, outcome, replyTo, expired>>

\* Mutant: no confirm in time is taken for a refusal.
ConfirmTimesOut_refused ==
  /\ publish = "sending" /\ publish' = "refused"
  /\ UNCHANGED <<link, pc, republished, via, slot, outcome, sent, expired>>

ConfirmTimesOut ==
  /\ publish = "sending" /\ publish' = "unknown"
  /\ UNCHANGED <<link, pc, republished, via, slot, outcome, sent, expired>>

PublishStep == PublishStarts \/ BrokerConfirms \/ BrokerRefuses \/ ConfirmTimesOut

--------------------------------------------------------------------------------
(* The broker, the service and the connection. *)

BrokerStores(n) ==
  /\ copy[n] = "wire"
  /\ copy' = [copy EXCEPT ![n] = "stored"]
  /\ UNCHANGED <<link, call, replyTo, expired>>

\* A reply reaches the call only on the callback queue that still exists.
ServiceAnswers(n) ==
  /\ copy[n] = "stored"
  /\ copy' = [copy EXCEPT ![n] = "answered"]
  /\ slot' = IF slot = "pending" /\ conn = "up" /\ replyTo[n] = gen THEN "reply" ELSE slot
  /\ UNCHANGED <<link, pc, republished, via, publish, outcome, replyTo, expired>>

\* A closing channel: its outstanding confirms are cancelled, and what is still
\* on the wire is gone.
ChannelGone ==
  /\ channelOpen' = FALSE
  /\ publish' = IF publish = "sending" THEN "closed" ELSE publish
  /\ copy' = [n \in Attempts |-> IF copy[n] = "wire" THEN "no" ELSE copy[n]]

\* The channel alone: nothing in the dispatcher watches for that.
ChannelCloses ==
  /\ conn = "up" /\ channelOpen
  /\ ChannelGone
  /\ UNCHANGED <<conn, gen, channel, pc, republished, via, slot, outcome, replyTo, expired>>

\* _on_disconnected: the channel is forgotten and pending slots are failed.
SocketDrops ==
  /\ conn = "up" /\ (ReadyHolds => pc # "woken")
  /\ conn' = "down" /\ channel' = 0 /\ ChannelGone
  /\ slot' = IF slot = "pending" THEN "lost" ELSE slot
  /\ UNCHANGED <<gen, pc, republished, via, outcome, replyTo, expired>>

\* Restored: a fresh channel, a fresh callback queue, and waiters are woken.
Reconnects ==
  /\ conn = "down" /\ gen < MaxGenerations
  /\ conn' = "up" /\ gen' = gen + 1 /\ channel' = gen + 1 /\ channelOpen' = TRUE
  /\ pc' = IF pc = "parked" THEN "woken" ELSE pc
  /\ UNCHANGED <<republished, via, publish, slot, outcome, sent, expired>>

\* disconnect(), or the reconnection budget is spent.  disconnect() emits no
\* event: a pending slot is left to its deadline.
ConnectionCloses ==
  /\ conn # "closed" /\ (ReadyHolds => pc # "woken")
  /\ conn' = "closed" /\ ChannelGone
  /\ IF pc = "parked"
       THEN pc' = "done" /\ outcome' = "notReady"
       ELSE UNCHANGED <<pc, outcome>>
  /\ UNCHANGED <<gen, channel, republished, via, slot, replyTo, expired>>

Expire ==
  /\ ~expired /\ expired' = TRUE
  /\ UNCHANGED <<link, call, sent>>

Next ==
  \/ CallStep \/ CallerGivesUp \/ PublishStep
  \/ (\E n \in Attempts : BrokerStores(n) \/ ServiceAnswers(n))
  \/ ChannelCloses \/ SocketDrops \/ Reconnects \/ ConnectionCloses \/ Expire

Spec == Init /\ [][Next]_vars

\* The loop runs what is due and the deadline passes; nothing else is forced.
FairSpec == Spec /\ WF_vars(CallStep) /\ WF_vars(Expire)

--------------------------------------------------------------------------------
(* Properties. *)

AtBroker(n) == copy[n] \in {"stored", "answered"}

\* RpcTimeoutError.published is never a guess: False means that no copy of the
\* request is or will be at the broker, True that one was accepted.
TimeoutIsTruthful ==
  /\ outcome = "timeoutFalse" => \A n \in Attempts : copy[n] = "no"
  /\ outcome = "timeoutTrue"  => \E n \in Attempts : AtBroker(n)

\* DisconnectedError is raised only for a request the broker had accepted; one
\* it may not have is repeated, or reported as ambiguous.
DisconnectedMeansAccepted ==
  outcome = "disconnected" => \E n \in Attempts : AtBroker(n)

\* An error that calls itself definite is, as long as nothing was republished.
FirstErrorIsDefinite ==
  ~republished /\ outcome \in {"refused", "unroutable", "notReady", "notConnected"}
    => \A n \in Attempts : copy[n] = "no"

\* Whatever error the caller sees, what it says about the request is so
\* (errors.py: published, DisconnectedError, definite and ambiguous errors).
ErrorsAreTruthful ==
  TypeOK /\ TimeoutIsTruthful /\ DisconnectedMeansAccepted /\ FirstErrorIsDefinite

\* A request is repeated only when the first copy can no longer arrive unseen:
\* the two are never on the wire together.
OneCopyOnTheWire == ~(copy[1] = "wire" /\ copy[2] = "wire")

\* A reply that reached the waiting call is returned, whatever became of the
\* confirm, the deadline or the socket meanwhile.
AnswerWins == [][slot = "reply" => outcome' \in {"none", "result", "cancelled"}]_vars

\* Every call ends by its deadline, whatever the connection and the broker do.
CallEnds == <>(pc = "done")

================================================================================
