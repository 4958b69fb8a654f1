------------------------------ MODULE SettleLadder ------------------------------
(***************************************************************************)
(* One service queue and the process consuming it: how a delivery runs     *)
(* its handler, answers the caller and is settled, and how a failing one    *)
(* climbs the retry ladder to the dead-letter queue                         *)
(* (protobus/connection.py, Connection.consume and _recover_unsettled).     *)
(*                                                                          *)
(* The broker holds COPIES of logical messages: the retry and dead-letter   *)
(* publications store a fresh copy before the old one is acked, so between  *)
(* the two steps a message exists twice.  A slot is one task running        *)
(* on_message for one delivered copy.  Every await of the handler is a      *)
(* step boundary, where the channel can close, the process can crash, or    *)
(* another delivery can run.                                                *)
(***************************************************************************)
EXTENDS Integers, FiniteSets

CONSTANTS
  Msgs,            \* logical messages (one message_id each)
  Callers,         \* those published with a reply_to: somebody waits
  Streams,         \* those whose handler answers with an async iterable
  Slots,           \* delivery tasks that may exist at once (a bound)
  MaxRetries,      \* retry_options.max_retries; 0 means no ladder
  Prefetch,        \* max_concurrent, applied by the broker to late ackers
  LateAck,         \* ack after the handler, or on delivery
  ProducerCancels, \* stream producers may raise CancelledError unasked
  MaxCopies,       \* copies of one message the broker may hold (a bound)
  MaxFaults,       \* faults of the broker, the network and the process (a bound)
  NoCopy

Copies == Msgs \X (1..MaxCopies)

ASSUME MsgsAssumption  == Callers \subseteq Msgs /\ Streams \subseteq Callers
ASSUME BoundAssumption == MaxRetries \in Nat /\ Prefetch \in Nat \ {0}
                          /\ MaxCopies \in Nat \ {0} /\ MaxFaults \in Nat
ASSUME ModeAssumption  == LateAck \in BOOLEAN /\ ProducerCancels \in BOOLEAN
ASSUME NoCopyAssumption == NoCopy \notin Copies

VARIABLES
  where,     \* where the broker holds each copy
  count,     \* the copy's x-retry-count header
  task,      \* the on_message tasks
  open,      \* the channel is open
  faults,    \* faults so far
  fails,     \* failed runs of each message on an open channel, up to
             \* MaxRetries + 1 (history)
  starts,    \* handler runs started for each message, up to 2 (history)
  answered,  \* replies the broker stored for the caller (history)
  outcome,   \* why the broker was told to let a message go (history)
  causes     \* what befell its runs (history)

vars == <<where, count, task, open, faults, fails, starts, answered, outcome, causes>>

(***************************************************************************)
(* A copy is "acking" once its ack or reject is written to the socket:      *)
(* neither is confirmed, so the channel can still close first.             *)
(***************************************************************************)
Places   == {"ready", "held", "acking", "retry", "dlq", "gone"}
Steps    == {"idle", "early", "run", "reply", "answer", "park", "bury", "settle", "recover"}
Verdicts == {"none", "done", "cancelled", "refused", "parked", "buried"}
Reasons  == {"done", "cancelled", "refused", "dead", "dropped"}
Causes   == {"died", "failed", "handled", "ambiguous", "reply"}

Task == [pc : Steps, copy : Copies \cup {NoCopy}, live : BOOLEAN,
         cancelled : BOOLEAN, why : Verdicts]

Idle == [pc |-> "idle", copy |-> NoCopy, live |-> FALSE, cancelled |-> FALSE, why |-> "none"]

MsgOf(c) == c[1]

TypeOK ==
  /\ where \in [Copies -> Places]
  /\ count \in [Copies -> 0..MaxRetries]
  /\ task \in [Slots -> Task]
  /\ open \in BOOLEAN
  /\ faults \in 0..MaxFaults
  /\ fails \in [Msgs -> 0..(MaxRetries + 1)]
  /\ starts \in [Msgs -> 0..2]
  /\ answered \in [Msgs -> SUBSET {"result", "error"}]
  /\ outcome \in [Msgs -> SUBSET Reasons]
  /\ causes \in [Msgs -> SUBSET Causes]

Init ==
  /\ where = [c \in Copies |-> IF c[2] = 1 THEN "ready" ELSE "gone"]
  /\ count = [c \in Copies |-> 0]
  /\ task = [s \in Slots |-> Idle]
  /\ open = TRUE
  /\ faults = 0
  /\ fails = [m \in Msgs |-> 0]
  /\ starts = [m \in Msgs |-> 0]
  /\ answered = [m \in Msgs |-> {}]
  /\ outcome = [m \in Msgs |-> {}]
  /\ causes = [m \in Msgs |-> {}]

--------------------------------------------------------------------------------
(* Helpers of the delivery task. *)

At(s, step)  == task[s].pc = step
Of(s)        == MsgOf(task[s].copy)
Goto(s, step)           == task' = [task EXCEPT ![s].pc = step]
GotoWhy(s, step, why)   == task' = [task EXCEPT ![s] = [@ EXCEPT !.pc = step, !.why = why]]
Finish(s)               == task' = [task EXCEPT ![s] = Idle]

Add(f, m, x) == [f EXCEPT ![m] = @ \cup {x}]
CountUp(f, m, top) == [f EXCEPT ![m] = IF @ < top THEN @ + 1 ELSE @]

Fault    == faults < MaxFaults /\ faults' = faults + 1

\* A step on a closed channel raises by itself; on an open one it takes a fault.
Raises(s) == IF task[s].live THEN Fault ELSE UNCHANGED faults

\* A successful or cancelled delivery: late ackers still owe the broker an ack.
Conclude(s, why) == IF LateAck THEN GotoWhy(s, "settle", why) ELSE Finish(s)

\* Mutants of Climb: one hop too many, one too few, a ladder for early ackers.
Climb_oneTooMany(s, cause) ==
  IF ~LateAck THEN GotoWhy(s, "answer", "none")
  ELSE IF cause = "handled" \/ MaxRetries = 0 THEN GotoWhy(s, "answer", "refused")
  ELSE IF count[task[s].copy] <= MaxRetries THEN GotoWhy(s, "park", "parked")
  ELSE GotoWhy(s, "answer", "buried")
Climb_oneTooFew(s, cause) ==
  IF ~LateAck THEN GotoWhy(s, "answer", "none")
  ELSE IF cause = "handled" \/ MaxRetries = 0 THEN GotoWhy(s, "answer", "refused")
  ELSE IF count[task[s].copy] + 1 < MaxRetries THEN GotoWhy(s, "park", "parked")
  ELSE GotoWhy(s, "answer", "buried")
Climb_earlyToo(s, cause) ==
  IF cause = "handled" \/ MaxRetries = 0 THEN GotoWhy(s, "answer", "refused")
  ELSE IF count[task[s].copy] < MaxRetries THEN GotoWhy(s, "park", "parked")
  ELSE GotoWhy(s, "answer", "buried")

\* The except-branch of on_message: park, dead-letter, or refuse.  Error replies
\* are best effort and precede the settlement of every terminal branch.
Climb(s, cause) ==
  IF ~LateAck THEN GotoWhy(s, "answer", "none")
  ELSE IF cause = "handled" \/ MaxRetries = 0 THEN GotoWhy(s, "answer", "refused")
  ELSE IF count[task[s].copy] < MaxRetries THEN GotoWhy(s, "park", "parked")
  ELSE GotoWhy(s, "answer", "buried")

\* An exception reaching on_message, unless the caller had cancelled.
Failed(s, cause) ==
  IF task[s].cancelled
    THEN Conclude(s, "cancelled") /\ UNCHANGED <<fails, causes>>
    ELSE /\ Climb(s, cause)
         /\ fails' = IF task[s].live THEN CountUp(fails, Of(s), MaxRetries + 1) ELSE fails
         /\ causes' = Add(causes, Of(s), cause)

\* The broker stores a fresh copy of the slot's message, under the first free name.
Fresh(c) == where[c] = "gone" /\ \A i \in 1..(c[2] - 1) : where[<<c[1], i>>] # "gone"

Stored(s, place, n) ==
  \E c \in Copies :
    /\ MsgOf(c) = Of(s) /\ Fresh(c)
    /\ where' = [where EXCEPT ![c] = place]
    /\ count' = [count EXCEPT ![c] = n]

--------------------------------------------------------------------------------
(* The delivery task, one action per stretch between two awaits. *)

\* Prefetch counts deliveries the broker has not seen settled yet.
Deliver(s, c) ==
  /\ open /\ At(s, "idle") /\ where[c] = "ready"
  /\ LateAck => Cardinality({d \in Copies : where[d] \in {"held", "acking"}}) < Prefetch
  /\ where' = [where EXCEPT ![c] = "held"]
  /\ task' = [task EXCEPT ![s] = [Idle EXCEPT !.pc = IF LateAck THEN "run" ELSE "early",
                                              !.copy = c, !.live = TRUE]]
  /\ starts' = IF LateAck THEN CountUp(starts, MsgOf(c), 2) ELSE starts
  /\ UNCHANGED <<count, open, faults, fails, answered, outcome, causes>>

\* Early ackers write the ack first; on a closed channel that raises instead.
AckEarly(s) ==
  /\ At(s, "early")
  /\ IF task[s].live
       THEN /\ where' = [where EXCEPT ![task[s].copy] = "acking"]
            /\ starts' = CountUp(starts, Of(s), 2)
            /\ Goto(s, "run")
       ELSE Goto(s, "recover") /\ UNCHANGED <<where, starts>>
  /\ UNCHANGED <<count, open, faults, fails, answered, outcome, causes>>

\* Mutant: the request is settled without waiting for its reply.
HandlerReturns_unanswered(s) ==
  /\ At(s, "run")
  /\ Conclude(s, "done")
  /\ UNCHANGED <<where, count, open, faults, fails, starts, answered, outcome, causes>>

HandlerReturns(s) ==
  /\ At(s, "run")
  /\ IF Of(s) \in Callers THEN Goto(s, "reply") ELSE Conclude(s, "done")
  /\ UNCHANGED <<where, count, open, faults, fails, starts, answered, outcome, causes>>

\* The handler raises, times out, or (for a stream) raises while producing.
HandlerFails(s, cause) ==
  /\ At(s, "run") \/ (At(s, "reply") /\ Of(s) \in Streams)
  /\ Failed(s, cause)
  /\ UNCHANGED <<where, count, open, faults, starts, answered, outcome>>

\* cancel_stream: every active delivery of the message is marked.
CallerCancels(m) ==
  LET entries == {s \in Slots : ~task[s].pc \in {"idle", "early", "recover"} /\ Of(s) = m}
  IN /\ m \in Streams
     /\ \E s \in entries : ~task[s].cancelled
     /\ task' = [s \in Slots |-> IF s \in entries THEN [task[s] EXCEPT !.cancelled = TRUE]
                                                  ELSE task[s]]
     /\ UNCHANGED <<where, count, open, faults, fails, starts, answered, outcome, causes>>

\* A cancelled stream stops publishing, whatever its producer still yields.
StreamStops(s) ==
  /\ At(s, "reply") /\ Of(s) \in Streams /\ task[s].cancelled
  /\ Conclude(s, "cancelled")
  /\ UNCHANGED <<where, count, open, faults, fails, starts, answered, outcome, causes>>

\* A producer raising CancelledError that nobody asked for: on_message takes it
\* for its own teardown and lets it through every handler that settles.
ProducerCancelsItself(s) ==
  /\ ProducerCancels /\ At(s, "reply") /\ Of(s) \in Streams /\ ~task[s].cancelled
  /\ Finish(s)
  /\ UNCHANGED <<where, count, open, faults, fails, starts, answered, outcome, causes>>

ReplyConfirmed(s) ==
  /\ At(s, "reply") /\ task[s].live
  /\ answered' = Add(answered, Of(s), "result")
  /\ Conclude(s, "done")
  /\ UNCHANGED <<where, count, open, faults, fails, starts, outcome, causes>>

\* Nacked, cut off, or timed out: then the reply may be stored anyway.
ReplyFails(s, cause) ==
  /\ At(s, "reply") /\ Raises(s)
  /\ \/ UNCHANGED answered
     \/ /\ cause = "ambiguous" /\ task[s].live
        /\ answered' = Add(answered, Of(s), "result")
  /\ Failed(s, cause)
  /\ UNCHANGED <<where, count, open, starts, outcome>>

\* publish_error_reply: skipped without a reply_to or an encoded error, and its
\* failure is logged and swallowed.
AnswerError(s) ==
  /\ At(s, "answer")
  /\ answered' \in {answered} \cup
       IF task[s].live /\ Of(s) \in Callers THEN {Add(answered, Of(s), "error")} ELSE {}
  /\ IF ~LateAck THEN Finish(s)
     ELSE Goto(s, IF task[s].why = "buried" THEN "bury" ELSE "settle")
  /\ UNCHANGED <<where, count, open, faults, fails, starts, outcome, causes>>

\* Mutant: every failed attempt is reported to the caller.
ParkConfirmed_answers(s) ==
  /\ At(s, "park") /\ task[s].live
  /\ Stored(s, "retry", count[task[s].copy] + 1)
  /\ answered' = Add(answered, Of(s), "error")
  /\ Goto(s, "settle")
  /\ UNCHANGED <<open, faults, fails, starts, outcome, causes>>

ParkConfirmed(s) ==
  /\ At(s, "park") /\ task[s].live
  /\ Stored(s, "retry", count[task[s].copy] + 1)
  /\ Goto(s, "settle")
  /\ UNCHANGED <<open, faults, fails, starts, answered, outcome, causes>>

\* Mutants: a failed retry publication is ignored, or ends the task.
ParkFails_ignored(s) ==
  /\ At(s, "park") /\ Raises(s)
  /\ Goto(s, "settle")
  /\ UNCHANGED <<where, count, open, fails, starts, answered, outcome, causes>>
ParkFails_abandons(s) ==
  /\ At(s, "park") /\ Raises(s)
  /\ Finish(s)
  /\ UNCHANGED <<where, count, open, fails, starts, answered, outcome, causes>>

\* The retry publication fails; the delivery goes to _recover_unsettled.
ParkFails(s) ==
  /\ At(s, "park") /\ Raises(s)
  /\ \/ UNCHANGED <<where, count>>
     \/ task[s].live /\ Stored(s, "retry", count[task[s].copy] + 1)
  /\ Goto(s, "recover")
  /\ UNCHANGED <<open, fails, starts, answered, outcome, causes>>

BuryConfirmed(s) ==
  /\ At(s, "bury") /\ task[s].live
  /\ Stored(s, "dlq", count[task[s].copy])
  /\ outcome' = Add(outcome, Of(s), "dead")
  /\ Goto(s, "settle")
  /\ UNCHANGED <<open, faults, fails, starts, answered, causes>>

BuryFails(s) ==
  /\ At(s, "bury") /\ Raises(s)
  /\ \/ UNCHANGED <<where, count, outcome>>
     \/ task[s].live /\ Stored(s, "dlq", count[task[s].copy])
        /\ outcome' = Add(outcome, Of(s), "dead")
  /\ Goto(s, "recover")
  /\ UNCHANGED <<open, fails, starts, answered, causes>>

\* Mutant: a cancelled delivery is rejected back to the queue.
Settle_requeuesCancelled(s) ==
  /\ At(s, "settle") /\ task[s].live
  /\ where' = [where EXCEPT ![task[s].copy] =
                 IF task[s].why = "cancelled" THEN "ready" ELSE "acking"]
  /\ outcome' = IF task[s].why \in Reasons
                  THEN Add(outcome, Of(s), task[s].why) ELSE outcome
  /\ Finish(s)
  /\ UNCHANGED <<count, open, faults, fails, starts, answered, causes>>

\* The ack, or for a refused message the reject without requeue, that ends
\* on_message.  On a closed channel it raises, and everything on_message does
\* about that raises too, until _recover_unsettled sees the closed channel.
Settle(s) ==
  /\ At(s, "settle")
  /\ IF task[s].live
       THEN /\ where' = [where EXCEPT ![task[s].copy] = "acking"]
            /\ outcome' = IF task[s].why \in Reasons
                            THEN Add(outcome, Of(s), task[s].why) ELSE outcome
       ELSE UNCHANGED <<where, outcome>>
  /\ Finish(s)
  /\ UNCHANGED <<count, open, faults, fails, starts, answered, causes>>

\* Mutant: a settlement that failed is only logged.
Requeue_onlyLogs(s) ==
  /\ At(s, "recover")
  /\ Finish(s)
  /\ UNCHANGED <<where, count, open, faults, fails, starts, answered, outcome, causes>>

\* _recover_unsettled: after a pause the delivery goes back to the queue, unless
\* the channel is closed and the broker has already put it there.
Requeue(s) ==
  /\ At(s, "recover")
  /\ where' = IF task[s].live THEN [where EXCEPT ![task[s].copy] = "ready"] ELSE where
  /\ Finish(s)
  /\ UNCHANGED <<count, open, faults, fails, starts, answered, outcome, causes>>

--------------------------------------------------------------------------------
(* The broker, the network and the process. *)

Remove(c) == /\ where' = [where EXCEPT ![c] = "gone"]
             /\ count' = [count EXCEPT ![c] = 0]

BrokerSettles(c) ==
  /\ where[c] = "acking"
  /\ Remove(c)
  /\ UNCHANGED <<task, open, faults, fails, starts, answered, outcome, causes>>

\* The retry queue's TTL expires and its dead-letter exchange routes the copy
\* back to the service queue.
RetryHop(c) ==
  /\ where[c] = "retry"
  /\ where' = [where EXCEPT ![c] = "ready"]
  /\ UNCHANGED <<count, task, open, faults, fails, starts, answered, outcome, causes>>

\* That hop is the broker's own and is not confirmed: it can lose the copy.
HopDrops(c) ==
  /\ where[c] = "retry" /\ Fault
  /\ Remove(c)
  /\ outcome' = Add(outcome, MsgOf(c), "dropped")
  /\ UNCHANGED <<task, open, fails, starts, answered, causes>>

\* The broker requeues what a closed channel had not settled.
Reclaimed == {m \in Msgs : \E c \in Copies : MsgOf(c) = m /\ where[c] \in {"held", "acking"}}
Died     == [m \in Msgs |-> IF m \in Reclaimed THEN causes[m] \cup {"died"} ELSE causes[m]]
Requeued == [c \in Copies |-> IF where[c] \in {"held", "acking"} THEN "ready" ELSE where[c]]

\* The tasks of a lost channel run on: their handlers overlap the redelivery.
ChannelLoss ==
  /\ open /\ Fault
  /\ open' = FALSE
  /\ where' = Requeued /\ causes' = Died
  /\ task' = [s \in Slots |-> [task[s] EXCEPT !.live = FALSE]]
  /\ UNCHANGED <<count, fails, starts, answered, outcome>>

Crash ==
  /\ Fault
  /\ open' = FALSE
  /\ where' = Requeued /\ causes' = Died
  /\ task' = [s \in Slots |-> Idle]
  /\ UNCHANGED <<count, fails, starts, answered, outcome>>

Reopen ==
  /\ ~open /\ open' = TRUE
  /\ UNCHANGED <<where, count, task, faults, fails, starts, answered, outcome, causes>>

TaskStep(s) ==
  \/ AckEarly(s) \/ HandlerReturns(s) \/ (\E cause \in {"failed", "handled"} : HandlerFails(s, cause))
  \/ StreamStops(s) \/ ProducerCancelsItself(s)
  \/ ReplyConfirmed(s) \/ (\E cause \in {"ambiguous", "reply"} : ReplyFails(s, cause))
  \/ AnswerError(s)
  \/ ParkConfirmed(s) \/ ParkFails(s) \/ BuryConfirmed(s) \/ BuryFails(s)
  \/ Settle(s) \/ Requeue(s)

BrokerStep(c) == BrokerSettles(c) \/ RetryHop(c) \/ HopDrops(c)

Next ==
  \/ \E s \in Slots : TaskStep(s)
  \/ \E s \in Slots, c \in Copies : Deliver(s, c)
  \/ \E m \in Msgs : CallerCancels(m)
  \/ \E c \in Copies : BrokerStep(c)
  \/ ChannelLoss \/ Crash \/ Reopen

Spec == Init /\ [][Next]_vars

(***************************************************************************)
(* The task's own code always runs on: a unary handler is cut off by the    *)
(* processing timeout, confirms by theirs, and an iterable is assumed to    *)
(* yield or end.  The broker delivers, expires and settles; the connection  *)
(* is re-established.  Faults and cancellations are never forced.           *)
(***************************************************************************)
FairSpec ==
  /\ Spec
  /\ \A s \in Slots : WF_vars(TaskStep(s))
  /\ WF_vars(\E s \in Slots, c \in Copies : Deliver(s, c))
  /\ \A c \in Copies : WF_vars(BrokerSettles(c)) /\ WF_vars(RetryHop(c))
  /\ WF_vars(Reopen)

--------------------------------------------------------------------------------
(* Properties. *)

CopiesOf(m) == {c \in Copies : MsgOf(c) = m}

\* No message is lost: a late acker's message is in the broker, unless its
\* handling was concluded (consume: everything that can raise runs before the
\* ack), or the unconfirmed TTL hop dropped a retry.
NoLoss ==
  LateAck => \A m \in Msgs :
    \/ \E c \in CopiesOf(m) : where[c] \in {"ready", "held", "retry", "dlq"}
    \/ outcome[m] # {}

\* The reply is published before the request is settled: a request settled as
\* done has its result at the caller's callback exchange.
DoneMeansAnswered ==
  \A m \in Callers : "done" \in outcome[m] => "result" \in answered[m]

\* A message reaches the dead-letter queue only after max_retries + 1 failed
\* runs, however many times it was requeued or duplicated on the way.
DeadOnlyAfterAllAttempts ==
  \A c \in Copies : where[c] = "dlq" => fails[MsgOf(c)] > MaxRetries

\* A message leaves for good only for what happened to it: answered if it was
\* done (consume: reply before ack), out of attempts if it is dead.
SettledForAReason == DoneMeansAnswered /\ DeadOnlyAfterAllAttempts

\* A delivery is never left unacknowledged on an open channel with no task to
\* settle it, where it would hold the worker's prefetch credit for good
\* (_recover_unsettled).
NoStuckDelivery ==
  \A c \in Copies : where[c] = "held" =>
    \E s \in Slots : task[s].copy = c /\ task[s].live

\* A message is run again only for a cause: its consumer died, its handler
\* failed with something other than a HandledError, or its reply could not be
\* published.
RerunHasCause ==
  \A m \in Msgs : starts[m] > 1 => causes[m] \ {"handled"} # {}

\* While its message climbs the ladder the caller hears nothing: without a
\* fault, an error reply means that no further attempt is to come.
ErrorIsFinal ==
  faults = 0 => \A m \in Msgs : "error" \in answered[m] =>
    \A c \in CopiesOf(m) : where[c] \notin {"ready", "retry"}

\* An early acker handles a message a second time only if its consumer died
\* before the broker had the ack.
EarlyAckRerunsOnlyAfterLoss ==
  ~LateAck => \A m \in Msgs : starts[m] > 1 => "died" \in causes[m]

\* Every message is eventually settled, left only in the dead-letter queue.
EverySettled ==
  \A m \in Msgs : <>[](\A c \in CopiesOf(m) : where[c] \in {"dlq", "gone"})

\* A copy counts as owed unless it is parked away or about to be settled.
Owed == {m \in Msgs : \E c \in CopiesOf(m) :
           /\ where[c] \in {"ready", "held", "retry"}
           /\ ~\E s \in Slots : /\ task[s].copy = c /\ task[s].live
                                /\ task[s].pc = "settle" /\ task[s].why = "parked"}

\* The ladder implements at-least-once delivery.
Promise == INSTANCE AtLeastOnce WITH owed <- Owed
KeepsPromise == Promise!Spec

================================================================================
