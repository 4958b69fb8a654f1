-------------------------- MODULE SettleLadder_proofs --------------------------
(***************************************************************************)
(* Theorems about SettleLadder, for every number of messages, slots and     *)
(* copies and every retry limit, prefetch and fault bound.                  *)
(***************************************************************************)
EXTENDS SettleLadder, TLAPS

USE DEF Copies, MsgOf

\* A copy is a copy of some message.
LEMMA CopyOfMsg == ASSUME NEW c \in Copies PROVE MsgOf(c) \in Msgs
  OBVIOUS

LEMMA IdleIsTask == Idle \in Task
  BY DEF Idle, Task, Steps, Verdicts

\* What an action may do to a task keeps its type.
LEMMA GotoType ==
  ASSUME TypeOK, NEW s \in Slots, NEW step \in Steps, Goto(s, step)
  PROVE  task' \in [Slots -> Task]
<1> DEFINE t == [task[s] EXCEPT !.pc = step]
<1>1. t \in Task
  BY DEF TypeOK, Task
<1> HIDE DEF t
<1> QED
  BY <1>1 DEF TypeOK, Goto, t

LEMMA GotoWhyType ==
  ASSUME TypeOK, NEW s \in Slots, NEW step \in Steps, NEW why \in Verdicts,
         GotoWhy(s, step, why)
  PROVE  task' \in [Slots -> Task]
<1> DEFINE t == [task[s] EXCEPT !.pc = step, !.why = why]
<1>1. t \in Task
  BY DEF TypeOK, Task
<1> HIDE DEF t
<1> QED
  BY <1>1 DEF TypeOK, GotoWhy, t

LEMMA FinishType ==
  ASSUME TypeOK, NEW s \in Slots, Finish(s)
  PROVE  task' \in [Slots -> Task]
  BY IdleIsTask DEF TypeOK, Finish

LEMMA ConcludeType ==
  ASSUME TypeOK, NEW s \in Slots, NEW why \in Verdicts, Conclude(s, why)
  PROVE  task' \in [Slots -> Task]
  BY GotoWhyType, FinishType DEF Conclude, Steps

LEMMA ClimbType ==
  ASSUME TypeOK, NEW s \in Slots, NEW cause, Climb(s, cause)
  PROVE  task' \in [Slots -> Task]
  BY GotoWhyType DEF Climb, Steps, Verdicts

\* The counters stop at their bounds.
LEMMA CountUpType ==
  ASSUME NEW top \in Nat, NEW f \in [Msgs -> 0..top], NEW m \in Msgs
  PROVE  CountUp(f, m, top) \in [Msgs -> 0..top]
  BY DEF CountUp

LEMMA AddType ==
  ASSUME NEW S, NEW f \in [Msgs -> SUBSET S], NEW m \in Msgs, NEW x \in S
  PROVE  Add(f, m, x) \in [Msgs -> SUBSET S]
  BY DEF Add

LEMMA FailedType ==
  ASSUME TypeOK, NEW s \in Slots, NEW cause \in Causes,
         Of(s) \in Msgs, Failed(s, cause)
  PROVE  /\ task' \in [Slots -> Task]
         /\ fails' \in [Msgs -> 0..(MaxRetries + 1)]
         /\ causes' \in [Msgs -> SUBSET Causes]
<1>1. MaxRetries + 1 \in Nat
  BY BoundAssumption
<1>2. CASE task[s].cancelled
  BY <1>2, ConcludeType DEF Failed, TypeOK, Verdicts
<1>3. CASE ~task[s].cancelled
  <2>1. task' \in [Slots -> Task]
    BY <1>3, ClimbType DEF Failed
  <2>2. fails' \in [Msgs -> 0..(MaxRetries + 1)]
    BY <1>1, <1>3, CountUpType DEF Failed, TypeOK
  <2>3. causes' \in [Msgs -> SUBSET Causes]
    BY <1>3 DEF Failed, TypeOK, Add
  <2> QED BY <2>1, <2>2, <2>3
<1> QED BY <1>2, <1>3

LEMMA StoredType ==
  ASSUME TypeOK, NEW s \in Slots, NEW place \in Places, NEW n \in 0..MaxRetries,
         Stored(s, place, n)
  PROVE  /\ where' \in [Copies -> Places]
         /\ count' \in [Copies -> 0..MaxRetries]
  BY DEF TypeOK, Stored

LEMMA FaultType ==
  ASSUME TypeOK, Fault \/ UNCHANGED faults
  PROVE  faults' \in 0..MaxFaults
  BY BoundAssumption DEF TypeOK, Fault

--------------------------------------------------------------------------------
(***************************************************************************)
(* The inductive invariant.  NoLoss is not inductive: an ack settles one    *)
(* copy, so one must know that what it settles is not the copy the message  *)
(* is owed by.  A task that is alive holds its copy alone, and a delivery   *)
(* about to be acked because its retry was stored does not count: another   *)
(* copy must.                                                               *)
(***************************************************************************)

\* The task's delivery is unsettled on the open channel: nobody else has it.
Holding(s) == task[s].live /\ (LateAck \/ task[s].pc = "early")

\* What a task must know of its copy at each of its steps.
SlotOK(s) ==
  /\ task[s].pc # "idle" => task[s].copy \in Copies
  /\ task[s].live => task[s].pc # "idle"
  /\ Holding(s) => where[task[s].copy] = "held"
  /\ LateAck => task[s].pc # "early"
  /\ task[s].live /\ ~LateAck => task[s].pc \in {"early", "run", "reply", "answer"}
  /\ task[s].live /\ task[s].pc = "park" =>
       task[s].why = "parked" /\ count[task[s].copy] < MaxRetries
  /\ LateAck /\ task[s].pc = "answer" => task[s].why \in {"refused", "buried"}
  /\ task[s].pc = "bury" => task[s].why = "buried"
  /\ task[s].live /\ task[s].pc = "settle" =>
       task[s].why \in {"done", "cancelled", "refused", "parked", "buried"}
  /\ task[s].live /\ task[s].pc = "settle" /\ task[s].why = "buried" =>
       outcome[MsgOf(task[s].copy)] # {}

SlotsOK == \A s \in Slots : SlotOK(s)

OneHolder == \A s, t \in Slots :
  Holding(s) /\ Holding(t) /\ task[s].copy = task[t].copy => s = t

\* The copy is about to be acked, its retry being stored.
Superseded(c) == \E s \in Slots :
  task[s].live /\ task[s].copy = c /\ task[s].pc = "settle" /\ task[s].why = "parked"

Safe(c) == where[c] \in {"ready", "held", "retry", "dlq"} /\ ~Superseded(c)

Owing == LateAck => \A m \in Msgs :
  outcome[m] # {} \/ \E c \in Copies : MsgOf(c) = m /\ Safe(c)

IInv == TypeOK /\ SlotsOK /\ OneHolder /\ Owing

\* One task moves on, or ends; copies may appear, but none moves.
OneMoves(s) ==
  /\ \A t \in Slots \ {s} : task'[t] = task[t]
  /\ \/ task'[s] = Idle
     \/ /\ task'[s].copy = task[s].copy /\ task'[s].live = task[s].live
        /\ task'[s].pc # "early" /\ task[s].pc # "idle"

CopiesKept == \A c \in Copies : where[c] # "gone" =>
                where'[c] = where[c] /\ count'[c] = count[c]

OutcomesKept == \A m \in Msgs : outcome[m] \subseteq outcome'[m]

LEMMA MoveKeepsSlots ==
  ASSUME TypeOK, SlotsOK, OneHolder, NEW s \in Slots, OneMoves(s), CopiesKept,
         OutcomesKept,
         SlotOK(s)'
  PROVE  SlotsOK' /\ OneHolder'
<1>1. ASSUME NEW t \in Slots PROVE SlotOK(t)'
  <2>1. CASE t = s
    BY <2>1
  <2>2. CASE t # s
    <3>1. task'[t] = task[t] /\ SlotOK(t)
      BY <2>2 DEF OneMoves, SlotsOK
    <3>2. task[t].copy \in Copies => MsgOf(task[t].copy) \in Msgs
      OBVIOUS
    <3> QED BY <3>1, <3>2 DEF SlotOK, Holding, CopiesKept, OutcomesKept
  <2> QED BY <2>1, <2>2
<1>2. ASSUME NEW t \in Slots, Holding(t)'
      PROVE  Holding(t) /\ task'[t].copy = task[t].copy
  <2>1. CASE t = s
    BY <1>2, <2>1 DEF OneMoves, Holding, Idle
  <2>2. CASE t # s
    BY <1>2, <2>2 DEF OneMoves, Holding
  <2> QED BY <2>1, <2>2
<1>3. OneHolder'
  BY <1>2 DEF OneHolder
<1> QED BY <1>1, <1>3 DEF SlotsOK

LEMMA MoveKeepsOwing ==
  ASSUME TypeOK, Owing, NEW s \in Slots, OneMoves(s), CopiesKept, OutcomesKept,
         ~(task'[s].pc = "settle" /\ task'[s].why = "parked" /\ task'[s].live)
  PROVE  Owing'
<1> SUFFICES ASSUME LateAck, NEW m \in Msgs
             PROVE  outcome'[m] # {} \/ \E c \in Copies : MsgOf(c) = m /\ Safe(c)'
  BY DEF Owing
<1>1. CASE outcome[m] # {}
  BY <1>1 DEF OutcomesKept
<1>2. CASE outcome[m] = {}
  <2>1. PICK c \in Copies : MsgOf(c) = m /\ Safe(c)
    BY <1>2 DEF Owing
  <2>2. where'[c] = where[c]
    BY <2>1 DEF CopiesKept, Safe
  <2>3. ~Superseded(c)'
    BY <2>1 DEF Safe, Superseded, OneMoves
  <2> QED BY <2>1, <2>2, <2>3 DEF Safe
<1> QED BY <1>1, <1>2

\* The task does not arrive where an acked copy must have a successor.
NotParked(s) == ~(task'[s].pc = "settle" /\ task'[s].why = "parked" /\ task'[s].live)

LEMMA MoveKeeps ==
  ASSUME IInv, TypeOK', NEW s \in Slots, OneMoves(s), CopiesKept, OutcomesKept,
         SlotOK(s)', NotParked(s)
  PROVE  IInv'
  BY MoveKeepsSlots, MoveKeepsOwing DEF IInv, NotParked

--------------------------------------------------------------------------------
(* What the helpers of the delivery task do to it. *)

LEMMA FinishMoves ==
  ASSUME IInv, NEW s \in Slots, Finish(s)
  PROVE  task' \in [Slots -> Task] /\ OneMoves(s) /\ SlotOK(s)' /\ NotParked(s)
<1>1. task' \in [Slots -> Task]
  BY FinishType DEF IInv
<1>2. task'[s] = Idle /\ \A t \in Slots \ {s} : task'[t] = task[t]
  BY DEF Finish, IInv, TypeOK
<1> QED BY <1>1, <1>2 DEF OneMoves, SlotOK, NotParked, Holding, Idle

\* The steps a live delivery may take after its handler started.
LEMMA ConcludeMoves ==
  ASSUME IInv, NEW s \in Slots, NEW why \in {"done", "cancelled"}, task[s].pc \in {"run",
         "reply"},
         Conclude(s, why), UNCHANGED <<where, count, outcome>>
  PROVE  task' \in [Slots -> Task] /\ OneMoves(s) /\ SlotOK(s)' /\ NotParked(s)
<1>1. CASE ~LateAck
  BY <1>1, FinishMoves DEF Conclude
<1>2. CASE LateAck
  <2>1. task' \in [Slots -> Task]
    BY ConcludeType DEF IInv, Verdicts
  <2>2. /\ task'[s] = [task[s] EXCEPT !.pc = "settle", !.why = why]
        /\ \A t \in Slots \ {s} : task'[t] = task[t]
    BY <1>2 DEF Conclude, GotoWhy, IInv, TypeOK
  <2>3. task[s] \in Task /\ SlotOK(s)
    BY DEF IInv, TypeOK, SlotsOK
  <2> QED BY <1>2, <2>1, <2>2, <2>3 DEF OneMoves, SlotOK, NotParked, Holding, Task
<1> QED BY <1>1, <1>2

LEMMA ClimbMoves ==
  ASSUME IInv, NEW s \in Slots, NEW cause, task[s].pc \in {"run", "reply"},
         Climb(s, cause), UNCHANGED <<where, count, outcome>>
  PROVE  task' \in [Slots -> Task] /\ OneMoves(s) /\ SlotOK(s)' /\ NotParked(s)
<1>1. task' \in [Slots -> Task]
  BY ClimbType DEF IInv
<1>2. task[s] \in Task /\ SlotOK(s)
  BY DEF IInv, TypeOK, SlotsOK
<1>3. PICK step \in {"answer", "park"}, why \in Verdicts :
        /\ GotoWhy(s, step, why)
        /\ LateAck /\ step = "answer" => why \in {"refused", "buried"}
        /\ step = "park" => LateAck /\ why = "parked" /\ count[task[s].copy] < MaxRetries
  BY DEF Climb, Verdicts
<1>4. /\ task'[s] = [task[s] EXCEPT !.pc = step, !.why = why]
      /\ \A t \in Slots \ {s} : task'[t] = task[t]
  BY <1>3 DEF GotoWhy, IInv, TypeOK
<1> QED BY <1>1, <1>2, <1>3, <1>4 DEF OneMoves, SlotOK, NotParked, Holding, Task

LEMMA FailedMoves ==
  ASSUME IInv, NEW s \in Slots, NEW cause, task[s].pc \in {"run", "reply"},
         Failed(s, cause), UNCHANGED <<where, count, outcome>>
  PROVE  task' \in [Slots -> Task] /\ OneMoves(s) /\ SlotOK(s)' /\ NotParked(s)
  BY ConcludeMoves, ClimbMoves DEF Failed

\* A task going on with the same verdict.
LEMMA GotoMoves ==
  ASSUME IInv, NEW s \in Slots, NEW step \in Steps \ {"early"}, task[s].pc # "idle",
         Goto(s, step)
  PROVE  /\ task' \in [Slots -> Task] /\ OneMoves(s)
         /\ task'[s] = [task[s] EXCEPT !.pc = step]
<1>1. task' \in [Slots -> Task]
  BY GotoType DEF IInv
<1>2. /\ task'[s] = [task[s] EXCEPT !.pc = step]
      /\ \A t \in Slots \ {s} : task'[t] = task[t]
  BY DEF Goto, IInv, TypeOK
<1>3. task[s] \in Task
  BY DEF IInv, TypeOK
<1> QED BY <1>1, <1>2, <1>3 DEF OneMoves, Task

\* A task that is not idle works for a message.
LEMMA WorksForMsg ==
  ASSUME IInv, NEW s \in Slots, task[s].pc # "idle"
  PROVE  task[s] \in Task /\ task[s].copy \in Copies /\ Of(s) \in Msgs /\ SlotOK(s)
  BY DEF IInv, TypeOK, SlotsOK, SlotOK, Of

--------------------------------------------------------------------------------
(* The steps of the delivery task that leave every copy where it is. *)

LEMMA HandlerReturnsKeeps ==
  ASSUME IInv, NEW s \in Slots, HandlerReturns(s)
  PROVE  IInv'
<1>1. task[s].pc = "run" /\ CopiesKept /\ OutcomesKept /\ UNCHANGED <<where, count, outcome>>
  BY DEF HandlerReturns, At, CopiesKept, OutcomesKept
<1>2. task' \in [Slots -> Task] /\ OneMoves(s) /\ SlotOK(s)' /\ NotParked(s)
  <2>1. CASE Of(s) \in Callers
    <3>1. Goto(s, "reply")
      BY <2>1 DEF HandlerReturns
    <3>2. task' \in [Slots -> Task] /\ OneMoves(s) /\ task'[s] = [task[s] EXCEPT !.pc = "reply"]
      BY <1>1, <3>1, GotoMoves DEF Steps
    <3> QED BY <1>1, <3>2, WorksForMsg DEF SlotOK, NotParked, Holding, Task
  <2>2. CASE Of(s) \notin Callers
    BY <1>1, <2>2, ConcludeMoves DEF HandlerReturns
  <2> QED BY <2>1, <2>2
<1>3. TypeOK'
  BY <1>2 DEF HandlerReturns, IInv, TypeOK
<1> QED BY <1>1, <1>2, <1>3, MoveKeeps

LEMMA HandlerFailsKeeps ==
  ASSUME IInv, NEW s \in Slots, NEW cause \in {"failed", "handled"}, HandlerFails(s,
         cause)
  PROVE  IInv'
<1>1. /\ task[s].pc \in {"run", "reply"} /\ CopiesKept /\ OutcomesKept
      /\ UNCHANGED <<where, count, outcome>> /\ Failed(s, cause)
  BY DEF HandlerFails, At, CopiesKept, OutcomesKept
<1>2. task' \in [Slots -> Task] /\ OneMoves(s) /\ SlotOK(s)' /\ NotParked(s)
  BY <1>1, FailedMoves
<1>3. TypeOK'
  <2>1. fails' \in [Msgs -> 0..(MaxRetries + 1)] /\ causes' \in [Msgs -> SUBSET Causes]
    BY <1>1, WorksForMsg, FailedType DEF IInv, Causes
  <2> QED BY <1>2, <2>1 DEF HandlerFails, IInv, TypeOK
<1> QED BY <1>1, <1>2, <1>3, MoveKeeps

LEMMA StreamStopsKeeps ==
  ASSUME IInv, NEW s \in Slots, StreamStops(s)
  PROVE  IInv'
<1>1. /\ task[s].pc = "reply" /\ CopiesKept /\ OutcomesKept
      /\ UNCHANGED <<where, count, outcome>> /\ Conclude(s, "cancelled")
  BY DEF StreamStops, At, CopiesKept, OutcomesKept
<1>2. task' \in [Slots -> Task] /\ OneMoves(s) /\ SlotOK(s)' /\ NotParked(s)
  BY <1>1, ConcludeMoves
<1>3. TypeOK'
  BY <1>2 DEF StreamStops, IInv, TypeOK
<1> QED BY <1>1, <1>2, <1>3, MoveKeeps

LEMMA ProducerCancelsItselfKeeps ==
  ASSUME IInv, NEW s \in Slots, ProducerCancelsItself(s)
  PROVE  IInv'
<1>1. CopiesKept /\ OutcomesKept
  BY DEF ProducerCancelsItself, CopiesKept, OutcomesKept
<1>2. task' \in [Slots -> Task] /\ OneMoves(s) /\ SlotOK(s)' /\ NotParked(s)
  BY FinishMoves DEF ProducerCancelsItself
<1>3. TypeOK'
  BY <1>2 DEF ProducerCancelsItself, IInv, TypeOK
<1> QED BY <1>1, <1>2, <1>3, MoveKeeps

LEMMA ReplyConfirmedKeeps ==
  ASSUME IInv, NEW s \in Slots, ReplyConfirmed(s)
  PROVE  IInv'
<1>1. /\ task[s].pc = "reply" /\ CopiesKept /\ OutcomesKept
      /\ UNCHANGED <<where, count, outcome>> /\ Conclude(s, "done")
  BY DEF ReplyConfirmed, At, CopiesKept, OutcomesKept
<1>2. task' \in [Slots -> Task] /\ OneMoves(s) /\ SlotOK(s)' /\ NotParked(s)
  BY <1>1, ConcludeMoves
<1>3. TypeOK'
  BY <1>1, <1>2, WorksForMsg DEF ReplyConfirmed, IInv, TypeOK, Add
<1> QED BY <1>1, <1>2, <1>3, MoveKeeps

LEMMA ReplyFailsKeeps ==
  ASSUME IInv, NEW s \in Slots, NEW cause \in {"ambiguous", "reply"}, ReplyFails(s, cause)
  PROVE  IInv'
<1>1. /\ task[s].pc = "reply" /\ CopiesKept /\ OutcomesKept
      /\ UNCHANGED <<where, count, outcome>> /\ Failed(s, cause)
  BY DEF ReplyFails, At, CopiesKept, OutcomesKept
<1>2. task' \in [Slots -> Task] /\ OneMoves(s) /\ SlotOK(s)' /\ NotParked(s)
  BY <1>1, FailedMoves
<1>3. TypeOK'
  <2>1. fails' \in [Msgs -> 0..(MaxRetries + 1)] /\ causes' \in [Msgs -> SUBSET Causes]
    BY <1>1, WorksForMsg, FailedType DEF IInv, Causes
  <2>2. faults' \in 0..MaxFaults
    BY FaultType DEF ReplyFails, Raises, IInv
  <2>3. answered' \in [Msgs -> SUBSET {"result", "error"}]
    BY <1>1, WorksForMsg DEF ReplyFails, IInv, TypeOK, Add
  <2> QED BY <1>2, <2>1, <2>2, <2>3 DEF ReplyFails, IInv, TypeOK
<1> QED BY <1>1, <1>2, <1>3, MoveKeeps

LEMMA AnswerErrorKeeps ==
  ASSUME IInv, NEW s \in Slots, AnswerError(s)
  PROVE  IInv'
<1>1. task[s].pc = "answer" /\ CopiesKept /\ OutcomesKept /\ UNCHANGED <<where, count, outcome>>
  BY DEF AnswerError, At, CopiesKept, OutcomesKept
<1>2. task' \in [Slots -> Task] /\ OneMoves(s) /\ SlotOK(s)' /\ NotParked(s)
  <2>1. CASE ~LateAck
    BY <2>1, FinishMoves DEF AnswerError
  <2>2. CASE LateAck
    <3>1. PICK step \in {"bury", "settle"} :
            Goto(s, step) /\ (step = "bury" <=> task[s].why = "buried")
      BY <2>2 DEF AnswerError
    <3>2. task' \in [Slots -> Task] /\ OneMoves(s) /\ task'[s] = [task[s] EXCEPT !.pc = step]
      BY <1>1, <3>1, GotoMoves DEF Steps
    <3> QED BY <1>1, <2>2, <3>1, <3>2, WorksForMsg DEF SlotOK, NotParked, Holding, Task
  <2> QED BY <2>1, <2>2
<1>3. TypeOK'
  BY <1>1, <1>2, WorksForMsg DEF AnswerError, IInv, TypeOK, Add
<1> QED BY <1>1, <1>2, <1>3, MoveKeeps

--------------------------------------------------------------------------------
(* The publications of the ladder. *)

LEMMA StoredKeeps ==
  ASSUME IInv, NEW s \in Slots, NEW place \in Places, NEW n \in 0..MaxRetries,
         Stored(s, place, n)
  PROVE  /\ CopiesKept
         /\ \E c \in Copies : MsgOf(c) = Of(s) /\ where[c] = "gone" /\ where'[c] = place
<1>1. PICK c \in Copies : /\ MsgOf(c) = Of(s) /\ Fresh(c)
                          /\ where' = [where EXCEPT ![c] = place]
                          /\ count' = [count EXCEPT ![c] = n]
  BY DEF Stored
<1>2. where[c] = "gone"
  BY <1>1 DEF Fresh
<1> QED BY <1>1, <1>2 DEF CopiesKept, IInv, TypeOK

\* The retry count of a delivery being parked still fits the ladder.
LEMMA ParkFits ==
  ASSUME IInv, NEW s \in Slots, task[s].live, task[s].pc = "park"
  PROVE  count[task[s].copy] + 1 \in 0..MaxRetries
  BY WorksForMsg, BoundAssumption DEF SlotOK, IInv, TypeOK

LEMMA ParkConfirmedKeeps ==
  ASSUME IInv, NEW s \in Slots, ParkConfirmed(s)
  PROVE  IInv'
<1>1. /\ task[s].pc = "park" /\ task[s].live /\ OutcomesKept /\ UNCHANGED outcome
      /\ Stored(s, "retry", count[task[s].copy] + 1) /\ Goto(s, "settle")
  BY DEF ParkConfirmed, At, OutcomesKept
<1>2. /\ where' \in [Copies -> Places] /\ count' \in [Copies -> 0..MaxRetries]
      /\ CopiesKept
      /\ \E c \in Copies : MsgOf(c) = Of(s) /\ where[c] = "gone" /\ where'[c] = "retry"
  BY <1>1, ParkFits, StoredType, StoredKeeps DEF Places, IInv
<1>3. /\ task' \in [Slots -> Task] /\ OneMoves(s)
      /\ task'[s] = [task[s] EXCEPT !.pc = "settle"]
  BY <1>1, GotoMoves DEF Steps
<1>4. SlotOK(s)'
  BY <1>1, <1>2, <1>3, WorksForMsg DEF SlotOK, Holding, Task, CopiesKept
<1>5. TypeOK'
  BY <1>2, <1>3 DEF ParkConfirmed, IInv, TypeOK
<1>6. SlotsOK' /\ OneHolder'
  BY <1>1, <1>2, <1>3, <1>4, MoveKeepsSlots DEF IInv
<1>7. Owing'
  <2> SUFFICES ASSUME LateAck, NEW m \in Msgs
               PROVE  outcome'[m] # {} \/ \E c \in Copies : MsgOf(c) = m /\ Safe(c)'
    BY DEF Owing
  <2>1. CASE m = Of(s)
    <3>1. PICK c \in Copies : MsgOf(c) = m /\ where[c] = "gone" /\ where'[c] = "retry"
      BY <1>2, <2>1
    <3>2. ASSUME NEW t \in Slots, task'[t].live PROVE task'[t].copy # c
      <4>1. task[t].live /\ task'[t].copy = task[t].copy
        BY <1>1, <1>3, <3>2 DEF OneMoves, Idle, Task
      <4>2. where[task[t].copy] = "held"
        BY <4>1 DEF IInv, SlotsOK, SlotOK, Holding
      <4> QED BY <3>1, <4>1, <4>2
    <3> QED BY <3>1, <3>2 DEF Safe, Superseded
  <2>2. CASE m # Of(s)
    <3>1. CASE outcome[m] # {}
      BY <1>1, <3>1
    <3>2. CASE outcome[m] = {}
      <4>1. PICK c \in Copies : MsgOf(c) = m /\ Safe(c)
        BY <3>2 DEF IInv, Owing
      <4>2. where'[c] = where[c]
        BY <1>2, <4>1 DEF CopiesKept, Safe
      <4>3. ~Superseded(c)'
        BY <1>3, <2>2, <4>1, WorksForMsg DEF Safe, Superseded, OneMoves, Task, Of
      <4> QED BY <4>1, <4>2, <4>3 DEF Safe
    <3> QED BY <3>1, <3>2
  <2> QED BY <2>1, <2>2
<1> QED BY <1>5, <1>6, <1>7 DEF IInv

LEMMA ParkFailsKeeps ==
  ASSUME IInv, NEW s \in Slots, ParkFails(s)
  PROVE  IInv'
<1>1. /\ task[s].pc = "park" /\ Raises(s) /\ OutcomesKept /\ Goto(s, "recover")
      /\ UNCHANGED outcome
  BY DEF ParkFails, At, OutcomesKept
<1>2. where' \in [Copies -> Places] /\ count' \in [Copies -> 0..MaxRetries] /\ CopiesKept
  <2>1. CASE UNCHANGED <<where, count>>
    BY <2>1 DEF IInv, TypeOK, CopiesKept
  <2>2. CASE task[s].live /\ Stored(s, "retry", count[task[s].copy] + 1)
    BY <1>1, <2>2, ParkFits, StoredType, StoredKeeps DEF Places, IInv
  <2> QED BY <2>1, <2>2 DEF ParkFails
<1>3. /\ task' \in [Slots -> Task] /\ OneMoves(s)
      /\ task'[s] = [task[s] EXCEPT !.pc = "recover"]
  BY <1>1, GotoMoves DEF Steps
<1>4. SlotOK(s)' /\ NotParked(s)
  BY <1>1, <1>2, <1>3, WorksForMsg DEF SlotOK, NotParked, Holding, Task, CopiesKept
<1>5. faults' \in 0..MaxFaults
  BY <1>1, FaultType DEF Raises, IInv
<1>6. TypeOK'
  BY <1>2, <1>3, <1>5 DEF ParkFails, IInv, TypeOK
<1> QED BY <1>1, <1>2, <1>3, <1>4, <1>6, MoveKeeps

\* A copy stored in the dead-letter queue is a reason on record.
LEMMA BuriedOutcome ==
  ASSUME IInv, NEW s \in Slots, task[s].pc # "idle", outcome' = Add(outcome, Of(s),
         "dead")
  PROVE  /\ outcome' \in [Msgs -> SUBSET Reasons] /\ OutcomesKept
         /\ outcome'[MsgOf(task[s].copy)] # {}
<1>1. Of(s) \in Msgs /\ "dead" \in Reasons
  BY WorksForMsg DEF Reasons
<1> QED BY <1>1 DEF IInv, TypeOK, Add, OutcomesKept, Of

LEMMA BuryConfirmedKeeps ==
  ASSUME IInv, NEW s \in Slots, BuryConfirmed(s)
  PROVE  IInv'
<1>1. /\ task[s].pc = "bury" /\ task[s].live /\ Goto(s, "settle")
      /\ Stored(s, "dlq", count[task[s].copy]) /\ outcome' = Add(outcome, Of(s), "dead")
  BY DEF BuryConfirmed, At
<1>2. where' \in [Copies -> Places] /\ count' \in [Copies -> 0..MaxRetries] /\ CopiesKept
  <2>1. count[task[s].copy] \in 0..MaxRetries
    BY <1>1, WorksForMsg DEF IInv, TypeOK
  <2> QED BY <1>1, <2>1, StoredType, StoredKeeps DEF Places, IInv
<1>3. /\ task' \in [Slots -> Task] /\ OneMoves(s)
      /\ task'[s] = [task[s] EXCEPT !.pc = "settle"]
  BY <1>1, GotoMoves DEF Steps
<1>4. /\ outcome' \in [Msgs -> SUBSET Reasons] /\ OutcomesKept
      /\ outcome'[MsgOf(task[s].copy)] # {}
  BY <1>1, BuriedOutcome
<1>5. SlotOK(s)' /\ NotParked(s)
  BY <1>1, <1>2, <1>3, <1>4, WorksForMsg DEF SlotOK, NotParked, Holding, Task, CopiesKept
<1>6. TypeOK'
  BY <1>2, <1>3, <1>4 DEF BuryConfirmed, IInv, TypeOK
<1> QED BY <1>2, <1>3, <1>4, <1>5, <1>6, MoveKeeps

LEMMA BuryFailsKeeps ==
  ASSUME IInv, NEW s \in Slots, BuryFails(s)
  PROVE  IInv'
<1>1. task[s].pc = "bury" /\ Raises(s) /\ Goto(s, "recover")
  BY DEF BuryFails, At
<1>2. /\ where' \in [Copies -> Places] /\ count' \in [Copies -> 0..MaxRetries] /\ CopiesKept
      /\ outcome' \in [Msgs -> SUBSET Reasons] /\ OutcomesKept
  <2>1. CASE UNCHANGED <<where, count, outcome>>
    BY <2>1 DEF IInv, TypeOK, CopiesKept, OutcomesKept
  <2>2. CASE /\ Stored(s, "dlq", count[task[s].copy])
             /\ outcome' = Add(outcome, Of(s), "dead")
    <3>1. count[task[s].copy] \in 0..MaxRetries
      BY <1>1, WorksForMsg DEF IInv, TypeOK
    <3> QED BY <1>1, <2>2, <3>1, BuriedOutcome, StoredType, StoredKeeps DEF Places, IInv
  <2> QED BY <2>1, <2>2 DEF BuryFails
<1>3. /\ task' \in [Slots -> Task] /\ OneMoves(s)
      /\ task'[s] = [task[s] EXCEPT !.pc = "recover"]
  BY <1>1, GotoMoves DEF Steps
<1>4. SlotOK(s)' /\ NotParked(s)
  BY <1>1, <1>2, <1>3, WorksForMsg DEF SlotOK, NotParked, Holding, Task, CopiesKept
<1>5. faults' \in 0..MaxFaults
  BY <1>1, FaultType DEF Raises, IInv
<1>6. TypeOK'
  BY <1>2, <1>3, <1>5 DEF BuryFails, IInv, TypeOK
<1> QED BY <1>2, <1>3, <1>4, <1>6, MoveKeeps

--------------------------------------------------------------------------------
(* The steps that give a delivery back to the broker. *)

\* A holder lets go of its copy, which nobody else holds.
LEMMA LetsGoKeepsSlots ==
  ASSUME IInv, NEW s \in Slots, Holding(s), ~Holding(s)', SlotOK(s)', OutcomesKept,
         UNCHANGED count, \A t \in Slots \ {s} : task'[t] = task[t],
         \A c \in Copies : c # task[s].copy => where'[c] = where[c]
  PROVE  SlotsOK' /\ OneHolder'
<1>1. ASSUME NEW t \in Slots, t # s
      PROVE  SlotOK(t)'
  <2>1. task'[t] = task[t] /\ SlotOK(t)
    BY <1>1 DEF IInv, SlotsOK
  <2>2. Holding(t) => task[t].copy \in Copies /\ where'[task[t].copy] = where[task[t].copy]
    BY <1>1, <2>1 DEF IInv, OneHolder, SlotOK, Holding
  <2>3. task[t].copy \in Copies => MsgOf(task[t].copy) \in Msgs
    OBVIOUS
  <2> QED BY <2>1, <2>2, <2>3 DEF SlotOK, Holding, OutcomesKept
<1>2. SlotsOK'
  BY <1>1 DEF SlotsOK
<1>3. \A t \in Slots : Holding(t)' => t # s /\ Holding(t) /\ task'[t].copy = task[t].copy
  BY DEF Holding
<1>4. OneHolder'
  BY <1>3 DEF OneHolder, IInv
<1> QED BY <1>2, <1>4

LEMMA SettleKeeps ==
  ASSUME IInv, NEW s \in Slots, Settle(s)
  PROVE  IInv'
<1>1. task[s].pc = "settle" /\ Finish(s) /\ UNCHANGED count
  BY DEF Settle, At
<1>2. task' \in [Slots -> Task] /\ OneMoves(s) /\ SlotOK(s)' /\ NotParked(s)
  BY <1>1, FinishMoves
<1>3. task[s].copy \in Copies /\ Of(s) \in Msgs /\ SlotOK(s)
  BY <1>1, WorksForMsg
<1>4. CASE ~task[s].live
  <2>1. UNCHANGED <<where, outcome>> /\ CopiesKept /\ OutcomesKept
    BY <1>1, <1>4 DEF Settle, CopiesKept, OutcomesKept
  <2>2. TypeOK'
    BY <1>2, <2>1 DEF Settle, IInv, TypeOK
  <2> QED BY <1>2, <2>1, <2>2, MoveKeeps
<1>5. CASE task[s].live
  <2>1. /\ where' = [where EXCEPT ![task[s].copy] = "acking"]
        /\ outcome' = IF task[s].why \in Reasons THEN Add(outcome, Of(s), task[s].why)
                      ELSE outcome
    BY <1>5 DEF Settle
  <2>2. OutcomesKept /\ outcome' \in [Msgs -> SUBSET Reasons]
    BY <1>3, <2>1 DEF OutcomesKept, IInv, TypeOK, Add
  <2>3. TypeOK'
    BY <1>2, <1>3, <2>1, <2>2 DEF Settle, IInv, TypeOK, Places
  <2>4. Holding(s) /\ ~Holding(s)'
    <3>1. task'[s] = Idle
      BY <1>1 DEF Finish, IInv, TypeOK
    <3> QED BY <1>1, <1>3, <1>5, <3>1 DEF Holding, SlotOK, Idle
  <2>5. \A c \in Copies : c # task[s].copy => where'[c] = where[c]
    BY <2>1 DEF IInv, TypeOK
  <2>6. SlotsOK' /\ OneHolder'
    BY <1>1, <1>2, <2>2, <2>4, <2>5, LetsGoKeepsSlots DEF OneMoves
  <2>7. Owing'
    <3> SUFFICES ASSUME LateAck, NEW m \in Msgs, outcome'[m] = {}
                 PROVE  \E c \in Copies : MsgOf(c) = m /\ Safe(c)'
      BY DEF Owing
    <3>1. PICK c \in Copies : MsgOf(c) = m /\ Safe(c)
      BY <2>2 DEF OutcomesKept, IInv, Owing
    <3>2. c # task[s].copy
      <4>1. CASE task[s].why = "parked"
        BY <1>1, <1>5, <3>1, <4>1 DEF Safe, Superseded
      <4>2. CASE task[s].why = "buried"
        BY <1>1, <1>3, <1>5, <2>2, <3>1, <4>2 DEF SlotOK, OutcomesKept, Of
      <4>3. CASE task[s].why \in Reasons
        BY <1>3, <2>1, <3>1, <4>3 DEF Add, Of, IInv, TypeOK
      <4> QED BY <1>1, <1>3, <1>5, <4>1, <4>2, <4>3 DEF SlotOK, Reasons
    <3>3. ~Superseded(c)'
      BY <1>2, <3>1 DEF Safe, Superseded, OneMoves, NotParked
    <3> QED BY <2>5, <3>1, <3>2, <3>3 DEF Safe
  <2> QED BY <2>3, <2>6, <2>7 DEF IInv
<1> QED BY <1>4, <1>5

LEMMA RequeueKeeps ==
  ASSUME IInv, NEW s \in Slots, Requeue(s)
  PROVE  IInv'
<1>1. /\ task[s].pc = "recover" /\ Finish(s) /\ UNCHANGED <<count, outcome>> /\ OutcomesKept
      /\ where' = IF task[s].live THEN [where EXCEPT ![task[s].copy] = "ready"] ELSE where
  BY DEF Requeue, At, OutcomesKept
<1>2. task' \in [Slots -> Task] /\ OneMoves(s) /\ SlotOK(s)' /\ NotParked(s)
  BY <1>1, FinishMoves
<1>3. task[s].copy \in Copies /\ SlotOK(s)
  BY <1>1, WorksForMsg
<1>4. TypeOK'
  BY <1>1, <1>2, <1>3 DEF Requeue, IInv, TypeOK, Places
<1>5. CASE ~task[s].live
  BY <1>1, <1>2, <1>4, <1>5, MoveKeeps DEF CopiesKept
<1>6. CASE task[s].live
  <2>1. Holding(s) /\ ~Holding(s)'
    <3>1. task'[s] = Idle
      BY <1>1 DEF Finish, IInv, TypeOK
    <3> QED BY <1>1, <1>3, <1>6, <3>1 DEF Holding, SlotOK, Idle
  <2>2. /\ \A c \in Copies : c # task[s].copy => where'[c] = where[c]
        /\ where'[task[s].copy] = "ready"
    BY <1>1, <1>3, <1>6 DEF IInv, TypeOK
  <2>3. SlotsOK' /\ OneHolder'
    BY <1>1, <1>2, <2>1, <2>2, LetsGoKeepsSlots DEF OneMoves
  <2>4. \A c \in Copies : Safe(c) => Safe(c)'
    BY <1>2, <2>2 DEF Safe, Superseded, OneMoves, NotParked
  <2>5. Owing'
    BY <1>1, <2>4 DEF Owing, IInv
  <2> QED BY <1>4, <2>3, <2>5 DEF IInv
<1> QED BY <1>5, <1>6

LEMMA AckEarlyKeeps ==
  ASSUME IInv, NEW s \in Slots, AckEarly(s)
  PROVE  IInv'
<1>1. task[s].pc = "early" /\ UNCHANGED <<count, outcome>> /\ OutcomesKept
  BY DEF AckEarly, At, OutcomesKept
<1>2. task[s] \in Task /\ task[s].copy \in Copies /\ Of(s) \in Msgs /\ SlotOK(s) /\ ~LateAck
  BY <1>1, WorksForMsg DEF SlotOK
<1>3. CASE ~task[s].live
  <2>1. Goto(s, "recover") /\ UNCHANGED <<where, starts>> /\ CopiesKept
    BY <1>1, <1>3 DEF AckEarly, CopiesKept
  <2>2. /\ task' \in [Slots -> Task] /\ OneMoves(s)
        /\ task'[s] = [task[s] EXCEPT !.pc = "recover"]
    BY <1>1, <2>1, GotoMoves DEF Steps
  <2>3. SlotOK(s)' /\ NotParked(s)
    BY <1>2, <1>3, <2>2 DEF SlotOK, NotParked, Holding, Task
  <2>4. TypeOK'
    BY <2>1, <2>2 DEF AckEarly, IInv, TypeOK
  <2> QED BY <1>1, <2>1, <2>2, <2>3, <2>4, MoveKeeps
<1>4. CASE task[s].live
  <2>1. /\ where' = [where EXCEPT ![task[s].copy] = "acking"]
        /\ starts' = CountUp(starts, Of(s), 2) /\ Goto(s, "run")
    BY <1>4 DEF AckEarly
  <2>2. /\ task' \in [Slots -> Task] /\ OneMoves(s)
        /\ task'[s] = [task[s] EXCEPT !.pc = "run"]
    BY <1>1, <2>1, GotoMoves DEF Steps
  <2>3. SlotOK(s)' /\ Holding(s) /\ ~Holding(s)'
    BY <1>1, <1>2, <1>4, <2>2 DEF SlotOK, Holding, Task
  <2>4. starts' \in [Msgs -> 0..2]
    BY <1>2, <2>1, CountUpType DEF IInv, TypeOK
  <2>5. TypeOK'
    BY <1>2, <2>1, <2>2, <2>4 DEF AckEarly, IInv, TypeOK, Places
  <2>6. \A c \in Copies : c # task[s].copy => where'[c] = where[c]
    BY <2>1 DEF IInv, TypeOK
  <2>7. SlotsOK' /\ OneHolder'
    BY <1>1, <2>2, <2>3, <2>6, LetsGoKeepsSlots DEF OneMoves
  <2> QED BY <1>2, <2>5, <2>7 DEF IInv, Owing
<1> QED BY <1>3, <1>4

LEMMA DeliverKeeps ==
  ASSUME IInv, NEW s \in Slots, NEW c \in Copies, Deliver(s, c)
  PROVE  IInv'
<1> DEFINE new == [Idle EXCEPT !.pc = IF LateAck THEN "run" ELSE "early",
                               !.copy = c, !.live = TRUE]
<1>1. /\ task[s].pc = "idle" /\ where[c] = "ready"
      /\ where' = [where EXCEPT ![c] = "held"]
      /\ task' = [task EXCEPT ![s] = new]
      /\ UNCHANGED <<count, outcome>>
  BY DEF Deliver, At
<1>2. new \in Task
  BY DEF Task, Idle, Steps, Verdicts
<1> HIDE DEF new
<1>3. /\ task' \in [Slots -> Task] /\ task'[s] = new
      /\ \A t \in Slots \ {s} : task'[t] = task[t]
  BY <1>1, <1>2 DEF IInv, TypeOK
<1>4. /\ where' \in [Copies -> Places] /\ where'[c] = "held"
      /\ \A d \in Copies : d # c => where'[d] = where[d]
  BY <1>1 DEF IInv, TypeOK, Places
<1>5. starts' \in [Msgs -> 0..2]
  BY CopyOfMsg, CountUpType DEF Deliver, IInv, TypeOK
<1>6. TypeOK'
  BY <1>3, <1>4, <1>5 DEF Deliver, IInv, TypeOK
<1>7. /\ new.copy = c /\ new.live /\ new.why = "none"
      /\ new.pc = IF LateAck THEN "run" ELSE "early"
  BY DEF new, Idle
<1>8. ASSUME NEW t \in Slots, t # s, Holding(t)'
      PROVE  Holding(t) /\ task[t].copy \in Copies /\ task[t].copy # c
  BY <1>1, <1>3, <1>8 DEF IInv, SlotsOK, SlotOK, Holding
<1>9. SlotsOK'
  <2>1. SlotOK(s)'
    BY <1>3, <1>4, <1>7 DEF SlotOK, Holding
  <2>2. ASSUME NEW t \in Slots, t # s PROVE SlotOK(t)'
    BY <1>1, <1>3, <1>4, <1>8, <2>2 DEF IInv, SlotsOK, SlotOK, Holding
  <2> QED BY <2>1, <2>2 DEF SlotsOK
<1>10. OneHolder'
  BY <1>3, <1>7, <1>8 DEF OneHolder, IInv, Holding
<1>11. \A d \in Copies : Safe(d) => Safe(d)'
  BY <1>3, <1>4, <1>7 DEF Safe, Superseded
<1>12. Owing'
  BY <1>1, <1>11 DEF Owing, IInv
<1> QED BY <1>6, <1>9, <1>10, <1>12 DEF IInv

--------------------------------------------------------------------------------
(* The caller, the broker, the network and the process. *)

LEMMA CallerCancelsKeeps ==
  ASSUME IInv, NEW m \in Msgs, CallerCancels(m)
  PROVE  IInv'
<1>1. /\ UNCHANGED <<where, count, open, faults, fails, starts, answered, outcome, causes>>
      /\ task' \in [Slots -> Task]
      /\ \A s \in Slots : /\ task'[s].pc = task[s].pc /\ task'[s].copy = task[s].copy
                           /\ task'[s].live = task[s].live /\ task'[s].why = task[s].why
  <2> DEFINE entries == {s \in Slots : ~task[s].pc \in {"idle", "early", "recover"}
                                        /\ Of(s) = m}
  <2>1. task' = [s \in Slots |-> IF s \in entries THEN [task[s] EXCEPT !.cancelled = TRUE]
                                                    ELSE task[s]]
    BY DEF CallerCancels
  <2>2. \A s \in Slots : task[s] \in Task
    BY DEF IInv, TypeOK
  <2>3. UNCHANGED <<where, count, open, faults, fails, starts, answered, outcome, causes>>
    BY DEF CallerCancels
  <2> HIDE DEF entries
  <2>4. ASSUME NEW s \in Slots
        PROVE  /\ task'[s] \in Task
               /\ task'[s].pc = task[s].pc /\ task'[s].copy = task[s].copy
               /\ task'[s].live = task[s].live /\ task'[s].why = task[s].why
    <3>1. CASE s \in entries
      <4>1. task'[s] = [task[s] EXCEPT !.cancelled = TRUE]
        BY <2>1, <3>1
      <4> QED BY <4>1, <2>2 DEF Task
    <3>2. CASE s \notin entries
      <4>1. task'[s] = task[s]
        BY <2>1, <3>2
      <4> QED BY <4>1, <2>2
    <3> QED BY <3>1, <3>2
  <2>5. task' = [s \in Slots |-> task'[s]]
    BY <2>1
  <2>6. task' \in [Slots -> Task]
    BY <2>4, <2>5
  <2> QED BY <2>3, <2>4, <2>6
<1>2. TypeOK'
  BY <1>1 DEF IInv, TypeOK
<1>3. \A s \in Slots : SlotOK(s) => SlotOK(s)'
  BY <1>1 DEF SlotOK, Holding
<1>4. OneHolder'
  BY <1>1 DEF IInv, OneHolder, Holding
<1>5. \A c \in Copies : Safe(c) => Safe(c)'
  BY <1>1 DEF Safe, Superseded
<1> QED BY <1>1, <1>2, <1>3, <1>4, <1>5 DEF IInv, SlotsOK, Owing

\* A copy nobody holds moves without any task noticing.
LEMMA CopyMovesKeepsSlots ==
  ASSUME IInv, NEW c \in Copies, where[c] # "held", UNCHANGED <<task, outcome>>,
         \A d \in Copies : d # c => where'[d] = where[d] /\ count'[d] = count[d]
  PROVE  SlotsOK' /\ OneHolder'
<1>1. \A s \in Slots : Holding(s) => task[s].copy # c /\ task[s].copy \in Copies
  BY DEF IInv, SlotsOK, SlotOK, Holding
<1>2. \A s \in Slots : SlotOK(s)'
  BY <1>1 DEF IInv, SlotsOK, SlotOK, Holding
<1> QED BY <1>2 DEF SlotsOK, OneHolder, IInv, Holding

LEMMA BrokerSettlesKeeps ==
  ASSUME IInv, NEW c \in Copies, BrokerSettles(c)
  PROVE  IInv'
<1>1. /\ where[c] = "acking" /\ UNCHANGED <<task, outcome>>
      /\ where' = [where EXCEPT ![c] = "gone"] /\ count' = [count EXCEPT ![c] = 0]
  BY DEF BrokerSettles, Remove
<1>2. TypeOK'
  BY <1>1, BoundAssumption DEF BrokerSettles, IInv, TypeOK, Places
<1>3. \A d \in Copies : d # c => where'[d] = where[d] /\ count'[d] = count[d]
  BY <1>1 DEF IInv, TypeOK
<1>4. \A d \in Copies : Safe(d) => Safe(d)'
  BY <1>1, <1>3 DEF Safe, Superseded
<1> QED BY <1>1, <1>2, <1>3, <1>4, CopyMovesKeepsSlots DEF IInv, Owing

LEMMA RetryHopKeeps ==
  ASSUME IInv, NEW c \in Copies, RetryHop(c)
  PROVE  IInv'
<1>1. /\ where[c] = "retry" /\ UNCHANGED <<task, outcome, count>>
      /\ where' = [where EXCEPT ![c] = "ready"]
  BY DEF RetryHop
<1>2. TypeOK'
  BY <1>1 DEF RetryHop, IInv, TypeOK, Places
<1>3. \A d \in Copies : d # c => where'[d] = where[d] /\ count'[d] = count[d]
  BY <1>1 DEF IInv, TypeOK
<1>4. where'[c] = "ready"
  BY <1>1 DEF IInv, TypeOK
<1>5. \A d \in Copies : Safe(d) => Safe(d)'
  BY <1>1, <1>3, <1>4 DEF Safe, Superseded
<1> QED BY <1>1, <1>2, <1>3, <1>5, CopyMovesKeepsSlots DEF IInv, Owing

LEMMA HopDropsKeeps ==
  ASSUME IInv, NEW c \in Copies, HopDrops(c)
  PROVE  IInv'
<1>1. /\ where[c] = "retry" /\ UNCHANGED task /\ Fault
      /\ where' = [where EXCEPT ![c] = "gone"] /\ count' = [count EXCEPT ![c] = 0]
      /\ outcome' = Add(outcome, MsgOf(c), "dropped")
  BY DEF HopDrops, Remove
<1>2. /\ outcome' \in [Msgs -> SUBSET Reasons] /\ outcome'[MsgOf(c)] # {}
      /\ OutcomesKept
  BY <1>1 DEF Add, OutcomesKept, IInv, TypeOK, Reasons
<1>3. TypeOK'
  BY <1>1, <1>2, BoundAssumption, FaultType DEF HopDrops, IInv, TypeOK, Places
<1>4. \A d \in Copies : d # c => where'[d] = where[d] /\ count'[d] = count[d]
  BY <1>1 DEF IInv, TypeOK
<1>5. SlotsOK' /\ OneHolder'
  <2>1. \A s \in Slots : Holding(s) => task[s].copy # c /\ task[s].copy \in Copies
    BY <1>1 DEF IInv, SlotsOK, SlotOK, Holding
  <2>2. \A s \in Slots : task[s].copy \in Copies => MsgOf(task[s].copy) \in Msgs
    OBVIOUS
  <2>3. \A s \in Slots : SlotOK(s)'
    BY <1>1, <1>2, <1>4, <2>1, <2>2 DEF IInv, SlotsOK, SlotOK, Holding, OutcomesKept
  <2> QED BY <1>1, <2>3 DEF SlotsOK, OneHolder, IInv, Holding
<1>6. \A d \in Copies : Safe(d) /\ d # c => Safe(d)'
  BY <1>1, <1>4 DEF Safe, Superseded
<1>7. Owing'
  BY <1>2, <1>6 DEF Owing, IInv, OutcomesKept
<1> QED BY <1>3, <1>5, <1>7 DEF IInv

\* Nobody holds anything on a closed channel, and everything unsettled is ready.
LEMMA LossKeeps ==
  ASSUME IInv, task' \in [Slots -> Task], UNCHANGED <<count, outcome>>, where' = Requeued,
         \A s \in Slots : /\ ~task'[s].live
                          /\ \/ task'[s] = Idle
                             \/ /\ task'[s].pc = task[s].pc /\ task'[s].copy = task[s].copy
                                /\ task'[s].why = task[s].why
  PROVE  where' \in [Copies -> Places] /\ SlotsOK' /\ OneHolder' /\ Owing'
<1>1. where' \in [Copies -> Places]
  BY DEF Requeued, IInv, TypeOK, Places
<1>2. \A s \in Slots : SlotOK(s)'
  BY DEF IInv, SlotsOK, SlotOK, Holding, Idle
<1>3. \A c \in Copies : Safe(c) => Safe(c)'
  BY DEF Safe, Superseded, Requeued
<1> QED BY <1>1, <1>2, <1>3 DEF SlotsOK, OneHolder, Holding, Owing, IInv

LEMMA ChannelLossKeeps ==
  ASSUME IInv, ChannelLoss
  PROVE  IInv'
<1>1. task' \in [Slots -> Task] /\ \A s \in Slots :
        /\ ~task'[s].live /\ task'[s].pc = task[s].pc /\ task'[s].copy = task[s].copy
        /\ task'[s].why = task[s].why
  <2>1. \A t \in Task : LET u == [t EXCEPT !.live = FALSE] IN
          u \in Task /\ ~u.live /\ u.pc = t.pc /\ u.copy = t.copy /\ u.why = t.why
    BY DEF Task
  <2>2. task \in [Slots -> Task] /\ task' = [s \in Slots |-> [task[s] EXCEPT !.live = FALSE]]
    BY DEF ChannelLoss, IInv, TypeOK
  <2> QED
    BY <2>1, <2>2
<1>2. where' \in [Copies -> Places] /\ SlotsOK' /\ OneHolder' /\ Owing'
  BY <1>1, LossKeeps DEF ChannelLoss
<1>3. causes' \in [Msgs -> SUBSET Causes] /\ faults' \in 0..MaxFaults
  BY FaultType DEF ChannelLoss, Died, IInv, TypeOK, Causes
<1>4. TypeOK'
  BY <1>1, <1>2, <1>3 DEF ChannelLoss, IInv, TypeOK
<1> QED BY <1>2, <1>4 DEF IInv

LEMMA CrashKeeps ==
  ASSUME IInv, Crash
  PROVE  IInv'
<1>1. task' \in [Slots -> Task] /\ \A s \in Slots : ~task'[s].live /\ task'[s] = Idle
  BY IdleIsTask DEF Crash, Idle
<1>2. where' \in [Copies -> Places] /\ SlotsOK' /\ OneHolder' /\ Owing'
  BY <1>1, LossKeeps DEF Crash
<1>3. causes' \in [Msgs -> SUBSET Causes] /\ faults' \in 0..MaxFaults
  BY FaultType DEF Crash, Died, IInv, TypeOK, Causes
<1>4. TypeOK'
  BY <1>1, <1>2, <1>3 DEF Crash, IInv, TypeOK
<1> QED BY <1>2, <1>4 DEF IInv

\* A step that leaves the broker, the tasks and the records alone.
LEMMA ReopenKeeps ==
  ASSUME IInv, Reopen \/ UNCHANGED vars
  PROVE  IInv'
<1>1. UNCHANGED <<where, count, task, faults, fails, starts, answered, outcome, causes>>
      /\ open' \in BOOLEAN
  BY DEF Reopen, vars, IInv, TypeOK
<1>2. TypeOK'
  BY <1>1 DEF IInv, TypeOK
<1> QED BY <1>1, <1>2 DEF IInv, SlotsOK, SlotOK, OneHolder, Holding, Owing, Safe,
           Superseded

--------------------------------------------------------------------------------
(***************************************************************************)
(* Nothing sticks.  NoStuckDelivery is inductive once the task that attends *)
(* a held copy is known to hold it, provided that no stream producer raises *)
(* CancelledError unasked.                                                  *)
(***************************************************************************)

Attended == \A c \in Copies : where[c] = "held" =>
              \E s \in Slots : task[s].copy = c /\ Holding(s)

\* A late acker's task keeps its delivery in hand.
Carries(s) == LateAck => task'[s].copy = task[s].copy /\ task'[s].live = task[s].live

NoneTaken == \A c \in Copies : where'[c] = "held" => where[c] = "held"

\* Attention survives a task that keeps its copy, or puts it out of "held".
LEMMA AttentionKept ==
  ASSUME Attended, NEW s \in Slots, NoneTaken, \A t \in Slots \ {s} : task'[t] = task[t],
         Holding(s) => \/ where'[task[s].copy] # "held"
                       \/ Holding(s)' /\ task'[s].copy = task[s].copy
  PROVE  Attended'
<1> SUFFICES ASSUME NEW c \in Copies, where'[c] = "held"
             PROVE  \E t \in Slots : task'[t].copy = c /\ Holding(t)'
  BY DEF Attended
<1>1. PICK t \in Slots : task[t].copy = c /\ Holding(t)
  BY DEF Attended, NoneTaken
<1>2. CASE t = s
  BY <1>1, <1>2
<1>3. CASE t # s
  BY <1>1, <1>3 DEF Holding
<1> QED BY <1>2, <1>3

\* An early acker's task holds nothing once its handler runs.
LEMMA CarryingAttends ==
  ASSUME Attended, NEW s \in Slots, NoneTaken, \A t \in Slots \ {s} : task'[t] = task[t],
         task[s].pc # "early", Carries(s)
  PROVE  Attended'
  BY AttentionKept DEF Carries, Holding

LEMMA FinishOthers ==
  ASSUME TypeOK, NEW s \in Slots, Finish(s)
  PROVE  task'[s] = Idle /\ \A t \in Slots \ {s} : task'[t] = task[t]
  BY DEF Finish, TypeOK

LEMMA GotoCarries ==
  ASSUME TypeOK, NEW s \in Slots, NEW step, Goto(s, step)
  PROVE  Carries(s) /\ \A t \in Slots \ {s} : task'[t] = task[t]
  BY DEF Goto, TypeOK, Carries, Task

LEMMA ConcludeCarries ==
  ASSUME TypeOK, NEW s \in Slots, NEW why, Conclude(s, why)
  PROVE  Carries(s) /\ \A t \in Slots \ {s} : task'[t] = task[t]
<1>1. CASE LateAck
  BY <1>1 DEF Conclude, GotoWhy, TypeOK, Carries, Task
<1>2. CASE ~LateAck
  BY <1>2, FinishOthers DEF Conclude, Carries
<1> QED BY <1>1, <1>2

LEMMA FailedCarries ==
  ASSUME TypeOK, NEW s \in Slots, NEW cause, Failed(s, cause)
  PROVE  Carries(s) /\ \A t \in Slots \ {s} : task'[t] = task[t]
<1>1. CASE task[s].cancelled
  BY <1>1, ConcludeCarries DEF Failed
<1>2. CASE ~task[s].cancelled
  <2>1. PICK step, why : GotoWhy(s, step, why)
    BY <1>2 DEF Failed, Climb
  <2> QED BY <2>1 DEF GotoWhy, TypeOK, Carries, Task
<1> QED BY <1>1, <1>2

LEMMA StoredTakesNone ==
  ASSUME TypeOK, NEW s \in Slots, NEW place \in Places \ {"held"}, NEW n, Stored(s,
         place, n)
  PROVE  NoneTaken
  BY DEF Stored, NoneTaken, TypeOK

LEMMA TaskAttends ==
  ASSUME ~ProducerCancels, IInv, Attended, NEW s \in Slots, TaskStep(s)
  PROVE  Attended'
<1>1. TypeOK
  BY DEF IInv
<1>2. CASE AckEarly(s) /\ task[s].live
  <2>1. where' = [where EXCEPT ![task[s].copy] = "acking"] /\ Goto(s, "run")
    BY <1>2 DEF AckEarly
  <2>2. task[s].copy \in Copies
    BY <1>2, WorksForMsg DEF AckEarly, At
  <2>3. NoneTaken /\ where'[task[s].copy] # "held"
    BY <1>1, <2>1, <2>2 DEF NoneTaken, TypeOK
  <2> QED BY <1>1, <2>1, <2>3, GotoCarries, AttentionKept
<1>3. CASE AckEarly(s) /\ ~task[s].live
  <2>1. NoneTaken /\ Goto(s, "recover")
    BY <1>3 DEF AckEarly, NoneTaken
  <2> QED BY <1>1, <1>3, <2>1, GotoCarries, AttentionKept DEF Holding
<1>4. CASE HandlerReturns(s)
  <2>1. NoneTaken /\ task[s].pc = "run" /\ (Goto(s, "reply") \/ Conclude(s, "done"))
    BY <1>4 DEF HandlerReturns, At, NoneTaken
  <2> QED BY <1>1, <2>1, GotoCarries, ConcludeCarries, CarryingAttends
<1>5. ASSUME NEW cause \in {"failed", "handled"}, HandlerFails(s, cause) PROVE Attended'
  <2>1. NoneTaken /\ task[s].pc \in {"run", "reply"} /\ Failed(s, cause)
    BY <1>5 DEF HandlerFails, At, NoneTaken
  <2> QED BY <1>1, <2>1, FailedCarries, CarryingAttends
<1>6. CASE StreamStops(s)
  <2>1. NoneTaken /\ task[s].pc = "reply" /\ Conclude(s, "cancelled")
    BY <1>6 DEF StreamStops, At, NoneTaken
  <2> QED BY <1>1, <2>1, ConcludeCarries, CarryingAttends
<1>7. ~ProducerCancelsItself(s)
  BY DEF ProducerCancelsItself
<1>8. CASE ReplyConfirmed(s)
  <2>1. NoneTaken /\ task[s].pc = "reply" /\ Conclude(s, "done")
    BY <1>8 DEF ReplyConfirmed, At, NoneTaken
  <2> QED BY <1>1, <2>1, ConcludeCarries, CarryingAttends
<1>9. ASSUME NEW cause \in {"ambiguous", "reply"}, ReplyFails(s, cause) PROVE Attended'
  <2>1. NoneTaken /\ task[s].pc = "reply" /\ Failed(s, cause)
    BY <1>9 DEF ReplyFails, At, NoneTaken
  <2> QED BY <1>1, <2>1, FailedCarries, CarryingAttends
<1>10. CASE AnswerError(s)
  <2>1. NoneTaken /\ task[s].pc = "answer"
    BY <1>10 DEF AnswerError, At, NoneTaken
  <2>2. CASE ~LateAck
    <3>1. Finish(s)
      BY <1>10, <2>2 DEF AnswerError
    <3> QED BY <1>1, <2>1, <2>2, <3>1, FinishOthers, CarryingAttends DEF Carries
  <2>3. CASE LateAck
    <3>1. PICK step : Goto(s, step)
      BY <1>10, <2>3 DEF AnswerError
    <3> QED BY <1>1, <2>1, <3>1, GotoCarries, CarryingAttends
  <2> QED BY <2>2, <2>3
<1>11. CASE ParkConfirmed(s) \/ ParkFails(s)
  <2>1. task[s].pc = "park" /\ (Goto(s, "settle") \/ Goto(s, "recover"))
    BY <1>11 DEF ParkConfirmed, ParkFails, At
  <2>2. NoneTaken
    BY <1>1, <1>11, StoredTakesNone DEF ParkConfirmed, ParkFails, Places, NoneTaken
  <2> QED BY <1>1, <2>1, <2>2, GotoCarries, CarryingAttends
<1>12. CASE BuryConfirmed(s) \/ BuryFails(s)
  <2>1. task[s].pc = "bury" /\ (Goto(s, "settle") \/ Goto(s, "recover"))
    BY <1>12 DEF BuryConfirmed, BuryFails, At
  <2>2. NoneTaken
    BY <1>1, <1>12, StoredTakesNone DEF BuryConfirmed, BuryFails, Places, NoneTaken
  <2> QED BY <1>1, <2>1, <2>2, GotoCarries, CarryingAttends
<1>13. CASE Settle(s) \/ Requeue(s)
  <2>1. /\ task[s].pc # "idle" /\ Finish(s)
        /\ where' = where \/ where' = [where EXCEPT ![task[s].copy] = "acking"]
                          \/ where' = [where EXCEPT ![task[s].copy] = "ready"]
        /\ task[s].live => where' # where \/ where[task[s].copy] # "held"
    <3>1. task[s].copy \in Copies
      BY <1>13, WorksForMsg DEF Settle, Requeue, At
    <3> QED BY <1>1, <1>13, <3>1 DEF Settle, Requeue, At, TypeOK
  <2>2. task[s].copy \in Copies
    BY <2>1, WorksForMsg
  <2>3. NoneTaken /\ (task[s].live => where'[task[s].copy] # "held")
    BY <1>1, <2>1, <2>2 DEF NoneTaken, TypeOK
  <2> QED BY <1>1, <2>1, <2>3, FinishOthers, AttentionKept DEF Holding
<1> QED BY <1>2, <1>3, <1>4, <1>5, <1>6, <1>7, <1>8, <1>9, <1>10, <1>11, <1>12, <1>13
        DEF TaskStep

LEMMA NextAttends ==
  ASSUME ~ProducerCancels
  PROVE  IInv /\ Attended /\ [Next]_vars => Attended'
<1> SUFFICES ASSUME IInv, Attended, [Next]_vars PROVE Attended'
  OBVIOUS
<1>1. TypeOK
  BY DEF IInv
<1>2. ASSUME NEW s \in Slots, TaskStep(s) PROVE Attended'
  BY <1>2, TaskAttends
<1>3. ASSUME NEW s \in Slots, NEW c \in Copies, Deliver(s, c) PROVE Attended'
  <2>1. /\ task'[s].copy = c /\ task'[s].live
        /\ LateAck \/ task'[s].pc = "early"
        /\ \A t \in Slots \ {s} : task'[t] = task[t]
    BY <1>1, <1>3 DEF Deliver, TypeOK, Idle
  <2>2. ~task[s].live
    BY <1>3 DEF Deliver, At, IInv, SlotsOK, SlotOK
  <2>3. \A d \in Copies : d # c => where'[d] = where[d]
    BY <1>1, <1>3 DEF Deliver, TypeOK
  <2>4. ASSUME NEW d \in Copies, d # c, where'[d] = "held"
        PROVE  \E t \in Slots : task'[t].copy = d /\ Holding(t)'
    <3>1. PICK t \in Slots : task[t].copy = d /\ Holding(t)
      BY <2>3, <2>4 DEF Attended
    <3>2. t # s
      BY <2>2, <3>1 DEF Holding
    <3> QED BY <2>1, <3>1, <3>2 DEF Holding
  <2> QED BY <2>1, <2>4 DEF Attended, Holding
<1>4. ASSUME NEW m \in Msgs, CallerCancels(m) PROVE Attended'
  <2> DEFINE entries == {s \in Slots : ~task[s].pc \in {"idle", "early", "recover"} /\ Of(s) = m}
  <2>1. /\ task' = [s \in Slots |-> IF s \in entries THEN [task[s] EXCEPT !.cancelled = TRUE]
                                                      ELSE task[s]]
        /\ where' = where
    BY <1>4 DEF CallerCancels
  <2>2. \A s \in Slots : task[s] \in Task
    BY <1>1 DEF TypeOK
  <2> HIDE DEF entries
  <2>3. ASSUME NEW s \in Slots
        PROVE  task'[s].copy = task[s].copy /\ task'[s].live = task[s].live
               /\ task'[s].pc = task[s].pc
    <3>1. CASE s \in entries
      <4>1. task'[s] = [task[s] EXCEPT !.cancelled = TRUE]
        BY <2>1, <3>1
      <4> QED BY <4>1, <2>2 DEF Task
    <3>2. CASE s \notin entries
      BY <2>1, <3>2
    <3> QED BY <3>1, <3>2
  <2> QED BY <2>1, <2>3 DEF Attended, Holding
<1>5. ASSUME NEW c \in Copies, BrokerStep(c) PROVE Attended'
  <2>1. NoneTaken /\ task' = task
    BY <1>1, <1>5 DEF BrokerStep, BrokerSettles, RetryHop, HopDrops, Remove, NoneTaken,
       TypeOK
  <2> QED BY <2>1 DEF Attended, NoneTaken, Holding
<1>6. CASE ChannelLoss \/ Crash
  <2>1. \A c \in Copies : where'[c] # "held"
    BY <1>6 DEF ChannelLoss, Crash, Requeued
  <2> QED BY <2>1 DEF Attended
<1>7. CASE Reopen \/ UNCHANGED vars
  BY <1>7 DEF Reopen, vars, Attended, Holding
<1> QED BY <1>2, <1>3, <1>4, <1>5, <1>6, <1>7 DEF Next

--------------------------------------------------------------------------------
(* The inductive invariant is one. *)

LEMMA InitHolds == Init => IInv
<1> SUFFICES ASSUME Init PROVE IInv
  OBVIOUS
<1>1. TypeOK
  BY IdleIsTask, BoundAssumption DEF Init, TypeOK, Places
<1>2. \A s \in Slots : task[s] = Idle
  BY DEF Init
<1>3. SlotsOK /\ OneHolder
  BY <1>2 DEF SlotsOK, SlotOK, OneHolder, Holding, Idle
<1>4. Owing
  <2> SUFFICES ASSUME NEW m \in Msgs
               PROVE  \E c \in Copies : MsgOf(c) = m /\ Safe(c)
    BY DEF Owing
  <2>1. <<m, 1>> \in Copies /\ MsgOf(<<m, 1>>) = m
    BY BoundAssumption
  <2>2. where[<<m, 1>>] = "ready"
    BY <2>1 DEF Init
  <2> QED BY <1>2, <2>1, <2>2 DEF Safe, Superseded, Idle
<1> QED BY <1>1, <1>3, <1>4 DEF IInv

LEMMA NextKeeps == IInv /\ [Next]_vars => IInv'
<1> SUFFICES ASSUME IInv, [Next]_vars PROVE IInv'
  OBVIOUS
<1>1. ASSUME NEW s \in Slots, TaskStep(s) PROVE IInv'
  BY <1>1, AckEarlyKeeps, HandlerReturnsKeeps, HandlerFailsKeeps, StreamStopsKeeps,
     ProducerCancelsItselfKeeps, ReplyConfirmedKeeps, ReplyFailsKeeps, AnswerErrorKeeps,
     ParkConfirmedKeeps, ParkFailsKeeps, BuryConfirmedKeeps, BuryFailsKeeps, SettleKeeps,
     RequeueKeeps DEF TaskStep
<1>2. ASSUME NEW s \in Slots, NEW c \in Copies, Deliver(s, c) PROVE IInv'
  BY <1>2, DeliverKeeps
<1>3. ASSUME NEW m \in Msgs, CallerCancels(m) PROVE IInv'
  BY <1>3, CallerCancelsKeeps
<1>4. ASSUME NEW c \in Copies, BrokerStep(c) PROVE IInv'
  BY <1>4, BrokerSettlesKeeps, RetryHopKeeps, HopDropsKeeps DEF BrokerStep
<1>5. CASE ChannelLoss
  BY <1>5, ChannelLossKeeps
<1>6. CASE Crash
  BY <1>6, CrashKeeps
<1>7. CASE Reopen \/ UNCHANGED vars
  BY <1>7, ReopenKeeps
<1> QED BY <1>1, <1>2, <1>3, <1>4, <1>5, <1>6, <1>7 DEF Next

\* What cancel_stream leaves alone of every task.
LEMMA CancelMarks ==
  ASSUME IInv, NEW m \in Msgs, CallerCancels(m), NEW s \in Slots
  PROVE  /\ task'[s] \in Task
         /\ task'[s].pc = task[s].pc /\ task'[s].copy = task[s].copy
         /\ task'[s].live = task[s].live /\ task'[s].why = task[s].why
<1> DEFINE entries == {t \in Slots : ~task[t].pc \in {"idle", "early", "recover"} /\ Of(t) = m}
<1>1. task' = [t \in Slots |-> IF t \in entries THEN [task[t] EXCEPT !.cancelled = TRUE]
                                                ELSE task[t]]
  BY DEF CallerCancels
<1>2. task[s] \in Task
  BY DEF IInv, TypeOK
<1> HIDE DEF entries
<1>3. CASE s \in entries
  <2>1. task'[s] = [task[s] EXCEPT !.cancelled = TRUE]
    BY <1>1, <1>3
  <2> QED BY <2>1, <1>2 DEF Task
<1>4. CASE s \notin entries
  <2>1. task'[s] = task[s]
    BY <1>1, <1>4
  <2> QED BY <2>1, <1>2
<1> QED BY <1>3, <1>4

--------------------------------------------------------------------------------
(***************************************************************************)
(* What is let go had a reason.  Both halves of SettledForAReason need to   *)
(* know what a task has seen by the step it is at: a verdict of "done" was  *)
(* reached past the reply, and a task on its way to the retry queue or the  *)
(* dead-letter queue has counted its own failure, on top of those its       *)
(* copy's header counts.  No header counts more failures than there were.   *)
(***************************************************************************)

Justified(s) ==
  /\ task[s].pc = "settle" /\ task[s].why = "done" /\ Of(s) \in Callers =>
       "result" \in answered[Of(s)]
  /\ LateAck /\ task[s].live /\ task[s].pc = "park" =>
       count[task[s].copy] < fails[Of(s)]
  /\ LateAck /\ task[s].live /\ task[s].pc \in {"answer", "bury"} /\ task[s].why = "buried" =>
       fails[Of(s)] > MaxRetries

CountsFit == \A c \in Copies :
  /\ count[c] <= fails[MsgOf(c)]
  /\ where[c] = "dlq" => fails[MsgOf(c)] > MaxRetries

ReasonInv == (\A s \in Slots : Justified(s)) /\ CountsFit /\ DoneMeansAnswered

\* History only grows.
Grows == \A m \in Msgs : fails[m] <= fails'[m] /\ answered[m] \subseteq answered'[m]

HeldCountsKept == \A c \in Copies : where[c] = "held" => count'[c] = count[c]

\* No header counts up, and nothing is dead-lettered.
NoneBuried == \A c \in Copies :
  count'[c] <= count[c] /\ (where'[c] = "dlq" => where[c] = "dlq")

NoneDone == \A m \in Msgs : "done" \in outcome'[m] => "done" \in outcome[m]

\* A task keeps its justification while others, or the caller, act.
LEMMA JustifiedKept ==
  ASSUME IInv, TypeOK', NEW t \in Slots, Justified(t), HeldCountsKept, Grows,
         task'[t].pc = task[t].pc, task'[t].copy = task[t].copy,
         task'[t].why = task[t].why, task'[t].live => task[t].live
  PROVE  Justified(t)'
<1>1. CASE task[t].pc = "idle"
  BY <1>1 DEF Justified
<1>2. CASE task[t].pc # "idle"
  <2>1. /\ task[t].copy \in Copies /\ Of(t) \in Msgs /\ Of(t)' = Of(t)
        /\ LateAck /\ task[t].live => where[task[t].copy] = "held"
    BY <1>2, WorksForMsg DEF SlotOK, Holding, Of
  <2>2. /\ fails[Of(t)] \in Int /\ fails'[Of(t)] \in Int /\ fails[Of(t)] <= fails'[Of(t)]
        /\ answered[Of(t)] \subseteq answered'[Of(t)]
        /\ LateAck /\ task[t].live => count'[task[t].copy] = count[task[t].copy]
        /\ count[task[t].copy] \in Int /\ MaxRetries \in Int
    BY <2>1, BoundAssumption DEF Grows, HeldCountsKept, IInv, TypeOK
  <2> QED BY <2>1, <2>2 DEF Justified
<1> QED BY <1>1, <1>2

LEMMA CountsKept ==
  ASSUME IInv, TypeOK', CountsFit, NoneBuried, Grows
  PROVE  CountsFit'
<1> SUFFICES ASSUME NEW c \in Copies
             PROVE  /\ count'[c] <= fails'[MsgOf(c)]
                    /\ where'[c] = "dlq" => fails'[MsgOf(c)] > MaxRetries
  BY DEF CountsFit
<1>1. /\ count'[c] \in Int /\ count[c] \in Int /\ MaxRetries \in Int
      /\ fails[MsgOf(c)] \in Int /\ fails'[MsgOf(c)] \in Int
  BY BoundAssumption DEF IInv, TypeOK
<1>2. /\ count'[c] <= count[c] /\ fails[MsgOf(c)] <= fails'[MsgOf(c)]
      /\ where'[c] = "dlq" => where[c] = "dlq"
      /\ count[c] <= fails[MsgOf(c)] /\ (where[c] = "dlq" => fails[MsgOf(c)] > MaxRetries)
  BY CopyOfMsg DEF NoneBuried, Grows, CountsFit
<1> QED BY <1>1, <1>2

LEMMA AnswersKept ==
  ASSUME DoneMeansAnswered, NoneDone, Grows
  PROVE  DoneMeansAnswered'
  BY MsgsAssumption DEF DoneMeansAnswered, NoneDone, Grows

\* A step of one task that buries nothing and settles nothing as done.
LEMMA TaskMoveKeepsReasons ==
  ASSUME IInv, TypeOK', ReasonInv, NEW s \in Slots,
         \A t \in Slots \ {s} : task'[t] = task[t],
         HeldCountsKept, NoneBuried, NoneDone, Grows, Justified(s)'
  PROVE  ReasonInv'
<1>1. ASSUME NEW t \in Slots PROVE Justified(t)'
  <2>1. CASE t = s
    BY <2>1
  <2>2. CASE t # s
    BY <2>2, JustifiedKept DEF ReasonInv
  <2> QED BY <2>1, <2>2
<1> QED BY <1>1, CountsKept, AnswersKept DEF ReasonInv

LEMMA SameCounts ==
  ASSUME IInv, UNCHANGED <<where, count, outcome>>
  PROVE  HeldCountsKept /\ NoneBuried /\ NoneDone
  BY DEF IInv, TypeOK, HeldCountsKept, NoneBuried, NoneDone

LEMMA SameHistory ==
  ASSUME IInv, UNCHANGED <<fails, answered>>
  PROVE  Grows
  BY DEF IInv, TypeOK, Grows

\* A task that ends owes no justification.
LEMMA FinishJustifies ==
  ASSUME IInv, NEW s \in Slots, Finish(s)
  PROVE  Justified(s)' /\ \A t \in Slots \ {s} : task'[t] = task[t]
<1>1. task'[s] = Idle /\ \A t \in Slots \ {s} : task'[t] = task[t]
  BY FinishOthers DEF IInv
<1> QED BY <1>1 DEF Justified, Idle

LEMMA ConcludeJustifies ==
  ASSUME IInv, NEW s \in Slots, task[s].pc # "idle", NEW why \in {"done", "cancelled"},
         Conclude(s, why), why = "done" /\ Of(s) \in Callers => "result" \in answered'[Of(s)]
  PROVE  Justified(s)' /\ \A t \in Slots \ {s} : task'[t] = task[t]
<1>1. CASE ~LateAck
  BY <1>1, FinishJustifies DEF Conclude
<1>2. CASE LateAck
  <2>1. /\ task'[s] = [task[s] EXCEPT !.pc = "settle", !.why = why]
        /\ \A t \in Slots \ {s} : task'[t] = task[t]
    BY <1>2 DEF Conclude, GotoWhy, IInv, TypeOK
  <2>2. task[s] \in Task
    BY WorksForMsg
  <2>3. task'[s].pc = "settle" /\ task'[s].why = why /\ Of(s)' = Of(s)
    BY <2>1, <2>2 DEF Task, Of
  <2> QED BY <2>1, <2>3 DEF Justified
<1> QED BY <1>1, <1>2

LEMMA FailedJustifies ==
  ASSUME IInv, ReasonInv, NEW s \in Slots, task[s].pc # "idle", NEW cause,
         Failed(s, cause), UNCHANGED count
  PROVE  /\ Justified(s)' /\ \A t \in Slots \ {s} : task'[t] = task[t]
         /\ \A m \in Msgs : fails[m] <= fails'[m]
<1>1. /\ task[s] \in Task /\ task[s].copy \in Copies /\ Of(s) \in Msgs
      /\ fails \in [Msgs -> 0..(MaxRetries + 1)] /\ MaxRetries \in Nat
      /\ count[task[s].copy] \in 0..MaxRetries /\ count[task[s].copy] <= fails[Of(s)]
  BY WorksForMsg, BoundAssumption DEF IInv, TypeOK, ReasonInv, CountsFit, Of
<1>2. CASE task[s].cancelled
  <2>1. Conclude(s, "cancelled") /\ fails' = fails
    BY <1>2 DEF Failed
  <2>2. \A m \in Msgs : fails[m] <= fails'[m]
    BY <1>1, <2>1
  <2> QED BY <2>1, <2>2, ConcludeJustifies
<1>3. CASE ~task[s].cancelled
  <2>1. /\ Climb(s, cause)
        /\ fails' = IF task[s].live THEN CountUp(fails, Of(s), MaxRetries + 1) ELSE fails
    BY <1>3 DEF Failed
  <2>2. /\ \A m \in Msgs : fails[m] <= fails'[m]
        /\ task[s].live => fails'[Of(s)] > count[task[s].copy]
    BY <1>1, <2>1 DEF CountUp
  <2>3. PICK step \in {"answer", "park"}, why \in Verdicts :
          /\ GotoWhy(s, step, why)
          /\ LateAck /\ why = "buried" => count[task[s].copy] >= MaxRetries
    BY <1>1, <2>1 DEF Climb, Verdicts
  <2>4. /\ task'[s] = [task[s] EXCEPT !.pc = step, !.why = why]
        /\ \A t \in Slots \ {s} : task'[t] = task[t]
    BY <2>3 DEF GotoWhy, IInv, TypeOK
  <2>5. /\ task'[s].pc = step /\ task'[s].why = why /\ Of(s)' = Of(s)
        /\ task'[s].live = task[s].live /\ task'[s].copy = task[s].copy
    BY <1>1, <2>4 DEF Task, Of
  <2>6. LateAck /\ task[s].live /\ why = "buried" => fails'[Of(s)] > MaxRetries
    <3>1. fails' \in [Msgs -> Int]
      BY <1>1, <2>1 DEF CountUp
    <3> QED BY <1>1, <2>2, <2>3, <3>1
  <2>7. Justified(s)'
    BY <2>2, <2>5, <2>6 DEF Justified
  <2> QED BY <2>2, <2>4, <2>7
<1> QED BY <1>2, <1>3

\* A task that goes on is justified at its next step by what it knew.
LEMMA GotoJustifies ==
  ASSUME IInv, ReasonInv, NEW s \in Slots, task[s].pc # "idle", NEW step \in Steps,
         Goto(s, step), UNCHANGED fails, step \notin {"park", "answer"},
         step = "settle" => task[s].why # "done",
         step = "bury" => task[s].pc = "answer"
  PROVE  Justified(s)' /\ \A t \in Slots \ {s} : task'[t] = task[t]
<1>1. /\ task'[s] = [task[s] EXCEPT !.pc = step]
      /\ \A t \in Slots \ {s} : task'[t] = task[t]
  BY DEF Goto, IInv, TypeOK
<1>2. task[s] \in Task /\ Justified(s)
  BY WorksForMsg DEF ReasonInv
<1>3. /\ task'[s].pc = step /\ task'[s].why = task[s].why /\ Of(s)' = Of(s)
      /\ task'[s].live = task[s].live
  BY <1>1, <1>2 DEF Task, Of
<1> QED BY <1>1, <1>2, <1>3 DEF Justified

\* A copy stored with a header and in a place its message has earned.
LEMMA StoredReasons ==
  ASSUME IInv, TypeOK', ReasonInv, NEW s \in Slots, Of(s) \in Msgs, NEW place, NEW n,
         Stored(s, place, n), UNCHANGED fails, n <= fails[Of(s)],
         place = "dlq" => fails[Of(s)] > MaxRetries
  PROVE  HeldCountsKept /\ CountsFit'
<1>1. PICK c \in Copies : /\ MsgOf(c) = Of(s) /\ where[c] = "gone"
                          /\ where' = [where EXCEPT ![c] = place]
                          /\ count' = [count EXCEPT ![c] = n]
  BY DEF Stored, Fresh
<1>2. \A d \in Copies : d # c => where'[d] = where[d] /\ count'[d] = count[d]
  BY <1>1 DEF IInv, TypeOK
<1>3. where'[c] = place /\ count'[c] = n
  BY <1>1 DEF IInv, TypeOK
<1>4. HeldCountsKept
  BY <1>1, <1>2 DEF HeldCountsKept
<1>5. CountsFit'
  BY <1>1, <1>2, <1>3 DEF CountsFit, ReasonInv
<1> QED BY <1>4, <1>5

LEMMA StoringKeepsReasons ==
  ASSUME IInv, TypeOK', ReasonInv, NEW s \in Slots, task[s].pc # "idle", NEW place, NEW n,
         Stored(s, place, n), UNCHANGED <<fails, answered>>, n <= fails[Of(s)],
         place = "dlq" => fails[Of(s)] > MaxRetries, NoneDone,
         NEW step \in {"settle", "recover"}, Goto(s, step), task[s].why # "done"
  PROVE  ReasonInv'
<1>1. HeldCountsKept /\ CountsFit'
  BY WorksForMsg, StoredReasons
<1>2. Justified(s)' /\ \A t \in Slots \ {s} : task'[t] = task[t]
  BY GotoJustifies DEF Steps
<1>3. Grows
  BY SameHistory
<1>4. ASSUME NEW t \in Slots PROVE Justified(t)'
  <2>1. CASE t # s
    BY <1>1, <1>2, <1>3, <2>1, JustifiedKept DEF ReasonInv
  <2> QED BY <1>2, <2>1
<1> QED BY <1>1, <1>3, <1>4, AnswersKept DEF ReasonInv

LEMMA TaskKeepsReasons ==
  ASSUME IInv, IInv', ReasonInv, NEW s \in Slots, TaskStep(s)
  PROVE  ReasonInv'
<1>1. TypeOK'
  BY DEF IInv
<1>2. CASE AckEarly(s)
  <2>1. /\ task[s].pc = "early" /\ UNCHANGED <<count, fails, answered, outcome>>
        /\ Goto(s, "run") \/ Goto(s, "recover")
    BY <1>2 DEF AckEarly, At
  <2>2. Justified(s)' /\ \A t \in Slots \ {s} : task'[t] = task[t]
    BY <2>1, GotoJustifies DEF Steps
  <2>3. HeldCountsKept /\ NoneDone
    BY <2>1 DEF HeldCountsKept, NoneDone
  <2>4. NoneBuried
    <3>1. task[s].copy \in Copies
      BY <2>1, WorksForMsg
    <3> QED BY <1>2, <2>1, <3>1 DEF AckEarly, NoneBuried, IInv, TypeOK
  <2> QED BY <1>1, <2>1, <2>2, <2>3, <2>4, SameHistory, TaskMoveKeepsReasons
<1>3. CASE HandlerReturns(s)
  <2>1. /\ task[s].pc = "run" /\ UNCHANGED <<where, count, fails, answered, outcome>>
        /\ IF Of(s) \in Callers THEN Goto(s, "reply") ELSE Conclude(s, "done")
    BY <1>3 DEF HandlerReturns, At
  <2>2. Justified(s)' /\ \A t \in Slots \ {s} : task'[t] = task[t]
    BY <2>1, GotoJustifies, ConcludeJustifies DEF Steps
  <2> QED BY <1>1, <2>1, <2>2, SameCounts, SameHistory, TaskMoveKeepsReasons
<1>4. ASSUME NEW cause \in {"failed", "handled"}, HandlerFails(s, cause) PROVE ReasonInv'
  <2>1. /\ task[s].pc # "idle" /\ UNCHANGED <<where, count, answered, outcome>>
        /\ Failed(s, cause)
    BY <1>4 DEF HandlerFails, At
  <2>2. /\ Justified(s)' /\ \A t \in Slots \ {s} : task'[t] = task[t]
        /\ \A m \in Msgs : fails[m] <= fails'[m]
    BY <2>1, FailedJustifies
  <2>3. Grows
    BY <2>1, <2>2 DEF Grows
  <2> QED BY <1>1, <2>1, <2>2, <2>3, SameCounts, TaskMoveKeepsReasons
<1>5. CASE StreamStops(s)
  <2>1. /\ task[s].pc = "reply" /\ UNCHANGED <<where, count, fails, answered, outcome>>
        /\ Conclude(s, "cancelled")
    BY <1>5 DEF StreamStops, At
  <2>2. Justified(s)' /\ \A t \in Slots \ {s} : task'[t] = task[t]
    BY <2>1, ConcludeJustifies
  <2> QED BY <1>1, <2>1, <2>2, SameCounts, SameHistory, TaskMoveKeepsReasons
<1>6. CASE ProducerCancelsItself(s)
  <2>1. UNCHANGED <<where, count, fails, answered, outcome>> /\ Finish(s)
    BY <1>6 DEF ProducerCancelsItself
  <2>2. Justified(s)' /\ \A t \in Slots \ {s} : task'[t] = task[t]
    BY <2>1, FinishJustifies
  <2> QED BY <1>1, <2>1, <2>2, SameCounts, SameHistory, TaskMoveKeepsReasons
<1>7. CASE ReplyConfirmed(s)
  <2>1. /\ task[s].pc = "reply" /\ UNCHANGED <<where, count, fails, outcome>>
        /\ Conclude(s, "done") /\ answered' = Add(answered, Of(s), "result")
    BY <1>7 DEF ReplyConfirmed, At
  <2>2. "result" \in answered'[Of(s)] /\ \A m \in Msgs : answered[m] \subseteq answered'[m]
    BY <2>1, WorksForMsg DEF Add, IInv, TypeOK
  <2>3. Justified(s)' /\ \A t \in Slots \ {s} : task'[t] = task[t]
    BY <2>1, <2>2, ConcludeJustifies
  <2>4. Grows
    BY <2>1, <2>2 DEF Grows, IInv, TypeOK
  <2> QED BY <1>1, <2>1, <2>3, <2>4, SameCounts, TaskMoveKeepsReasons
<1>8. ASSUME NEW cause \in {"ambiguous", "reply"}, ReplyFails(s, cause) PROVE ReasonInv'
  <2>1. /\ task[s].pc = "reply" /\ UNCHANGED <<where, count, outcome>> /\ Failed(s, cause)
        /\ \/ UNCHANGED answered
           \/ answered' = Add(answered, Of(s), "result")
    BY <1>8 DEF ReplyFails, At
  <2>2. \A m \in Msgs : answered[m] \subseteq answered'[m]
    BY <2>1, WorksForMsg DEF Add, IInv, TypeOK
  <2>3. /\ Justified(s)' /\ \A t \in Slots \ {s} : task'[t] = task[t]
        /\ \A m \in Msgs : fails[m] <= fails'[m]
    BY <2>1, FailedJustifies
  <2>4. Grows
    BY <2>2, <2>3 DEF Grows
  <2> QED BY <1>1, <2>1, <2>3, <2>4, SameCounts, TaskMoveKeepsReasons
<1>9. CASE AnswerError(s)
  <2>1. /\ task[s].pc = "answer" /\ UNCHANGED <<where, count, fails, outcome>>
        /\ \/ UNCHANGED answered
           \/ answered' = Add(answered, Of(s), "error")
    BY <1>9 DEF AnswerError, At
  <2>2. Grows
    BY <2>1, WorksForMsg DEF Grows, Add, IInv, TypeOK
  <2>3. Justified(s)' /\ \A t \in Slots \ {s} : task'[t] = task[t]
    <3>1. CASE ~LateAck
      BY <1>9, <3>1, FinishJustifies DEF AnswerError
    <3>2. CASE LateAck
      <4>1. task[s].why # "done" /\ (Goto(s, "bury") \/ Goto(s, "settle"))
        BY <1>9, <2>1, <3>2, WorksForMsg DEF AnswerError, SlotOK
      <4> QED BY <2>1, <4>1, GotoJustifies DEF Steps
    <3> QED BY <3>1, <3>2
  <2> QED BY <1>1, <2>1, <2>2, <2>3, SameCounts, TaskMoveKeepsReasons
<1>10. ASSUME task[s].pc \in {"park", "bury"}, Goto(s, "recover"),
              UNCHANGED <<where, count, fails, answered, outcome>>
       PROVE  ReasonInv'
  <2>1. Justified(s)' /\ \A t \in Slots \ {s} : task'[t] = task[t]
    BY <1>10, GotoJustifies DEF Steps
  <2> QED BY <1>1, <1>10, <2>1, SameCounts, SameHistory, TaskMoveKeepsReasons
<1>11. ASSUME task[s].pc = "park", task[s].live, NEW step \in {"settle", "recover"},
              Goto(s, step), Stored(s, "retry", count[task[s].copy] + 1),
              UNCHANGED <<fails, answered, outcome>>
       PROVE  ReasonInv'
  <2>1. count[task[s].copy] < fails[Of(s)] /\ task[s].why = "parked"
    BY <1>11, WorksForMsg DEF ReasonInv, Justified, SlotOK
  <2>2. count[task[s].copy] + 1 <= fails[Of(s)]
    BY <1>11, <2>1, WorksForMsg, BoundAssumption DEF IInv, TypeOK
  <2> QED BY <1>1, <1>11, <2>1, <2>2, StoringKeepsReasons DEF NoneDone
<1>12. ASSUME task[s].pc = "bury", task[s].live, NEW step \in {"settle", "recover"},
              Goto(s, step), Stored(s, "dlq", count[task[s].copy]),
              UNCHANGED <<fails, answered>>, outcome' = Add(outcome, Of(s), "dead")
       PROVE  ReasonInv'
  <2>1. fails[Of(s)] > MaxRetries /\ task[s].why = "buried"
    BY <1>12, WorksForMsg DEF ReasonInv, Justified, SlotOK
  <2>2. count[task[s].copy] <= fails[Of(s)]
    BY <1>12, WorksForMsg DEF ReasonInv, CountsFit, Of
  <2>3. NoneDone
    BY <1>12, WorksForMsg DEF NoneDone, Add, IInv, TypeOK
  <2> QED BY <1>1, <1>12, <2>1, <2>2, <2>3, StoringKeepsReasons
<1>13. CASE ParkConfirmed(s)
  BY <1>11, <1>13 DEF ParkConfirmed, At
<1>14. CASE ParkFails(s)
  BY <1>10, <1>11, <1>14 DEF ParkFails, At
<1>15. CASE BuryConfirmed(s)
  BY <1>12, <1>15 DEF BuryConfirmed, At
<1>16. CASE BuryFails(s)
  BY <1>10, <1>12, <1>16 DEF BuryFails, At
<1>17. CASE Settle(s)
  <2>1. task[s].pc = "settle" /\ Finish(s) /\ UNCHANGED <<count, fails, answered>>
    BY <1>17 DEF Settle, At
  <2>2. task[s].copy \in Copies /\ Of(s) \in Msgs /\ Justified(s)
    BY <2>1, WorksForMsg DEF ReasonInv
  <2>3. Justified(s)' /\ \A t \in Slots \ {s} : task'[t] = task[t]
    BY <2>1, FinishJustifies
  <2>4. HeldCountsKept
    BY <2>1 DEF HeldCountsKept
  <2>5. NoneBuried
    BY <1>17, <2>1, <2>2 DEF Settle, NoneBuried, IInv, TypeOK
  <2>6. Grows
    BY <2>1, SameHistory
  <2>7. \A t \in Slots : Justified(t)'
    BY <1>1, <2>3, <2>4, <2>6, JustifiedKept DEF ReasonInv
  <2>8. DoneMeansAnswered'
    <3> SUFFICES ASSUME NEW m \in Callers, "done" \in outcome'[m]
                 PROVE  "result" \in answered[m]
      BY <2>1 DEF DoneMeansAnswered
    <3>1. "done" \in outcome[m] \/ (m = Of(s) /\ task[s].why = "done")
      BY <1>17, <2>2, MsgsAssumption DEF Settle, Add, IInv, TypeOK
    <3> QED BY <2>1, <2>2, <3>1 DEF Justified, ReasonInv, DoneMeansAnswered
  <2> QED BY <1>1, <2>5, <2>6, <2>7, <2>8, CountsKept DEF ReasonInv
<1>18. CASE Requeue(s)
  <2>1. task[s].pc = "recover" /\ Finish(s) /\ UNCHANGED <<count, fails, answered, outcome>>
    BY <1>18 DEF Requeue, At
  <2>2. Justified(s)' /\ \A t \in Slots \ {s} : task'[t] = task[t]
    BY <2>1, FinishJustifies
  <2>3. HeldCountsKept /\ NoneDone
    BY <2>1 DEF HeldCountsKept, NoneDone
  <2>4. NoneBuried
    <3>1. task[s].copy \in Copies
      BY <2>1, WorksForMsg
    <3> QED BY <1>18, <2>1, <3>1 DEF Requeue, NoneBuried, IInv, TypeOK
  <2> QED BY <1>1, <2>1, <2>2, <2>3, <2>4, SameHistory, TaskMoveKeepsReasons
<1> QED BY <1>2, <1>3, <1>4, <1>5, <1>6, <1>7, <1>8, <1>9, <1>13, <1>14, <1>15, <1>16,
           <1>17, <1>18 DEF TaskStep

LEMMA NextKeepsReasons == IInv /\ ReasonInv /\ [Next]_vars => ReasonInv'
<1> SUFFICES ASSUME IInv, ReasonInv, [Next]_vars PROVE ReasonInv'
  OBVIOUS
<1>1. IInv' /\ TypeOK'
  BY NextKeeps DEF IInv
<1>2. ASSUME NEW s \in Slots, TaskStep(s) PROVE ReasonInv'
  BY <1>1, <1>2, TaskKeepsReasons
<1>3. ASSUME HeldCountsKept, NoneBuried, NoneDone, UNCHANGED <<fails, answered>>,
             \A t \in Slots : \/ task'[t].pc = "idle"
                              \/ /\ task'[t].pc = task[t].pc /\ task'[t].copy = task[t].copy
                                 /\ task'[t].why = task[t].why
                                 /\ task'[t].live => task[t].live
      PROVE  ReasonInv'
  <2>1. Grows
    BY <1>3, SameHistory
  <2>2. ASSUME NEW t \in Slots PROVE Justified(t)'
    <3>1. CASE task'[t].pc = "idle"
      BY <3>1 DEF Justified
    <3>2. CASE task'[t].pc # "idle"
      BY <1>1, <1>3, <2>1, <3>2, JustifiedKept DEF ReasonInv
    <3> QED BY <3>1, <3>2
  <2> QED BY <1>1, <1>3, <2>1, <2>2, CountsKept, AnswersKept DEF ReasonInv
<1>4. ASSUME NEW s \in Slots, NEW c \in Copies, Deliver(s, c) PROVE ReasonInv'
  <2>1. /\ UNCHANGED <<count, fails, answered, outcome>> /\ where[c] = "ready"
        /\ where' = [where EXCEPT ![c] = "held"]
        /\ task'[s].pc \in {"run", "early"}
        /\ \A t \in Slots \ {s} : task'[t] = task[t]
    BY <1>4 DEF Deliver, IInv, TypeOK, Idle
  <2>2. HeldCountsKept /\ NoneBuried /\ NoneDone
    BY <2>1 DEF HeldCountsKept, NoneBuried, NoneDone, IInv, TypeOK
  <2>3. Justified(s)'
    BY <2>1 DEF Justified
  <2> QED BY <1>1, <2>1, <2>2, <2>3, SameHistory, TaskMoveKeepsReasons
<1>5. ASSUME NEW m \in Msgs, CallerCancels(m) PROVE ReasonInv'
  <2>1. UNCHANGED <<where, count, fails, answered, outcome>>
    BY <1>5 DEF CallerCancels
  <2>2. \A t \in Slots : /\ task'[t].pc = task[t].pc /\ task'[t].copy = task[t].copy
                         /\ task'[t].live = task[t].live /\ task'[t].why = task[t].why
    BY <1>5, CancelMarks
  <2> QED BY <1>3, <2>1, <2>2, SameCounts
<1>6. ASSUME NEW c \in Copies, BrokerStep(c) PROVE ReasonInv'
  <2>1. /\ UNCHANGED <<task, fails, answered>> /\ NoneDone
        /\ where[c] # "held" /\ where'[c] # "dlq"
        /\ \A d \in Copies : d # c => where'[d] = where[d] /\ count'[d] = count[d]
        /\ count'[c] <= count[c]
    BY <1>6, BoundAssumption DEF BrokerStep, BrokerSettles, RetryHop, HopDrops, Remove,
       NoneDone, Add, IInv, TypeOK
  <2>2. HeldCountsKept /\ NoneBuried
    BY <2>1 DEF HeldCountsKept, NoneBuried, IInv, TypeOK
  <2> QED BY <1>3, <2>1, <2>2
<1>7. CASE ChannelLoss \/ Crash
  <2>1. /\ UNCHANGED <<count, fails, answered, outcome>> /\ where' = Requeued
    BY <1>7 DEF ChannelLoss, Crash
  <2>2. HeldCountsKept /\ NoneBuried /\ NoneDone
    BY <2>1 DEF HeldCountsKept, NoneBuried, NoneDone, Requeued, IInv, TypeOK
  <2>3. \A t \in Slots : \/ task'[t].pc = "idle"
                         \/ /\ task'[t].pc = task[t].pc /\ task'[t].copy = task[t].copy
                            /\ task'[t].why = task[t].why /\ ~task'[t].live
    BY <1>7 DEF ChannelLoss, Crash, Idle, IInv, TypeOK, Task
  <2> QED BY <1>3, <2>1, <2>2, <2>3
<1>8. CASE Reopen \/ UNCHANGED vars
  <2>1. UNCHANGED <<where, count, task, fails, answered, outcome>>
    BY <1>8 DEF Reopen, vars
  <2> QED BY <1>3, <2>1, SameCounts
<1> QED BY <1>2, <1>4, <1>5, <1>6, <1>7, <1>8 DEF Next

--------------------------------------------------------------------------------
(***************************************************************************)
(* The ladder implements AtLeastOnce.  A message is owed by its due copies; *)
(* a step either leaves every message that has one with one, which is a     *)
(* redelivery or a stutter, or takes one copy away and has, or records, a   *)
(* reason.  IInv supplies that a copy settled for good was a due one.       *)
(***************************************************************************)

Due(c) == where[c] \in {"ready", "held", "retry"} /\ ~Superseded(c)

LEMMA OwedIsDue ==
  /\ Owed \subseteq Msgs
  /\ \A c \in Copies : Due(c) => MsgOf(c) \in Owed
  /\ \A m \in Owed : \E c \in Copies : MsgOf(c) = m /\ Due(c)
  BY DEF Owed, CopiesOf, Due, Superseded

LEMMA OwedIsDueNext ==
  /\ Owed' \subseteq Msgs
  /\ \A c \in Copies : Due(c)' => MsgOf(c) \in Owed'
  /\ \A m \in Owed' : \E c \in Copies : MsgOf(c) = m /\ Due(c)'
  BY DEF Owed, CopiesOf, Due, Superseded

\* Messages stay owed, or become owed again.
LEMMA NobodyLetGo ==
  ASSUME UNCHANGED outcome,
         \A c \in Copies : Due(c) => \E d \in Copies : MsgOf(d) = MsgOf(c) /\ Due(d)'
  PROVE  Promise!Next
<1>1. Owed \subseteq Owed' /\ Owed' \subseteq Msgs
  BY OwedIsDue, OwedIsDueNext
<1>2. Owed' = Owed \cup Owed'
  BY <1>1
<1>3. Promise!Redeliver
  BY <1>1, <1>2 DEF Promise!Redeliver
<1> QED BY <1>3 DEF Promise!Next

\* One message may be let go.
LEMMA OneLetGo ==
  ASSUME NEW m \in Msgs,
         \A c \in Copies : MsgOf(c) # m => (Due(c)' <=> Due(c)),
         m \in Owed
  PROVE  Owed' = Owed \/ Owed' = Owed \ {m}
<1>1. \A x \in Msgs \ {m} : x \in Owed' <=> x \in Owed
  BY OwedIsDue, OwedIsDueNext
<1> QED BY <1>1, OwedIsDue, OwedIsDueNext

LEMMA Concludes ==
  ASSUME TypeOK, NEW m \in Msgs, NEW reason \in Reasons, m \in Owed,
         outcome' = Add(outcome, m, reason),
         \A c \in Copies : MsgOf(c) # m => (Due(c)' <=> Due(c))
  PROVE  Promise!Next
<1>1. Owed' = Owed \/ Owed' = Owed \ {m}
  BY OneLetGo
<1>2. Promise!Conclude(m, reason)
  BY <1>1 DEF Promise!Conclude, Add
<1> QED BY <1>2 DEF Promise!Next

\* A delivery in hand is due, unless its retry is stored.
LEMMA InHandIsDue ==
  ASSUME LateAck, IInv, NEW s \in Slots, task[s].live,
         ~(task[s].pc = "settle" /\ task[s].why = "parked")
  PROVE  task[s].copy \in Copies /\ Of(s) \in Msgs /\ Due(task[s].copy) /\ Of(s) \in Owed
<1>1. task[s].pc # "idle" /\ where[task[s].copy] = "held"
  BY DEF IInv, SlotsOK, SlotOK, Holding
<1>2. task[s].copy \in Copies /\ Of(s) \in Msgs
  BY <1>1, WorksForMsg
<1>3. ~Superseded(task[s].copy)
  BY DEF Superseded, IInv, OneHolder, Holding
<1> QED BY <1>1, <1>2, <1>3, OwedIsDue DEF Due, Of

\* A copy the broker has not delivered is superseded by nobody.
LEMMA UnheldIsDue ==
  ASSUME LateAck, IInv, NEW c \in Copies, where[c] # "held"
  PROVE  ~Superseded(c)
  BY DEF Superseded, IInv, SlotsOK, SlotOK, Holding

\* A task that does not come to ack a parked delivery lets nothing go.
LEMMA QuietMove ==
  ASSUME NEW s \in Slots, \A t \in Slots \ {s} : task'[t] = task[t], NotParked(s),
         UNCHANGED outcome,
         \A c \in Copies : where[c] \in {"ready", "held", "retry"} =>
                             where'[c] \in {"ready", "held", "retry"}
  PROVE  Promise!Next
<1>1. \A c \in Copies : Due(c) => Due(c)'
  BY DEF Due, Superseded, NotParked
<1> QED BY <1>1, NobodyLetGo

LEMMA StoredOnly ==
  ASSUME TypeOK, NEW s \in Slots, NEW place, NEW n, Stored(s, place, n)
  PROVE  \E d \in Copies : /\ MsgOf(d) = Of(s) /\ where[d] = "gone" /\ where'[d] = place
                           /\ \A c \in Copies : c # d => where'[c] = where[c]
<1>1. PICK d \in Copies : /\ MsgOf(d) = Of(s) /\ where[d] = "gone"
                          /\ where' = [where EXCEPT ![d] = place]
  BY DEF Stored, Fresh
<1>2. where'[d] = place /\ \A c \in Copies : c # d => where'[c] = where[c]
  BY <1>1 DEF TypeOK
<1> QED BY <1>1, <1>2

LEMMA ParkPromise ==
  ASSUME LateAck, IInv, NEW s \in Slots, task[s].pc = "park", task[s].live,
         UNCHANGED outcome,
         Stored(s, "retry", count[task[s].copy] + 1), Goto(s, "settle")
  PROVE  Promise!Next
<1>1. PICK d \in Copies : /\ MsgOf(d) = Of(s) /\ where[d] = "gone" /\ where'[d] = "retry"
                          /\ \A c \in Copies : c # d => where'[c] = where[c]
  BY StoredOnly DEF IInv
<1>2. /\ task'[s].copy = task[s].copy /\ \A t \in Slots \ {s} : task'[t] = task[t]
  BY DEF Goto, IInv, TypeOK, Task
<1>3. ASSUME NEW t \in Slots, task'[t].live PROVE task'[t].copy # d
  <2>1. task[t].live /\ task'[t].copy = task[t].copy
    BY <1>2, <1>3
  <2>2. where[task[t].copy] = "held"
    BY <2>1 DEF IInv, SlotsOK, SlotOK, Holding
  <2> QED BY <1>1, <2>1, <2>2
<1>4. Due(d)'
  BY <1>1, <1>3 DEF Due, Superseded
<1>5. ASSUME NEW c \in Copies, Due(c)
      PROVE  \E e \in Copies : MsgOf(e) = MsgOf(c) /\ Due(e)'
  <2>1. CASE c = task[s].copy
    BY <1>1, <1>4, <2>1 DEF Of
  <2>2. CASE c # task[s].copy
    <3>1. where'[c] = where[c]
      BY <1>1, <1>5 DEF Due
    <3>2. ~Superseded(c)'
      BY <1>2, <1>5, <2>2 DEF Due, Superseded
    <3> QED BY <1>5, <3>1, <3>2 DEF Due
  <2> QED BY <2>1, <2>2
<1> QED BY <1>5, NobodyLetGo

LEMMA BuryPromise ==
  ASSUME LateAck, IInv, NEW s \in Slots, task[s].pc = "bury", task[s].live,
         Stored(s, "dlq", count[task[s].copy]), outcome' = Add(outcome, Of(s), "dead"),
         NEW step \in {"settle", "recover"}, Goto(s, step)
  PROVE  Promise!Next
<1>1. PICK d \in Copies : /\ MsgOf(d) = Of(s)
                          /\ \A c \in Copies : c # d => where'[c] = where[c]
  BY StoredOnly DEF IInv
<1>2. Of(s) \in Msgs /\ Of(s) \in Owed /\ task[s].why = "buried"
  BY InHandIsDue, WorksForMsg DEF SlotOK
<1>3. /\ task'[s].copy = task[s].copy /\ task'[s].why = "buried"
      /\ \A t \in Slots \ {s} : task'[t] = task[t]
  BY <1>2 DEF Goto, IInv, TypeOK, Task
<1>4. \A c \in Copies : Superseded(c)' <=> Superseded(c)
  BY <1>2, <1>3 DEF Superseded
<1>5. \A c \in Copies : MsgOf(c) # Of(s) => (Due(c)' <=> Due(c))
  BY <1>1, <1>4 DEF Due
<1> QED BY <1>2, <1>5, Concludes DEF IInv, Reasons

LEMMA SettlePromise ==
  ASSUME LateAck, IInv, NEW s \in Slots, Settle(s)
  PROVE  Promise!Next
<1>1. task[s].pc = "settle" /\ Finish(s)
  BY DEF Settle, At
<1>2. task'[s] = Idle /\ \A t \in Slots \ {s} : task'[t] = task[t]
  BY <1>1, FinishOthers DEF IInv
<1>3. NotParked(s)
  BY <1>2 DEF NotParked, Idle
<1>4. CASE ~task[s].live
  <2>1. UNCHANGED <<where, outcome>>
    BY <1>4 DEF Settle
  <2> QED BY <1>2, <1>3, <2>1, QuietMove
<1>5. CASE task[s].live
  <2>1. /\ where' = [where EXCEPT ![task[s].copy] = "acking"]
        /\ outcome' = IF task[s].why \in Reasons THEN Add(outcome, Of(s), task[s].why)
                      ELSE outcome
    BY <1>5 DEF Settle
  <2>2. task[s].copy \in Copies /\ Of(s) \in Msgs /\ SlotOK(s)
    BY <1>1, WorksForMsg
  <2>3. \A c \in Copies : c # task[s].copy =>
          where'[c] = where[c] /\ (Superseded(c)' <=> Superseded(c))
    <3>1. ~task'[s].live
      BY <1>2 DEF Idle
    <3>2. \A c \in Copies : c # task[s].copy => (Superseded(c)' <=> Superseded(c))
      BY <1>2, <3>1 DEF Superseded
    <3>3. \A c \in Copies : c # task[s].copy => where'[c] = where[c]
      BY <2>1 DEF IInv, TypeOK
    <3> QED BY <3>2, <3>3
  <2>4. \A c \in Copies : c # task[s].copy => (Due(c)' <=> Due(c))
    BY <2>3 DEF Due
  <2>5. CASE task[s].why = "parked"
    <3>1. \A c \in Copies : Due(c) => c # task[s].copy
      BY <1>1, <1>5, <2>5 DEF Due, Superseded
    <3>2. UNCHANGED outcome
      BY <2>1, <2>5 DEF Reasons
    <3> QED BY <2>4, <3>1, <3>2, NobodyLetGo
  <2>6. CASE task[s].why \in Reasons
    <3>1. Of(s) \in Owed
      BY <1>5, <2>6, InHandIsDue DEF Reasons
    <3> QED BY <2>1, <2>2, <2>4, <2>6, <3>1, Concludes DEF IInv, Of
  <2>7. CASE task[s].why = "buried"
    <3>1. Of(s) \in Owed
      BY <1>5, <2>7, InHandIsDue
    <3>2. UNCHANGED outcome /\ outcome[Of(s)] # {}
      BY <1>1, <1>5, <2>1, <2>2, <2>7 DEF SlotOK, Reasons, Of
    <3>3. Owed' = Owed \/ Owed' = Owed \ {Of(s)}
      BY <2>2, <2>4, <3>1, OneLetGo DEF Of
    <3>4. CASE Owed' = Owed
      <4>1. Promise!Redeliver
        BY <3>2, <3>4, OwedIsDue DEF Promise!Redeliver
      <4> QED BY <4>1 DEF Promise!Next
    <3>5. CASE Owed' = Owed \ {Of(s)}
      <4>1. Promise!Release(Of(s))
        BY <3>1, <3>2, <3>5 DEF Promise!Release
      <4> QED BY <2>2, <4>1 DEF Promise!Next
    <3> QED BY <3>3, <3>4, <3>5
  <2> QED BY <1>1, <1>5, <2>2, <2>5, <2>6, <2>7 DEF SlotOK, Reasons
<1> QED BY <1>4, <1>5

LEMMA TaskPromise ==
  ASSUME LateAck, IInv, NEW s \in Slots, TaskStep(s)
  PROVE  Promise!Next
<1>1. ASSUME OneMoves(s), NotParked(s), UNCHANGED <<where, outcome>> PROVE Promise!Next
  BY <1>1, QuietMove DEF OneMoves
<1>2. ~AckEarly(s)
  BY DEF AckEarly, At, IInv, SlotsOK, SlotOK
<1>3. CASE HandlerReturns(s)
  <2>1. /\ task[s].pc = "run" /\ UNCHANGED <<where, count, outcome>>
        /\ Goto(s, "reply") \/ Conclude(s, "done")
    BY <1>3 DEF HandlerReturns, At
  <2>2. CASE Goto(s, "reply")
    <3>1. OneMoves(s) /\ task'[s] = [task[s] EXCEPT !.pc = "reply"] /\ task[s] \in Task
      BY <2>1, <2>2, GotoMoves, WorksForMsg DEF Steps
    <3>2. NotParked(s)
      BY <3>1 DEF NotParked, Task
    <3> QED BY <1>1, <2>1, <3>1, <3>2
  <2> QED BY <1>1, <2>1, <2>2, ConcludeMoves
<1>4. ASSUME NEW cause \in {"failed", "handled"}, HandlerFails(s, cause) PROVE Promise!Next
  <2>1. /\ task[s].pc \in {"run", "reply"} /\ UNCHANGED <<where, count, outcome>>
        /\ Failed(s, cause)
    BY <1>4 DEF HandlerFails, At
  <2> QED BY <1>1, <2>1, FailedMoves
<1>5. CASE StreamStops(s)
  <2>1. /\ task[s].pc = "reply" /\ UNCHANGED <<where, count, outcome>>
        /\ Conclude(s, "cancelled")
    BY <1>5 DEF StreamStops, At
  <2> QED BY <1>1, <2>1, ConcludeMoves
<1>6. CASE ProducerCancelsItself(s)
  <2>1. Finish(s) /\ UNCHANGED <<where, outcome>>
    BY <1>6 DEF ProducerCancelsItself
  <2> QED BY <1>1, <2>1, FinishMoves
<1>7. CASE ReplyConfirmed(s)
  <2>1. /\ task[s].pc = "reply" /\ UNCHANGED <<where, count, outcome>>
        /\ Conclude(s, "done")
    BY <1>7 DEF ReplyConfirmed, At
  <2> QED BY <1>1, <2>1, ConcludeMoves
<1>8. ASSUME NEW cause \in {"ambiguous", "reply"}, ReplyFails(s, cause) PROVE Promise!Next
  <2>1. /\ task[s].pc = "reply" /\ UNCHANGED <<where, count, outcome>> /\ Failed(s, cause)
    BY <1>8 DEF ReplyFails, At
  <2> QED BY <1>1, <2>1, FailedMoves
<1>9. ASSUME task[s].pc \in {"answer", "park", "bury"},
             NEW step \in {"settle", "bury", "recover"}, Goto(s, step), UNCHANGED outcome,
             \A c \in Copies : where[c] # "gone" => where'[c] = where[c],
             step = "settle" => task[s].why # "parked"
      PROVE  Promise!Next
  <2>1. OneMoves(s) /\ task'[s] = [task[s] EXCEPT !.pc = step] /\ task[s] \in Task
    BY <1>9, GotoMoves, WorksForMsg DEF Steps
  <2>2. NotParked(s) /\ \A t \in Slots \ {s} : task'[t] = task[t]
    BY <1>9, <2>1 DEF NotParked, OneMoves, Task
  <2> QED BY <1>9, <2>2, QuietMove
<1>10. CASE AnswerError(s)
  <2>1. /\ task[s].pc = "answer" /\ UNCHANGED <<where, outcome>>
        /\ Goto(s, "bury") \/ Goto(s, "settle")
    BY <1>10 DEF AnswerError, At
  <2>2. task[s].why # "parked"
    BY <2>1, WorksForMsg DEF SlotOK
  <2> QED BY <1>9, <2>1, <2>2
<1>11. CASE ParkConfirmed(s)
  BY <1>11, ParkPromise DEF ParkConfirmed, At
<1>12. CASE ParkFails(s)
  <2>1. /\ task[s].pc = "park" /\ UNCHANGED outcome /\ Goto(s, "recover")
        /\ UNCHANGED where \/ Stored(s, "retry", count[task[s].copy] + 1)
    BY <1>12 DEF ParkFails, At
  <2>2. \A c \in Copies : where[c] # "gone" => where'[c] = where[c]
    BY <2>1, StoredOnly DEF IInv
  <2> QED BY <1>9, <2>1, <2>2
<1>13. CASE BuryConfirmed(s)
  BY <1>13, BuryPromise DEF BuryConfirmed, At
<1>14. CASE BuryFails(s)
  <2>1. task[s].pc = "bury" /\ Goto(s, "recover")
    BY <1>14 DEF BuryFails, At
  <2>2. CASE UNCHANGED <<where, outcome>>
    BY <1>9, <2>1, <2>2
  <2>3. CASE /\ task[s].live /\ Stored(s, "dlq", count[task[s].copy])
             /\ outcome' = Add(outcome, Of(s), "dead")
    BY <2>1, <2>3, BuryPromise
  <2> QED BY <1>14, <2>2, <2>3 DEF BuryFails
<1>15. CASE Settle(s)
  BY <1>15, SettlePromise
<1>16. CASE Requeue(s)
  <2>1. task[s].pc = "recover" /\ Finish(s) /\ UNCHANGED outcome
    BY <1>16 DEF Requeue, At
  <2>2. OneMoves(s) /\ NotParked(s)
    BY <2>1, FinishMoves
  <2>3. \A c \in Copies : where[c] \in {"ready", "held", "retry"} =>
                            where'[c] \in {"ready", "held", "retry"}
    BY <1>16 DEF Requeue, IInv, TypeOK
  <2> QED BY <2>1, <2>2, <2>3, QuietMove DEF OneMoves
<1> QED BY <1>2, <1>3, <1>4, <1>5, <1>6, <1>7, <1>8, <1>10, <1>11, <1>12, <1>13, <1>14,
           <1>15, <1>16 DEF TaskStep

LEMMA NextKeepsPromise ==
  ASSUME LateAck
  PROVE  IInv /\ [Next]_vars => [Promise!Next]_(Promise!vars)
<1> SUFFICES ASSUME IInv, [Next]_vars PROVE [Promise!Next]_(Promise!vars)
  OBVIOUS
<1>1. ASSUME NEW s \in Slots, TaskStep(s) PROVE Promise!Next
  BY <1>1, TaskPromise
<1>2. ASSUME NEW s \in Slots, NEW c \in Copies, Deliver(s, c) PROVE Promise!Next
  <2>1. /\ UNCHANGED outcome /\ where' = [where EXCEPT ![c] = "held"]
        /\ task'[s].pc # "settle" /\ \A t \in Slots \ {s} : task'[t] = task[t]
    BY <1>2 DEF Deliver, IInv, TypeOK, Idle
  <2>2. NotParked(s)
    BY <2>1 DEF NotParked
  <2> QED BY <2>1, <2>2, QuietMove DEF IInv, TypeOK
<1>3. ASSUME NEW m \in Msgs, CallerCancels(m) PROVE Promise!Next
  <2>1. UNCHANGED <<where, outcome>>
    BY <1>3 DEF CallerCancels
  <2>2. \A t \in Slots : /\ task'[t].pc = task[t].pc /\ task'[t].copy = task[t].copy
                         /\ task'[t].live = task[t].live /\ task'[t].why = task[t].why
    BY <1>3, CancelMarks
  <2>3. \A c \in Copies : Due(c) => Due(c)'
    BY <2>1, <2>2 DEF Due, Superseded
  <2> QED BY <2>1, <2>3, NobodyLetGo
<1>4. ASSUME NEW c \in Copies, BrokerSettles(c) \/ RetryHop(c) PROVE Promise!Next
  <2>1. /\ UNCHANGED <<task, outcome>>
        /\ \A d \in Copies : where[d] \in {"ready", "held", "retry"} =>
                               where'[d] \in {"ready", "held", "retry"}
    BY <1>4 DEF BrokerSettles, RetryHop, Remove, IInv, TypeOK
  <2>2. \A d \in Copies : Due(d) => Due(d)'
    BY <2>1 DEF Due, Superseded
  <2> QED BY <2>1, <2>2, NobodyLetGo
<1>5. ASSUME NEW c \in Copies, HopDrops(c) PROVE Promise!Next
  <2>1. /\ where[c] = "retry" /\ UNCHANGED task
        /\ outcome' = Add(outcome, MsgOf(c), "dropped")
        /\ \A d \in Copies : d # c => where'[d] = where[d]
    BY <1>5 DEF HopDrops, Remove, IInv, TypeOK
  <2>2. MsgOf(c) \in Msgs /\ MsgOf(c) \in Owed
    BY <2>1, UnheldIsDue, OwedIsDue DEF Due
  <2>3. \A d \in Copies : MsgOf(d) # MsgOf(c) => (Due(d)' <=> Due(d))
    BY <2>1 DEF Due, Superseded
  <2> QED BY <2>1, <2>2, <2>3, Concludes DEF IInv, Reasons
<1>6. CASE ChannelLoss \/ Crash
  <2>1. UNCHANGED outcome /\ where' = Requeued /\ \A s \in Slots : ~task'[s].live
    BY <1>6 DEF ChannelLoss, Crash, Idle, IInv, TypeOK, Task
  <2>2. \A c \in Copies : Due(c) => Due(c)'
    BY <2>1 DEF Due, Superseded, Requeued
  <2> QED BY <2>1, <2>2, NobodyLetGo
<1>7. CASE Reopen \/ UNCHANGED vars
  <2>1. UNCHANGED <<where, task, outcome>>
    BY <1>7 DEF Reopen, vars
  <2>2. \A c \in Copies : Due(c) => Due(c)'
    BY <2>1 DEF Due, Superseded
  <2> QED BY <2>1, <2>2, NobodyLetGo
<1> QED BY <1>1, <1>2, <1>3, <1>4, <1>5, <1>6, <1>7 DEF Next, BrokerStep

--------------------------------------------------------------------------------
(***************************************************************************)
(* What a failing delivery comes to: it ends, is settled, climbs, or is     *)
(* answered; it climbs only for a cause that is now on record.              *)
(***************************************************************************)

Climbing(s) == task[s].live /\ \/ task[s].pc \in {"park", "bury", "recover"}
                               \/ task[s].pc = "answer" /\ task[s].why = "buried"

\* The task ends, or goes on with its copy at one of these steps.
GoesTo(s, steps) ==
  /\ \A t \in Slots \ {s} : task'[t] = task[t]
  /\ \/ task'[s] = Idle
     \/ /\ task'[s].pc \in steps
        /\ task'[s].copy = task[s].copy /\ task'[s].live = task[s].live

LEMMA FinishGoes ==
  ASSUME IInv, NEW s \in Slots, Finish(s), NEW steps
  PROVE  GoesTo(s, steps) /\ ~Climbing(s)'
<1>1. task'[s] = Idle /\ \A t \in Slots \ {s} : task'[t] = task[t]
  BY FinishOthers DEF IInv
<1>2. ~task'[s].live
  BY <1>1 DEF Idle
<1> QED BY <1>1, <1>2 DEF GoesTo, Climbing

LEMMA StillClimbing ==
  ASSUME NEW s \in Slots, NEW steps, GoesTo(s, steps), Climbing(s)'
  PROVE  /\ task'[s].copy = task[s].copy /\ Of(s)' = Of(s) /\ task[s].live
         /\ task'[s].pc \in steps
<1>1. task'[s].live
  BY DEF Climbing
<1>2. task'[s] # Idle
  BY <1>1 DEF Idle
<1>3. /\ task'[s].pc \in steps
      /\ task'[s].copy = task[s].copy /\ task'[s].live = task[s].live
  BY <1>2 DEF GoesTo
<1> QED BY <1>1, <1>3 DEF Of

LEMMA GotoGoes ==
  ASSUME IInv, NEW s \in Slots, NEW step \in Steps, Goto(s, step)
  PROVE  GoesTo(s, {step}) /\ task'[s].pc = step /\ task'[s].why = task[s].why
<1>1. /\ task'[s] = [task[s] EXCEPT !.pc = step] /\ task[s] \in Task
      /\ \A t \in Slots \ {s} : task'[t] = task[t]
  BY DEF Goto, IInv, TypeOK
<1>2. /\ task'[s].pc = step /\ task'[s].copy = task[s].copy
      /\ task'[s].live = task[s].live /\ task'[s].why = task[s].why
  BY <1>1 DEF Task
<1> QED BY <1>1, <1>2 DEF GoesTo

LEMMA GotoWhyGoes ==
  ASSUME IInv, NEW s \in Slots, NEW step \in Steps, NEW why \in Verdicts, GotoWhy(s,
         step, why)
  PROVE  GoesTo(s, {step}) /\ task'[s].pc = step /\ task'[s].why = why
<1>1. /\ task'[s] = [task[s] EXCEPT !.pc = step, !.why = why] /\ task[s] \in Task
      /\ \A t \in Slots \ {s} : task'[t] = task[t]
  BY DEF GotoWhy, IInv, TypeOK
<1>2. /\ task'[s].pc = step /\ task'[s].copy = task[s].copy
      /\ task'[s].live = task[s].live /\ task'[s].why = why
  BY <1>1 DEF Task
<1> QED BY <1>1, <1>2 DEF GoesTo

LEMMA ConcludeGoes ==
  ASSUME IInv, NEW s \in Slots, NEW why \in {"done", "cancelled"}, Conclude(s, why)
  PROVE  GoesTo(s, {"settle"}) /\ ~Climbing(s)'
<1>1. CASE LateAck
  <2>1. GoesTo(s, {"settle"}) /\ task'[s].pc = "settle"
    BY <1>1, GotoWhyGoes DEF Conclude, Steps, Verdicts
  <2> QED BY <2>1 DEF Climbing
<1>2. CASE ~LateAck
  BY <1>2, FinishGoes DEF Conclude
<1> QED BY <1>1, <1>2

LEMMA FailedGoes ==
  ASSUME IInv, NEW s \in Slots, NEW cause, Failed(s, cause)
  PROVE  /\ GoesTo(s, {"settle", "answer", "park"})
         /\ causes' = causes \/ causes' = Add(causes, Of(s), cause)
         /\ Climbing(s)' => /\ LateAck /\ cause # "handled"
                            /\ causes' = Add(causes, Of(s), cause)
<1>1. CASE task[s].cancelled
  <2>1. Conclude(s, "cancelled") /\ causes' = causes
    BY <1>1 DEF Failed
  <2>2. GoesTo(s, {"settle"}) /\ ~Climbing(s)'
    BY <2>1, ConcludeGoes
  <2> QED BY <2>1, <2>2 DEF GoesTo
<1>2. CASE ~task[s].cancelled
  <2>1. Climb(s, cause) /\ causes' = Add(causes, Of(s), cause)
    BY <1>2 DEF Failed
  <2>2. PICK step \in {"answer", "park"}, why \in Verdicts :
          /\ GotoWhy(s, step, why)
          /\ step = "park" \/ why = "buried" => LateAck /\ cause # "handled"
    BY <2>1 DEF Climb, Verdicts
  <2>3. GoesTo(s, {step}) /\ task'[s].pc = step /\ task'[s].why = why
    BY <2>2, GotoWhyGoes DEF Steps
  <2> QED BY <2>1, <2>2, <2>3 DEF GoesTo, Climbing
<1> QED BY <1>1, <1>2

--------------------------------------------------------------------------------
(***************************************************************************)
(* Reruns.  As long as nothing befell a message that lets it run again, it  *)
(* has one copy, which is not at rest in a ladder queue, and once it was    *)
(* started that copy never gets back to the head of the service queue.      *)
(***************************************************************************)

\* What lets a message run again has not happened to it.
Undisturbed(m) == IF LateAck THEN causes[m] \subseteq {"handled"} ELSE "died" \notin causes[m]

\* Where a copy of a message not started yet may be.
Unstarted(c) == where[c] = "ready" \/ (~LateAck /\ where[c] = "held")

OnceAt(c) ==
  /\ where[c] \notin {"retry", "dlq"}
  /\ Unstarted(c) => starts[MsgOf(c)] = 0

\* The message has one copy at most.
Alone(m) == \A c, d \in Copies :
  MsgOf(c) = m /\ where[c] # "gone" /\ MsgOf(d) = m /\ where[d] # "gone" => c = d

Once == \A m \in Msgs : Undisturbed(m) =>
  /\ starts[m] <= 1
  /\ Alone(m)
  /\ \A c \in Copies : MsgOf(c) = m => OnceAt(c)

Disturbed == \A s \in Slots : Climbing(s) => ~Undisturbed(Of(s))

RerunInv == Once /\ Disturbed

CausesKept == \A m \in Msgs : causes[m] \subseteq causes'[m]

LEMMA StaysDisturbed ==
  ASSUME CausesKept, NEW m \in Msgs, Undisturbed(m)'
  PROVE  Undisturbed(m)
  BY DEF CausesKept, Undisturbed

\* Runs of a message stay counted so long as its copies move on towards the end.
LEMMA OnceKept ==
  ASSUME Once, CausesKept, UNCHANGED starts,
         \A c \in Copies : Undisturbed(MsgOf(c))' =>
           /\ where[c] = "gone" => where'[c] = "gone"
           /\ where'[c] \in {"retry", "dlq"} => where'[c] = where[c]
           /\ Unstarted(c)' => Unstarted(c)
  PROVE  Once'
<1> SUFFICES ASSUME NEW m \in Msgs, Undisturbed(m)'
             PROVE  /\ starts'[m] <= 1
                    /\ Alone(m)'
                    /\ \A c \in Copies : MsgOf(c) = m => OnceAt(c)'
  BY DEF Once
<1>1. Undisturbed(m)
  BY StaysDisturbed
<1>2. Alone(m)'
  <2> SUFFICES ASSUME NEW c \in Copies, NEW d \in Copies, MsgOf(c) = m, where'[c] # "gone",
                      MsgOf(d) = m, where'[d] # "gone"
               PROVE  c = d
    BY DEF Alone
  <2>1. where[c] # "gone" /\ where[d] # "gone"
    BY DEF Undisturbed
  <2> QED BY <1>1, <2>1 DEF Once, Alone
<1>3. \A c \in Copies : MsgOf(c) = m => OnceAt(c)'
  BY <1>1 DEF Once, OnceAt
<1> QED BY <1>1, <1>2, <1>3 DEF Once

LEMMA DisturbedKept ==
  ASSUME IInv, Disturbed, CausesKept,
         \A s \in Slots : Climbing(s)' => /\ task'[s].copy = task[s].copy
                                          /\ Climbing(s) \/ ~Undisturbed(Of(s))'
  PROVE  Disturbed'
<1> SUFFICES ASSUME NEW s \in Slots, Climbing(s)' PROVE ~Undisturbed(Of(s))'
  BY DEF Disturbed
<1>1. CASE Climbing(s)
  <2>1. Of(s) \in Msgs /\ ~Undisturbed(Of(s))
    BY <1>1, WorksForMsg DEF Climbing, Disturbed
  <2>2. Of(s)' = Of(s)
    BY DEF Of
  <2>3. CausesKept => causes[Of(s)] \subseteq causes'[Of(s)]
    BY <2>1 DEF CausesKept
  <2> QED BY <2>1, <2>2, <2>3 DEF Undisturbed
<1>2. CASE ~Climbing(s)
  BY <1>2
<1> QED BY <1>1, <1>2

\* A task moves, and no copy comes back.
LEMMA MoveKeepsReruns ==
  ASSUME IInv, RerunInv, NEW s \in Slots, NEW steps, GoesTo(s, steps), CausesKept,
         Climbing(s)' => ~Undisturbed(Of(s))',
         UNCHANGED starts,
         \A c \in Copies : Undisturbed(MsgOf(c))' =>
           /\ where[c] = "gone" => where'[c] = "gone"
           /\ where'[c] \in {"retry", "dlq"} => where'[c] = where[c]
           /\ Unstarted(c)' => Unstarted(c)
  PROVE  RerunInv'
<1>1. Once'
  BY OnceKept DEF RerunInv
<1>2. ASSUME NEW t \in Slots, Climbing(t)'
      PROVE  /\ task'[t].copy = task[t].copy
             /\ Climbing(t) \/ ~Undisturbed(Of(t))'
  <2>1. CASE t = s
    BY <1>2, <2>1 DEF GoesTo, Climbing, Idle
  <2>2. CASE t # s
    BY <1>2, <2>2 DEF GoesTo, Climbing
  <2> QED BY <2>1, <2>2
<1> QED BY <1>1, <1>2, DisturbedKept DEF RerunInv

LEMMA AddedCauses ==
  ASSUME IInv, NEW m \in Msgs, NEW cause,
         causes' = causes \/ causes' = Add(causes, m, cause)
  PROVE  CausesKept
  BY DEF IInv, TypeOK, Add, CausesKept

LEMMA FailedKeepsReruns ==
  ASSUME IInv, RerunInv, NEW s \in Slots, task[s].pc # "idle",
         NEW cause \in {"failed", "handled", "ambiguous", "reply"}, Failed(s, cause),
         UNCHANGED <<where, starts>>
  PROVE  RerunInv'
<1>1. /\ GoesTo(s, {"settle", "answer", "park"})
      /\ causes' = causes \/ causes' = Add(causes, Of(s), cause)
      /\ Climbing(s)' => LateAck /\ cause # "handled" /\ causes' = Add(causes, Of(s), cause)
  BY FailedGoes
<1>2. Of(s) \in Msgs /\ CausesKept
  BY <1>1, WorksForMsg, AddedCauses
<1>3. ASSUME Climbing(s)' PROVE ~Undisturbed(Of(s))'
  <2>1. Of(s)' = Of(s)
    BY <1>1, <1>3, StillClimbing
  <2>2. cause \in causes'[Of(s)]
    BY <1>1, <1>2, <1>3 DEF Add, IInv, TypeOK
  <2> QED BY <1>1, <1>3, <2>1, <2>2 DEF Undisturbed
<1>4. \A c \in Copies : Unstarted(c)' => Unstarted(c)
  BY DEF Unstarted
<1> QED BY <1>1, <1>2, <1>3, <1>4, MoveKeepsReruns

\* A task that goes on quietly: no run, no cause, no copy.
LEMMA QuietKeepsReruns ==
  ASSUME IInv, RerunInv, NEW s \in Slots, NEW steps, GoesTo(s, steps),
         Climbing(s)' => Climbing(s), UNCHANGED <<where, starts, causes>>
  PROVE  RerunInv'
<1>1. CausesKept
  BY DEF CausesKept
<1>2. ASSUME Climbing(s)' PROVE ~Undisturbed(Of(s))'
  <2>1. Of(s)' = Of(s) /\ ~Undisturbed(Of(s))
    BY <1>2, StillClimbing DEF RerunInv, Disturbed
  <2> QED BY <2>1 DEF Undisturbed
<1>3. \A c \in Copies : Unstarted(c)' => Unstarted(c)
  BY DEF Unstarted
<1> QED BY <1>1, <1>2, <1>3, MoveKeepsReruns

\* A climbing task has something stored, or gives its delivery back.
LEMMA ClimbingKeepsReruns ==
  ASSUME IInv, RerunInv, NEW s \in Slots, Climbing(s), NEW steps, GoesTo(s, steps),
         UNCHANGED <<starts, causes>>,
         \A c \in Copies : MsgOf(c) # Of(s) => where'[c] = where[c]
  PROVE  RerunInv'
<1>1. CausesKept
  BY DEF CausesKept
<1>2. PICK m : m = Of(s)
  OBVIOUS
<1>3. ~Undisturbed(m) /\ ~Undisturbed(m)'
  BY <1>2 DEF RerunInv, Disturbed, Undisturbed
<1>4. Climbing(s)' => ~Undisturbed(Of(s))'
  <2>1. Climbing(s)' => Of(s)' = m
    BY <1>2, StillClimbing
  <2> QED BY <1>3, <2>1
<1>5. \A c \in Copies : Undisturbed(MsgOf(c))' => where'[c] = where[c]
  BY <1>2, <1>3
<1>6. \A c \in Copies : Undisturbed(MsgOf(c))' =>
        /\ where[c] = "gone" => where'[c] = "gone"
        /\ where'[c] \in {"retry", "dlq"} => where'[c] = where[c]
        /\ Unstarted(c)' => Unstarted(c)
  BY <1>5 DEF Unstarted
<1> QED BY <1>1, <1>4, <1>6, MoveKeepsReruns

LEMMA StartsOnce ==
  ASSUME IInv, RerunInv, NEW c \in Copies, Unstarted(c), CausesKept,
         starts' = CountUp(starts, MsgOf(c), 2),
         where'[c] \in {"held", "acking"}, LateAck \/ where'[c] = "acking",
         \A d \in Copies : d # c => where'[d] = where[d]
  PROVE  Once'
<1> SUFFICES ASSUME NEW m \in Msgs, Undisturbed(m)'
             PROVE  /\ starts'[m] <= 1
                    /\ Alone(m)'
                    /\ \A d \in Copies : MsgOf(d) = m => OnceAt(d)'
  BY DEF Once
<1>1. Undisturbed(m)
  BY StaysDisturbed
<1>2. where[c] # "gone" /\ ~Unstarted(c)'
  BY DEF Unstarted
<1>3. Alone(m)'
  BY <1>1, <1>2 DEF RerunInv, Once, Alone
<1>4. CASE MsgOf(c) = m
  <2>1. starts[m] = 0 /\ starts'[m] = 1
    BY <1>1, <1>4 DEF RerunInv, Once, OnceAt, CountUp, IInv, TypeOK
  <2>2. \A d \in Copies : MsgOf(d) = m /\ d # c => where'[d] = "gone"
    BY <1>1, <1>2, <1>4 DEF RerunInv, Once, Alone
  <2>3. \A d \in Copies : MsgOf(d) = m => OnceAt(d)'
    BY <1>2, <2>2 DEF OnceAt, Unstarted
  <2> QED BY <1>3, <2>1, <2>3
<1>5. CASE MsgOf(c) # m
  <2>1. starts'[m] = starts[m]
    BY <1>5 DEF CountUp, IInv, TypeOK
  <2>2. \A d \in Copies : MsgOf(d) = m => OnceAt(d)'
    BY <1>1, <1>5, <2>1 DEF OnceAt, Unstarted, RerunInv, Once
  <2> QED BY <1>1, <1>3, <2>1, <2>2 DEF RerunInv, Once
<1> QED BY <1>4, <1>5

LEMMA TaskKeepsReruns ==
  ASSUME IInv, RerunInv, NEW s \in Slots, TaskStep(s)
  PROVE  RerunInv'
<1>1. CASE AckEarly(s) /\ task[s].live
  <2>1. /\ task[s].pc = "early" /\ UNCHANGED causes /\ Goto(s, "run")
        /\ where' = [where EXCEPT ![task[s].copy] = "acking"]
        /\ starts' = CountUp(starts, MsgOf(task[s].copy), 2)
    BY <1>1 DEF AckEarly, At, Of
  <2>2. /\ task[s].copy \in Copies /\ ~LateAck /\ where[task[s].copy] = "held"
    BY <1>1, <2>1, WorksForMsg DEF SlotOK, Holding
  <2>3. /\ where'[task[s].copy] = "acking"
        /\ \A d \in Copies : d # task[s].copy => where'[d] = where[d]
    BY <2>1, <2>2 DEF IInv, TypeOK
  <2>4. CausesKept
    BY <2>1 DEF CausesKept
  <2>5. Once'
    BY <2>1, <2>2, <2>3, <2>4, StartsOnce DEF Unstarted
  <2>6. GoesTo(s, {"run"}) /\ ~Climbing(s)'
    BY <2>1, GotoGoes DEF Steps, Climbing
  <2>7. Disturbed'
    BY <2>4, <2>6, DisturbedKept DEF GoesTo, Climbing, RerunInv
  <2> QED BY <2>5, <2>7 DEF RerunInv
<1>2. CASE AckEarly(s) /\ ~task[s].live
  <2>1. UNCHANGED <<where, starts, causes>> /\ Goto(s, "recover")
    BY <1>2 DEF AckEarly
  <2>2. GoesTo(s, {"recover"}) /\ ~Climbing(s)'
    BY <1>2, <2>1, GotoGoes DEF Steps, Climbing, GoesTo, Idle
  <2> QED BY <2>1, <2>2, QuietKeepsReruns
<1>3. CASE HandlerReturns(s)
  <2>1. /\ UNCHANGED <<where, starts, causes>>
        /\ Goto(s, "reply") \/ Conclude(s, "done")
    BY <1>3 DEF HandlerReturns
  <2>2. CASE Goto(s, "reply")
    <3>1. GoesTo(s, {"reply"}) /\ ~Climbing(s)'
      BY <2>2, GotoGoes DEF Steps, Climbing
    <3> QED BY <2>1, <3>1, QuietKeepsReruns
  <2> QED BY <2>1, <2>2, ConcludeGoes, QuietKeepsReruns
<1>4. ASSUME NEW cause \in {"failed", "handled"}, HandlerFails(s, cause) PROVE RerunInv'
  BY <1>4, FailedKeepsReruns DEF HandlerFails, At
<1>5. CASE StreamStops(s)
  BY <1>5, ConcludeGoes, QuietKeepsReruns DEF StreamStops
<1>6. CASE ProducerCancelsItself(s)
  BY <1>6, FinishGoes, QuietKeepsReruns DEF ProducerCancelsItself
<1>7. CASE ReplyConfirmed(s)
  BY <1>7, ConcludeGoes, QuietKeepsReruns DEF ReplyConfirmed
<1>8. ASSUME NEW cause \in {"ambiguous", "reply"}, ReplyFails(s, cause) PROVE RerunInv'
  BY <1>8, FailedKeepsReruns DEF ReplyFails, At
<1>9. CASE AnswerError(s)
  <2>1. task[s].pc = "answer" /\ UNCHANGED <<where, starts, causes>>
    BY <1>9 DEF AnswerError, At
  <2>2. CASE ~LateAck
    BY <1>9, <2>1, <2>2, FinishGoes, QuietKeepsReruns DEF AnswerError
  <2>3. CASE LateAck
    <3>1. PICK step \in {"bury", "settle"} :
            Goto(s, step) /\ (step = "bury" => task[s].why = "buried")
      BY <1>9, <2>3 DEF AnswerError
    <3>2. GoesTo(s, {step}) /\ task'[s].pc = step
      BY <3>1, GotoGoes DEF Steps
    <3>3. Climbing(s)' => Climbing(s)
      BY <2>1, <3>1, <3>2, StillClimbing DEF Climbing
    <3> QED BY <2>1, <3>2, <3>3, QuietKeepsReruns
  <2> QED BY <2>2, <2>3
<1>10. ASSUME task[s].pc \in {"park", "bury"}, NEW step \in {"settle", "recover"},
              Goto(s, step), UNCHANGED <<starts, causes>>,
              \/ UNCHANGED where
              \/ task[s].live /\ \E place, n : Stored(s, place, n)
       PROVE  RerunInv'
  <2>1. GoesTo(s, {step}) /\ task'[s].pc = step
    BY <1>10, GotoGoes DEF Steps
  <2>2. CASE UNCHANGED where
    <3>1. Climbing(s)' => Climbing(s)
      BY <1>10, <2>1, StillClimbing DEF Climbing
    <3> QED BY <1>10, <2>1, <2>2, <3>1, QuietKeepsReruns
  <2>3. CASE task[s].live /\ \E place, n : Stored(s, place, n)
    <3>1. \A c \in Copies : MsgOf(c) # Of(s) => where'[c] = where[c]
      BY <2>3 DEF Stored, IInv, TypeOK
    <3>2. Climbing(s)
      BY <1>10, <2>3 DEF Climbing
    <3> QED BY <1>10, <2>1, <3>1, <3>2, ClimbingKeepsReruns
  <2> QED BY <1>10, <2>2, <2>3
<1>11. CASE ParkConfirmed(s)
  BY <1>10, <1>11 DEF ParkConfirmed, At
<1>12. CASE ParkFails(s)
  BY <1>10, <1>12 DEF ParkFails, At
<1>13. CASE BuryConfirmed(s)
  BY <1>10, <1>13 DEF BuryConfirmed, At
<1>14. CASE BuryFails(s)
  BY <1>10, <1>14 DEF BuryFails, At
<1>15. CASE Settle(s)
  <2>1. /\ task[s].pc = "settle" /\ UNCHANGED <<starts, causes>> /\ Finish(s)
        /\ where' = where \/ (task[s].live /\ where' = [where EXCEPT ![task[s].copy] = "acking"])
    BY <1>15 DEF Settle, At
  <2>2. task[s].copy \in Copies /\ (task[s].live => where[task[s].copy] = "held")
    BY <2>1, WorksForMsg DEF SlotOK, Holding
  <2>3. \A c \in Copies : /\ where[c] = "gone" => where'[c] = "gone"
                          /\ where'[c] \in {"retry", "dlq"} => where'[c] = where[c]
                          /\ Unstarted(c)' => Unstarted(c)
    BY <2>1, <2>2 DEF Unstarted, IInv, TypeOK
  <2>4. CausesKept
    BY <2>1 DEF CausesKept
  <2> QED BY <2>1, <2>3, <2>4, FinishGoes, MoveKeepsReruns
<1>16. CASE Requeue(s)
  <2>1. /\ task[s].pc = "recover" /\ UNCHANGED <<starts, causes>> /\ Finish(s)
        /\ where' = IF task[s].live THEN [where EXCEPT ![task[s].copy] = "ready"] ELSE where
    BY <1>16 DEF Requeue, At
  <2>2. CASE ~task[s].live
    BY <2>1, <2>2, FinishGoes, QuietKeepsReruns
  <2>3. CASE task[s].live
    <3>1. \A c \in Copies : MsgOf(c) # Of(s) => where'[c] = where[c]
      BY <2>1, <2>3, WorksForMsg DEF IInv, TypeOK, Of
    <3>2. Climbing(s)
      BY <2>1, <2>3 DEF Climbing
    <3> QED BY <2>1, <3>1, <3>2, FinishGoes, ClimbingKeepsReruns
  <2> QED BY <2>2, <2>3
<1> QED BY <1>1, <1>2, <1>3, <1>4, <1>5, <1>6, <1>7, <1>8, <1>9, <1>11, <1>12, <1>13,
           <1>14, <1>15, <1>16 DEF TaskStep

\* The broker requeues what a lost channel held, which is a cause on record.
LEMMA LossKeepsReruns ==
  ASSUME IInv, RerunInv, where' = Requeued, causes' = Died, UNCHANGED starts,
         \A s \in Slots : ~task'[s].live
  PROVE  RerunInv'
<1>1. /\ \A m \in Msgs : causes'[m] = IF m \in Reclaimed THEN causes[m] \cup {"died"}
                                       ELSE causes[m]
      /\ \A c \in Copies : where'[c] = IF where[c] \in {"held", "acking"} THEN "ready"
                                        ELSE where[c]
  BY DEF Died, Requeued
<1>2. CausesKept
  BY <1>1 DEF CausesKept
<1>3. ASSUME NEW c \in Copies, Undisturbed(MsgOf(c))' PROVE where'[c] = where[c]
  <2>1. MsgOf(c) \notin Reclaimed
    <3>1. MsgOf(c) \in Msgs /\ MsgOf(c)' = MsgOf(c)
      BY CopyOfMsg
    <3>2. "died" \notin causes'[MsgOf(c)]
      BY <1>3 DEF Undisturbed
    <3> QED BY <1>1, <3>1, <3>2
  <2>2. where[c] \notin {"held", "acking"}
    BY <2>1, CopyOfMsg DEF Reclaimed
  <2> QED BY <1>1, <2>2
<1>4. Once'
  BY <1>2, <1>3, OnceKept DEF RerunInv, Unstarted
<1>5. Disturbed'
  BY DEF Disturbed, Climbing
<1> QED BY <1>4, <1>5 DEF RerunInv

LEMMA NextKeepsReruns == IInv /\ RerunInv /\ [Next]_vars => RerunInv'
<1> SUFFICES ASSUME IInv, RerunInv, [Next]_vars PROVE RerunInv'
  OBVIOUS
<1>1. ASSUME NEW s \in Slots, TaskStep(s) PROVE RerunInv'
  BY <1>1, TaskKeepsReruns
<1>2. ASSUME NEW s \in Slots, NEW c \in Copies, Deliver(s, c) PROVE RerunInv'
  <2>1. /\ task[s].pc = "idle" /\ where[c] = "ready" /\ UNCHANGED causes
        /\ where'[c] = "held" /\ \A d \in Copies : d # c => where'[d] = where[d]
        /\ task'[s].pc \in {"run", "early"} /\ \A t \in Slots \ {s} : task'[t] = task[t]
        /\ starts' = IF LateAck THEN CountUp(starts, MsgOf(c), 2) ELSE starts
    BY <1>2 DEF Deliver, At, Idle, IInv, TypeOK
  <2>2. CausesKept
    BY <2>1 DEF CausesKept
  <2>3. Once'
    <3>1. CASE LateAck
      BY <2>1, <2>2, <3>1, StartsOnce DEF Unstarted
    <3>2. CASE ~LateAck
      <4>1. \A d \in Copies : /\ where[d] = "gone" => where'[d] = "gone"
                              /\ where'[d] \in {"retry", "dlq"} => where'[d] = where[d]
                              /\ Unstarted(d)' => Unstarted(d)
        BY <2>1, <3>2 DEF Unstarted
      <4> QED BY <2>1, <2>2, <3>2, <4>1, OnceKept DEF RerunInv
    <3> QED BY <3>1, <3>2
  <2>4. Disturbed'
    BY <2>1, <2>2, DisturbedKept DEF Climbing, RerunInv
  <2> QED BY <2>3, <2>4 DEF RerunInv
<1>3. ASSUME UNCHANGED <<where, starts, causes>>,
             \A s \in Slots : /\ task'[s].pc = task[s].pc /\ task'[s].copy = task[s].copy
                              /\ task'[s].live = task[s].live /\ task'[s].why = task[s].why
      PROVE  RerunInv'
  <2>1. CausesKept
    BY <1>3 DEF CausesKept
  <2>2. Once'
    BY <1>3, <2>1, OnceKept DEF RerunInv, Unstarted
  <2>3. Disturbed'
    BY <1>3, <2>1, DisturbedKept DEF RerunInv, Climbing
  <2> QED BY <2>2, <2>3 DEF RerunInv
<1>4. ASSUME NEW m \in Msgs, CallerCancels(m) PROVE RerunInv'
  <2>1. UNCHANGED <<where, starts, causes>>
    BY <1>4 DEF CallerCancels
  <2> QED BY <1>3, <1>4, <2>1, CancelMarks
<1>5. ASSUME NEW c \in Copies, BrokerStep(c) PROVE RerunInv'
  <2>1. /\ UNCHANGED <<task, starts, causes>>
        /\ \A d \in Copies : d # c => where'[d] = where[d]
        /\ where'[c] = "gone" \/ where[c] = "retry"
        /\ where'[c] \in {"gone", "ready"}
    BY <1>5 DEF BrokerStep, BrokerSettles, RetryHop, HopDrops, Remove, IInv, TypeOK
  <2>2. CausesKept
    BY <2>1 DEF CausesKept
  <2>3. Undisturbed(MsgOf(c))' => where[c] # "retry"
    BY <2>1, CopyOfMsg DEF Undisturbed, RerunInv, Once, OnceAt
  <2>4. \A d \in Copies : Undisturbed(MsgOf(d))' =>
          /\ where[d] = "gone" => where'[d] = "gone"
          /\ where'[d] \in {"retry", "dlq"} => where'[d] = where[d]
          /\ Unstarted(d)' => Unstarted(d)
    BY <2>1, <2>3 DEF Unstarted
  <2>5. Once'
    BY <2>1, <2>2, <2>4, OnceKept DEF RerunInv
  <2>6. Disturbed'
    BY <2>1, <2>2, DisturbedKept DEF RerunInv, Climbing
  <2> QED BY <2>5, <2>6 DEF RerunInv
<1>6. CASE ChannelLoss \/ Crash
  <2>1. where' = Requeued /\ causes' = Died /\ UNCHANGED starts
        /\ \A s \in Slots : ~task'[s].live
    BY <1>6 DEF ChannelLoss, Crash, Idle, IInv, TypeOK, Task
  <2> QED BY <2>1, LossKeepsReruns
<1>7. CASE Reopen \/ UNCHANGED vars
  BY <1>3, <1>7 DEF Reopen, vars
<1> QED BY <1>1, <1>2, <1>4, <1>5, <1>6, <1>7 DEF Next

LEMMA InitReruns == Init => RerunInv
<1> SUFFICES ASSUME Init PROVE RerunInv
  OBVIOUS
<1>1. Disturbed
  BY DEF Init, Disturbed, Climbing, Idle
<1>2. ASSUME NEW c \in Copies
      PROVE  /\ starts[MsgOf(c)] = 0 /\ where[c] \in {"ready", "gone"}
             /\ where[c] # "gone" => c = <<MsgOf(c), 1>>
  BY DEF Init
<1>3. \A m \in Msgs : starts[m] = 0
  BY DEF Init
<1>4. \A c \in Copies : OnceAt(c)
  BY <1>2 DEF OnceAt
<1>5. ASSUME NEW c \in Copies, NEW d \in Copies, MsgOf(c) = MsgOf(d),
             where[c] # "gone", where[d] # "gone"
      PROVE  c = d
  <2>1. c = <<MsgOf(c), 1>> /\ d = <<MsgOf(d), 1>>
    BY <1>2, <1>5
  <2> QED BY <1>5, <2>1
<1>6. Once
  BY <1>3, <1>4, <1>5 DEF Once, Alone
<1> QED BY <1>1, <1>6 DEF RerunInv

--------------------------------------------------------------------------------
(***************************************************************************)
(* Error replies are final.  Without a fault every task is alive, and a     *)
(* message has one due copy at most: the copy a retry publication stores    *)
(* becomes due as the parked one ceases to be.  So the task that answers    *)
(* with an error holds the last copy there is to run, and no task is left   *)
(* that could store another.                                                *)
(***************************************************************************)

AllAlive == \A s \in Slots : task[s].pc # "idle" => task[s].live /\ task[s].pc # "recover"

OneDue == \A c, d \in Copies : MsgOf(c) = MsgOf(d) /\ Due(c) /\ Due(d) => c = d

\* An early acker's copies are spent when its handler starts.
EarlySpent == ~LateAck => \A s \in Slots : task[s].pc \notin {"idle", "early"} =>
                \A c \in Copies : MsgOf(c) = Of(s) => ~Due(c)

\* The task may still fail, or store a retry.
Open(s) == task[s].pc \in {"run", "reply", "answer", "park"}

\* No further attempt is to come.
Finished(m) == /\ \A c \in Copies : MsgOf(c) = m => where[c] \notin {"ready", "retry"}
               /\ LateAck => \A s \in Slots : Of(s) = m => ~Open(s)

ErrorsLast == \A m \in Msgs : "error" \in answered[m] => Finished(m)

CalmInv == faults = 0 => AllAlive /\ OneDue /\ EarlySpent /\ ErrorsLast

\* What a task may do without a fault: go on, or end, with nothing coming back.
CalmMove(s) ==
  /\ \/ task'[s] = Idle
     \/ /\ task'[s].copy = task[s].copy /\ task'[s].live = task[s].live
        /\ task'[s].pc # "recover" /\ task[s].pc \notin {"idle", "early"}
  /\ \A t \in Slots \ {s} : task'[t] = task[t]
  /\ Open(s)' => Open(s)
  /\ \A c \in Copies : Due(c)' => Due(c)
  /\ \A c \in Copies : where'[c] \in {"ready", "retry"} => where'[c] = where[c]

LEMMA OneDueKept ==
  ASSUME OneDue, \A c \in Copies : Due(c)' => Due(c)
  PROVE  OneDue'
  BY DEF OneDue

LEMMA CalmMoveKeeps ==
  ASSUME AllAlive, OneDue, EarlySpent, NEW s \in Slots, CalmMove(s)
  PROVE  /\ AllAlive' /\ OneDue' /\ EarlySpent'
         /\ \A m \in Msgs : Finished(m) => Finished(m)'
<1>1. AllAlive'
  <2> SUFFICES ASSUME NEW t \in Slots, task'[t].pc # "idle"
               PROVE  task'[t].live /\ task'[t].pc # "recover"
    BY DEF AllAlive
  <2>1. CASE t = s
    <3>1. task'[s] # Idle
      BY <2>1 DEF Idle
    <3>2. task[s].live /\ task'[s].live = task[s].live /\ task'[s].pc # "recover"
      BY <3>1 DEF CalmMove, AllAlive
    <3> QED BY <2>1, <3>2
  <2>2. CASE t # s
    BY <2>2 DEF CalmMove, AllAlive
  <2> QED BY <2>1, <2>2
<1>2. OneDue'
  BY OneDueKept DEF CalmMove
<1>3. EarlySpent'
  <2> SUFFICES ASSUME ~LateAck, NEW t \in Slots, task'[t].pc \notin {"idle", "early"},
                      NEW c \in Copies, MsgOf(c) = Of(t)', Due(c)'
               PROVE  FALSE
    BY DEF EarlySpent
  <2>1. task'[t].copy = task[t].copy /\ task[t].pc \notin {"idle", "early"}
    <3>1. CASE t = s
      BY <3>1 DEF CalmMove, Idle
    <3>2. CASE t # s
      BY <3>2 DEF CalmMove
    <3> QED BY <3>1, <3>2
  <2>2. MsgOf(c) = Of(t) /\ Due(c)
    BY <2>1 DEF CalmMove, Of
  <2> QED BY <2>1, <2>2 DEF EarlySpent
<1>4. ASSUME NEW m \in Msgs, Finished(m) PROVE Finished(m)'
  <2>1. \A c \in Copies : MsgOf(c) = m => where'[c] \notin {"ready", "retry"}
    BY <1>4 DEF CalmMove, Finished
  <2>2. ASSUME LateAck, NEW t \in Slots, Of(t)' = m, Open(t)' PROVE FALSE
    <3>1. CASE t = s
      <4>1. task'[s] # Idle
        BY <2>2, <3>1 DEF Open, Idle
      <4>2. Of(s)' = Of(s) /\ Open(s)
        BY <2>2, <3>1, <4>1 DEF CalmMove, Of
      <4> QED BY <1>4, <2>2, <3>1, <4>2 DEF Finished
    <3>2. CASE t # s
      BY <1>4, <2>2, <3>2 DEF CalmMove, Finished, Open, Of
    <3> QED BY <3>1, <3>2
  <2> QED BY <2>1, <2>2 DEF Finished
<1> QED BY <1>1, <1>2, <1>3, <1>4

NoNewErrors == \A m \in Msgs : "error" \in answered'[m] => "error" \in answered[m]

LEMMA CalmStep ==
  ASSUME CalmInv, NEW s \in Slots, faults' = 0 => faults = 0,
         faults' = 0 => CalmMove(s), NoNewErrors
  PROVE  CalmInv'
<1> SUFFICES ASSUME faults' = 0
             PROVE  AllAlive' /\ OneDue' /\ EarlySpent' /\ ErrorsLast'
  BY DEF CalmInv
<1>1. AllAlive /\ OneDue /\ EarlySpent /\ ErrorsLast /\ CalmMove(s)
  BY DEF CalmInv
<1>2. /\ AllAlive' /\ OneDue' /\ EarlySpent'
      /\ \A m \in Msgs : Finished(m) => Finished(m)'
  BY <1>1, CalmMoveKeeps
<1>3. ErrorsLast'
  BY <1>1, <1>2 DEF ErrorsLast, NoNewErrors
<1> QED BY <1>2, <1>3

\* A task going on leaves every copy as due as it was, unless it parked it.
LEMMA GoingOn ==
  ASSUME NEW s \in Slots, NEW steps, GoesTo(s, steps), "recover" \notin steps,
         Open(s)' => Open(s), task[s].pc \notin {"idle", "early", "settle"},
         \A c \in Copies : where'[c] = where[c]
  PROVE  CalmMove(s)
<1>1. \/ task'[s] = Idle
      \/ /\ task'[s].copy = task[s].copy /\ task'[s].live = task[s].live
         /\ task'[s].pc # "recover"
  BY DEF GoesTo
<1>2. \A t \in Slots \ {s} : task'[t] = task[t]
  BY DEF GoesTo
<1>3. \A c \in Copies : Superseded(c) => Superseded(c)'
  BY <1>2 DEF Superseded
<1>4. \A c \in Copies : Due(c)' => Due(c)
  BY <1>3 DEF Due
<1> QED BY <1>1, <1>2, <1>4 DEF CalmMove

LEMMA FaultsCount ==
  ASSUME TypeOK, Fault
  PROVE  faults' # 0
  BY DEF TypeOK, Fault

\* Without a fault nothing raises.
LEMMA CalmRaises ==
  ASSUME IInv, CalmInv, NEW s \in Slots, task[s].pc # "idle", Raises(s)
  PROVE  faults' # 0
<1>1. CASE task[s].live
  BY <1>1, FaultsCount DEF Raises, IInv
<1>2. CASE ~task[s].live
  BY <1>2 DEF Raises, CalmInv, AllAlive
<1> QED BY <1>1, <1>2

LEMMA Faulted ==
  ASSUME faults' # 0
  PROVE  CalmInv'
  BY DEF CalmInv

\* The task that answers with an error holds the last copy to run.
LEMMA ErrorFinishes ==
  ASSUME IInv, AllAlive, OneDue, EarlySpent, NEW s \in Slots, task[s].pc = "answer",
         CalmMove(s), ~Open(s)', \A c \in Copies : where'[c] = where[c],
         NEW m \in Msgs, m = Of(s)
  PROVE  Finished(m)'
<1>1. task[s].live /\ task[s].copy \in Copies
  BY WorksForMsg DEF AllAlive
<1>2. ASSUME NEW c \in Copies, MsgOf(c) = m, where[c] \in {"ready", "retry"} PROVE FALSE
  <2>1. CASE LateAck
    <3>1. Due(task[s].copy) /\ where[task[s].copy] = "held"
      BY <1>1, <2>1, InHandIsDue DEF IInv, SlotsOK, SlotOK, Holding
    <3>2. Due(c)
      BY <1>2, <2>1, UnheldIsDue DEF Due
    <3> QED BY <1>1, <1>2, <3>1, <3>2 DEF OneDue, Of
  <2>2. CASE ~LateAck
    <3>1. ~Superseded(c)
      BY <2>2 DEF Superseded, IInv, SlotsOK, SlotOK
    <3> QED BY <1>2, <2>2, <3>1 DEF EarlySpent, Due
  <2> QED BY <2>1, <2>2
<1>3. ASSUME LateAck, NEW t \in Slots, Of(t)' = m, Open(t)' PROVE FALSE
  <2>1. t # s
    BY <1>3
  <2>2. task'[t] = task[t]
    BY <2>1 DEF CalmMove
  <2>3. Open(t) /\ Of(t) = m
    BY <1>3, <2>2 DEF Open, Of
  <2>4. task[t].live
    BY <2>3 DEF Open, AllAlive
  <2>5. task[t].copy \in Copies /\ Due(task[t].copy) /\ Due(task[s].copy)
    BY <1>1, <1>3, <2>3, <2>4, InHandIsDue DEF Open
  <2>6. task[t].copy = task[s].copy
    BY <1>1, <2>3, <2>5 DEF OneDue, Of
  <2> QED BY <1>1, <1>3, <2>1, <2>4, <2>6 DEF IInv, OneHolder, Holding
<1> QED BY <1>2, <1>3 DEF Finished

\* The stored retry becomes due as the parked copy ceases to be.
LEMMA ParkKeepsCalm ==
  ASSUME IInv, CalmInv, NEW s \in Slots, ParkConfirmed(s)
  PROVE  CalmInv'
<1>1. /\ task[s].pc = "park" /\ task[s].live /\ UNCHANGED <<faults, answered>>
      /\ Stored(s, "retry", count[task[s].copy] + 1) /\ Goto(s, "settle")
  BY DEF ParkConfirmed, At
<1> SUFFICES ASSUME faults = 0
             PROVE  AllAlive' /\ OneDue' /\ EarlySpent' /\ ErrorsLast'
  BY <1>1 DEF CalmInv
<1>2. AllAlive /\ OneDue /\ EarlySpent /\ ErrorsLast
  BY DEF CalmInv
<1>3. LateAck /\ task[s].copy \in Copies /\ Of(s) \in Msgs /\ task[s].why = "parked"
  BY <1>1, WorksForMsg DEF SlotOK
<1>4. PICK d \in Copies : /\ MsgOf(d) = Of(s) /\ where[d] = "gone" /\ where'[d] = "retry"
                          /\ \A c \in Copies : c # d => where'[c] = where[c]
  BY <1>1, StoredOnly DEF IInv
<1>5. /\ GoesTo(s, {"settle"}) /\ task'[s].pc = "settle" /\ task'[s].why = "parked"
  BY <1>1, <1>3, GotoGoes DEF Steps
<1>6. /\ task'[s].copy = task[s].copy /\ task'[s].live
      /\ \A t \in Slots \ {s} : task'[t] = task[t]
  <2>1. task'[s] # Idle
    BY <1>5 DEF Idle
  <2>2. task'[s].copy = task[s].copy /\ task'[s].live = task[s].live
    BY <2>1, <1>5 DEF GoesTo
  <2>3. \A t \in Slots \ {s} : task'[t] = task[t]
    BY <1>5 DEF GoesTo
  <2> QED BY <1>1, <2>2, <2>3
<1>7. Due(task[s].copy) /\ \A c \in Copies : c = task[s].copy => ~Due(c)'
  BY <1>1, <1>3, <1>5, <1>6, InHandIsDue DEF Due, Superseded
<1>8. \A c \in Copies : Due(c)' => Due(c) \/ c = d
  BY <1>1, <1>4, <1>6 DEF Due, Superseded
<1>9. AllAlive'
  BY <1>2, <1>5, <1>6 DEF AllAlive
<1>10. OneDue'
  <2> SUFFICES ASSUME NEW c \in Copies, NEW e \in Copies, MsgOf(c) = MsgOf(e),
                      Due(c)', Due(e)', c # d
               PROVE  c = e
    BY DEF OneDue
  <2>1. Due(c) /\ c # task[s].copy
    BY <1>7, <1>8
  <2>2. MsgOf(c) # Of(s)
    BY <1>2, <1>3, <1>7, <2>1 DEF OneDue, Of
  <2>3. Due(e)
    BY <1>4, <1>8, <2>2
  <2> QED BY <1>2, <2>1, <2>3 DEF OneDue
<1>11. EarlySpent'
  BY <1>3 DEF EarlySpent
<1>12. ErrorsLast'
  <2> SUFFICES ASSUME NEW m \in Msgs, "error" \in answered[m]
               PROVE  Finished(m)'
    BY <1>1 DEF ErrorsLast
  <2>1. Finished(m)
    BY <1>2 DEF ErrorsLast
  <2>2. Of(s) # m
    BY <1>1, <1>3, <2>1 DEF Finished, Open
  <2>3. \A c \in Copies : MsgOf(c) = m => where'[c] \notin {"ready", "retry"}
    BY <1>4, <2>1, <2>2 DEF Finished
  <2>4. ASSUME NEW t \in Slots, Of(t)' = m, Open(t)' PROVE FALSE
    <3>1. t # s
      BY <1>5, <2>4 DEF Open
    <3> QED BY <1>3, <1>6, <2>1, <2>4, <3>1 DEF Finished, Open, Of
  <2> QED BY <2>3, <2>4 DEF Finished
<1> QED BY <1>9, <1>10, <1>11, <1>12

LEMMA DeliverKeepsCalm ==
  ASSUME IInv, CalmInv, NEW s \in Slots, NEW c \in Copies, Deliver(s, c)
  PROVE  CalmInv'
<1>1. /\ task[s].pc = "idle" /\ where[c] = "ready" /\ UNCHANGED <<faults, answered>>
      /\ where'[c] = "held" /\ \A d \in Copies : d # c => where'[d] = where[d]
      /\ task'[s].pc = (IF LateAck THEN "run" ELSE "early")
      /\ task'[s].copy = c /\ task'[s].live
      /\ \A t \in Slots \ {s} : task'[t] = task[t]
  BY DEF Deliver, At, Idle, IInv, TypeOK
<1> SUFFICES ASSUME faults = 0
             PROVE  AllAlive' /\ OneDue' /\ EarlySpent' /\ ErrorsLast'
  BY <1>1 DEF CalmInv
<1>2. AllAlive /\ OneDue /\ EarlySpent /\ ErrorsLast
  BY DEF CalmInv
<1>3. \A d \in Copies : Superseded(d) => Superseded(d)'
  BY <1>1 DEF Superseded
<1>4. \A d \in Copies : Due(d)' => Due(d)
  BY <1>1, <1>3 DEF Due
<1>5. AllAlive' /\ OneDue'
  BY <1>1, <1>2, <1>4, OneDueKept DEF AllAlive
<1>6. EarlySpent'
  <2> SUFFICES ASSUME ~LateAck, NEW t \in Slots, task'[t].pc \notin {"idle", "early"},
                      NEW d \in Copies, MsgOf(d) = Of(t)', Due(d)'
               PROVE  FALSE
    BY DEF EarlySpent
  <2>1. t # s
    BY <1>1
  <2>2. task'[t] = task[t] /\ MsgOf(d) = Of(t) /\ Due(d)
    BY <1>1, <1>4, <2>1 DEF Of
  <2> QED BY <1>2, <2>2 DEF EarlySpent
<1>7. ErrorsLast'
  <2> SUFFICES ASSUME NEW m \in Msgs, "error" \in answered[m]
               PROVE  Finished(m)'
    BY <1>1 DEF ErrorsLast
  <2>1. Finished(m)
    BY <1>2 DEF ErrorsLast
  <2>2. MsgOf(c) # m
    BY <1>1, <2>1 DEF Finished
  <2>3. \A d \in Copies : MsgOf(d) = m => where'[d] \notin {"ready", "retry"}
    BY <1>1, <2>1 DEF Finished
  <2>4. ASSUME LateAck, NEW t \in Slots, Of(t)' = m, Open(t)' PROVE FALSE
    <3>1. t # s
      BY <1>1, <2>2, <2>4 DEF Of
    <3> QED BY <1>1, <2>1, <2>4, <3>1 DEF Finished, Open, Of
  <2> QED BY <2>3, <2>4 DEF Finished
<1> QED BY <1>5, <1>6, <1>7

LEMMA TaskKeepsCalm ==
  ASSUME IInv, CalmInv, NEW s \in Slots, TaskStep(s)
  PROVE  CalmInv'
<1>1. ASSUME NEW steps, GoesTo(s, steps), "recover" \notin steps, UNCHANGED <<where, faults>>,
             task[s].pc \notin {"idle", "early", "settle"}, Open(s)' => Open(s), NoNewErrors
      PROVE  CalmInv'
  <2>1. CalmMove(s)
    BY <1>1, GoingOn
  <2> QED BY <1>1, <2>1, CalmStep
<1>2. CASE AckEarly(s)
  <2> SUFFICES ASSUME faults' = 0
               PROVE  AllAlive' /\ OneDue' /\ EarlySpent' /\ ErrorsLast'
    BY DEF CalmInv
  <2>1. /\ task[s].pc = "early" /\ UNCHANGED <<faults, answered>>
        /\ AllAlive /\ OneDue /\ EarlySpent /\ ErrorsLast
    BY <1>2 DEF AckEarly, At, CalmInv
  <2>2. task[s].live /\ task[s].copy \in Copies /\ ~LateAck
    BY <2>1, WorksForMsg DEF AllAlive, SlotOK
  <2>3. where' = [where EXCEPT ![task[s].copy] = "acking"] /\ Goto(s, "run")
    BY <1>2, <2>2 DEF AckEarly
  <2>4. GoesTo(s, {"run"}) /\ task'[s].pc = "run" /\ where[task[s].copy] = "held"
    BY <2>1, <2>2, <2>3, GotoGoes, WorksForMsg DEF Steps, SlotOK, Holding
  <2>5. /\ where'[task[s].copy] = "acking"
        /\ \A c \in Copies : c # task[s].copy => where'[c] = where[c]
    BY <2>2, <2>3 DEF IInv, TypeOK
  <2>6. task'[s].live /\ task'[s].copy = task[s].copy /\ \A t \in Slots \ {s} : task'[t] = task[t]
    <3>1. task'[s] # Idle
      BY <2>4 DEF Idle
    <3>2. task'[s].copy = task[s].copy /\ task'[s].live = task[s].live
      BY <3>1, <2>4 DEF GoesTo
    <3>3. \A t \in Slots \ {s} : task'[t] = task[t]
      BY <2>4 DEF GoesTo
    <3> QED BY <2>2, <3>2, <3>3
  <2>7. \A c \in Copies : ~Superseded(c) /\ ~Superseded(c)'
    BY <2>2, <2>4, <2>6 DEF Superseded, IInv, SlotsOK, SlotOK
  <2>8. \A c \in Copies : Due(c)' => Due(c) /\ c # task[s].copy
    BY <2>5, <2>7 DEF Due
  <2>9. Due(task[s].copy)
    BY <2>2, <2>4, <2>7 DEF Due
  <2>10. AllAlive' /\ OneDue'
    BY <2>1, <2>4, <2>6, <2>8, OneDueKept DEF AllAlive
  <2>11. EarlySpent'
    <3> SUFFICES ASSUME NEW t \in Slots, task'[t].pc \notin {"idle", "early"},
                        NEW c \in Copies, MsgOf(c) = Of(t)', Due(c)'
                 PROVE  FALSE
      BY DEF EarlySpent
    <3>1. CASE t = s
      <4>1. MsgOf(c) = MsgOf(task[s].copy)
        BY <2>6, <3>1 DEF Of
      <4> QED BY <2>1, <2>2, <2>8, <2>9, <4>1 DEF OneDue
    <3>2. CASE t # s
      <4>1. task'[t] = task[t] /\ MsgOf(c) = Of(t) /\ Due(c)
        BY <2>6, <2>8, <3>2 DEF Of
      <4> QED BY <2>1, <2>2, <4>1 DEF EarlySpent
    <3> QED BY <3>1, <3>2
  <2>12. ErrorsLast'
    BY <2>1, <2>2, <2>5 DEF ErrorsLast, Finished
  <2> QED BY <2>10, <2>11, <2>12
<1>3. CASE HandlerReturns(s)
  <2>1. /\ task[s].pc = "run" /\ UNCHANGED <<where, faults, answered>>
        /\ Goto(s, "reply") \/ Conclude(s, "done")
    BY <1>3 DEF HandlerReturns, At
  <2>2. GoesTo(s, {"reply"}) \/ GoesTo(s, {"settle"})
    BY <2>1, GotoGoes, ConcludeGoes DEF Steps
  <2> QED BY <1>1, <2>1, <2>2 DEF Open, NoNewErrors
<1>4. ASSUME NEW cause \in {"failed", "handled"}, HandlerFails(s, cause) PROVE CalmInv'
  <2>1. /\ task[s].pc \in {"run", "reply"} /\ UNCHANGED <<where, faults, answered>>
        /\ GoesTo(s, {"settle", "answer", "park"})
    BY <1>4, FailedGoes DEF HandlerFails, At
  <2> QED BY <1>1, <2>1 DEF Open, NoNewErrors
<1>5. CASE StreamStops(s)
  <2>1. /\ task[s].pc = "reply" /\ UNCHANGED <<where, faults, answered>>
        /\ GoesTo(s, {"settle"})
    BY <1>5, ConcludeGoes DEF StreamStops, At
  <2> QED BY <1>1, <2>1 DEF Open, NoNewErrors
<1>6. CASE ProducerCancelsItself(s)
  <2>1. /\ task[s].pc = "reply" /\ UNCHANGED <<where, faults, answered>>
        /\ GoesTo(s, {"settle"})
    BY <1>6, FinishGoes DEF ProducerCancelsItself, At
  <2> QED BY <1>1, <2>1 DEF Open, NoNewErrors
<1>7. CASE ReplyConfirmed(s)
  <2>1. /\ task[s].pc = "reply" /\ UNCHANGED <<where, faults>> /\ GoesTo(s, {"settle"})
        /\ answered' = Add(answered, Of(s), "result")
    BY <1>7, ConcludeGoes DEF ReplyConfirmed, At
  <2>2. NoNewErrors
    BY <2>1 DEF NoNewErrors, Add, IInv, TypeOK
  <2> QED BY <1>1, <2>1, <2>2 DEF Open
<1>8. ASSUME NEW cause \in {"ambiguous", "reply"}, ReplyFails(s, cause) PROVE CalmInv'
  BY <1>8, CalmRaises, Faulted DEF ReplyFails, At
<1>9. CASE AnswerError(s)
  <2>1. task[s].pc = "answer" /\ UNCHANGED <<where, faults>>
    BY <1>9 DEF AnswerError, At
  <2>2. GoesTo(s, {"bury", "settle"}) /\ ~Open(s)'
    <3>1. CASE ~LateAck
      <4>1. task'[s] = Idle
        BY <1>9, <3>1, FinishOthers DEF AnswerError, IInv
      <4> QED BY <1>9, <3>1, <4>1, FinishGoes DEF AnswerError, Open, Idle
    <3>2. CASE LateAck
      BY <1>9, <3>2, GotoGoes DEF AnswerError, Steps, GoesTo, Open
    <3> QED BY <3>1, <3>2
  <2>3. CalmMove(s)
    BY <2>1, <2>2, GoingOn
  <2> SUFFICES ASSUME faults = 0
               PROVE  AllAlive' /\ OneDue' /\ EarlySpent' /\ ErrorsLast'
    BY <2>1 DEF CalmInv
  <2>4. AllAlive /\ OneDue /\ EarlySpent /\ ErrorsLast
    BY DEF CalmInv
  <2>5. /\ AllAlive' /\ OneDue' /\ EarlySpent'
        /\ \A m \in Msgs : Finished(m) => Finished(m)'
    BY <2>3, <2>4, CalmMoveKeeps
  <2>6. ErrorsLast'
    <3> SUFFICES ASSUME NEW m \in Msgs, "error" \in answered'[m] PROVE Finished(m)'
      BY DEF ErrorsLast
    <3>1. "error" \in answered[m] \/ m = Of(s)
      BY <1>9 DEF AnswerError, Add, IInv, TypeOK
    <3>2. m = Of(s) => Finished(m)'
      BY <2>1, <2>2, <2>3, <2>4, ErrorFinishes
    <3> QED BY <2>4, <2>5, <3>1, <3>2 DEF ErrorsLast
  <2> QED BY <2>5, <2>6
<1>10. CASE ParkConfirmed(s)
  BY <1>10, ParkKeepsCalm
<1>11. CASE ParkFails(s) \/ BuryFails(s)
  BY <1>11, CalmRaises, Faulted DEF ParkFails, BuryFails, At
<1>12. CASE BuryConfirmed(s)
  <2>1. /\ task[s].pc = "bury" /\ UNCHANGED <<faults, answered>> /\ Goto(s, "settle")
        /\ Stored(s, "dlq", count[task[s].copy])
    BY <1>12 DEF BuryConfirmed, At
  <2>2. GoesTo(s, {"settle"}) /\ task'[s].pc = "settle"
    BY <2>1, GotoGoes DEF Steps
  <2>3. \A c \in Copies : where'[c] = where[c] \/ where'[c] = "dlq"
    BY <2>1, StoredOnly DEF IInv
  <2>4. \A c \in Copies : Superseded(c) => Superseded(c)'
    BY <2>1, <2>2 DEF Superseded, GoesTo
  <2>5. \A c \in Copies : Due(c)' => Due(c)
    BY <2>3, <2>4 DEF Due
  <2>6. CalmMove(s)
    BY <2>1, <2>2, <2>3, <2>5 DEF CalmMove, GoesTo, Open, Idle
  <2> QED BY <2>1, <2>6, CalmStep DEF NoNewErrors
<1>13. CASE Settle(s)
  <2>1. task[s].pc = "settle" /\ UNCHANGED <<faults, answered>> /\ Finish(s)
    BY <1>13 DEF Settle, At
  <2> SUFFICES ASSUME faults' = 0 PROVE CalmMove(s)
    BY <2>1, CalmStep DEF NoNewErrors
  <2>2. task[s].live /\ task[s].copy \in Copies
    BY <2>1, WorksForMsg DEF CalmInv, AllAlive
  <2>3. where' = [where EXCEPT ![task[s].copy] = "acking"]
    BY <1>13, <2>2 DEF Settle
  <2>4. /\ where'[task[s].copy] = "acking"
        /\ \A c \in Copies : c # task[s].copy => where'[c] = where[c]
    BY <2>2, <2>3 DEF IInv, TypeOK
  <2>5. task'[s] = Idle /\ \A t \in Slots \ {s} : task'[t] = task[t]
    BY <2>1, FinishOthers DEF IInv
  <2>6. \A c \in Copies : c # task[s].copy => (Superseded(c) => Superseded(c)')
    BY <2>5 DEF Superseded
  <2>7. \A c \in Copies : Due(c)' => Due(c)
    BY <2>4, <2>6 DEF Due
  <2>8. ~Open(s)'
    BY <2>5 DEF Open, Idle
  <2>9. \A c \in Copies : where'[c] \in {"ready", "retry"} => where'[c] = where[c]
    BY <2>4
  <2> QED BY <2>5, <2>7, <2>8, <2>9 DEF CalmMove
<1>14. CASE Requeue(s)
  <2>1. task[s].pc = "recover" /\ UNCHANGED faults
    BY <1>14 DEF Requeue, At
  <2> QED BY <2>1, Faulted DEF CalmInv, AllAlive
<1> QED BY <1>2, <1>3, <1>4, <1>5, <1>6, <1>7, <1>8, <1>9, <1>10, <1>11, <1>12, <1>13,
           <1>14 DEF TaskStep

LEMMA NextKeepsCalm == IInv /\ CalmInv /\ [Next]_vars => CalmInv'
<1> SUFFICES ASSUME IInv, CalmInv, [Next]_vars PROVE CalmInv'
  OBVIOUS
<1>1. ASSUME NEW s \in Slots, TaskStep(s) PROVE CalmInv'
  BY <1>1, TaskKeepsCalm
<1>2. ASSUME UNCHANGED <<faults, answered>>,
             \A s \in Slots : /\ task'[s].pc = task[s].pc /\ task'[s].copy = task[s].copy
                              /\ task'[s].live = task[s].live /\ task'[s].why = task[s].why,
             \A c \in Copies : /\ Due(c)' => Due(c)
                               /\ where'[c] \in {"ready", "retry"} => where[c] \in {"ready", "retry"}
      PROVE  CalmInv'
  <2> SUFFICES ASSUME faults = 0
               PROVE  AllAlive' /\ OneDue' /\ EarlySpent' /\ ErrorsLast'
    BY <1>2 DEF CalmInv
  <2>1. AllAlive /\ OneDue /\ EarlySpent /\ ErrorsLast
    BY DEF CalmInv
  <2>2. AllAlive' /\ OneDue'
    BY <1>2, <2>1, OneDueKept DEF AllAlive
  <2>3. \A s \in Slots : Of(s)' = Of(s) /\ (Open(s)' => Open(s))
    BY <1>2 DEF Of, Open
  <2>4. EarlySpent'
    BY <1>2, <2>1, <2>3 DEF EarlySpent
  <2>5. ErrorsLast'
    BY <1>2, <2>1, <2>3 DEF ErrorsLast, Finished
  <2> QED BY <2>2, <2>4, <2>5
<1>3. ASSUME NEW s \in Slots, NEW c \in Copies, Deliver(s, c) PROVE CalmInv'
  BY <1>3, DeliverKeepsCalm
<1>4. ASSUME NEW m \in Msgs, CallerCancels(m) PROVE CalmInv'
  <2>1. UNCHANGED <<where, faults, answered>>
    BY <1>4 DEF CallerCancels
  <2>2. \A s \in Slots : /\ task'[s].pc = task[s].pc /\ task'[s].copy = task[s].copy
                         /\ task'[s].live = task[s].live /\ task'[s].why = task[s].why
    BY <1>4, CancelMarks
  <2>3. \A c \in Copies : Due(c)' => Due(c)
    BY <2>1, <2>2 DEF Due, Superseded
  <2> QED BY <1>2, <2>1, <2>2, <2>3
<1>5. ASSUME NEW c \in Copies, BrokerStep(c) PROVE CalmInv'
  <2>1. CASE BrokerSettles(c) \/ RetryHop(c)
    <3>1. /\ UNCHANGED <<task, faults, answered>>
          /\ \A d \in Copies : where'[d] \in {"ready", "held", "retry"} =>
               \/ where'[d] = where[d]
               \/ where'[d] = "ready" /\ where[d] = "retry"
      BY <2>1 DEF BrokerSettles, RetryHop, Remove, IInv, TypeOK
    <3>2. \A d \in Copies : Due(d)' => Due(d)
      BY <3>1 DEF Due, Superseded
    <3> QED BY <1>2, <3>1, <3>2
  <2>2. CASE HopDrops(c)
    BY <2>2, FaultsCount, Faulted DEF HopDrops, IInv
  <2> QED BY <1>5, <2>1, <2>2 DEF BrokerStep
<1>6. CASE ChannelLoss \/ Crash
  BY <1>6, FaultsCount, Faulted DEF ChannelLoss, Crash, IInv
<1>7. CASE Reopen \/ UNCHANGED vars
  <2>1. UNCHANGED <<where, task, faults, answered>>
    BY <1>7 DEF Reopen, vars
  <2>2. \A c \in Copies : Due(c)' => Due(c)
    BY <2>1 DEF Due, Superseded
  <2> QED BY <1>2, <2>1, <2>2
<1> QED BY <1>1, <1>3, <1>4, <1>5, <1>6, <1>7 DEF Next

--------------------------------------------------------------------------------
(* The theorems. *)

THEOREM InvariantHolds == Spec => []IInv
  BY InitHolds, NextKeeps, PTL DEF Spec

\* The types of consume()'s state hold for every instance of the ladder; the
\* retry counter in particular never exceeds max_retries.
THEOREM TypeCorrect == Spec => []TypeOK
<1>1. IInv => TypeOK
  BY DEF IInv
<1> QED BY <1>1, InvariantHolds, PTL

\* No delivery is lost by consume() and _recover_unsettled: whatever the number
\* of messages, copies, retries and faults, a late acker's message stays in the
\* broker until a reason to let it go is on record.
THEOREM NothingIsLost == Spec => []NoLoss
<1>1. IInv => NoLoss
  BY DEF IInv, Owing, Safe, NoLoss, CopiesOf
<1> QED BY <1>1, InvariantHolds, PTL

\* No delivery is left unacknowledged on an open channel with no task to settle
\* it, however many messages, slots and faults there are, so long as no stream
\* producer raises CancelledError unasked (on_message and _recover_unsettled).
THEOREM NothingSticks == ASSUME ~ProducerCancels PROVE Spec => []NoStuckDelivery
<1>1. Init => Attended
  BY DEF Init, Attended
<1>2. IInv /\ Attended /\ [Next]_vars => Attended'
  BY NextAttends
<1>3. Attended => NoStuckDelivery
  BY DEF Attended, NoStuckDelivery, Holding
<1> QED BY <1>1, <1>2, <1>3, InvariantHolds, PTL DEF Spec

\* A message leaves for good only for what happened to it, whatever the number of
\* faults, duplicates and requeues: a request settled as done has its result at
\* the caller's callback exchange (consume: reply before ack), and a message is
\* dead-lettered only after max_retries + 1 failed runs.
THEOREM NothingLeavesUnexplained == Spec => []SettledForAReason
<1>1. Init => ReasonInv
  BY CopyOfMsg, MsgsAssumption, BoundAssumption DEF Init, ReasonInv, Justified, Idle,
     CountsFit, DoneMeansAnswered
<1>2. ReasonInv => SettledForAReason
  BY DEF ReasonInv, CountsFit, SettledForAReason, DeadOnlyAfterAllAttempts
<1> QED BY <1>1, <1>2, NextKeepsReasons, InvariantHolds, PTL DEF Spec

\* The ladder implements at-least-once delivery, step by step and for every number
\* of messages, copies, retries and faults: what consume() and _recover_unsettled
\* do to a late acker's message is to record a reason, let it go for one already
\* on record, or bring it back.
THEOREM LadderKeepsPromise == ASSUME LateAck PROVE Spec => KeepsPromise
<1>1. Init => Promise!Init
  <2> SUFFICES ASSUME Init PROVE Promise!Init
    OBVIOUS
  <2>1. Owed = Msgs
    <3> SUFFICES ASSUME NEW m \in Msgs PROVE m \in Owed
      BY OwedIsDue
    <3>1. <<m, 1>> \in Copies /\ MsgOf(<<m, 1>>) = m
      BY BoundAssumption
    <3>2. where[<<m, 1>>] = "ready" /\ ~Superseded(<<m, 1>>)
      BY <3>1 DEF Init, Superseded, Idle
    <3> QED BY <3>1, <3>2, OwedIsDue DEF Due
  <2> QED BY <2>1 DEF Init, Promise!Init
<1>2. IInv /\ [Next]_vars => [Promise!Next]_(Promise!vars)
  BY NextKeepsPromise
<1> QED BY <1>1, <1>2, InvariantHolds, PTL DEF Spec, KeepsPromise, Promise!Spec

\* A message is run again only for a cause, whatever the interleaving: unless its
\* consumer died, its handler failed with something other than a HandledError, or
\* its reply could not be published, it runs once (consume, on_message).
THEOREM RerunsHaveACause == Spec => []RerunHasCause
<1>1. IInv /\ RerunInv => RerunHasCause
  <2> SUFFICES ASSUME IInv, RerunInv, NEW m \in Msgs, starts[m] > 1
               PROVE  causes[m] \ {"handled"} # {}
    BY DEF RerunHasCause
  <2>1. starts[m] \in Int
    BY DEF IInv, TypeOK
  <2>2. ~Undisturbed(m)
    BY <2>1 DEF RerunInv, Once
  <2> QED BY <2>2 DEF Undisturbed
<1> QED BY <1>1, InitReruns, NextKeepsReruns, InvariantHolds, PTL DEF Spec

\* An early acker handles a message a second time only if its consumer died before
\* the broker had the ack, however its handler or its producers fail.
THEOREM EarlyAckersRunOnce == Spec => []EarlyAckRerunsOnlyAfterLoss
<1>1. IInv /\ RerunInv => EarlyAckRerunsOnlyAfterLoss
  <2> SUFFICES ASSUME IInv, RerunInv, ~LateAck, NEW m \in Msgs, starts[m] > 1
               PROVE  "died" \in causes[m]
    BY DEF EarlyAckRerunsOnlyAfterLoss
  <2>1. starts[m] \in Int
    BY DEF IInv, TypeOK
  <2>2. ~Undisturbed(m)
    BY <2>1 DEF RerunInv, Once
  <2> QED BY <2>2 DEF Undisturbed
<1> QED BY <1>1, InitReruns, NextKeepsReruns, InvariantHolds, PTL DEF Spec

\* While its message climbs the ladder the caller hears nothing: without a fault, an
\* error reply means that no copy is left to be run (on_message: only the terminal
\* branches of the ladder answer).
THEOREM ErrorReplyIsFinal == Spec => []ErrorIsFinal
<1>1. Init => CalmInv
  <2> SUFFICES ASSUME Init PROVE AllAlive /\ OneDue /\ EarlySpent /\ ErrorsLast
    BY DEF CalmInv
  <2>1. \A s \in Slots : task[s].pc = "idle"
    BY DEF Init, Idle
  <2>2. ASSUME NEW c \in Copies, NEW d \in Copies, MsgOf(c) = MsgOf(d), Due(c), Due(d)
        PROVE  c = d
    <3>1. where[c] # "gone" /\ where[d] # "gone"
      BY <2>2 DEF Due
    <3>2. c = <<MsgOf(c), 1>> /\ d = <<MsgOf(d), 1>>
      BY <3>1 DEF Init
    <3> QED BY <2>2, <3>2
  <2>3. \A m \in Msgs : answered[m] = {}
    BY DEF Init
  <2> QED BY <2>1, <2>2, <2>3 DEF AllAlive, OneDue, EarlySpent, ErrorsLast
<1>2. CalmInv => ErrorIsFinal
  BY DEF CalmInv, ErrorsLast, Finished, ErrorIsFinal, CopiesOf
<1> QED BY <1>1, <1>2, NextKeepsCalm, InvariantHolds, PTL DEF Spec

================================================================================
