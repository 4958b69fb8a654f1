---------------------------- MODULE Connection_proofs ----------------------------
(***************************************************************************)
(* Theorems about the two models of protobus/connection.py.  Connection,    *)
(* for any number of components, waiters, sockets, faults, disconnects,     *)
(* attempts alive at a time and windows, and any attempt budget; then       *)
(* ConfirmedPublish, the publishers on one of its channels.  They share no  *)
(* variable.                                                                *)
(***************************************************************************)
EXTENDS Connection, ConfirmedPublish, SequenceTheorems, FiniteSetTheorems, TLAPS

(***************************************************************************)
(* The inductive invariant.  As long as no window has let two parties work  *)
(* on the connection, one of them owns it: a dial, an attempt or the        *)
(* connect() that is about to resume; each one's claim excludes the         *)
(* others', and says what the installed handle may be in the meantime.      *)
(***************************************************************************)

\* The one attempt there is: its timer, then its task.
rtask == task[1]

\* No attempt that disconnect() does not know of.
Alone ==
  /\ \A t \in Attempts : t # 1 => task[t] = NoTask
  /\ rtask.pc = "none" => rtask = NoTask
  /\ rtask.pc \notin {"none", "cancelled"} => rtask.held

\* Being "reconnecting" is having it.
Reconnecting == isReconnecting <=> rtask.pc # "none"

\* The installed handle is of no more use.
Gone == handle = 0 \/ socket[handle] = "closed"

\* Neither has connect() announced a connection closed under it, nor one whose
\* restorers it does not run.
Informed == windows \cap {"closed", "again"} = {}

\* A dial under way, and whom it is for.  One from before a disconnect is of an
\* earlier generation, so that nobody need be waiting for it.
DialFits ==
  /\ dial.pc # "discarding" => dial.sock = 0
  /\ dial.pc = "discarding" => dial.sock \in Sockets
  /\ dial.pc = "dialing" => dial.gen <= generation
  /\ dial.pc = "dialing" /\ manualDisconnect => dial.gen < generation
  /\ dial.pc = "dialing" /\ dial.gen = generation => caller = "connect" \/ rtask.pc = "connect"

\* While anybody works on a replacement, the handle it replaces is gone.
HandleFits ==
  /\ ~isConnected => Gone
  /\ dial.pc # "none" => Gone
  /\ rtask.pc \in {"timer", "start", "connect", "refused", "discard"} => Gone
  /\ rtask.pc = "discard" => handle = 0

\* The timer and the later steps of the task have no dial.
NoDialThen == rtask.pc \notin {"none", "connect", "cancelled"} => dial.pc = "none"

\* connect() while it dials, and between the completed dial and its resumption.
CallerFits ==
  /\ caller = "connect" => dial.pc # "none" /\ rtask.pc = "none"
  /\ caller = "connected" => dial.pc = "none" /\ rtask.pc = "none"
  /\ Informed /\ caller = "connect" => ~isReady /\ registered = 0
  /\ Informed /\ caller = "connected" =>
       /\ handle # 0 /\ socket[handle] \in {"open", "dropped"}
       /\ ~isReady /\ ~manualDisconnect /\ 1..registered \subseteq restored

\* What disconnect() leaves, before and after it has cancelled the task.
CloserFits ==
  /\ closer = "cancelling" <=> rtask.pc = "cancelled"
  /\ closer # "idle" => manualDisconnect
  /\ manualDisconnect => rtask.pc \in {"none", "cancelled"}
  /\ manualDisconnect /\ closer # "cancelling" => handle = 0 /\ (Informed => ~isReady)

\* The failed attempts are those the counter, or the task that read it, accounts
\* for; a socket that stays up without a reconnection ends the row.
BudgetFits ==
  /\ rtask.pc \in {"timer", "start"} =>
       streak < attempts /\ (MaxAttempts > 0 => attempts <= MaxAttempts)
  /\ rtask.pc \notin {"none", "timer", "start", "cancelled"} =>
       /\ streak <= rtask.attempt
       /\ rtask.pc # "discard" => streak < rtask.attempt
       /\ MaxAttempts > 0 => rtask.attempt <= MaxAttempts
  /\ handle # 0 /\ ~isReconnecting /\ caller # "connected" => streak = 0

\* Readiness is announced on a live and restored handle only, with nobody at work on it.
ReadyFits ==
  Informed /\ isReady =>
    /\ handle # 0 /\ socket[handle] \in {"open", "dropped"}
    /\ ~isReconnecting /\ caller # "connected" /\ 1..registered \subseteq restored

\* What the restorers that have run for this generation, and the components that have
\* registered in the meantime, have put on the installed handle.
RestorationFits ==
  /\ rtask.gen <= generation
  /\ rtask.pc = "restore" /\ rtask.gen = generation =>
       /\ rtask.next \in 1..(rtask.last + 1) /\ rtask.last <= registered
       /\ \A i \in 1..registered : i < rtask.next \/ i > rtask.last => i \in restored
  /\ rtask.pc = "check" /\ rtask.gen = generation => 1..registered \subseteq restored

Owned ==
  /\ Alone /\ Reconnecting /\ OneSocket /\ BudgetHolds /\ DialFits /\ HandleFits
  /\ NoDialThen /\ CallerFits /\ CloserFits /\ BudgetFits /\ ReadyFits /\ RestorationFits

IInv == TypeOK /\ (OneOwner => Owned)

\* What keeps everybody from being forgotten, in whatever windows.
WaitersFit ==
  /\ isReady => parked = {}
  /\ closer = "cancelling" => \E t \in Attempts : task[t].pc = "cancelled"
  /\ manualDisconnect /\ closer # "cancelling" => parked = {}

--------------------------------------------------------------------------------
(* Types. *)

USE DEF Sockets, NoDial, NoTask, Close, At, Ended, flags, topology, bounds

LEMMA TypeInit == Init => TypeOK
<1> SUFFICES ASSUME Init PROVE TypeOK
  OBVIOUS
<1> USE CountAssumption DEF Init
<1>1. FlagsTyped
  BY DEF FlagsTyped
<1>2. TasksTyped
  BY DEF TasksTyped, AttemptRecord
<1>3. CountsTyped
  BY DEF CountsTyped
<1>4. MapsTyped
  BY DEF MapsTyped
<1> QED BY <1>1, <1>2, <1>3, <1>4 DEF TypeOK

LEMMA OneIn == 1 \in Attempts
  BY CountAssumption DEF Attempts

LEMMA TimerTyped ==
  ASSUME NEW known \in [Attempts -> AttemptRecord], SetTimer(known)
  PROVE  task' \in [Attempts -> AttemptRecord]
<1>1. NoTask \in AttemptRecord /\ \A t \in Attempts : known[t] \in AttemptRecord
  BY CountAssumption DEF AttemptRecord
<1>2. [NoTask EXCEPT !.pc = "timer", !.held = TRUE] \in AttemptRecord
  BY <1>1 DEF AttemptRecord
<1>3. \A t \in Attempts : Forgotten(known[t]) \in AttemptRecord
  BY <1>1 DEF AttemptRecord, Forgotten
<1> QED BY <1>1, <1>2, <1>3 DEF SetTimer

LEMMA FlagsTypedNext ==
  ASSUME FlagsTyped, [Next]_vars
  PROVE  FlagsTyped'
<1> USE CountAssumption DEF FlagsTyped
<1>1. CASE ConnectReturns
  BY <1>1 DEF ConnectReturns, MarkReady
<1>2. CASE ConnectRaises
  BY <1>2 DEF ConnectRaises
<1>3. CASE DialSucceeds
  <2>1. PICK s \in Sockets :
          /\ Opened(s) /\ socket' = [socket EXCEPT ![s] = "open"]
          /\ IF dial.gen # generation \/ manualDisconnect
               THEN /\ dial' = [dial EXCEPT !.pc = "discarding", !.sock = s]
                    /\ UNCHANGED <<handle, restored, isConnected, attempts, caller, task>>
               ELSE /\ handle' = s /\ restored' = {} /\ isConnected' = TRUE /\ attempts' = 0
                    /\ dial' = NoDial /\ Tell("connected")
    BY <1>3 DEF DialSucceeds
  <2>2. CASE dial.gen # generation \/ manualDisconnect
    BY <1>3, <2>1, <2>2 DEF DialSucceeds, Opened
  <2>3. CASE ~(dial.gen # generation \/ manualDisconnect)
    BY <1>3, <2>1, <2>3 DEF DialSucceeds, Opened, Tell
  <2> QED BY <2>2, <2>3
<1>4. CASE DialDiscarded
  BY <1>4 DEF DialDiscarded, Tell
<1>5. CASE DialFails
  BY <1>5 DEF DialFails, Fault, Tell
<1>6. CASE DisconnectReturns
  BY <1>6 DEF DisconnectReturns
<1>7. ASSUME NEW t \in Attempts, TimerFires(t) PROVE FlagsTyped'
  BY <1>7 DEF TimerFires, Forgotten
<1>8. ASSUME NEW t \in Attempts, AttemptStarts(t) PROVE FlagsTyped'
  BY <1>8 DEF AttemptStarts, JoinOrDial
<1>9. ASSUME NEW t \in Attempts, RestorationStarts(t) PROVE FlagsTyped'
  BY <1>9 DEF RestorationStarts
<1>10. ASSUME NEW t \in Attempts, RestorerRuns(t) PROVE FlagsTyped'
  BY <1>10 DEF RestorerRuns
<1>11. ASSUME NEW t \in Attempts, Reconnected(t) PROVE FlagsTyped'
  BY <1>11 DEF Reconnected, MarkReady, SocketGood
<1>12. ASSUME NEW t \in Attempts, AttemptFails(t) PROVE FlagsTyped'
  <2>1. CASE manualDisconnect
    BY <1>12, <2>1 DEF AttemptFails, AttemptBreaks, Fault
  <2>2. CASE ~manualDisconnect /\ handle = 0
    BY <1>12, <2>2 DEF ScheduleReconnect, SetTimer, AttemptFails, AttemptBreaks, Fault
  <2>3. CASE ~manualDisconnect /\ handle # 0
    BY <1>12, <2>3 DEF AttemptFails, AttemptBreaks, Fault
  <2> QED BY <2>1, <2>2, <2>3
<1>13. ASSUME NEW t \in Attempts, GenerationDiscarded(t) PROVE FlagsTyped'
  BY <1>13 DEF ScheduleReconnect, SetTimer, GenerationDiscarded
<1>14. ASSUME NEW t \in Attempts, AttemptCancelled(t) PROVE FlagsTyped'
  BY <1>14 DEF AttemptCancelled, Release
<1>15. CASE Connect
  BY <1>15 DEF Connect, JoinOrDial, Seen
<1>16. CASE Disconnect
  BY <1>16 DEF Disconnect, Release, Seen, Stopped
<1>17. CASE Register
  BY <1>17 DEF Register, SocketGood
<1>18. ASSUME NEW s \in Sockets, SocketDrops(s) PROVE FlagsTyped'
  BY <1>18 DEF SocketDrops, Fault
<1>19. ASSUME NEW s \in Sockets, HandleClosed(s) PROVE FlagsTyped'
  <2>1. CASE s # handle \/ manualDisconnect
    BY <1>19, <2>1 DEF HandleClosed
  <2>2. CASE ~(s # handle \/ manualDisconnect)
    BY <1>19, <2>2 DEF ScheduleReconnect, SetTimer, HandleClosed, Seen
  <2> QED BY <2>1, <2>2
<1>20. ASSUME NEW w \in Waiters, WaitReady(w) \/ WaitTimesOut(w) PROVE FlagsTyped'
  BY <1>20 DEF WaitReady, WaitTimesOut
<1>21. CASE UNCHANGED vars
  BY <1>21 DEF vars
<1> QED BY <1>1, <1>2, <1>3, <1>4, <1>5, <1>6, <1>7, <1>8, <1>9, <1>10, <1>11, <1>12,
           <1>13, <1>14, <1>15, <1>16, <1>17, <1>18, <1>19, <1>20, <1>21 DEF Next,
           Calling, Dialling, Attempting

LEMMA ChangeTyped ==
  ASSUME task \in [Attempts -> AttemptRecord], NEW t \in Attempts, NEW r \in AttemptRecord,
         task' = [task EXCEPT ![t] = r]
  PROVE  task' \in [Attempts -> AttemptRecord]
  OBVIOUS

LEMMA EndedTyped ==
  ASSUME task \in [Attempts -> AttemptRecord], NEW t \in Attempts
  PROVE  Ended(t) \in [Attempts -> AttemptRecord]
<1>1. NoTask \in AttemptRecord
  BY CountAssumption DEF AttemptRecord
<1> QED BY <1>1

LEMMA TasksTypedNext ==
  ASSUME TasksTyped, CountsTyped, [Next]_vars
  PROVE  TasksTyped'
<1>0. /\ generation \in Nat /\ attempts \in Nat /\ 0 \in 0..Components
      /\ 0 \in 0..MaxSockets /\ 1 \in 1..(Components + 1)
  BY CountAssumption DEF CountsTyped
<1> USE <1>0 DEF TasksTyped, AttemptRecord
<1>1. CASE ConnectReturns
  BY <1>1 DEF ConnectReturns, MarkReady
<1>2. CASE ConnectRaises
  BY <1>2 DEF ConnectRaises
<1>3. CASE DialSucceeds
  <2>1. PICK s \in Sockets :
          /\ Opened(s) /\ socket' = [socket EXCEPT ![s] = "open"]
          /\ IF dial.gen # generation \/ manualDisconnect
               THEN /\ dial' = [dial EXCEPT !.pc = "discarding", !.sock = s]
                    /\ UNCHANGED <<handle, restored, isConnected, attempts, caller, task>>
               ELSE /\ handle' = s /\ restored' = {} /\ isConnected' = TRUE /\ attempts' = 0
                    /\ dial' = NoDial /\ Tell("connected")
    BY <1>3 DEF DialSucceeds
  <2>2. CASE dial.gen # generation \/ manualDisconnect
    <3>1. s \in 0..MaxSockets
      BY CountAssumption
    <3>2. dial' \in [pc : {"none", "dialing", "discarding"}, gen : Nat, sock : 0..MaxSockets]
      BY <2>1, <2>2, <3>1
    <3> QED BY <1>3, <2>1, <2>2, <3>2 DEF DialSucceeds
  <2>3. CASE ~(dial.gen # generation \/ manualDisconnect)
    BY <1>3, <2>1, <2>3 DEF DialSucceeds, Tell
  <2> QED BY <2>2, <2>3
<1>4. CASE DialDiscarded
  BY <1>4 DEF DialDiscarded, Tell
<1>5. CASE DialFails
  BY <1>5 DEF DialFails, Fault, Tell
<1>6. CASE DisconnectReturns
  BY <1>6 DEF DisconnectReturns
<1>7. ASSUME NEW t \in Attempts, TimerFires(t) PROVE TasksTyped'
  <2>1. \A u \in Attempts : Forgotten(task[u]) \in AttemptRecord
    BY DEF Forgotten
  <2>2. [task[t] EXCEPT !.pc = "start", !.held = TRUE] \in AttemptRecord
    OBVIOUS
  <2>3. \A u \in Attempts :
          (IF u = t THEN [task[t] EXCEPT !.pc = "start", !.held = TRUE] ELSE Forgotten(task[u]))
            \in AttemptRecord
    BY <2>1, <2>2
  <2>4. task' \in [Attempts -> AttemptRecord]
    <3> HIDE DEF AttemptRecord
    <3> QED BY <1>7, <2>3 DEF TimerFires
  <2> QED BY <1>7, <2>4 DEF TimerFires
<1>8. ASSUME NEW t \in Attempts, AttemptStarts(t) PROVE TasksTyped'
  <2>1. task' = [task EXCEPT ![t] = [task[t] EXCEPT !.pc = "connect", !.attempt = attempts]]
    BY <1>8 DEF AttemptStarts
  <2>2. [task[t] EXCEPT !.pc = "connect", !.attempt = attempts] \in AttemptRecord
    BY DEF AttemptRecord
  <2>3. task' \in [Attempts -> AttemptRecord]
    BY <2>1, <2>2, ChangeTyped
  <2> QED BY <1>8, <2>3 DEF AttemptStarts, JoinOrDial
<1>9. ASSUME NEW t \in Attempts, RestorationStarts(t) PROVE TasksTyped'
  <2>1. task' = [task EXCEPT ![t] = [task[t] EXCEPT !.pc = "restore", !.gen = generation, !.next = 1, !.last = registered]]
    BY <1>9 DEF RestorationStarts
  <2>2. [task[t] EXCEPT !.pc = "restore", !.gen = generation, !.next = 1, !.last = registered] \in AttemptRecord
    BY CountAssumption DEF AttemptRecord, CountsTyped
  <2>3. task' \in [Attempts -> AttemptRecord]
    BY <2>1, <2>2, ChangeTyped
  <2> QED BY <1>9, <2>3 DEF RestorationStarts
<1>10. ASSUME NEW t \in Attempts, RestorerRuns(t) PROVE TasksTyped'
  <2>1. CASE task[t].next <= task[t].last
    <3>1. task[t].next + 1 \in 1..(Components + 1)
      BY <2>1, CountAssumption DEF CountsTyped
    <3>2. task' = [task EXCEPT ![t] = [task[t] EXCEPT !.next = @ + 1]]
      BY <1>10, <2>1 DEF RestorerRuns
    <3>3. task' \in [Attempts -> AttemptRecord]
      BY <3>1, <3>2, ChangeTyped
    <3> QED BY <1>10, <3>3 DEF RestorerRuns
  <2>2. CASE ~(task[t].next <= task[t].last)
    BY <1>10, <2>2 DEF RestorerRuns
  <2> QED BY <2>1, <2>2
<1>11. ASSUME NEW t \in Attempts, Reconnected(t) PROVE TasksTyped'
  BY <1>11 DEF Reconnected, MarkReady, SocketGood
<1>12. ASSUME NEW t \in Attempts, AttemptFails(t) PROVE TasksTyped'
  <2>1. Ended(t) \in [Attempts -> AttemptRecord]
    BY EndedTyped
  <2>2. CASE manualDisconnect
    BY <1>12, <2>1, <2>2 DEF AttemptFails
  <2>3. CASE ~manualDisconnect /\ handle = 0
    <3>1. ScheduleReconnect(FALSE, task[t].attempt, Ended(t))
      BY <1>12, <2>3 DEF AttemptFails
    <3>2. CASE task' = Ended(t)
      BY <1>12, <2>1, <3>2 DEF AttemptFails
    <3>3. CASE SetTimer(Ended(t))
      BY <1>12, <2>1, <3>3, TimerTyped DEF AttemptFails
    <3> QED BY <3>1, <3>2, <3>3 DEF ScheduleReconnect
  <2>4. CASE ~manualDisconnect /\ handle # 0
    BY <1>12, <2>4 DEF AttemptFails
  <2> QED BY <2>2, <2>3, <2>4
<1>13. ASSUME NEW t \in Attempts, GenerationDiscarded(t) PROVE TasksTyped'
  <2>1. Ended(t) \in [Attempts -> AttemptRecord]
    BY EndedTyped
  <2>2. ScheduleReconnect(FALSE, task[t].attempt, Ended(t))
    BY <1>13 DEF GenerationDiscarded
  <2>3. CASE task' = Ended(t)
    BY <1>13, <2>1, <2>3 DEF GenerationDiscarded
  <2>4. CASE SetTimer(Ended(t))
    BY <1>13, <2>1, <2>4, TimerTyped DEF GenerationDiscarded
  <2> QED BY <2>2, <2>3, <2>4 DEF ScheduleReconnect
<1>14. ASSUME NEW t \in Attempts, AttemptCancelled(t) PROVE TasksTyped'
  BY <1>14 DEF AttemptCancelled, Release
<1>15. CASE Connect
  BY <1>15 DEF Connect, JoinOrDial, Seen
<1>16. CASE Disconnect
  BY <1>16 DEF Disconnect, Release, Seen, Stopped
<1>17. CASE Register
  BY <1>17 DEF Register, SocketGood
<1>18. ASSUME NEW s \in Sockets, SocketDrops(s) PROVE TasksTyped'
  BY <1>18 DEF SocketDrops, Fault
<1>19. ASSUME NEW s \in Sockets, HandleClosed(s) PROVE TasksTyped'
  <2>1. CASE s # handle \/ manualDisconnect
    BY <1>19, <2>1 DEF HandleClosed
  <2>2. CASE ~(s # handle \/ manualDisconnect)
    <3>1. ScheduleReconnect(isReconnecting, attempts, task)
      BY <1>19, <2>2 DEF HandleClosed
    <3>2. CASE task' = task
      BY <1>19, <3>2 DEF HandleClosed
    <3>3. CASE SetTimer(task)
      BY <1>19, <3>3, TimerTyped DEF HandleClosed
    <3> QED BY <3>1, <3>2, <3>3 DEF ScheduleReconnect
  <2> QED BY <2>1, <2>2
<1>20. ASSUME NEW w \in Waiters, WaitReady(w) \/ WaitTimesOut(w) PROVE TasksTyped'
  BY <1>20 DEF WaitReady, WaitTimesOut
<1>21. CASE UNCHANGED vars
  BY <1>21 DEF vars
<1> QED BY <1>1, <1>2, <1>3, <1>4, <1>5, <1>6, <1>7, <1>8, <1>9, <1>10, <1>11, <1>12,
           <1>13, <1>14, <1>15, <1>16, <1>17, <1>18, <1>19, <1>20, <1>21 DEF Next,
           Calling, Dialling, Attempting

LEMMA CountsTypedNext ==
  ASSUME TasksTyped, CountsTyped, [Next]_vars
  PROVE  CountsTyped'
<1> USE CountAssumption DEF CountsTyped, TasksTyped, AttemptRecord, Windows
<1>1. CASE ConnectReturns
  BY <1>1 DEF ConnectReturns, MarkReady
<1>2. CASE ConnectRaises
  BY <1>2 DEF ConnectRaises
<1>3. CASE DialSucceeds
  <2>1. PICK s \in Sockets :
          /\ Opened(s) /\ socket' = [socket EXCEPT ![s] = "open"]
          /\ IF dial.gen # generation \/ manualDisconnect
               THEN /\ dial' = [dial EXCEPT !.pc = "discarding", !.sock = s]
                    /\ UNCHANGED <<handle, restored, isConnected, attempts, caller, task>>
               ELSE /\ handle' = s /\ restored' = {} /\ isConnected' = TRUE /\ attempts' = 0
                    /\ dial' = NoDial /\ Tell("connected")
    BY <1>3 DEF DialSucceeds
  <2>2. CASE dial.gen # generation \/ manualDisconnect
    BY <1>3, <2>1, <2>2 DEF DialSucceeds, Opened
  <2>3. CASE ~(dial.gen # generation \/ manualDisconnect)
    BY <1>3, <2>1, <2>3 DEF DialSucceeds, Opened, Tell
  <2> QED BY <2>2, <2>3
<1>4. CASE DialDiscarded
  BY <1>4 DEF DialDiscarded, Tell
<1>5. CASE DialFails
  BY <1>5 DEF DialFails, Fault, Tell
<1>6. CASE DisconnectReturns
  BY <1>6 DEF DisconnectReturns
<1>7. ASSUME NEW t \in Attempts, TimerFires(t) PROVE CountsTyped'
  BY <1>7 DEF TimerFires, Forgotten
<1>8. ASSUME NEW t \in Attempts, AttemptStarts(t) PROVE CountsTyped'
  BY <1>8 DEF AttemptStarts, JoinOrDial
<1>9. ASSUME NEW t \in Attempts, RestorationStarts(t) PROVE CountsTyped'
  BY <1>9 DEF RestorationStarts
<1>10. ASSUME NEW t \in Attempts, RestorerRuns(t) PROVE CountsTyped'
  BY <1>10 DEF RestorerRuns
<1>11. ASSUME NEW t \in Attempts, Reconnected(t) PROVE CountsTyped'
  BY <1>11 DEF Reconnected, MarkReady, SocketGood
<1>12. ASSUME NEW t \in Attempts, AttemptFails(t) PROVE CountsTyped'
  <2>1. CASE manualDisconnect
    BY <1>12, <2>1 DEF AttemptFails, AttemptBreaks, Fault
  <2>2. CASE ~manualDisconnect /\ handle = 0
    BY <1>12, <2>2 DEF ScheduleReconnect, SetTimer, AttemptFails, AttemptBreaks, Fault
  <2>3. CASE ~manualDisconnect /\ handle # 0
    BY <1>12, <2>3 DEF AttemptFails, AttemptBreaks, Fault
  <2> QED BY <2>1, <2>2, <2>3
<1>13. ASSUME NEW t \in Attempts, GenerationDiscarded(t) PROVE CountsTyped'
  BY <1>13 DEF ScheduleReconnect, SetTimer, GenerationDiscarded
<1>14. ASSUME NEW t \in Attempts, AttemptCancelled(t) PROVE CountsTyped'
  BY <1>14 DEF AttemptCancelled, Release
<1>15. CASE Connect
  BY <1>15 DEF Connect, JoinOrDial, Seen
<1>16. CASE Disconnect
  BY <1>16 DEF Disconnect, Release, Seen, Stopped
<1>17. CASE Register
  BY <1>17 DEF Register, SocketGood
<1>18. ASSUME NEW s \in Sockets, SocketDrops(s) PROVE CountsTyped'
  BY <1>18 DEF SocketDrops, Fault
<1>19. ASSUME NEW s \in Sockets, HandleClosed(s) PROVE CountsTyped'
  <2>1. CASE s # handle \/ manualDisconnect
    BY <1>19, <2>1 DEF HandleClosed
  <2>2. CASE ~(s # handle \/ manualDisconnect)
    BY <1>19, <2>2 DEF ScheduleReconnect, SetTimer, HandleClosed, Seen
  <2> QED BY <2>1, <2>2
<1>20. ASSUME NEW w \in Waiters, WaitReady(w) \/ WaitTimesOut(w) PROVE CountsTyped'
  BY <1>20 DEF WaitReady, WaitTimesOut
<1>21. CASE UNCHANGED vars
  BY <1>21 DEF vars
<1> QED BY <1>1, <1>2, <1>3, <1>4, <1>5, <1>6, <1>7, <1>8, <1>9, <1>10, <1>11, <1>12,
           <1>13, <1>14, <1>15, <1>16, <1>17, <1>18, <1>19, <1>20, <1>21 DEF Next,
           Calling, Dialling, Attempting

LEMMA MapsTypedNext ==
  ASSUME CountsTyped, TasksTyped, MapsTyped, [Next]_vars
  PROVE  MapsTyped'
<1>0. registered \in 0..Components /\ 0 \in 0..MaxSockets
  BY CountAssumption DEF CountsTyped
<1> USE <1>0 DEF MapsTyped, TasksTyped, AttemptRecord
<1>1. CASE ConnectReturns
  BY <1>1 DEF ConnectReturns, MarkReady
<1>2. CASE ConnectRaises
  BY <1>2 DEF ConnectRaises
<1>3. CASE DialSucceeds
  <2>1. PICK s \in Sockets :
          /\ Opened(s) /\ socket' = [socket EXCEPT ![s] = "open"]
          /\ IF dial.gen # generation \/ manualDisconnect
               THEN /\ dial' = [dial EXCEPT !.pc = "discarding", !.sock = s]
                    /\ UNCHANGED <<handle, restored, isConnected, attempts, caller, task>>
               ELSE /\ handle' = s /\ restored' = {} /\ isConnected' = TRUE /\ attempts' = 0
                    /\ dial' = NoDial /\ Tell("connected")
    BY <1>3 DEF DialSucceeds
  <2>2. CASE dial.gen # generation \/ manualDisconnect
    BY <1>3, <2>1, <2>2 DEF DialSucceeds, Opened
  <2>3. CASE ~(dial.gen # generation \/ manualDisconnect)
    BY <1>3, <2>1, <2>3 DEF DialSucceeds, Opened, Tell
  <2> QED BY <2>2, <2>3
<1>4. CASE DialDiscarded
  BY <1>4 DEF DialDiscarded, Tell
<1>5. CASE DialFails
  BY <1>5 DEF DialFails, Fault, Tell
<1>6. CASE DisconnectReturns
  BY <1>6 DEF DisconnectReturns
<1>7. ASSUME NEW t \in Attempts, TimerFires(t) PROVE MapsTyped'
  BY <1>7 DEF TimerFires, Forgotten
<1>8. ASSUME NEW t \in Attempts, AttemptStarts(t) PROVE MapsTyped'
  BY <1>8 DEF AttemptStarts, JoinOrDial
<1>9. ASSUME NEW t \in Attempts, RestorationStarts(t) PROVE MapsTyped'
  BY <1>9 DEF RestorationStarts
<1>10. ASSUME NEW t \in Attempts, RestorerRuns(t) PROVE MapsTyped'
  <2>1. CASE task[t].next <= task[t].last
    <3>1. task[t].next \in 1..Components
      BY <2>1, CountAssumption
    <3>2. restored' = restored \cup {task[t].next}
      BY <1>10, <2>1 DEF RestorerRuns
    <3>3. restored' \subseteq 1..Components
      BY <3>1, <3>2
    <3> QED BY <1>10, <3>3 DEF RestorerRuns
  <2>2. CASE ~(task[t].next <= task[t].last)
    BY <1>10, <2>2 DEF RestorerRuns
  <2> QED BY <2>1, <2>2
<1>11. ASSUME NEW t \in Attempts, Reconnected(t) PROVE MapsTyped'
  BY <1>11 DEF Reconnected, MarkReady, SocketGood
<1>12. ASSUME NEW t \in Attempts, AttemptFails(t) PROVE MapsTyped'
  <2>1. CASE manualDisconnect
    BY <1>12, <2>1 DEF AttemptFails, AttemptBreaks, Fault
  <2>2. CASE ~manualDisconnect /\ handle = 0
    BY <1>12, <2>2 DEF ScheduleReconnect, SetTimer, AttemptFails, AttemptBreaks, Fault
  <2>3. CASE ~manualDisconnect /\ handle # 0
    BY <1>12, <2>3 DEF AttemptFails, AttemptBreaks, Fault
  <2> QED BY <2>1, <2>2, <2>3
<1>13. ASSUME NEW t \in Attempts, GenerationDiscarded(t) PROVE MapsTyped'
  BY <1>13 DEF ScheduleReconnect, SetTimer, GenerationDiscarded
<1>14. ASSUME NEW t \in Attempts, AttemptCancelled(t) PROVE MapsTyped'
  BY <1>14 DEF AttemptCancelled, Release
<1>15. CASE Connect
  BY <1>15 DEF Connect, JoinOrDial, Seen
<1>16. CASE Disconnect
  BY <1>16 DEF Disconnect, Release, Seen, Stopped
<1>17. CASE Register
  <2>1. registered + 1 \in 1..Components
    BY <1>17, CountAssumption DEF Register, CountsTyped
  <2>2. restored' \subseteq 1..Components
    BY <1>17, <2>1 DEF Register
  <2> QED BY <1>17, <2>2 DEF Register
<1>18. ASSUME NEW s \in Sockets, SocketDrops(s) PROVE MapsTyped'
  BY <1>18 DEF SocketDrops, Fault
<1>19. ASSUME NEW s \in Sockets, HandleClosed(s) PROVE MapsTyped'
  <2>1. CASE s # handle \/ manualDisconnect
    BY <1>19, <2>1 DEF HandleClosed
  <2>2. CASE ~(s # handle \/ manualDisconnect)
    BY <1>19, <2>2 DEF ScheduleReconnect, SetTimer, HandleClosed, Seen
  <2> QED BY <2>1, <2>2
<1>20. ASSUME NEW w \in Waiters, WaitReady(w) \/ WaitTimesOut(w) PROVE MapsTyped'
  BY <1>20 DEF WaitReady, WaitTimesOut
<1>21. CASE UNCHANGED vars
  BY <1>21 DEF vars
<1> QED BY <1>1, <1>2, <1>3, <1>4, <1>5, <1>6, <1>7, <1>8, <1>9, <1>10, <1>11, <1>12,
           <1>13, <1>14, <1>15, <1>16, <1>17, <1>18, <1>19, <1>20, <1>21 DEF Next,
           Calling, Dialling, Attempting

LEMMA TypeKept == TypeOK /\ [Next]_vars => TypeOK'
  BY FlagsTypedNext, TasksTypedNext, CountsTypedNext, MapsTypedNext DEF TypeOK

--------------------------------------------------------------------------------
(* What the steps are while there is one attempt at most. *)

\* The windows that have occurred stay on record.
LEMMA WindowsStay == [Next]_vars => windows \subseteq windows'
<1> SUFFICES ASSUME [Next]_vars PROVE windows \subseteq windows'
  OBVIOUS
<1>1. CASE Calling \/ Dialling \/ DisconnectReturns
  BY <1>1 DEF Calling, ConnectReturns, ConnectRaises, Dialling, DialSucceeds, DialDiscarded,
     DialFails, Fault, DisconnectReturns
<1>2. ASSUME NEW t \in Attempts, Attempting(t) PROVE windows \subseteq windows'
  BY <1>2 DEF Attempting, TimerFires, AttemptStarts, RestorationStarts, RestorerRuns,
     Reconnected, AttemptFails, AttemptBreaks, Fault, GenerationDiscarded, AttemptCancelled
<1>3. CASE Connect \/ Disconnect \/ Register
  BY <1>3 DEF Connect, Disconnect, Register, Seen
<1>4. ASSUME NEW s \in Sockets, SocketDrops(s) \/ HandleClosed(s)
      PROVE  windows \subseteq windows'
  BY <1>4 DEF SocketDrops, Fault, HandleClosed, Seen
<1>5. CASE (\E w \in Waiters : WaitReady(w) \/ WaitTimesOut(w)) \/ UNCHANGED vars
  BY <1>5 DEF WaitReady, WaitTimesOut, vars
<1> QED BY <1>1, <1>2, <1>3, <1>4, <1>5 DEF Next

LEMMA OwnedBefore == ASSUME OneOwner', [Next]_vars PROVE OneOwner
  BY WindowsStay DEF OneOwner

LEMMA InformedBefore == ASSUME Informed', [Next]_vars PROVE Informed
  BY WindowsStay DEF Informed

\* The attempts, when it is r that stands for the only one.
Only(r) == [t \in Attempts |-> IF t = 1 THEN r ELSE NoTask]

Timed == [NoTask EXCEPT !.pc = "timer", !.held = TRUE]

\* The only attempt becomes r.
Becomes(r) == task' = Only(r) /\ rtask' = r

\* What _schedule_reconnect does when no attempt is alive: nothing more, or a timer.
Rests(tried) ==
  /\ manualDisconnect \/ (MaxAttempts > 0 /\ tried >= MaxAttempts)
  /\ isReconnecting' = FALSE /\ attempts' = tried /\ Becomes(NoTask)
Retries(tried) ==
  /\ ~manualDisconnect /\ (MaxAttempts > 0 => tried < MaxAttempts)
  /\ isReconnecting' = TRUE /\ attempts' = tried + 1 /\ Becomes(Timed)
Rescheduled(tried) == Rests(tried) \/ Retries(tried)

\* The dial tells connect() and the attempt how it ended.
Answered(how) ==
  /\ caller' = IF caller = "connect" THEN how ELSE caller
  /\ Becomes(IF rtask.pc = "connect" THEN [rtask EXCEPT !.pc = how] ELSE rtask)

LoneDialSucceeds(s) ==
  /\ dial.pc = "dialing" /\ Opened(s) /\ socket' = [socket EXCEPT ![s] = "open"]
  /\ IF dial.gen # generation \/ manualDisconnect
       THEN /\ dial' = [dial EXCEPT !.pc = "discarding", !.sock = s]
            /\ UNCHANGED <<handle, restored, isConnected, attempts, caller, task, rtask>>
       ELSE /\ handle' = s /\ restored' = {} /\ isConnected' = TRUE /\ attempts' = 0
            /\ dial' = NoDial /\ Answered("connected")
  /\ UNCHANGED <<isReconnecting, isReady, manualDisconnect, generation, closer, registered,
                 streak>>

LoneDialDiscarded ==
  /\ dial.pc = "discarding" /\ socket' = Close(dial.sock) /\ dial' = NoDial
  /\ Answered("refused")
  /\ UNCHANGED <<handle, flags, generation, attempts, closer, topology, streak>>

LoneDialFails ==
  /\ dial.pc = "dialing" /\ isConnected' = FALSE /\ dial' = NoDial /\ Answered("refused")
  /\ UNCHANGED <<handle, socket, isReconnecting, isReady, manualDisconnect, generation,
                 attempts, closer, topology, streak>>

LoneTimerFires ==
  /\ rtask.pc = "timer" /\ Becomes([rtask EXCEPT !.pc = "start", !.held = TRUE])
  /\ UNCHANGED <<handle, socket, flags, generation, attempts, dial, caller, closer, topology,
                 streak>>

LoneAttemptStarts ==
  /\ rtask.pc = "start" /\ Becomes([rtask EXCEPT !.pc = "connect", !.attempt = attempts])
  /\ JoinOrDial
  /\ UNCHANGED <<handle, socket, flags, generation, attempts, caller, closer, topology, streak>>

LoneRestorationStarts ==
  /\ rtask.pc = "connected"
  /\ Becomes([rtask EXCEPT !.pc = "restore", !.gen = generation, !.next = 1,
                           !.last = registered])
  /\ UNCHANGED <<handle, socket, flags, generation, attempts, dial, caller, closer, topology,
                 streak>>

LoneRestorerRuns ==
  /\ rtask.pc = "restore"
  /\ \/ /\ rtask.next <= rtask.last /\ rtask.gen = generation
        /\ restored' = restored \cup {rtask.next}
        /\ Becomes([rtask EXCEPT !.next = rtask.next + 1])
     \/ /\ rtask.next > rtask.last /\ restored' = restored
        /\ Becomes([rtask EXCEPT !.pc = "check"])
  /\ UNCHANGED <<handle, socket, flags, generation, attempts, dial, caller, closer,
                 registered, streak>>

LoneReconnected ==
  /\ rtask.pc = "check" /\ rtask.gen = generation /\ SocketGood
  /\ Becomes(NoTask) /\ isReconnecting' = FALSE /\ isReady' = TRUE /\ streak' = 0
  /\ UNCHANGED <<handle, socket, isConnected, manualDisconnect, generation, attempts, dial,
                 caller, closer, topology>>

LoneAttemptFails ==
  /\ rtask.pc \in {"refused", "restore", "check"} /\ ~manualDisconnect
  /\ generation' = generation + 1 /\ isReady' = FALSE /\ isConnected' = FALSE
  /\ handle' = 0 /\ restored' = {} /\ socket' = Close(handle) /\ streak' = streak + 1
  /\ \/ handle = 0 /\ Rescheduled(rtask.attempt)
     \/ /\ handle # 0 /\ Becomes([rtask EXCEPT !.pc = "discard"])
        /\ UNCHANGED <<isReconnecting, attempts>>
  /\ UNCHANGED <<manualDisconnect, dial, caller, closer, registered>>

LoneGenerationDiscarded ==
  /\ rtask.pc = "discard" /\ Rescheduled(rtask.attempt)
  /\ UNCHANGED <<handle, socket, isConnected, isReady, manualDisconnect, generation, dial,
                 caller, closer, topology, streak>>

LoneAttemptCancelled ==
  /\ rtask.pc = "cancelled" /\ Becomes(NoTask) /\ Release
  /\ UNCHANGED <<manualDisconnect, generation, attempts, dial, caller, registered, streak>>

LoneConnect ==
  /\ rtask.pc = "none" /\ caller = "idle" /\ closer = "idle" /\ ~isConnected
  /\ Informed' => registered = 0
  /\ manualDisconnect' = FALSE /\ caller' = "connect" /\ JoinOrDial
  /\ UNCHANGED <<handle, socket, isConnected, isReconnecting, isReady, generation, attempts,
                 task, rtask, closer, topology, streak>>

LoneDisconnect ==
  /\ closer = "idle" /\ manualDisconnect' = TRUE /\ generation' = generation + 1
  /\ Informed' => caller # "connected"
  /\ \/ rtask.pc \in {"none", "timer"} /\ Becomes(NoTask) /\ Release
     \/ /\ rtask.pc \notin {"none", "timer"}
        /\ Becomes([NoTask EXCEPT !.pc = "cancelled"]) /\ closer' = "cancelling"
        /\ UNCHANGED <<handle, restored, socket, isConnected, isReconnecting, isReady>>
  /\ UNCHANGED <<attempts, dial, caller, registered, streak>>

Closes(s) ==
  /\ socket[s] = "dropped" /\ socket' = [socket EXCEPT ![s] = "closed"]
  /\ UNCHANGED <<handle, manualDisconnect, dial, caller, closer, topology, streak>>

Lost(s) ==
  /\ s = handle /\ ~manualDisconnect /\ caller # "connected"
  /\ isConnected' = FALSE /\ isReady' = FALSE /\ generation' = generation + 1

LoneHandleClosed(s) ==
  /\ Closes(s)
  /\ \/ /\ s # handle \/ manualDisconnect
        /\ UNCHANGED <<flags, generation, attempts, task, rtask>>
     \/ Lost(s) /\ isReconnecting /\ UNCHANGED <<isReconnecting, attempts, task, rtask>>
     \/ Lost(s) /\ ~isReconnecting /\ Rescheduled(attempts)

\* The steps that leave the attempt alone.
Quiet == ConnectReturns \/ ConnectRaises \/ DisconnectReturns \/ Register
         \/ (\E s \in Sockets : SocketDrops(s))
         \/ (\E w \in Waiters : WaitReady(w) \/ WaitTimesOut(w)) \/ UNCHANGED vars

\* What a step is while there is one attempt at most and no window has opened.
LoneStep ==
  /\ Informed' => Informed
  /\ \/ Quiet /\ UNCHANGED <<task, rtask>>
     \/ (\E s \in Sockets : LoneDialSucceeds(s)) \/ LoneDialDiscarded \/ LoneDialFails
     \/ LoneTimerFires \/ LoneAttemptStarts \/ LoneRestorationStarts \/ LoneRestorerRuns
     \/ LoneReconnected \/ LoneAttemptFails \/ LoneGenerationDiscarded
     \/ LoneAttemptCancelled \/ LoneConnect \/ LoneDisconnect
     \/ (\E s \in Sockets : LoneHandleClosed(s))

LEMMA AloneIs ==
  ASSUME TasksTyped, Alone
  PROVE  task = Only(rtask) /\ Ended(1) = Only(NoTask) /\ rtask \in AttemptRecord
  BY OneIn DEF TasksTyped, Alone, Only, rtask

LEMMA OnlyIs == ASSUME NEW r, task' = Only(r) PROVE Becomes(r)
  BY OneIn DEF Becomes, Only, rtask

LEMMA TaskStays == UNCHANGED task => rtask' = rtask
  BY DEF rtask

LEMMA ScheduleIs ==
  ASSUME NEW tried \in Nat, ScheduleReconnect(FALSE, tried, Only(NoTask))
  PROVE  Rescheduled(tried)
<1> USE CountAssumption, OneIn
<1>1. ASSUME SetTimer(Only(NoTask)) PROVE task' = Only(Timed)
  <2>1. PICK t \in Attempts :
          /\ \A u \in 1..(t - 1) : Only(NoTask)[u] # NoTask
          /\ task' = [u \in Attempts |->
                        IF u = t THEN Timed
                        ELSE IF Only(NoTask)[u].pc = "timer"
                          THEN Forgotten(Only(NoTask)[u])
                        ELSE Only(NoTask)[u]]
    BY <1>1 DEF SetTimer, Timed
  <2>2. \A u \in Attempts : Only(NoTask)[u] = NoTask
    BY DEF Only
  <2>3. t = 1
    <3>1. SUFFICES ASSUME t # 1 PROVE FALSE
      OBVIOUS
    <3>2. 1 \in 1..(t - 1)
      BY <3>1 DEF Attempts
    <3> QED BY <2>1, <2>2, <3>2
  <2> QED BY <2>1, <2>2, <2>3 DEF Only
<1>2. CASE task' = Only(NoTask)
  <2>1. Becomes(NoTask)
    BY <1>2, OnlyIs
  <2>2. task' # Only(Timed)
    <3>1. Only(NoTask)[1].pc = "none" /\ Only(Timed)[1].pc = "timer"
      BY DEF Only, Timed
    <3> QED BY <1>2, <3>1
  <2> QED BY <1>1, <2>1, <2>2 DEF ScheduleReconnect, Rescheduled, Rests, Retries
<1>3. CASE SetTimer(Only(NoTask))
  <2>1. Becomes(Timed) /\ task' = Only(Timed)
    BY <1>1, <1>3, OnlyIs
  <2>2. Only(NoTask) # Only(Timed)
    <3>1. Only(NoTask)[1].pc = "none" /\ Only(Timed)[1].pc = "timer"
      BY DEF Only, Timed
    <3> QED BY <3>1
  <2> QED BY <2>1, <2>2 DEF ScheduleReconnect, Rescheduled, Rests, Retries
<1> QED BY <1>2, <1>3 DEF ScheduleReconnect

\* What the other steps of the attempt make of it.
LEMMA MovesAre ==
  ASSUME TasksTyped, Alone
  PROVE  /\ TimerFires(1) => LoneTimerFires
         /\ AttemptStarts(1) => LoneAttemptStarts
         /\ RestorationStarts(1) => LoneRestorationStarts
         /\ RestorerRuns(1) => LoneRestorerRuns
         /\ Reconnected(1) => LoneReconnected
         /\ AttemptCancelled(1) => LoneAttemptCancelled
<1>1. /\ \A t \in Attempts : task[t] = IF t = 1 THEN rtask ELSE NoTask
      /\ task = Only(rtask) /\ Ended(1) = Only(NoTask)
  BY AloneIs, OneIn DEF Only
<1>2. \A r : [task EXCEPT ![1] = r] = Only(r)
  BY <1>1, OneIn DEF Only
<1>3. ASSUME TimerFires(1)
      PROVE  LoneTimerFires
  <2>1. \A u \in Attempts : u # 1 => Forgotten(task[u]) = NoTask
    BY <1>1 DEF Forgotten
  <2>2. task' = Only([rtask EXCEPT !.pc = "start", !.held = TRUE])
    BY <1>1, <1>3, <2>1 DEF TimerFires, Only
  <2> QED BY <1>3, <2>2, OnlyIs DEF TimerFires, rtask, LoneTimerFires
<1>4. ASSUME AttemptStarts(1)
      PROVE  LoneAttemptStarts
  <2>1. task' = [task EXCEPT ![1] = [rtask EXCEPT !.pc = "connect", !.attempt = attempts]]
    BY <1>4 DEF AttemptStarts, rtask
  <2> QED BY <1>2, <1>4, <2>1, OnlyIs DEF AttemptStarts, rtask, LoneAttemptStarts
<1>5. ASSUME RestorationStarts(1)
      PROVE  LoneRestorationStarts
  <2>1. task' = [task EXCEPT ![1] = [rtask EXCEPT !.pc = "restore", !.gen = generation,
                                                  !.next = 1, !.last = registered]]
    BY <1>5 DEF RestorationStarts, rtask
  <2> QED BY <1>2, <1>5, <2>1, OnlyIs DEF RestorationStarts, rtask, LoneRestorationStarts
<1>6. ASSUME RestorerRuns(1), rtask.next <= rtask.last
      PROVE  LoneRestorerRuns
  <2>1. task' = [task EXCEPT ![1] = [rtask EXCEPT !.next = rtask.next + 1]]
    BY <1>6 DEF RestorerRuns, rtask
  <2> QED BY <1>2, <1>6, <2>1, OnlyIs, AloneIs DEF RestorerRuns, rtask, LoneRestorerRuns, AttemptRecord
<1>7. ASSUME RestorerRuns(1), ~(rtask.next <= rtask.last)
      PROVE  LoneRestorerRuns
  <2>1. task' = [task EXCEPT ![1] = [rtask EXCEPT !.pc = "check"]]
    BY <1>7 DEF RestorerRuns, rtask
  <2> QED BY <1>2, <1>7, <2>1, OnlyIs, AloneIs DEF RestorerRuns, rtask, LoneRestorerRuns, AttemptRecord
<1>8. ASSUME Reconnected(1)
      PROVE  LoneReconnected
  BY <1>1, <1>8, OnlyIs DEF Reconnected, MarkReady, rtask, LoneReconnected
<1>9. ASSUME AttemptCancelled(1) PROVE LoneAttemptCancelled
  BY <1>1, <1>9, OnlyIs DEF AttemptCancelled, rtask, LoneAttemptCancelled
<1> QED BY <1>3, <1>4, <1>5, <1>6, <1>7, <1>8, <1>9

LEMMA TellIs == ASSUME TasksTyped, Alone, NEW how, Tell(how) PROVE Answered(how)
<1>1. \A t \in Attempts : task[t] = IF t = 1 THEN rtask ELSE NoTask
  BY AloneIs, OneIn DEF Only
<1>2. task' = Only(IF rtask.pc = "connect" THEN [rtask EXCEPT !.pc = how] ELSE rtask)
  BY <1>1 DEF Tell, Only
<1> QED BY <1>2, OnlyIs DEF Tell, Answered

LEMMA DialsAre ==
  ASSUME TasksTyped, Alone
  PROVE  /\ DialSucceeds => \E s \in Sockets : LoneDialSucceeds(s)
         /\ DialDiscarded => LoneDialDiscarded
         /\ DialFails => LoneDialFails
<1>1. ASSUME DialSucceeds PROVE \E s \in Sockets : LoneDialSucceeds(s)
  <2>1. PICK s \in Sockets :
          /\ Opened(s) /\ socket' = [socket EXCEPT ![s] = "open"]
          /\ IF dial.gen # generation \/ manualDisconnect
               THEN /\ dial' = [dial EXCEPT !.pc = "discarding", !.sock = s]
                    /\ UNCHANGED <<handle, restored, isConnected, attempts, caller, task>>
               ELSE /\ handle' = s /\ restored' = {} /\ isConnected' = TRUE /\ attempts' = 0
                    /\ dial' = NoDial /\ Tell("connected")
    BY <1>1 DEF DialSucceeds
  <2>2. Tell("connected") => Answered("connected")
    BY TellIs
  <2>3. LoneDialSucceeds(s)
    BY <1>1, <2>1, <2>2, TaskStays DEF DialSucceeds, LoneDialSucceeds
  <2> QED BY <2>3
<1>2. ASSUME DialDiscarded PROVE LoneDialDiscarded
  BY <1>2, TellIs DEF DialDiscarded, LoneDialDiscarded
<1>3. ASSUME DialFails PROVE LoneDialFails
  BY <1>3, TellIs DEF DialFails, LoneDialFails
<1> QED BY <1>1, <1>2, <1>3

LEMMA AttemptFailsIs ==
  ASSUME TasksTyped, Alone, CloserFits, AttemptFails(1)
  PROVE  LoneAttemptFails
<1>1. rtask.pc \in {"refused", "restore", "check"}
  BY DEF AttemptFails, AttemptBreaks, rtask
<1>2. ~manualDisconnect
  BY <1>1 DEF CloserFits
<1>3. ASSUME handle = 0 PROVE Rescheduled(rtask.attempt)
  <2>1. ScheduleReconnect(FALSE, rtask.attempt, Ended(1))
    BY <1>2, <1>3 DEF AttemptFails, rtask
  <2>2. rtask.attempt \in Nat /\ Ended(1) = Only(NoTask)
    BY AloneIs DEF AttemptRecord
  <2>3. ScheduleReconnect(FALSE, rtask.attempt, Only(NoTask))
    BY <2>1, <2>2
  <2> QED BY <2>2, <2>3, ScheduleIs
<1>4. ASSUME handle # 0 PROVE Becomes([rtask EXCEPT !.pc = "discard"])
  <2>1. task' = [task EXCEPT ![1].pc = "discard"]
    BY <1>2, <1>4 DEF AttemptFails
  <2>2. task = Only(rtask)
    BY AloneIs
  <2>3. task' = Only([rtask EXCEPT !.pc = "discard"])
    BY <2>1, <2>2, OneIn DEF Only
  <2> QED BY <2>3, OnlyIs
<1> QED BY <1>1, <1>2, <1>3, <1>4 DEF AttemptFails, LoneAttemptFails

LEMMA GenerationDiscardedIs ==
  ASSUME TasksTyped, Alone, GenerationDiscarded(1)
  PROVE  LoneGenerationDiscarded
<1>1. ScheduleReconnect(FALSE, rtask.attempt, Ended(1))
  BY DEF GenerationDiscarded, rtask
<1>2. rtask.attempt \in Nat /\ Ended(1) = Only(NoTask)
  BY AloneIs DEF AttemptRecord
<1>3. ScheduleReconnect(FALSE, rtask.attempt, Only(NoTask))
  BY <1>1, <1>2
<1> QED BY <1>2, <1>3, ScheduleIs DEF GenerationDiscarded, rtask, LoneGenerationDiscarded

LEMMA HandleClosedIs ==
  ASSUME FlagsTyped, TasksTyped, CountsTyped, Alone, Reconnecting, OneOwner',
         NEW s \in Sockets, HandleClosed(s)
  PROVE  LoneHandleClosed(s)
<1>1. socket' = [socket EXCEPT ![s] = "closed"]
  BY CountAssumption DEF HandleClosed
<1>2. CASE s # handle \/ manualDisconnect
  BY <1>1, <1>2, TaskStays DEF HandleClosed, LoneHandleClosed, Closes, Lost
<1>3. CASE ~(s # handle \/ manualDisconnect)
  <2>1. caller # "connected"
    <3>1. Seen({w \in {"lost"} : caller = "connected"})
      BY <1>3 DEF HandleClosed
    <3> QED BY <3>1 DEF Seen, OneOwner
  <2>2. ScheduleReconnect(isReconnecting, attempts, task)
    BY <1>3 DEF HandleClosed
  <2>3. CASE isReconnecting
    <3>1. isReconnecting' = isReconnecting /\ UNCHANGED <<attempts, task>>
      BY <2>2, <2>3 DEF ScheduleReconnect
    <3> QED BY <1>1, <1>3, <2>1, <2>3, <3>1, TaskStays DEF HandleClosed, LoneHandleClosed, Closes, Lost
  <2>4. CASE ~isReconnecting
    <3>1. rtask = NoTask
      BY <2>4 DEF Reconnecting, Alone
    <3>2. task = Only(NoTask)
      BY <3>1, AloneIs
    <3>3. ScheduleReconnect(FALSE, attempts, Only(NoTask))
      <4>1. isReconnecting = FALSE
        BY <2>4 DEF FlagsTyped
      <4> QED BY <2>2, <3>2, <4>1
    <3>4. Rescheduled(attempts)
      BY <3>3, ScheduleIs DEF CountsTyped
    <3> QED BY <1>1, <1>3, <2>1, <2>4, <3>4 DEF HandleClosed, LoneHandleClosed, Closes, Lost
  <2> QED BY <2>3, <2>4
<1> QED BY <1>2, <1>3

LEMMA ConnectIs ==
  ASSUME CountsTyped, Connect, OneOwner'
  PROVE  LoneConnect
<1>1. windows' = windows \cup {w \in Windows :
           \/ w = "again" /\ registered > 0
           \/ w = "during" /\ Alive # {}
           \/ w = "closing" /\ closer # "idle"}
  BY DEF Connect, Seen
<1>2. {"again", "during", "closing"} \subseteq Windows
  BY DEF Windows
<1>3. Alive = {} /\ closer = "idle"
  BY <1>1, <1>2 DEF OneOwner
<1>4. Informed' => ~(registered > 0)
  BY <1>1, <1>2 DEF Informed
<1>5. rtask.pc = "none"
  BY <1>3, OneIn DEF Alive, rtask
<1> QED BY <1>3, <1>4, <1>5, TaskStays DEF CountsTyped, Connect, LoneConnect

LEMMA DisconnectIs ==
  ASSUME TasksTyped, Alone, CloserFits, Disconnect
  PROVE  LoneDisconnect
<1>1. rtask \in AttemptRecord /\ task = Only(rtask)
  BY AloneIs
<1>2. \A t \in Attempts : t # 1 => Stopped(t) = NoTask
  BY DEF Alone, Stopped
<1>3. rtask.pc # "cancelled"
  BY DEF CloserFits, Disconnect
<1>4. rtask.pc \in {"none", "timer"} => Stopped(1) = NoTask
  BY DEF Alone, Stopped, rtask
<1>5. rtask.pc \notin {"none", "timer"} => Stopped(1) = [NoTask EXCEPT !.pc = "cancelled"]
  BY <1>3 DEF Alone, Stopped, rtask
<1>6. task' = [t \in Attempts |-> Stopped(t)]
  BY DEF Disconnect
<1>7. Informed' => caller # "connected"
  <2>1. windows' = windows \cup {w \in {"closed"} : caller = "connected"}
    BY DEF Disconnect, Seen
  <2> QED BY <2>1 DEF Informed
<1>8. CASE rtask.pc \in {"none", "timer"}
  <2>1. \A t \in Attempts : Stopped(t) = NoTask
    BY <1>2, <1>4, <1>8
  <2>2. task' = Only(NoTask) /\ ~\E t \in Attempts : Stopped(t).pc = "cancelled"
    BY <1>6, <2>1 DEF Only
  <2> QED BY <1>7, <1>8, <2>2, OnlyIs DEF Disconnect, LoneDisconnect
<1>9. CASE rtask.pc \notin {"none", "timer"}
  <2>1. Stopped(1).pc = "cancelled"
    BY <1>5, <1>9
  <2>2. task' = Only([NoTask EXCEPT !.pc = "cancelled"])
    BY <1>2, <1>5, <1>6, <1>9 DEF Only
  <2> QED BY <1>7, <1>9, <2>1, <2>2, OneIn, OnlyIs DEF Disconnect, LoneDisconnect
<1> QED BY <1>8, <1>9

LEMMA LoneSteps ==
  ASSUME FlagsTyped, TasksTyped, CountsTyped, Alone, Reconnecting, CloserFits, OneOwner',
         [Next]_vars
  PROVE  LoneStep
<1>1. Informed' => Informed
  BY InformedBefore
<1>2. ASSUME NEW t \in Attempts, Attempting(t) PROVE Attempting(1)
  <2>1. task[t].pc # "none"
    BY <1>2 DEF Attempting, TimerFires, AttemptStarts, RestorationStarts, RestorerRuns,
       Reconnected, AttemptFails, AttemptBreaks, GenerationDiscarded, AttemptCancelled
  <2>2. t = 1
    BY <2>1 DEF Alone
  <2> QED BY <1>2, <2>2
<1>3. CASE Attempting(1)
  BY <1>1, <1>3, MovesAre, AttemptFailsIs, GenerationDiscardedIs DEF Attempting, LoneStep
<1>4. CASE Dialling
  BY <1>1, <1>4, DialsAre DEF Dialling, LoneStep
<1>5. CASE Connect \/ Disconnect
  BY <1>1, <1>5, ConnectIs, DisconnectIs DEF LoneStep
<1>6. ASSUME NEW s \in Sockets, HandleClosed(s) PROVE LoneStep
  BY <1>1, <1>6, HandleClosedIs DEF LoneStep
<1>7. CASE Quiet
  <2>1. UNCHANGED task
    BY <1>7 DEF Quiet, ConnectReturns, ConnectRaises, DisconnectReturns, Register,
       SocketDrops, WaitReady, WaitTimesOut, vars
  <2> QED BY <1>1, <1>7, <2>1, TaskStays DEF LoneStep
<1> QED BY <1>2, <1>3, <1>4, <1>5, <1>6, <1>7 DEF Next, Calling, Quiet

--------------------------------------------------------------------------------
(* Each part of the invariant, step by step. *)

\* Nothing but _schedule_reconnect starts an attempt, and it does not while there is one.
LEMMA AloneNext ==
  ASSUME rtask \in AttemptRecord, Alone, LoneStep
  PROVE  Alone'
<1>0. Informed' => Informed
  BY DEF LoneStep
<1> USE <1>0 DEF AttemptRecord, Becomes, Timed, Rests, Retries, Answered, Alone, Only
<1>1. CASE Quiet /\ UNCHANGED <<task, rtask>>
  <2>1. CASE ConnectReturns
    BY <1>1, <2>1 DEF ConnectReturns, MarkReady
  <2>2. CASE ConnectRaises
    BY <1>1, <2>2 DEF ConnectRaises
  <2>3. CASE DisconnectReturns
    BY <1>1, <2>3 DEF DisconnectReturns
  <2>4. CASE Register
    BY <1>1, <2>4 DEF Register, SocketGood
  <2>5. ASSUME NEW s \in Sockets, SocketDrops(s) PROVE Alone'
    BY <1>1, <2>5 DEF SocketDrops, Fault
  <2>6. ASSUME NEW w \in Waiters, WaitReady(w) \/ WaitTimesOut(w) PROVE Alone'
    BY <1>1, <2>6 DEF WaitReady, WaitTimesOut
  <2>7. CASE UNCHANGED vars
    BY <1>1, <2>7 DEF vars
  <2> QED BY <1>1, <2>1, <2>2, <2>3, <2>4, <2>5, <2>6, <2>7 DEF Quiet
<1>2. ASSUME NEW s \in Sockets, LoneDialSucceeds(s) PROVE Alone'
  <2>1. CASE dial.gen # generation \/ manualDisconnect
    BY <1>2, <2>1 DEF LoneDialSucceeds, Opened
  <2>2. CASE ~(dial.gen # generation \/ manualDisconnect)
    BY <1>2, <2>2 DEF LoneDialSucceeds, Opened
  <2> QED BY <2>1, <2>2
<1>3. CASE LoneDialDiscarded
  BY <1>3 DEF LoneDialDiscarded
<1>4. CASE LoneDialFails
  BY <1>4 DEF LoneDialFails
<1>5. CASE LoneTimerFires
  BY <1>5 DEF LoneTimerFires
<1>6. CASE LoneAttemptStarts
  BY <1>6 DEF LoneAttemptStarts, JoinOrDial
<1>7. CASE LoneRestorationStarts
  BY <1>7 DEF LoneRestorationStarts
<1>8. CASE LoneRestorerRuns
  BY <1>8 DEF LoneRestorerRuns
<1>9. CASE LoneReconnected
  BY <1>9 DEF LoneReconnected, SocketGood
<1>10. CASE LoneAttemptFails
  <2>1. CASE Becomes([rtask EXCEPT !.pc = "discard"]) /\ UNCHANGED <<isReconnecting, attempts>>
    BY <1>10, <2>1 DEF LoneAttemptFails
  <2>2. CASE handle = 0 /\ Rests(rtask.attempt)
    BY <1>10, <2>2 DEF LoneAttemptFails
  <2>3. CASE handle = 0 /\ Retries(rtask.attempt)
    BY <1>10, <2>3 DEF LoneAttemptFails
  <2> QED BY <1>10, <2>1, <2>2, <2>3 DEF LoneAttemptFails, Rescheduled
<1>11. CASE LoneGenerationDiscarded
  <2>1. CASE Rests(rtask.attempt)
    BY <1>11, <2>1 DEF LoneGenerationDiscarded
  <2>2. CASE Retries(rtask.attempt)
    BY <1>11, <2>2 DEF LoneGenerationDiscarded
  <2> QED BY <1>11, <2>1, <2>2 DEF LoneGenerationDiscarded, Rescheduled
<1>12. CASE LoneAttemptCancelled
  BY <1>12 DEF LoneAttemptCancelled, Release
<1>13. CASE LoneConnect
  BY <1>13 DEF LoneConnect, JoinOrDial
<1>14. CASE LoneDisconnect
  <2>1. CASE Becomes(NoTask) /\ Release
    BY <1>14, <2>1 DEF LoneDisconnect, Release
  <2>2. CASE /\ Becomes([NoTask EXCEPT !.pc = "cancelled"]) /\ closer' = "cancelling"
             /\ UNCHANGED <<handle, restored, socket, isConnected, isReconnecting, isReady>>
    BY <1>14, <2>2 DEF LoneDisconnect
  <2> QED BY <1>14, <2>1, <2>2 DEF LoneDisconnect
<1>15. ASSUME NEW s \in Sockets, LoneHandleClosed(s) PROVE Alone'
  <2>1. ASSUME Closes(s), s # handle \/ manualDisconnect,
               UNCHANGED <<flags, generation, attempts, task, rtask>>
        PROVE  Alone'
    BY <2>1 DEF Closes
  <2>2. ASSUME Closes(s), Lost(s), isReconnecting, UNCHANGED <<isReconnecting, attempts, task, rtask>>
        PROVE  Alone'
    BY <2>2 DEF Closes, Lost
  <2>3. ASSUME Closes(s), Lost(s), ~isReconnecting, Rests(attempts) PROVE Alone'
    BY <2>3 DEF Closes, Lost
  <2>4. ASSUME Closes(s), Lost(s), ~isReconnecting, Retries(attempts) PROVE Alone'
    BY <2>4 DEF Closes, Lost
  <2> QED BY <1>15, <2>1, <2>2, <2>3, <2>4 DEF LoneHandleClosed, Rescheduled
<1> QED BY <1>1, <1>2, <1>3, <1>4, <1>5, <1>6, <1>7, <1>8, <1>9, <1>10, <1>11, <1>12,
           <1>13, <1>14, <1>15 DEF LoneStep

\* The flag and the attempt change hands in one step.
LEMMA ReconnectingNext ==
  ASSUME FlagsTyped, rtask \in AttemptRecord, CallerFits, CloserFits, Reconnecting,
         LoneStep
  PROVE  Reconnecting'
<1>0. Informed' => Informed
  BY DEF LoneStep
<1> USE <1>0 DEF FlagsTyped, AttemptRecord, Becomes, Timed, Rests, Retries, Answered,
             CallerFits, CloserFits, Reconnecting
<1>1. CASE Quiet /\ UNCHANGED <<task, rtask>>
  <2>1. CASE ConnectReturns
    BY <1>1, <2>1 DEF ConnectReturns, MarkReady
  <2>2. CASE ConnectRaises
    BY <1>1, <2>2 DEF ConnectRaises
  <2>3. CASE DisconnectReturns
    BY <1>1, <2>3 DEF DisconnectReturns
  <2>4. CASE Register
    BY <1>1, <2>4 DEF Register, SocketGood
  <2>5. ASSUME NEW s \in Sockets, SocketDrops(s) PROVE Reconnecting'
    BY <1>1, <2>5 DEF SocketDrops, Fault
  <2>6. ASSUME NEW w \in Waiters, WaitReady(w) \/ WaitTimesOut(w) PROVE Reconnecting'
    BY <1>1, <2>6 DEF WaitReady, WaitTimesOut
  <2>7. CASE UNCHANGED vars
    BY <1>1, <2>7 DEF vars
  <2> QED BY <1>1, <2>1, <2>2, <2>3, <2>4, <2>5, <2>6, <2>7 DEF Quiet
<1>2. ASSUME NEW s \in Sockets, LoneDialSucceeds(s) PROVE Reconnecting'
  <2>1. CASE dial.gen # generation \/ manualDisconnect
    BY <1>2, <2>1 DEF LoneDialSucceeds, Opened
  <2>2. CASE ~(dial.gen # generation \/ manualDisconnect)
    BY <1>2, <2>2 DEF LoneDialSucceeds, Opened
  <2> QED BY <2>1, <2>2
<1>3. CASE LoneDialDiscarded
  BY <1>3 DEF LoneDialDiscarded
<1>4. CASE LoneDialFails
  BY <1>4 DEF LoneDialFails
<1>5. CASE LoneTimerFires
  BY <1>5 DEF LoneTimerFires
<1>6. CASE LoneAttemptStarts
  BY <1>6 DEF LoneAttemptStarts, JoinOrDial
<1>7. CASE LoneRestorationStarts
  BY <1>7 DEF LoneRestorationStarts
<1>8. CASE LoneRestorerRuns
  BY <1>8 DEF LoneRestorerRuns
<1>9. CASE LoneReconnected
  BY <1>9 DEF LoneReconnected, SocketGood
<1>10. CASE LoneAttemptFails
  <2>1. CASE Becomes([rtask EXCEPT !.pc = "discard"]) /\ UNCHANGED <<isReconnecting, attempts>>
    BY <1>10, <2>1 DEF LoneAttemptFails
  <2>2. CASE handle = 0 /\ Rests(rtask.attempt)
    BY <1>10, <2>2 DEF LoneAttemptFails
  <2>3. CASE handle = 0 /\ Retries(rtask.attempt)
    BY <1>10, <2>3 DEF LoneAttemptFails
  <2> QED BY <1>10, <2>1, <2>2, <2>3 DEF LoneAttemptFails, Rescheduled
<1>11. CASE LoneGenerationDiscarded
  <2>1. CASE Rests(rtask.attempt)
    BY <1>11, <2>1 DEF LoneGenerationDiscarded
  <2>2. CASE Retries(rtask.attempt)
    BY <1>11, <2>2 DEF LoneGenerationDiscarded
  <2> QED BY <1>11, <2>1, <2>2 DEF LoneGenerationDiscarded, Rescheduled
<1>12. CASE LoneAttemptCancelled
  BY <1>12 DEF LoneAttemptCancelled, Release
<1>13. CASE LoneConnect
  BY <1>13 DEF LoneConnect, JoinOrDial
<1>14. CASE LoneDisconnect
  <2>1. CASE Becomes(NoTask) /\ Release
    BY <1>14, <2>1 DEF LoneDisconnect, Release
  <2>2. CASE /\ Becomes([NoTask EXCEPT !.pc = "cancelled"]) /\ closer' = "cancelling"
             /\ UNCHANGED <<handle, restored, socket, isConnected, isReconnecting, isReady>>
    BY <1>14, <2>2 DEF LoneDisconnect
  <2> QED BY <1>14, <2>1, <2>2 DEF LoneDisconnect
<1>15. ASSUME NEW s \in Sockets, LoneHandleClosed(s) PROVE Reconnecting'
  <2>1. ASSUME Closes(s), s # handle \/ manualDisconnect,
               UNCHANGED <<flags, generation, attempts, task, rtask>>
        PROVE  Reconnecting'
    BY <2>1 DEF Closes
  <2>2. ASSUME Closes(s), Lost(s), isReconnecting, UNCHANGED <<isReconnecting, attempts, task, rtask>>
        PROVE  Reconnecting'
    BY <2>2 DEF Closes, Lost
  <2>3. ASSUME Closes(s), Lost(s), ~isReconnecting, Rests(attempts) PROVE Reconnecting'
    BY <2>3 DEF Closes, Lost
  <2>4. ASSUME Closes(s), Lost(s), ~isReconnecting, Retries(attempts) PROVE Reconnecting'
    BY <2>4 DEF Closes, Lost
  <2> QED BY <1>15, <2>1, <2>2, <2>3, <2>4 DEF LoneHandleClosed, Rescheduled
<1> QED BY <1>1, <1>2, <1>3, <1>4, <1>5, <1>6, <1>7, <1>8, <1>9, <1>10, <1>11, <1>12,
           <1>13, <1>14, <1>15 DEF LoneStep

\* A new socket is installed only by a dial, and then nobody else works on one.
LEMMA HandleFitsNext ==
  ASSUME TasksTyped, MapsTyped, rtask \in AttemptRecord, NoDialThen, CloserFits,
         HandleFits, LoneStep
  PROVE  HandleFits'
<1>0. Informed' => Informed
  BY DEF LoneStep
<1> USE CountAssumption, <1>0 DEF TasksTyped, MapsTyped, AttemptRecord, Becomes, Timed,
             Rests, Retries, Answered, NoDialThen, CloserFits, HandleFits, Gone
<1>1. CASE Quiet /\ UNCHANGED <<task, rtask>>
  <2>1. CASE ConnectReturns
    BY <1>1, <2>1 DEF ConnectReturns, MarkReady
  <2>2. CASE ConnectRaises
    BY <1>1, <2>2 DEF ConnectRaises
  <2>3. CASE DisconnectReturns
    BY <1>1, <2>3 DEF DisconnectReturns
  <2>4. CASE Register
    BY <1>1, <2>4 DEF Register, SocketGood
  <2>5. ASSUME NEW s \in Sockets, SocketDrops(s) PROVE HandleFits'
    BY <1>1, <2>5 DEF SocketDrops, Fault
  <2>6. ASSUME NEW w \in Waiters, WaitReady(w) \/ WaitTimesOut(w) PROVE HandleFits'
    BY <1>1, <2>6 DEF WaitReady, WaitTimesOut
  <2>7. CASE UNCHANGED vars
    BY <1>1, <2>7 DEF vars
  <2> QED BY <1>1, <2>1, <2>2, <2>3, <2>4, <2>5, <2>6, <2>7 DEF Quiet
<1>2. ASSUME NEW s \in Sockets, LoneDialSucceeds(s) PROVE HandleFits'
  <2>1. CASE dial.gen # generation \/ manualDisconnect
    BY SMTT(30), <1>2, <2>1 DEF LoneDialSucceeds, Opened
  <2>2. CASE ~(dial.gen # generation \/ manualDisconnect)
    BY SMTT(30), <1>2, <2>2 DEF LoneDialSucceeds, Opened
  <2> QED BY <2>1, <2>2
<1>3. CASE LoneDialDiscarded
  BY SMTT(30), <1>3 DEF LoneDialDiscarded
<1>4. CASE LoneDialFails
  BY <1>4 DEF LoneDialFails
<1>5. CASE LoneTimerFires
  BY <1>5 DEF LoneTimerFires
<1>6. CASE LoneAttemptStarts
  BY <1>6 DEF LoneAttemptStarts, JoinOrDial
<1>7. CASE LoneRestorationStarts
  BY <1>7 DEF LoneRestorationStarts
<1>8. CASE LoneRestorerRuns
  BY <1>8 DEF LoneRestorerRuns
<1>9. CASE LoneReconnected
  BY <1>9 DEF LoneReconnected, SocketGood
<1>10. CASE LoneAttemptFails
  <2>1. CASE Becomes([rtask EXCEPT !.pc = "discard"]) /\ UNCHANGED <<isReconnecting, attempts>>
    BY <1>10, <2>1 DEF LoneAttemptFails
  <2>2. CASE handle = 0 /\ Rests(rtask.attempt)
    BY <1>10, <2>2 DEF LoneAttemptFails
  <2>3. CASE handle = 0 /\ Retries(rtask.attempt)
    BY <1>10, <2>3 DEF LoneAttemptFails
  <2> QED BY <1>10, <2>1, <2>2, <2>3 DEF LoneAttemptFails, Rescheduled
<1>11. CASE LoneGenerationDiscarded
  <2>1. CASE Rests(rtask.attempt)
    BY <1>11, <2>1 DEF LoneGenerationDiscarded
  <2>2. CASE Retries(rtask.attempt)
    BY <1>11, <2>2 DEF LoneGenerationDiscarded
  <2> QED BY <1>11, <2>1, <2>2 DEF LoneGenerationDiscarded, Rescheduled
<1>12. CASE LoneAttemptCancelled
  BY <1>12 DEF LoneAttemptCancelled, Release
<1>13. CASE LoneConnect
  BY <1>13 DEF LoneConnect, JoinOrDial
<1>14. CASE LoneDisconnect
  <2>1. CASE Becomes(NoTask) /\ Release
    BY <1>14, <2>1 DEF LoneDisconnect, Release
  <2>2. CASE /\ Becomes([NoTask EXCEPT !.pc = "cancelled"]) /\ closer' = "cancelling"
             /\ UNCHANGED <<handle, restored, socket, isConnected, isReconnecting, isReady>>
    BY <1>14, <2>2 DEF LoneDisconnect
  <2> QED BY <1>14, <2>1, <2>2 DEF LoneDisconnect
<1>15. ASSUME NEW s \in Sockets, LoneHandleClosed(s) PROVE HandleFits'
  <2>1. ASSUME Closes(s), s # handle \/ manualDisconnect,
               UNCHANGED <<flags, generation, attempts, task, rtask>>
        PROVE  HandleFits'
    BY <2>1 DEF Closes
  <2>2. ASSUME Closes(s), Lost(s), isReconnecting, UNCHANGED <<isReconnecting, attempts, task, rtask>>
        PROVE  HandleFits'
    BY <2>2 DEF Closes, Lost
  <2>3. ASSUME Closes(s), Lost(s), ~isReconnecting, Rests(attempts) PROVE HandleFits'
    BY <2>3 DEF Closes, Lost
  <2>4. ASSUME Closes(s), Lost(s), ~isReconnecting, Retries(attempts) PROVE HandleFits'
    BY <2>4 DEF Closes, Lost
  <2> QED BY <1>15, <2>1, <2>2, <2>3, <2>4 DEF LoneHandleClosed, Rescheduled
<1> QED BY <1>1, <1>2, <1>3, <1>4, <1>5, <1>6, <1>7, <1>8, <1>9, <1>10, <1>11, <1>12,
           <1>13, <1>14, <1>15 DEF LoneStep

\* A handle can only be lost, and a timer set for it, while no dial is under way.
LEMMA NoDialThenNext ==
  ASSUME TasksTyped, MapsTyped, rtask \in AttemptRecord, HandleFits, Reconnecting,
         CloserFits, NoDialThen, LoneStep
  PROVE  NoDialThen'
<1>0. Informed' => Informed
  BY DEF LoneStep
<1> USE CountAssumption, <1>0 DEF TasksTyped, MapsTyped, AttemptRecord, Becomes, Timed,
             Rests, Retries, Answered, HandleFits, Reconnecting, CloserFits, NoDialThen,
             Gone
<1>1. CASE Quiet /\ UNCHANGED <<task, rtask>>
  <2>1. CASE ConnectReturns
    BY <1>1, <2>1 DEF ConnectReturns, MarkReady
  <2>2. CASE ConnectRaises
    BY <1>1, <2>2 DEF ConnectRaises
  <2>3. CASE DisconnectReturns
    BY <1>1, <2>3 DEF DisconnectReturns
  <2>4. CASE Register
    BY <1>1, <2>4 DEF Register, SocketGood
  <2>5. ASSUME NEW s \in Sockets, SocketDrops(s) PROVE NoDialThen'
    BY <1>1, <2>5 DEF SocketDrops, Fault
  <2>6. ASSUME NEW w \in Waiters, WaitReady(w) \/ WaitTimesOut(w) PROVE NoDialThen'
    BY <1>1, <2>6 DEF WaitReady, WaitTimesOut
  <2>7. CASE UNCHANGED vars
    BY <1>1, <2>7 DEF vars
  <2> QED BY <1>1, <2>1, <2>2, <2>3, <2>4, <2>5, <2>6, <2>7 DEF Quiet
<1>2. ASSUME NEW s \in Sockets, LoneDialSucceeds(s) PROVE NoDialThen'
  <2>1. CASE dial.gen # generation \/ manualDisconnect
    BY <1>2, <2>1 DEF LoneDialSucceeds, Opened
  <2>2. CASE ~(dial.gen # generation \/ manualDisconnect)
    BY <1>2, <2>2 DEF LoneDialSucceeds, Opened
  <2> QED BY <2>1, <2>2
<1>3. CASE LoneDialDiscarded
  BY <1>3 DEF LoneDialDiscarded
<1>4. CASE LoneDialFails
  BY <1>4 DEF LoneDialFails
<1>5. CASE LoneTimerFires
  BY <1>5 DEF LoneTimerFires
<1>6. CASE LoneAttemptStarts
  BY <1>6 DEF LoneAttemptStarts, JoinOrDial
<1>7. CASE LoneRestorationStarts
  BY <1>7 DEF LoneRestorationStarts
<1>8. CASE LoneRestorerRuns
  BY <1>8 DEF LoneRestorerRuns
<1>9. CASE LoneReconnected
  BY <1>9 DEF LoneReconnected, SocketGood
<1>10. CASE LoneAttemptFails
  <2>1. CASE Becomes([rtask EXCEPT !.pc = "discard"]) /\ UNCHANGED <<isReconnecting, attempts>>
    BY <1>10, <2>1 DEF LoneAttemptFails
  <2>2. CASE handle = 0 /\ Rests(rtask.attempt)
    BY <1>10, <2>2 DEF LoneAttemptFails
  <2>3. CASE handle = 0 /\ Retries(rtask.attempt)
    BY <1>10, <2>3 DEF LoneAttemptFails
  <2> QED BY <1>10, <2>1, <2>2, <2>3 DEF LoneAttemptFails, Rescheduled
<1>11. CASE LoneGenerationDiscarded
  <2>1. CASE Rests(rtask.attempt)
    BY <1>11, <2>1 DEF LoneGenerationDiscarded
  <2>2. CASE Retries(rtask.attempt)
    BY <1>11, <2>2 DEF LoneGenerationDiscarded
  <2> QED BY <1>11, <2>1, <2>2 DEF LoneGenerationDiscarded, Rescheduled
<1>12. CASE LoneAttemptCancelled
  BY <1>12 DEF LoneAttemptCancelled, Release
<1>13. CASE LoneConnect
  BY <1>13 DEF LoneConnect, JoinOrDial
<1>14. CASE LoneDisconnect
  <2>1. CASE Becomes(NoTask) /\ Release
    BY <1>14, <2>1 DEF LoneDisconnect, Release
  <2>2. CASE /\ Becomes([NoTask EXCEPT !.pc = "cancelled"]) /\ closer' = "cancelling"
             /\ UNCHANGED <<handle, restored, socket, isConnected, isReconnecting, isReady>>
    BY <1>14, <2>2 DEF LoneDisconnect
  <2> QED BY <1>14, <2>1, <2>2 DEF LoneDisconnect
<1>15. ASSUME NEW s \in Sockets, LoneHandleClosed(s) PROVE NoDialThen'
  <2>1. ASSUME Closes(s), s # handle \/ manualDisconnect,
               UNCHANGED <<flags, generation, attempts, task, rtask>>
        PROVE  NoDialThen'
    BY <2>1 DEF Closes
  <2>2. ASSUME Closes(s), Lost(s), isReconnecting, UNCHANGED <<isReconnecting, attempts, task, rtask>>
        PROVE  NoDialThen'
    BY <2>2 DEF Closes, Lost
  <2>3. ASSUME Closes(s), Lost(s), ~isReconnecting, Rests(attempts) PROVE NoDialThen'
    BY <2>3 DEF Closes, Lost
  <2>4. ASSUME Closes(s), Lost(s), ~isReconnecting, Retries(attempts) PROVE NoDialThen'
    BY <2>4 DEF Closes, Lost
  <2> QED BY <1>15, <2>1, <2>2, <2>3, <2>4 DEF LoneHandleClosed, Rescheduled
<1> QED BY <1>1, <1>2, <1>3, <1>4, <1>5, <1>6, <1>7, <1>8, <1>9, <1>10, <1>11, <1>12,
           <1>13, <1>14, <1>15 DEF LoneStep

\* A connect() that is dialling, or about to resume, leaves no room for an attempt.
LEMMA CallerFitsNext ==
  ASSUME TasksTyped, CountsTyped, MapsTyped, rtask \in AttemptRecord, HandleFits,
         ReadyFits, Reconnecting, CloserFits, NoDialThen, CallerFits, LoneStep
  PROVE  CallerFits'
<1>0. Informed' => Informed
  BY DEF LoneStep
<1> USE CountAssumption, <1>0 DEF TasksTyped, CountsTyped, MapsTyped, AttemptRecord,
             Becomes, Timed, Rests, Retries, Answered, HandleFits, ReadyFits,
             Reconnecting, CloserFits, NoDialThen, CallerFits, Gone
<1>1. CASE Quiet /\ UNCHANGED <<task, rtask>>
  <2>1. CASE ConnectReturns
    BY <1>1, <2>1 DEF ConnectReturns, MarkReady
  <2>2. CASE ConnectRaises
    BY <1>1, <2>2 DEF ConnectRaises
  <2>3. CASE DisconnectReturns
    BY <1>1, <2>3 DEF DisconnectReturns
  <2>4. CASE Register
    BY <1>1, <2>4 DEF Register, SocketGood
  <2>5. ASSUME NEW s \in Sockets, SocketDrops(s) PROVE CallerFits'
    BY <1>1, <2>5 DEF SocketDrops, Fault
  <2>6. ASSUME NEW w \in Waiters, WaitReady(w) \/ WaitTimesOut(w) PROVE CallerFits'
    BY SMTT(30), <1>1, <2>6 DEF WaitReady, WaitTimesOut
  <2>7. CASE UNCHANGED vars
    BY <1>1, <2>7 DEF vars
  <2> QED BY <1>1, <2>1, <2>2, <2>3, <2>4, <2>5, <2>6, <2>7 DEF Quiet
<1>2. ASSUME NEW s \in Sockets, LoneDialSucceeds(s) PROVE CallerFits'
  <2>1. CASE dial.gen # generation \/ manualDisconnect
    BY <1>2, <2>1 DEF LoneDialSucceeds
  <2>2. CASE ~(dial.gen # generation \/ manualDisconnect)
    <3>1. /\ handle' = s /\ socket' = [socket EXCEPT ![s] = "open"] /\ restored' = {}
          /\ dial' = NoDial /\ caller' = IF caller = "connect" THEN "connected" ELSE caller
          /\ UNCHANGED <<isReady, manualDisconnect, registered>>
      BY <1>2, <2>2 DEF LoneDialSucceeds
    <3>2. caller # "connected"
      BY <1>2 DEF LoneDialSucceeds
    <3>3. CASE caller = "connect"
      <4>1. rtask'.pc = "none"
        BY <1>2, <2>2, <3>3 DEF LoneDialSucceeds
      <4>2. handle' # 0 /\ socket'[handle'] = "open"
        BY <3>1
      <4>3. Informed => ~isReady /\ ~manualDisconnect /\ registered = 0
        BY <2>2, <3>3
      <4> QED BY <3>1, <3>3, <4>1, <4>2, <4>3
    <3>4. CASE caller # "connect"
      BY <3>1, <3>2, <3>4
    <3> QED BY <3>3, <3>4
  <2> QED BY <2>1, <2>2
<1>3. CASE LoneDialDiscarded
  BY <1>3 DEF LoneDialDiscarded
<1>4. CASE LoneDialFails
  BY <1>4 DEF LoneDialFails
<1>5. CASE LoneTimerFires
  BY <1>5 DEF LoneTimerFires
<1>6. CASE LoneAttemptStarts
  BY <1>6 DEF LoneAttemptStarts, JoinOrDial
<1>7. CASE LoneRestorationStarts
  BY <1>7 DEF LoneRestorationStarts
<1>8. CASE LoneRestorerRuns
  BY <1>8 DEF LoneRestorerRuns
<1>9. CASE LoneReconnected
  BY <1>9 DEF LoneReconnected, SocketGood
<1>10. CASE LoneAttemptFails
  <2>1. CASE Becomes([rtask EXCEPT !.pc = "discard"]) /\ UNCHANGED <<isReconnecting, attempts>>
    BY <1>10, <2>1 DEF LoneAttemptFails
  <2>2. CASE handle = 0 /\ Rests(rtask.attempt)
    BY <1>10, <2>2 DEF LoneAttemptFails
  <2>3. CASE handle = 0 /\ Retries(rtask.attempt)
    BY <1>10, <2>3 DEF LoneAttemptFails
  <2> QED BY <1>10, <2>1, <2>2, <2>3 DEF LoneAttemptFails, Rescheduled
<1>11. CASE LoneGenerationDiscarded
  <2>1. CASE Rests(rtask.attempt)
    BY <1>11, <2>1 DEF LoneGenerationDiscarded
  <2>2. CASE Retries(rtask.attempt)
    BY <1>11, <2>2 DEF LoneGenerationDiscarded
  <2> QED BY <1>11, <2>1, <2>2 DEF LoneGenerationDiscarded, Rescheduled
<1>12. CASE LoneAttemptCancelled
  BY <1>12 DEF LoneAttemptCancelled, Release
<1>13. CASE LoneConnect
  BY <1>13 DEF LoneConnect, JoinOrDial
<1>14. CASE LoneDisconnect
  <2>1. CASE Becomes(NoTask) /\ Release
    BY <1>14, <2>1 DEF LoneDisconnect, Release
  <2>2. CASE /\ Becomes([NoTask EXCEPT !.pc = "cancelled"]) /\ closer' = "cancelling"
             /\ UNCHANGED <<handle, restored, socket, isConnected, isReconnecting, isReady>>
    BY <1>14, <2>2 DEF LoneDisconnect
  <2> QED BY <1>14, <2>1, <2>2 DEF LoneDisconnect
<1>15. ASSUME NEW s \in Sockets, LoneHandleClosed(s) PROVE CallerFits'
  <2>1. ASSUME Closes(s), s # handle \/ manualDisconnect,
               UNCHANGED <<flags, generation, attempts, task, rtask>>
        PROVE  CallerFits'
    BY <2>1 DEF Closes
  <2>2. ASSUME Closes(s), Lost(s), isReconnecting, UNCHANGED <<isReconnecting, attempts, task, rtask>>
        PROVE  CallerFits'
    BY <2>2 DEF Closes, Lost
  <2>3. ASSUME Closes(s), Lost(s), ~isReconnecting, Rests(attempts) PROVE CallerFits'
    BY <2>3 DEF Closes, Lost
  <2>4. ASSUME Closes(s), Lost(s), ~isReconnecting, Retries(attempts) PROVE CallerFits'
    BY <2>4 DEF Closes, Lost
  <2> QED BY <1>15, <2>1, <2>2, <2>3, <2>4 DEF LoneHandleClosed, Rescheduled
<1> QED BY <1>1, <1>2, <1>3, <1>4, <1>5, <1>6, <1>7, <1>8, <1>9, <1>10, <1>11, <1>12,
           <1>13, <1>14, <1>15 DEF LoneStep

\* A disconnect stops the timer, and then the task, before anything else can start.
LEMMA CloserFitsNext ==
  ASSUME FlagsTyped, TasksTyped, rtask \in AttemptRecord, CallerFits, CloserFits,
         LoneStep
  PROVE  CloserFits'
<1>0. Informed' => Informed
  BY DEF LoneStep
<1> USE CountAssumption, <1>0 DEF FlagsTyped, TasksTyped, AttemptRecord, Becomes, Timed,
             Rests, Retries, Answered, CallerFits, CloserFits
<1>1. CASE Quiet /\ UNCHANGED <<task, rtask>>
  <2>1. CASE ConnectReturns
    BY <1>1, <2>1 DEF ConnectReturns, MarkReady
  <2>2. CASE ConnectRaises
    BY <1>1, <2>2 DEF ConnectRaises
  <2>3. CASE DisconnectReturns
    BY <1>1, <2>3 DEF DisconnectReturns
  <2>4. CASE Register
    BY <1>1, <2>4 DEF Register, SocketGood
  <2>5. ASSUME NEW s \in Sockets, SocketDrops(s) PROVE CloserFits'
    BY <1>1, <2>5 DEF SocketDrops, Fault
  <2>6. ASSUME NEW w \in Waiters, WaitReady(w) \/ WaitTimesOut(w) PROVE CloserFits'
    BY <1>1, <2>6 DEF WaitReady, WaitTimesOut
  <2>7. CASE UNCHANGED vars
    BY <1>1, <2>7 DEF vars
  <2> QED BY <1>1, <2>1, <2>2, <2>3, <2>4, <2>5, <2>6, <2>7 DEF Quiet
<1>2. ASSUME NEW s \in Sockets, LoneDialSucceeds(s) PROVE CloserFits'
  <2>1. CASE dial.gen # generation \/ manualDisconnect
    BY <1>2, <2>1 DEF LoneDialSucceeds, Opened
  <2>2. CASE ~(dial.gen # generation \/ manualDisconnect)
    BY <1>2, <2>2 DEF LoneDialSucceeds, Opened
  <2> QED BY <2>1, <2>2
<1>3. CASE LoneDialDiscarded
  BY <1>3 DEF LoneDialDiscarded
<1>4. CASE LoneDialFails
  BY <1>4 DEF LoneDialFails
<1>5. CASE LoneTimerFires
  BY <1>5 DEF LoneTimerFires
<1>6. CASE LoneAttemptStarts
  BY <1>6 DEF LoneAttemptStarts, JoinOrDial
<1>7. CASE LoneRestorationStarts
  BY <1>7 DEF LoneRestorationStarts
<1>8. CASE LoneRestorerRuns
  BY <1>8 DEF LoneRestorerRuns
<1>9. CASE LoneReconnected
  BY <1>9 DEF LoneReconnected, SocketGood
<1>10. CASE LoneAttemptFails
  <2>1. CASE Becomes([rtask EXCEPT !.pc = "discard"]) /\ UNCHANGED <<isReconnecting, attempts>>
    BY <1>10, <2>1 DEF LoneAttemptFails
  <2>2. CASE handle = 0 /\ Rests(rtask.attempt)
    BY <1>10, <2>2 DEF LoneAttemptFails
  <2>3. CASE handle = 0 /\ Retries(rtask.attempt)
    BY <1>10, <2>3 DEF LoneAttemptFails
  <2> QED BY <1>10, <2>1, <2>2, <2>3 DEF LoneAttemptFails, Rescheduled
<1>11. CASE LoneGenerationDiscarded
  <2>1. CASE Rests(rtask.attempt)
    BY <1>11, <2>1 DEF LoneGenerationDiscarded
  <2>2. CASE Retries(rtask.attempt)
    BY <1>11, <2>2 DEF LoneGenerationDiscarded
  <2> QED BY <1>11, <2>1, <2>2 DEF LoneGenerationDiscarded, Rescheduled
<1>12. CASE LoneAttemptCancelled
  BY <1>12 DEF LoneAttemptCancelled, Release
<1>13. CASE LoneConnect
  BY <1>13 DEF LoneConnect, JoinOrDial
<1>14. CASE LoneDisconnect
  <2>1. CASE Becomes(NoTask) /\ Release
    BY <1>14, <2>1 DEF LoneDisconnect, Release
  <2>2. CASE /\ Becomes([NoTask EXCEPT !.pc = "cancelled"]) /\ closer' = "cancelling"
             /\ UNCHANGED <<handle, restored, socket, isConnected, isReconnecting, isReady>>
    BY <1>14, <2>2 DEF LoneDisconnect
  <2> QED BY <1>14, <2>1, <2>2 DEF LoneDisconnect
<1>15. ASSUME NEW s \in Sockets, LoneHandleClosed(s) PROVE CloserFits'
  <2>1. ASSUME Closes(s), s # handle \/ manualDisconnect,
               UNCHANGED <<flags, generation, attempts, task, rtask>>
        PROVE  CloserFits'
    BY <2>1 DEF Closes
  <2>2. ASSUME Closes(s), Lost(s), isReconnecting, UNCHANGED <<isReconnecting, attempts, task, rtask>>
        PROVE  CloserFits'
    BY <2>2 DEF Closes, Lost
  <2>3. ASSUME Closes(s), Lost(s), ~isReconnecting, Rests(attempts) PROVE CloserFits'
    BY <2>3 DEF Closes, Lost
  <2>4. ASSUME Closes(s), Lost(s), ~isReconnecting, Retries(attempts) PROVE CloserFits'
    BY <2>4 DEF Closes, Lost
  <2> QED BY <1>15, <2>1, <2>2, <2>3, <2>4 DEF LoneHandleClosed, Rescheduled
<1> QED BY <1>1, <1>2, <1>3, <1>4, <1>5, <1>6, <1>7, <1>8, <1>9, <1>10, <1>11, <1>12,
           <1>13, <1>14, <1>15 DEF LoneStep

\* Whoever awaited a dial of this generation stops only with a new generation.
LEMMA DialFitsNext ==
  ASSUME TasksTyped, CountsTyped, rtask \in AttemptRecord, NoDialThen, CallerFits,
         CloserFits, DialFits, LoneStep
  PROVE  DialFits'
<1>0. Informed' => Informed
  BY DEF LoneStep
<1> USE CountAssumption, <1>0 DEF TasksTyped, CountsTyped, AttemptRecord, Becomes,
             Timed, Rests, Retries, Answered, NoDialThen, CallerFits, CloserFits,
             DialFits
<1>1. CASE Quiet /\ UNCHANGED <<task, rtask>>
  <2>1. CASE ConnectReturns
    BY <1>1, <2>1 DEF ConnectReturns, MarkReady
  <2>2. CASE ConnectRaises
    BY <1>1, <2>2 DEF ConnectRaises
  <2>3. CASE DisconnectReturns
    BY <1>1, <2>3 DEF DisconnectReturns
  <2>4. CASE Register
    BY <1>1, <2>4 DEF Register, SocketGood
  <2>5. ASSUME NEW s \in Sockets, SocketDrops(s) PROVE DialFits'
    BY <1>1, <2>5 DEF SocketDrops, Fault
  <2>6. ASSUME NEW w \in Waiters, WaitReady(w) \/ WaitTimesOut(w) PROVE DialFits'
    BY <1>1, <2>6 DEF WaitReady, WaitTimesOut
  <2>7. CASE UNCHANGED vars
    BY <1>1, <2>7 DEF vars
  <2> QED BY <1>1, <2>1, <2>2, <2>3, <2>4, <2>5, <2>6, <2>7 DEF Quiet
<1>2. ASSUME NEW s \in Sockets, LoneDialSucceeds(s) PROVE DialFits'
  <2>1. CASE dial.gen # generation \/ manualDisconnect
    BY <1>2, <2>1 DEF LoneDialSucceeds, Opened
  <2>2. CASE ~(dial.gen # generation \/ manualDisconnect)
    BY <1>2, <2>2 DEF LoneDialSucceeds, Opened
  <2> QED BY <2>1, <2>2
<1>3. CASE LoneDialDiscarded
  BY <1>3 DEF LoneDialDiscarded
<1>4. CASE LoneDialFails
  BY <1>4 DEF LoneDialFails
<1>5. CASE LoneTimerFires
  BY <1>5 DEF LoneTimerFires
<1>6. CASE LoneAttemptStarts
  BY <1>6 DEF LoneAttemptStarts, JoinOrDial
<1>7. CASE LoneRestorationStarts
  BY <1>7 DEF LoneRestorationStarts
<1>8. CASE LoneRestorerRuns
  BY <1>8 DEF LoneRestorerRuns
<1>9. CASE LoneReconnected
  BY <1>9 DEF LoneReconnected, SocketGood
<1>10. CASE LoneAttemptFails
  <2>1. CASE Becomes([rtask EXCEPT !.pc = "discard"]) /\ UNCHANGED <<isReconnecting, attempts>>
    BY <1>10, <2>1 DEF LoneAttemptFails
  <2>2. CASE handle = 0 /\ Rests(rtask.attempt)
    BY <1>10, <2>2 DEF LoneAttemptFails
  <2>3. CASE handle = 0 /\ Retries(rtask.attempt)
    BY <1>10, <2>3 DEF LoneAttemptFails
  <2> QED BY <1>10, <2>1, <2>2, <2>3 DEF LoneAttemptFails, Rescheduled
<1>11. CASE LoneGenerationDiscarded
  <2>1. CASE Rests(rtask.attempt)
    BY <1>11, <2>1 DEF LoneGenerationDiscarded
  <2>2. CASE Retries(rtask.attempt)
    BY <1>11, <2>2 DEF LoneGenerationDiscarded
  <2> QED BY <1>11, <2>1, <2>2 DEF LoneGenerationDiscarded, Rescheduled
<1>12. CASE LoneAttemptCancelled
  BY <1>12 DEF LoneAttemptCancelled, Release
<1>13. CASE LoneConnect
  BY <1>13 DEF LoneConnect, JoinOrDial
<1>14. CASE LoneDisconnect
  <2>1. CASE Becomes(NoTask) /\ Release
    BY <1>14, <2>1 DEF LoneDisconnect, Release
  <2>2. CASE /\ Becomes([NoTask EXCEPT !.pc = "cancelled"]) /\ closer' = "cancelling"
             /\ UNCHANGED <<handle, restored, socket, isConnected, isReconnecting, isReady>>
    BY <1>14, <2>2 DEF LoneDisconnect
  <2> QED BY <1>14, <2>1, <2>2 DEF LoneDisconnect
<1>15. ASSUME NEW s \in Sockets, LoneHandleClosed(s) PROVE DialFits'
  <2>1. ASSUME Closes(s), s # handle \/ manualDisconnect,
               UNCHANGED <<flags, generation, attempts, task, rtask>>
        PROVE  DialFits'
    BY <2>1 DEF Closes
  <2>2. ASSUME Closes(s), Lost(s), isReconnecting, UNCHANGED <<isReconnecting, attempts, task, rtask>>
        PROVE  DialFits'
    BY <2>2 DEF Closes, Lost
  <2>3. ASSUME Closes(s), Lost(s), ~isReconnecting, Rests(attempts) PROVE DialFits'
    BY <2>3 DEF Closes, Lost
  <2>4. ASSUME Closes(s), Lost(s), ~isReconnecting, Retries(attempts) PROVE DialFits'
    BY <2>4 DEF Closes, Lost
  <2> QED BY <1>15, <2>1, <2>2, <2>3, <2>4 DEF LoneHandleClosed, Rescheduled
<1> QED BY <1>1, <1>2, <1>3, <1>4, <1>5, <1>6, <1>7, <1>8, <1>9, <1>10, <1>11, <1>12,
           <1>13, <1>14, <1>15 DEF LoneStep

\* A socket leaves the handle closed, or is discarded by the dial that opened it.
LEMMA OneSocketNext ==
  ASSUME TasksTyped, MapsTyped, rtask \in AttemptRecord, DialFits, HandleFits,
         OneSocket, LoneStep
  PROVE  OneSocket'
<1>0. Informed' => Informed
  BY DEF LoneStep
<1> USE CountAssumption, <1>0 DEF TasksTyped, MapsTyped, AttemptRecord, Becomes, Timed,
             Rests, Retries, Answered, DialFits, HandleFits, OneSocket, Gone
<1>1. CASE Quiet /\ UNCHANGED <<task, rtask>>
  <2>1. CASE ConnectReturns
    BY <1>1, <2>1 DEF ConnectReturns, MarkReady
  <2>2. CASE ConnectRaises
    BY <1>1, <2>2 DEF ConnectRaises
  <2>3. CASE DisconnectReturns
    BY <1>1, <2>3 DEF DisconnectReturns
  <2>4. CASE Register
    BY <1>1, <2>4 DEF Register, SocketGood
  <2>5. ASSUME NEW s \in Sockets, SocketDrops(s) PROVE OneSocket'
    BY <1>1, <2>5 DEF SocketDrops, Fault
  <2>6. ASSUME NEW w \in Waiters, WaitReady(w) \/ WaitTimesOut(w) PROVE OneSocket'
    BY <1>1, <2>6 DEF WaitReady, WaitTimesOut
  <2>7. CASE UNCHANGED vars
    BY <1>1, <2>7 DEF vars
  <2> QED BY <1>1, <2>1, <2>2, <2>3, <2>4, <2>5, <2>6, <2>7 DEF Quiet
<1>2. ASSUME NEW s \in Sockets, LoneDialSucceeds(s) PROVE OneSocket'
  <2>1. socket' = [socket EXCEPT ![s] = "open"] /\ s \in {handle', dial'.sock}
    BY <1>2 DEF LoneDialSucceeds
  <2>2. dial.pc = "dialing"
    BY <1>2 DEF LoneDialSucceeds
  <2>3. \A r \in Sockets : socket[r] # "open"
    BY <2>2
  <2> QED BY <2>1, <2>3
<1>3. CASE LoneDialDiscarded
  BY <1>3 DEF LoneDialDiscarded
<1>4. CASE LoneDialFails
  BY <1>4 DEF LoneDialFails
<1>5. CASE LoneTimerFires
  BY <1>5 DEF LoneTimerFires
<1>6. CASE LoneAttemptStarts
  BY <1>6 DEF LoneAttemptStarts, JoinOrDial
<1>7. CASE LoneRestorationStarts
  BY <1>7 DEF LoneRestorationStarts
<1>8. CASE LoneRestorerRuns
  BY <1>8 DEF LoneRestorerRuns
<1>9. CASE LoneReconnected
  BY <1>9 DEF LoneReconnected, SocketGood
<1>10. CASE LoneAttemptFails
  <2>1. CASE Becomes([rtask EXCEPT !.pc = "discard"]) /\ UNCHANGED <<isReconnecting, attempts>>
    BY <1>10, <2>1 DEF LoneAttemptFails
  <2>2. CASE handle = 0 /\ Rests(rtask.attempt)
    BY <1>10, <2>2 DEF LoneAttemptFails
  <2>3. CASE handle = 0 /\ Retries(rtask.attempt)
    BY <1>10, <2>3 DEF LoneAttemptFails
  <2> QED BY <1>10, <2>1, <2>2, <2>3 DEF LoneAttemptFails, Rescheduled
<1>11. CASE LoneGenerationDiscarded
  <2>1. CASE Rests(rtask.attempt)
    BY <1>11, <2>1 DEF LoneGenerationDiscarded
  <2>2. CASE Retries(rtask.attempt)
    BY <1>11, <2>2 DEF LoneGenerationDiscarded
  <2> QED BY <1>11, <2>1, <2>2 DEF LoneGenerationDiscarded, Rescheduled
<1>12. CASE LoneAttemptCancelled
  BY <1>12 DEF LoneAttemptCancelled, Release
<1>13. CASE LoneConnect
  BY <1>13 DEF LoneConnect, JoinOrDial
<1>14. CASE LoneDisconnect
  <2>1. CASE Becomes(NoTask) /\ Release
    BY <1>14, <2>1 DEF LoneDisconnect, Release
  <2>2. CASE /\ Becomes([NoTask EXCEPT !.pc = "cancelled"]) /\ closer' = "cancelling"
             /\ UNCHANGED <<handle, restored, socket, isConnected, isReconnecting, isReady>>
    BY <1>14, <2>2 DEF LoneDisconnect
  <2> QED BY <1>14, <2>1, <2>2 DEF LoneDisconnect
<1>15. ASSUME NEW s \in Sockets, LoneHandleClosed(s) PROVE OneSocket'
  <2>1. ASSUME Closes(s), s # handle \/ manualDisconnect,
               UNCHANGED <<flags, generation, attempts, task, rtask>>
        PROVE  OneSocket'
    BY <2>1 DEF Closes
  <2>2. ASSUME Closes(s), Lost(s), isReconnecting, UNCHANGED <<isReconnecting, attempts, task, rtask>>
        PROVE  OneSocket'
    BY <2>2 DEF Closes, Lost
  <2>3. ASSUME Closes(s), Lost(s), ~isReconnecting, Rests(attempts) PROVE OneSocket'
    BY <2>3 DEF Closes, Lost
  <2>4. ASSUME Closes(s), Lost(s), ~isReconnecting, Retries(attempts) PROVE OneSocket'
    BY <2>4 DEF Closes, Lost
  <2> QED BY <1>15, <2>1, <2>2, <2>3, <2>4 DEF LoneHandleClosed, Rescheduled
<1> QED BY <1>1, <1>2, <1>3, <1>4, <1>5, <1>6, <1>7, <1>8, <1>9, <1>10, <1>11, <1>12,
           <1>13, <1>14, <1>15 DEF LoneStep

\* The counter the task read before its dial is the one that grows.
LEMMA BudgetFitsNext ==
  ASSUME TasksTyped, CountsTyped, rtask \in AttemptRecord, HandleFits, NoDialThen,
         CallerFits, CloserFits, DialFits, Reconnecting, BudgetFits, LoneStep
  PROVE  BudgetFits'
<1>0. Informed' => Informed
  BY DEF LoneStep
<1> USE CountAssumption, <1>0 DEF TasksTyped, CountsTyped, AttemptRecord, Becomes,
             Timed, Rests, Retries, Answered, HandleFits, NoDialThen, CallerFits,
             CloserFits, DialFits, Reconnecting, BudgetFits, Gone
<1>1. CASE Quiet /\ UNCHANGED <<task, rtask>>
  <2>1. CASE ConnectReturns
    BY <1>1, <2>1 DEF ConnectReturns, MarkReady
  <2>2. CASE ConnectRaises
    BY <1>1, <2>2 DEF ConnectRaises
  <2>3. CASE DisconnectReturns
    BY <1>1, <2>3 DEF DisconnectReturns
  <2>4. CASE Register
    BY <1>1, <2>4 DEF Register, SocketGood
  <2>5. ASSUME NEW s \in Sockets, SocketDrops(s) PROVE BudgetFits'
    BY <1>1, <2>5 DEF SocketDrops, Fault
  <2>6. ASSUME NEW w \in Waiters, WaitReady(w) \/ WaitTimesOut(w) PROVE BudgetFits'
    BY <1>1, <2>6 DEF WaitReady, WaitTimesOut
  <2>7. CASE UNCHANGED vars
    BY <1>1, <2>7 DEF vars
  <2> QED BY <1>1, <2>1, <2>2, <2>3, <2>4, <2>5, <2>6, <2>7 DEF Quiet
<1>2. ASSUME NEW s \in Sockets, LoneDialSucceeds(s) PROVE BudgetFits'
  <2>1. CASE dial.gen # generation \/ manualDisconnect
    BY <1>2, <2>1 DEF LoneDialSucceeds, Opened
  <2>2. CASE ~(dial.gen # generation \/ manualDisconnect)
    BY <1>2, <2>2 DEF LoneDialSucceeds, Opened
  <2> QED BY <2>1, <2>2
<1>3. CASE LoneDialDiscarded
  BY <1>3 DEF LoneDialDiscarded
<1>4. CASE LoneDialFails
  BY <1>4 DEF LoneDialFails
<1>5. CASE LoneTimerFires
  BY <1>5 DEF LoneTimerFires
<1>6. CASE LoneAttemptStarts
  BY <1>6 DEF LoneAttemptStarts, JoinOrDial
<1>7. CASE LoneRestorationStarts
  BY <1>7 DEF LoneRestorationStarts
<1>8. CASE LoneRestorerRuns
  BY <1>8 DEF LoneRestorerRuns
<1>9. CASE LoneReconnected
  BY <1>9 DEF LoneReconnected, SocketGood
<1>10. CASE LoneAttemptFails
  <2>1. CASE Becomes([rtask EXCEPT !.pc = "discard"]) /\ UNCHANGED <<isReconnecting, attempts>>
    BY <1>10, <2>1 DEF LoneAttemptFails
  <2>2. CASE handle = 0 /\ Rests(rtask.attempt)
    BY <1>10, <2>2 DEF LoneAttemptFails
  <2>3. CASE handle = 0 /\ Retries(rtask.attempt)
    BY <1>10, <2>3 DEF LoneAttemptFails
  <2> QED BY <1>10, <2>1, <2>2, <2>3 DEF LoneAttemptFails, Rescheduled
<1>11. CASE LoneGenerationDiscarded
  <2>1. CASE Rests(rtask.attempt)
    BY <1>11, <2>1 DEF LoneGenerationDiscarded
  <2>2. CASE Retries(rtask.attempt)
    BY <1>11, <2>2 DEF LoneGenerationDiscarded
  <2> QED BY <1>11, <2>1, <2>2 DEF LoneGenerationDiscarded, Rescheduled
<1>12. CASE LoneAttemptCancelled
  BY <1>12 DEF LoneAttemptCancelled, Release
<1>13. CASE LoneConnect
  BY <1>13 DEF LoneConnect, JoinOrDial
<1>14. CASE LoneDisconnect
  <2>1. CASE Becomes(NoTask) /\ Release
    BY <1>14, <2>1 DEF LoneDisconnect, Release
  <2>2. CASE /\ Becomes([NoTask EXCEPT !.pc = "cancelled"]) /\ closer' = "cancelling"
             /\ UNCHANGED <<handle, restored, socket, isConnected, isReconnecting, isReady>>
    BY <1>14, <2>2 DEF LoneDisconnect
  <2> QED BY <1>14, <2>1, <2>2 DEF LoneDisconnect
<1>15. ASSUME NEW s \in Sockets, LoneHandleClosed(s) PROVE BudgetFits'
  <2>1. ASSUME Closes(s), s # handle \/ manualDisconnect,
               UNCHANGED <<flags, generation, attempts, task, rtask>>
        PROVE  BudgetFits'
    BY <2>1 DEF Closes
  <2>2. ASSUME Closes(s), Lost(s), isReconnecting, UNCHANGED <<isReconnecting, attempts, task, rtask>>
        PROVE  BudgetFits'
    BY <2>2 DEF Closes, Lost
  <2>3. ASSUME Closes(s), Lost(s), ~isReconnecting, Rests(attempts) PROVE BudgetFits'
    BY <2>3 DEF Closes, Lost
  <2>4. ASSUME Closes(s), Lost(s), ~isReconnecting, Retries(attempts) PROVE BudgetFits'
    BY <2>4 DEF Closes, Lost
  <2> QED BY <1>15, <2>1, <2>2, <2>3, <2>4 DEF LoneHandleClosed, Rescheduled
<1> QED BY <1>1, <1>2, <1>3, <1>4, <1>5, <1>6, <1>7, <1>8, <1>9, <1>10, <1>11, <1>12,
           <1>13, <1>14, <1>15 DEF LoneStep

\* Readiness goes with the handle it was announced on, and follows the last look.
LEMMA ReadyFitsNext ==
  ASSUME TasksTyped, CountsTyped, MapsTyped, rtask \in AttemptRecord, RestorationFits,
         HandleFits, CallerFits, CloserFits, Reconnecting, ReadyFits, LoneStep
  PROVE  ReadyFits'
<1>0. Informed' => Informed
  BY DEF LoneStep
<1> USE CountAssumption, <1>0 DEF TasksTyped, CountsTyped, MapsTyped, AttemptRecord,
             Becomes, Timed, Rests, Retries, Answered, RestorationFits, HandleFits,
             CallerFits, CloserFits, Reconnecting, ReadyFits, Gone
<1>1. CASE Quiet /\ UNCHANGED <<task, rtask>>
  <2>1. CASE ConnectReturns
    BY <1>1, <2>1 DEF ConnectReturns, MarkReady
  <2>2. CASE ConnectRaises
    BY <1>1, <2>2 DEF ConnectRaises
  <2>3. CASE DisconnectReturns
    BY <1>1, <2>3 DEF DisconnectReturns
  <2>4. CASE Register
    BY <1>1, <2>4 DEF Register, SocketGood
  <2>5. ASSUME NEW s \in Sockets, SocketDrops(s) PROVE ReadyFits'
    BY <1>1, <2>5 DEF SocketDrops, Fault
  <2>6. ASSUME NEW w \in Waiters, WaitReady(w) \/ WaitTimesOut(w) PROVE ReadyFits'
    BY <1>1, <2>6 DEF WaitReady, WaitTimesOut
  <2>7. CASE UNCHANGED vars
    BY <1>1, <2>7 DEF vars
  <2> QED BY <1>1, <2>1, <2>2, <2>3, <2>4, <2>5, <2>6, <2>7 DEF Quiet
<1>2. ASSUME NEW s \in Sockets, LoneDialSucceeds(s) PROVE ReadyFits'
  <2>1. CASE dial.gen # generation \/ manualDisconnect
    BY <1>2, <2>1 DEF LoneDialSucceeds, Opened
  <2>2. CASE ~(dial.gen # generation \/ manualDisconnect)
    BY <1>2, <2>2 DEF LoneDialSucceeds, Opened
  <2> QED BY <2>1, <2>2
<1>3. CASE LoneDialDiscarded
  BY <1>3 DEF LoneDialDiscarded
<1>4. CASE LoneDialFails
  BY <1>4 DEF LoneDialFails
<1>5. CASE LoneTimerFires
  BY <1>5 DEF LoneTimerFires
<1>6. CASE LoneAttemptStarts
  BY <1>6 DEF LoneAttemptStarts, JoinOrDial
<1>7. CASE LoneRestorationStarts
  BY <1>7 DEF LoneRestorationStarts
<1>8. CASE LoneRestorerRuns
  BY <1>8 DEF LoneRestorerRuns
<1>9. CASE LoneReconnected
  BY <1>9 DEF LoneReconnected, SocketGood
<1>10. CASE LoneAttemptFails
  <2>1. CASE Becomes([rtask EXCEPT !.pc = "discard"]) /\ UNCHANGED <<isReconnecting, attempts>>
    BY <1>10, <2>1 DEF LoneAttemptFails
  <2>2. CASE handle = 0 /\ Rests(rtask.attempt)
    BY <1>10, <2>2 DEF LoneAttemptFails
  <2>3. CASE handle = 0 /\ Retries(rtask.attempt)
    BY <1>10, <2>3 DEF LoneAttemptFails
  <2> QED BY <1>10, <2>1, <2>2, <2>3 DEF LoneAttemptFails, Rescheduled
<1>11. CASE LoneGenerationDiscarded
  <2>1. CASE Rests(rtask.attempt)
    BY <1>11, <2>1 DEF LoneGenerationDiscarded
  <2>2. CASE Retries(rtask.attempt)
    BY <1>11, <2>2 DEF LoneGenerationDiscarded
  <2> QED BY <1>11, <2>1, <2>2 DEF LoneGenerationDiscarded, Rescheduled
<1>12. CASE LoneAttemptCancelled
  BY <1>12 DEF LoneAttemptCancelled, Release
<1>13. CASE LoneConnect
  BY <1>13 DEF LoneConnect, JoinOrDial
<1>14. CASE LoneDisconnect
  <2>1. CASE Becomes(NoTask) /\ Release
    BY <1>14, <2>1 DEF LoneDisconnect, Release
  <2>2. CASE /\ Becomes([NoTask EXCEPT !.pc = "cancelled"]) /\ closer' = "cancelling"
             /\ UNCHANGED <<handle, restored, socket, isConnected, isReconnecting, isReady>>
    BY <1>14, <2>2 DEF LoneDisconnect
  <2> QED BY <1>14, <2>1, <2>2 DEF LoneDisconnect
<1>15. ASSUME NEW s \in Sockets, LoneHandleClosed(s) PROVE ReadyFits'
  <2>1. ASSUME Closes(s), s # handle \/ manualDisconnect,
               UNCHANGED <<flags, generation, attempts, task, rtask>>
        PROVE  ReadyFits'
    BY <2>1 DEF Closes
  <2>2. ASSUME Closes(s), Lost(s), isReconnecting, UNCHANGED <<isReconnecting, attempts, task, rtask>>
        PROVE  ReadyFits'
    BY <2>2 DEF Closes, Lost
  <2>3. ASSUME Closes(s), Lost(s), ~isReconnecting, Rests(attempts) PROVE ReadyFits'
    BY <2>3 DEF Closes, Lost
  <2>4. ASSUME Closes(s), Lost(s), ~isReconnecting, Retries(attempts) PROVE ReadyFits'
    BY <2>4 DEF Closes, Lost
  <2> QED BY <1>15, <2>1, <2>2, <2>3, <2>4 DEF LoneHandleClosed, Rescheduled
<1> QED BY <1>1, <1>2, <1>3, <1>4, <1>5, <1>6, <1>7, <1>8, <1>9, <1>10, <1>11, <1>12,
           <1>13, <1>14, <1>15 DEF LoneStep

\* A handle is replaced, or emptied, only under a new generation.
LEMMA RestorationFitsNext ==
  ASSUME CountsTyped, rtask \in AttemptRecord, NoDialThen, CallerFits, CloserFits,
         Reconnecting, RestorationFits, LoneStep
  PROVE  RestorationFits'
<1>0. Informed' => Informed
  BY DEF LoneStep
<1> USE CountAssumption, <1>0 DEF CountsTyped, AttemptRecord, Becomes, Timed, Rests,
             Retries, Answered, NoDialThen, CallerFits, CloserFits, Reconnecting,
             RestorationFits
<1>1. CASE Quiet /\ UNCHANGED <<task, rtask>>
  <2>1. CASE ConnectReturns
    BY <1>1, <2>1 DEF ConnectReturns, MarkReady
  <2>2. CASE ConnectRaises
    BY <1>1, <2>2 DEF ConnectRaises
  <2>3. CASE DisconnectReturns
    BY <1>1, <2>3 DEF DisconnectReturns
  <2>4. CASE Register
    BY <1>1, <2>4 DEF Register, SocketGood
  <2>5. ASSUME NEW s \in Sockets, SocketDrops(s) PROVE RestorationFits'
    BY <1>1, <2>5 DEF SocketDrops, Fault
  <2>6. ASSUME NEW w \in Waiters, WaitReady(w) \/ WaitTimesOut(w) PROVE RestorationFits'
    BY <1>1, <2>6 DEF WaitReady, WaitTimesOut
  <2>7. CASE UNCHANGED vars
    BY <1>1, <2>7 DEF vars
  <2> QED BY <1>1, <2>1, <2>2, <2>3, <2>4, <2>5, <2>6, <2>7 DEF Quiet
<1>2. ASSUME NEW s \in Sockets, LoneDialSucceeds(s) PROVE RestorationFits'
  <2>1. CASE dial.gen # generation \/ manualDisconnect
    BY <1>2, <2>1 DEF LoneDialSucceeds, Opened
  <2>2. CASE ~(dial.gen # generation \/ manualDisconnect)
    BY <1>2, <2>2 DEF LoneDialSucceeds, Opened
  <2> QED BY <2>1, <2>2
<1>3. CASE LoneDialDiscarded
  BY <1>3 DEF LoneDialDiscarded
<1>4. CASE LoneDialFails
  BY <1>4 DEF LoneDialFails
<1>5. CASE LoneTimerFires
  BY <1>5 DEF LoneTimerFires
<1>6. CASE LoneAttemptStarts
  BY <1>6 DEF LoneAttemptStarts, JoinOrDial
<1>7. CASE LoneRestorationStarts
  BY <1>7 DEF LoneRestorationStarts
<1>8. CASE LoneRestorerRuns
  BY <1>8 DEF LoneRestorerRuns
<1>9. CASE LoneReconnected
  BY <1>9 DEF LoneReconnected, SocketGood
<1>10. CASE LoneAttemptFails
  <2>1. CASE Becomes([rtask EXCEPT !.pc = "discard"]) /\ UNCHANGED <<isReconnecting, attempts>>
    BY <1>10, <2>1 DEF LoneAttemptFails
  <2>2. CASE handle = 0 /\ Rests(rtask.attempt)
    BY <1>10, <2>2 DEF LoneAttemptFails
  <2>3. CASE handle = 0 /\ Retries(rtask.attempt)
    BY <1>10, <2>3 DEF LoneAttemptFails
  <2> QED BY <1>10, <2>1, <2>2, <2>3 DEF LoneAttemptFails, Rescheduled
<1>11. CASE LoneGenerationDiscarded
  <2>1. CASE Rests(rtask.attempt)
    BY <1>11, <2>1 DEF LoneGenerationDiscarded
  <2>2. CASE Retries(rtask.attempt)
    BY <1>11, <2>2 DEF LoneGenerationDiscarded
  <2> QED BY <1>11, <2>1, <2>2 DEF LoneGenerationDiscarded, Rescheduled
<1>12. CASE LoneAttemptCancelled
  BY <1>12 DEF LoneAttemptCancelled, Release
<1>13. CASE LoneConnect
  BY <1>13 DEF LoneConnect, JoinOrDial
<1>14. CASE LoneDisconnect
  <2>1. CASE Becomes(NoTask) /\ Release
    BY <1>14, <2>1 DEF LoneDisconnect, Release
  <2>2. CASE /\ Becomes([NoTask EXCEPT !.pc = "cancelled"]) /\ closer' = "cancelling"
             /\ UNCHANGED <<handle, restored, socket, isConnected, isReconnecting, isReady>>
    BY <1>14, <2>2 DEF LoneDisconnect
  <2> QED BY <1>14, <2>1, <2>2 DEF LoneDisconnect
<1>15. ASSUME NEW s \in Sockets, LoneHandleClosed(s) PROVE RestorationFits'
  <2>1. ASSUME Closes(s), s # handle \/ manualDisconnect,
               UNCHANGED <<flags, generation, attempts, task, rtask>>
        PROVE  RestorationFits'
    BY <2>1 DEF Closes
  <2>2. ASSUME Closes(s), Lost(s), isReconnecting, UNCHANGED <<isReconnecting, attempts, task, rtask>>
        PROVE  RestorationFits'
    BY <2>2 DEF Closes, Lost
  <2>3. ASSUME Closes(s), Lost(s), ~isReconnecting, Rests(attempts) PROVE RestorationFits'
    BY <2>3 DEF Closes, Lost
  <2>4. ASSUME Closes(s), Lost(s), ~isReconnecting, Retries(attempts) PROVE RestorationFits'
    BY <2>4 DEF Closes, Lost
  <2> QED BY <1>15, <2>1, <2>2, <2>3, <2>4 DEF LoneHandleClosed, Rescheduled
<1> QED BY <1>1, <1>2, <1>3, <1>4, <1>5, <1>6, <1>7, <1>8, <1>9, <1>10, <1>11, <1>12,
           <1>13, <1>14, <1>15 DEF LoneStep

\* An attempt that fails was within the budget when it began.
LEMMA BudgetHoldsNext ==
  ASSUME CountsTyped, rtask \in AttemptRecord, BudgetFits, BudgetHolds, LoneStep
  PROVE  BudgetHolds'
<1>0. Informed' => Informed
  BY DEF LoneStep
<1> USE CountAssumption, <1>0 DEF CountsTyped, AttemptRecord, Becomes, Timed, Rests,
             Retries, Answered, BudgetFits, BudgetHolds
<1>1. CASE Quiet /\ UNCHANGED <<task, rtask>>
  <2>1. CASE ConnectReturns
    BY <1>1, <2>1 DEF ConnectReturns, MarkReady
  <2>2. CASE ConnectRaises
    BY <1>1, <2>2 DEF ConnectRaises
  <2>3. CASE DisconnectReturns
    BY <1>1, <2>3 DEF DisconnectReturns
  <2>4. CASE Register
    BY <1>1, <2>4 DEF Register, SocketGood
  <2>5. ASSUME NEW s \in Sockets, SocketDrops(s) PROVE BudgetHolds'
    BY <1>1, <2>5 DEF SocketDrops, Fault
  <2>6. ASSUME NEW w \in Waiters, WaitReady(w) \/ WaitTimesOut(w) PROVE BudgetHolds'
    BY <1>1, <2>6 DEF WaitReady, WaitTimesOut
  <2>7. CASE UNCHANGED vars
    BY <1>1, <2>7 DEF vars
  <2> QED BY <1>1, <2>1, <2>2, <2>3, <2>4, <2>5, <2>6, <2>7 DEF Quiet
<1>2. ASSUME NEW s \in Sockets, LoneDialSucceeds(s) PROVE BudgetHolds'
  <2>1. CASE dial.gen # generation \/ manualDisconnect
    BY <1>2, <2>1 DEF LoneDialSucceeds, Opened
  <2>2. CASE ~(dial.gen # generation \/ manualDisconnect)
    BY <1>2, <2>2 DEF LoneDialSucceeds, Opened
  <2> QED BY <2>1, <2>2
<1>3. CASE LoneDialDiscarded
  BY <1>3 DEF LoneDialDiscarded
<1>4. CASE LoneDialFails
  BY <1>4 DEF LoneDialFails
<1>5. CASE LoneTimerFires
  BY <1>5 DEF LoneTimerFires
<1>6. CASE LoneAttemptStarts
  BY <1>6 DEF LoneAttemptStarts, JoinOrDial
<1>7. CASE LoneRestorationStarts
  BY <1>7 DEF LoneRestorationStarts
<1>8. CASE LoneRestorerRuns
  BY <1>8 DEF LoneRestorerRuns
<1>9. CASE LoneReconnected
  BY <1>9 DEF LoneReconnected, SocketGood
<1>10. CASE LoneAttemptFails
  <2>1. CASE Becomes([rtask EXCEPT !.pc = "discard"]) /\ UNCHANGED <<isReconnecting, attempts>>
    BY <1>10, <2>1 DEF LoneAttemptFails
  <2>2. CASE handle = 0 /\ Rests(rtask.attempt)
    BY <1>10, <2>2 DEF LoneAttemptFails
  <2>3. CASE handle = 0 /\ Retries(rtask.attempt)
    BY <1>10, <2>3 DEF LoneAttemptFails
  <2> QED BY <1>10, <2>1, <2>2, <2>3 DEF LoneAttemptFails, Rescheduled
<1>11. CASE LoneGenerationDiscarded
  <2>1. CASE Rests(rtask.attempt)
    BY <1>11, <2>1 DEF LoneGenerationDiscarded
  <2>2. CASE Retries(rtask.attempt)
    BY <1>11, <2>2 DEF LoneGenerationDiscarded
  <2> QED BY <1>11, <2>1, <2>2 DEF LoneGenerationDiscarded, Rescheduled
<1>12. CASE LoneAttemptCancelled
  BY <1>12 DEF LoneAttemptCancelled, Release
<1>13. CASE LoneConnect
  BY <1>13 DEF LoneConnect, JoinOrDial
<1>14. CASE LoneDisconnect
  <2>1. CASE Becomes(NoTask) /\ Release
    BY <1>14, <2>1 DEF LoneDisconnect, Release
  <2>2. CASE /\ Becomes([NoTask EXCEPT !.pc = "cancelled"]) /\ closer' = "cancelling"
             /\ UNCHANGED <<handle, restored, socket, isConnected, isReconnecting, isReady>>
    BY <1>14, <2>2 DEF LoneDisconnect
  <2> QED BY <1>14, <2>1, <2>2 DEF LoneDisconnect
<1>15. ASSUME NEW s \in Sockets, LoneHandleClosed(s) PROVE BudgetHolds'
  <2>1. ASSUME Closes(s), s # handle \/ manualDisconnect,
               UNCHANGED <<flags, generation, attempts, task, rtask>>
        PROVE  BudgetHolds'
    BY <2>1 DEF Closes
  <2>2. ASSUME Closes(s), Lost(s), isReconnecting, UNCHANGED <<isReconnecting, attempts, task, rtask>>
        PROVE  BudgetHolds'
    BY <2>2 DEF Closes, Lost
  <2>3. ASSUME Closes(s), Lost(s), ~isReconnecting, Rests(attempts) PROVE BudgetHolds'
    BY <2>3 DEF Closes, Lost
  <2>4. ASSUME Closes(s), Lost(s), ~isReconnecting, Retries(attempts) PROVE BudgetHolds'
    BY <2>4 DEF Closes, Lost
  <2> QED BY <1>15, <2>1, <2>2, <2>3, <2>4 DEF LoneHandleClosed, Rescheduled
<1> QED BY <1>1, <1>2, <1>3, <1>4, <1>5, <1>6, <1>7, <1>8, <1>9, <1>10, <1>11, <1>12,
           <1>13, <1>14, <1>15 DEF LoneStep

--------------------------------------------------------------------------------
(* What is said of any windows, and the theorems. *)

\* A cancelled attempt stays so until it takes its cancellation.
LEMMA CancelledStays ==
  ASSUME TasksTyped, NEW u \in Attempts, task[u].pc = "cancelled", [Next]_vars
  PROVE  closer' # "cancelling" \/ task'[u].pc = "cancelled"
<1> USE DEF TasksTyped
<1>1. CASE ConnectReturns
  BY <1>1 DEF ConnectReturns, MarkReady
<1>2. CASE ConnectRaises
  BY <1>2 DEF ConnectRaises
<1>3. CASE DialSucceeds
  <2>1. PICK s \in Sockets :
          /\ Opened(s) /\ socket' = [socket EXCEPT ![s] = "open"]
          /\ IF dial.gen # generation \/ manualDisconnect
               THEN /\ dial' = [dial EXCEPT !.pc = "discarding", !.sock = s]
                    /\ UNCHANGED <<handle, restored, isConnected, attempts, caller, task>>
               ELSE /\ handle' = s /\ restored' = {} /\ isConnected' = TRUE /\ attempts' = 0
                    /\ dial' = NoDial /\ Tell("connected")
    BY <1>3 DEF DialSucceeds
  <2>2. task' = task \/ Tell("connected")
    BY <2>1
  <2> QED BY <2>2 DEF Tell
<1>4. CASE DialDiscarded
  BY <1>4 DEF DialDiscarded, Tell
<1>5. CASE DialFails
  BY <1>5 DEF DialFails, Fault, Tell
<1>6. CASE DisconnectReturns
  BY <1>6 DEF DisconnectReturns
<1>7. ASSUME NEW t \in Attempts, TimerFires(t) PROVE closer' # "cancelling" \/ task'[u].pc = "cancelled"
  BY <1>7 DEF TimerFires, Forgotten
<1>8. ASSUME NEW t \in Attempts, AttemptStarts(t) PROVE closer' # "cancelling" \/ task'[u].pc = "cancelled"
  BY <1>8 DEF AttemptStarts, JoinOrDial
<1>9. ASSUME NEW t \in Attempts, RestorationStarts(t) PROVE closer' # "cancelling" \/ task'[u].pc = "cancelled"
  BY <1>9 DEF RestorationStarts
<1>10. ASSUME NEW t \in Attempts, RestorerRuns(t) PROVE closer' # "cancelling" \/ task'[u].pc = "cancelled"
  BY <1>10 DEF RestorerRuns
<1>11. ASSUME NEW t \in Attempts, Reconnected(t) PROVE closer' # "cancelling" \/ task'[u].pc = "cancelled"
  BY <1>11 DEF Reconnected, MarkReady, SocketGood
<1>12. ASSUME NEW t \in Attempts, AttemptFails(t) PROVE closer' # "cancelling" \/ task'[u].pc = "cancelled"
  <2>1. ScheduleReconnect(FALSE, task[t].attempt, Ended(t)) => closer' # "cancelling" \/ task'[u].pc = "cancelled"
    <3>1. u # t
      BY <1>12 DEF AttemptFails, AttemptBreaks
    <3>2. Ended(t)[u] = task[u]
      BY <3>1
    <3>3. SetTimer(Ended(t)) => task'[u] = task[u]
      BY <3>2 DEF SetTimer, Forgotten
    <3> QED BY <3>2, <3>3 DEF ScheduleReconnect
  <2>2. u # t
    BY <1>12 DEF AttemptFails, AttemptBreaks
  <2> QED BY <1>12, <2>1, <2>2 DEF AttemptFails
<1>13. ASSUME NEW t \in Attempts, GenerationDiscarded(t) PROVE closer' # "cancelling" \/ task'[u].pc = "cancelled"
  <2>1. ScheduleReconnect(FALSE, task[t].attempt, Ended(t)) => closer' # "cancelling" \/ task'[u].pc = "cancelled"
    <3>1. u # t
      BY <1>13 DEF GenerationDiscarded
    <3>2. Ended(t)[u] = task[u]
      BY <3>1
    <3>3. SetTimer(Ended(t)) => task'[u] = task[u]
      BY <3>2 DEF SetTimer, Forgotten
    <3> QED BY <3>2, <3>3 DEF ScheduleReconnect
  <2> QED BY <1>13, <2>1 DEF GenerationDiscarded
<1>14. ASSUME NEW t \in Attempts, AttemptCancelled(t) PROVE closer' # "cancelling" \/ task'[u].pc = "cancelled"
  BY <1>14 DEF AttemptCancelled, Release
<1>15. CASE Connect
  BY <1>15 DEF Connect, JoinOrDial, Seen
<1>16. CASE Disconnect
  <2>1. Stopped(u).pc = "cancelled"
    BY DEF Stopped
  <2> QED BY <1>16, <2>1 DEF Disconnect
<1>17. CASE Register
  BY <1>17 DEF Register, SocketGood
<1>18. ASSUME NEW s \in Sockets, SocketDrops(s) PROVE closer' # "cancelling" \/ task'[u].pc = "cancelled"
  BY <1>18 DEF SocketDrops, Fault
<1>19. ASSUME NEW s \in Sockets, HandleClosed(s) PROVE closer' # "cancelling" \/ task'[u].pc = "cancelled"
  <2>1. SetTimer(task) => task'[u] = task[u]
    BY DEF SetTimer, Forgotten
  <2> QED BY <1>19, <2>1 DEF HandleClosed, ScheduleReconnect
<1>20. ASSUME NEW w \in Waiters, WaitReady(w) \/ WaitTimesOut(w) PROVE closer' # "cancelling" \/ task'[u].pc = "cancelled"
  BY <1>20 DEF WaitReady, WaitTimesOut
<1>21. CASE UNCHANGED vars
  BY <1>21 DEF vars
<1> QED BY <1>1, <1>2, <1>3, <1>4, <1>5, <1>6, <1>7, <1>8, <1>9, <1>10, <1>11, <1>12,
           <1>13, <1>14, <1>15, <1>16, <1>17, <1>18, <1>19, <1>20, <1>21 DEF Next,
           Calling, Dialling, Attempting

LEMMA TimerIsSet == ASSUME NEW known, SetTimer(known) PROVE \E v \in Attempts : task'[v].pc # "none"
  BY DEF SetTimer

\* The last attempt ends with readiness, with disconnect(), or by telling those who wait.
LEMMA SomeoneStays ==
  ASSUME TasksTyped, NEW u \in Attempts, task[u].pc # "none", ~manualDisconnect',
         parked' # {}, [Next]_vars
  PROVE  \E v \in Attempts : task'[v].pc # "none"
<1> USE DEF TasksTyped, AttemptRecord
<1>1. CASE ConnectReturns
  BY <1>1 DEF ConnectReturns, MarkReady
<1>2. CASE ConnectRaises
  BY <1>2 DEF ConnectRaises
<1>3. CASE DialSucceeds
  <2>1. PICK s \in Sockets :
          /\ Opened(s) /\ socket' = [socket EXCEPT ![s] = "open"]
          /\ IF dial.gen # generation \/ manualDisconnect
               THEN /\ dial' = [dial EXCEPT !.pc = "discarding", !.sock = s]
                    /\ UNCHANGED <<handle, restored, isConnected, attempts, caller, task>>
               ELSE /\ handle' = s /\ restored' = {} /\ isConnected' = TRUE /\ attempts' = 0
                    /\ dial' = NoDial /\ Tell("connected")
    BY <1>3 DEF DialSucceeds
  <2>2. task' = task \/ Tell("connected")
    BY <2>1
  <2>3. task'[u].pc # "none"
    BY <2>2 DEF Tell
  <2> QED BY <2>3
<1>4. CASE DialDiscarded
  <2>1. task'[u].pc # "none"
    BY <1>4 DEF DialDiscarded, Tell
  <2> QED BY <2>1
<1>5. CASE DialFails
  <2>1. task'[u].pc # "none"
    BY <1>5 DEF DialFails, Tell
  <2> QED BY <2>1
<1>6. CASE DisconnectReturns
  BY <1>6 DEF DisconnectReturns
<1>7. ASSUME NEW t \in Attempts, TimerFires(t) PROVE \E v \in Attempts : task'[v].pc # "none"
  BY <1>7 DEF TimerFires, Forgotten
<1>8. ASSUME NEW t \in Attempts, AttemptStarts(t) PROVE \E v \in Attempts : task'[v].pc # "none"
  BY <1>8 DEF AttemptStarts, JoinOrDial
<1>9. ASSUME NEW t \in Attempts, RestorationStarts(t) PROVE \E v \in Attempts : task'[v].pc # "none"
  BY <1>9 DEF RestorationStarts
<1>10. ASSUME NEW t \in Attempts, RestorerRuns(t) PROVE \E v \in Attempts : task'[v].pc # "none"
  <2>1. task'[t].pc # "none"
    BY <1>10 DEF RestorerRuns
  <2> QED BY <2>1
<1>11. ASSUME NEW t \in Attempts, Reconnected(t) PROVE \E v \in Attempts : task'[v].pc # "none"
  BY <1>11 DEF Reconnected, MarkReady, SocketGood
<1>12. ASSUME NEW t \in Attempts, AttemptFails(t) PROVE \E v \in Attempts : task'[v].pc # "none"
  <2>1. CASE manualDisconnect
    BY <1>12, <2>1 DEF AttemptFails
  <2>2. CASE ~manualDisconnect /\ handle = 0
    BY <1>12, <2>2, TimerIsSet DEF AttemptFails, ScheduleReconnect
  <2>3. CASE ~manualDisconnect /\ handle # 0
    <3>1. task'[t].pc = "discard"
      BY <1>12, <2>3 DEF AttemptFails
    <3> QED BY <3>1
  <2> QED BY <2>1, <2>2, <2>3
<1>13. ASSUME NEW t \in Attempts, GenerationDiscarded(t) PROVE \E v \in Attempts : task'[v].pc # "none"
  BY <1>13, TimerIsSet DEF GenerationDiscarded, ScheduleReconnect
<1>14. ASSUME NEW t \in Attempts, AttemptCancelled(t) PROVE \E v \in Attempts : task'[v].pc # "none"
  BY <1>14 DEF AttemptCancelled, Release
<1>15. CASE Connect
  BY <1>15 DEF Connect, JoinOrDial, Seen
<1>16. CASE Disconnect
  BY <1>16 DEF Disconnect
<1>17. CASE Register
  BY <1>17 DEF Register, SocketGood
<1>18. ASSUME NEW s \in Sockets, SocketDrops(s) PROVE \E v \in Attempts : task'[v].pc # "none"
  BY <1>18 DEF SocketDrops, Fault
<1>19. ASSUME NEW s \in Sockets, HandleClosed(s) PROVE \E v \in Attempts : task'[v].pc # "none"
  BY <1>19, TimerIsSet DEF HandleClosed, ScheduleReconnect
<1>20. ASSUME NEW w \in Waiters, WaitReady(w) \/ WaitTimesOut(w) PROVE \E v \in Attempts : task'[v].pc # "none"
  BY <1>20 DEF WaitReady, WaitTimesOut
<1>21. CASE UNCHANGED vars
  BY <1>21 DEF vars
<1> QED BY <1>1, <1>2, <1>3, <1>4, <1>5, <1>6, <1>7, <1>8, <1>9, <1>10, <1>11, <1>12,
           <1>13, <1>14, <1>15, <1>16, <1>17, <1>18, <1>19, <1>20, <1>21 DEF Next,
           Calling, Dialling, Attempting

\* Readiness, disconnects and giving up empty the set of waiters; nobody joins it after.
LEMMA WaitersFitNext ==
  ASSUME TasksTyped, MapsTyped, WaitersFit, [Next]_vars
  PROVE  WaitersFit'
<1>0. closer = "cancelling" /\ closer' = "cancelling" =>
        \E t \in Attempts : task'[t].pc = "cancelled"
  BY CancelledStays DEF WaitersFit
<1> USE <1>0 DEF TasksTyped, MapsTyped, WaitersFit
<1>1. CASE ConnectReturns
  BY <1>1 DEF ConnectReturns, MarkReady
<1>2. CASE ConnectRaises
  BY <1>2 DEF ConnectRaises
<1>3. CASE DialSucceeds
  BY <1>3 DEF DialSucceeds
<1>4. CASE DialDiscarded
  BY <1>4 DEF DialDiscarded
<1>5. CASE DialFails
  BY <1>5 DEF DialFails
<1>6. CASE DisconnectReturns
  BY <1>6 DEF DisconnectReturns
<1>7. ASSUME NEW t \in Attempts, TimerFires(t) PROVE WaitersFit'
  BY <1>7 DEF TimerFires
<1>8. ASSUME NEW t \in Attempts, AttemptStarts(t) PROVE WaitersFit'
  BY <1>8 DEF AttemptStarts, JoinOrDial
<1>9. ASSUME NEW t \in Attempts, RestorationStarts(t) PROVE WaitersFit'
  BY <1>9 DEF RestorationStarts
<1>10. ASSUME NEW t \in Attempts, RestorerRuns(t) PROVE WaitersFit'
  BY <1>10 DEF RestorerRuns
<1>11. ASSUME NEW t \in Attempts, Reconnected(t) PROVE WaitersFit'
  BY <1>11 DEF Reconnected, MarkReady, SocketGood
<1>12. ASSUME NEW t \in Attempts, AttemptFails(t) PROVE WaitersFit'
  <2>1. CASE manualDisconnect
    BY <1>12, <2>1 DEF AttemptFails
  <2>2. CASE ~manualDisconnect /\ handle = 0
    BY <1>12, <2>2 DEF AttemptFails, ScheduleReconnect
  <2>3. CASE ~manualDisconnect /\ handle # 0
    BY <1>12, <2>3 DEF AttemptFails
  <2> QED BY <2>1, <2>2, <2>3
<1>13. ASSUME NEW t \in Attempts, GenerationDiscarded(t) PROVE WaitersFit'
  BY <1>13 DEF GenerationDiscarded, ScheduleReconnect
<1>14. ASSUME NEW t \in Attempts, AttemptCancelled(t) PROVE WaitersFit'
  BY <1>14 DEF AttemptCancelled, Release
<1>15. CASE Connect
  BY <1>15 DEF Connect, JoinOrDial, Seen
<1>16. CASE Disconnect
  <2>1. CASE \E t \in Attempts : Stopped(t).pc = "cancelled"
    BY <1>16, <2>1 DEF Disconnect
  <2>2. CASE ~\E t \in Attempts : Stopped(t).pc = "cancelled"
    BY <1>16, <2>2 DEF Disconnect, Release
  <2> QED BY <2>1, <2>2
<1>17. CASE Register
  BY <1>17 DEF Register, SocketGood
<1>18. ASSUME NEW s \in Sockets, SocketDrops(s) PROVE WaitersFit'
  BY <1>18 DEF SocketDrops, Fault
<1>19. ASSUME NEW s \in Sockets, HandleClosed(s) PROVE WaitersFit'
  <2>1. CASE s # handle \/ manualDisconnect
    BY <1>19, <2>1 DEF HandleClosed
  <2>2. CASE ~(s # handle \/ manualDisconnect)
    BY <1>19, <2>2 DEF HandleClosed, ScheduleReconnect
  <2> QED BY <2>1, <2>2
<1>20. ASSUME NEW w \in Waiters, WaitReady(w) \/ WaitTimesOut(w) PROVE WaitersFit'
  BY <1>20 DEF WaitReady, WaitTimesOut
<1>21. CASE UNCHANGED vars
  BY <1>21 DEF vars
<1> QED BY <1>1, <1>2, <1>3, <1>4, <1>5, <1>6, <1>7, <1>8, <1>9, <1>10, <1>11, <1>12,
           <1>13, <1>14, <1>15, <1>16, <1>17, <1>18, <1>19, <1>20, <1>21 DEF Next,
           Calling, Dialling, Attempting

--------------------------------------------------------------------------------
(* The theorems. *)

LEMMA InitHolds == Init => IInv /\ WaitersFit
<1> SUFFICES ASSUME Init PROVE IInv /\ WaitersFit
  OBVIOUS
<1>1. TypeOK
  BY TypeInit
<1> USE CountAssumption, OneIn DEF Init, rtask
<1>2. Alone /\ Reconnecting /\ HandleFits /\ NoDialThen /\ CallerFits /\ CloserFits
  BY DEF Alone, Reconnecting, HandleFits, NoDialThen, CallerFits, CloserFits, Gone
<1>3. DialFits /\ OneSocket /\ BudgetFits /\ BudgetHolds
  BY DEF DialFits, OneSocket, BudgetFits, BudgetHolds
<1>4. ReadyFits /\ RestorationFits /\ WaitersFit
  BY DEF ReadyFits, RestorationFits, WaitersFit
<1> QED BY <1>1, <1>2, <1>3, <1>4 DEF IInv, Owned

LEMMA InvNext == IInv /\ [Next]_vars => IInv'
<1> SUFFICES ASSUME IInv, [Next]_vars PROVE IInv'
  OBVIOUS
<1>1. TypeOK'
  BY TypeKept DEF IInv
<1>2. ASSUME OneOwner' PROVE Owned'
  <2>1. Owned /\ FlagsTyped /\ TasksTyped /\ CountsTyped /\ MapsTyped
    BY <1>2, OwnedBefore DEF IInv, TypeOK
  <2>2. LoneStep /\ rtask \in AttemptRecord
    BY <1>2, <2>1, LoneSteps, AloneIs DEF Owned
  <2> HIDE DEF flags, topology, bounds
  <2>3. Alone' /\ Reconnecting' /\ HandleFits' /\ NoDialThen' /\ CallerFits' /\ CloserFits'
    BY <2>1, <2>2, AloneNext, ReconnectingNext, HandleFitsNext, NoDialThenNext,
       CallerFitsNext, CloserFitsNext DEF Owned
  <2>4. DialFits' /\ OneSocket' /\ BudgetFits' /\ BudgetHolds'
    BY <2>1, <2>2, DialFitsNext, OneSocketNext, BudgetFitsNext, BudgetHoldsNext DEF Owned
  <2>5. ReadyFits' /\ RestorationFits'
    BY <2>1, <2>2, ReadyFitsNext, RestorationFitsNext DEF Owned
  <2> QED BY <2>3, <2>4, <2>5 DEF Owned
<1> QED BY <1>1, <1>2 DEF IInv

LEMMA InvHolds == Spec => []IInv
<1>1. Init => IInv
  BY InitHolds
<1> QED BY <1>1, InvNext, PTL DEF Spec

\* However dials, drops, timers, disconnects and restorations overlap, there is at
\* most one open socket, one reconnector and one budget, as long as no loss has
\* come between a dial and the connect() awaiting it, and no connect() has joined a
\* reconnection or a disconnect() (connect, _schedule_reconnect, _on_handle_closed).
THEOREM ConnectionNeverForks == Spec => []OneOfEach
<1>1. ASSUME IInv PROVE OneOfEach
  <2>1. ASSUME OneOwner PROVE OneReconnector
    <3>1. Alone /\ Reconnecting
      BY <1>1, <2>1 DEF IInv, Owned
    <3>2. \A t \in Alive : t = 1
      BY <3>1 DEF Alone, Alive
    <3>3. 1 \in Alive <=> rtask.pc # "none"
      BY OneIn DEF Alive, rtask
    <3> QED BY <3>1, <3>2, <3>3 DEF OneReconnector, Reconnecting
  <2> QED BY <1>1, <2>1 DEF IInv, Owned, OneOfEach
<1> QED BY <1>1, InvHolds, PTL

\* A ready connection is live, and carries the topology of every component registered
\* so far, outside the windows it names (_run_restorers, is_ready).
THEOREM ReadyIsRestored == Spec => []ReadyMeansRestored
<1>1. IInv => ReadyMeansRestored
  BY DEF IInv, Owned, ReadyFits, Informed, ReadyMeansRestored
<1> QED BY <1>1, InvHolds, PTL

\* Once disconnect() has returned, and a dial it could not stop has been discarded,
\* no socket is open, whatever it interrupted, a connect() about to resume included
\* (disconnect, _do_connect).
THEOREM DisconnectSticks == Spec => []DisconnectIsFinal
<1>1. IInv => DisconnectIsFinal
  <2> SUFFICES ASSUME IInv, OneOwner, manualDisconnect, closer = "idle", dial.pc = "none",
                      NEW s \in Sockets
               PROVE  socket[s] # "open"
    BY DEF DisconnectIsFinal
  <2>1. handle = 0 /\ dial.sock = 0
    BY DEF IInv, Owned, CloserFits, DialFits
  <2> QED BY <2>1, CountAssumption DEF IInv, Owned, OneSocket
<1> QED BY <1>1, InvHolds, PTL

\* In whatever windows: nobody stays parked in when_ready on a connection that is
\* ready or closed, and no step that leaves somebody parked ends the last attempt:
\* giving up tells them too (mark_ready, abandon_ready, _schedule_reconnect).
THEOREM NobodyIsForgotten == Spec => NobodyForgotten
<1>1. TypeOK /\ WaitersFit /\ [Next]_vars => (TypeOK /\ WaitersFit)'
  BY TypeKept, WaitersFitNext DEF TypeOK
<1>2. Init => TypeOK /\ WaitersFit
  BY TypeInit, InitHolds
<1> DEFINE Awaited == parked' # {} =>
             /\ ~isReady' /\ (manualDisconnect' => closer' = "cancelling")
             /\ Alive # {} => Alive' # {}
<1>3. ASSUME TypeOK, WaitersFit, [Next]_vars, parked' # {}
      PROVE  /\ ~isReady' /\ (manualDisconnect' => closer' = "cancelling")
             /\ Alive # {} => Alive' # {}
  <2>1. WaitersFit'
    BY <1>1, <1>3
  <2>2. ~isReady' /\ (manualDisconnect' => closer' = "cancelling")
    BY <1>3, <2>1 DEF WaitersFit
  <2>3. CASE manualDisconnect'
    <3>1. PICK v \in Attempts : task'[v].pc = "cancelled"
      BY <2>1, <2>2, <2>3 DEF WaitersFit
    <3>2. v \in Alive'
      BY <3>1 DEF Alive
    <3> QED BY <2>2, <3>2
  <2>4. ASSUME ~manualDisconnect', NEW u \in Alive PROVE Alive' # {}
    <3>1. u \in Attempts /\ task[u].pc # "none" /\ TasksTyped
      BY <1>3, <2>4 DEF Alive, TypeOK
    <3>2. PICK v \in Attempts : task'[v].pc # "none"
      BY <1>3, <2>4, <3>1, SomeoneStays
    <3>3. v \in Alive'
      BY <3>2 DEF Alive
    <3> QED BY <3>3
  <2> QED BY <2>2, <2>3, <2>4
<1>4. TypeOK /\ WaitersFit /\ [Next]_vars => [Awaited]_vars
  BY <1>3
<1> HIDE DEF Awaited
<1>5. Spec => [][Awaited]_vars
  BY <1>1, <1>2, <1>4, PTL DEF Spec
<1> QED BY <1>5 DEF NobodyForgotten, Awaited

--------------------------------------------------------------------------------
(* The publishers: theorems about ConfirmedPublish, for any finite set of      *)
(* publishers and any bound on the unconfirmed publishes.                      *)

(***************************************************************************)
(* The inductive invariant.  The list of waiters holds each parked          *)
(* publisher once, so that waking its head always wakes somebody; and a     *)
(* verdict once reached no longer changes what the broker has.              *)
(***************************************************************************)

Stages == {"idle", "parked", "woken", "sending", "done"}

\* The list of waiters, against where the publishers stand.
Listed(q, at) ==
  /\ \A i \in 1..Len(q) : at[q[i]] = "parked"
  /\ \A i, j \in 1..Len(q) : q[i] = q[j] => i = j
  /\ \A p \in Publishers : at[p] = "parked" => \E i \in 1..Len(q) : q[i] = p

ListFits == Listed(waiters, pc)

MissedFits == \A p \in missed : pc[p] = "done"

OutcomeFits ==
  \A p \in Publishers :
    /\ pc[p] \in {"idle", "parked", "woken"} => confirm[p] = "none"
    /\ pc[p] # "done" => result[p] = "none"
    /\ confirm[p] = "ack" => stored[p] = "yes"
    /\ confirm[p] \in {"nack", "return"} => stored[p] = "no"
    /\ result[p] = "ok" => stored[p] = "yes"
    /\ result[p] \in {"nacked", "unroutable"} => stored[p] = "no"

PublisherInv ==
  PublisherTypeOK /\ ListFits /\ MissedFits /\ OutcomeFits /\ BoundHolds /\ NoLostWakeup

--------------------------------------------------------------------------------
(* Counting, and taking one element out of a list. *)

LEMMA Counted ==
  ASSUME NEW S \in SUBSET Publishers PROVE IsFiniteSet(S) /\ Cardinality(S) \in Nat
  BY PublishersAssumption, FS_Subset, FS_CardinalityType

LEMMA OneMore ==
  ASSUME NEW S \in SUBSET Publishers, NEW p \in Publishers \ S
  PROVE  Cardinality(S \cup {p}) = Cardinality(S) + 1
  BY Counted, FS_AddElement

LEMMA OneLess ==
  ASSUME NEW S \in SUBSET Publishers, NEW p
  PROVE  Cardinality(S \ {p}) = IF p \in S THEN Cardinality(S) - 1 ELSE Cardinality(S)
  BY Counted, FS_RemoveElement

LEMMA RemoveAtIs ==
  ASSUME NEW S, NEW s \in Seq(S), NEW i \in 1..Len(s)
  PROVE  /\ RemoveAt(s, i) \in Seq(S) /\ Len(RemoveAt(s, i)) = Len(s) - 1
         /\ \A j \in 1..(Len(s) - 1) : RemoveAt(s, i)[j] = IF j < i THEN s[j] ELSE s[j + 1]
<1> DEFINE before == SubSeq(s, 1, i - 1)
           after  == SubSeq(s, i + 1, Len(s))
<1>1. Len(s) \in Nat /\ \A j \in 1..Len(s) : s[j] \in S
  BY LenProperties, ElementOfSeq
<1>2. /\ before \in Seq(S) /\ Len(before) = i - 1
      /\ \A j \in 1..(i - 1) : before[j] = s[j]
  BY <1>1, SubSeqProperties
<1>3. /\ after \in Seq(S) /\ Len(after) = Len(s) - i
      /\ \A j \in 1..(Len(s) - i) : after[j] = s[i + j]
  BY <1>1, SubSeqProperties
<1>4. RemoveAt(s, i) = before \o after
  BY DEF RemoveAt
<1> HIDE DEF before, after
<1>5. /\ RemoveAt(s, i) \in Seq(S) /\ Len(RemoveAt(s, i)) = Len(s) - 1
      /\ \A j \in 1..(Len(s) - 1) :
           RemoveAt(s, i)[j] = IF j <= i - 1 THEN before[j] ELSE after[j - (i - 1)]
  BY <1>1, <1>2, <1>3, <1>4, ConcatProperties
<1>6. ASSUME NEW j \in 1..(Len(s) - 1)
      PROVE  RemoveAt(s, i)[j] = IF j < i THEN s[j] ELSE s[j + 1]
  <2>1. CASE j < i
    BY <1>1, <1>2, <1>5, <2>1
  <2>2. CASE ~(j < i)
    <3>1. j - (i - 1) \in 1..(Len(s) - i) /\ i + (j - (i - 1)) = j + 1
      BY <1>1, <2>2
    <3> QED BY <1>1, <1>3, <1>5, <2>2, <3>1
  <2> QED BY <2>1, <2>2
<1> QED BY <1>5, <1>6

\* A publisher joins the list, or leaves it from anywhere or from its head.
LEMMA ListedAppend ==
  ASSUME NEW q \in Seq(Publishers), NEW at \in [Publishers -> Stages], Listed(q, at),
         NEW p \in Publishers, at[p] # "parked"
  PROVE  Listed(Append(q, p), [at EXCEPT ![p] = "parked"])
<1> DEFINE r == Append(q, p)
           to == [at EXCEPT ![p] = "parked"]
<1>1. Len(q) \in Nat /\ \A i \in 1..Len(q) : q[i] \in Publishers
  BY LenProperties, ElementOfSeq
<1>2. /\ Len(r) = Len(q) + 1 /\ r[Len(q) + 1] = p
      /\ \A i \in 1..Len(q) : r[i] = q[i]
  BY AppendProperties
<1>3. \A x \in Publishers : to[x] = IF x = p THEN "parked" ELSE at[x]
  OBVIOUS
<1>4. \A i \in 1..Len(q) : q[i] # p
  BY DEF Listed
<1> HIDE DEF r, to
<1>5. \A i \in 1..Len(r) : to[r[i]] = "parked"
  BY <1>1, <1>2, <1>3 DEF Listed
<1>6. \A i, j \in 1..Len(r) : r[i] = r[j] => i = j
  BY <1>1, <1>2, <1>4 DEF Listed
<1>7. \A x \in Publishers : to[x] = "parked" => \E i \in 1..Len(r) : r[i] = x
  BY <1>1, <1>2, <1>3 DEF Listed
<1> QED BY <1>5, <1>6, <1>7 DEF Listed, r, to

LEMMA ListedRemove ==
  ASSUME NEW q \in Seq(Publishers), NEW at \in [Publishers -> Stages], Listed(q, at),
         NEW k \in 1..Len(q), NEW v \in Stages, v # "parked"
  PROVE  Listed(RemoveAt(q, k), [at EXCEPT ![q[k]] = v])
<1> DEFINE r == RemoveAt(q, k)
           to == [at EXCEPT ![q[k]] = v]
<1>1. Len(q) \in Nat /\ \A i \in 1..Len(q) : q[i] \in Publishers
  BY LenProperties, ElementOfSeq
<1>2. /\ Len(r) = Len(q) - 1
      /\ \A j \in 1..(Len(q) - 1) : r[j] = IF j < k THEN q[j] ELSE q[j + 1]
  BY RemoveAtIs
<1>3. \A x \in Publishers : to[x] = IF x = q[k] THEN v ELSE at[x]
  BY <1>1
<1> HIDE DEF r, to
<1>4. ASSUME NEW i \in 1..Len(r) PROVE to[r[i]] = "parked"
  <2>1. PICK j \in 1..Len(q) : r[i] = q[j] /\ j # k
    BY <1>1, <1>2
  <2> QED BY <1>1, <1>3, <2>1 DEF Listed
<1>5. ASSUME NEW i \in 1..Len(r), NEW j \in 1..Len(r), r[i] = r[j] PROVE i = j
  BY <1>1, <1>2, <1>5 DEF Listed
<1>6. ASSUME NEW x \in Publishers, to[x] = "parked" PROVE \E i \in 1..Len(r) : r[i] = x
  <2>1. x # q[k] /\ at[x] = "parked"
    BY <1>1, <1>3, <1>6
  <2>2. PICK j \in 1..Len(q) : q[j] = x /\ j # k
    BY <2>1 DEF Listed
  <2>3. CASE j < k
    BY <1>1, <1>2, <2>2, <2>3
  <2>4. CASE j > k
    <3>1. j - 1 \in 1..Len(r) /\ r[j - 1] = x
      BY <1>1, <1>2, <2>2, <2>4
    <3> QED BY <3>1
  <2> QED BY <1>1, <2>2, <2>3, <2>4
<1> QED BY <1>4, <1>5, <1>6 DEF Listed, r, to

LEMMA TailIsRemoveAt ==
  ASSUME NEW q \in Seq(Publishers), q # <<>> PROVE Tail(q) = RemoveAt(q, 1)
<1>1. Tail(q) = SubSeq(q, 2, Len(q)) /\ SubSeq(q, 1, 0) = <<>>
  BY TailIsSubSeq, SubSeqEmpty
<1>2. Tail(q) \in Seq(Publishers)
  BY HeadTailProperties
<1> QED BY <1>1, <1>2, ConcatEmptySeq DEF RemoveAt

--------------------------------------------------------------------------------
(* Each step preserves it. *)

LEMMA PublisherInitHolds == PublisherInit => PublisherInv
<1> SUFFICES ASSUME PublisherInit PROVE PublisherInv
  OBVIOUS
<1> USE DEF PublisherInit
<1>1. PublisherTypeOK
  <2>1. waiters \in Seq(Publishers) /\ inFlight \in 0..MaxOutstanding
    BY EmptySeq, OutstandingAssumption
  <2> QED BY <2>1 DEF PublisherTypeOK, Confirms, Results
<1>2. ListFits /\ MissedFits /\ OutcomeFits /\ NoLostWakeup
  BY EmptySeq DEF ListFits, Listed, MissedFits, OutcomeFits, NoLostWakeup
<1>3. BoundHolds
  <2>1. Outstanding = {}
    BY DEF Outstanding
  <2> QED BY <2>1, FS_EmptySet, OutstandingAssumption DEF BoundHolds
<1> QED BY <1>1, <1>2, <1>3 DEF PublisherInv

LEMMA PublisherTypeFacts ==
  ASSUME PublisherTypeOK
  PROVE  /\ inFlight \in Nat /\ MaxOutstanding \in Nat /\ pc \in [Publishers -> Stages]
         /\ Cardinality(Awake) \in Nat /\ Cardinality(missed) \in Nat
<1>1. inFlight \in Nat /\ MaxOutstanding \in Nat
  BY OutstandingAssumption DEF PublisherTypeOK
<1>2. pc \in [Publishers -> Stages]
  BY DEF PublisherTypeOK, Stages
<1>3. Cardinality(Awake) \in Nat /\ Cardinality(missed) \in Nat
  BY Counted DEF PublisherTypeOK, Awake
<1> QED BY <1>1, <1>2, <1>3

\* A publisher that parks does so because the channel is full; one that sends
\* takes the place its wake-up, if it had one, stood for.
LEMMA EnterKeeps ==
  ASSUME PublisherInv, NEW p \in Publishers, pc[p] \in {"idle", "woken"}, Enter(p),
         UNCHANGED <<result, open, missed>>
  PROVE  PublisherInv'
<1> USE DEF PublisherInv, Enter
<1>0. /\ inFlight \in Nat /\ MaxOutstanding \in Nat /\ pc \in [Publishers -> Stages]
      /\ Cardinality(Awake) \in Nat /\ Cardinality(missed) \in Nat
  BY PublisherTypeFacts
<1>1. CASE inFlight >= MaxOutstanding
  <2>1. PublisherTypeOK'
    <3>1. waiters' \in Seq(Publishers)
      BY <1>1, AppendProperties DEF PublisherTypeOK
    <3>2. pc' \in [Publishers -> Stages] /\ UNCHANGED <<stored, confirm, inFlight>>
      BY <1>0, <1>1 DEF Stages
    <3>3. UNCHANGED <<result, open, missed>>
      OBVIOUS
    <3> QED BY <3>1, <3>2, <3>3, SMTT(30) DEF PublisherTypeOK, Stages
  <2>2. ListFits'
    <3>1. /\ waiters \in Seq(Publishers) /\ Listed(waiters, pc) /\ pc[p] # "parked"
          /\ waiters' = Append(waiters, p) /\ pc' = [pc EXCEPT ![p] = "parked"]
      BY <1>1 DEF PublisherTypeOK, ListFits
    <3>2. Listed(waiters', pc')
      BY <1>0, <3>1, ListedAppend
    <3> QED BY <3>2 DEF ListFits
  <2>3. MissedFits' /\ OutcomeFits'
    BY <1>1 DEF PublisherTypeOK, MissedFits, OutcomeFits
  <2>4. Outstanding' = Outstanding
    BY <1>1 DEF PublisherTypeOK, Outstanding
  <2>5. Cardinality(Awake') \in Nat
    BY <2>1, Counted DEF Awake
  <2> QED BY <1>0, <1>1, <2>1, <2>2, <2>3, <2>4, <2>5 DEF BoundHolds, NoLostWakeup
<1>2. CASE ~(inFlight >= MaxOutstanding)
  <2>1. inFlight + 1 \in 0..MaxOutstanding
    BY <1>0, <1>2
  <2>2. PublisherTypeOK'
    BY <1>2, <2>1 DEF PublisherTypeOK, Confirms
  <2>3. ListFits'
    <3>1. waiters' = waiters /\ pc' = [pc EXCEPT ![p] = "sending"] /\ pc[p] # "parked"
      BY <1>2
    <3>2. \A x \in Publishers : pc'[x] = "parked" <=> pc[x] = "parked"
      BY <1>0, <3>1
    <3> QED BY <3>1, <3>2, LenProperties, ElementOfSeq DEF ListFits, Listed, PublisherTypeOK
  <2>4. MissedFits' /\ OutcomeFits'
    BY <1>2 DEF PublisherTypeOK, MissedFits, OutcomeFits
  <2>5. Outstanding' = Outstanding \cup {p} /\ p \notin Outstanding /\ Outstanding \subseteq Publishers
    BY <1>0, <1>2 DEF Outstanding
  <2>6. BoundHolds'
    BY <1>0, <1>2, <2>5, OneMore DEF BoundHolds
  <2>7. Awake' = Awake \ {p} /\ Awake \subseteq Publishers
    BY <1>0, <1>2 DEF Awake
  <2>8. Cardinality(Awake') >= Cardinality(Awake) - 1
    BY <1>0, <2>7, OneLess
  <2>9. Cardinality(Awake') \in Nat
    BY <2>7, Counted
  <2> QED BY <1>0, <1>2, <2>2, <2>3, <2>4, <2>6, <2>8, <2>9 DEF NoLostWakeup
<1> QED BY <1>1, <1>2

\* Whoever finishes gives its place to the head of the list, if there is one.
LEMMA FinishKeeps == ASSUME PublisherInv, NEW p \in Publishers, Finish(p) PROVE PublisherInv'
<1> USE DEF PublisherInv, Finish
<1>0. /\ inFlight \in Nat /\ MaxOutstanding \in Nat /\ pc \in [Publishers -> Stages]
      /\ Cardinality(Awake) \in Nat /\ Cardinality(missed) \in Nat
  BY PublisherTypeFacts
<1>1. inFlight - 1 \in 0..MaxOutstanding
  <2>1. Outstanding \in SUBSET Publishers /\ p \in Outstanding
    BY DEF Outstanding
  <2>2. Cardinality(Outstanding) # 0
    BY <2>1, Counted, FS_EmptySet
  <2> QED BY <1>0, <2>2 DEF BoundHolds
<1>2. Told(confirm[p]) \in Results
  BY DEF PublisherTypeOK, Told, Confirms, Results
<1>3. /\ Told(confirm[p]) = "ok" => confirm[p] = "ack"
      /\ Told(confirm[p]) = "nacked" => confirm[p] = "nack"
      /\ Told(confirm[p]) = "unroutable" => confirm[p] = "return"
  BY DEF PublisherTypeOK, Told, Confirms
<1>4. CASE waiters = <<>>
  <2>0. pc' = [pc EXCEPT ![p] = "done"] /\ waiters' = waiters
    BY <1>4
  <2>1. PublisherTypeOK'
    BY <1>1, <1>2, <2>0 DEF PublisherTypeOK
  <2>2. ListFits' /\ NoLostWakeup'
    BY <1>0, <1>4, <2>0 DEF ListFits, Listed, NoLostWakeup, PublisherTypeOK
  <2>3. MissedFits' /\ OutcomeFits'
    BY <1>0, <1>3, <2>0 DEF PublisherTypeOK, MissedFits, OutcomeFits
  <2>4. Outstanding' = Outstanding \ {p} /\ p \in Outstanding /\ Outstanding \in SUBSET Publishers
    BY <1>0, <2>0 DEF Outstanding
  <2>5. BoundHolds'
    BY <1>0, <2>4, OneLess DEF BoundHolds
  <2> QED BY <2>1, <2>2, <2>3, <2>5
<1>5. CASE waiters # <<>>
  <2> DEFINE q == Head(waiters)
  <2>0. pc' = [pc EXCEPT ![p] = "done", ![q] = "woken"] /\ waiters' = Tail(waiters)
    BY <1>5
  <2>1. /\ waiters \in Seq(Publishers) /\ 1 \in 1..Len(waiters) /\ q = waiters[1]
        /\ q \in Publishers /\ pc[q] = "parked" /\ q # p
    <3>1. waiters \in Seq(Publishers) /\ Len(waiters) \in Nat \ {0}
      BY <1>5, EmptySeq DEF PublisherTypeOK
    <3>2. q = waiters[1] /\ q \in Publishers
      BY <1>5, <3>1, HeadTailProperties
    <3> QED BY <3>1, <3>2 DEF ListFits, Listed
  <2> HIDE DEF q
  <2>2. PublisherTypeOK'
    <3>1. waiters' \in Seq(Publishers)
      BY <1>5, <2>0, <2>1, HeadTailProperties
    <3> QED BY <1>1, <1>2, <2>0, <3>1 DEF PublisherTypeOK
  <2>3. ListFits'
    <3>1. waiters' = RemoveAt(waiters, 1)
      BY <1>5, <2>0, <2>1, TailIsRemoveAt
    <3>2. Listed(RemoveAt(waiters, 1), [pc EXCEPT ![q] = "woken"])
      BY <1>0, <2>1, ListedRemove DEF ListFits, Stages
    <3>3. \A x \in Publishers : pc'[x] = "parked" <=> [pc EXCEPT ![q] = "woken"][x] = "parked"
      BY <1>0, <2>0, <2>1
    <3>4. RemoveAt(waiters, 1) \in Seq(Publishers)
      BY <2>1, RemoveAtIs
    <3> QED BY <3>1, <3>2, <3>3, <3>4, ElementOfSeq DEF ListFits, Listed
  <2>4. MissedFits' /\ OutcomeFits'
    BY <1>0, <1>3, <2>0, <2>1 DEF PublisherTypeOK, MissedFits, OutcomeFits
  <2>5. Outstanding' = Outstanding \ {p} /\ p \in Outstanding /\ Outstanding \in SUBSET Publishers
    BY <1>0, <2>0, <2>1 DEF Outstanding
  <2>6. BoundHolds'
    BY <1>0, <2>5, OneLess DEF BoundHolds
  <2>7. Awake' = Awake \cup {q} /\ q \in Publishers \ Awake /\ Awake \in SUBSET Publishers
    BY <1>0, <2>0, <2>1 DEF Awake
  <2>8. Cardinality(Awake') = Cardinality(Awake) + 1
    BY <2>7, OneMore
  <2>9. NoLostWakeup'
    BY <1>0, <1>5, <2>8 DEF NoLostWakeup
  <2> QED BY <2>2, <2>3, <2>4, <2>6, <2>9
<1> QED BY <1>4, <1>5

LEMMA CancelParkedKeeps == ASSUME PublisherInv, NEW p \in Publishers, CancelParked(p) PROVE PublisherInv'
<1> USE DEF PublisherInv, CancelParked, Leave
<1>0. /\ inFlight \in Nat /\ MaxOutstanding \in Nat /\ pc \in [Publishers -> Stages]
      /\ Cardinality(Awake) \in Nat /\ Cardinality(missed) \in Nat
  BY PublisherTypeFacts
<1>1. PICK i \in 1..Len(waiters) : waiters[i] = p /\ waiters' = RemoveAt(waiters, i)
  OBVIOUS
<1>2. waiters \in Seq(Publishers) /\ waiters' \in Seq(Publishers)
  BY <1>1, RemoveAtIs DEF PublisherTypeOK
<1>3. PublisherTypeOK'
  BY <1>2 DEF PublisherTypeOK, Results
<1>4. ListFits'
  BY <1>0, <1>1, <1>2, ListedRemove DEF ListFits, Stages
<1>5. MissedFits' /\ OutcomeFits'
  BY <1>0 DEF PublisherTypeOK, MissedFits, OutcomeFits
<1>6. Outstanding' = Outstanding /\ Awake' = Awake
  BY <1>0 DEF Outstanding, Awake
<1>7. waiters # <<>>
  BY <1>1, <1>2, EmptySeq
<1> QED BY <1>3, <1>4, <1>5, <1>6, <1>7 DEF BoundHolds, NoLostWakeup

\* A publisher cancelled between its wake-up and its turn is one of those missed.
LEMMA CancelWokenKeeps == ASSUME PublisherInv, NEW p \in Publishers, CancelWoken(p) PROVE PublisherInv'
<1> USE DEF PublisherInv, CancelWoken, Leave
<1>0. /\ inFlight \in Nat /\ MaxOutstanding \in Nat /\ pc \in [Publishers -> Stages]
      /\ Cardinality(Awake) \in Nat /\ Cardinality(missed) \in Nat
  BY PublisherTypeFacts
<1>1. PublisherTypeOK'
  BY DEF PublisherTypeOK, Results
<1>2. ListFits'
  <2>1. \A x \in Publishers : pc'[x] = "parked" <=> pc[x] = "parked"
    BY <1>0
  <2> QED BY <2>1, LenProperties, ElementOfSeq DEF ListFits, Listed, PublisherTypeOK
<1>3. MissedFits' /\ OutcomeFits'
  BY <1>0 DEF PublisherTypeOK, MissedFits, OutcomeFits
<1>4. Outstanding' = Outstanding
  BY <1>0 DEF Outstanding
<1>5. Awake' = Awake \ {p} /\ p \in Awake /\ Awake \in SUBSET Publishers
  BY <1>0 DEF Awake
<1>6. Cardinality(Awake') = Cardinality(Awake) - 1
  BY <1>5, OneLess
<1>7. Cardinality(missed') = Cardinality(missed) + 1
  <2>1. missed \in SUBSET Publishers /\ p \in Publishers \ missed
    BY DEF PublisherTypeOK, MissedFits
  <2> QED BY <2>1, OneMore
<1> QED BY <1>0, <1>1, <1>2, <1>3, <1>4, <1>6, <1>7 DEF BoundHolds, NoLostWakeup

\* The answers change what is known of a publish, and no publisher's place.
LEMMA AnswersKeep ==
  ASSUME PublisherInv, NEW p \in Publishers,
         ConfirmTimesOut(p) \/ CancelSending(p) \/ BrokerAnswers(p)
  PROVE  PublisherInv'
<1> USE DEF PublisherInv, ConfirmTimesOut, CancelSending, BrokerAnswers
<1>1. PublisherTypeOK'
  BY DEF PublisherTypeOK, Confirms
<1>2. UNCHANGED <<pc, waiters, inFlight, missed>>
  OBVIOUS
<1>3. ListFits' /\ MissedFits' /\ BoundHolds' /\ NoLostWakeup'
  BY <1>2 DEF ListFits, Listed, MissedFits, BoundHolds, NoLostWakeup, Outstanding, Awake
<1>4. OutcomeFits'
  BY DEF PublisherTypeOK, OutcomeFits, Confirms
<1> QED BY <1>1, <1>3, <1>4

\* Closing the channel wakes everybody parked and settles every publish.
LEMMA ChannelClosesKeeps == ASSUME PublisherInv, ChannelCloses PROVE PublisherInv'
<1> USE DEF PublisherInv, ChannelCloses
<1>0. /\ waiters' = <<>> /\ UNCHANGED <<inFlight, result, missed>> /\ open' = FALSE
      /\ pc' = [p \in Publishers |-> IF pc[p] = "parked" THEN "woken" ELSE pc[p]]
      /\ confirm' = [p \in Publishers |-> IF confirm[p] = "pending" THEN "cut" ELSE confirm[p]]
  OBVIOUS
<1>1. PICK got \in SUBSET {p \in Publishers : stored[p] = "wire"} :
        stored' = [p \in Publishers |-> IF stored[p] # "wire" THEN stored[p]
                                        ELSE IF p \in got THEN "yes" ELSE "no"]
  OBVIOUS
<1>2. PublisherTypeOK'
  <2>1. pc' \in [Publishers -> Stages]
    BY <1>0 DEF PublisherTypeOK, Stages
  <2>3. confirm' \in [Publishers -> Confirms]
    BY <1>0 DEF PublisherTypeOK, Confirms
  <2>2. stored' \in [Publishers -> {"no", "wire", "yes"}]
    BY <1>1 DEF PublisherTypeOK
  <2>4. waiters' \in Seq(Publishers) /\ UNCHANGED <<inFlight, result, missed>> /\ open' \in BOOLEAN
    BY <1>0, EmptySeq
  <2> QED BY <1>0, <2>1, <2>2, <2>3, <2>4 DEF PublisherTypeOK, Stages
<1>3. ListFits' /\ NoLostWakeup'
  BY <1>0, EmptySeq DEF ListFits, Listed, NoLostWakeup, PublisherTypeOK
<1>4. MissedFits'
  BY <1>0 DEF PublisherTypeOK, MissedFits
<1>5. OutcomeFits'
  BY <1>0, <1>1 DEF PublisherTypeOK, OutcomeFits
<1>6. Outstanding' = Outstanding
  BY <1>0 DEF Outstanding, PublisherTypeOK
<1> QED BY <1>0, <1>2, <1>3, <1>4, <1>5, <1>6 DEF BoundHolds

LEMMA PublisherInvNext == PublisherInv /\ [PublisherNext]_publisherVars => PublisherInv'
<1> SUFFICES ASSUME PublisherInv, [PublisherNext]_publisherVars PROVE PublisherInv'
  OBVIOUS
<1>1. ASSUME NEW p \in Publishers, Publish(p) \/ Woken(p) PROVE PublisherInv'
  BY <1>1, EnterKeeps DEF Publish, Woken
<1>2. ASSUME NEW p \in Publishers, Finish(p) PROVE PublisherInv'
  BY <1>2, FinishKeeps
<1>3. ASSUME NEW p \in Publishers, Cancel(p) PROVE PublisherInv'
  BY <1>3, CancelParkedKeeps, CancelWokenKeeps, AnswersKeep DEF Cancel
<1>4. ASSUME NEW p \in Publishers, ConfirmTimesOut(p) \/ BrokerAnswers(p) PROVE PublisherInv'
  BY <1>4, AnswersKeep
<1>5. CASE ChannelCloses
  BY <1>5, ChannelClosesKeeps
<1>6. CASE UNCHANGED publisherVars
  BY <1>6 DEF publisherVars, PublisherInv, PublisherTypeOK, ListFits, Listed, MissedFits, OutcomeFits, BoundHolds,
              NoLostWakeup, Outstanding, Awake
<1> QED BY <1>1, <1>2, <1>3, <1>4, <1>5, <1>6 DEF PublisherNext, TaskStep

--------------------------------------------------------------------------------
(* The theorems. *)

LEMMA PublisherInvHolds == PublisherSpec => []PublisherInv
  BY PublisherInitHolds, PublisherInvNext, PTL DEF PublisherSpec

\* The in-flight count is exact and never exceeds its bound, and nobody waits for
\* room that nobody is on the way to take (_confirmed_publish, fail_all).
THEOREM BoundStaysExact == PublisherSpec => []BoundIsExact
<1>1. PublisherInv => BoundIsExact
  BY DEF PublisherInv, BoundIsExact
<1> QED BY <1>1, PublisherInvHolds, PTL

\* A publish that returns was stored, and one told nacked or unroutable was not,
\* whatever timeouts, cancellations and closures came between (_confirmed_publish).
THEOREM OutcomesAreTruthful == PublisherSpec => []OutcomeIsTruthful
<1>1. PublisherInv => OutcomeIsTruthful
  BY DEF PublisherInv, OutcomeFits, OutcomeIsTruthful
<1> QED BY <1>1, PublisherInvHolds, PTL

================================================================================
