------------------------ MODULE GracefulShutdown_proofs ------------------------
(***************************************************************************)
(* Theorems about GracefulShutdown, for any number of services sharing a    *)
(* connection and any messages waiting for them.                            *)
(***************************************************************************)
EXTENDS GracefulShutdown, TLAPS

(***************************************************************************)
(* The inductive invariant.  The order of shutdown() is kept because none   *)
(* of the events that could break it - a consumer that starts, a delivery,  *)
(* a waiter woken too soon - can come once the step before it is done.      *)
(***************************************************************************)

\* Only a shutdown asked for during init() runs beside it.
StartFits ==
  \A s \in Services :
    /\ shutdown[s] = "no" => ~early[s]
    /\ shutdown[s] # "no" => early[s] \/ boot[s] \in {"ready", "failed"}
    /\ s \in registered => boot[s] = "ready"

\* What a shutdown has stopped stays stopped.
StopFits ==
  \A s \in Services : early[s] \/
    /\ shutdown[s] \in {"stopEvents", "stopCancels"} => "request" \notin consuming[s]
    /\ shutdown[s] = "stopCancels" => "event" \notin consuming[s]

\* A drain is woken by the end of the last delivery, and no other begins.
WokenFits ==
  \A m \in InFlight : woken[Home[m]] => early[Home[m]]

\* What a disconnection leaves unsettled had a cause to be left.
CutFits ==
  ~connected /\ alone => \A m \in InFlight : expired[Home[m]] \/ early[Home[m]]

IInv ==
  /\ TypeOK /\ StartFits /\ StopFits /\ StopBeforeDrain
  /\ WokenFits /\ CleanupAfterWork /\ HearsSignals /\ CutFits /\ LostHasCause

--------------------------------------------------------------------------------
(* Each step preserves it. *)

USE HomeAssumption, BoundAssumption DEF broker, asking, PastDrain

LEMMA InitHolds == Init => IInv
<1> SUFFICES ASSUME Init PROVE IInv
  OBVIOUS
<1> USE DEF Init
<1>1. TypeOK
  <2>0. faults \in 0..MaxFaults /\ registered \subseteq Services
    OBVIOUS
  <2>1. connected \in BOOLEAN /\ installed \in BOOLEAN /\ alone \in BOOLEAN
    OBVIOUS
  <2>2. /\ boot \in [Services -> Boots] /\ shutdown \in [Services -> Steps]
        /\ work \in [Messages -> Fates] /\ exit \in [Services -> {0, 1}]
        /\ event \in [Services -> {"absent", "clear", "set", "returned"}]
    BY DEF Boots, Steps, Fates
  <2>3. /\ consuming \in [Services -> SUBSET {"request", "event", "cancel"}]
        /\ woken \in [Services -> BOOLEAN] /\ expired \in [Services -> BOOLEAN]
        /\ early \in [Services -> BOOLEAN] /\ \A s \in Services : ~woken[s]
    OBVIOUS
  <2> QED BY <2>0, <2>1, <2>2, <2>3 DEF TypeOK
<1>2. StartFits /\ StopFits /\ StopBeforeDrain
  BY DEF StartFits, StopFits, StopBeforeDrain
<1>3. WokenFits /\ CleanupAfterWork /\ HearsSignals /\ CutFits /\ LostHasCause
  BY DEF WokenFits, CleanupAfterWork, HearsSignals, CutFits, LostHasCause, InFlight
<1> QED BY <1>1, <1>2, <1>3 DEF IInv

\* A delivery is taken only by a service that still consumes.
LEMMA DeliverKeeps == ASSUME IInv, NEW m \in Messages, Deliver(m) PROVE IInv'
<1> USE DEF IInv, Deliver
<1>1. TypeOK'
  BY DEF TypeOK, Fates
<1>2. StartFits' /\ StopFits' /\ StopBeforeDrain' /\ HearsSignals' /\ CutFits'
  BY DEF StartFits, StopFits, StopBeforeDrain, HearsSignals, CutFits
<1>3. InFlight' = InFlight \cup {m} /\ \A n \in Messages \ {m} : work'[n] = work[n]
  BY DEF InFlight, TypeOK
<1>4. /\ woken[Home[m]] => early[Home[m]]
      /\ PastDrain(Home[m]) => early[Home[m]]
  BY DEF TypeOK, StopBeforeDrain
<1>5. WokenFits' /\ CleanupAfterWork'
  BY <1>3, <1>4 DEF WokenFits, CleanupAfterWork, TypeOK
<1>6. LostHasCause'
  BY DEF LostHasCause, TypeOK
<1> QED BY <1>1, <1>2, <1>5, <1>6

LEMMA OverrunKeeps == ASSUME IInv, NEW m \in Messages, Overrun(m) PROVE IInv'
<1> USE DEF IInv, Overrun
<1>1. TypeOK'
  BY DEF TypeOK, Fates
<1>2. StartFits' /\ StopFits' /\ StopBeforeDrain' /\ HearsSignals'
  BY DEF StartFits, StopFits, StopBeforeDrain, HearsSignals
<1>3. InFlight' = InFlight
  BY DEF InFlight, TypeOK
<1>4. WokenFits' /\ CutFits'
  BY <1>3 DEF WokenFits, CutFits
<1>5. CleanupAfterWork' /\ LostHasCause'
  BY DEF CleanupAfterWork, LostHasCause, TypeOK
<1> QED BY <1>1, <1>2, <1>4, <1>5

\* The last delivery to end wakes the drains: nothing is in flight then.
LEMMA EndingKeeps ==
  ASSUME IInv, NEW m \in Messages, Settle(m) \/ OverrunEnds(m) PROVE IInv'
<1> USE DEF IInv, Settle, OverrunEnds, WakeDrains
<1>1. /\ work' = [work EXCEPT ![m] = work'[m]] /\ work'[m] \in {"settled", "lost"}
      /\ work'[m] = "lost" => work[m] = "handling" /\ ~connected
      /\ m \in InFlight
  BY DEF TypeOK, InFlight
<1>2. /\ UNCHANGED <<connected, boot, consuming, shutdown, expired, asking, exit, faults,
                     early, alone>>
      /\ woken' = IF InFlight \subseteq {m}
                    THEN [s \in Services |-> woken[s] \/ shutdown[s] = "draining"] ELSE woken
  OBVIOUS
<1>3. InFlight' = InFlight \ {m}
  BY <1>1 DEF InFlight, TypeOK
<1>4. TypeOK'
  <2>1. work' \in [Messages -> Fates]
    BY <1>1 DEF TypeOK, Fates
  <2>2. woken' \in [Services -> BOOLEAN] /\ \A s \in Services : woken'[s] => shutdown[s] = "draining"
    BY <1>2 DEF TypeOK
  <2> QED BY <1>2, <2>1, <2>2 DEF TypeOK
<1>5. StartFits' /\ StopFits' /\ StopBeforeDrain' /\ HearsSignals'
  BY <1>2 DEF StartFits, StopFits, StopBeforeDrain, HearsSignals
<1>6. WokenFits'
  BY <1>2, <1>3 DEF WokenFits
<1>7. CutFits' /\ CleanupAfterWork'
  BY <1>1, <1>2, <1>3 DEF CutFits, CleanupAfterWork, TypeOK
<1>8. LostHasCause'
  BY <1>1, <1>2 DEF LostHasCause, CutFits, TypeOK
<1> QED BY <1>4, <1>5, <1>6, <1>7, <1>8

\* launch() starts no consumer for a shutdown that did not begin beside it.
LEMMA BootKeeps == ASSUME IInv, NEW s \in Services, Boot(s) PROVE IInv'
<1> USE DEF IInv, Boot
<1>1. TypeOK'
  <2>1. boot' \in [Services -> Boots]
    BY DEF TypeOK, Boots, After
  <2>2. consuming' \in [Services -> SUBSET {"request", "event", "cancel"}]
    BY DEF TypeOK
  <2> QED BY <2>1, <2>2 DEF TypeOK
<1>2. /\ boot'[s] # "failed" /\ boot[s] \notin {"ready", "failed"}
      /\ \A t \in Services \ {s} : boot'[t] = boot[t] /\ consuming'[t] = consuming[t]
      /\ UNCHANGED <<connected, work, shutdown, woken, expired, asking, exit, faults, early, alone>>
  BY DEF TypeOK, After
<1>3. StartFits' /\ StopFits' /\ StopBeforeDrain'
  BY <1>2 DEF StartFits, StopFits, StopBeforeDrain
<1>4. InFlight' = InFlight
  BY DEF InFlight
<1>5. WokenFits' /\ CleanupAfterWork' /\ HearsSignals' /\ CutFits' /\ LostHasCause'
  BY <1>2, <1>4 DEF WokenFits, CleanupAfterWork, HearsSignals, CutFits, LostHasCause
<1> QED BY <1>1, <1>3, <1>5

\* The steps that ask for a shutdown: a start that failed, a signal, a request.
LEMMA AskingKeeps ==
  ASSUME IInv, Signal \/ \E s \in Services : BootFails(s) \/ RequestShutdown(s)
  PROVE  IInv'
<1> USE DEF IInv
<1>1. TypeOK'
  <2>1. CASE Signal
    BY <2>1 DEF Signal, TypeOK, Steps
  <2>2. ASSUME NEW s \in Services, BootFails(s) PROVE TypeOK'
    <3>1. faults' \in 0..MaxFaults /\ boot' \in [Services -> Boots]
      BY <2>2 DEF BootFails, TypeOK, Boots
    <3>2. shutdown' \in [Services -> Steps] /\ exit' \in [Services -> {0, 1}]
      BY <2>2 DEF BootFails, TypeOK, Steps
    <3> QED BY <2>2, <3>1, <3>2 DEF BootFails, TypeOK
  <2>3. ASSUME NEW s \in Services, RequestShutdown(s) PROVE TypeOK'
    BY <2>3 DEF RequestShutdown, TypeOK, Steps
  <2> QED BY <2>1, <2>2, <2>3
<1>2. /\ UNCHANGED <<connected, consuming, work, woken, expired, asking, alone>>
      /\ \A s \in Services :
           shutdown[s] # shutdown'[s] => shutdown[s] = "no" /\ shutdown'[s] = "stopRequests"
  BY DEF TypeOK, Signal, BootFails, RequestShutdown
<1>3. /\ \A s \in Services : early[s] => early'[s]
      /\ \A s \in Services : shutdown'[s] = "no" => ~early'[s]
      /\ \A s \in registered : boot'[s] = "ready"
      /\ \A s \in Services : shutdown'[s] # "no" => early'[s] \/ boot'[s] \in {"ready", "failed"}
  <2>1. CASE Signal
    <3>1. UNCHANGED <<boot, early, registered>>
      BY <2>1 DEF Signal
    <3>2. \A s \in Services : shutdown'[s] # "no" => shutdown[s] # "no" \/ s \in registered
      BY <2>1 DEF TypeOK, Signal
    <3>3. \A s \in Services : shutdown'[s] = "no" => shutdown[s] = "no"
      BY <2>1 DEF TypeOK, Signal
    <3> QED BY <3>1, <3>2, <3>3 DEF StartFits, TypeOK
  <2>2. ASSUME NEW s \in Services, BootFails(s) PROVE <1>3!:
    <3>1. /\ UNCHANGED <<early, registered>> /\ boot[s] # "ready" /\ boot'[s] = "failed"
          /\ \A t \in Services \ {s} : boot'[t] = boot[t] /\ shutdown'[t] = shutdown[t]
          /\ shutdown'[s] # "no"
      BY <2>2 DEF TypeOK, BootFails
    <3> QED BY <3>1 DEF StartFits, TypeOK
  <2>3. ASSUME NEW s \in Services, RequestShutdown(s) PROVE <1>3!:
    <3>1. /\ UNCHANGED <<boot, registered>> /\ shutdown[s] = "no" /\ shutdown'[s] # "no"
          /\ \A t \in Services \ {s} : early'[t] = early[t] /\ shutdown'[t] = shutdown[t]
      BY <2>3 DEF TypeOK, RequestShutdown
    <3>2. early'[s] = (boot[s] # "ready")
      BY <2>3 DEF TypeOK, RequestShutdown
    <3> QED BY <3>1, <3>2 DEF StartFits, TypeOK
  <2> QED BY <2>1, <2>2, <2>3
<1>4. StartFits' /\ StopFits' /\ StopBeforeDrain'
  BY <1>2, <1>3 DEF StartFits, StopFits, StopBeforeDrain
<1>5. InFlight' = InFlight
  BY <1>2 DEF InFlight
<1>6. WokenFits' /\ CutFits'
  BY <1>2, <1>3, <1>5 DEF WokenFits, CutFits, InFlight
<1>7. CleanupAfterWork' /\ HearsSignals' /\ LostHasCause'
  BY <1>2, <1>3 DEF CleanupAfterWork, HearsSignals, LostHasCause
<1> QED BY <1>1, <1>4, <1>6, <1>7

\* run() concerns the signal handlers alone: they go with the last service.
LEMMA RunKeeps ==
  ASSUME IInv, NEW s \in Services, Run(s) \/ RunReturns(s) PROVE IInv'
<1> USE DEF IInv, Run, RunReturns
<1>1. TypeOK'
  <2>1. CASE Run(s)
    BY <2>1 DEF TypeOK
  <2>2. CASE RunReturns(s)
    <3>1. installed' \in BOOLEAN
      BY <2>2
    <3> QED BY <2>2, <3>1 DEF TypeOK
  <2> QED BY <2>1, <2>2
<1>3. HearsSignals'
  BY DEF HearsSignals
<1>2. /\ UNCHANGED <<connected, consuming, work, boot, shutdown, woken, expired, early, alone>>
      /\ registered' \subseteq registered \cup {s}
      /\ s \in registered' => boot[s] = "ready"
  BY DEF StartFits
<1>4. StartFits' /\ StopFits' /\ StopBeforeDrain'
  BY <1>2 DEF StartFits, StopFits, StopBeforeDrain
<1>5. WokenFits' /\ CleanupAfterWork' /\ CutFits' /\ LostHasCause'
  BY <1>2 DEF WokenFits, CleanupAfterWork, CutFits, LostHasCause, InFlight
<1> QED BY <1>1, <1>3, <1>4, <1>5

\* The steps that stop a consumer each.
LEMMA StopKeeps ==
  ASSUME IInv, NEW s \in Services, StopRequests(s) \/ StopEvents(s) \/ StopCancels(s)
  PROVE  IInv'
<1> USE DEF IInv, StopRequests, StopEvents, StopCancels, Step
<1>1. TypeOK'
  BY DEF TypeOK, Steps
<1>2. /\ UNCHANGED <<connected, boot, work, woken, expired, asking, exit, faults, early, alone>>
      /\ \A t \in Services \ {s} : shutdown'[t] = shutdown[t]
      /\ \A t \in Services : consuming'[t] \subseteq consuming[t]
      /\ shutdown[s] # "no" /\ shutdown'[s] \in {"stopEvents", "stopCancels", "drain"}
  BY DEF TypeOK
<1>3. /\ shutdown'[s] = "stopEvents" => "request" \notin consuming'[s]
      /\ shutdown'[s] = "stopCancels" =>
           early[s] \/ consuming'[s] \cap {"request", "event"} = {}
      /\ shutdown'[s] = "drain" => early[s] \/ consuming'[s] = {}
  BY DEF TypeOK, StopFits
<1>4. StartFits' /\ StopFits' /\ StopBeforeDrain'
  BY <1>2, <1>3 DEF StartFits, StopFits, StopBeforeDrain
<1>5. WokenFits' /\ CleanupAfterWork' /\ HearsSignals' /\ CutFits' /\ LostHasCause'
  BY <1>2 DEF WokenFits, CleanupAfterWork, HearsSignals, CutFits, LostHasCause, InFlight
<1> QED BY <1>1, <1>4, <1>5

\* A drain ends when nothing is in flight, or at its deadline.
LEMMA DrainKeeps ==
  ASSUME IInv, NEW s \in Services, Drain(s) \/ Drained(s) \/ DrainExpires(s)
  PROVE  IInv'
<1> USE DEF IInv, Drain, Drained, DrainExpires, Step
<1>1. TypeOK'
  <2>1. shutdown' \in [Services -> Steps]
    BY DEF TypeOK, Steps
  <2>2. /\ woken' \in [Services -> BOOLEAN] /\ expired' \in [Services -> BOOLEAN]
        /\ \A t \in Services : woken'[t] => shutdown'[t] = "draining"
    <3>1. CASE Drain(s)
      BY <3>1 DEF TypeOK
    <3>2. CASE Drained(s)
      BY <3>2 DEF TypeOK
    <3>3. CASE DrainExpires(s)
      BY <3>3 DEF TypeOK
    <3> QED BY <3>1, <3>2, <3>3
  <2> QED BY <2>1, <2>2 DEF TypeOK
<1>2. /\ UNCHANGED <<connected, consuming, work, boot, asking, exit, faults, early, alone>>
      /\ shutdown[s] \in {"drain", "draining"} /\ shutdown'[s] \in {"draining", "cleanup"}
      /\ \A t \in Services \ {s} : shutdown'[t] = shutdown[t]
      /\ \A t \in Services : (woken'[t] => woken[t]) /\ (expired[t] => expired'[t])
  BY DEF TypeOK
<1>3. shutdown'[s] = "cleanup" => InFlight = {} \/ woken[s] \/ expired'[s]
  BY DEF TypeOK
<1>4. StartFits' /\ StopFits' /\ StopBeforeDrain' /\ HearsSignals'
  BY <1>2 DEF StartFits, StopFits, StopBeforeDrain, HearsSignals
<1>5. InFlight' = InFlight /\ InFlight \subseteq Messages
  BY <1>2 DEF InFlight
<1>6. WokenFits' /\ CutFits' /\ LostHasCause'
  BY <1>2, <1>5 DEF WokenFits, CutFits, LostHasCause
<1>7. CleanupAfterWork'
  BY <1>2, <1>3 DEF CleanupAfterWork, WokenFits, InFlight
<1> QED BY <1>1, <1>4, <1>6, <1>7

\* The connection is closed under whoever has not drained; its last user closes it
\* on nobody but those whose drain expired.
LEMMA DisconnectKeeps == ASSUME IInv, NEW s \in Services, Disconnect(s) PROVE IInv'
<1> USE DEF IInv, Disconnect, Step
<1>1. TypeOK'
  BY DEF TypeOK, Steps
<1>2. /\ UNCHANGED <<boot, work, woken, expired, asking, exit, faults, early>>
      /\ shutdown[s] = "cleanup" /\ shutdown'[s] = "closing"
      /\ \A t \in Services \ {s} : shutdown'[t] = shutdown[t]
      /\ \A t \in Services : consuming'[t] = {}
  BY DEF TypeOK
<1>3. StartFits' /\ StopFits' /\ StopBeforeDrain' /\ HearsSignals'
  BY <1>2 DEF StartFits, StopFits, StopBeforeDrain, HearsSignals
<1>4. WokenFits' /\ CleanupAfterWork'
  BY <1>2 DEF WokenFits, CleanupAfterWork, InFlight
<1>5. alone' => alone /\ (connected => \A t \in Services : PastDrain(t))
  BY <1>2
<1>6. CutFits' /\ LostHasCause'
  BY <1>2, <1>5 DEF CutFits, CleanupAfterWork, LostHasCause, InFlight
<1> QED BY <1>1, <1>3, <1>4, <1>6

LEMMA ReportKeeps == ASSUME IInv, NEW s \in Services, Report(s) PROVE IInv'
<1> USE DEF IInv, Report, Step
<1>1. TypeOK'
  BY DEF TypeOK, Steps
<1>2. /\ UNCHANGED <<connected, consuming, work, boot, woken, expired, registered, installed,
                     early, alone>>
      /\ shutdown[s] = "closing" /\ shutdown'[s] = "done"
      /\ \A t \in Services \ {s} : shutdown'[t] = shutdown[t]
  BY DEF TypeOK
<1>3. StartFits' /\ StopFits' /\ StopBeforeDrain' /\ HearsSignals'
  BY <1>2 DEF StartFits, StopFits, StopBeforeDrain, HearsSignals
<1>4. WokenFits' /\ CleanupAfterWork' /\ CutFits' /\ LostHasCause'
  BY <1>2 DEF WokenFits, CleanupAfterWork, CutFits, LostHasCause, InFlight
<1> QED BY <1>1, <1>3, <1>4

LEMMA InvNext == IInv /\ [Next]_vars => IInv'
<1> SUFFICES ASSUME IInv, [Next]_vars PROVE IInv'
  OBVIOUS
<1>1. ASSUME NEW m \in Messages, Deliver(m) \/ Settle(m) \/ Overrun(m) \/ OverrunEnds(m)
      PROVE  IInv'
  BY <1>1, DeliverKeeps, OverrunKeeps, EndingKeeps
<1>2. ASSUME NEW s \in Services,
             Boot(s) \/ BootFails(s) \/ Run(s) \/ RunReturns(s) \/ RequestShutdown(s)
      PROVE  IInv'
  BY <1>2, BootKeeps, AskingKeeps, RunKeeps
<1>3. ASSUME NEW s \in Services, Shutdown(s) PROVE IInv'
  BY <1>3, StopKeeps, DrainKeeps, DisconnectKeeps, ReportKeeps DEF Shutdown
<1>4. CASE Signal
  BY <1>4, AskingKeeps
<1>5. CASE UNCHANGED vars
  BY <1>5 DEF vars, IInv, TypeOK, StartFits, StopFits, StopBeforeDrain, WokenFits,
              CleanupAfterWork, HearsSignals, CutFits, LostHasCause, InFlight
<1> QED BY <1>1, <1>2, <1>3, <1>4, <1>5 DEF Next

--------------------------------------------------------------------------------
(* The theorems. *)

LEMMA InvHolds == Spec => []IInv
  BY InitHolds, InvNext, PTL DEF Spec

\* Consumers stop before a drain and work ends before the cleanup, except where a
\* shutdown ran beside init() or a deadline passed, and signals are heard as long
\* as a service runs (shutdown, drain_in_flight, _install_signal_handlers).
THEOREM ShutdownIsOrdered == Spec => []DrainsInOrder
<1>1. IInv => DrainsInOrder
  BY DEF IInv, DrainsInOrder
<1> QED BY <1>1, InvHolds, PTL

\* No message is lost to redelivery without a cause (shutdown, disconnect).
THEOREM NoLossWithoutCause == Spec => []LostHasCause
<1>1. IInv => LostHasCause
  BY DEF IInv
<1> QED BY <1>1, InvHolds, PTL

================================================================================
