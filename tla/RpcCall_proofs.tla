----------------------------- MODULE RpcCall_proofs -----------------------------
(***************************************************************************)
(* Theorems about RpcCall, for any number of sockets the connection goes    *)
(* through, and whether or not readiness holds until the publisher runs.    *)
(***************************************************************************)
EXTENDS RpcCall, TLAPS

(***************************************************************************)
(* The inductive invariant.  What a caller is told rests on what the        *)
(* publish task knows of the copy it sent, and the publish task may still   *)
(* be running when the caller has been told.                                *)
(***************************************************************************)

Before == {"ready", "parked", "woken"}

\* The slot is armed from Send to End, and a disconnection's verdict on it is
\* final: _on_result finds the future already done.
SlotFits ==
  /\ slot # "none" <=> pc \in {"wait", "settle", "reply"}
  /\ pc = "settle" => slot = "lost"

\* What the publish task's state says of the copy it sends.
PublishFits ==
  /\ pc \in Before => publish = "none"
  /\ pc # "done" /\ publish = "none" => copy[Attempt] = "no"
  /\ publish \in {"queued", "refused", "unroutable"} => copy[Attempt] = "no"
  /\ publish = "closed" => copy[Attempt] # "wire"
  /\ publish = "ok" => AtBroker(Attempt)
  /\ pc = "reply" => publish = "ok"

\* The second copy exists only after the republication, and by then the first is
\* off the wire.
CopiesFit ==
  /\ ~republished => copy[2] = "no"
  /\ republished => copy[1] # "wire"

\* What the outcomes that claim something were told on.
OutcomeFits ==
  /\ outcome = "timeoutFalse" => ~republished
  /\ outcome \in {"timeoutFalse", "notReady", "notConnected"} =>
       publish = "none" /\ copy[Attempt] = "no"
  /\ outcome \in {"refused", "unroutable"} => publish = outcome
  /\ outcome \in {"timeoutTrue", "disconnected"} => publish = "ok"

IInv == TypeOK /\ SlotFits /\ PublishFits /\ CopiesFit /\ OutcomeFits

--------------------------------------------------------------------------------
(* Each step preserves it. *)

USE DEF Attempts, Attempt, AtBroker, Before, Failures, Outcomes

LEMMA AttemptIsOne == TypeOK => Attempt \in Attempts
  BY DEF TypeOK

\* The steps of the call's coroutine, one way to leave each of its awaits.
LEMMA EndKeeps ==
  ASSUME IInv, pc # "done", NEW told \in Outcomes \ {"none"}, End(told),
         UNCHANGED <<link, sent, expired>>,
         told = "timeoutFalse" => ~republished,
         told \in {"timeoutFalse", "notReady", "notConnected"} => publish = "none",
         told \in {"refused", "unroutable"} => publish = told,
         told \in {"timeoutTrue", "disconnected"} => publish = "ok"
  PROVE  IInv'
<1> USE DEF End, link, sent
<1>1. TypeOK'
  BY DEF IInv, TypeOK
<1>2. SlotFits' /\ PublishFits' /\ CopiesFit'
  BY DEF IInv, SlotFits, PublishFits, CopiesFit
<1>3. OutcomeFits'
  BY DEF IInv, OutcomeFits, PublishFits
<1> QED BY <1>1, <1>2, <1>3 DEF IInv

LEMMA SendKeeps ==
  ASSUME IInv, pc \in Before, Send, UNCHANGED <<link, sent, expired>>
  PROVE  IInv'
<1>1. CASE expired
  <2>1. publish = "none" /\ pc # "done"
    BY DEF IInv, PublishFits
  <2> QED BY <1>1, <2>1, EndKeeps DEF Send, NeverLeft
<1>2. CASE ~expired
  <2> USE <1>2 DEF Send, link, sent
  <2>1. TypeOK'
    BY DEF IInv, TypeOK
  <2>2. SlotFits' /\ PublishFits' /\ CopiesFit'
    BY DEF IInv, SlotFits, PublishFits, CopiesFit
  <2>3. OutcomeFits'
    BY DEF IInv, TypeOK, OutcomeFits
  <2> QED BY <2>1, <2>2, <2>3 DEF IInv
<1> QED BY <1>1, <1>2

\* A publish error ends the call, or the request goes round once more.
LEMMA PublishFailedKeeps ==
  ASSUME IInv, pc \in {"wait", "settle"}, publish \in Failures, PublishFailed,
         UNCHANGED <<link, sent, expired>>
  PROVE  IInv'
<1>1. CASE publish = "closed" /\ ~republished /\ conn # "up"
  <2> USE <1>1 DEF PublishFailed, link, sent
  <2>1. TypeOK'
    BY DEF IInv, TypeOK
  <2>2. SlotFits' /\ PublishFits' /\ CopiesFit'
    BY DEF IInv, TypeOK, SlotFits, PublishFits, CopiesFit
  <2>3. OutcomeFits'
    BY DEF IInv, TypeOK, OutcomeFits
  <2> QED BY <2>1, <2>2, <2>3 DEF IInv
<1>2. CASE ~(publish = "closed" /\ ~republished /\ conn # "up")
  BY <1>2, EndKeeps DEF PublishFailed
<1> QED BY <1>1, <1>2

LEMMA GotoKeeps ==
  ASSUME IInv, NEW step, Goto(step), UNCHANGED <<link, sent, expired>>,
         \/ pc = "ready" /\ step = "parked"
         \/ pc = "wait" /\ step = "settle" /\ slot = "lost"
         \/ pc \in {"wait", "settle"} /\ step = "reply" /\ publish = "ok"
  PROVE  IInv'
<1> USE DEF Goto, link, sent
<1>1. TypeOK'
  BY DEF IInv, TypeOK
<1>2. SlotFits' /\ PublishFits' /\ CopiesFit' /\ OutcomeFits'
  BY DEF IInv, SlotFits, PublishFits, CopiesFit, OutcomeFits
<1> QED BY <1>1, <1>2 DEF IInv

LEMMA CallStepKeeps == ASSUME IInv, CallStep PROVE IInv'
<1> USE DEF CallStep
<1>1. CASE AwaitPublishable
  <2>1. publish = "none" \/ pc \notin Before
    BY DEF IInv, PublishFits
  <2> QED BY <1>1, <2>1, SendKeeps, EndKeeps, GotoKeeps DEF AwaitPublishable, NeverLeft
<1>2. CASE ReadinessFails
  <2>1. publish = "none" \/ pc \notin Before
    BY DEF IInv, PublishFits
  <2> QED BY <1>2, <2>1, EndKeeps DEF ReadinessFails
<1>3. CASE Woken
  BY <1>3, SendKeeps DEF Woken
<1>4. CASE Resume
  BY <1>4, EndKeeps, GotoKeeps, PublishFailedKeeps DEF Resume, Settled, IInv, TypeOK
<1>5. CASE ResumeSettled
  BY <1>5, EndKeeps, GotoKeeps, PublishFailedKeeps DEF ResumeSettled, Settled, IInv,
     TypeOK
<1>6. CASE ResumeReply
  <2>1. publish = "ok"
    BY <1>6 DEF ResumeReply, IInv, PublishFits
  <2> QED BY <1>6, <2>1, EndKeeps DEF ResumeReply
<1> QED BY <1>1, <1>2, <1>3, <1>4, <1>5, <1>6

LEMMA CallerGivesUpKeeps == ASSUME IInv, CallerGivesUp PROVE IInv'
<1> USE DEF CallerGivesUp, Settled, link, sent
<1>1. TypeOK'
  BY DEF IInv, TypeOK
<1>2. SlotFits' /\ PublishFits' /\ CopiesFit'
  BY DEF IInv, SlotFits, PublishFits, CopiesFit
<1>3. OutcomeFits'
  BY DEF IInv, OutcomeFits
<1> QED BY <1>1, <1>2, <1>3 DEF IInv

\* The publish task, whether or not anybody waits for it any more.
LEMMA PublishStepKeeps == ASSUME IInv, PublishStep PROVE IInv'
<1> USE DEF PublishStep, PublishStarts, BrokerConfirms, BrokerRefuses, ConfirmTimesOut,
            link, sent
<1>1. TypeOK'
  BY AttemptIsOne DEF IInv, TypeOK
<1>2. SlotFits'
  BY DEF IInv, SlotFits
<1>3. PublishFits' /\ CopiesFit'
  BY DEF IInv, TypeOK, PublishFits, CopiesFit
<1>4. OutcomeFits'
  BY DEF IInv, TypeOK, OutcomeFits
<1> QED BY <1>1, <1>2, <1>3, <1>4 DEF IInv

LEMMA BrokerStoresKeeps ==
  ASSUME IInv, NEW n \in Attempts, BrokerStores(n) \/ ServiceAnswers(n)
  PROVE  IInv'
<1> USE DEF BrokerStores, ServiceAnswers, link, call
<1>1. TypeOK'
  BY DEF IInv, TypeOK
<1>2. SlotFits'
  BY DEF IInv, TypeOK, SlotFits
<1>3. PublishFits' /\ CopiesFit'
  BY DEF IInv, TypeOK, PublishFits, CopiesFit
<1>4. OutcomeFits'
  BY DEF IInv, TypeOK, OutcomeFits
<1> QED BY <1>1, <1>2, <1>3, <1>4 DEF IInv

\* The channel closes, alone, with its socket, or with the connection.
LEMMA ChannelGoneKeeps ==
  ASSUME IInv, ChannelCloses \/ SocketDrops \/ ConnectionCloses
  PROVE  IInv'
<1> USE DEF ChannelCloses, SocketDrops, ConnectionCloses, ChannelGone
<1>1. TypeOK'
  <2>1. copy' \in [Attempts -> {"no", "wire", "stored", "answered"}]
    BY DEF IInv, TypeOK
  <2>2. CASE ChannelCloses
    <3>1. channelOpen' \in BOOLEAN /\ republished' \in BOOLEAN /\ expired' \in BOOLEAN
      BY <2>2 DEF IInv, TypeOK
    <3> QED BY <2>1, <2>2, <3>1 DEF IInv, TypeOK
  <2>3. CASE SocketDrops
    <3>1. /\ publish' \in {"none", "queued", "sending", "ok"} \cup Failures
          /\ slot' \in {"none", "pending", "reply", "lost"}
      BY <2>3 DEF IInv, TypeOK
    <3>2. channelOpen' \in BOOLEAN /\ republished' \in BOOLEAN /\ expired' \in BOOLEAN
      BY <2>3 DEF IInv, TypeOK
    <3> QED BY <2>1, <2>3, <3>1, <3>2 DEF IInv, TypeOK
  <2>4. CASE ConnectionCloses
    <3>1. channelOpen' \in BOOLEAN /\ republished' \in BOOLEAN /\ expired' \in BOOLEAN
      BY <2>4 DEF IInv, TypeOK
    <3>2. publish' \in {"none", "queued", "sending", "ok"} \cup Failures
      BY <2>4 DEF IInv, TypeOK
    <3>3. /\ pc' \in {"ready", "parked", "woken", "wait", "settle", "reply", "done"}
          /\ outcome' \in Outcomes /\ (pc' = "done" <=> outcome' # "none")
      BY <2>4 DEF IInv, TypeOK
    <3> QED BY <2>1, <2>4, <3>1, <3>2, <3>3 DEF IInv, TypeOK
  <2> QED BY <2>2, <2>3, <2>4
<1>2. SlotFits'
  BY DEF IInv, TypeOK, SlotFits
<1>3. PublishFits' /\ CopiesFit'
  BY DEF IInv, TypeOK, PublishFits, CopiesFit
<1>4. OutcomeFits'
  BY DEF IInv, TypeOK, OutcomeFits, PublishFits
<1> QED BY <1>1, <1>2, <1>3, <1>4 DEF IInv

LEMMA ReconnectsKeeps == ASSUME IInv, Reconnects PROVE IInv'
<1> USE DEF Reconnects, sent
<1>1. TypeOK'
  BY BoundAssumption DEF IInv, TypeOK
<1>2. SlotFits' /\ PublishFits' /\ CopiesFit' /\ OutcomeFits'
  BY DEF IInv, SlotFits, PublishFits, CopiesFit, OutcomeFits
<1> QED BY <1>1, <1>2 DEF IInv

LEMMA RestKeeps == ASSUME IInv, Expire \/ UNCHANGED vars PROVE IInv'
<1> USE DEF Expire, vars, link, call, sent
<1>1. TypeOK'
  <2>1. CASE Expire
    BY <2>1 DEF IInv, TypeOK
  <2>2. CASE UNCHANGED vars
    BY <2>2 DEF IInv, TypeOK
  <2> QED BY <2>1, <2>2
<1>2. SlotFits' /\ PublishFits' /\ CopiesFit' /\ OutcomeFits'
  BY DEF IInv, SlotFits, PublishFits, CopiesFit, OutcomeFits
<1> QED BY <1>1, <1>2 DEF IInv

--------------------------------------------------------------------------------
(* The theorems. *)

LEMMA InitHolds == Init => IInv
<1> SUFFICES ASSUME Init PROVE IInv
  OBVIOUS
<1>1. TypeOK
  <2>1. channelOpen \in BOOLEAN /\ republished \in BOOLEAN /\ expired \in BOOLEAN
    BY DEF Init
  <2>2. gen \in 1..MaxGenerations /\ channel \in 0..gen
    BY BoundAssumption DEF Init
  <2>3. copy \in [Attempts -> {"no", "wire", "stored", "answered"}] /\ replyTo \in [Attempts -> 0..gen]
    BY DEF Init
  <2> QED BY <2>1, <2>2, <2>3 DEF Init, TypeOK
<1>2. SlotFits /\ PublishFits /\ CopiesFit /\ OutcomeFits
  BY DEF Init, SlotFits, PublishFits, CopiesFit, OutcomeFits
<1> QED BY <1>1, <1>2 DEF IInv

LEMMA NextKeeps == IInv /\ [Next]_vars => IInv'
  BY CallStepKeeps, CallerGivesUpKeeps, PublishStepKeeps, BrokerStoresKeeps,
     ChannelGoneKeeps,
     ReconnectsKeeps, RestKeeps DEF Next

LEMMA InvariantHolds == Spec => []IInv
  BY InitHolds, NextKeeps, PTL DEF Spec

\* Whatever publish() raises, what the error says of the request is so: the
\* published flag of RpcTimeoutError is never a guess, DisconnectedError means
\* that the broker had accepted the request, and an error that calls itself
\* definite is, before a republication.
THEOREM ErrorsTellTheTruth == Spec => []ErrorsAreTruthful
<1>1. IInv => ErrorsAreTruthful
  <2> SUFFICES ASSUME IInv PROVE ErrorsAreTruthful
    OBVIOUS
  <2>1. TimeoutIsTruthful
    BY DEF IInv, TypeOK, PublishFits, CopiesFit, OutcomeFits, TimeoutIsTruthful
  <2>2. DisconnectedMeansAccepted
    BY DEF IInv, TypeOK, PublishFits, OutcomeFits, DisconnectedMeansAccepted
  <2>3. FirstErrorIsDefinite
    BY DEF IInv, TypeOK, PublishFits, CopiesFit, OutcomeFits, FirstErrorIsDefinite
  <2> QED BY <2>1, <2>2, <2>3 DEF IInv, ErrorsAreTruthful
<1> QED BY <1>1, InvariantHolds, PTL

\* publish() repeats a request only once the first copy has left the wire, so the
\* two never race each other to the queue.
THEOREM NeverTwiceOnTheWire == Spec => []OneCopyOnTheWire
<1>1. IInv => OneCopyOnTheWire
  BY DEF IInv, CopiesFit, OneCopyOnTheWire
<1> QED BY <1>1, InvariantHolds, PTL

\* A reply that _on_result handed to the waiting call is what publish() returns,
\* unless its caller gave up: no confirm, deadline or disconnection replaces it.
THEOREM RepliesWin == Spec => AnswerWins
<1>1. IInv /\ [Next]_vars => [slot = "reply" => outcome' \in {"none", "result", "cancelled"}]_vars
  <2> SUFFICES ASSUME IInv, Next, slot = "reply"
               PROVE  outcome' \in {"none", "result", "cancelled"}
    OBVIOUS
  <2>1. pc \in {"wait", "reply"} /\ outcome = "none"
    BY DEF IInv, TypeOK, SlotFits
  <2>2. CASE CallStep
    BY <2>1, <2>2 DEF CallStep, AwaitPublishable, ReadinessFails, Woken, Resume,
       ResumeSettled,
                      ResumeReply, End
  <2>3. CASE CallerGivesUp \/ PublishStep
    BY <2>1, <2>3 DEF CallerGivesUp, PublishStep, PublishStarts, BrokerConfirms,
       BrokerRefuses,
                      ConfirmTimesOut
  <2>4. CASE \E n \in Attempts : BrokerStores(n) \/ ServiceAnswers(n)
    BY <2>1, <2>4 DEF BrokerStores, ServiceAnswers, call
  <2>5. CASE ChannelCloses \/ SocketDrops \/ Reconnects \/ ConnectionCloses \/ Expire
    BY <2>1, <2>5 DEF ChannelCloses, SocketDrops, Reconnects, ConnectionCloses, Expire,
       call
  <2> QED BY <2>2, <2>3, <2>4, <2>5 DEF Next
<1> QED BY <1>1, InvariantHolds, PTL DEF Spec, AnswerWins

================================================================================
