---------------------------- MODULE ConfirmedPublish ----------------------------
(***************************************************************************)
(* Publishers sharing one confirm channel: how many publishes may be        *)
(* unconfirmed, who waits for room and who is woken, and what each is told  *)
(* (protobus/connection.py, _confirmed_publish and _watch_channel_close).   *)
(* Init, Next and the like are prefixed: one module of theorems extends     *)
(* this one and Connection.                                                 *)
(***************************************************************************)
EXTENDS Integers, Sequences, SequencesExt, FiniteSets

CONSTANTS
  Publishers,      \* tasks that publish once each
  MaxOutstanding   \* Config.max_outstanding_confirms()

ASSUME OutstandingAssumption == MaxOutstanding \in Nat \ {0}
ASSUME PublishersAssumption  == IsFiniteSet(Publishers)

VARIABLES
  pc,        \* where each publisher's task stands
  waiters,   \* state.waiters: the parked publishers, in order
  inFlight,  \* state.in_flight
  confirm,   \* each publisher's confirm future
  result,    \* what the publisher was told
  stored,    \* whether the broker has the message
  open,      \* the channel is open
  missed     \* publishers that took a wake-up and left with it (history)

publisherVars == <<pc, waiters, inFlight, confirm, result, stored, open, missed>>

Confirms == {"none", "pending", "ack", "nack", "return", "cut", "timeout", "cancelled"}
Results  == {"none", "ok", "nacked", "unroutable", "closed", "timeout", "cancelled"}

PublisherTypeOK ==
  /\ pc \in [Publishers -> {"idle", "parked", "woken", "sending", "done"}]
  /\ waiters \in Seq(Publishers)
  /\ inFlight \in 0..MaxOutstanding
  /\ confirm \in [Publishers -> Confirms]
  /\ result \in [Publishers -> Results]
  /\ stored \in [Publishers -> {"no", "wire", "yes"}]
  /\ open \in BOOLEAN /\ missed \subseteq Publishers

PublisherInit ==
  /\ pc = [p \in Publishers |-> "idle"] /\ waiters = <<>> /\ inFlight = 0
  /\ confirm = [p \in Publishers |-> "none"] /\ result = [p \in Publishers |-> "none"]
  /\ stored = [p \in Publishers |-> "no"] /\ open = TRUE /\ missed = {}

--------------------------------------------------------------------------------
(* The publisher's task. *)

\* The loop over the in-flight bound: park (again), or send.  Sending on a closed
\* channel fails the confirm at once.
Enter(p) ==
  IF inFlight >= MaxOutstanding
    THEN /\ pc' = [pc EXCEPT ![p] = "parked"] /\ waiters' = Append(waiters, p)
         /\ UNCHANGED <<inFlight, confirm, stored>>
    ELSE /\ pc' = [pc EXCEPT ![p] = "sending"] /\ inFlight' = inFlight + 1
         /\ confirm' = [confirm EXCEPT ![p] = IF open THEN "pending" ELSE "cut"]
         /\ stored' = IF open THEN [stored EXCEPT ![p] = "wire"] ELSE stored
         /\ UNCHANGED waiters

Publish(p) ==
  /\ pc[p] = "idle" /\ Enter(p)
  /\ UNCHANGED <<result, open, missed>>

Woken(p) ==
  /\ pc[p] = "woken" /\ Enter(p)
  /\ UNCHANGED <<result, open, missed>>

\* Mutant: a message returned before its confirm counts as published.
Told_ignoresReturns(c) ==
  CASE c \in {"ack", "return"} -> "ok" [] c = "nack" -> "nacked"
    [] c = "cut" -> "closed" [] OTHER -> c

Told(c) ==
  CASE c = "ack" -> "ok" [] c = "nack" -> "nacked" [] c = "return" -> "unroutable"
    [] c = "cut" -> "closed" [] OTHER -> c

\* Mutant: the publisher leaves without waking the next.
Finish_wakesNobody(p) ==
  /\ pc[p] = "sending" /\ confirm[p] # "pending"
  /\ inFlight' = inFlight - 1
  /\ result' = [result EXCEPT ![p] = Told(confirm[p])]
  /\ pc' = [pc EXCEPT ![p] = "done"]
  /\ UNCHANGED <<waiters, confirm, stored, open, missed>>

\* The finally block: give the room back and wake the first still waiting.
Finish(p) ==
  /\ pc[p] = "sending" /\ confirm[p] # "pending"
  /\ inFlight' = inFlight - 1
  /\ result' = [result EXCEPT ![p] = Told(confirm[p])]
  /\ IF waiters = <<>>
       THEN pc' = [pc EXCEPT ![p] = "done"] /\ UNCHANGED waiters
       ELSE /\ pc' = [pc EXCEPT ![p] = "done", ![Head(waiters)] = "woken"]
            /\ waiters' = Tail(waiters)
  /\ UNCHANGED <<confirm, stored, open, missed>>

\* Mutant: a confirm is awaited for as long as the channel is open.
ConfirmTimesOut_onlyClosed(p) ==
  /\ ~open /\ confirm[p] = "pending" /\ confirm' = [confirm EXCEPT ![p] = "timeout"]
  /\ UNCHANGED <<pc, waiters, inFlight, result, stored, open, missed>>

ConfirmTimesOut(p) ==
  /\ confirm[p] = "pending" /\ confirm' = [confirm EXCEPT ![p] = "timeout"]
  /\ UNCHANGED <<pc, waiters, inFlight, result, stored, open, missed>>

Leave(p) ==
  /\ result' = [result EXCEPT ![p] = "cancelled"]
  /\ pc' = [pc EXCEPT ![p] = "done"]

\* A parked publisher takes its waiter out of the list as it goes.
CancelParked(p) ==
  /\ pc[p] = "parked" /\ Leave(p)
  /\ \E i \in 1..Len(waiters) : waiters[i] = p /\ waiters' = RemoveAt(waiters, i)
  /\ UNCHANGED <<inFlight, confirm, stored, open, missed>>

\* One already woken takes its wake-up with it.
CancelWoken(p) ==
  /\ pc[p] = "woken" /\ Leave(p)
  /\ missed' = missed \cup {p}
  /\ UNCHANGED <<waiters, inFlight, confirm, stored, open>>

CancelSending(p) ==
  /\ pc[p] = "sending" /\ confirm[p] # "cancelled"
  /\ confirm' = [confirm EXCEPT ![p] = "cancelled"]
  /\ UNCHANGED <<pc, waiters, inFlight, result, stored, open, missed>>

--------------------------------------------------------------------------------
(* The broker and the channel. *)

\* What the broker does with a message on the wire, whether or not its
\* publisher still waits: store it, refuse it, or return it unrouted.
BrokerAnswers(p) ==
  /\ open /\ stored[p] = "wire"
  /\ \E verdict \in {"ack", "nack", "return"} :
       /\ stored' = [stored EXCEPT ![p] = IF verdict = "ack" THEN "yes" ELSE "no"]
       /\ confirm' = [confirm EXCEPT ![p] = IF @ = "pending" THEN verdict ELSE @]
  /\ UNCHANGED <<pc, waiters, inFlight, result, open, missed>>

\* Mutant: closing the channel forgets the publishes still to finish.
ChannelCloses_resets ==
  /\ open /\ open' = FALSE
  /\ confirm' = [p \in Publishers |-> IF confirm[p] = "pending" THEN "cut" ELSE confirm[p]]
  /\ \E got \in SUBSET {p \in Publishers : stored[p] = "wire"} :
       stored' = [p \in Publishers |-> IF stored[p] # "wire" THEN stored[p]
                                       ELSE IF p \in got THEN "yes" ELSE "no"]
  /\ pc' = [p \in Publishers |-> IF pc[p] = "parked" THEN "woken" ELSE pc[p]]
  /\ waiters' = <<>> /\ inFlight' = 0
  /\ UNCHANGED <<result, missed>>

\* fail_all: the outstanding confirms are cancelled, everybody parked is woken.
\* The broker may have stored what it could not confirm any more.
ChannelCloses ==
  /\ open /\ open' = FALSE
  /\ confirm' = [p \in Publishers |-> IF confirm[p] = "pending" THEN "cut" ELSE confirm[p]]
  /\ \E got \in SUBSET {p \in Publishers : stored[p] = "wire"} :
       stored' = [p \in Publishers |-> IF stored[p] # "wire" THEN stored[p]
                                       ELSE IF p \in got THEN "yes" ELSE "no"]
  /\ pc' = [p \in Publishers |-> IF pc[p] = "parked" THEN "woken" ELSE pc[p]]
  /\ waiters' = <<>>
  /\ UNCHANGED <<inFlight, result, missed>>

TaskStep(p) == Woken(p) \/ Finish(p) \/ ConfirmTimesOut(p)
Cancel(p)   == CancelParked(p) \/ CancelWoken(p) \/ CancelSending(p)

PublisherNext ==
  \/ \E p \in Publishers : Publish(p) \/ TaskStep(p) \/ Cancel(p) \/ BrokerAnswers(p)
  \/ ChannelCloses

PublisherSpec == PublisherInit /\ [][PublisherNext]_publisherVars

\* Tasks run on and the confirm timeout passes; the broker need not answer.
FairPublisherSpec == PublisherSpec /\ \A p \in Publishers : WF_publisherVars(TaskStep(p))

--------------------------------------------------------------------------------
(* Properties. *)

Outstanding == {p \in Publishers : pc[p] = "sending"}
Awake       == {p \in Publishers : pc[p] = "woken"}

\* in_flight counts exactly the publishes on the channel, through every way a
\* publish can end, and they never exceed the bound.
BoundHolds ==
  inFlight = Cardinality(Outstanding) /\ Cardinality(Outstanding) <= MaxOutstanding

\* Nobody is parked while there is room: every free place has a woken publisher
\* on its way to take it, unless one took a wake-up and left with it.
NoLostWakeup ==
  waiters # <<>> => inFlight + Cardinality(Awake) + Cardinality(missed) >= MaxOutstanding

\* The bound is exact both ways: never exceeded, and never a reason to wait
\* when it is not reached (_confirmed_publish).
BoundIsExact == PublisherTypeOK /\ BoundHolds /\ NoLostWakeup

\* What a publisher is told is true: a normal return means stored, a nack or a
\* return means not stored; everything else leaves it open.
OutcomeIsTruthful ==
  \A p \in Publishers :
    /\ result[p] = "ok" => stored[p] = "yes"
    /\ result[p] \in {"nacked", "unroutable"} => stored[p] = "no"

\* Every publish that began ends, although the broker may never confirm one and
\* the channel may close, as long as no wake-up left with a cancelled publisher.
EveryPublishEnds ==
  \A p \in Publishers : pc[p] # "idle" ~> (pc[p] = "done" \/ missed # {})

================================================================================
