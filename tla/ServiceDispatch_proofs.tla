-------------------------- MODULE ServiceDispatch_proofs --------------------------
(***************************************************************************)
(* Theorems about ServiceDispatch, for any calls, names, schemas, retry     *)
(* budget and length of stream.                                             *)
(***************************************************************************)
EXTENDS ServiceDispatch, FiniteSetTheorems, SequenceTheorems, WellFoundedInduction, TLAPS

(***************************************************************************)
(* The inductive invariant, of one call.                                    *)
(***************************************************************************)

\* The replies to a call, as a sequence of something.
IsSeq(s) == \E S : s \in Seq(S)

\* The arrays and what is written into them.
Typed ==
  /\ exposes \in BOOLEAN
  /\ sent \in [Calls -> Requests]
  /\ phase \in [Calls -> Phases]
  /\ attempt \in [Calls -> 0..MaxRetries]
  /\ answer = [c \in Calls |-> answer[c]]
  /\ iterator \in [Calls -> {"none", "open", "exhausted", "broken", "released"}]
  /\ cancelled \in [Calls -> BOOLEAN]
  /\ replies = [c \in Calls |-> replies[c]] /\ \A c \in Calls : IsSeq(replies[c])
  /\ pulled \in [Calls -> Nat]
  /\ outcome \in [Calls -> Outcomes]
  /\ clash \subseteq Calls

Refused(c) == Rejection(c) # NoReply

\* A handler ran for an entitled request only.
RanFits == \A r \in ran : /\ r = [call |-> r.call, attempt |-> r.attempt]
                          /\ r.call \in Calls /\ ~Refused(r.call)
                          /\ r.attempt \in 0..attempt[r.call]

\* One run for each attempt, the last of them while the request is being worked on.
\* A request that is refused is refused at its first delivery.
RunsFit(c) ==
  /\ phase[c] \in {"running", "streaming", "failed", "dead"} =>
       \A i \in 0..attempt[c] : [call |-> c, attempt |-> i] \in ran
  /\ phase[c] = "queued" =>
       \A i \in 0..attempt[c] : i < attempt[c] => [call |-> c, attempt |-> i] \in ran
  /\ phase[c] = "caller" => attempt[c] = 0
  /\ phase[c] = "dead" => attempt[c] = MaxRetries
  /\ Refused(c) => attempt[c] = 0 /\ phase[c] \in {"caller", "queued", "answered", "settled"}
  /\ sent[c].by = "proxy" /\ phase[c] # "caller" =>
       sent[c].fits /\ Contract(Service, sent[c].knows) # <<>>

\* What may be said to the caller of c, of c itself.
Sayable(c, r) ==
  /\ r.code = "PROTOCOL_ERROR" => Refused(c)
  /\ r.text = "internal" => exposes

\* The answer that waits for its delivery to be settled.
AnswerFits(c) ==
  /\ \/ answer[c] = NoReply
     \/ answer[c].is = "shared" /\ answer[c].code = "" /\ answer[c].text = ""
     \/ answer[c].is \in {"result", "error"} /\ answer[c].call = c
  /\ Sayable(c, answer[c])
  /\ phase[c] = "answered" => /\ answer[c].is \in {"result", "error"}
                              /\ Streaming(c) => answer[c].is = "error"
  /\ phase[c] \in {"failed", "dead"} =>
       answer[c].is # "result" /\ answer[c].code # "HANDLED_ERROR"
  /\ answer[c].is = "shared" =>
       /\ phase[c] = "failed" /\ shared.call # c => c \in clash
       /\ shared.is = "error"

\* What the shared exception carries.
SharedFits ==
  /\ shared.is \in {"none", "error"}
  /\ shared.code # "PROTOCOL_ERROR" /\ (shared.text = "internal" => exposes)

\* The last word on a call: any reply to a unary one, the end of a stream.
Final(c, r) == r.is # "result" \/ ~Streaming(c)

\* A reply to c, the i-th of so many.
ReplyFits(c, r, i, all) ==
  /\ Sayable(c, r)
  /\ r.is \in {"result", "end", "error"}
  /\ r.is # "error" => r.call = c
  /\ r.call # c => c \in clash
  /\ r.is = "end" => phase[c] = "settled" /\ iterator[c] = "exhausted" /\ Streaming(c)
  /\ i < all => r.is = "result" /\ Streaming(c)
  /\ phase[c] = "streaming" => r.is = "result"
  /\ phase[c] = "dead" => r.is = "error"

\* The replies on their way to the caller, or read.
RepliesFit(c) ==
  /\ phase[c] \notin {"streaming", "settled", "dead"} \/ ~sent[c].rpc => Len(replies[c]) = 0
  /\ \A i \in 1..Len(replies[c]) : ReplyFits(c, replies[c][i], i, Len(replies[c]))
  /\ phase[c] = "streaming" => Streaming(c) /\ Len(replies[c]) <= MaxChunks
  /\ Len(replies[c]) <= MaxChunks + 1
  /\ phase[c] = "settled" /\ sent[c].rpc /\ ~cancelled[c] =>
       Len(replies[c]) > 0 /\ Final(c, replies[c][Len(replies[c])])
  /\ phase[c] = "dead" /\ sent[c].rpc /\ answer[c] # NoReply => Len(replies[c]) > 0

\* What the caller has been told.
ReadsFit(c) ==
  /\ pulled[c] \in 0..Len(replies[c])
  /\ outcome[c] \in {"none", "InvalidRequestError", "InvalidServiceNameError"} => phase[c] = "caller"
  /\ outcome[c] = "waiting" =>
       sent[c].rpc /\ \A i \in 1..pulled[c] : replies[c][i].is = "result" /\ Streaming(c)
  /\ outcome[c] \in {"value", "ended"} /\ sent[c].rpc =>
       /\ phase[c] = "settled" /\ pulled[c] = Len(replies[c])
       /\ \A i \in 1..Len(replies[c]) : replies[c][i].is # "error" /\ replies[c][i].call = c
  /\ outcome[c] = "ended" => iterator[c] = "exhausted"
  /\ outcome[c] = "InvalidResponseError" =>
       ~sent[c].reads /\ pulled[c] > 0 /\ replies[c][pulled[c]].is = "result"
  /\ cancelled[c] => Streaming(c) /\ outcome[c] \in {"closed", "InvalidResponseError"}

\* An iterator is open while its stream runs, or for ever if nobody asked for it.
IteratorFits(c) ==
  /\ iterator[c] = "open" => phase[c] = "streaming" \/ (phase[c] = "settled" /\ ~sent[c].rpc)
  /\ iterator[c] = "exhausted" => phase[c] = "settled"

Fits(c) == RunsFit(c) /\ AnswerFits(c) /\ RepliesFit(c) /\ ReadsFit(c) /\ IteratorFits(c)

IInv == Typed /\ RanFits /\ SharedFits /\ \A c \in Calls : Fits(c)

--------------------------------------------------------------------------------
(* What does not change. *)

\* The request is what it was, and so is everything computed from it.
LEMMA Fixed ==
  ASSUME sent' = sent, NEW c \in Calls
  PROVE  /\ Key(c)' = Key(c) /\ Envelope(c)' = Envelope(c)
         /\ Rejection(c)' = Rejection(c) /\ Refused(c)' = Refused(c)
         /\ Streaming(c)' = Streaming(c)
<1>1. Message(c)' = Message(c)
  BY DEF Message
<1>2. Key(c)' = Key(c) /\ Envelope(c)' = Envelope(c)
  BY <1>1 DEF Key, Envelope
<1>3. Rejection(c)' = Rejection(c)
  BY <1>2 DEF Rejection
<1> QED
  BY <1>2, <1>3 DEF Refused, Streaming

\* The part of the state that is call d's.
Untouched(d) ==
  /\ phase'[d] = phase[d] /\ attempt'[d] = attempt[d] /\ answer'[d] = answer[d]
  /\ replies'[d] = replies[d] /\ iterator'[d] = iterator[d] /\ cancelled'[d] = cancelled[d]
  /\ pulled'[d] = pulled[d] /\ outcome'[d] = outcome[d]

\* What the calls share, as one call sees it when another takes a step.
Shares(d) ==
  /\ ran \subseteq ran'
  /\ d \in clash => d \in clash'
  /\ \/ shared' = shared
     \/ shared'.is = "error" /\ (phase[d] = "failed" /\ answer[d].is = "shared" => d \in clash')

LEMMA Elsewhere ==
  ASSUME NEW d \in Calls, Fits(d), sent' = sent, exposes' = exposes, Untouched(d),
         Shares(d)
  PROVE  Fits(d)'
<1> USE Fixed
<1>1. RunsFit(d)'
  BY DEF Fits, RunsFit, Untouched, Shares
<1>2. \A r : Sayable(d, r) => Sayable(d, r)'
  BY DEF Sayable
<1>3. AnswerFits(d)'
  BY <1>2 DEF Fits, AnswerFits, Sayable, Untouched, Shares
<1>4. RepliesFit(d)'
  BY <1>2 DEF Fits, RepliesFit, ReplyFits, Sayable, Final, Untouched, Shares
<1>5. ReadsFit(d)'
  BY DEF Fits, ReadsFit, Untouched
<1>6. IteratorFits(d)'
  BY DEF Fits, IteratorFits, Untouched
<1> QED
  BY <1>1, <1>3, <1>4, <1>5, <1>6 DEF Fits

\* A step of call c keeps the invariant if it does at c and leaves the others be.
LEMMA Together ==
  ASSUME IInv, NEW c \in Calls, sent' = sent, exposes' = exposes,
         Typed', RanFits', SharedFits', Fits(c)',
         \A d \in Calls \ {c} : Untouched(d) /\ Shares(d)
  PROVE  IInv'
<1>1. \A d \in Calls \ {c} : Fits(d)'
  BY Elsewhere DEF IInv
<1> QED
  BY <1>1 DEF IInv

\* A reply more.
LEMMA AppendFacts ==
  ASSUME NEW s, IsSeq(s), NEW e
  PROVE  /\ IsSeq(Append(s, e))
         /\ Len(s) \in Nat /\ Len(Append(s, e)) = Len(s) + 1
         /\ Append(s, e)[Len(s) + 1] = e
         /\ \A i \in 1..Len(s) : Append(s, e)[i] = s[i]
<1>1. PICK S : s \in Seq(S)
  BY DEF IsSeq
<1> DEFINE T == S \cup {e}
<1>2. s \in Seq(T) /\ e \in T
  BY <1>1
<1> HIDE DEF T
<1> QED
  BY <1>2, AppendProperties DEF IsSeq

LEMMA LenIsNat == ASSUME NEW s, IsSeq(s) PROVE Len(s) \in Nat
  BY DEF IsSeq

--------------------------------------------------------------------------------
(* The proxy's steps. *)

LEMMA CallKeeps == ASSUME IInv, NEW c \in Calls, Call(c) PROVE IInv'
<1> USE DEF Typed
<1>1. sent' = sent /\ exposes' = exposes /\ UNCHANGED <<attempt, answer, shared, iterator, cancelled, replies, pulled, ran, clash>>
  BY DEF Call
<1>2. Typed /\ Fits(c) /\ phase[c] = "caller" /\ outcome[c] = "none" /\ Len(replies[c]) \in Nat
  BY LenIsNat DEF IInv, Call
<1>3. /\ \/ /\ phase'[c] = "queued"
            /\ outcome'[c] = IF sent[c].rpc THEN "waiting" ELSE "value"
            /\ sent[c].by # "raw" => sent[c].fits /\ Contract(Service, sent[c].knows) # <<>>
         \/ /\ phase'[c] = "caller"
            /\ outcome'[c] \in {"InvalidRequestError", "InvalidServiceNameError"}
      /\ phase' \in [Calls -> Phases] /\ outcome' \in [Calls -> Outcomes]
      /\ \A d \in Calls \ {c} : phase'[d] = phase[d] /\ outcome'[d] = outcome[d]
  BY <1>2 DEF Call, Phases, Outcomes
<1>4. Typed'
  BY <1>1, <1>2, <1>3
<1>5. RanFits' /\ SharedFits'
  BY <1>1, Fixed DEF IInv, RanFits, SharedFits
<1>6. RunsFit(c)'
  BY <1>1, <1>2, <1>3, Fixed DEF Fits, RunsFit
<1>7. AnswerFits(c)'
  BY <1>1, <1>2, <1>3, Fixed DEF Fits, AnswerFits, Sayable
<1>8. RepliesFit(c)'
  BY <1>1, <1>2, <1>3, Fixed DEF Fits, RepliesFit, ReplyFits, Sayable, Final
<1>9. ReadsFit(c)'
  BY <1>1, <1>2, <1>3, Fixed DEF Fits, ReadsFit, RepliesFit
<1>10. IteratorFits(c)'
  BY <1>1, <1>2, <1>3 DEF Fits, IteratorFits
<1>11. \A d \in Calls \ {c} : Untouched(d) /\ Shares(d)
  BY <1>1, <1>3 DEF Untouched, Shares
<1> QED
  BY <1>1, <1>4, <1>5, <1>6, <1>7, <1>8, <1>9, <1>10, <1>11, Together DEF Fits

\* What CancelStream does to the flag: it may rise, for this call.
LEMMA Cancels ==
  ASSUME Typed, NEW c \in Calls, CancelStream(c)
  PROVE  /\ cancelled' \in [Calls -> BOOLEAN] /\ (cancelled[c] => cancelled'[c])
         /\ \A d \in Calls \ {c} : cancelled'[d] = cancelled[d]
  BY DEF CancelStream, Typed

LEMMA ReadKeeps == ASSUME IInv, NEW c \in Calls, Read(c) PROVE IInv'
<1> USE DEF Typed
<1> DEFINE n == pulled[c] + 1
           reply == replies[c][n]
<1>1. sent' = sent /\ exposes' = exposes /\ replies' = replies
      /\ UNCHANGED <<phase, attempt, answer, shared, iterator, ran, clash>>
  BY DEF Read, server
<1>2. /\ Typed /\ Fits(c) /\ outcome[c] = "waiting"
      /\ Len(replies[c]) \in Nat /\ n \in 1..Len(replies[c]) /\ n \in Nat
  <2>1. Typed /\ Fits(c) /\ outcome[c] = "waiting" /\ pulled[c] < Len(replies[c])
    BY DEF IInv, Read
  <2>2. Len(replies[c]) \in Nat /\ pulled[c] \in Nat
    BY <2>1, LenIsNat
  <2> QED
    BY <2>1, <2>2
<1>3. /\ outcome' = [outcome EXCEPT ![c] =
                       IF reply.is = "error" THEN "RemoteError"
                       ELSE IF reply.is = "end" THEN "ended"
                       ELSE IF ~sent[c].reads THEN "InvalidResponseError"
                       ELSE IF Streaming(c) THEN "waiting" ELSE "value"]
      /\ pulled' = [pulled EXCEPT ![c] = n]
      /\ \/ CancelStream(c) /\ Streaming(c) /\ outcome'[c] = "InvalidResponseError"
         \/ cancelled' = cancelled
  BY <1>2 DEF Read
<1>4. /\ cancelled' \in [Calls -> BOOLEAN] /\ (cancelled[c] => cancelled'[c])
      /\ cancelled'[c] => cancelled[c] \/ (Streaming(c) /\ outcome'[c] = "InvalidResponseError")
      /\ \A d \in Calls \ {c} : cancelled'[d] = cancelled[d]
  BY <1>2, <1>3, Cancels
<1>5. Typed'
  BY <1>1, <1>2, <1>3, <1>4 DEF Outcomes
<1>6. RanFits' /\ SharedFits'
  BY <1>1, Fixed DEF IInv, RanFits, SharedFits
<1>7. RunsFit(c)' /\ AnswerFits(c)' /\ IteratorFits(c)'
  <2>1. Fits(c)
    BY <1>2
  <2>2. RunsFit(c)'
    BY <1>1, <2>1, Fixed DEF Fits, RunsFit
  <2>3. AnswerFits(c)'
    BY <1>1, <2>1, Fixed DEF Fits, AnswerFits, Sayable
  <2>4. IteratorFits(c)'
    BY <1>1, <2>1, Fixed DEF Fits, IteratorFits
  <2> QED
    BY <2>2, <2>3, <2>4
<1>8. RepliesFit(c)'
  BY <1>1, <1>2, <1>4, Fixed DEF Fits, RepliesFit, ReplyFits, Sayable, Final
<1>9. ReadsFit(c)'
  <2>0. \A i \in 1..Len(replies[c]) : ReplyFits(c, replies[c][i], i, Len(replies[c]))
    BY <1>2 DEF Fits, RepliesFit
  <2>9. ReplyFits(c, reply, n, Len(replies[c]))
    BY <1>2, <2>0
  <2>1. sent[c].rpc /\ reply.is \in {"result", "end", "error"}
    BY <1>2 DEF Fits, ReadsFit, RepliesFit, ReplyFits
  <2>2. ~cancelled[c]
    BY <1>2 DEF Fits, ReadsFit
  <2>3. pulled'[c] = n /\ n \in 1..Len(replies[c]) /\ n \in Nat /\ replies'[c] = replies[c]
        /\ phase'[c] = phase[c] /\ iterator'[c] = iterator[c]
    BY <1>1, <1>2, <1>3
  <2>4. CASE outcome'[c] = "RemoteError" /\ reply.is = "error"
    BY <1>1, <1>4, <2>2, <2>3, <2>4 DEF ReadsFit
  <2>5. CASE outcome'[c] = "ended" /\ reply.is = "end"
    <3>1. phase[c] = "settled" /\ iterator[c] = "exhausted" /\ n = Len(replies[c])
      BY <1>2, <2>9, <2>5 DEF ReplyFits
    <3>2. \A i \in 1..Len(replies[c]) : replies[c][i].is # "error" /\ replies[c][i].call = c
      BY <1>2, <2>0, <2>5, <3>1 DEF ReplyFits
    <3> QED
      BY <1>1, <1>4, <2>2, <2>3, <2>5, <3>1, <3>2 DEF ReadsFit
  <2>6. CASE outcome'[c] = "InvalidResponseError" /\ reply.is = "result" /\ ~sent[c].reads
    BY <1>1, <1>2, <1>4, <2>2, <2>3, <2>6, Fixed DEF ReadsFit
  <2>7. CASE outcome'[c] = "waiting" /\ reply.is = "result" /\ Streaming(c)
    <3>1. \A i \in 1..n : replies[c][i].is = "result"
      BY <1>2, <2>7 DEF Fits, ReadsFit
    <3> QED
      BY <1>1, <1>2, <1>4, <2>1, <2>2, <2>3, <2>7, <3>1, Fixed DEF ReadsFit
  <2>8. CASE outcome'[c] = "value" /\ reply.is = "result" /\ ~Streaming(c)
    <3>1. n = Len(replies[c]) /\ n = 1
      <4>1. \A i \in 1..Len(replies[c]) : ~(i < Len(replies[c]))
        BY <2>0, <2>8 DEF ReplyFits
      <4>2. 1 \in 1..Len(replies[c])
        BY <1>2
      <4>3. ~(1 < Len(replies[c]))
        BY <4>1, <4>2
      <4> QED
        BY <1>2, <4>3
    <3>2. phase[c] = "settled"
      BY <1>2, <2>0, <2>8, <3>1 DEF Fits, RepliesFit, ReplyFits
    <3>3. \A i \in 1..Len(replies[c]) : replies[c][i].is # "error" /\ replies[c][i].call = c
      BY <1>2, <2>0, <2>8, <3>1 DEF ReplyFits
    <3> QED
      BY <1>1, <1>4, <2>2, <2>3, <2>8, <3>1, <3>2, <3>3 DEF ReadsFit
  <2> QED
    BY <1>2, <1>3, <2>1, <2>4, <2>5, <2>6, <2>7, <2>8
<1>10. \A d \in Calls \ {c} : Untouched(d) /\ Shares(d)
  BY <1>1, <1>2, <1>3, <1>4 DEF Untouched, Shares
<1> QED
  BY <1>1, <1>5, <1>6, <1>7, <1>8, <1>9, <1>10, Together DEF Fits

LEMMA CloseKeeps == ASSUME IInv, NEW c \in Calls, Close(c) PROVE IInv'
<1> USE DEF Typed
<1>1. sent' = sent /\ exposes' = exposes /\ replies' = replies /\ pulled' = pulled
      /\ UNCHANGED <<phase, attempt, answer, shared, iterator, ran, clash>>
  BY DEF Close, server
<1>2. /\ Typed /\ Fits(c) /\ Streaming(c)
      /\ outcome' = [outcome EXCEPT ![c] = "closed"] /\ CancelStream(c)
  BY DEF IInv, Close
<1>3. /\ cancelled' \in [Calls -> BOOLEAN] /\ (cancelled[c] => cancelled'[c])
      /\ \A d \in Calls \ {c} : cancelled'[d] = cancelled[d]
  BY <1>2, Cancels
<1>4. Typed'
  BY <1>1, <1>2, <1>3 DEF Outcomes
<1>5. RanFits' /\ SharedFits'
  BY <1>1, Fixed DEF IInv, RanFits, SharedFits
<1>6. RunsFit(c)' /\ AnswerFits(c)' /\ IteratorFits(c)'
  <2>1. RunsFit(c)'
    BY <1>1, <1>2, Fixed DEF Fits, RunsFit
  <2>3. AnswerFits(c)'
    BY <1>1, <1>2, Fixed DEF Fits, AnswerFits, Sayable
  <2>2. IteratorFits(c)'
    BY <1>1, <1>2, Fixed DEF Fits, IteratorFits
  <2> QED
    BY <2>1, <2>2, <2>3
<1>7. RepliesFit(c)'
  BY <1>1, <1>2, <1>3, Fixed, SMTT(30) DEF Fits, RepliesFit, ReplyFits, Sayable, Final
<1>8. ReadsFit(c)'
  BY <1>1, <1>2, Fixed DEF Fits, ReadsFit
<1>9. \A d \in Calls \ {c} : Untouched(d) /\ Shares(d)
  BY <1>1, <1>2, <1>3 DEF Untouched, Shares
<1> QED
  BY <1>1, <1>4, <1>5, <1>6, <1>7, <1>8, <1>9, Together DEF Fits

--------------------------------------------------------------------------------
(* The service's steps, up to the reply. *)

\* A request is over with an answer, or with a failure: what Deliver, Return,
\* ReturnStream, Raise and TimeOut have in common.
LEMMA EndsKeeps ==
  ASSUME IInv, NEW c \in Calls, NEW p \in {"answered", "failed"}, NEW a, Ends(c, p, a),
         UNCHANGED <<exposes, sent, attempt, iterator, cancelled, pulled, outcome, replies, ran>>,
         \/ phase[c] = "running"
         \/ phase[c] = "queued" /\ p = "answered" /\ Refused(c),
         AnswerFits(c)', SharedFits', clash' \subseteq Calls, \A d \in Calls \ {c} : Shares(d)
  PROVE  IInv'
<1> USE DEF Typed
<1>1. Typed /\ Fits(c) /\ Len(replies[c]) \in Nat
  BY LenIsNat DEF IInv
<1>2. /\ phase'[c] = p /\ phase' \in [Calls -> Phases]
      /\ answer' = [d \in Calls |-> answer'[d]]
      /\ \A d \in Calls \ {c} : phase'[d] = phase[d] /\ answer'[d] = answer[d]
  BY <1>1 DEF Ends, Phases
<1>3. Typed'
  BY <1>1, <1>2
<1>4. RanFits'
  BY Fixed DEF IInv, RanFits
<1>5. RunsFit(c)'
  BY <1>1, <1>2, Fixed DEF Fits, RunsFit
<1>6. RepliesFit(c)'
  <2>1. Len(replies[c]) = 0
    BY <1>1 DEF Fits, RepliesFit
  <2> QED
    BY <1>1, <1>2, <2>1, BoundAssumption DEF RepliesFit
<1>7. ReadsFit(c)'
  BY <1>1, <1>2, Fixed DEF Fits, ReadsFit
<1>8. IteratorFits(c)'
  BY <1>1, <1>2 DEF Fits, IteratorFits
<1>9. \A d \in Calls \ {c} : Untouched(d) /\ Shares(d)
  BY <1>2 DEF Untouched
<1> QED
  BY <1>3, <1>4, <1>5, <1>6, <1>7, <1>8, <1>9, Together DEF Fits

LEMMA RejectionFits ==
  ASSUME NEW c \in Calls, Refused(c)
  PROVE  Rejection(c).is = "error" /\ Rejection(c).call = c /\ Rejection(c).text = "rejected"
         /\ Rejection(c).code = "PROTOCOL_ERROR"
  BY DEF Refused, Rejection, Failure

LEMMA DeliverKeeps == ASSUME IInv, NEW c \in Calls, Deliver(c) PROVE IInv'
<1> USE DEF Typed
<1>1. UNCHANGED <<exposes, sent, attempt, shared, iterator, cancelled, pulled, outcome, replies, clash>>
  BY DEF Deliver, client
<1>2. Typed /\ Fits(c) /\ phase[c] = "queued" /\ Len(replies[c]) \in Nat /\ SharedFits
  BY LenIsNat DEF IInv, Deliver
<1>3. CASE Refused(c)
  <2>1. Ends(c, "answered", Rejection(c)) /\ ran' = ran
    BY <1>3 DEF Deliver, Refused
  <2>2. phase'[c] = "answered" /\ answer'[c] = Rejection(c)
    BY <1>2, <2>1 DEF Ends
  <2>3. AnswerFits(c)'
    <3>1. answer'[c].is = "error" /\ answer'[c].call = c /\ answer'[c].text = "rejected"
      BY <1>3, <2>2, RejectionFits
    <3> QED
      BY <1>1, <1>3, <2>2, <3>1, Fixed DEF AnswerFits, Sayable
  <2>4. SharedFits' /\ clash' \subseteq Calls /\ \A d \in Calls \ {c} : Shares(d)
    BY <1>1, <1>2, <2>1 DEF SharedFits, Shares
  <2> QED
    BY <1>1, <1>2, <1>3, <2>1, <2>3, <2>4, EndsKeeps
<1>4. CASE ~Refused(c)
  <2>1. /\ phase' = [phase EXCEPT ![c] = "running"] /\ answer' = answer
        /\ ran' = ran \cup {[call |-> c, attempt |-> attempt[c]]}
    BY <1>4 DEF Deliver, Refused
  <2>2. phase'[c] = "running" /\ \A d \in Calls \ {c} : phase'[d] = phase[d]
    BY <1>2, <2>1
  <2>3. Typed'
    BY <1>1, <1>2, <2>1 DEF Phases
  <2>4. attempt[c] \in Nat
    BY <1>2, BoundAssumption
  <2>5. RanFits'
    <3> SUFFICES ASSUME NEW r \in ran'
                 PROVE  /\ r = [call |-> r.call, attempt |-> r.attempt]
                        /\ r.call \in Calls /\ ~Refused(r.call)' /\ r.attempt \in 0..attempt[r.call]'
      BY DEF RanFits
    <3>1. CASE r \in ran
      BY <1>1, <3>1, Fixed DEF IInv, RanFits
    <3>2. CASE r = [call |-> c, attempt |-> attempt[c]]
      BY <1>1, <1>4, <2>4, <3>2, Fixed
    <3> QED
      BY <2>1, <3>1, <3>2
  <2>6. RunsFit(c)'
    <3>1. \A i \in 0..attempt[c] : [call |-> c, attempt |-> i] \in ran'
      <4>1. \A i \in 0..attempt[c] : i < attempt[c] => [call |-> c, attempt |-> i] \in ran
        BY <1>2 DEF Fits, RunsFit
      <4> QED
        BY <2>1, <2>4, <4>1
    <3>2. sent[c].by = "proxy" => sent[c].fits /\ Contract(Service, sent[c].knows) # <<>>
      BY <1>2 DEF Fits, RunsFit
    <3> QED
      BY <1>1, <1>4, <2>2, <3>1, <3>2, Fixed DEF RunsFit
  <2>7. AnswerFits(c)'
    BY <1>1, <1>2, <2>1, <2>2, Fixed DEF Fits, AnswerFits, Sayable
  <2>8. RepliesFit(c)'
    <3>1. Len(replies[c]) = 0
      BY <1>2 DEF Fits, RepliesFit
    <3> QED
      BY <1>1, <1>2, <2>2, <3>1, BoundAssumption DEF RepliesFit
  <2>9. ReadsFit(c)' /\ IteratorFits(c)'
    BY <1>1, <1>2, <2>2, Fixed DEF Fits, ReadsFit, IteratorFits
  <2>10. \A d \in Calls \ {c} : Untouched(d) /\ Shares(d)
    BY <1>1, <2>1, <2>2 DEF Untouched, Shares
  <2>11. SharedFits'
    BY <1>1, <1>2 DEF SharedFits
  <2> QED
    BY <1>1, <2>3, <2>5, <2>6, <2>7, <2>8, <2>9, <2>10, <2>11, Together DEF Fits
<1> QED
  BY <1>3, <1>4

LEMMA ReturnKeeps == ASSUME IInv, NEW c \in Calls, Return(c) PROVE IInv'
<1>1. UNCHANGED <<exposes, sent, attempt, shared, iterator, cancelled, pulled, outcome, replies, ran, clash>>
  BY DEF Return, client
<1>2. PICK p \in {"answered", "failed"}, a \in {Result(c, Envelope(c)), NoReply} :
        Ends(c, p, a) /\ \/ p = "answered" /\ a = Result(c, Envelope(c))
                         \/ p = "failed" /\ a = NoReply
  BY DEF Return
<1>3. Typed /\ SharedFits /\ phase[c] = "running" /\ ~Streaming(c)
  BY DEF IInv, Return
<1>4. phase'[c] = p /\ answer'[c] = a
  BY <1>2, <1>3 DEF Ends, Typed
<1>5. AnswerFits(c)'
  <2>1. /\ a.code = "" /\ a.text = ""
        /\ \/ p = "answered" /\ a.is = "result" /\ a.call = c
           \/ p = "failed" /\ a.is = "none" /\ a = NoReply
    <3>1. NoReply.is = "none" /\ NoReply.code = "" /\ NoReply.text = ""
      BY DEF NoReply
    <3>2. LET r == Result(c, Envelope(c))
          IN  r.is = "result" /\ r.call = c /\ r.code = "" /\ r.text = ""
      BY DEF Result
    <3> QED
      BY <1>2, <3>1, <3>2
  <2> QED
    BY <1>1, <1>3, <1>4, <2>1, Fixed DEF AnswerFits, Sayable
<1>6. SharedFits' /\ clash' \subseteq Calls /\ \A d \in Calls \ {c} : Shares(d)
  BY <1>1, <1>3 DEF SharedFits, Shares, Typed
<1> QED
  BY <1>1, <1>2, <1>3, <1>5, <1>6, EndsKeeps

LEMMA TimeOutKeeps == ASSUME IInv, NEW c \in Calls, TimeOut(c) PROVE IInv'
<1> DEFINE a == Failure(c, Envelope(c), "PROCESSING_TIMEOUT", "timed out")
<1>1. UNCHANGED <<exposes, sent, attempt, shared, iterator, cancelled, pulled, outcome, replies, ran, clash>>
      /\ Ends(c, "failed", a)
  BY DEF TimeOut, client
<1>2. Typed /\ SharedFits /\ phase[c] = "running"
  BY DEF IInv, TimeOut
<1>3. phase'[c] = "failed" /\ answer'[c] = a
  BY <1>1, <1>2 DEF Ends, Typed
<1>4. AnswerFits(c)'
  <2>1. a.is = "error" /\ a.call = c /\ a.code = "PROCESSING_TIMEOUT" /\ a.text = "timed out"
    BY DEF Failure
  <2> HIDE DEF a
  <2> QED
    BY <1>1, <1>3, <2>1, Fixed DEF AnswerFits, Sayable
<1>5. SharedFits' /\ clash' \subseteq Calls /\ \A d \in Calls \ {c} : Shares(d)
  BY <1>1, <1>2 DEF SharedFits, Shares, Typed
<1> QED
  BY <1>1, <1>2, <1>4, <1>5, EndsKeeps

\* What may cross of an error.
LEMMA SanitizedFits ==
  ASSUME NEW c, NEW m, NEW error \in {Handled, Internal, Shared}
  PROVE  LET s == Sanitized(c, m, error)
         IN  /\ s.is = "error" /\ s.call = c /\ s.code # "PROTOCOL_ERROR"
             /\ s.text = "internal" => exposes
             /\ error # Handled => s.code # "HANDLED_ERROR"
  BY DEF Sanitized, Failure, Handled, Internal, Shared

LEMMA RaiseKeeps == ASSUME IInv, NEW c \in Calls, Raise(c) PROVE IInv'
<1>1. UNCHANGED <<exposes, sent, attempt, iterator, cancelled, pulled, outcome, replies, ran>>
  BY DEF Raise, client
<1>2. Typed /\ SharedFits /\ phase[c] = "running"
  BY DEF IInv, Raise
<1>3. PICK error \in {Handled, Internal, Shared} :
        LET reply == Sanitized(c, Envelope(c), error)
        IN  /\ Ends(c, IF error = Handled THEN "answered" ELSE "failed",
                    IF error = Shared THEN [NoReply EXCEPT !.is = "shared"] ELSE reply)
            /\ shared' = IF error = Shared THEN reply ELSE shared
            /\ clash' = IF error # Shared THEN clash
                 ELSE clash \cup {d \in Calls \ {c} : phase[d] = "failed" /\ answer[d].is = "shared"}
  BY DEF Raise
<1> DEFINE reply == Sanitized(c, Envelope(c), error)
           p == IF error = Handled THEN "answered" ELSE "failed"
           a == IF error = Shared THEN [NoReply EXCEPT !.is = "shared"] ELSE reply
<1>4. Ends(c, p, a) /\ p \in {"answered", "failed"}
  BY <1>3
<1>5. phase'[c] = p /\ answer'[c] = a
  BY <1>2, <1>4 DEF Ends, Typed
<1>6. /\ reply.is = "error" /\ reply.call = c /\ reply.code # "PROTOCOL_ERROR"
      /\ reply.text = "internal" => exposes
      /\ error # Handled => reply.code # "HANDLED_ERROR"
  BY SanitizedFits
<1> HIDE DEF reply
<1>7. AnswerFits(c)' /\ SharedFits'
  <2>1. CASE error = Handled
    BY <1>1, <1>2, <1>3, <1>5, <1>6, <2>1, Fixed
    DEF AnswerFits, Sayable, SharedFits, Handled, Shared
  <2>2. CASE error = Internal
    BY <1>1, <1>2, <1>3, <1>5, <1>6, <2>2, Fixed
    DEF AnswerFits, Sayable, SharedFits, Handled, Internal, Shared
  <2>3. CASE error = Shared
    <3>1. shared' = reply /\ phase'[c] = "failed" /\ answer'[c] = [NoReply EXCEPT !.is = "shared"]
      BY <1>3, <1>5, <2>3 DEF reply, Handled, Shared
    <3> QED
      BY <1>1, <1>6, <3>1, Fixed DEF AnswerFits, Sayable, SharedFits, NoReply
  <2> QED
    BY <2>1, <2>2, <2>3
<1>8. clash' \subseteq Calls /\ \A d \in Calls \ {c} : Shares(d)
  BY <1>1, <1>2, <1>3, <1>6 DEF Shares, Typed, reply
<1> QED
  BY <1>1, <1>2, <1>4, <1>7, <1>8, EndsKeeps

LEMMA ReturnStreamKeeps == ASSUME IInv, NEW c \in Calls, ReturnStream(c) PROVE IInv'
<1> USE DEF Typed
<1>1. UNCHANGED <<exposes, sent, attempt, shared, cancelled, pulled, outcome, replies, ran, clash>>
  BY DEF ReturnStream, client
<1>2. /\ Typed /\ SharedFits /\ Fits(c) /\ phase[c] = "running" /\ Streaming(c)
      /\ Len(replies[c]) \in Nat
  BY LenIsNat DEF IInv, ReturnStream
<1>3. CASE Ends(c, "answered", Failure(c, Envelope(c), "", "not a stream")) /\ UNCHANGED iterator
  <2> DEFINE a == Failure(c, Envelope(c), "", "not a stream")
  <2>1. phase'[c] = "answered" /\ answer'[c] = a
    BY <1>2, <1>3 DEF Ends
  <2>2. a.is = "error" /\ a.call = c /\ a.code = "" /\ a.text = "not a stream"
    BY DEF Failure
  <2> HIDE DEF a
  <2>3. AnswerFits(c)'
    BY <1>1, <2>1, <2>2, Fixed DEF AnswerFits, Sayable
  <2>4. SharedFits' /\ clash' \subseteq Calls /\ \A d \in Calls \ {c} : Shares(d)
    BY <1>1, <1>2 DEF SharedFits, Shares
  <2> QED
    BY <1>1, <1>2, <1>3, <2>3, <2>4, EndsKeeps DEF a
<1>4. CASE /\ phase' = [phase EXCEPT ![c] = "streaming"]
           /\ iterator' = [iterator EXCEPT ![c] = "open"] /\ UNCHANGED answer
  <2>1. /\ phase'[c] = "streaming" /\ iterator'[c] = "open"
        /\ \A d \in Calls \ {c} : phase'[d] = phase[d] /\ iterator'[d] = iterator[d]
    BY <1>2, <1>4
  <2>2. Typed'
    BY <1>1, <1>2, <1>4 DEF Phases
  <2>3. RanFits' /\ SharedFits'
    BY <1>1, Fixed DEF IInv, RanFits, SharedFits
  <2>4. RunsFit(c)'
    BY <1>1, <1>2, <2>1, Fixed DEF Fits, RunsFit
  <2>5. AnswerFits(c)'
    BY <1>1, <1>2, <1>4, <2>1, Fixed DEF Fits, AnswerFits, Sayable
  <2>6. RepliesFit(c)'
    <3>1. Len(replies[c]) = 0
      BY <1>2 DEF Fits, RepliesFit
    <3> QED
      BY <1>1, <1>2, <2>1, <3>1, Fixed, BoundAssumption DEF RepliesFit
  <2>7. ReadsFit(c)'
    BY <1>1, <1>2, <2>1, Fixed DEF Fits, ReadsFit, IteratorFits
  <2>8. IteratorFits(c)'
    BY <2>1 DEF IteratorFits
  <2>9. \A d \in Calls \ {c} : Untouched(d) /\ Shares(d)
    BY <1>1, <1>4, <2>1 DEF Untouched, Shares
  <2> QED
    BY <1>1, <2>2, <2>3, <2>4, <2>5, <2>6, <2>7, <2>8, <2>9, Together DEF Fits
<1> QED
  BY <1>3, <1>4 DEF ReturnStream

--------------------------------------------------------------------------------
(* The service's replies. *)

\* A reply leaves for a caller that wants one, at most MaxChunks having left before.
LEMMA AnsweringFits ==
  ASSUME Typed, NEW c \in Calls, NEW r, Answering(c, r)
  PROVE  LET n == Len(replies[c])
         IN  /\ replies' = [d \in Calls |-> replies'[d]] /\ \A d \in Calls : IsSeq(replies'[d])
             /\ \A d \in Calls \ {c} : replies'[d] = replies[d]
             /\ n \in Nat
             /\ sent[c].rpc => /\ Len(replies'[c]) = n + 1 /\ replies'[c][n + 1] = r
                               /\ \A i \in 1..n : replies'[c][i] = replies[c][i]
             /\ ~sent[c].rpc => replies'[c] = replies[c]
<1>1. IsSeq(replies[c]) /\ replies = [d \in Calls |-> replies[d]]
  BY DEF Typed
<1>2. CASE sent[c].rpc
  <2>1. replies' = [replies EXCEPT ![c] = Append(@, r)]
    BY <1>2 DEF Answering
  <2>2. /\ replies'[c] = Append(replies[c], r) /\ replies' = [d \in Calls |-> replies'[d]]
        /\ \A d \in Calls \ {c} : replies'[d] = replies[d]
    BY <1>1, <2>1
  <2>3. LET n == Len(replies[c])
        IN  /\ IsSeq(replies'[c]) /\ n \in Nat /\ Len(replies'[c]) = n + 1
            /\ replies'[c][n + 1] = r
            /\ \A i \in 1..n : replies'[c][i] = replies[c][i]
    BY <1>1, <2>2, AppendFacts
  <2>4. \A d \in Calls : IsSeq(replies'[d])
    BY <2>2, <2>3 DEF Typed
  <2> QED
    BY <1>2, <2>2, <2>3, <2>4
<1>3. CASE ~sent[c].rpc
  BY <1>1, <1>3, LenIsNat DEF Answering, Typed
<1> QED
  BY <1>2, <1>3

\* The last reply of a call that had none: an answer, or what a dead delivery left.
LEMMA OnlyReply ==
  ASSUME Typed, NEW c \in Calls, NEW r, Answering(c, r), Len(replies[c]) = 0,
         phase'[c] \in {"settled", "dead"}, sent' = sent, ReplyFits(c, r, 1, 1)', Final(c, r)
  PROVE  RepliesFit(c)'
<1>1. CASE sent[c].rpc
  <2>1. Len(replies'[c]) = 1 /\ replies'[c][1] = r
    <3>1. Len(replies'[c]) = Len(replies[c]) + 1 /\ replies'[c][Len(replies[c]) + 1] = r
      BY <1>1, AnsweringFits
    <3>2. Len(replies[c]) + 1 = 1
      OBVIOUS
    <3> QED
      BY <3>1, <3>2
  <2>2. \A i \in 1..1 : i = 1
    OBVIOUS
  <2>3. Final(c, r)'
    BY Fixed DEF Final
  <2> QED
    BY <1>1, <2>1, <2>2, <2>3, BoundAssumption DEF RepliesFit
<1>2. CASE ~sent[c].rpc
  BY <1>2, AnsweringFits, BoundAssumption DEF RepliesFit
<1> QED
  BY <1>1, <1>2

\* A reply to a stream: a chunk, or its last one.
YieldsFit(c, r) ==
  \/ /\ phase' = phase /\ iterator' = iterator /\ Len(replies[c]) < MaxChunks /\ r.is = "result"
  \/ /\ phase' = [phase EXCEPT ![c] = "settled"]
     /\ \/ r.is = "end" /\ iterator' = [iterator EXCEPT ![c] = "exhausted"]
        \/ r.is = "error" /\ iterator' = [iterator EXCEPT ![c] = "broken"]

LEMMA YieldReply ==
  ASSUME NEW c \in Calls, Yield(c)
  PROVE  \E r : /\ Answering(c, r) /\ YieldsFit(c, r)
                /\ r.call = c /\ r.code # "PROTOCOL_ERROR" /\ (r.text = "internal" => exposes)
<1> DEFINE m == Envelope(c)
           Over(how, last) == /\ Answering(c, last)
                              /\ phase' = [phase EXCEPT ![c] = "settled"]
                              /\ iterator' = [iterator EXCEPT ![c] = how]
<1>1. LET r == Result(c, m)
      IN  r.is = "result" /\ r.call = c /\ r.code = "" /\ r.text = ""
  BY DEF Result
<1>2. LET r == EndOfStream(c, m)
      IN  r.is = "end" /\ r.call = c /\ r.code = "" /\ r.text = ""
  BY DEF EndOfStream
<1>3. CASE Answering(c, Result(c, m)) /\ Len(replies[c]) < MaxChunks /\ UNCHANGED <<phase, iterator>>
  BY <1>1, <1>3 DEF YieldsFit
<1>4. CASE Over("exhausted", EndOfStream(c, m))
  BY <1>2, <1>4 DEF YieldsFit
<1>5. CASE \E error \in {Handled, Internal} : Over("broken", Sanitized(c, m, error))
  <2>1. PICK error \in {Handled, Internal} : Over("broken", Sanitized(c, m, error))
    BY <1>5
  <2>2. LET r == Sanitized(c, m, error)
        IN  r.is = "error" /\ r.call = c /\ r.code # "PROTOCOL_ERROR" /\ (r.text = "internal" => exposes)
    BY SanitizedFits
  <2> QED
    BY <2>1, <2>2 DEF YieldsFit
<1> QED
  BY <1>3, <1>4, <1>5 DEF Yield

LEMMA YieldKeeps == ASSUME IInv, NEW c \in Calls, Yield(c) PROVE IInv'
<1> USE DEF Typed
<1>1. UNCHANGED <<exposes, sent, attempt, answer, shared, cancelled, pulled, outcome, ran, clash>>
  BY DEF Yield, client
<1>2. /\ Typed /\ SharedFits /\ Fits(c) /\ phase[c] = "streaming" /\ sent[c].rpc /\ ~cancelled[c]
      /\ Streaming(c) /\ Len(replies[c]) <= MaxChunks
  BY DEF IInv, Yield, Fits, RepliesFit
<1>3. PICK r : /\ Answering(c, r) /\ YieldsFit(c, r)
               /\ r.call = c /\ r.code # "PROTOCOL_ERROR" /\ (r.text = "internal" => exposes)
  BY YieldReply
<1> DEFINE n == Len(replies[c])
<1>4. /\ replies' = [d \in Calls |-> replies'[d]] /\ \A d \in Calls : IsSeq(replies'[d])
      /\ \A d \in Calls \ {c} : replies'[d] = replies[d]
      /\ n \in Nat /\ Len(replies'[c]) = n + 1 /\ replies'[c][n + 1] = r
      /\ \A i \in 1..n : replies'[c][i] = replies[c][i]
  BY <1>2, <1>3, AnsweringFits
<1>5. /\ \/ /\ phase'[c] = "streaming" /\ iterator'[c] = iterator[c] /\ n < MaxChunks /\ r.is = "result"
         \/ /\ phase'[c] = "settled"
            /\ \/ r.is = "end" /\ iterator'[c] = "exhausted"
               \/ r.is = "error" /\ iterator'[c] = "broken"
      /\ phase' \in [Calls -> Phases]
      /\ iterator' \in [Calls -> {"none", "open", "exhausted", "broken", "released"}]
      /\ \A d \in Calls \ {c} : phase'[d] = phase[d] /\ iterator'[d] = iterator[d]
  <2>1. CASE phase' = phase /\ iterator' = iterator /\ n < MaxChunks /\ r.is = "result"
    BY <1>2, <2>1
  <2>2. CASE phase' = [phase EXCEPT ![c] = "settled"] /\ r.is = "end" /\ iterator' = [iterator EXCEPT ![c] = "exhausted"]
    BY <1>2, <2>2 DEF Phases
  <2>3. CASE phase' = [phase EXCEPT ![c] = "settled"] /\ r.is = "error" /\ iterator' = [iterator EXCEPT ![c] = "broken"]
    BY <1>2, <2>3 DEF Phases
  <2> QED
    BY <1>3, <2>1, <2>2, <2>3 DEF YieldsFit
<1>6. \A i \in 1..n : ReplyFits(c, replies[c][i], i, n) /\ replies[c][i].is = "result"
  BY <1>2 DEF Fits, RepliesFit, ReplyFits
<1>7. Typed'
  BY <1>1, <1>2, <1>4, <1>5
<1>8. RanFits' /\ SharedFits'
  BY <1>1, Fixed DEF IInv, RanFits, SharedFits
<1>9. RunsFit(c)'
  BY <1>1, <1>2, <1>5, Fixed DEF Fits, RunsFit
<1>10. AnswerFits(c)'
  BY <1>1, <1>2, <1>5, Fixed DEF Fits, AnswerFits, Sayable
<1>11. RepliesFit(c)'
  <2>1. ASSUME NEW i \in 1..(n + 1) PROVE ReplyFits(c, replies[c][i], i, Len(replies[c]))'
    <3>1. CASE i \in 1..n
      <4>1. replies'[c][i] = replies[c][i] /\ ReplyFits(c, replies[c][i], i, n) /\ replies[c][i].is = "result"
        BY <1>4, <1>6, <3>1
      <4> QED
        BY <1>1, <1>2, <1>5, <4>1, Fixed DEF ReplyFits, Sayable
    <3>2. CASE i = n + 1
      <4>1. replies'[c][i] = r /\ ~(i < Len(replies'[c]))
        BY <1>4, <3>2
      <4> QED
        BY <1>1, <1>2, <1>3, <1>5, <4>1, Fixed DEF ReplyFits, Sayable
    <3> QED
      BY <1>4, <3>1, <3>2
  <2>2. phase'[c] = "settled" => Final(c, replies[c][Len(replies[c])])'
    BY <1>4, <1>5 DEF Final
  <2>3. \A i \in 1..Len(replies'[c]) : ReplyFits(c, replies[c][i], i, Len(replies[c]))'
    BY <1>4, <2>1
  <2> HIDE DEF n
  <2> QED
    BY <1>1, <1>2, <1>4, <1>5, <2>2, <2>3, Fixed, BoundAssumption DEF RepliesFit, n
<1>12. ReadsFit(c)'
  <2>1. ReadsFit(c) /\ pulled[c] \in 0..n
    BY <1>2 DEF Fits, ReadsFit
  <2>2. pulled[c] \in 0..(n + 1) /\ \A i \in 1..pulled[c] : replies'[c][i] = replies[c][i]
    BY <1>4, <2>1
  <2>3. pulled[c] > 0 => replies'[c][pulled[c]] = replies[c][pulled[c]]
    BY <1>4, <2>1, SMTT(30)
  <2>4. outcome'[c] = outcome[c] /\ pulled'[c] = pulled[c] /\ cancelled'[c] = cancelled[c] /\ sent' = sent
    BY <1>1
  <2>5. outcome[c] \notin {"none", "InvalidRequestError", "InvalidServiceNameError", "value", "ended"}
    BY <1>2, <2>1 DEF ReadsFit
  <2> HIDE DEF n
  <2>6. outcome[c] = "waiting" => \A i \in 1..pulled[c] : replies'[c][i].is = "result"
    BY <2>1, <2>2 DEF ReadsFit
  <2>7. pulled[c] \in 0..Len(replies'[c])
    BY <1>4, <2>2
  <2> QED
    BY <1>2, <2>1, <2>3, <2>4, <2>5, <2>6, <2>7, Fixed DEF ReadsFit
<1>13. IteratorFits(c)'
  BY <1>2, <1>5 DEF Fits, IteratorFits
<1>14. \A d \in Calls \ {c} : Untouched(d) /\ Shares(d)
  BY <1>1, <1>4, <1>5 DEF Untouched, Shares
<1> QED
  BY <1>1, <1>7, <1>8, <1>9, <1>10, <1>11, <1>12, <1>13, <1>14, Together DEF Fits

LEMMA StopStreamKeeps == ASSUME IInv, NEW c \in Calls, StopStream(c) PROVE IInv'
<1> USE DEF Typed
<1>1. UNCHANGED <<exposes, sent, attempt, answer, shared, cancelled, pulled, outcome, replies, ran, clash>>
  BY DEF StopStream, client
<1>2. /\ Typed /\ SharedFits /\ Fits(c) /\ phase[c] = "streaming" /\ (cancelled[c] \/ ~sent[c].rpc)
      /\ phase' = [phase EXCEPT ![c] = "settled"]
      /\ iterator' = [iterator EXCEPT ![c] = IF sent[c].rpc THEN "released" ELSE "open"]
      /\ Len(replies[c]) \in Nat
  BY LenIsNat DEF IInv, StopStream
<1>3. /\ phase'[c] = "settled" /\ iterator'[c] = IF sent[c].rpc THEN "released" ELSE "open"
      /\ \A d \in Calls \ {c} : phase'[d] = phase[d] /\ iterator'[d] = iterator[d]
  BY <1>2
<1>4. Typed'
  BY <1>1, <1>2 DEF Phases
<1>5. RanFits' /\ SharedFits'
  BY <1>1, Fixed DEF IInv, RanFits, SharedFits
<1>6. RunsFit(c)'
  BY <1>1, <1>2, <1>3, Fixed DEF Fits, RunsFit
<1>7. AnswerFits(c)'
  BY <1>1, <1>2, <1>3, Fixed DEF Fits, AnswerFits, Sayable
<1>8. RepliesFit(c)'
  <2>1. \A i \in 1..Len(replies[c]) : ReplyFits(c, replies[c][i], i, Len(replies[c]))'
    BY <1>1, <1>2, <1>3, Fixed DEF Fits, RepliesFit, ReplyFits, Sayable
  <2> QED
    BY <1>1, <1>2, <1>3, <2>1, Fixed DEF Fits, RepliesFit
<1>9. ReadsFit(c)'
  BY <1>1, <1>2, <1>3, Fixed DEF Fits, ReadsFit, IteratorFits
<1>10. IteratorFits(c)'
  BY <1>1, <1>3 DEF IteratorFits
<1>11. \A d \in Calls \ {c} : Untouched(d) /\ Shares(d)
  BY <1>1, <1>3 DEF Untouched, Shares
<1> QED
  BY <1>1, <1>4, <1>5, <1>6, <1>7, <1>8, <1>9, <1>10, <1>11, Together DEF Fits

LEMMA SettleKeeps == ASSUME IInv, NEW c \in Calls, Settle(c) PROVE IInv'
<1> USE DEF Typed
<1>1. UNCHANGED <<exposes, sent, attempt, answer, shared, iterator, cancelled, pulled, outcome, ran, clash>>
  BY DEF Settle, client
<1>2. /\ Typed /\ SharedFits /\ Fits(c) /\ phase[c] = "answered" /\ Answering(c, answer[c])
      /\ phase' = [phase EXCEPT ![c] = "settled"]
  BY DEF IInv, Settle
<1>3. phase'[c] = "settled" /\ \A d \in Calls \ {c} : phase'[d] = phase[d]
  BY <1>2
<1>4. /\ replies' = [d \in Calls |-> replies'[d]] /\ \A d \in Calls : IsSeq(replies'[d])
      /\ \A d \in Calls \ {c} : replies'[d] = replies[d]
  BY <1>2, AnsweringFits
<1>5. /\ Len(replies[c]) = 0 /\ pulled[c] = 0
      /\ answer[c].is \in {"result", "error"} /\ answer[c].call = c /\ Sayable(c, answer[c])
      /\ Streaming(c) => answer[c].is = "error"
  <2>1. Len(replies[c]) = 0
    BY <1>2 DEF Fits, RepliesFit
  <2>2. pulled[c] = 0
    BY <1>2, <2>1 DEF Fits, ReadsFit
  <2>3. /\ answer[c].is \in {"result", "error"} /\ Sayable(c, answer[c])
        /\ Streaming(c) => answer[c].is = "error"
    BY <1>2 DEF Fits, AnswerFits
  <2>4. answer[c].call = c
    <3>1. NoReply.is = "none"
      BY DEF NoReply
    <3> QED
      BY <1>2, <2>3, <3>1 DEF Fits, AnswerFits
  <2> QED
    BY <2>1, <2>2, <2>3, <2>4
<1>6. Typed'
  BY <1>1, <1>2, <1>4 DEF Phases
<1>7. RanFits' /\ SharedFits'
  BY <1>1, Fixed DEF IInv, RanFits, SharedFits
<1>8. RunsFit(c)'
  BY <1>1, <1>2, <1>3, Fixed DEF Fits, RunsFit
<1>9. AnswerFits(c)'
  BY <1>1, <1>2, <1>3, Fixed DEF Fits, AnswerFits, Sayable
<1>10. RepliesFit(c)'
  <2>1. ReplyFits(c, answer[c], 1, 1)' /\ Final(c, answer[c])
    BY <1>1, <1>3, <1>5, Fixed DEF ReplyFits, Sayable, Final
  <2> QED
    BY <1>1, <1>2, <1>3, <1>5, <2>1, OnlyReply
<1>11. ReadsFit(c)'
  <2>1. Len(replies'[c]) \in Nat
    BY <1>4, LenIsNat
  <2> QED
    BY <1>1, <1>2, <1>3, <1>5, <2>1, Fixed DEF Fits, ReadsFit, IteratorFits
<1>12. IteratorFits(c)'
  BY <1>1, <1>2, <1>3 DEF Fits, IteratorFits
<1>13. \A d \in Calls \ {c} : Untouched(d) /\ Shares(d)
  BY <1>1, <1>3, <1>4 DEF Untouched, Shares
<1> QED
  BY <1>1, <1>6, <1>7, <1>8, <1>9, <1>10, <1>11, <1>12, <1>13, Together DEF Fits

LEMMA ClimbKeeps == ASSUME IInv, NEW c \in Calls, Climb(c) PROVE IInv'
<1> USE DEF Typed
<1>1. UNCHANGED <<exposes, sent, answer, shared, iterator, cancelled, pulled, outcome, ran>>
  BY DEF Climb, client
<1>2. /\ Typed /\ SharedFits /\ Fits(c) /\ phase[c] = "failed" /\ Len(replies[c]) = 0 /\ ~Refused(c)
      /\ pulled[c] = 0 /\ attempt[c] \in 0..MaxRetries
  <2>1. Typed /\ SharedFits /\ Fits(c) /\ phase[c] = "failed"
    BY DEF IInv, Climb
  <2>2. Len(replies[c]) = 0 /\ ~Refused(c)
    BY <2>1 DEF Fits, RepliesFit, RunsFit
  <2> QED
    BY <2>1, <2>2 DEF Fits, ReadsFit
<1>3. CASE cancelled[c] /\ phase' = [phase EXCEPT ![c] = "settled"] /\ UNCHANGED <<attempt, clash, replies>>
  <2>1. phase'[c] = "settled" /\ \A d \in Calls \ {c} : phase'[d] = phase[d]
    BY <1>2, <1>3
  <2>2. Typed'
    BY <1>1, <1>2, <1>3 DEF Phases
  <2>3. RanFits' /\ SharedFits'
    BY <1>1, <1>3, Fixed DEF IInv, RanFits, SharedFits
  <2>4. RunsFit(c)'
    BY <1>1, <1>2, <1>3, <2>1, Fixed DEF Fits, RunsFit
  <2>5. AnswerFits(c)'
    BY <1>1, <1>2, <1>3, <2>1, Fixed DEF Fits, AnswerFits, Sayable
  <2>6. RepliesFit(c)'
    BY <1>1, <1>2, <1>3, <2>1, BoundAssumption DEF RepliesFit
  <2>7. ReadsFit(c)' /\ IteratorFits(c)'
    BY <1>1, <1>2, <1>3, <2>1, Fixed DEF Fits, ReadsFit, IteratorFits
  <2>8. \A d \in Calls \ {c} : Untouched(d) /\ Shares(d)
    BY <1>1, <1>3, <2>1 DEF Untouched, Shares
  <2> QED
    BY <1>1, <2>2, <2>3, <2>4, <2>5, <2>6, <2>7, <2>8, Together DEF Fits
<1>4. CASE /\ attempt[c] < MaxRetries
           /\ attempt' = [attempt EXCEPT ![c] = @ + 1]
           /\ phase' = [phase EXCEPT ![c] = "queued"]
           /\ clash' = clash \ {c}
           /\ UNCHANGED replies
  <2>1. /\ phase'[c] = "queued" /\ attempt'[c] = attempt[c] + 1 /\ attempt'[c] \in 0..MaxRetries
        /\ \A d \in Calls \ {c} : phase'[d] = phase[d] /\ attempt'[d] = attempt[d]
    <3>1. attempt \in [Calls -> 0..MaxRetries] /\ DOMAIN phase = Calls
      BY <1>2
    <3>2. /\ attempt'[c] = attempt[c] + 1
          /\ \A d \in Calls \ {c} : attempt'[d] = attempt[d]
      BY <1>4, <3>1
    <3>3. phase'[c] = "queued" /\ \A d \in Calls \ {c} : phase'[d] = phase[d]
      BY <1>4, <3>1
    <3>4. attempt'[c] \in 0..MaxRetries
      BY <1>4, <3>1, <3>2, BoundAssumption
    <3> QED
      BY <3>2, <3>3, <3>4
  <2>2. Typed'
    BY <1>1, <1>2, <1>4, <2>1 DEF Phases
  <2>3. RanFits'
    <3>1. \A d \in Calls : attempt[d] \in Nat /\ attempt'[d] \in Nat /\ attempt[d] <= attempt'[d]
      BY <1>2, <2>1, BoundAssumption, SMTT(30)
    <3> QED
      BY <1>1, <3>1, Fixed DEF IInv, RanFits
  <2>4. SharedFits'
    BY <1>1, <1>2 DEF SharedFits
  <2>5. RunsFit(c)'
    <3>1. \A i \in 0..attempt[c] : [call |-> c, attempt |-> i] \in ran
      BY <1>2 DEF Fits, RunsFit
    <3>2. \A i \in 0..attempt'[c] : i < attempt'[c] => i \in 0..attempt[c]
      BY <1>2, <2>1, BoundAssumption
    <3>3. sent[c].by = "proxy" => sent[c].fits /\ Contract(Service, sent[c].knows) # <<>>
      BY <1>2 DEF Fits, RunsFit
    <3> QED
      BY <1>1, <1>2, <2>1, <3>1, <3>2, <3>3, Fixed DEF RunsFit
  <2>6. AnswerFits(c)'
    BY <1>1, <1>2, <2>1, Fixed DEF Fits, AnswerFits, Sayable
  <2>7. RepliesFit(c)'
    BY <1>1, <1>2, <1>4, <2>1, BoundAssumption DEF RepliesFit
  <2>8. ReadsFit(c)' /\ IteratorFits(c)'
    BY <1>1, <1>2, <1>4, <2>1, Fixed DEF Fits, ReadsFit, IteratorFits
  <2>9. \A d \in Calls \ {c} : Untouched(d) /\ Shares(d)
    BY <1>1, <1>4, <2>1 DEF Untouched, Shares
  <2> QED
    BY <1>1, <2>2, <2>3, <2>4, <2>5, <2>6, <2>7, <2>8, <2>9, Together DEF Fits
<1>5. CASE /\ ~(attempt[c] < MaxRetries) /\ UNCHANGED <<attempt, clash>>
           /\ phase' = [phase EXCEPT ![c] = "dead"]
           /\ CASE answer[c].is = "none" -> UNCHANGED replies
                [] answer[c].is = "shared" -> Answering(c, shared)
                [] OTHER -> Answering(c, answer[c])
  <2>1. phase'[c] = "dead" /\ \A d \in Calls \ {c} : phase'[d] = phase[d]
    BY <1>2, <1>5
  <2>2. attempt[c] = MaxRetries
    BY <1>2, <1>5, BoundAssumption
  <2>3. RanFits' /\ SharedFits'
    BY <1>1, <1>5, Fixed DEF IInv, RanFits, SharedFits
  <2>4. RunsFit(c)'
    BY <1>1, <1>2, <1>5, <2>1, <2>2, Fixed DEF Fits, RunsFit
  <2>5. AnswerFits(c)'
    BY <1>1, <1>2, <1>5, <2>1, Fixed DEF Fits, AnswerFits, Sayable
  <2>6. IteratorFits(c)'
    BY <1>1, <1>2, <2>1 DEF Fits, IteratorFits
  <2>7. CASE UNCHANGED replies /\ answer[c].is = "none"
    <3>1. answer[c] = NoReply
      BY <1>2, <2>7 DEF Fits, AnswerFits
    <3>2. Typed'
      BY <1>1, <1>2, <1>5, <2>7 DEF Phases
    <3>3. RepliesFit(c)'
      BY <1>1, <1>2, <2>1, <2>7, <3>1, BoundAssumption DEF RepliesFit
    <3>4. ReadsFit(c)'
      BY <1>1, <1>2, <2>1, <2>7, Fixed DEF Fits, ReadsFit, IteratorFits
    <3>5. \A d \in Calls \ {c} : Untouched(d) /\ Shares(d)
      BY <1>1, <1>5, <2>1, <2>7 DEF Untouched, Shares
    <3> QED
      BY <1>1, <2>3, <2>4, <2>5, <2>6, <3>2, <3>3, <3>4, <3>5, Together DEF Fits
  <2>8. ASSUME NEW r, Answering(c, r), r.is = "error", Sayable(c, r), r.call # c => c \in clash
        PROVE  IInv'
    <3>1. /\ replies' = [d \in Calls |-> replies'[d]] /\ \A d \in Calls : IsSeq(replies'[d])
          /\ \A d \in Calls \ {c} : replies'[d] = replies[d]
      BY <1>2, <2>8, AnsweringFits
    <3>2. Typed'
      BY <1>1, <1>2, <1>5, <3>1 DEF Phases
    <3>3. RepliesFit(c)'
      <4>1. ReplyFits(c, r, 1, 1)' /\ Final(c, r)
        BY <1>1, <1>5, <2>1, <2>8, Fixed DEF ReplyFits, Sayable, Final
      <4> QED
        BY <1>1, <1>2, <2>1, <2>8, <4>1, OnlyReply
    <3>4. ReadsFit(c)'
      <4>1. Len(replies'[c]) \in Nat
        BY <3>1, LenIsNat
      <4> QED
        BY <1>1, <1>2, <2>1, <4>1, Fixed DEF Fits, ReadsFit, IteratorFits
    <3>5. \A d \in Calls \ {c} : Untouched(d) /\ Shares(d)
      BY <1>1, <1>5, <2>1, <3>1 DEF Untouched, Shares
    <3> QED
      BY <1>1, <2>3, <2>4, <2>5, <2>6, <3>2, <3>3, <3>4, <3>5, Together DEF Fits
  <2>9. CASE Answering(c, shared) /\ answer[c].is = "shared"
    <3>1. shared.is = "error" /\ (shared.call # c => c \in clash)
      BY <1>2, <2>9 DEF Fits, AnswerFits
    <3>2. Sayable(c, shared)
      BY <1>2 DEF SharedFits, Sayable
    <3> QED
      BY <2>8, <2>9, <3>1, <3>2
  <2>10. CASE Answering(c, answer[c]) /\ answer[c].is \notin {"none", "shared"}
    <3>1. NoReply.is = "none"
      BY DEF NoReply
    <3>2. answer[c].is = "error" /\ answer[c].call = c /\ Sayable(c, answer[c])
      BY <1>2, <2>10, <3>1 DEF Fits, AnswerFits
    <3> QED
      BY <2>8, <2>10, <3>2
  <2> QED
    BY <1>5, <2>7, <2>9, <2>10
<1> QED
  BY <1>3, <1>4, <1>5 DEF Climb

--------------------------------------------------------------------------------
(* All steps. *)

LEMMA InitHolds == Init => IInv
<1> SUFFICES ASSUME Init PROVE IInv
  OBVIOUS
<1>1. sent \in [Calls -> Requests]
  <2>1. \A c \in Calls : sent[c] \in Requests
    BY SendsAssumption DEF Init
  <2> QED
    BY <2>1 DEF Init
<1>2. <<>> \in Seq({}) /\ Len(<<>>) = 0
  OBVIOUS
<1>3. \A c \in Calls : replies[c] = <<>> /\ IsSeq(replies[c])
  BY <1>2 DEF Init, IsSeq
<1>4. Typed
  BY <1>1, <1>3, BoundAssumption DEF Init, Typed, Phases, Outcomes
<1>5. NoReply.is = "none" /\ NoReply.code = "" /\ NoReply.text = ""
  BY DEF NoReply
<1>6. RanFits /\ SharedFits
  BY <1>5 DEF Init, RanFits, SharedFits
<1>7. ASSUME NEW c \in Calls PROVE Fits(c)
  <2>1. /\ phase[c] = "caller" /\ attempt[c] = 0 /\ answer[c] = NoReply /\ iterator[c] = "none"
        /\ cancelled[c] = FALSE /\ Len(replies[c]) = 0 /\ pulled[c] = 0 /\ outcome[c] = "none"
    BY <1>2, <1>3 DEF Init
  <2>2. RunsFit(c)
    BY <2>1 DEF RunsFit
  <2>3. AnswerFits(c)
    BY <1>5, <2>1 DEF AnswerFits, Sayable
  <2>4. RepliesFit(c)
    BY <2>1, BoundAssumption DEF RepliesFit
  <2>5. ReadsFit(c) /\ IteratorFits(c)
    BY <2>1 DEF ReadsFit, IteratorFits
  <2> QED
    BY <2>2, <2>3, <2>4, <2>5 DEF Fits
<1> QED
  BY <1>4, <1>6, <1>7 DEF IInv

LEMMA StutterKeeps == ASSUME IInv, UNCHANGED vars PROVE IInv'
<1>1. UNCHANGED <<exposes, sent, phase, attempt, answer, shared, iterator, cancelled, replies,
                  pulled, outcome, ran, clash>>
  BY DEF vars
<1>2. Typed' /\ RanFits' /\ SharedFits'
  BY <1>1, Fixed DEF IInv, Typed, RanFits, SharedFits
<1>3. \A d \in Calls : Fits(d)'
  BY <1>1, Elsewhere DEF IInv, Untouched, Shares
<1> QED
  BY <1>2, <1>3 DEF IInv

LEMMA NextKeeps == IInv /\ [Next]_vars => IInv'
<1> SUFFICES ASSUME IInv, [Next]_vars PROVE IInv'
  OBVIOUS
<1>1. CASE UNCHANGED vars
  BY <1>1, StutterKeeps
<1>2. ASSUME NEW c \in Calls, Call(c) \/ Read(c) \/ Close(c) PROVE IInv'
  BY <1>2, CallKeeps, ReadKeeps, CloseKeeps
<1>3. ASSUME NEW c \in Calls, Deliver(c) \/ Return(c) \/ ReturnStream(c) \/ Raise(c) \/ TimeOut(c)
      PROVE  IInv'
  BY <1>3, DeliverKeeps, ReturnKeeps, ReturnStreamKeeps, RaiseKeeps, TimeOutKeeps
<1>4. ASSUME NEW c \in Calls, Yield(c) \/ StopStream(c) \/ Settle(c) \/ Climb(c) PROVE IInv'
  BY <1>4, YieldKeeps, StopStreamKeeps, SettleKeeps, ClimbKeeps
<1> QED
  BY <1>1, <1>2, <1>3, <1>4 DEF Next

LEMMA InvHolds == Spec => []IInv
  BY InitHolds, NextKeeps, PTL DEF Spec

--------------------------------------------------------------------------------
(* Names. *)

\* A set of naturals with a bound has a greatest one.
LEMMA HasGreatest ==
  ASSUME NEW n \in Nat, NEW T \in SUBSET (0..n), T # {}
  PROVE  \E m \in T : \A k \in T : k <= m
<1> DEFINE R == {p \in Nat \X Nat : p[1] < p[2]}
           Left == {n - k : k \in T}
<1>1. IsWellFoundedOn(R, Nat)
  BY NatLessThanWellFounded DEF OpToRel
<1>2. Left \subseteq Nat /\ Left # {}
  <2>1. \A k \in T : k \in Nat /\ n - k \in Nat
    OBVIOUS
  <2> QED
    BY <2>1
<1> HIDE DEF R
<1>3. PICK x \in Left : \A y \in Left : ~(<<y, x>> \in R)
  BY <1>1, <1>2, WFMin
<1>4. \A y \in Left : ~(y < x)
  BY <1>2, <1>3 DEF R
<1>5. PICK m \in T : x = n - m
  OBVIOUS
<1>6. ASSUME NEW k \in T PROVE k <= m
  <2>1. n - k \in Left
    OBVIOUS
  <2>2. ~(n - k < n - m)
    BY <1>4, <1>5, <2>1
  <2> QED
    BY <2>2
<1> QED
  BY <1>6

\* The contract is a prefix of the name, if there is one.
LEMMA ContractIsPrefix ==
  ASSUME NEW name \in Seq(STRING), NEW known, Contract(name, known) # <<>>
  PROVE  Contract(name, known) \in Seq(STRING) /\ Len(Contract(name, known)) > 0
<1> DEFINE matches == {n \in 1..Len(name) : SubSeq(name, 1, n) \in known}
           best == CHOOSE n \in matches : \A k \in matches : k <= n
<1>1. matches # {} /\ Contract(name, known) = SubSeq(name, 1, best)
  BY DEF Contract
<1>2. Len(name) \in Nat /\ matches \in SUBSET (0..Len(name))
  OBVIOUS
<1> HIDE DEF matches
<1>3. \E m \in matches : \A k \in matches : k <= m
  BY <1>1, <1>2, HasGreatest
<1>4. best \in matches
  BY <1>3
<1>5. best \in 1..Len(name)
  BY <1>4 DEF matches
<1> HIDE DEF best
<1>6. \A i \in 1..best : name[i] \in STRING
  BY <1>2, <1>5
<1>7. SubSeq(name, 1, best) \in Seq(STRING) /\ Len(SubSeq(name, 1, best)) = best
  BY <1>5, <1>6, SubSeqProperties
<1> QED
  BY <1>1, <1>5, <1>7

\* A name of one segment.
LEMMA OneSegment ==
  ASSUME NEW S, NEW m \in S
  PROVE  <<m>> \in Seq(S) /\ Len(<<m>>) = 1 /\ <<m>>[1] = m
<1>1. <<>> \in Seq(S) /\ Len(<<>>) = 0
  OBVIOUS
<1>2. <<m>> = Append(<<>>, m)
  OBVIOUS
<1> QED
  BY <1>1, <1>2, AppendProperties

\* One segment more, and off again.
LEMMA LastSegment ==
  ASSUME NEW S, NEW name \in Seq(S), NEW m \in S
  PROVE  LET full == name \o <<m>>
         IN  /\ full # <<>> /\ Len(full) = Len(name) + 1
             /\ Method(full) = m /\ Parent(full) = name
<1> DEFINE last == <<m>>
           full == name \o last
<1>1. last \in Seq(S) /\ Len(last) = 1 /\ last[1] = m /\ Len(name) \in Nat
  BY OneSegment, LenProperties
<1> HIDE DEF last
<1>2. /\ full \in Seq(S) /\ Len(full) = Len(name) + Len(last)
      /\ \A i \in 1..(Len(name) + Len(last)) :
           full[i] = IF i <= Len(name) THEN name[i] ELSE last[i - Len(name)]
  BY <1>1, ConcatProperties
<1> HIDE DEF full
<1>3. Len(full) = Len(name) + 1
  BY <1>1, <1>2
<1>4. full[Len(name) + 1] = m
  <2>1. Len(name) + 1 \in 1..(Len(name) + Len(last)) /\ (Len(name) + 1) - Len(name) = 1
        /\ ~(Len(name) + 1 <= Len(name))
    BY <1>1
  <2>2. full[Len(name) + 1] = last[(Len(name) + 1) - Len(name)]
    BY <1>2, <2>1
  <2> QED
    BY <1>1, <2>1, <2>2
<1>5. \A i \in 1..Len(name) : full[i] = name[i]
  <2>1. \A i \in 1..Len(name) : i \in 1..(Len(name) + Len(last)) /\ i <= Len(name)
    BY <1>1
  <2> QED
    BY <1>2, <2>1
<1>6. Method(full) = m
  BY <1>3, <1>4 DEF Method
<1>7. Parent(full) = name
  <2>1. Parent(full) = SubSeq(full, 1, Len(name))
    BY <1>1, <1>3 DEF Parent
  <2>2. \A i \in 1..Len(name) : full[i] \in S
    BY <1>1, <1>5, LenProperties
  <2>3. /\ SubSeq(full, 1, Len(name)) \in Seq(S) /\ Len(SubSeq(full, 1, Len(name))) = Len(name)
        /\ \A i \in 1..Len(name) : SubSeq(full, 1, Len(name))[i] = full[i]
    BY <1>1, <2>2, SubSeqProperties
  <2> QED
    BY <1>5, <2>1, <2>3, SeqEqual
<1>8. full # <<>>
  BY <1>1, <1>3
<1> QED
  BY <1>3, <1>6, <1>7, <1>8 DEF full, last

\* A proxy that resolves the server's contract addresses what the server serves.
LEMMA ProxyIsAccepted ==
  ASSUME NEW c \in Calls, sent[c] \in Requests, sent[c].by = "proxy", sent[c].fits,
         Contract(Service, sent[c].knows) = Serves, Serves # <<>>, sent[c].method \in Own
  PROVE  ~Refused(c)
<1> DEFINE m == sent[c].method
           prefix == <<"REQUEST">> \o Service
           Words == STRING \cup {"REQUEST"}
<1>1. m \in Declared /\ m \in STRING
  BY SchemaAssumption DEF Requests
<1>2. Service \in Seq(STRING) /\ Serves \in Seq(STRING) /\ Len(Serves) > 0 /\ Len(Serves) \in Nat
  BY SchemaAssumption, ContractIsPrefix DEF Serves
<1>3. Key(c) = prefix \o <<m>> /\ Envelope(c) = Serves \o <<m>>
  BY <1>2 DEF Key, Envelope, Message
<1>4. prefix \in Seq(Words) /\ Len(prefix) = Len(Service) + 1 /\ Len(Service) \in Nat
  <2>1. <<"REQUEST">> \in Seq(Words) /\ Len(<<"REQUEST">>) = 1 /\ Len(Service) \in Nat
    BY <1>2, OneSegment, LenProperties
  <2>2. Service \in Seq(Words)
    BY <1>2
  <2> QED
    BY <2>1, <2>2, ConcatProperties
<1> HIDE DEF prefix, m
<1>5. /\ Len(Key(c)) = Len(Service) + 2 /\ Method(Key(c)) = m /\ Parent(Key(c)) = prefix
  <2>1. m \in Words
    BY <1>1
  <2> HIDE DEF Words
  <2> QED
    BY <1>3, <1>4, <2>1, LastSegment
<1>6. /\ Envelope(c) # <<>> /\ Len(Envelope(c)) = Len(Serves) + 1
      /\ Method(Envelope(c)) = m /\ Parent(Envelope(c)) = Serves
  BY <1>1, <1>2, <1>3, LastSegment
<1>7. IsPrefix(prefix, Key(c))
  <2>1. SubSeq(Key(c), 1, Len(prefix)) = prefix
    BY <1>4, <1>5 DEF Parent
  <2>2. SubSeq(prefix, 1, Len(prefix)) = prefix
    BY <1>4, SubSeqFull
  <2> QED
    BY <1>4, <1>5, <2>1, <2>2 DEF IsPrefix
<1> QED
  BY <1>1, <1>2, <1>4, <1>5, <1>6, <1>7 DEF Refused, Rejection, Garbage, prefix, m

\* A request that is not refused passed every check.
LEMMA AcceptedPasses ==
  ASSUME NEW c \in Calls, ~Refused(c)
  PROVE  /\ IsPrefix(<<"REQUEST">> \o Service, Key(c))
         /\ Method(Key(c)) = Method(Envelope(c))
         /\ Method(Key(c)) \in Declared \cap Own
<1>1. NoReply.is = "none"
  BY DEF NoReply
<1>2. \A m : Failure(c, m, "PROTOCOL_ERROR", "rejected").is = "error"
  BY DEF Failure
<1>3. \A m : Failure(c, m, "PROTOCOL_ERROR", "rejected") # NoReply
  BY <1>1, <1>2
<1> QED
  BY <1>3 DEF Refused, Rejection

--------------------------------------------------------------------------------
(* The theorems. *)

\* A request that a proxy or a raw publisher sends is run only if its routing key
\* names this service and its method, is run again only after a failure, at most
\* max_retries times, and is refused only for cause (_on_message: checks before
\* the handler; consume's ladder).
THEOREM HandlersEarnTheirRun == Spec => []HandlersAreEntitled
<1>1. IInv => RunsWhatTheKeyAllows
  BY AcceptedPasses DEF IInv, RanFits, RunsWhatTheKeyAllows
<1>2. IInv => OnlyFailuresAreRetried
  <2> SUFFICES ASSUME IInv, NEW c \in Calls
               PROVE  /\ ProtocolErrors(c) # {} => attempt[c] = 0 /\ {r \in ran : r.call = c} = {}
                      /\ phase[c] = "dead" => Cardinality({r \in ran : r.call = c}) = MaxRetries + 1
                                               /\ answer[c].code # "HANDLED_ERROR"
    BY DEF OnlyFailuresAreRetried
  <2>1. Fits(c) /\ RanFits
    BY DEF IInv
  <2>2. ProtocolErrors(c) # {} => Refused(c)
    BY <2>1 DEF ProtocolErrors, Fits, RepliesFit, ReplyFits, Sayable
  <2>3. Refused(c) => attempt[c] = 0 /\ {r \in ran : r.call = c} = {}
    BY <2>1 DEF Fits, RunsFit, RanFits
  <2>4. ASSUME phase[c] = "dead"
        PROVE  Cardinality({r \in ran : r.call = c}) = MaxRetries + 1
    <3> DEFINE Runs == {r \in ran : r.call = c}
               f == [i \in 0..MaxRetries |-> [call |-> c, attempt |-> i]]
    <3>1. attempt[c] = MaxRetries /\ \A i \in 0..MaxRetries : [call |-> c, attempt |-> i] \in ran
      BY <2>1, <2>4 DEF Fits, RunsFit
    <3>2. \A r \in Runs : r.attempt \in 0..MaxRetries /\ r = [call |-> c, attempt |-> r.attempt]
      BY <2>1, <3>1 DEF RanFits
    <3>3. f \in Bijection(0..MaxRetries, Runs)
      <4>1. f \in [0..MaxRetries -> Runs]
        BY <3>1
      <4>2. \A i, j \in 0..MaxRetries : f[i] = f[j] => i = j
        <5> SUFFICES ASSUME NEW i \in 0..MaxRetries, NEW j \in 0..MaxRetries, f[i] = f[j]
                     PROVE  i = j
          OBVIOUS
        <5>1. f[i].attempt = i /\ f[j].attempt = j
          OBVIOUS
        <5> QED
          BY <5>1
      <4>3. \A r \in Runs : f[r.attempt] = r
        BY <3>2
      <4> QED
        BY <3>2, <4>1, <4>2, <4>3 DEF Bijection, Injection, IsInjective, Surjection
    <3>4. IsFiniteSet(0..MaxRetries) /\ Cardinality(0..MaxRetries) = MaxRetries + 1
      BY BoundAssumption, FS_Interval
    <3>5. ExistsBijection(0..MaxRetries, Runs)
      BY <3>3 DEF ExistsBijection
    <3> HIDE DEF Runs
    <3>6. Cardinality(Runs) = MaxRetries + 1
      BY <3>4, <3>5, FS_Bijection
    <3> QED
      BY <3>6 DEF Runs
  <2>5. phase[c] = "dead" => answer[c].code # "HANDLED_ERROR"
    BY <2>1 DEF Fits, AnswerFits
  <2> QED
    BY <2>2, <2>3, <2>4, <2>5
<1>3. IInv => ProxiesAreUnderstood
  <2> SUFFICES ASSUME IInv, NEW c \in Calls, sent[c].by = "proxy", sent[c].method \in Own,
                      Contract(Service, sent[c].knows) = Serves, ProtocolErrors(c) # {}
               PROVE  FALSE
    BY DEF ProxiesAreUnderstood
  <2>1. Fits(c) /\ sent[c] \in Requests
    BY DEF IInv, Typed
  <2>2. Refused(c)
    BY <2>1 DEF ProtocolErrors, Fits, RepliesFit, ReplyFits, Sayable
  <2>3. phase[c] # "caller"
    <3>1. PICK i \in 1..Len(replies[c]) : TRUE
      BY DEF ProtocolErrors
    <3>2. Len(replies[c]) # 0
      BY <3>1
    <3> QED
      BY <2>1, <3>2 DEF Fits, RepliesFit
  <2>4. sent[c].fits /\ Serves # <<>>
    BY <2>1, <2>3 DEF Fits, RunsFit
  <2> QED
    BY <2>1, <2>2, <2>4, ProxyIsAccepted
<1>4. IInv => HandlersAreEntitled
  BY <1>1, <1>2, <1>3 DEF HandlersAreEntitled
<1> QED
  BY <1>4, InvHolds, PTL

\* Every request gets one last word, about itself, and every iterator is released,
\* but for the cases named: whatever a handler does, and however often it is tried
\* (_on_message, _stream_responses, the answer an exception carries up the ladder).
THEOREM CallsAreWoundUp == Spec => []EveryCallIsWoundUp
<1>1. IInv => TypeOK
  <2> SUFFICES ASSUME IInv PROVE TypeOK
    OBVIOUS
  <2>1. Typed /\ RanFits /\ SharedFits /\ \A c \in Calls : Fits(c)
    BY DEF IInv
  <2>2. \A c \in Calls : answer[c].is \in {"none", "result", "error", "shared"}
    <3>1. NoReply.is = "none"
      BY DEF NoReply
    <3> QED
      BY <2>1, <3>1 DEF Fits, AnswerFits
  <2>3. \A c \in Calls : Len(replies[c]) <= MaxChunks + 1 /\ pulled[c] \in 0..Len(replies[c])
    BY <2>1 DEF Fits, RepliesFit, ReadsFit
  <2>4. \A r \in ran : r.call \in Calls /\ r.attempt \in 0..MaxRetries
    BY <2>1, BoundAssumption DEF RanFits, Typed
  <2> QED
    BY <2>1, <2>2, <2>3, <2>4 DEF TypeOK, Typed, SharedFits
<1>2. IInv => AnsweredOnce
  <2> SUFFICES ASSUME IInv, NEW c \in Calls
               PROVE  LET final == {i \in 1..Len(replies[c]) : Final(c, replies[c][i])}
                      IN  /\ Cardinality(final) <= 1
                          /\ Finished(c) /\ sent[c].rpc
                             /\ ~(Streaming(c) /\ outcome[c] \in {"closed", "InvalidResponseError"}) =>
                               Cardinality(final) = 1 \/ (phase[c] = "dead" /\ answer[c] = NoReply)
                          /\ \A i \in 1..Len(replies[c]) : replies[c][i].call # c => c \in clash
    BY DEF AnsweredOnce, Final
  <2> DEFINE n == Len(replies[c])
             final == {i \in 1..n : Final(c, replies[c][i])}
  <2>1. Typed /\ Fits(c) /\ n \in Nat
    BY LenIsNat DEF IInv, Typed
  <2>2. \A i \in 1..n : ReplyFits(c, replies[c][i], i, n)
    BY <2>1 DEF Fits, RepliesFit
  <2>3. \A i \in final : i = n
    <3>1. \A i \in 1..n : Final(c, replies[c][i]) => ~(i < n)
      BY <2>2 DEF ReplyFits, Final
    <3> QED
      BY <2>1, <3>1
  <2>4. final = {} \/ final = {n}
    BY <2>3
  <2>5. n > 0 /\ Final(c, replies[c][n]) => final = {n}
    BY <2>1, <2>4
  <2>6. ASSUME Finished(c), sent[c].rpc, ~(phase[c] = "dead" /\ answer[c] = NoReply),
               ~(Streaming(c) /\ outcome[c] \in {"closed", "InvalidResponseError"})
        PROVE  n > 0 /\ Final(c, replies[c][n])
    <3>1. ~cancelled[c]
      BY <2>1, <2>6 DEF Fits, ReadsFit
    <3>2. CASE phase[c] = "settled"
      BY <2>1, <2>6, <3>1, <3>2 DEF Fits, RepliesFit
    <3>3. CASE phase[c] = "dead"
      <4>1. n > 0
        BY <2>1, <2>6, <3>3 DEF Fits, RepliesFit
      <4>2. n \in 1..n
        BY <2>1, <4>1
      <4>3. replies[c][n].is = "error"
        BY <2>2, <3>3, <4>2 DEF ReplyFits
      <4> QED
        BY <4>1, <4>3 DEF Final
    <3> QED
      BY <2>6, <3>2, <3>3 DEF Finished
  <2>7. \A i \in 1..n : replies[c][i].call # c => c \in clash
    BY <2>2 DEF ReplyFits
  <2>8. Cardinality({n}) = 1 /\ Cardinality({}) = 0
    BY FS_Singleton, FS_EmptySet
  <2> HIDE DEF final, n
  <2>9. Cardinality(final) <= 1
    BY <2>4, <2>8
  <2>10. Finished(c) /\ sent[c].rpc
         /\ ~(Streaming(c) /\ outcome[c] \in {"closed", "InvalidResponseError"}) =>
           Cardinality(final) = 1 \/ (phase[c] = "dead" /\ answer[c] = NoReply)
    BY <2>5, <2>6, <2>8
  <2> QED
    BY <2>7, <2>9, <2>10 DEF final, n
<1>3. IInv => IteratorsAreReleased
  BY DEF IInv, Fits, IteratorFits, IteratorsAreReleased, Finished
<1>4. IInv => EveryCallIsWoundUp
  BY <1>1, <1>2, <1>3 DEF EveryCallIsWoundUp
<1> QED
  BY <1>4, InvHolds, PTL

\* What a caller is told is its own result, read to the end of its stream, and
\* nothing internal is told to anybody unless it is configured to
\* (StreamingCall.__anext__, _unwrap, sanitize_error_for_client).
THEOREM AnswersStaySound == Spec => []AnswersAreSound
<1>1. IInv => ToldTheTruth
  BY DEF IInv, Fits, ReadsFit, ToldTheTruth
<1>2. IInv => NothingInternalCrosses
  BY DEF IInv, Fits, RepliesFit, ReplyFits, Sayable, NothingInternalCrosses
<1>3. IInv => AnswersAreSound
  BY <1>1, <1>2 DEF AnswersAreSound
<1> QED
  BY <1>3, InvHolds, PTL

================================================================================
