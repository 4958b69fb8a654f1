-------------------------- MODULE StreamingReply_proofs --------------------------
(***************************************************************************)
(* Theorems about StreamingReply, for any calls, length of stream, buffer   *)
(* bounds and number of faults.                                             *)
(*                                                                          *)
(* A call is one record and a handler an operator on it, and so are the     *)
(* invariant and its proof: what holds of a record that a call can be in,   *)
(* and of each handler that it leaves such a record.                        *)
(***************************************************************************)
EXTENDS StreamingReply, SequenceTheorems, FiniteSetTheorems, NaturalsInduction,
        WellFoundedInduction, TLAPS

(***************************************************************************)
(* The inductive invariant, of one call.                                    *)
(***************************************************************************)

\* Cancelling releases, and what is released holds nothing.
Holds(k) ==
  /\ k.cancelled => k.released
  /\ k.released => ~k.registered /\ k.chunks = <<>> /\ ~k.idle
  /\ k.registered /\ ~k.ended => k.idle

\* How far along the stream a call is: what was given and what is buffered.
Given(k) == Len(k.got)
Buffered(k) == Len(k.chunks)
Reach(k) == Given(k) + Buffered(k)

\* What was given and what is buffered are one run of the stream, from its start.
Runs(k) ==
  /\ InTurn(k.got)
  /\ \A i \in 1..Buffered(k) : k.chunks[i] = Given(k) + i - 1
  /\ Reach(k) <= k.next

\* While the call takes chunks, the run ends where the next chunk is expected.
Continues(k) == k.registered => Reach(k) = k.next

\* An end that is nobody's error and nobody's wish is the end of the stream.
Ends(k) ==
  /\ k.over # "no" => k.pull = "idle"
  /\ k.over = "ended" => k.ended /\ k.error = "none" /\ k.released
  /\ k.over \in {"no", "ended"} /\ k.ended /\ k.error = "none" /\ ~k.cancelled /\ k.pub # "none" =>
       Reach(k) = Last + 1

\* A notice is owed for a cancelled call only, and sent for a settled request.
Notifies(k) ==
  /\ k.notice # "none" => k.cancelled
  /\ k.notice = "sent" => k.pub \in {"sent", "ambiguous"}

\* Core is what the handlers rely on while they are at work, Good what they leave.
Core(k) == k \in Call /\ Holds(k) /\ Runs(k) /\ Ends(k) /\ Notifies(k)
Good(k) == Core(k) /\ Continues(k)

\* What a step may not do to a call: change how it ended, or take its notice back
\* and touch its request after it.
Settles(k, l) ==
  /\ k.released => l.released /\ l.error = k.error
  /\ k.notice = "sent" => l.notice = "sent" /\ l.pub = k.pub

\* Nor does a step of a call unmake it.
Stands(k, l) == Settles(k, l) /\ l.made = k.made

\* One step of a call.
Goes(k, l) == Good(l) /\ Stands(k, l)

\* The inductive invariant.
IInv ==
  /\ call \in [Calls -> Call]
  /\ \A c \in Calls : Good(call[c]) /\ (~call[c].made => call[c] = Unmade)

--------------------------------------------------------------------------------
(* The handlers. *)

USE DEF Unsent, Sending, Settled

LEMMA Counts ==
  ASSUME NEW k \in Call
  PROVE  /\ Given(k) \in Nat /\ Buffered(k) \in Nat /\ Reach(k) \in Nat
         /\ k.chunks = <<>> <=> Buffered(k) = 0
<1>1. Given(k) \in Nat /\ Buffered(k) \in Nat
  <2>1. k.chunks \in Seq(0..Last) /\ k.got \in Seq(0..Last)
    BY DEF Call
  <2> QED
    BY <2>1, LenProperties, Zenon DEF Given, Buffered
<1>2. k.chunks = <<>> <=> Buffered(k) = 0
  <2>1. k.chunks \in Seq(0..Last)
    BY DEF Call
  <2>2. Len(<<>>) = 0 /\ (k.chunks # <<>> => Len(k.chunks) \in Nat \ {0})
    BY <2>1, EmptySeq
  <2> QED
    BY <2>2 DEF Buffered
<1> QED
  BY <1>1, <1>2 DEF Reach

\* The buffer with one more chunk or with one less, and what was given with one more.
Longer(k, n) == Append(k.chunks, n)
Shorter(k) == Tail(k.chunks)
Fuller(k) == Append(k.got, Head(k.chunks))

LEMMA Appends ==
  ASSUME NEW k \in Call, NEW n \in 0..Last, NEW l, l.chunks = Longer(k, n)
  PROVE  /\ Longer(k, n) \in Seq(0..Last)
         /\ Buffered(l) = Buffered(k) + 1
         /\ l.chunks[Buffered(k) + 1] = n
         /\ \A i \in 1..Buffered(k) : l.chunks[i] = k.chunks[i]
<1>1. k.chunks \in Seq(0..Last)
  BY DEF Call
<1>2. /\ Append(k.chunks, n) \in Seq(0..Last)
      /\ Len(Append(k.chunks, n)) = Len(k.chunks) + 1
      /\ Append(k.chunks, n)[Len(k.chunks) + 1] = n
      /\ \A i \in 1..Len(k.chunks) : Append(k.chunks, n)[i] = k.chunks[i]
  <2>1. \A s \in Seq(0..Last) :
          /\ Append(s, n) \in Seq(0..Last) /\ Len(Append(s, n)) = Len(s) + 1
          /\ Append(s, n)[Len(s) + 1] = n /\ \A i \in 1..Len(s) : Append(s, n)[i] = s[i]
    BY AppendProperties
  <2> QED
    BY <1>1, <2>1, Zenon
<1> QED
  BY <1>2, Zenon DEF Buffered, Longer

LEMMA Gives ==
  ASSUME NEW k \in Call, k.chunks # <<>>,
         NEW l, l.got = Fuller(k), l.chunks = Shorter(k)
  PROVE  /\ Fuller(k) \in Seq(0..Last) /\ Shorter(k) \in Seq(0..Last)
         /\ Given(l) = Given(k) + 1 /\ Buffered(l) = Buffered(k) - 1
         /\ l.got[Given(k) + 1] = k.chunks[1]
         /\ \A i \in 1..Given(k) : l.got[i] = k.got[i]
         /\ \A i \in 1..Buffered(l) : l.chunks[i] = k.chunks[i + 1]
<1>1. k.chunks \in Seq(0..Last) /\ k.got \in Seq(0..Last)
  BY DEF Call
<1>2. /\ Tail(k.chunks) \in Seq(0..Last) /\ Len(Tail(k.chunks)) = Len(k.chunks) - 1
      /\ \A i \in 1..Len(Tail(k.chunks)) : Tail(k.chunks)[i] = k.chunks[i + 1]
      /\ Head(k.chunks) \in 0..Last /\ Head(k.chunks) = k.chunks[1]
  <2>1. \A s \in Seq(0..Last) : s # <<>> =>
          /\ Tail(s) \in Seq(0..Last) /\ Len(Tail(s)) = Len(s) - 1
          /\ \A i \in 1..Len(Tail(s)) : Tail(s)[i] = s[i + 1]
          /\ Head(s) \in 0..Last
    BY HeadTailProperties
  <2>2. \A s \in Seq(0..Last) : s # <<>> => Head(s) = s[1]
    OBVIOUS
  <2> QED
    BY <1>1, <2>1, <2>2, Zenon
<1>3. \A n \in 0..Last :
        /\ Append(k.got, n) \in Seq(0..Last) /\ Len(Append(k.got, n)) = Len(k.got) + 1
        /\ Append(k.got, n)[Len(k.got) + 1] = n
        /\ \A i \in 1..Len(k.got) : Append(k.got, n)[i] = k.got[i]
  <2>1. \A s \in Seq(0..Last), n \in 0..Last :
          /\ Append(s, n) \in Seq(0..Last) /\ Len(Append(s, n)) = Len(s) + 1
          /\ Append(s, n)[Len(s) + 1] = n /\ \A i \in 1..Len(s) : Append(s, n)[i] = s[i]
    BY AppendProperties
  <2> QED
    BY <1>1, <2>1, Zenon
<1>4. Given(l) = Given(k) + 1 /\ l.got[Given(k) + 1] = k.chunks[1]
      /\ Fuller(k) \in Seq(0..Last) /\ \A i \in 1..Given(k) : l.got[i] = k.got[i]
  <2>1. /\ Fuller(k) \in Seq(0..Last) /\ Len(Fuller(k)) = Len(k.got) + 1
        /\ Fuller(k)[Len(k.got) + 1] = Head(k.chunks)
        /\ \A i \in 1..Len(k.got) : Fuller(k)[i] = k.got[i]
    BY <1>2, <1>3, Zenon DEF Fuller
  <2> QED
    BY <1>2, <2>1, Zenon DEF Given
<1>5. Buffered(l) = Buffered(k) - 1 /\ Shorter(k) \in Seq(0..Last)
      /\ \A i \in 1..Buffered(l) : l.chunks[i] = k.chunks[i + 1]
  BY <1>2, Zenon DEF Buffered, Shorter
<1> QED
  BY <1>4, <1>5, Zenon

\* Numbers in turn, read by position.
LEMMA TurnOf ==
  ASSUME NEW k
  PROVE  InTurn(k.got) <=> \A i \in 1..Given(k) : k.got[i] = i - 1
  BY Zenon DEF InTurn, Given

\* The run is what was given, what is buffered and what is expected next.
LEMMA SameRun ==
  ASSUME NEW k, NEW l, l.got = k.got, l.chunks = k.chunks
  PROVE  /\ Given(l) = Given(k) /\ Buffered(l) = Buffered(k) /\ Reach(l) = Reach(k)
         /\ l.next = k.next /\ Runs(k) => Runs(l)
<1>1. Given(l) = Given(k) /\ Buffered(l) = Buffered(k)
  BY DEF Given, Buffered
<1>2. Reach(l) = Reach(k)
  BY <1>1 DEF Reach
<1>3. ASSUME l.next = k.next, Runs(k)  PROVE Runs(l)
  BY <1>1, <1>2, <1>3 DEF Runs
<1> QED
  BY <1>1, <1>2, <1>3

LEMMA UnmadeIsGood == Good(Unmade)
<1>1. Unmade \in Call
  BY BoundAssumption DEF Unmade, Call
<1>2. Given(Unmade) = 0 /\ Buffered(Unmade) = 0
  BY EmptySeq DEF Unmade, Given, Buffered
<1>3. Reach(Unmade) = 0
  BY <1>2 DEF Reach
<1>4. Runs(Unmade)
  BY <1>2, <1>3, EmptySeq DEF Runs, Unmade, InTurn
<1> QED
  BY <1>1, <1>3, <1>4, SameRun DEF Unmade, Good, Core, Holds, Continues, Ends, Notifies

LEMMA Wakes ==
  ASSUME NEW k, Core(k)
  PROVE  Core(Wake(k)) /\ Stands(k, Wake(k)) /\ (Continues(k) => Continues(Wake(k)))
         /\ Wake(k).released = k.released
<1>1. Wake(k) \in Call
  BY DEF Core, Wake, Call
<1>2. Wake(k).cancelled = k.cancelled /\ Wake(k).released = k.released
      /\ Wake(k).chunks = k.chunks /\ Wake(k).registered = k.registered
      /\ Wake(k).idle = k.idle /\ Wake(k).next = k.next /\ Wake(k).got = k.got
      /\ Wake(k).over = k.over /\ Wake(k).pull = k.pull /\ Wake(k).ended = k.ended
      /\ Wake(k).error = k.error /\ Wake(k).made = k.made /\ Wake(k).notice = k.notice /\ Wake(k).pub = k.pub
  BY DEF Core, Wake, Call
<1> QED
  BY <1>1, <1>2, SameRun DEF Core, Holds, Ends, Notifies, Stands, Settles, Continues

\* All but the slot, the buffer and the timer of a call.
Rest(k) ==
  <<k.made, k.pub, k.request, k.next, k.ended, k.error, k.cancelled, k.pull, k.woken,
    k.over, k.got, k.notice>>

\* The record of a call whose buffer is given up.
LEMMA Releases ==
  ASSUME NEW k, k \in Call, k.released => k.chunks = <<>> /\ ~k.registered /\ ~k.idle
  PROVE  /\ Release(k) \in Call /\ Rest(Release(k)) = Rest(k)
         /\ Release(k).released /\ Release(k).chunks = <<>>
         /\ ~Release(k).registered /\ ~Release(k).idle
<1>1. CASE k.released
  BY <1>1 DEF Release
<1>2. CASE ~k.released
  <2> DEFINE l == [k EXCEPT !.released = TRUE, !.idle = FALSE, !.registered = FALSE,
                            !.chunks = <<>>, !.holders = @ \ {"signal"}]
  <2>1. l \in Call
    BY EmptySeq DEF Call
  <2>2. Rest(l) = Rest(k) /\ l.released /\ l.chunks = <<>> /\ ~l.registered /\ ~l.idle
    BY DEF Call, Rest
  <2> QED
    BY <1>2, <2>1, <2>2 DEF Release
<1> QED
  BY <1>1, <1>2

\* Stop on a call that is cancelled and has released what it held.
LEMMA Stops ==
  ASSUME NEW k, Core(k), k.cancelled, k.notice # "sent"
  PROVE  Good(Stop(k)) /\ Stands(k, Stop(k)) /\ Stop(k).released
<1>1. Stop(k) \in Call
  <2>1. [k EXCEPT !.pub = "withdrawn"] \in Call /\ [k EXCEPT !.notice = "due"] \in Call
    BY DEF Core, Call
  <2>2. [k EXCEPT !.notice = "sent"] \in Call /\ [k EXCEPT !.notice = "none"] \in Call
    BY DEF Core, Call
  <2>3. Notify(k) \in Call
    BY <2>2 DEF Notify
  <2> QED
    BY <2>1, <2>3 DEF Stop
<1>2. /\ Stop(k).released /\ Stop(k).cancelled /\ ~Stop(k).registered /\ ~Stop(k).idle
      /\ Stop(k).chunks = k.chunks /\ Stop(k).next = k.next /\ Stop(k).got = k.got
      /\ Stop(k).over = k.over /\ Stop(k).pull = k.pull /\ Stop(k).ended = k.ended
      /\ Stop(k).error = k.error /\ Stop(k).made = k.made
  BY DEF Core, Holds, Stop, Notify, Call
<1>3. Stop(k).notice = "sent" => Stop(k).pub \in {"sent", "ambiguous"}
  BY DEF Core, Stop, Notify, Call
<1> QED
  BY <1>1, <1>2, <1>3, SameRun DEF Good, Core, Holds, Continues, Ends, Notifies, Stands,
     Settles

\* A buffer given up leaves what was given in turn.
LEMMA EmptyRun ==
  ASSUME NEW k, Core(k), NEW l, l.got = k.got, l.next = k.next, l.chunks = <<>>
  PROVE  Runs(l)
<1>1. Given(l) = Given(k) /\ Buffered(l) = 0
  BY EmptySeq DEF Given, Buffered
<1>2. Given(k) \in Nat /\ Buffered(k) \in Nat
  BY Counts DEF Core
<1>3. k.next \in Nat /\ Given(k) + Buffered(k) <= k.next
  BY DEF Core, Call, Runs, Reach
<1>4. Given(l) + Buffered(l) <= l.next
  BY <1>1, <1>2, <1>3
<1> QED
  BY <1>1, <1>4 DEF Core, Runs, Reach

\* A record that gave up its buffer, by a wish or by an error.
LEMMA Empties ==
  ASSUME NEW k, Core(k), NEW r \in Call, r.got = k.got, r.next = k.next, r.over = k.over,
         r.pull = k.pull, r.released, r.chunks = <<>>, ~r.registered, ~r.idle,
         r.over = "ended" => r.ended /\ r.error = "none",
         r.cancelled \/ r.error # "none", r.notice # "none" => r.cancelled,
         r.notice = "sent" => r.pub \in {"sent", "ambiguous"}
  PROVE  Good(r)
<1>1. Runs(r)
  BY EmptyRun
<1> QED
  BY <1>1 DEF Good, Core, Holds, Continues, Ends, Notifies

LEMMA Abandons ==
  ASSUME NEW k, Core(k)
  PROVE  Good(Abandon(k)) /\ Stands(k, Abandon(k)) /\ Abandon(k).released
<1>1. CASE k.cancelled
  BY <1>1, SameRun DEF Abandon, Good, Core, Holds, Continues, Stands, Settles
<1>2. CASE ~k.cancelled
  <2> DEFINE l == [k EXCEPT !.cancelled = TRUE]
             r == Release(l)
  <2>1. l \in Call /\ l.cancelled /\ l.released = k.released /\ l.chunks = k.chunks
        /\ l.registered = k.registered /\ l.idle = k.idle /\ l.next = k.next
        /\ l.got = k.got /\ l.over = k.over /\ l.pull = k.pull /\ l.ended = k.ended
        /\ l.error = k.error /\ l.made = k.made /\ l.notice = k.notice
    BY DEF Core, Call
  <2> HIDE DEF l
  <2>2. r \in Call /\ Rest(r) = Rest(l) /\ r.released /\ r.chunks = <<>> /\ ~r.registered
        /\ ~r.idle
    BY <2>1, Releases DEF Core, Holds
  <2>3. r.cancelled /\ r.next = k.next /\ r.got = k.got /\ r.over = k.over
        /\ r.pull = k.pull /\ r.ended = k.ended /\ r.error = k.error /\ r.made = k.made /\ r.notice = k.notice
    BY <2>1, <2>2 DEF Rest
  <2> HIDE DEF r
  <2>4. k.notice = "none"
    BY <1>2 DEF Core, Notifies
  <2>5. Core(r)
    <3>1. r.over = "ended" => r.ended /\ r.error = "none"
      BY <2>3, SameRun DEF Core, Ends
    <3> QED
      BY <3>1, <2>2, <2>3, <2>4, Empties DEF Good
  <2>6. Good(Stop(r)) /\ Stands(r, Stop(r)) /\ Stop(r).released
    BY <2>3, <2>4, <2>5, Stops
  <2> QED
    BY <1>2, <2>2, <2>3, <2>4, <2>6 DEF Abandon, r, l, Stands, Settles
<1> QED
  BY <1>1, <1>2

LEMMA Cancels ==
  ASSUME NEW k, Good(k)
  PROVE  Goes(k, Cancel(k)) /\ Cancel(k).released /\ Cancel(k).cancelled
<1>1. CASE k.cancelled
  BY <1>1 DEF Cancel, Goes, Good, Core, Holds, Stands, Settles
<1>2. CASE ~k.cancelled
  <2> DEFINE l == [k EXCEPT !.cancelled = TRUE]
             r == Release(l)
             e == [r EXCEPT !.ended = TRUE]
             w == Wake(e)
  <2>1. l \in Call /\ l.cancelled /\ l.released = k.released /\ l.chunks = k.chunks
        /\ l.registered = k.registered /\ l.idle = k.idle /\ l.next = k.next
        /\ l.got = k.got /\ l.over = k.over /\ l.pull = k.pull /\ l.error = k.error /\ l.made = k.made
        /\ l.notice = k.notice
    BY DEF Good, Core, Call
  <2> HIDE DEF l
  <2>2. r \in Call /\ Rest(r) = Rest(l) /\ r.released /\ r.chunks = <<>> /\ ~r.registered
        /\ ~r.idle
    BY <2>1, Releases DEF Good, Core, Holds
  <2>3. r.cancelled /\ r.next = k.next /\ r.got = k.got /\ r.over = k.over
        /\ r.pull = k.pull /\ r.error = k.error /\ r.made = k.made /\ r.notice = k.notice
    BY <2>1, <2>2 DEF Rest
  <2> HIDE DEF r
  <2>4. e \in Call /\ e.cancelled /\ e.next = k.next /\ e.got = k.got /\ e.over = k.over
        /\ e.pull = k.pull /\ e.error = k.error /\ e.made = k.made /\ e.notice = k.notice /\ e.released
        /\ e.chunks = <<>> /\ ~e.registered /\ ~e.idle /\ e.ended
    BY <2>2, <2>3 DEF Call
  <2> HIDE DEF e
  <2>5. k.notice = "none"
    BY <1>2 DEF Good, Core, Notifies
  <2>6. Core(e)
    <3>1. e.over = "ended" => e.ended /\ e.error = "none"
      BY <2>4, SameRun DEF Good, Core, Ends
    <3> QED
      BY <3>1, <2>4, <2>5, Empties DEF Good
  <2>7. Core(w) /\ Stands(e, w) /\ w.released
    BY <2>4, <2>6, Wakes
  <2>8. w.cancelled /\ w.notice = e.notice
    BY <2>4 DEF Wake, Call
  <2> HIDE DEF w
  <2>9. Good(Stop(w)) /\ Stands(w, Stop(w)) /\ Stop(w).released
    BY <2>4, <2>5, <2>7, <2>8, Stops
  <2>10. Stop(w).cancelled
    BY <2>7, <2>8 DEF Core, Call, Stop, Notify
  <2> QED
    BY <1>2, <2>4, <2>5, <2>7, <2>9, <2>10 DEF Cancel, w, e, r, l, Goes, Stands, Settles
<1> QED
  BY <1>1, <1>2

\* Fail, on a call that has not released what it held.
LEMMA Fails ==
  ASSUME NEW k, Core(k), ~k.released,
         NEW error \in {"timeout", "sequence", "backpressure"}
  PROVE  Goes(k, Fail(k, error))
<1> DEFINE e == [k EXCEPT !.error = error, !.ended = TRUE]
<1>1. e \in Call
  BY DEF Core, Call
<1>2. e.cancelled = k.cancelled /\ e.released = k.released /\ e.chunks = k.chunks
      /\ e.registered = k.registered /\ e.idle = k.idle /\ e.next = k.next /\ e.got = k.got
      /\ e.over = k.over /\ e.pull = k.pull /\ e.ended /\ e.error = error /\ e.made = k.made
      /\ e.notice = k.notice /\ e.pub = k.pub
  BY DEF Core, Call
<1> HIDE DEF e
<1>3. Core(e)
  <2>1. Runs(e)
    BY <1>2, SameRun DEF Core
  <2> QED
    BY <1>1, <1>2, <2>1, SameRun DEF Core, Holds, Ends, Notifies
<1> DEFINE a == Abandon(e)
<1>4. Good(a) /\ Stands(e, a)
  BY <1>3, Abandons
<1> HIDE DEF a
<1>5. Good(Wake(a)) /\ Stands(a, Wake(a))
  BY <1>4, Wakes DEF Good
<1> QED
  BY <1>2, <1>4, <1>5 DEF Fail, a, e, Goes, Stands, Settles

\* A record that differs in nothing but its publish, its request and its notice.
Alike(k, l) ==
  /\ l.cancelled = k.cancelled /\ l.released = k.released /\ l.chunks = k.chunks
  /\ l.registered = k.registered /\ l.idle = k.idle /\ l.next = k.next /\ l.got = k.got
  /\ l.over = k.over /\ l.pull = k.pull /\ l.ended = k.ended /\ l.error = k.error /\ l.made = k.made
  /\ l.pub = "none" <=> k.pub = "none"

LEMMA AlikeGoes ==
  ASSUME NEW k, Good(k), NEW l \in Call, Alike(k, l), Notifies(l),
         k.notice = "sent" => l.notice = "sent" /\ l.pub = k.pub
  PROVE  Goes(k, l)
<1>1. Runs(l) /\ Reach(l) = Reach(k)
  BY SameRun DEF Good, Core, Alike
<1>2. Holds(l) /\ Continues(l)
  BY <1>1 DEF Good, Core, Holds, Continues, Alike
<1>3. Ends(l)
  BY <1>1 DEF Good, Core, Ends, Alike
<1>4. Stands(k, l)
  BY DEF Alike, Stands, Settles
<1> QED
  BY <1>1, <1>2, <1>3, <1>4 DEF Goes, Good, Core

LEMMA PublishFailing ==
  ASSUME NEW k, Good(k), NEW how \in {"definite", "ambiguous"},
         k.pub \in Unsent \cup Sending
  PROVE  Goes(k, PublishFails(k, how))
<1>1. CASE k.released
  <2> DEFINE f == [k EXCEPT !.pub = how]
  <2>1. f \in Call
    BY DEF Good, Core, Call
  <2>2. Alike(k, f) /\ f.notice = k.notice /\ k.notice # "sent"
    BY DEF Good, Core, Notifies, Call, Alike
  <2>3. Notifies(f)
    BY <2>2 DEF Good, Core, Notifies, Alike
  <2> HIDE DEF f
  <2> QED
    BY <1>1, <2>1, <2>2, <2>3, AlikeGoes DEF PublishFails, f
<1>2. CASE ~k.released
  <2> DEFINE e == [k EXCEPT !.pub = how, !.error = "publish", !.ended = TRUE]
             r == Release(e)
             d == [r EXCEPT !.cancelled = TRUE, !.notice = "due"]
             g == IF how = "definite" THEN r ELSE d
  <2>1. e \in Call /\ e.cancelled = k.cancelled /\ e.released = k.released
        /\ e.next = k.next /\ e.got = k.got /\ e.over = k.over
        /\ e.pull = k.pull /\ e.ended /\ e.error = "publish" /\ e.made = k.made /\ e.notice = k.notice
    <3>1. e \in Call
      <4>1. k \in Call
        BY DEF Good, Core
      <4>2. [k EXCEPT !.pub = how] \in Call
        BY <4>1 DEF Call
      <4>3. [[k EXCEPT !.pub = how] EXCEPT !.error = "publish"] \in Call
        BY <4>2 DEF Call
      <4>4. [[[k EXCEPT !.pub = how] EXCEPT !.error = "publish"] EXCEPT !.ended = TRUE] \in Call
        BY <4>3 DEF Call
      <4>5. e = [[[k EXCEPT !.pub = how] EXCEPT !.error = "publish"] EXCEPT !.ended = TRUE]
        BY <4>1 DEF Call
      <4> QED
        BY <4>4, <4>5
    <3>2. e.cancelled = k.cancelled /\ e.released = k.released /\ e.next = k.next
          /\ e.got = k.got /\ e.over = k.over
      BY DEF Good, Core, Call
    <3>3. e.pull = k.pull /\ e.ended /\ e.error = "publish" /\ e.made = k.made /\ e.notice = k.notice
      BY DEF Good, Core, Call
    <3> QED
      BY <3>1, <3>2, <3>3
  <2> HIDE DEF e
  <2>2. r \in Call /\ Rest(r) = Rest(e) /\ r.released /\ r.chunks = <<>> /\ ~r.registered
        /\ ~r.idle
    BY <1>2, <2>1, Releases
  <2>3. r.cancelled = k.cancelled /\ r.next = k.next /\ r.got = k.got /\ r.over = k.over
        /\ r.pull = k.pull /\ r.ended /\ r.error = "publish" /\ r.made = k.made /\ r.notice = k.notice
    BY <2>1, <2>2 DEF Rest
  <2> HIDE DEF r
  <2>4. k.notice = "none" /\ ~k.cancelled /\ k.over # "ended"
    BY <1>2, SameRun DEF Good, Core, Holds, Ends, Notifies
  <2>5. d \in Call /\ d.cancelled /\ d.next = k.next /\ d.got = k.got /\ d.over = k.over
        /\ d.pull = k.pull /\ d.ended /\ d.error = "publish" /\ d.made = k.made /\ d.notice = "due"
        /\ d.released /\ d.chunks = <<>> /\ ~d.registered /\ ~d.idle
    <3>1. d \in Call
      <4>1. r \in Call
        BY <2>2
      <4>2. [r EXCEPT !.cancelled = TRUE] \in Call
        BY <4>1 DEF Call
      <4>3. [[r EXCEPT !.cancelled = TRUE] EXCEPT !.notice = "due"] \in Call
        <5>1. \A l \in Call : [l EXCEPT !.notice = "due"] \in Call
          BY DEF Call
        <5> QED
          BY <4>2, <5>1
      <4>4. d = [[r EXCEPT !.cancelled = TRUE] EXCEPT !.notice = "due"]
        BY <4>1 DEF Call
      <4> QED
        BY <4>3, <4>4
    <3>2. d.cancelled /\ d.next = r.next /\ d.got = r.got /\ d.over = r.over
          /\ d.pull = r.pull /\ d.ended = r.ended /\ d.error = r.error /\ d.made = r.made /\ d.notice = "due"
      BY <2>2 DEF Call
    <3>3. d.released = r.released /\ d.chunks = r.chunks /\ d.registered = r.registered
          /\ d.idle = r.idle
      BY <2>2 DEF Call
    <3> HIDE DEF d
    <3> QED
      BY <2>2, <2>3, <3>1, <3>2, <3>3
  <2>6. g \in Call /\ g.next = k.next /\ g.got = k.got /\ g.over = k.over
        /\ g.pull = k.pull /\ g.ended /\ g.error = "publish" /\ g.made = k.made /\ g.notice # "sent"
        /\ g.released /\ g.chunks = <<>> /\ ~g.registered /\ ~g.idle
        /\ (g.notice # "none" => g.cancelled)
    BY <2>2, <2>3, <2>4, <2>5
  <2> HIDE DEF d, g
  <2>7. Good(g)
    BY <2>4, <2>6, Empties DEF Good
  <2>8. Good(Wake(g)) /\ Stands(g, Wake(g))
    BY <2>7, Wakes DEF Good
  <2>9. PublishFails(k, how) = Wake(g)
    BY <1>2 DEF PublishFails, g, d, r, e
  <2> QED
    BY <1>2, <2>4, <2>6, <2>8, <2>9 DEF Goes, Stands, Settles
<1> QED
  BY <1>1, <1>2

\* _publish_on_the_bus.
LEMMA Launches ==
  ASSUME NEW k, Good(k), k.pub \in Unsent \cup Sending, NEW step \in Sending
  PROVE  Goes(k, Launch(k, step))
<1> DEFINE l == [k EXCEPT !.pub = step, !.request = "wire"]
<1>1. l \in Call
  <2>1. k \in Call
    BY DEF Good, Core
  <2>2. [k EXCEPT !.pub = step] \in Call
    BY <2>1 DEF Call
  <2>3. [[k EXCEPT !.pub = step] EXCEPT !.request = "wire"] \in Call
    BY <2>2 DEF Call
  <2>4. l = [[k EXCEPT !.pub = step] EXCEPT !.request = "wire"]
    BY <2>1 DEF Call
  <2> QED
    BY <2>3, <2>4
<1>2. Alike(k, l) /\ l.notice = k.notice /\ k.notice # "sent"
  BY DEF Good, Core, Notifies, Call, Alike
<1>3. Notifies(l)
  BY <1>2 DEF Good, Core, Notifies, Alike
<1> HIDE DEF l
<1>5. Goes(k, l)
  BY <1>1, <1>2, <1>3, AlikeGoes
<1> QED
  BY <1>5, PublishFailing DEF Launch, l

\* A publish that goes from one of its states to the next.
LEMMA PublishGoes ==
  ASSUME NEW k, Good(k), NEW p \in Unsent \cup Sending \cup Settled, NEW l,
         l = [k EXCEPT !.pub = p], k.pub \in Unsent \cup Sending, p # "none"
  PROVE  Goes(k, l)
<1>1. l \in Call
  BY DEF Good, Core, Call
<1>2. Alike(k, l) /\ l.notice = k.notice /\ k.notice # "sent"
  BY DEF Good, Core, Notifies, Call, Alike
<1>3. Notifies(l)
  BY <1>2 DEF Good, Core, Notifies, Alike
<1> QED
  BY <1>1, <1>2, <1>3, AlikeGoes

\* What becomes of the request is no part of the invariant.
LEMMA RequestGoes ==
  ASSUME NEW k, Good(k), NEW q \in {"no", "wire", "stored"}, NEW l,
         l = [k EXCEPT !.request = q]
  PROVE  Goes(k, l) /\ l.pub = k.pub
<1>1. l \in Call
  BY DEF Good, Core, Call
<1>2. Alike(k, l) /\ l.notice = k.notice /\ l.pub = k.pub
  BY DEF Good, Core, Call, Alike
<1>3. Notifies(l)
  BY <1>2 DEF Good, Core, Notifies, Alike
<1> QED
  BY <1>1, <1>2, <1>3, AlikeGoes

\* Nor is who refers to the reply.
LEMMA HolderGoes ==
  ASSUME NEW k, Good(k)
  PROVE  Goes(k, [k EXCEPT !.holders = @ \ {"consumer"}])
<1> DEFINE l == [k EXCEPT !.holders = @ \ {"consumer"}]
<1>1. l \in Call
  BY DEF Good, Core, Call
<1>2. Alike(k, l) /\ l.notice = k.notice /\ l.pub = k.pub
  BY DEF Good, Core, Call, Alike
<1>3. Notifies(l)
  BY <1>2 DEF Good, Core, Notifies, Alike
<1> HIDE DEF l
<1>4. Goes(k, l)
  BY <1>1, <1>2, <1>3, AlikeGoes
<1> QED
  BY <1>4 DEF l

LEMMA Stays ==
  ASSUME NEW k, Good(k)
  PROVE  Goes(k, k)
  BY DEF Goes, Stands, Settles

\* One step of the code may be two of the record.
LEMMA GoesOn ==
  ASSUME NEW k, NEW l, NEW m, Goes(k, l), Goes(l, m)
  PROVE  Goes(k, m)
  BY DEF Goes, Stands, Settles

\* The done-callback of the publish task.
LEMMA NoticeGoes ==
  ASSUME NEW k, Good(k), k.notice = "due"
  PROVE  Goes(k, Notify(k))
<1>1. Core(k) /\ k.cancelled
  BY DEF Good, Core, Notifies
<1>2. Notify(k) \in Call
  <2>1. [k EXCEPT !.notice = "sent"] \in Call /\ [k EXCEPT !.notice = "none"] \in Call
    BY <1>1 DEF Core, Call
  <2> QED
    BY <2>1 DEF Notify
<1>3. Alike(k, Notify(k)) /\ Notify(k).pub = k.pub
  BY <1>1 DEF Core, Notify, Call, Alike
<1>4. Notify(k).notice = "sent" => k.pub \in {"sent", "ambiguous"}
  BY <1>1 DEF Core, Notify, Call
<1>5. Notifies(Notify(k))
  BY <1>1, <1>3, <1>4 DEF Notifies, Alike
<1> QED
  BY <1>2, <1>3, <1>5, AlikeGoes

\* _on_idle.
LEMMA IdleGoes ==
  ASSUME NEW k, Good(k), k.idle, NEW u, u = [k EXCEPT !.idle = FALSE]
  PROVE  Goes(k, IF u.ended THEN u ELSE Fail(u, "timeout"))
<1>1. u \in Call
  BY DEF Good, Core, Call
<1>2. u.cancelled = k.cancelled /\ u.released = k.released /\ u.chunks = k.chunks
      /\ u.registered = k.registered /\ ~u.idle /\ u.next = k.next
      /\ u.got = k.got /\ u.over = k.over /\ u.pull = k.pull /\ u.ended = k.ended
      /\ u.error = k.error /\ u.made = k.made /\ u.notice = k.notice /\ u.pub = k.pub
  BY DEF Good, Core, Call
<1>3. ~k.released
  BY DEF Good, Core, Holds
<1>4. Runs(u)
  <2>1. Runs(k)
    BY DEF Good, Core
  <2> QED
    BY <1>2, <2>1, SameRun
<1>5. CASE u.ended
  BY <1>1, <1>2, <1>4, <1>5, SameRun
  DEF Goes, Good, Core, Holds, Continues, Ends, Notifies, Stands, Settles
<1>6. CASE ~u.ended
  <2> DEFINE e == [u EXCEPT !.error = "timeout", !.ended = TRUE]
             a == Abandon(e)
  <2>1. e \in Call
    <3>0. \A m \in Call : [m EXCEPT !.error = "timeout"] \in Call
      BY DEF Call
    <3>1. \A m \in Call : [m EXCEPT !.ended = TRUE] \in Call
      BY DEF Call
    <3>2. [[u EXCEPT !.error = "timeout"] EXCEPT !.ended = TRUE] \in Call
      BY <1>1, <3>0, <3>1
    <3>3. e = [[u EXCEPT !.error = "timeout"] EXCEPT !.ended = TRUE]
      BY <1>1 DEF Call
    <3> QED
      BY <3>2, <3>3
  <2>2. e.cancelled = k.cancelled /\ e.released = k.released /\ e.chunks = k.chunks
        /\ e.registered = k.registered /\ ~e.idle /\ e.next = k.next /\ e.got = k.got
        /\ e.over = k.over /\ e.pull = k.pull /\ e.ended /\ e.error = "timeout" /\ e.made = k.made
        /\ e.notice = k.notice /\ e.pub = k.pub
    BY <1>1, <1>2 DEF Call
  <2> HIDE DEF e
  <2>3. Core(e)
    <3>1. Runs(e)
      BY <2>2, SameRun DEF Good, Core
    <3> QED
      BY <1>3, <2>1, <2>2, <3>1, SameRun DEF Good, Core, Holds, Ends, Notifies
  <2>4. Good(a) /\ Stands(e, a)
    BY <2>3, Abandons
  <2> HIDE DEF a
  <2>5. Good(Wake(a)) /\ Stands(a, Wake(a))
    BY <2>4, Wakes DEF Good
  <2> QED
    BY <1>3, <1>6, <2>2, <2>4, <2>5 DEF Fail, a, e, Goes, Stands, Settles
<1> QED
  BY <1>5, <1>6

\* _on_stream_chunk.
LEMMA Arrives ==
  ASSUME NEW k, Good(k), k.registered, NEW n \in 0..Last
  PROVE  Goes(k, Arrive(k, n))
<1> USE BoundAssumption
<1>1. Core(k) /\ ~k.released /\ k \in Call /\ Reach(k) = k.next
  BY DEF Good, Core, Holds, Continues
<1>2. k.next \in 0..(Last + 1) /\ Given(k) \in Nat /\ Buffered(k) \in Nat
  BY <1>1, Counts DEF Call
<1>3. k.over # "ended" /\ ~k.cancelled /\ k.notice = "none"
  BY <1>1, SameRun DEF Core, Holds, Ends, Notifies
<1>4. CASE n < k.next
  <2> DEFINE l == [k EXCEPT !.ended = @ \/ n = Last]
  <2>1. l \in Call
    BY <1>1 DEF Call
  <2>2. l.cancelled = k.cancelled /\ l.released = k.released /\ l.chunks = k.chunks
        /\ l.registered = k.registered /\ l.idle = k.idle /\ l.next = k.next
        /\ l.got = k.got /\ l.over = k.over /\ l.pull = k.pull
        /\ l.ended = (k.ended \/ n = Last)
        /\ l.error = k.error /\ l.made = k.made /\ l.notice = k.notice /\ l.pub = k.pub
    BY <1>1 DEF Call
  <2>3. n = Last => k.next = Last + 1
    BY <1>2, <1>4
  <2> HIDE DEF l
  <2>4. Runs(l)
    BY <1>1, <2>2, SameRun DEF Core
  <2>5. Ends(l)
    BY <1>1, <1>3, <2>2, <2>3, SameRun DEF Core, Ends
  <2>6. Good(l)
    BY <1>1, <1>3, <2>1, <2>2, <2>4, <2>5, SameRun DEF Good, Core, Holds, Continues,
       Notifies
  <2>7. Good(Wake(l)) /\ Stands(l, Wake(l))
    BY <2>6, Wakes DEF Good
  <2> QED
    BY <1>1, <1>3, <1>4, <2>2, <2>7 DEF Arrive, l, Goes, Stands, Settles
<1>5. CASE n > k.next
  <2>1. ~(n < k.next)
    BY <1>2, <1>5
  <2> QED
    BY <1>1, <1>5, <2>1, Fails DEF Arrive
<1>6. CASE n = k.next /\ (Len(k.chunks) = MaxBuffered \/ total = MaxTotal)
  <2> DEFINE l == [k EXCEPT !.next = n + 1]
  <2>1. l \in Call
    <3>1. n + 1 \in 0..(Last + 1)
      OBVIOUS
    <3> QED
      BY <1>1, <3>1 DEF Call
  <2>2. l.cancelled = k.cancelled /\ l.released = k.released /\ l.chunks = k.chunks
        /\ l.registered = k.registered /\ l.idle = k.idle /\ l.next = k.next + 1
        /\ l.got = k.got /\ l.over = k.over /\ l.pull = k.pull /\ l.ended = k.ended
        /\ l.error = k.error /\ l.made = k.made /\ l.notice = k.notice /\ l.pub = k.pub
    BY <1>1, <1>6 DEF Call
  <2> HIDE DEF l
  <2>3. Runs(l)
    <3>1. Reach(k) <= k.next + 1
      BY <1>1, <1>2
    <3>2. Given(l) = Given(k) /\ Buffered(l) = Buffered(k) /\ Reach(l) = Reach(k)
      BY <2>2, SameRun
    <3> QED
      BY <1>1, <2>2, <3>1, <3>2 DEF Core, Runs
  <2>4. Core(l) /\ ~l.released
    BY <1>1, <1>3, <2>1, <2>2, <2>3, SameRun DEF Core, Holds, Ends, Notifies
  <2>5. Goes(l, Fail(l, "backpressure"))
    BY <2>4, Fails
  <2>6. Arrive(k, n) = Fail(l, "backpressure")
    <3>1. ~(n < k.next) /\ ~(n > k.next)
      BY <1>2, <1>6
    <3> QED
      BY <1>6, <3>1 DEF Arrive, l
  <2> QED
    BY <1>1, <1>3, <2>2, <2>5, <2>6 DEF Goes, Stands, Settles
<1>7. CASE n = k.next /\ ~(Len(k.chunks) = MaxBuffered \/ total = MaxTotal)
  <2> DEFINE l == [k EXCEPT !.next = n + 1, !.chunks = Append(@, n), !.idle = TRUE,
                            !.ended = @ \/ n = Last]
  <2>1. n + 1 \in 0..(Last + 1) /\ Append(k.chunks, n) \in Seq(0..Last)
    <3>1. Append(k.chunks, n) \in Seq(0..Last)
      BY <1>1, AppendProperties DEF Call
    <3> QED
      BY <1>2, <1>7, <3>1
  <2>2. l \in Call
    <3>1. [k EXCEPT !.next = n + 1] \in Call
      BY <1>1, <2>1 DEF Call
    <3>2. [[k EXCEPT !.next = n + 1] EXCEPT !.chunks = Append(k.chunks, n)] \in Call
      BY <2>1, <3>1 DEF Call
    <3>3. /\ \A m \in Call : [m EXCEPT !.idle = TRUE] \in Call
          /\ \A m \in Call, b \in BOOLEAN : [m EXCEPT !.ended = b] \in Call
      <4>1. \A m \in Call : [m EXCEPT !.idle = TRUE] \in Call
        BY DEF Call
      <4>2. \A m \in Call, b \in BOOLEAN : [m EXCEPT !.ended = b] \in Call
        BY DEF Call
      <4> QED
        BY <4>1, <4>2
    <3>4. (k.ended \/ n = Last) \in BOOLEAN
      OBVIOUS
    <3>5. [[[[k EXCEPT !.next = n + 1] EXCEPT !.chunks = Append(k.chunks, n)]
              EXCEPT !.idle = TRUE] EXCEPT !.ended = (k.ended \/ n = Last)] \in Call
      BY <3>2, <3>3, <3>4
    <3>6. l = [[[[k EXCEPT !.next = n + 1] EXCEPT !.chunks = Append(k.chunks, n)]
                  EXCEPT !.idle = TRUE] EXCEPT !.ended = (k.ended \/ n = Last)]
      BY <1>1 DEF Call
    <3> QED
      BY <3>5, <3>6
  <2>3. l.cancelled = k.cancelled /\ l.released = k.released
        /\ l.chunks = Append(k.chunks, n) /\ l.registered = k.registered /\ l.idle
    BY <1>1 DEF Call
  <2>4. l.next = n + 1 /\ l.got = k.got /\ l.over = k.over /\ l.pull = k.pull
        /\ l.ended = (k.ended \/ n = Last) /\ l.error = k.error /\ l.made = k.made
    BY <1>1 DEF Call
  <2>5. l.notice = k.notice /\ l.pub = k.pub
    BY <1>1 DEF Call
  <2> HIDE DEF l
  <2>6. /\ Given(l) = Given(k) /\ Buffered(l) = Buffered(k) + 1
        /\ l.chunks[Buffered(k) + 1] = n
        /\ \A i \in 1..Buffered(k) : l.chunks[i] = k.chunks[i]
    <3>1. /\ Buffered(l) = Buffered(k) + 1 /\ l.chunks[Buffered(k) + 1] = n
          /\ \A i \in 1..Buffered(k) : l.chunks[i] = k.chunks[i]
      <4>1. k \in Call
        BY <1>1
      <4>2. l.chunks = Longer(k, n)
        BY <2>3 DEF Longer
      <4> QED
        BY <4>1, <4>2, Appends
    <3> QED
      BY <2>4, <3>1 DEF Given
  <2>7. Reach(l) = l.next /\ Given(k) + Buffered(k) = n
    BY <1>1, <1>2, <1>7, <2>4, <2>6 DEF Reach
  <2>8. Runs(l)
    <3>1. ASSUME NEW i \in 1..Buffered(l)
          PROVE  l.chunks[i] = Given(l) + i - 1
      <4>1. CASE i = Buffered(k) + 1
        BY <1>2, <2>6, <2>7, <4>1
      <4>2. CASE i # Buffered(k) + 1
        <5>1. i \in 1..Buffered(k)
          BY <1>2, <2>6, <4>2
        <5>2. k.chunks[i] = Given(k) + i - 1
          BY <1>1, <5>1 DEF Core, Runs
        <5> QED
          BY <2>6, <5>1, <5>2
      <4> QED
        BY <4>1, <4>2
    <3>2. Reach(l) <= l.next
      BY <1>2, <1>7, <2>4, <2>7
    <3>3. InTurn(l.got)
      BY <1>1, <2>4 DEF Core, Runs
    <3> QED
      BY <3>1, <3>2, <3>3 DEF Runs
  <2>9. Ends(l)
    <3>1. n = Last => Reach(l) = Last + 1
      BY <2>4, <2>7
    <3>2. k.ended => k.error # "none" \/ k.pub = "none" \/ k.over \notin {"no", "ended"}
      <4>1. Reach(k) # Last + 1
        BY <1>1, <1>2, <1>7
      <4> QED
        BY <1>1, <1>3, <4>1, SameRun DEF Core, Ends
    <3> QED
      BY <1>1, <1>3, <2>3, <2>4, <2>5, <3>1, <3>2, SameRun DEF Core, Ends
  <2>10. Good(l)
    BY <1>1, <1>3, <2>2, <2>3, <2>4, <2>5, <2>6, <2>7, <2>8, <2>9, SameRun
    DEF Good, Core, Holds, Continues, Notifies
  <2>11. Good(Wake(l)) /\ Stands(l, Wake(l))
    BY <2>10, Wakes DEF Good
  <2>12. Arrive(k, n) = Wake(l)
    <3>1. ~(n < k.next) /\ ~(n > k.next)
      BY <1>2, <1>7
    <3> QED
      BY <1>7, <3>1 DEF Arrive, l
  <2> QED
    BY <1>1, <1>3, <2>4, <2>11, <2>12 DEF Goes, Stands, Settles
<1> QED
  BY <1>2, <1>4, <1>5, <1>6, <1>7

\* A consumer that parks: the call itself is as it was.
LEMMA PullGoes ==
  ASSUME NEW k, Good(k), k.over = "no", NEW q \in {"first", "loop"}
  PROVE  Goes(k, [k EXCEPT !.pull = q, !.woken = FALSE])
<1> DEFINE l == [k EXCEPT !.pull = q, !.woken = FALSE]
<1>1. k \in Call
  BY DEF Good, Core
<1>2. l \in Call
  <2>1. \A m \in Call : [m EXCEPT !.pull = q] \in Call
    BY DEF Call
  <2>2. \A m \in Call : [m EXCEPT !.woken = FALSE] \in Call
    BY DEF Call
  <2>3. l = [[k EXCEPT !.pull = q] EXCEPT !.woken = FALSE]
    BY <1>1 DEF Call
  <2> QED
    BY <1>1, <2>1, <2>2, <2>3
<1>3. l.cancelled = k.cancelled /\ l.released = k.released /\ l.chunks = k.chunks
      /\ l.registered = k.registered /\ l.idle = k.idle /\ l.next = k.next
      /\ l.got = k.got /\ l.over = "no" /\ l.ended = k.ended
  BY <1>1 DEF Call
<1>4. l.error = k.error /\ l.made = k.made /\ l.notice = k.notice /\ l.pub = k.pub
  BY <1>1 DEF Call
<1> HIDE DEF l
<1>5. Runs(l) /\ Reach(l) = Reach(k)
  BY <1>3, SameRun DEF Good, Core
<1>6. Ends(l)
  BY <1>3, <1>4, <1>5 DEF Good, Core, Ends
<1>7. Holds(l) /\ Notifies(l) /\ Continues(l)
  BY <1>3, <1>4, <1>5 DEF Good, Core, Holds, Notifies, Continues
<1>8. Stands(k, l)
  BY <1>3, <1>4 DEF Stands, Settles
<1> QED
  BY <1>2, <1>5, <1>6, <1>7, <1>8 DEF l, Goes, Good, Core

\* The loop of _next: raise, return a chunk, end, or park.
LEMMA Takes ==
  ASSUME NEW k, Good(k), k.over = "no"
  PROVE  Goes(k, Take(k))
<1>1. Core(k) /\ k \in Call
  BY DEF Good, Core
<1>2. CASE k.error # "none"
  <2> DEFINE r == Release(k)
             l == [r EXCEPT !.pull = "idle", !.over = "failed"]
  <2>1. r \in Call /\ Rest(r) = Rest(k) /\ r.released /\ r.chunks = <<>>
        /\ ~r.registered /\ ~r.idle
    BY <1>1, Releases DEF Core, Holds
  <2>2. r.cancelled = k.cancelled /\ r.next = k.next /\ r.got = k.got
        /\ r.error = k.error /\ r.made = k.made /\ r.notice = k.notice /\ r.pub = k.pub
    BY <2>1 DEF Rest
  <2> HIDE DEF r
  <2>3. l \in Call
    <3>1. \A m \in Call : [m EXCEPT !.pull = "idle"] \in Call
      BY DEF Call
    <3>2. \A m \in Call : [m EXCEPT !.over = "failed"] \in Call
      BY DEF Call
    <3>3. l = [[r EXCEPT !.pull = "idle"] EXCEPT !.over = "failed"]
      BY <2>1 DEF Call
    <3> QED
      BY <2>1, <3>1, <3>2, <3>3
  <2>4. l.cancelled = k.cancelled /\ l.next = k.next /\ l.got = k.got /\ l.released
        /\ l.chunks = <<>> /\ ~l.registered /\ ~l.idle /\ l.pull = "idle"
        /\ l.over = "failed" /\ l.error = k.error /\ l.made = k.made /\ l.notice = k.notice /\ l.pub = k.pub
    BY <2>1, <2>2 DEF Call
  <2> HIDE DEF l
  <2>5. Runs(l)
    BY <1>1, <2>4, EmptyRun
  <2>6. Good(l)
    BY <1>1, <2>3, <2>4, <2>5 DEF Good, Core, Holds, Continues, Ends, Notifies
  <2> QED
    BY <1>2, <2>4, <2>6 DEF Take, l, r, Goes, Stands, Settles
<1>3. CASE k.error = "none" /\ k.chunks # <<>>
  <2> DEFINE l == [k EXCEPT !.pull = "idle", !.got = Append(@, Head(k.chunks)),
                            !.chunks = Tail(@), !.idle = TRUE]
  <2>1. ~k.released
    BY <1>1, <1>3 DEF Core, Holds
  <2>2. l.got = Fuller(k) /\ l.chunks = Shorter(k) /\ l.pull = "idle" /\ l.idle
    BY <1>1 DEF Call, Fuller, Shorter
  <2>3. l.cancelled = k.cancelled /\ l.released = k.released /\ l.next = k.next
        /\ l.registered = k.registered /\ l.over = k.over /\ l.ended = k.ended
    BY <1>1 DEF Call
  <2>4. l.error = k.error /\ l.made = k.made /\ l.notice = k.notice /\ l.pub = k.pub
    BY <1>1 DEF Call
  <2>5. /\ Fuller(k) \in Seq(0..Last) /\ Shorter(k) \in Seq(0..Last)
        /\ Given(l) = Given(k) + 1 /\ Buffered(l) = Buffered(k) - 1
        /\ l.got[Given(k) + 1] = k.chunks[1]
        /\ \A i \in 1..Given(k) : l.got[i] = k.got[i]
        /\ \A i \in 1..Buffered(l) : l.chunks[i] = k.chunks[i + 1]
    <3>1. l.got = Fuller(k) /\ l.chunks = Shorter(k)
      BY <2>2
    <3> HIDE DEF l
    <3> QED
      BY <1>1, <1>3, <3>1, Gives
  <2>6. l \in Call
    <3>1. \A m \in Call, q \in Seq(0..Last) : [m EXCEPT !.got = q] \in Call
      BY DEF Call
    <3>2. \A m \in Call, q \in Seq(0..Last) : [m EXCEPT !.chunks = q] \in Call
      BY DEF Call
    <3>3. \A m \in Call : [m EXCEPT !.pull = "idle"] \in Call
      BY DEF Call
    <3>4. \A m \in Call : [m EXCEPT !.idle = TRUE] \in Call
      BY DEF Call
    <3>5. l = [[[[k EXCEPT !.pull = "idle"] EXCEPT !.got = Fuller(k)]
                 EXCEPT !.chunks = Shorter(k)] EXCEPT !.idle = TRUE]
      BY <1>1 DEF Call, Fuller, Shorter
    <3> QED
      BY <1>1, <2>5, <3>1, <3>2, <3>3, <3>4, <3>5
  <2> HIDE DEF l
  <2>7. /\ Given(k) \in Nat /\ Buffered(k) \in Nat \ {0} /\ Reach(l) = Reach(k)
        /\ Reach(k) <= k.next
    <3>1. Given(k) \in Nat /\ Buffered(k) \in Nat /\ Buffered(k) # 0
      BY <1>1, <1>3, Counts
    <3>2. Reach(l) = Reach(k)
      BY <2>5, <3>1 DEF Reach
    <3> QED
      BY <1>1, <3>1, <3>2 DEF Core, Runs
  <2>8. Runs(l)
    <3>1. InTurn(l.got)
      <4>1. \A i \in 1..Given(k) : k.got[i] = i - 1
        BY <1>1, TurnOf DEF Core, Runs
      <4>2. k.chunks[1] = Given(k)
        BY <1>1, <2>7 DEF Core, Runs
      <4>3. \A i \in 1..Given(l) : l.got[i] = i - 1
        BY <2>5, <2>7, <4>1, <4>2, SMTT(30)
      <4> QED
        BY <4>3, TurnOf
    <3>2. \A i \in 1..Buffered(l) : l.chunks[i] = Given(l) + i - 1
      <4>1. \A i \in 1..Buffered(k) : k.chunks[i] = Given(k) + i - 1
        BY <1>1 DEF Core, Runs
      <4>2. ASSUME NEW i \in 1..Buffered(l)
            PROVE  l.chunks[i] = Given(l) + i - 1
        <5>1. i + 1 \in 1..Buffered(k)
          BY <2>5, <2>7
        <5>2. k.chunks[i + 1] = Given(k) + (i + 1) - 1
          BY <4>1, <5>1
        <5>3. l.chunks[i] = k.chunks[i + 1]
          BY <2>5
        <5> QED
          BY <2>5, <2>7, <5>2, <5>3
      <4> QED
        BY <4>2
    <3> QED
      BY <2>3, <2>7, <3>1, <3>2 DEF Runs
  <2>9. Continues(l)
    BY <2>3, <2>7 DEF Good, Continues
  <2>10. Ends(l)
    BY <1>1, <2>2, <2>3, <2>4, <2>7 DEF Core, Ends
  <2>11. Holds(l) /\ Notifies(l)
    BY <1>1, <2>1, <2>2, <2>3, <2>4 DEF Core, Holds, Notifies
  <2>12. Stands(k, l)
    BY <2>1, <2>4 DEF Stands, Settles
  <2> QED
    BY <1>3, <2>6, <2>8, <2>9, <2>10, <2>11, <2>12 DEF Take, l, Goes, Good, Core
<1>4. CASE k.error = "none" /\ k.chunks = <<>> /\ k.ended
  <2> DEFINE r == Release(k)
             l == [r EXCEPT !.pull = "idle", !.over = "ended"]
  <2>1. r \in Call /\ Rest(r) = Rest(k) /\ r.released /\ r.chunks = <<>>
        /\ ~r.registered /\ ~r.idle
    BY <1>1, Releases DEF Core, Holds
  <2>2. r.cancelled = k.cancelled /\ r.next = k.next /\ r.got = k.got /\ r.ended = k.ended
        /\ r.error = k.error /\ r.made = k.made /\ r.notice = k.notice /\ r.pub = k.pub
    BY <2>1 DEF Rest
  <2> HIDE DEF r
  <2>3. l \in Call
    <3>1. \A m \in Call : [m EXCEPT !.pull = "idle"] \in Call
      BY DEF Call
    <3>2. \A m \in Call : [m EXCEPT !.over = "ended"] \in Call
      BY DEF Call
    <3>3. l = [[r EXCEPT !.pull = "idle"] EXCEPT !.over = "ended"]
      BY <2>1 DEF Call
    <3> QED
      BY <2>1, <3>1, <3>2, <3>3
  <2>4. l.cancelled = k.cancelled /\ l.next = k.next /\ l.got = k.got /\ l.released
        /\ l.chunks = k.chunks /\ ~l.registered /\ ~l.idle /\ l.pull = "idle"
        /\ l.over = "ended" /\ l.ended
    BY <1>4, <2>1, <2>2 DEF Call
  <2>5. l.error = k.error /\ l.made = k.made /\ l.notice = k.notice /\ l.pub = k.pub
    BY <2>1, <2>2 DEF Call
  <2> HIDE DEF l
  <2>6. Runs(l) /\ Reach(l) = Reach(k)
    BY <1>1, <2>4, SameRun DEF Core
  <2>7. Ends(l)
    BY <1>1, <1>4, <2>4, <2>5, <2>6 DEF Core, Ends
  <2>8. Holds(l) /\ Notifies(l) /\ Continues(l)
    BY <1>1, <1>4, <2>4, <2>5 DEF Core, Holds, Notifies, Continues
  <2>9. Stands(k, l)
    BY <2>4, <2>5 DEF Stands, Settles
  <2> QED
    BY <1>4, <2>3, <2>6, <2>7, <2>8, <2>9 DEF Take, l, r, Goes, Good, Core
<1>5. CASE k.error = "none" /\ k.chunks = <<>> /\ ~k.ended
  <2> DEFINE l == [k EXCEPT !.pull = "loop", !.woken = FALSE]
  <2>1. Goes(k, l)
    BY <1>1, PullGoes
  <2> QED
    BY <1>5, <2>1 DEF Take
<1> QED
  BY <1>2, <1>3, <1>4, <1>5

\* The consuming task is cancelled in a pull.
LEMMA Quits ==
  ASSUME NEW k, Good(k)
  PROVE  Goes(k, [Cancel(k) EXCEPT !.pull = "idle", !.over = "quit"])
<1> DEFINE c == Cancel(k)
           l == [c EXCEPT !.pull = "idle", !.over = "quit"]
<1>1. Goes(k, c) /\ c.released /\ c.cancelled
  BY Cancels
<1> HIDE DEF c
<1>2. c \in Call
  BY <1>1 DEF Goes, Good, Core
<1>3. l \in Call
  <2>1. \A m \in Call : [m EXCEPT !.pull = "idle"] \in Call
    BY DEF Call
  <2>2. \A m \in Call : [m EXCEPT !.over = "quit"] \in Call
    BY DEF Call
  <2>3. l = [[c EXCEPT !.pull = "idle"] EXCEPT !.over = "quit"]
    BY <1>2 DEF Call
  <2> QED
    BY <1>2, <2>1, <2>2, <2>3
<1>4. l.cancelled /\ l.released /\ l.chunks = c.chunks /\ l.registered = c.registered
      /\ l.idle = c.idle /\ l.next = c.next /\ l.got = c.got /\ l.over = "quit"
      /\ l.pull = "idle"
  BY <1>1, <1>2 DEF Call
<1>5. l.error = c.error /\ l.made = c.made /\ l.notice = c.notice /\ l.pub = c.pub
  BY <1>2 DEF Call
<1> HIDE DEF l
<1>6. Runs(l)
  BY <1>1, <1>4, SameRun DEF Goes, Good, Core
<1>7. Holds(l) /\ Continues(l) /\ Ends(l) /\ Notifies(l)
  BY <1>1, <1>4, <1>5 DEF Goes, Good, Core, Holds, Continues, Ends, Notifies
<1>8. Stands(k, l)
  BY <1>1, <1>4, <1>5 DEF Goes, Stands, Settles
<1> QED
  BY <1>3, <1>6, <1>7, <1>8 DEF l, c, Goes, Good, Core

\* _forget_stream.
LEMMA Forgets ==
  ASSUME NEW k, Good(k), k.registered, k.pull = "idle", ~k.idle
  PROVE  Goes(k, [k EXCEPT !.registered = FALSE, !.chunks = <<>>, !.over = "dropped"])
<1> DEFINE l == [k EXCEPT !.registered = FALSE, !.chunks = <<>>, !.over = "dropped"]
<1>1. k \in Call /\ ~k.released
  BY DEF Good, Core, Holds
<1>2. l \in Call
  <2>1. \A m \in Call : [m EXCEPT !.registered = FALSE] \in Call
    BY DEF Call
  <2>2. \A m \in Call : [m EXCEPT !.chunks = <<>>] \in Call
    BY EmptySeq DEF Call
  <2>3. \A m \in Call : [m EXCEPT !.over = "dropped"] \in Call
    BY DEF Call
  <2>4. l = [[[k EXCEPT !.registered = FALSE] EXCEPT !.chunks = <<>>] EXCEPT !.over = "dropped"]
    BY <1>1 DEF Call
  <2> QED
    BY <1>1, <2>1, <2>2, <2>3, <2>4
<1>3. l.cancelled = k.cancelled /\ l.released = k.released /\ l.chunks = <<>>
      /\ ~l.registered /\ ~l.idle /\ l.next = k.next /\ l.got = k.got /\ l.over = "dropped"
      /\ l.pull = "idle"
  BY <1>1 DEF Call
<1>4. l.error = k.error /\ l.made = k.made /\ l.notice = k.notice /\ l.pub = k.pub
  BY <1>1 DEF Call
<1> HIDE DEF l
<1>5. Runs(l)
  BY <1>3, EmptyRun DEF Good
<1>6. Holds(l) /\ Continues(l) /\ Ends(l) /\ Notifies(l)
  BY <1>1, <1>3, <1>4 DEF Good, Core, Holds, Continues, Ends, Notifies
<1>7. Stands(k, l)
  BY <1>1, <1>4 DEF Stands, Settles
<1> QED
  BY <1>2, <1>5, <1>6, <1>7 DEF l, Goes, Good, Core

\* _on_disconnected.
LEMMA Disconnects ==
  ASSUME NEW k, Good(k)
  PROVE  Goes(k, Disconnected(k)) /\ Disconnected(k).pub = k.pub
<1>1. CASE ~k.registered
  BY <1>1, Stays DEF Disconnected
<1>2. CASE k.registered
  <2> DEFINE l == [k EXCEPT !.error = "disconnected", !.ended = TRUE, !.registered = FALSE]
  <2>1. k \in Call /\ ~k.released /\ k.over # "ended"
    BY <1>2 DEF Good, Core, Holds, Ends
  <2>2. l \in Call
    <3>1. \A m \in Call : [m EXCEPT !.error = "disconnected"] \in Call
      BY DEF Call
    <3>2. \A m \in Call : [m EXCEPT !.ended = TRUE] \in Call
      BY DEF Call
    <3>3. \A m \in Call : [m EXCEPT !.registered = FALSE] \in Call
      BY DEF Call
    <3>4. l = [[[k EXCEPT !.error = "disconnected"] EXCEPT !.ended = TRUE]
                 EXCEPT !.registered = FALSE]
      BY <2>1 DEF Call
    <3> QED
      BY <2>1, <3>1, <3>2, <3>3, <3>4
  <2>3. l.cancelled = k.cancelled /\ l.released = k.released /\ l.chunks = k.chunks
        /\ ~l.registered /\ l.idle = k.idle /\ l.next = k.next /\ l.got = k.got
        /\ l.over = k.over /\ l.pull = k.pull
    BY <2>1 DEF Call
  <2>4. l.error = "disconnected" /\ l.made = k.made /\ l.ended /\ l.notice = k.notice /\ l.pub = k.pub
    BY <2>1 DEF Call
  <2> HIDE DEF l
  <2>5. Runs(l)
    BY <2>3, SameRun DEF Good, Core
  <2>6. Holds(l) /\ Continues(l) /\ Ends(l) /\ Notifies(l)
    BY <2>1, <2>3, <2>4 DEF Good, Core, Holds, Continues, Ends, Notifies
  <2>7. Good(l) /\ Stands(k, l)
    BY <2>1, <2>2, <2>3, <2>4, <2>5, <2>6 DEF Good, Core, Stands, Settles
  <2>8. Good(Wake(l)) /\ Stands(l, Wake(l))
    BY <2>7, Wakes DEF Good
  <2>9. Wake(l).pub = k.pub
    BY <2>2, <2>4 DEF Wake, Call
  <2>10. Goes(k, Wake(l))
    BY <2>1, <2>7, <2>8 DEF Goes, Stands, Settles
  <2> QED
    BY <1>2, <2>9, <2>10 DEF Disconnected, l
<1> QED
  BY <1>1, <1>2

LEMMA Cuts ==
  ASSUME NEW k, Good(k)
  PROVE  Goes(k, Cut(k)) /\ Cut(k).pub = k.pub
<1> DEFINE q == IF k.request = "wire" THEN "no" ELSE k.request
<1>1. k \in Call
  BY DEF Good, Core
<1>2. q \in {"no", "wire", "stored"}
  BY <1>1 DEF Call
<1>3. Cut(k) = [k EXCEPT !.request = q]
  BY DEF Cut
<1> HIDE DEF q
<1> QED
  BY <1>2, <1>3, RequestGoes

\* A lost socket or channel, or a connection given up, on the publish task.
LEMMA Interrupts ==
  ASSUME NEW k, Good(k), NEW now
  PROVE  Goes(k, Interrupted(k, now))
<1>1. Good(Cut(k)) /\ Goes(k, Cut(k)) /\ Cut(k).pub = k.pub
  BY Cuts DEF Goes
<1>2. CASE k.pub = "sending" /\ now = "down"
  <2>1. Goes(Cut(k), [Cut(k) EXCEPT !.pub = "again"])
    BY <1>1, <1>2, PublishGoes
  <2>2. Goes(k, [Cut(k) EXCEPT !.pub = "again"])
    BY <1>1, <2>1, GoesOn
  <2>3. Interrupted(k, now) = [Cut(k) EXCEPT !.pub = "again"]
    BY <1>2 DEF Interrupted
  <2> QED
    BY <2>2, <2>3
<1>3. CASE k.pub \in {"sending", "resending"} /\ ~(k.pub = "sending" /\ now = "down")
  <2>1. Goes(Cut(k), PublishFails(Cut(k), "ambiguous"))
    BY <1>1, <1>3, PublishFailing
  <2>2. Goes(k, PublishFails(Cut(k), "ambiguous"))
    BY <1>1, <2>1, GoesOn
  <2>3. Interrupted(k, now) = PublishFails(Cut(k), "ambiguous")
    BY <1>3 DEF Interrupted
  <2> QED
    BY <2>2, <2>3
<1>4. CASE k.pub \in {"parked", "again"} /\ now = "closed"
  <2>1. Goes(k, PublishFails(k, "ambiguous"))
    BY <1>4, PublishFailing
  <2>2. Interrupted(k, now) = PublishFails(k, "ambiguous")
    BY <1>4 DEF Interrupted
  <2> QED
    BY <2>1, <2>2
<1>5. CASE k.pub \notin {"sending", "resending"} /\ ~(k.pub \in {"parked", "again"} /\ now = "closed")
  <2>1. Interrupted(k, now) = k
    BY <1>5 DEF Interrupted
  <2> QED
    BY <2>1, Stays
<1> QED
  BY <1>2, <1>3, <1>4, <1>5

--------------------------------------------------------------------------------
(* The steps. *)

\* No step does to a call what it may not.
AllSettle == \A c \in Calls : Settles(call[c], call'[c])

LEMMA BecomesKeeps ==
  ASSUME IInv, NEW c \in Calls, call[c].made, NEW k, Goes(call[c], k), Becomes(c, k)
  PROVE  IInv' /\ AllSettle
<1>1. call' = [call EXCEPT ![c] = k] /\ k \in Call /\ call \in [Calls -> Call] /\ k.made
  BY DEF IInv, Becomes, Goes, Good, Core, Stands
<1>2. call'[c] = k /\ call' \in [Calls -> Call]
      /\ \A d \in Calls \ {c} : call'[d] = call[d]
  BY <1>1
<1>3. \A d \in Calls : Good(call'[d]) /\ (~call'[d].made => call'[d] = Unmade)
  BY <1>1, <1>2 DEF IInv, Goes
<1>4. AllSettle
  BY <1>2 DEF AllSettle, Goes, Stands, Settles
<1> QED
  BY <1>2, <1>3, <1>4 DEF IInv

\* A step that every call takes at once.
LEMMA AllGo ==
  ASSUME IInv, NEW f, call' = f, f = [c \in Calls |-> f[c]],
         \A c \in Calls : Goes(call[c], f[c]) /\ (~call[c].made => f[c] = Unmade)
  PROVE  IInv' /\ AllSettle
<1>1. \A c \in Calls : f[c] \in Call /\ f[c].made = call[c].made
  BY DEF Goes, Good, Core, Stands
<1>2. call' \in [Calls -> Call]
  BY <1>1
<1> QED
  BY <1>1, <1>2 DEF IInv, AllSettle, Goes, Stands

LEMMA CreateKeeps ==
  ASSUME IInv, NEW c \in Calls, Create(c)
  PROVE  IInv' /\ AllSettle
<1> DEFINE signals == {h \in SUBSET {"consumer", "signal"} : "consumer" \in h}
           first(h) == [Unmade EXCEPT !.made = TRUE, !.pub = "start", !.registered = TRUE,
                                      !.idle = TRUE, !.holders = h]
           second == [Unmade EXCEPT !.made = TRUE, !.ended = TRUE, !.holders = {"consumer"}]
<1>1. call[c] = Unmade
  BY DEF Create, IInv
<1>2. ASSUME NEW h \in signals PROVE Good(first(h)) /\ first(h).made
  <2> DEFINE one == first(h)
  <2>1. /\ ~one.cancelled /\ ~one.released /\ one.chunks = <<>> /\ one.registered
        /\ one.idle /\ one.next = 0 /\ one.got = <<>> /\ one.over = "no"
        /\ ~one.ended /\ one.notice = "none" /\ one.made
    BY DEF Unmade
  <2>2. one \in Call
    <3>1. Unmade \in Call
      BY UnmadeIsGood DEF Good, Core
    <3>2. \A m \in Call : [m EXCEPT !.made = TRUE] \in Call
      BY DEF Call
    <3>3. \A m \in Call : [m EXCEPT !.pub = "start"] \in Call
      BY DEF Call
    <3>4. \A m \in Call : [m EXCEPT !.registered = TRUE] \in Call
      BY DEF Call
    <3>5. \A m \in Call : [m EXCEPT !.idle = TRUE] \in Call
      BY DEF Call
    <3>6. \A m \in Call : [m EXCEPT !.holders = h] \in Call
      BY DEF Call
    <3>7. one = [[[[[Unmade EXCEPT !.made = TRUE] EXCEPT !.pub = "start"]
                    EXCEPT !.registered = TRUE] EXCEPT !.idle = TRUE] EXCEPT !.holders = h]
      BY DEF Unmade
    <3> QED
      BY <3>1, <3>2, <3>3, <3>4, <3>5, <3>6, <3>7
  <2> HIDE DEF one
  <2>3. Given(one) = 0 /\ Buffered(one) = 0
    BY <2>1, EmptySeq DEF Given, Buffered
  <2>4. Reach(one) = 0
    BY <2>3 DEF Reach
  <2>5. Runs(one)
    BY <2>1, <2>3, <2>4, TurnOf DEF Runs
  <2>6. Good(one) /\ one.made
    BY <2>1, <2>2, <2>4, <2>5 DEF Good, Core, Holds, Continues, Ends, Notifies
  <2> QED
    BY <2>6 DEF one
<1>3. Good(second) /\ second.made
  <2>1. /\ ~second.cancelled /\ ~second.released /\ second.chunks = <<>>
        /\ ~second.registered /\ ~second.idle /\ second.next = 0 /\ second.got = <<>>
        /\ second.over = "no" /\ second.pub = "none" /\ second.notice = "none" /\ second.made
    BY DEF Unmade
  <2>2. second \in Call
    <3>1. Unmade \in Call
      BY UnmadeIsGood DEF Good, Core
    <3>2. \A m \in Call : [m EXCEPT !.made = TRUE] \in Call
      BY DEF Call
    <3>3. \A m \in Call : [m EXCEPT !.ended = TRUE] \in Call
      BY DEF Call
    <3>4. \A m \in Call : [m EXCEPT !.holders = {"consumer"}] \in Call
      BY DEF Call
    <3>5. second = [[[Unmade EXCEPT !.made = TRUE] EXCEPT !.ended = TRUE]
                     EXCEPT !.holders = {"consumer"}]
      BY DEF Unmade
    <3> QED
      BY <3>1, <3>2, <3>3, <3>4, <3>5
  <2> HIDE DEF second
  <2>3. Given(second) = 0 /\ Buffered(second) = 0
    BY <2>1, EmptySeq DEF Given, Buffered
  <2>4. Reach(second) = 0
    BY <2>3 DEF Reach
  <2>5. Runs(second)
    BY <2>1, <2>3, <2>4, TurnOf DEF Runs
  <2> QED
    BY <2>1, <2>2, <2>4, <2>5 DEF Good, Core, Holds, Continues, Ends, Notifies
<1> HIDE DEF first, second
<1>4. \/ \E h \in signals : call' = [call EXCEPT ![c] = first(h)]
      \/ call' = [call EXCEPT ![c] = second]
  <2>1. CASE \E signal \in SUBSET {"signal"} : Becomes(c, first({"consumer"} \cup signal))
    <3>1. PICK signal \in SUBSET {"signal"} : Becomes(c, first({"consumer"} \cup signal))
      BY <2>1
    <3>2. {"consumer"} \cup signal \in signals
      OBVIOUS
    <3> QED
      BY <3>1, <3>2 DEF Becomes
  <2>2. CASE Becomes(c, second)
    BY <2>2 DEF Becomes
  <2> QED
    BY <2>1, <2>2 DEF Create, first, second
<1>5. PICK k : Good(k) /\ k.made /\ k \in Call /\ call' = [call EXCEPT ![c] = k]
  BY <1>2, <1>3, <1>4 DEF Good, Core
<1>6. call'[c] = k /\ call' \in [Calls -> Call]
      /\ \A d \in Calls \ {c} : call'[d] = call[d]
  BY <1>5 DEF IInv
<1>7. Settles(call[c], k)
  BY <1>1 DEF Settles, Unmade
<1>8. AllSettle
  BY <1>6, <1>7 DEF AllSettle, Settles
<1> QED
  BY <1>5, <1>6, <1>8 DEF IInv

LEMMA PublishStepKeeps ==
  ASSUME IInv, NEW c \in Calls, PublishStep(c)
  PROVE  IInv' /\ AllSettle
<1>1. Good(call[c]) /\ (~call[c].made => call[c] = Unmade)
  BY DEF IInv
<1>2. call[c].pub # "none" => call[c].made
  BY <1>1 DEF Unmade
<1>3. CASE PublishStarts(c)
  <2>1. call[c].pub = "start" /\ call[c].made
    BY <1>2, <1>3 DEF PublishStarts
  <2>2. Goes(call[c], Launch(call[c], "sending"))
    BY <1>1, <2>1, Launches
  <2>3. Goes(call[c], [call[c] EXCEPT !.pub = "parked"])
    BY <1>1, <2>1, PublishGoes
  <2>4. Goes(call[c], PublishFails(call[c], "ambiguous"))
    BY <1>1, <2>1, PublishFailing
  <2>5. PICK k : Goes(call[c], k) /\ Becomes(c, k)
    BY <1>3, <2>2, <2>3, <2>4 DEF PublishStarts
  <2> QED
    BY <2>1, <2>5, BecomesKeeps
<1>4. CASE PublishResumes(c)
  <2>1. PICK step \in {"sending", "resending"} : Becomes(c, Launch(call[c], step))
    BY <1>4 DEF PublishResumes
  <2>2. call[c].pub \in {"woken", "rewoken"}
    BY <1>4 DEF PublishResumes
  <2>3. Goes(call[c], Launch(call[c], step))
    BY <1>1, <2>2, Launches
  <2> QED
    BY <1>2, <2>1, <2>2, <2>3, BecomesKeeps
<1>5. CASE ReadinessFails(c) \/ ConfirmTimesOut(c)
  <2>1. call[c].pub \in Unsent \cup Sending /\ Becomes(c, PublishFails(call[c], "ambiguous"))
    BY <1>5 DEF ReadinessFails, ConfirmTimesOut
  <2>2. Goes(call[c], PublishFails(call[c], "ambiguous"))
    BY <1>1, <2>1, PublishFailing
  <2> QED
    BY <1>2, <2>1, <2>2, BecomesKeeps
<1>6. CASE Confirmed(c)
  <2>1. call[c].pub \in {"sending", "resending"} /\ Becomes(c, [call[c] EXCEPT !.pub = "sent"])
    BY <1>6 DEF Confirmed
  <2>2. Goes(call[c], [call[c] EXCEPT !.pub = "sent"])
    BY <1>1, <2>1, PublishGoes
  <2> QED
    BY <1>2, <2>1, <2>2, BecomesKeeps
<1> QED
  BY <1>3, <1>4, <1>5, <1>6 DEF PublishStep

LEMMA BrokerKeeps ==
  ASSUME IInv, NEW c \in Calls, Refused(c) \/ BrokerStores(c)
  PROVE  IInv' /\ AllSettle
<1>1. Good(call[c]) /\ (~call[c].made => call[c] = Unmade)
  BY DEF IInv
<1>2. CASE Refused(c)
  <2> DEFINE k == [call[c] EXCEPT !.request = "no"]
  <2>1. call[c].pub \in {"sending", "resending"} /\ Becomes(c, PublishFails(k, "definite"))
    BY <1>2 DEF Refused
  <2>2. Goes(call[c], k) /\ k.pub = call[c].pub
    BY <1>1, RequestGoes
  <2> HIDE DEF k
  <2>3. Goes(k, PublishFails(k, "definite"))
    BY <2>1, <2>2, PublishFailing DEF Goes
  <2>4. Goes(call[c], PublishFails(k, "definite"))
    BY <2>2, <2>3, GoesOn
  <2>5. call[c].made
    BY <1>1, <2>1 DEF Unmade
  <2> QED
    BY <2>1, <2>4, <2>5, BecomesKeeps
<1>3. CASE BrokerStores(c)
  <2>1. call[c].request = "wire" /\ Becomes(c, [call[c] EXCEPT !.request = "stored"])
    BY <1>3 DEF BrokerStores
  <2>2. Goes(call[c], [call[c] EXCEPT !.request = "stored"])
    BY <1>1, RequestGoes
  <2>3. call[c].made
    BY <1>1, <2>1 DEF Unmade
  <2> QED
    BY <2>1, <2>2, <2>3, BecomesKeeps
<1> QED
  BY <1>2, <1>3

LEMMA TimerKeeps ==
  ASSUME IInv, NEW c \in Calls, NoticeFalls(c) \/ IdleFires(c) \/ Close(c)
  PROVE  IInv' /\ AllSettle
<1>1. Good(call[c]) /\ (~call[c].made => call[c] = Unmade)
  BY DEF IInv
<1>2. CASE NoticeFalls(c)
  <2>1. call[c].notice = "due" /\ Becomes(c, Notify(call[c]))
    BY <1>2 DEF NoticeFalls
  <2>2. call[c].made
    BY <1>1, <2>1 DEF Unmade
  <2> QED
    BY <1>1, <2>1, <2>2, NoticeGoes, BecomesKeeps
<1>3. CASE IdleFires(c)
  <2>1. PICK u : /\ u = [call[c] EXCEPT !.idle = FALSE]
                 /\ Becomes(c, IF u.ended THEN u ELSE Fail(u, "timeout"))
    BY <1>3 DEF IdleFires
  <2>2. call[c].idle /\ call[c].made
    BY <1>1, <1>3 DEF IdleFires, Unmade
  <2>3. Goes(call[c], IF u.ended THEN u ELSE Fail(u, "timeout"))
    BY <1>1, <2>1, <2>2, IdleGoes
  <2> QED
    BY <2>1, <2>2, <2>3, BecomesKeeps
<1>4. CASE Close(c)
  <2>1. call[c].made /\ Becomes(c, Cancel(call[c]))
    BY <1>1, <1>4 DEF Close, Unmade
  <2> QED
    BY <1>1, <2>1, Cancels, BecomesKeeps
<1> QED
  BY <1>2, <1>3, <1>4

LEMMA ConsumerKeeps ==
  ASSUME IInv, NEW c \in Calls,
         Pull(c) \/ Resume(c) \/ ConsumerCancelled(c) \/ Drops(c) \/ Forget(c)
  PROVE  IInv' /\ AllSettle
<1>1. Good(call[c]) /\ (~call[c].made => call[c] = Unmade)
  BY DEF IInv
<1>2. call[c].pull # "idle" => call[c].over = "no" /\ call[c].made
  BY <1>1 DEF Good, Core, Ends, Unmade
<1>3. CASE Pull(c)
  <2>1. call[c].made /\ call[c].over = "no"
    BY <1>1, <1>3 DEF Pull, Unmade
  <2>2. Goes(call[c], Take(call[c]))
    BY <1>1, <2>1, Takes
  <2>3. Goes(call[c], [call[c] EXCEPT !.pull = "first", !.woken = FALSE])
    BY <1>1, <2>1, PullGoes
  <2>4. PICK k : Goes(call[c], k) /\ Becomes(c, k)
    BY <1>3, <2>2, <2>3 DEF Pull
  <2> QED
    BY <2>1, <2>4, BecomesKeeps
<1>4. CASE Resume(c)
  <2>1. call[c].pull # "idle" /\ Becomes(c, Take(call[c]))
    BY <1>4 DEF Resume
  <2>2. Goes(call[c], Take(call[c]))
    BY <1>1, <1>2, <2>1, Takes
  <2> QED
    BY <1>2, <2>1, <2>2, BecomesKeeps
<1>5. CASE ConsumerCancelled(c)
  <2> DEFINE k == [Cancel(call[c]) EXCEPT !.pull = "idle", !.over = "quit"]
  <2>1. call[c].pull # "idle" /\ Becomes(c, k)
    BY <1>5 DEF ConsumerCancelled
  <2>2. Goes(call[c], k)
    BY <1>1, Quits
  <2> QED
    BY <1>2, <2>1, <2>2, BecomesKeeps
<1>6. CASE Forget(c)
  <2> DEFINE k == [call[c] EXCEPT !.registered = FALSE, !.chunks = <<>>, !.over = "dropped"]
  <2>1. /\ call[c].registered /\ call[c].pull = "idle" /\ ~call[c].idle
        /\ Becomes(c, k)
    BY <1>6 DEF Forget, Unreferenced
  <2>2. call[c].made
    BY <1>1, <2>1 DEF Unmade
  <2>3. Goes(call[c], k)
    BY <1>1, <2>1, Forgets
  <2> QED
    BY <2>1, <2>2, <2>3, BecomesKeeps
<1>7. CASE Drops(c)
  <2>1. "consumer" \in call[c].holders
        /\ Becomes(c, [call[c] EXCEPT !.holders = @ \ {"consumer"}])
    BY <1>7 DEF Drops
  <2>2. Goes(call[c], [call[c] EXCEPT !.holders = @ \ {"consumer"}])
    BY <1>1, HolderGoes
  <2>3. call[c].made
    BY <1>1, <2>1 DEF Unmade
  <2> QED
    BY <2>1, <2>2, <2>3, BecomesKeeps
<1> QED
  BY <1>3, <1>4, <1>5, <1>6, <1>7

LEMMA ChunkKeeps ==
  ASSUME IInv, NEW c \in Calls, NEW n \in 0..Last, ChunkArrives(c, n)
  PROVE  IInv' /\ AllSettle
<1>1. Good(call[c]) /\ call[c].made /\ call[c].registered
  BY DEF IInv, ChunkArrives, Unmade
<1>2. Goes(call[c], Arrive(call[c], n))
  BY <1>1, Arrives
<1> QED
  BY <1>1, <1>2, BecomesKeeps DEF ChunkArrives

LEMMA LinkKeeps ==
  ASSUME IInv, SocketDrops \/ ChannelCloses \/ ConnectionCloses \/ Reconnects
  PROVE  IInv' /\ AllSettle
<1>1. \A c \in Calls : Good(call[c]) /\ (~call[c].made => call[c] = Unmade)
  BY DEF IInv
<1>2. \A now : Interrupted(Unmade, now) = Unmade /\ Disconnected(Unmade) = Unmade
  BY DEF Unmade, Interrupted, Disconnected
<1>3. ASSUME NEW now, call' = [c \in Calls |-> Interrupted(call[c], now)]
      PROVE  IInv' /\ AllSettle
  <2> DEFINE F(c) == Interrupted(call[c], now)
  <2>1. \A c \in Calls : Goes(call[c], F(c)) /\ (~call[c].made => F(c) = Unmade)
    BY <1>1, <1>2, Interrupts
  <2>2. call' = [c \in Calls |-> F(c)]
    BY <1>3
  <2> DEFINE f == [c \in Calls |-> F(c)]
  <2>3. f = [c \in Calls |-> f[c]] /\ \A c \in Calls : f[c] = F(c)
    OBVIOUS
  <2>4. \A c \in Calls : Goes(call[c], f[c]) /\ (~call[c].made => f[c] = Unmade)
    BY <2>1, <2>3
  <2> HIDE DEF f
  <2> QED
    BY <2>2, <2>3, <2>4, AllGo DEF f
<1>4. CASE SocketDrops
  <2> DEFINE F(c) == Interrupted(Disconnected(call[c]), "down")
  <2>1. ASSUME NEW c \in Calls
        PROVE  Goes(call[c], F(c)) /\ (~call[c].made => F(c) = Unmade)
    <3>1. Goes(call[c], Disconnected(call[c])) /\ Good(Disconnected(call[c]))
      BY <1>1, Disconnects DEF Goes
    <3>2. Goes(Disconnected(call[c]), F(c))
      BY <3>1, Interrupts
    <3> QED
      BY <1>1, <1>2, <3>1, <3>2, GoesOn
  <2>2. call' = [c \in Calls |-> F(c)]
    BY <1>4 DEF SocketDrops
  <2> DEFINE f == [c \in Calls |-> F(c)]
  <2>3. f = [c \in Calls |-> f[c]] /\ \A c \in Calls : f[c] = F(c)
    OBVIOUS
  <2>4. \A c \in Calls : Goes(call[c], f[c]) /\ (~call[c].made => f[c] = Unmade)
    BY <2>1, <2>3
  <2> HIDE DEF f
  <2> QED
    BY <2>2, <2>3, <2>4, AllGo DEF f
<1>5. CASE ChannelCloses
  BY <1>3, <1>5 DEF ChannelCloses, ChannelLost
<1>6. CASE ConnectionCloses
  BY <1>3, <1>6 DEF ConnectionCloses, ChannelLost
<1>7. CASE Reconnects
  <2> DEFINE F(c) == [call[c] EXCEPT !.pub = CASE @ = "parked" -> "woken"
                                              [] @ = "again" -> "rewoken" [] OTHER -> @]
  <2>1. ASSUME NEW c \in Calls
        PROVE  Goes(call[c], F(c)) /\ (~call[c].made => F(c) = Unmade)
    <3>1. CASE call[c].pub = "parked"
      <4>1. F(c) = [call[c] EXCEPT !.pub = "woken"]
        BY <3>1
      <4> QED
        BY <1>1, <3>1, <4>1, PublishGoes DEF Unmade
    <3>2. CASE call[c].pub = "again"
      <4>1. F(c) = [call[c] EXCEPT !.pub = "rewoken"]
        BY <3>2
      <4> QED
        BY <1>1, <3>2, <4>1, PublishGoes DEF Unmade
    <3>3. CASE call[c].pub \notin {"parked", "again"}
      <4>1. F(c) = call[c]
        BY <1>1, <3>3 DEF Good, Core, Call
      <4> QED
        BY <1>1, <4>1, Stays
    <3> QED
      BY <3>1, <3>2, <3>3
  <2>2. call' = [c \in Calls |-> F(c)]
    BY <1>7 DEF Reconnects
  <2> DEFINE f == [c \in Calls |-> F(c)]
  <2>3. f = [c \in Calls |-> f[c]] /\ \A c \in Calls : f[c] = F(c)
    OBVIOUS
  <2>4. \A c \in Calls : Goes(call[c], f[c]) /\ (~call[c].made => f[c] = Unmade)
    BY <2>1, <2>3
  <2> HIDE DEF f
  <2> QED
    BY <2>2, <2>3, <2>4, AllGo DEF f
<1> QED
  BY <1>4, <1>5, <1>6, <1>7

LEMMA InitIInv == Init => IInv
  BY UnmadeIsGood DEF Init, IInv, Good, Core

LEMMA NextIInv ==
  ASSUME IInv, [Next]_vars
  PROVE  IInv' /\ AllSettle
<1>1. ASSUME NEW c \in Calls, Create(c)  PROVE IInv' /\ AllSettle
  BY <1>1, CreateKeeps
<1>2. ASSUME NEW c \in Calls, PublishStep(c)  PROVE IInv' /\ AllSettle
  BY <1>2, PublishStepKeeps
<1>3. ASSUME NEW c \in Calls, Refused(c) \/ BrokerStores(c)  PROVE IInv' /\ AllSettle
  BY <1>3, BrokerKeeps
<1>4. ASSUME NEW c \in Calls, NoticeFalls(c) \/ IdleFires(c) \/ Close(c)
      PROVE  IInv' /\ AllSettle
  BY <1>4, TimerKeeps
<1>5. ASSUME NEW c \in Calls,
             Pull(c) \/ Resume(c) \/ ConsumerCancelled(c) \/ Drops(c) \/ Forget(c)
      PROVE  IInv' /\ AllSettle
  BY <1>5, ConsumerKeeps
<1>6. ASSUME NEW c \in Calls, NEW n \in 0..Last, ChunkArrives(c, n)
      PROVE  IInv' /\ AllSettle
  BY <1>6, ChunkKeeps
<1>7. ASSUME SocketDrops \/ ChannelCloses \/ ConnectionCloses \/ Reconnects
      PROVE  IInv' /\ AllSettle
  BY <1>7, LinkKeeps
<1>8. ASSUME UNCHANGED vars  PROVE IInv' /\ AllSettle
  BY <1>8 DEF vars, IInv, AllSettle, Settles
<1> QED
  BY <1>1, <1>2, <1>3, <1>4, <1>5, <1>6, <1>7, <1>8 DEF Next

LEMMA Invariance == Spec => []IInv
<1>1. IInv /\ [Next]_vars => IInv'
  BY NextIInv
<1> QED
  BY <1>1, InitIInv, PTL DEF Spec

--------------------------------------------------------------------------------
(* The error of a call. *)

\* What decides the error of a call is part of its record.
Worded(k) ==
  {"error", "ended", "released", "registered", "cancelled", "pub", "chunks", "idle", "pull",
   "over", "woken", "notice", "request", "next", "got", "holders"} \subseteq DOMAIN k

\* A call with an error is over; it was released, unless the connection was lost.
Blamed(k) ==
  k.error # "none" => k.ended /\ (k.released \/ (k.error = "disconnected" /\ ~k.registered))

\* What may become of the error of a call.
Upholds(k, l) ==
  /\ k.released => l.released
  /\ \/ l.error = k.error
     \/ ~k.released /\ (k.error = "none" \/ (k.error = "disconnected" /\ l.error = "publish"))

Blames(k, l) == Worded(l) /\ Blamed(l) /\ Upholds(k, l)

LEMMA BlamesOn ==
  ASSUME NEW k, NEW l, NEW m, Blames(k, l), Blames(l, m)
  PROVE  Blames(k, m)
  BY DEF Blames, Upholds

\* A handler that leaves the error and the end alone, and gives up a slot or more.
Quiet(k, l) ==
  /\ Worded(l) /\ l.error = k.error /\ l.ended = k.ended
  /\ k.released => l.released
  /\ l.registered => k.registered

LEMMA QuietOn ==
  ASSUME NEW k, NEW l, NEW m, Quiet(k, l), Quiet(l, m)
  PROVE  Quiet(k, m)
  BY DEF Quiet

LEMMA QuietBlames ==
  ASSUME NEW k, NEW l, Blamed(k), Quiet(k, l)
  PROVE  Blames(k, l)
  BY DEF Blames, Blamed, Upholds, Quiet

LEMMA QuietParts ==
  ASSUME NEW k, Worded(k)
  PROVE  /\ Quiet(k, k) /\ Quiet(k, Wake(k)) /\ Quiet(k, Release(k)) /\ Quiet(k, Notify(k))
         /\ Quiet(k, Stop(k)) /\ Quiet(k, Cut(k)) /\ Release(k).released
         /\ Quiet(k, [k EXCEPT !.cancelled = TRUE])
         /\ Stop(k).released = k.released /\ Wake(k).released = k.released
         /\ [k EXCEPT !.cancelled = TRUE].released = k.released
<1>1. Quiet(k, k) /\ Quiet(k, Wake(k)) /\ Wake(k).released = k.released
  BY DEF Quiet, Worded, Wake
<1>2. Quiet(k, Release(k)) /\ Release(k).released
  <2> DEFINE l == [k EXCEPT !.released = TRUE, !.idle = FALSE, !.registered = FALSE,
                            !.chunks = <<>>, !.holders = @ \ {"signal"}]
  <2>1. Quiet(k, l) /\ l.released
    BY DEF Quiet, Worded
  <2> HIDE DEF l
  <2>2. Release(k) = IF k.released THEN k ELSE l
    BY DEF Release, l
  <2> QED
    BY <1>1, <2>1, <2>2
<1>3. Quiet(k, Notify(k)) /\ Notify(k).released = k.released
  BY DEF Quiet, Worded, Notify
<1>4. Quiet(k, [k EXCEPT !.pub = "withdrawn"]) /\ Quiet(k, [k EXCEPT !.notice = "due"])
      /\ [k EXCEPT !.pub = "withdrawn"].released = k.released
      /\ [k EXCEPT !.notice = "due"].released = k.released
  BY DEF Quiet, Worded
<1>5. Quiet(k, Stop(k)) /\ Stop(k).released = k.released
  BY <1>3, <1>4 DEF Stop
<1>6. Quiet(k, Cut(k)) /\ Quiet(k, [k EXCEPT !.cancelled = TRUE])
      /\ [k EXCEPT !.cancelled = TRUE].released = k.released
  BY DEF Quiet, Worded, Cut
<1> QED
  BY <1>1, <1>2, <1>3, <1>5, <1>6

LEMMA AbandonQuiet ==
  ASSUME NEW k, Worded(k), k.cancelled => k.released
  PROVE  Quiet(k, Abandon(k)) /\ Abandon(k).released
<1> DEFINE l == [k EXCEPT !.cancelled = TRUE]
           r == Release(l)
<1>1. Quiet(k, l)
  BY QuietParts
<1> HIDE DEF l
<1>2. Quiet(l, r) /\ r.released
  BY <1>1, QuietParts DEF Quiet
<1> HIDE DEF r
<1>3. Quiet(r, Stop(r)) /\ Stop(r).released
  BY <1>2, QuietParts DEF Quiet
<1>4. Quiet(k, Stop(r))
  BY <1>1, <1>2, <1>3, QuietOn
<1>5. Abandon(k) = IF k.cancelled THEN k ELSE Stop(r)
  BY DEF Abandon, r, l
<1> QED
  BY <1>3, <1>4, <1>5, QuietParts

LEMMA CancelBlames ==
  ASSUME NEW k, Worded(k), Blamed(k), k.cancelled => k.released
  PROVE  Blames(k, Cancel(k))
<1> DEFINE l == [k EXCEPT !.cancelled = TRUE]
           r == Release(l)
           e == [r EXCEPT !.ended = TRUE]
           w == Wake(e)
<1>1. Quiet(k, l)
  BY QuietParts
<1> HIDE DEF l
<1>2. Quiet(l, r) /\ r.released
  BY <1>1, QuietParts DEF Quiet
<1>3. Blames(k, r)
  BY <1>1, <1>2, QuietOn, QuietBlames
<1> HIDE DEF r
<1>4. Blames(r, e) /\ e.released
  BY <1>2, <1>3 DEF Blames, Blamed, Upholds, Worded
<1> HIDE DEF e
<1>5. Quiet(e, w) /\ Quiet(w, Stop(w))
  BY <1>4, QuietParts DEF Blames, Quiet
<1>6. Blames(e, Stop(w))
  BY <1>4, <1>5, QuietOn, QuietBlames DEF Blames
<1>7. Blames(k, Stop(w))
  BY <1>3, <1>4, <1>6, BlamesOn
<1>8. Cancel(k) = IF k.cancelled THEN k ELSE Stop(w)
  BY DEF Cancel, w, e, r, l
<1> QED
  BY <1>7, <1>8, QuietParts, QuietBlames

\* A stream fails by itself only while it has no error.
LEMMA FailBlames ==
  ASSUME NEW k, Worded(k), k.error = "none", ~k.released, ~k.cancelled, NEW error
  PROVE  Blames(k, Fail(k, error))
<1> DEFINE e == [k EXCEPT !.error = error, !.ended = TRUE]
           a == Abandon(e)
<1>1. Worded(e) /\ e.error = error /\ e.ended /\ ~e.cancelled
  BY DEF Worded
<1> HIDE DEF e
<1>2. Quiet(e, a) /\ a.released
  BY <1>1, AbandonQuiet
<1> HIDE DEF a
<1>3. Quiet(a, Wake(a)) /\ Wake(a).released
  BY <1>2, QuietParts DEF Quiet
<1>4. Fail(k, error) = Wake(a)
  BY DEF Fail, a, e
<1> QED
  BY <1>1, <1>2, <1>3, <1>4 DEF Blames, Blamed, Upholds, Quiet

LEMMA PublishBlames ==
  ASSUME NEW k, Worded(k), Blamed(k)
  PROVE  /\ \A how : Blames(k, PublishFails(k, how))
         /\ \A step : Blames(k, Launch(k, step))
<1>1. ASSUME NEW how PROVE Blames(k, PublishFails(k, how))
  <2> DEFINE e == [k EXCEPT !.pub = how, !.error = "publish", !.ended = TRUE]
             r == Release(e)
             d == [r EXCEPT !.cancelled = TRUE, !.notice = "due"]
             g == IF how = "definite" THEN r ELSE d
  <2>1. CASE k.released
    <3>1. Quiet(k, [k EXCEPT !.pub = how])
      BY DEF Quiet, Worded
    <3> QED
      BY <2>1, <3>1, QuietBlames DEF PublishFails
  <2>2. CASE ~k.released
    <3>1. Worded(e) /\ e.error = "publish" /\ e.ended
      BY DEF Worded
    <3> HIDE DEF e
    <3>2. Quiet(e, r) /\ r.released
      BY <3>1, QuietParts
    <3> HIDE DEF r
    <3>3. Quiet(r, d) /\ d.released
      BY <3>2 DEF Quiet, Worded
    <3>4. Quiet(e, g) /\ g.released
      BY <3>2, <3>3, QuietOn
    <3> HIDE DEF d, g
    <3>5. Quiet(g, Wake(g)) /\ Wake(g).released
      BY <3>4, QuietParts DEF Quiet
    <3>6. PublishFails(k, how) = Wake(g)
      BY <2>2 DEF PublishFails, g, d, r, e
    <3> QED
      BY <2>2, <3>1, <3>4, <3>5, <3>6 DEF Blames, Blamed, Upholds, Quiet
  <2> QED
    BY <2>1, <2>2
<1>2. ASSUME NEW step PROVE Blames(k, Launch(k, step))
  <2>1. Quiet(k, [k EXCEPT !.pub = step, !.request = "wire"])
    BY DEF Quiet, Worded
  <2> QED
    BY <1>1, <2>1, QuietBlames DEF Launch
<1> QED
  BY <1>1, <1>2

LEMMA TakeBlames ==
  ASSUME NEW k, Worded(k), Blamed(k)
  PROVE  Blames(k, Take(k))
<1> DEFINE r == Release(k)
           more == [k EXCEPT !.pull = "idle", !.got = Append(@, Head(k.chunks)),
                             !.chunks = Tail(@), !.idle = TRUE]
           park == [k EXCEPT !.pull = "loop", !.woken = FALSE]
           over(how) == [r EXCEPT !.pull = "idle", !.over = how]
<1>1. Quiet(k, more) /\ Quiet(k, park)
  BY DEF Quiet, Worded
<1>2. Quiet(k, r)
  BY QuietParts
<1> HIDE DEF r
<1>3. \A how : Quiet(r, over(how))
  BY <1>2 DEF Quiet, Worded
<1>4. \A how : Quiet(k, over(how))
  BY <1>2, <1>3, QuietOn
<1>5. Take(k) \in {over("failed"), more, over("ended"), park}
  BY DEF Take, over, more, park, r
<1> HIDE DEF over, more, park
<1> QED
  BY <1>1, <1>4, <1>5, QuietBlames

LEMMA ArriveBlames ==
  ASSUME NEW k, Worded(k), Blamed(k), k.registered, ~k.released, ~k.cancelled, NEW n
  PROVE  Blames(k, Arrive(k, n))
<1> DEFINE late == [k EXCEPT !.ended = @ \/ n = Last]
           full == [k EXCEPT !.next = n + 1]
           more == [k EXCEPT !.next = n + 1, !.chunks = Append(@, n), !.idle = TRUE,
                             !.ended = @ \/ n = Last]
<1>1. k.error = "none"
  BY DEF Blamed
<1>2. ASSUME NEW l, Worded(l), l.error = "none", l.released = k.released
      PROVE  Blames(k, l) /\ Blames(k, Wake(l))
  <2>1. Quiet(l, Wake(l))
    BY <1>2, QuietParts
  <2> QED
    BY <1>1, <1>2, <2>1 DEF Blames, Blamed, Upholds, Quiet
<1>3. Worded(late) /\ late.error = "none" /\ late.released = k.released
  BY <1>1 DEF Worded
<1>4. Worded(more) /\ more.error = "none" /\ more.released = k.released
  BY <1>1 DEF Worded
<1>5. Worded(full) /\ full.error = "none" /\ ~full.released /\ ~full.cancelled
      /\ full.released = k.released
  BY <1>1 DEF Worded
<1>6. Blames(k, full)
  BY <1>2, <1>5
<1> HIDE DEF late, more, full
<1>7. Blames(full, Fail(full, "backpressure")) /\ Blames(k, Fail(k, "sequence"))
  BY <1>1, <1>5, FailBlames
<1>8. Blames(k, Fail(full, "backpressure"))
  BY <1>6, <1>7, BlamesOn
<1>9. Blames(k, Wake(late)) /\ Blames(k, Wake(more))
  BY <1>2, <1>3, <1>4
<1>10. Arrive(k, n) \in {Wake(late), Fail(k, "sequence"), Fail(full, "backpressure"), Wake(more)}
  BY DEF Arrive, late, full, more
<1> QED
  BY <1>7, <1>8, <1>9, <1>10

LEMMA LossBlames ==
  ASSUME NEW k, Worded(k), Blamed(k)
  PROVE  /\ (k.registered => ~k.released) => Blames(k, Disconnected(k))
         /\ \A now : Blames(k, Interrupted(k, now))
<1>1. ASSUME k.registered => ~k.released PROVE Blames(k, Disconnected(k))
  <2> DEFINE l == [k EXCEPT !.error = "disconnected", !.ended = TRUE, !.registered = FALSE]
  <2>1. Worded(l) /\ l.error = "disconnected" /\ l.ended /\ ~l.registered /\ l.released = k.released
    BY DEF Worded
  <2> HIDE DEF l
  <2>2. Quiet(l, Wake(l))
    BY <2>1, QuietParts
  <2>3. Disconnected(k) = IF ~k.registered THEN k ELSE Wake(l)
    BY DEF Disconnected, l
  <2>4. CASE ~k.registered
    <3>1. Disconnected(k) = k /\ Quiet(k, k)
      BY <2>3, <2>4, QuietParts
    <3> QED
      BY <3>1, QuietBlames
  <2>5. CASE k.registered
    BY <1>1, <2>1, <2>2, <2>3, <2>5 DEF Blames, Blamed, Upholds, Quiet
  <2> QED
    BY <2>4, <2>5
<1>2. ASSUME NEW now PROVE Blames(k, Interrupted(k, now))
  <2>1. Blames(k, Cut(k))
    BY QuietParts, QuietBlames
  <2>2. Blames(k, PublishFails(Cut(k), "ambiguous")) /\ Blames(k, PublishFails(k, "ambiguous"))
    BY <2>1, PublishBlames, BlamesOn DEF Blames
  <2>3. Quiet(Cut(k), [Cut(k) EXCEPT !.pub = "again"])
    BY <2>1 DEF Blames, Quiet, Worded
  <2>4. Blames(k, [Cut(k) EXCEPT !.pub = "again"])
    BY <2>1, <2>3, QuietBlames, BlamesOn DEF Blames
  <2>5. Blames(k, k)
    BY QuietParts, QuietBlames
  <2> QED
    BY <2>2, <2>4, <2>5 DEF Interrupted
<1> QED
  BY <1>1, <1>2

\* No step blames a call twice.
AllBlame == \A c \in Calls : Upholds(call[c], call'[c])
Blameless == \A c \in Calls : Blamed(call[c])

LEMMA CallsWorded ==
  ASSUME NEW k \in Call
  PROVE  Worded(k)
  BY DEF Call, Worded

LEMMA BecomesBlames ==
  ASSUME IInv, Blameless, NEW c \in Calls, NEW k, Blames(call[c], k), Becomes(c, k)
  PROVE  Blameless' /\ AllBlame
<1>1. call'[c] = k /\ \A d \in Calls \ {c} : call'[d] = call[d]
  BY DEF IInv, Becomes
<1> QED
  BY <1>1 DEF Blameless, AllBlame, Blames, Upholds

LEMMA CallBlames ==
  ASSUME IInv, Blameless, NEW c \in Calls,
         \/ Create(c) \/ PublishStep(c) \/ Refused(c) \/ BrokerStores(c)
         \/ NoticeFalls(c) \/ IdleFires(c) \/ Close(c)
         \/ Pull(c) \/ Resume(c) \/ ConsumerCancelled(c) \/ Drops(c) \/ Forget(c)
         \/ \E n \in 0..Last : ChunkArrives(c, n)
  PROVE  Blameless' /\ AllBlame
<1> DEFINE o == call[c]
<1>1. Worded(o) /\ Blamed(o) /\ (o.cancelled => o.released) /\ (o.registered => ~o.released)
      /\ (o.idle => ~o.released) /\ (~o.made => o = Unmade)
  BY CallsWorded DEF IInv, Blameless, Good, Core, Holds
<1> HIDE DEF o
<1>2. ASSUME NEW k, Becomes(c, k), Quiet(o, k) PROVE Blameless' /\ AllBlame
  BY <1>1, <1>2, QuietBlames, BecomesBlames DEF o
<1>3. CASE Create(c)
  <2>1. o = Unmade
    BY <1>1, <1>3 DEF Create, o
  <2>2. PICK k : Becomes(c, k) /\ Worded(k) /\ k.error = "none"
    <3>1. CASE \E h \in SUBSET {"signal"} :
                 Becomes(c, [Unmade EXCEPT !.made = TRUE, !.pub = "start", !.registered = TRUE,
                                           !.idle = TRUE, !.holders = {"consumer"} \cup h])
      <4>1. PICK h : Becomes(c, [Unmade EXCEPT !.made = TRUE, !.pub = "start",
                             !.registered = TRUE, !.idle = TRUE, !.holders = {"consumer"} \cup h])
        BY <3>1
      <4> DEFINE k == [Unmade EXCEPT !.made = TRUE, !.pub = "start", !.registered = TRUE,
                                     !.idle = TRUE, !.holders = {"consumer"} \cup h]
      <4>2. Worded(k) /\ k.error = "none"
        BY DEF Unmade, Worded
      <4> QED
        BY <4>1, <4>2
    <3>2. CASE Becomes(c, [Unmade EXCEPT !.made = TRUE, !.ended = TRUE, !.holders = {"consumer"}])
      <4> DEFINE k == [Unmade EXCEPT !.made = TRUE, !.ended = TRUE, !.holders = {"consumer"}]
      <4>1. Worded(k) /\ k.error = "none"
        BY DEF Unmade, Worded
      <4> QED
        BY <3>2, <4>1
    <3> QED
      BY <1>3, <3>1, <3>2 DEF Create
  <2>3. Blames(o, k)
    BY <2>1, <2>2 DEF Blames, Blamed, Upholds, Unmade
  <2> QED
    BY <2>2, <2>3, BecomesBlames DEF o
<1>4. CASE PublishStep(c)
  <2>1. Blames(o, Launch(o, "sending")) /\ Blames(o, Launch(o, "resending"))
        /\ Blames(o, PublishFails(o, "ambiguous"))
    BY <1>1, PublishBlames
  <2>2. Quiet(o, [o EXCEPT !.pub = "parked"]) /\ Quiet(o, [o EXCEPT !.pub = "sent"])
    BY <1>1 DEF Quiet, Worded
  <2>3. PICK k : Becomes(c, k) /\ Blames(o, k)
    BY <1>1, <1>4, <2>1, <2>2, QuietBlames
       DEF PublishStep, PublishStarts, PublishResumes, ReadinessFails, Confirmed,
           ConfirmTimesOut, o
  <2> QED
    BY <2>3, BecomesBlames DEF o
<1>5. CASE Refused(c)
  <2> DEFINE k == [o EXCEPT !.request = "no"]
  <2>1. Quiet(o, k)
    BY <1>1 DEF Quiet, Worded
  <2>2. Becomes(c, PublishFails(k, "definite"))
    BY <1>5 DEF Refused, o
  <2> HIDE DEF k
  <2>3. Blames(o, k)
    BY <1>1, <2>1, QuietBlames
  <2>4. Blames(o, PublishFails(k, "definite"))
    BY <2>3, PublishBlames, BlamesOn DEF Blames
  <2> QED
    BY <2>2, <2>4, BecomesBlames DEF o
<1>6. CASE BrokerStores(c)
  <2>1. Quiet(o, [o EXCEPT !.request = "stored"])
    BY <1>1 DEF Quiet, Worded
  <2> QED
    BY <1>2, <1>6, <2>1 DEF BrokerStores, o
<1>7. CASE NoticeFalls(c)
  <2>1. Quiet(o, Notify(o))
    BY <1>1, QuietParts
  <2> QED
    BY <1>2, <1>7, <2>1 DEF NoticeFalls, o
<1>8. CASE IdleFires(c)
  <2> DEFINE k == [o EXCEPT !.idle = FALSE]
  <2>1. Quiet(o, k) /\ k.cancelled = o.cancelled /\ k.released = o.released
    BY <1>1 DEF Quiet, Worded
  <2>2. ~o.released /\ Becomes(c, IF k.ended THEN k ELSE Fail(k, "timeout"))
    BY <1>1, <1>8 DEF IdleFires, o
  <2> HIDE DEF k
  <2>3. Blames(o, k)
    BY <1>1, <2>1, QuietBlames
  <2>4. ASSUME ~k.ended PROVE Blames(o, Fail(k, "timeout"))
    <3>1. k.error = "none" /\ ~k.released /\ ~k.cancelled
      BY <1>1, <2>1, <2>2, <2>3, <2>4 DEF Blames, Blamed
    <3> QED
      BY <2>3, <3>1, FailBlames, BlamesOn DEF Blames
  <2> QED
    BY <2>2, <2>3, <2>4, BecomesBlames DEF o
<1>9. CASE Close(c)
  BY <1>1, <1>9, CancelBlames, BecomesBlames DEF Close, o
<1>10. CASE Pull(c)
  <2>1. Blames(o, Take(o))
    BY <1>1, TakeBlames
  <2>2. Quiet(o, [o EXCEPT !.pull = "first", !.woken = FALSE])
    BY <1>1 DEF Quiet, Worded
  <2>3. PICK k : Becomes(c, k) /\ Blames(o, k)
    BY <1>1, <1>10, <2>1, <2>2, QuietBlames DEF Pull, o
  <2> QED
    BY <2>3, BecomesBlames DEF o
<1>11. CASE Resume(c)
  BY <1>1, <1>11, TakeBlames, BecomesBlames DEF Resume, o
<1>12. CASE ConsumerCancelled(c)
  <2> DEFINE k == [Cancel(o) EXCEPT !.pull = "idle", !.over = "quit"]
  <2>1. Blames(o, Cancel(o))
    BY <1>1, CancelBlames
  <2>2. Quiet(Cancel(o), k)
    BY <2>1 DEF Blames, Quiet, Worded
  <2>3. Becomes(c, k)
    BY <1>12 DEF ConsumerCancelled, o
  <2> HIDE DEF k
  <2>4. Blames(o, k)
    BY <2>1, <2>2, QuietBlames, BlamesOn DEF Blames
  <2> QED
    BY <2>3, <2>4, BecomesBlames DEF o
<1>13. CASE Drops(c)
  <2>1. Quiet(o, [o EXCEPT !.holders = @ \ {"consumer"}])
    BY <1>1 DEF Quiet, Worded
  <2> QED
    BY <1>2, <1>13, <2>1 DEF Drops, o
<1>14. CASE Forget(c)
  <2> DEFINE k == [o EXCEPT !.registered = FALSE, !.chunks = <<>>, !.over = "dropped"]
  <2>1. Quiet(o, k)
    BY <1>1 DEF Quiet, Worded
  <2>2. Becomes(c, k)
    BY <1>14 DEF Forget, o
  <2> QED
    BY <1>2, <2>1, <2>2
<1>15. ASSUME NEW n \in 0..Last, ChunkArrives(c, n) PROVE Blameless' /\ AllBlame
  <2>1. o.registered /\ Becomes(c, Arrive(o, n))
    BY <1>15 DEF ChunkArrives, o
  <2>2. Blames(o, Arrive(o, n))
    BY <1>1, <2>1, ArriveBlames
  <2> QED
    BY <2>1, <2>2, BecomesBlames DEF o
<1> QED
  BY <1>3, <1>4, <1>5, <1>6, <1>7, <1>8, <1>9, <1>10, <1>11, <1>12, <1>13, <1>14, <1>15

LEMMA LinkBlames ==
  ASSUME IInv, Blameless, SocketDrops \/ ChannelCloses \/ ConnectionCloses \/ Reconnects
  PROVE  Blameless' /\ AllBlame
<1>1. \A c \in Calls : /\ Worded(call[c]) /\ Blamed(call[c])
                       /\ call[c].registered => ~call[c].released
  BY CallsWorded DEF IInv, Blameless, Good, Core, Holds
<1>2. SUFFICES ASSUME NEW c \in Calls PROVE Blames(call[c], call'[c])
  BY DEF Blames, Blameless, AllBlame
<1>3. CASE SocketDrops
  <2>1. call'[c] = Interrupted(Disconnected(call[c]), "down")
    BY <1>3 DEF SocketDrops
  <2>2. Blames(call[c], Disconnected(call[c]))
    BY <1>1, LossBlames
  <2>3. Blames(Disconnected(call[c]), Interrupted(Disconnected(call[c]), "down"))
    BY <2>2, LossBlames DEF Blames
  <2> QED
    BY <2>1, <2>2, <2>3, BlamesOn
<1>4. CASE ChannelCloses \/ ConnectionCloses
  <2>1. PICK now : call'[c] = Interrupted(call[c], now)
    BY <1>4 DEF ChannelCloses, ConnectionCloses, ChannelLost
  <2> QED
    BY <1>1, <2>1, LossBlames
<1>5. CASE Reconnects
  <2>1. Quiet(call[c], call'[c])
    <3>1. call'[c] = [call[c] EXCEPT !.pub = CASE @ = "parked" -> "woken"
                                              [] @ = "again" -> "rewoken" [] OTHER -> @]
      BY <1>5 DEF Reconnects
    <3> QED
      BY <1>1, <3>1 DEF Quiet, Worded
  <2> QED
    BY <1>1, <2>1, QuietBlames
<1> QED
  BY <1>3, <1>4, <1>5

LEMMA NextBlames ==
  ASSUME IInv, Blameless, [Next]_vars
  PROVE  Blameless' /\ AllBlame
<1>1. CASE \E c \in Calls :
         \/ Create(c) \/ PublishStep(c) \/ Refused(c) \/ BrokerStores(c)
         \/ NoticeFalls(c) \/ IdleFires(c) \/ Close(c)
         \/ Pull(c) \/ Resume(c) \/ ConsumerCancelled(c) \/ Drops(c) \/ Forget(c)
         \/ \E n \in 0..Last : ChunkArrives(c, n)
  BY <1>1, CallBlames
<1>2. CASE SocketDrops \/ ChannelCloses \/ ConnectionCloses \/ Reconnects
  BY <1>2, LinkBlames
<1>3. CASE UNCHANGED vars
  BY <1>3 DEF vars, Blameless, AllBlame, Upholds
<1> QED
  BY <1>1, <1>2, <1>3 DEF Next

LEMMA BlamelessInvariance == Spec => [](IInv /\ Blameless)
<1>1. Init => IInv /\ Blameless
  BY InitIInv DEF Init, Unmade, Blameless, Blamed
<1>2. IInv /\ Blameless /\ [Next]_vars => (IInv /\ Blameless)'
  BY NextIInv, NextBlames
<1> QED
  BY <1>1, <1>2, PTL DEF Spec

--------------------------------------------------------------------------------
(* The sum of the buffers. *)

\* Induction, on a set of numbers.
LEMMA Climbs ==
  ASSUME NEW T, 0 \in T, \A m \in Nat : m \in T => m + 1 \in T
  PROVE  \A m \in Nat : m \in T
<1> SUFFICES ASSUME NEW n \in Nat, n \notin T PROVE FALSE
  OBVIOUS
<1> DEFINE R == {p \in Nat \X Nat : p[1] < p[2]}
           Left == Nat \ T
<1>1. IsWellFoundedOn(R, Nat)
  BY NatLessThanWellFounded DEF OpToRel
<1> HIDE DEF R
<1>2. PICK x \in Left : \A y \in Left : ~(<<y, x>> \in R)
  BY <1>1, WFMin
<1>3. x # 0 /\ x - 1 \in Nat
  OBVIOUS
<1>4. <<x - 1, x>> \in R
  BY <1>3 DEF R
<1> QED
  BY <1>2, <1>3, <1>4

\* g adds up the buffers of the calls K, one after another in the order of CHOOSE.
First(s) == CHOOSE c \in s : TRUE
Total(g, K, s) == IF s = {} THEN 0 ELSE Buffered(K[First(s)]) + g[s \ {First(s)}]
Sums(g, K) ==
  g \in [SUBSET Calls -> Nat] /\ \A s \in SUBSET Calls : g[s] = Total(g, K, s)

Sized(K) == \A c \in Calls : Buffered(K[c]) \in Nat

LEMMA Fewer ==
  ASSUME NEW s \in SUBSET Calls
  PROVE  /\ Cardinality(s) \in Nat /\ (Cardinality(s) = 0 => s = {})
         /\ s # {} => /\ First(s) \in s /\ First(s) \in Calls
                      /\ s \ {First(s)} \in SUBSET Calls
                      /\ Cardinality(s \ {First(s)}) = Cardinality(s) - 1
<1>1. IsFiniteSet(s)
  BY BoundAssumption, FS_Subset
<1>2. Cardinality(s) \in Nat /\ (Cardinality(s) = 0 => s = {})
  BY <1>1, FS_CardinalityType, FS_EmptySet
<1>3. ASSUME s # {}
      PROVE  /\ First(s) \in s /\ First(s) \in Calls
             /\ s \ {First(s)} \in SUBSET Calls
             /\ Cardinality(s \ {First(s)}) = Cardinality(s) - 1
  <2>1. First(s) \in s
    BY <1>3 DEF First
  <2> QED
    BY <1>1, <2>1, FS_RemoveElement
<1> QED
  BY <1>2, <1>3

\* Induction on sets of calls, taken apart in the order of CHOOSE.
LEMMA Grows ==
  ASSUME NEW P, {} \in P,
         \A s \in SUBSET Calls : s # {} /\ s \ {First(s)} \in P => s \in P
  PROVE  \A s \in SUBSET Calls : s \in P
<1> DEFINE T == {m \in Nat : \A s \in SUBSET Calls : Cardinality(s) = m => s \in P}
<1>1. 0 \in T
  BY Fewer
<1>2. ASSUME NEW m \in Nat, m \in T PROVE m + 1 \in T
  <2> SUFFICES ASSUME NEW s \in SUBSET Calls, Cardinality(s) = m + 1 PROVE s \in P
    OBVIOUS
  <2>1. s # {}
    BY BoundAssumption, FS_EmptySet
  <2>2. s \ {First(s)} \in SUBSET Calls /\ Cardinality(s \ {First(s)}) = m
    BY <2>1, Fewer
  <2> QED
    BY <1>2, <2>1, <2>2
<1> HIDE DEF T
<1> SUFFICES ASSUME NEW s \in SUBSET Calls PROVE s \in P
  OBVIOUS
<1>3. Cardinality(s) \in T
  BY <1>1, <1>2, Climbs, Fewer
<1> QED
  BY <1>3 DEF T

LEMMA SumDefined ==
  ASSUME NEW K, Sized(K)
  PROVE  \E g : Sums(g, K)
<1> DEFINE D == SUBSET Calls
           T == {m \in Nat : \E g \in [D -> Nat] : \A s \in D :
                   Cardinality(s) <= m => g[s] = Total(g, K, s)}
<1>1. 0 \in T
  <2> DEFINE g == [s \in D |-> 0]
  <2>1. g \in [D -> Nat] /\ \A s \in D : s = {} => g[s] = Total(g, K, s)
    BY DEF Total
  <2>2. \A s \in D : Cardinality(s) <= 0 => s = {}
    <3> SUFFICES ASSUME NEW s \in D, Cardinality(s) <= 0 PROVE s = {}
      OBVIOUS
    <3>1. Cardinality(s) \in Nat /\ (Cardinality(s) = 0 => s = {})
      BY Fewer
    <3> QED
      BY <3>1
  <2> HIDE DEF g
  <2> QED
    BY <2>1, <2>2
<1>2. ASSUME NEW m \in Nat, m \in T PROVE m + 1 \in T
  <2>1. PICK g \in [D -> Nat] :
          \A s \in D : Cardinality(s) <= m => g[s] = Total(g, K, s)
    BY <1>2
  <2> DEFINE h == [s \in D |-> Total(g, K, s)]
  <2>2. h \in [D -> Nat]
    <3>1. ASSUME NEW s \in D PROVE Total(g, K, s) \in Nat
      BY <2>1, Fewer DEF Total, Sized
    <3> QED
      BY <3>1
  <2>3. ASSUME NEW s \in D, Cardinality(s) <= m + 1 PROVE h[s] = Total(h, K, s)
    <3>1. CASE s = {}
      BY <3>1 DEF Total
    <3>2. CASE s # {}
      <4> DEFINE r == s \ {First(s)}
      <4>1. r \in D /\ Cardinality(r) <= m
        BY <2>3, <3>2, Fewer
      <4>2. h[r] = g[r]
        BY <2>1, <4>1
      <4> QED
        BY <3>2, <4>2 DEF Total
    <3> QED
      BY <3>1, <3>2
  <2> HIDE DEF h, D
  <2> QED
    BY <2>2, <2>3
<1> HIDE DEF T
<1>3. Cardinality(Calls) \in T /\ \A s \in D : Cardinality(s) <= Cardinality(Calls)
  <2>1. Cardinality(Calls) \in Nat
    BY Fewer
  <2> QED
    BY <1>1, <1>2, <2>1, Climbs, BoundAssumption, FS_Subset
<1> QED
  BY <1>3 DEF T, Sums

\* Bytes() is that sum, over all calls.
LEMMA BytesAre ==
  ASSUME NEW K, Sized(K)
  PROVE  \E g : Sums(g, K) /\ Bytes(K) = g[Calls]
<1> DEFINE Step(f) == [s \in SUBSET Calls |->
             IF s = {} THEN 0 ELSE LET c == First(s) IN Buffered(K[c]) + f[s \ {c}]]
           f == CHOOSE f : f = Step(f)
<1>1. Bytes(K) = f[Calls]
  BY DEF Bytes, MapThenSumSet, MapThenFoldSet, First, Buffered
<1>2. f = Step(f)
  <2>1. PICK g : Sums(g, K)
    BY SumDefined
  <2>2. g = Step(g)
    BY <2>1 DEF Sums, Total
  <2> HIDE DEF Step
  <2> QED
    BY <2>2
<1>3. \A s \in SUBSET Calls : f[s] = Total(f, K, s)
  <2> HIDE DEF f
  <2> QED
    BY <1>2 DEF Total
<1>4. f = [s \in SUBSET Calls |-> f[s]]
  <2> HIDE DEF f
  <2> QED
    BY <1>2
<1> HIDE DEF f
<1> DEFINE P == {s \in SUBSET Calls : f[s] \in Nat}
<1>5. {} \in P
  <2>1. Total(f, K, {}) = 0
    BY DEF Total
  <2> QED
    BY <1>3, <2>1
<1>6. ASSUME NEW s \in SUBSET Calls, s # {}, s \ {First(s)} \in P PROVE s \in P
  <2>1. f[s \ {First(s)}] \in Nat /\ Buffered(K[First(s)]) \in Nat
    BY <1>6, Fewer DEF Sized
  <2>2. Total(f, K, s) \in Nat
    BY <1>6, <2>1 DEF Total
  <2> QED
    BY <1>3, <2>2
<1>7. \A s \in SUBSET Calls : f[s] \in Nat
  <2> HIDE DEF P
  <2>1. \A s \in SUBSET Calls : s \in P
    BY <1>5, <1>6, Grows
  <2> QED
    BY <2>1 DEF P
<1> QED
  BY <1>1, <1>3, <1>4, <1>7 DEF Sums

\* A sum changes by what one of its buffers changes.
LEMMA SumMoves ==
  ASSUME NEW K, NEW L, Sized(K), Sized(L), NEW c \in Calls,
         \A b \in Calls \ {c} : Buffered(L[b]) = Buffered(K[b])
  PROVE  Bytes(L) = Bytes(K) + Buffered(L[c]) - Buffered(K[c])
<1> DEFINE d == Buffered(L[c]) - Buffered(K[c])
<1>1. PICK g : Sums(g, K) /\ Bytes(K) = g[Calls]
  BY BytesAre
<1>2. PICK h : Sums(h, L) /\ Bytes(L) = h[Calls]
  BY BytesAre
<1> DEFINE P == {s \in SUBSET Calls : h[s] = IF c \in s THEN g[s] + d ELSE g[s]}
<1>3. {} \in P
  BY <1>1, <1>2 DEF Sums, Total
<1>4. ASSUME NEW s \in SUBSET Calls, s # {}, s \ {First(s)} \in P PROVE s \in P
  <2> DEFINE b == First(s) r == s \ {b}
  <2>1. b \in Calls /\ b \in s /\ r \in SUBSET Calls
    BY <1>4, Fewer
  <2>2. h[r] = IF c \in r THEN g[r] + d ELSE g[r]
    BY <1>4
  <2>3. g[s] = Buffered(K[b]) + g[r] /\ h[s] = Buffered(L[b]) + h[r]
    BY <1>1, <1>2, <1>4 DEF Sums, Total
  <2>4. g[r] \in Nat /\ Buffered(K[b]) \in Nat /\ Buffered(L[b]) \in Nat /\ d \in Int
    BY <1>1, <2>1 DEF Sums, Sized
  <2>5. h[s] = IF c \in s THEN g[s] + d ELSE g[s]
    <3>1. CASE b = c
      <4>1. c \in s /\ c \notin r
        BY <2>1, <3>1
      <4>2. Buffered(L[c]) = Buffered(K[c]) + d
        BY DEF Sized
      <4>3. Buffered(L[b]) = Buffered(K[b]) + d
        BY <3>1, <4>2
      <4> HIDE DEF b, r, d
      <4> QED
        BY <2>2, <2>3, <2>4, <4>1, <4>3
    <3>2. CASE b # c
      <4>1. Buffered(L[b]) = Buffered(K[b]) /\ (c \in s <=> c \in r)
        BY <2>1, <3>2
      <4> HIDE DEF b, r, d
      <4> QED
        BY <2>2, <2>3, <2>4, <4>1
    <3> QED
      BY <3>1, <3>2
  <2> QED
    BY <2>5
<1>5. h[Calls] = g[Calls] + d
  <2> HIDE DEF P
  <2>1. Calls \in P
    BY <1>3, <1>4, Grows
  <2> QED
    BY <2>1 DEF P
<1>6. g[Calls] \in Nat /\ Buffered(L[c]) \in Nat /\ Buffered(K[c]) \in Nat
  BY <1>1 DEF Sums, Sized
<1> QED
  BY <1>1, <1>2, <1>5, <1>6

\* Smaller buffers have no larger sum.
LEMMA SumShrinks ==
  ASSUME NEW K, NEW L, Sized(K), Sized(L),
         \A b \in Calls : Buffered(L[b]) <= Buffered(K[b])
  PROVE  Bytes(L) \in Nat /\ Bytes(K) \in Nat /\ Bytes(L) <= Bytes(K)
<1>1. PICK g : Sums(g, K) /\ Bytes(K) = g[Calls]
  BY BytesAre
<1>2. PICK h : Sums(h, L) /\ Bytes(L) = h[Calls]
  BY BytesAre
<1> DEFINE P == {s \in SUBSET Calls : h[s] <= g[s]}
<1>3. {} \in P
  <2>1. g[{}] = 0 /\ h[{}] = 0
    BY <1>1, <1>2 DEF Sums, Total
  <2> QED
    BY <2>1
<1>4. ASSUME NEW s \in SUBSET Calls, s # {}, s \ {First(s)} \in P PROVE s \in P
  <2> DEFINE b == First(s) r == s \ {b}
  <2>1. b \in Calls /\ r \in SUBSET Calls
    BY <1>4, Fewer
  <2>2. h[r] <= g[r] /\ Buffered(L[b]) <= Buffered(K[b])
    BY <1>4, <2>1
  <2>3. g[s] = Buffered(K[b]) + g[r] /\ h[s] = Buffered(L[b]) + h[r]
    BY <1>1, <1>2, <1>4 DEF Sums, Total
  <2>4. g[r] \in Nat /\ h[r] \in Nat /\ Buffered(K[b]) \in Nat /\ Buffered(L[b]) \in Nat
    BY <1>1, <1>2, <2>1 DEF Sums, Sized
  <2>5. h[s] <= g[s]
    <3> HIDE DEF b, r
    <3> QED
      BY <2>2, <2>3, <2>4
  <2> QED
    BY <2>5
<1>5. h[Calls] <= g[Calls]
  <2> HIDE DEF P
  <2>1. Calls \in P
    BY <1>3, <1>4, Grows
  <2> QED
    BY <2>1 DEF P
<1> QED
  BY <1>1, <1>2, <1>5 DEF Sums

\* With no buffer filled, the sum is zero.
LEMMA SumStarts ==
  ASSUME NEW K, \A c \in Calls : Buffered(K[c]) = 0
  PROVE  Bytes(K) = 0
<1>1. PICK g : Sums(g, K) /\ Bytes(K) = g[Calls]
  BY BytesAre DEF Sized
<1> DEFINE P == {s \in SUBSET Calls : g[s] = 0}
<1>2. {} \in P
  BY <1>1 DEF Sums, Total
<1>3. ASSUME NEW s \in SUBSET Calls, s # {}, s \ {First(s)} \in P PROVE s \in P
  <2>1. g[s \ {First(s)}] = 0 /\ Buffered(K[First(s)]) = 0
    BY <1>3, Fewer
  <2> QED
    BY <1>1, <1>3, <2>1 DEF Sums, Total
<1>4. Calls \in P
  <2> HIDE DEF P
  <2> QED
    BY <1>2, <1>3, Grows
<1> QED
  BY <1>1, <1>4

--------------------------------------------------------------------------------
(* What the handlers do to a buffer. *)

\* Most leave it alone or give it up.
Filled(k) == "chunks" \in DOMAIN k
Keeps(k, l) == Filled(l) /\ (l.chunks = k.chunks \/ l.chunks = <<>>)

LEMMA KeepsOn ==
  ASSUME NEW k, NEW l, NEW m, Keeps(k, l), Keeps(l, m)
  PROVE  Keeps(k, m)
  BY DEF Keeps

LEMMA PartsKeep ==
  ASSUME NEW k, Filled(k)
  PROVE  /\ Keeps(k, k) /\ Keeps(k, Wake(k)) /\ Keeps(k, Release(k)) /\ Keeps(k, Notify(k))
         /\ Keeps(k, Stop(k)) /\ Keeps(k, Cut(k))
<1>1. Keeps(k, Wake(k)) /\ Keeps(k, k)
  BY DEF Keeps, Filled, Wake
<1>2. Keeps(k, Release(k))
  BY DEF Keeps, Filled, Release
<1>3. Keeps(k, Notify(k))
  BY DEF Keeps, Filled, Notify
<1>4. Keeps(k, Stop(k))
  BY <1>3 DEF Keeps, Filled, Stop
<1>5. Keeps(k, Cut(k))
  BY DEF Keeps, Filled, Cut
<1> QED
  BY <1>1, <1>2, <1>3, <1>4, <1>5

LEMMA EndsKeep ==
  ASSUME NEW k, Filled(k)
  PROVE  /\ Keeps(k, Abandon(k)) /\ Keeps(k, Cancel(k))
         /\ \A error : Keeps(k, Fail(k, error))
<1>1. ASSUME NEW m, Filled(m) PROVE Keeps(m, Abandon(m))
  <2> DEFINE l == [m EXCEPT !.cancelled = TRUE]
             r == Release(l)
  <2>1. Keeps(m, l)
    BY <1>1 DEF Keeps, Filled
  <2>2. Keeps(l, r)
    BY <2>1, PartsKeep DEF Keeps
  <2>3. Keeps(r, Stop(r))
    BY <2>2, PartsKeep DEF Keeps
  <2>4. Keeps(m, Stop(r))
    BY <2>1, <2>2, <2>3, KeepsOn
  <2> QED
    BY <1>1, <2>4, PartsKeep DEF Abandon
<1>2. Keeps(k, Cancel(k))
  <2> DEFINE l == [k EXCEPT !.cancelled = TRUE]
             r == Release(l)
             e == [r EXCEPT !.ended = TRUE]
             w == Wake(e)
  <2>1. Keeps(k, l)
    BY DEF Keeps, Filled
  <2>2. Keeps(l, r)
    BY <2>1, PartsKeep DEF Keeps
  <2>3. Keeps(r, e)
    BY <2>2 DEF Keeps, Filled
  <2>4. Keeps(e, w)
    BY <2>3, PartsKeep DEF Keeps
  <2>5. Keeps(w, Stop(w))
    BY <2>4, PartsKeep DEF Keeps
  <2>6. Keeps(k, Stop(w))
    BY <2>1, <2>2, <2>3, <2>4, <2>5, KeepsOn
  <2> QED
    BY <2>6, PartsKeep DEF Cancel
<1>3. ASSUME NEW error PROVE Keeps(k, Fail(k, error))
  <2> DEFINE e == [k EXCEPT !.error = error, !.ended = TRUE]
             a == Abandon(e)
  <2>1. Keeps(k, e)
    BY DEF Keeps, Filled
  <2>2. Keeps(e, a)
    BY <1>1, <2>1 DEF Keeps
  <2>3. Keeps(a, Wake(a))
    BY <2>2, PartsKeep DEF Keeps
  <2>4. Keeps(k, Wake(a))
    BY <2>1, <2>2, <2>3, KeepsOn
  <2> QED
    BY <2>4 DEF Fail
<1> QED
  BY <1>1, <1>2, <1>3

LEMMA PublishKeeps ==
  ASSUME NEW k, Filled(k)
  PROVE  /\ \A how : Keeps(k, PublishFails(k, how))
         /\ \A step : Keeps(k, Launch(k, step))
<1>1. ASSUME NEW how PROVE Keeps(k, PublishFails(k, how))
  <2> DEFINE e == [k EXCEPT !.pub = how, !.error = "publish", !.ended = TRUE]
             r == Release(e)
             o == [r EXCEPT !.cancelled = TRUE, !.notice = "due"]
             w == IF how = "definite" THEN r ELSE o
  <2>1. Keeps(k, e) /\ Keeps(k, [k EXCEPT !.pub = how])
    BY DEF Keeps, Filled
  <2>2. Keeps(e, r)
    BY <2>1, PartsKeep DEF Keeps
  <2>3. Keeps(r, w)
    <3>1. Keeps(r, r)
      BY <2>2 DEF Keeps
    <3>2. Keeps(r, o)
      BY <2>2 DEF Keeps, Filled
    <3> QED
      BY <3>1, <3>2
  <2>4. Keeps(w, Wake(w))
    BY <2>3, PartsKeep DEF Keeps
  <2>5. Keeps(k, Wake(w))
    BY <2>1, <2>2, <2>3, <2>4, KeepsOn
  <2>6. PublishFails(k, how) = IF k.released THEN [k EXCEPT !.pub = how] ELSE Wake(w)
    BY DEF PublishFails
  <2> QED
    BY <2>1, <2>5, <2>6
<1>2. ASSUME NEW step PROVE Keeps(k, Launch(k, step))
  BY <1>1 DEF Launch, Keeps, Filled
<1> QED
  BY <1>1, <1>2

LEMMA LossKeeps ==
  ASSUME NEW k, Filled(k), NEW now
  PROVE  Keeps(k, Interrupted(k, now)) /\ Keeps(k, Disconnected(k))
<1>1. Keeps(k, Disconnected(k))
  <2> DEFINE l == [k EXCEPT !.error = "disconnected", !.ended = TRUE, !.registered = FALSE]
  <2>1. Keeps(k, l)
    BY DEF Keeps, Filled
  <2>2. Keeps(l, Wake(l))
    BY <2>1, PartsKeep DEF Keeps
  <2>3. Keeps(k, Wake(l))
    BY <2>1, <2>2, KeepsOn
  <2> QED
    BY <2>3, PartsKeep DEF Disconnected
<1>2. Keeps(k, Interrupted(k, now))
  <2>1. Keeps(k, k) /\ Keeps(k, Cut(k)) /\ Filled(Cut(k))
    BY PartsKeep DEF Keeps
  <2>2. Keeps(Cut(k), [Cut(k) EXCEPT !.pub = "again"])
    BY <2>1 DEF Keeps, Filled
  <2>3. Keeps(Cut(k), PublishFails(Cut(k), "ambiguous")) /\ Keeps(k, PublishFails(k, "ambiguous"))
    BY <2>1, PublishKeeps
  <2>4. Keeps(k, [Cut(k) EXCEPT !.pub = "again"]) /\ Keeps(k, PublishFails(Cut(k), "ambiguous"))
    BY <2>1, <2>2, <2>3, KeepsOn
  <2> QED
    BY <2>1, <2>3, <2>4 DEF Interrupted
<1> QED
  BY <1>1, <1>2

\* A buffer grows by one chunk at most, and only while there is room for it.
Fits(k, l) ==
  \/ Buffered(l) <= Buffered(k)
  \/ /\ Buffered(l) = Buffered(k) + 1
     /\ Buffered(k) # MaxBuffered /\ total # MaxTotal

LEMMA KeepsFits ==
  ASSUME NEW k \in Call, NEW l, Keeps(k, l)
  PROVE  Fits(k, l) /\ Buffered(l) <= Buffered(k) /\ Buffered(l) \in Nat
<1>1. Buffered(k) \in Nat
  BY Counts
<1>2. Buffered(l) = Buffered(k) \/ Buffered(l) = 0
  BY EmptySeq DEF Keeps, Buffered
<1> QED
  BY <1>1, <1>2 DEF Fits

LEMMA CallsFilled == \A k \in Call : Filled(k)
  BY DEF Call, Filled

LEMMA ArriveFits ==
  ASSUME NEW k \in Call, NEW n \in 0..Last
  PROVE  Fits(k, Arrive(k, n))
<1>1. Filled(k)
  BY CallsFilled
<1>2. CASE n < k.next
  <2> DEFINE l == [k EXCEPT !.ended = @ \/ n = Last]
  <2>1. Keeps(k, l)
    BY <1>1 DEF Keeps, Filled
  <2>2. Keeps(l, Wake(l))
    BY <2>1, PartsKeep DEF Keeps
  <2>3. Keeps(k, Wake(l))
    BY <2>1, <2>2, KeepsOn
  <2> QED
    BY <1>2, <2>3, KeepsFits DEF Arrive
<1>3. CASE ~(n < k.next) /\ n > k.next
  <2>1. Keeps(k, Fail(k, "sequence"))
    BY <1>1, EndsKeep
  <2> QED
    BY <1>3, <2>1, KeepsFits DEF Arrive
<1>4. CASE ~(n < k.next) /\ ~(n > k.next) /\ (Len(k.chunks) = MaxBuffered \/ total = MaxTotal)
  <2> DEFINE l == [k EXCEPT !.next = n + 1]
  <2>1. Keeps(k, l)
    BY <1>1 DEF Keeps, Filled
  <2>2. Keeps(l, Fail(l, "backpressure"))
    BY <2>1, EndsKeep DEF Keeps
  <2>3. Keeps(k, Fail(l, "backpressure"))
    BY <2>1, <2>2, KeepsOn
  <2> QED
    BY <1>4, <2>3, KeepsFits DEF Arrive
<1>5. CASE ~(n < k.next) /\ ~(n > k.next) /\ ~(Len(k.chunks) = MaxBuffered \/ total = MaxTotal)
  <2> DEFINE l == [k EXCEPT !.next = n + 1, !.chunks = Append(@, n), !.idle = TRUE,
                            !.ended = @ \/ n = Last]
  <2>1. l.chunks = Longer(k, n) /\ Filled(l)
    BY <1>1 DEF Filled, Longer
  <2>2. Arrive(k, n) = Wake(l)
    BY <1>5 DEF Arrive
  <2> HIDE DEF l
  <2>3. Wake(l).chunks = Longer(k, n)
    BY <2>1 DEF Wake, Filled
  <2>4. Buffered(Wake(l)) = Buffered(k) + 1
    BY <2>3, Appends
  <2> QED
    BY <1>5, <2>2, <2>4 DEF Fits, Buffered
<1> QED
  BY <1>2, <1>3, <1>4, <1>5

LEMMA TakeFits ==
  ASSUME NEW k \in Call
  PROVE  Fits(k, Take(k))
<1>1. Filled(k) /\ Keeps(k, Release(k))
  BY CallsFilled, PartsKeep
<1>2. CASE k.error # "none" \/ k.chunks = <<>>
  <2>1. /\ Keeps(Release(k), [Release(k) EXCEPT !.pull = "idle", !.over = "failed"])
        /\ Keeps(Release(k), [Release(k) EXCEPT !.pull = "idle", !.over = "ended"])
        /\ Keeps(k, [k EXCEPT !.pull = "loop", !.woken = FALSE])
    BY <1>1 DEF Keeps, Filled
  <2>2. /\ Keeps(k, [Release(k) EXCEPT !.pull = "idle", !.over = "failed"])
        /\ Keeps(k, [Release(k) EXCEPT !.pull = "idle", !.over = "ended"])
    BY <1>1, <2>1, KeepsOn
  <2>3. Keeps(k, Take(k))
    BY <1>2, <2>1, <2>2 DEF Take
  <2> QED
    BY <2>3, KeepsFits
<1>3. CASE k.error = "none" /\ k.chunks # <<>>
  <2> DEFINE l == [k EXCEPT !.pull = "idle", !.got = Append(@, Head(k.chunks)),
                            !.chunks = Tail(@), !.idle = TRUE]
  <2>1. l.chunks = Shorter(k) /\ l.got = Fuller(k)
    BY DEF Call, Shorter, Fuller
  <2>2. Take(k) = l
    BY <1>3 DEF Take
  <2> HIDE DEF l
  <2>3. Buffered(l) = Buffered(k) - 1 /\ Buffered(k) \in Nat
    BY <1>3, <2>1, Gives, Counts
  <2>4. Buffered(l) <= Buffered(k)
    BY <2>3
  <2> QED
    BY <2>2, <2>4 DEF Fits
<1> QED
  BY <1>2, <1>3
--------------------------------------------------------------------------------
(* The total. *)

\* What is added to the invariant: the link's and the counters' types, the bound of
\* every buffer, and the sum.
Counted ==
  /\ conn \in {"up", "down", "closed"} /\ channel \in {"none", "open", "closed"}
  /\ total \in 0..MaxTotal /\ faults \in 0..MaxFaults
  /\ \A c \in Calls : Buffered(call[c]) <= MaxBuffered
  /\ TotalIsExact

LEMMA CallsSized ==
  ASSUME NEW K \in [Calls -> Call]
  PROVE  Sized(K)
  BY Counts DEF Sized

LEMMA NotBelowZero ==
  ASSUME NEW n \in Int
  PROVE  Max({0, n}) = IF n < 0 THEN 0 ELSE n
<1> DEFINE S == {0, n}
           m == IF n < 0 THEN 0 ELSE n
<1>1. m \in S /\ \A x \in S : m >= x
  OBVIOUS
<1>2. \A y \in S : (\A x \in S : y >= x) => y = m
  BY <1>1
<1>3. Max(S) \in S /\ \A x \in S : Max(S) >= x
  BY <1>1 DEF Max
<1> QED
  BY <1>2, <1>3

\* A step of one call.
LEMMA BecomesCounted ==
  ASSUME IInv, Counted, IInv', NEW c \in Calls, NEW k, Becomes(c, k), Fits(call[c], k),
         UNCHANGED link, UNCHANGED faults \/ Fault
  PROVE  Counted'
<1> USE BoundAssumption
<1>1. call \in [Calls -> Call] /\ call' \in [Calls -> Call] /\ call' = [call EXCEPT ![c] = k]
  BY DEF IInv, Becomes
<1>2. call'[c] = k /\ \A b \in Calls \ {c} : call'[b] = call[b]
  BY <1>1
<1> DEFINE m == Buffered(call[c])
           n == Buffered(k)
<1>3. m \in Nat /\ n \in Nat
  BY <1>1, <1>2, Counts
<1>4. total' = Max({0, total + n - m}) /\ total \in 0..MaxTotal
  BY DEF Becomes, Counted, Buffered
<1>5. total' = IF total + n - m < 0 THEN 0 ELSE total + n - m
  BY <1>3, <1>4, NotBelowZero
<1>6. m <= MaxBuffered
  BY DEF Counted
<1>7. n <= m \/ (n = m + 1 /\ m # MaxBuffered /\ total # MaxTotal)
  BY DEF Fits
<1>8. Bytes(call') = Bytes(call) + n - m /\ Bytes(call') \in Nat
  <2>1. Sized(call) /\ Sized(call')
    BY <1>1, CallsSized
  <2>2. Bytes(call') = Bytes(call) + Buffered(call'[c]) - Buffered(call[c])
    BY <1>2, <2>1, SumMoves
  <2>3. Bytes(call') \in Nat
    <3>1. \A b \in Calls : Buffered(call'[b]) <= Buffered(call'[b])
      BY <2>1 DEF Sized
    <3> QED
      BY <2>1, <3>1, SumShrinks
  <2> QED
    BY <1>2, <2>2, <2>3
<1>9. faults' \in 0..MaxFaults /\ (faults' = 0 => faults = 0)
  BY DEF Counted, Fault
<1> HIDE DEF m, n
<1>10. total' \in 0..MaxTotal
  BY <1>3, <1>4, <1>5, <1>7
<1>11. n <= MaxBuffered
  BY <1>3, <1>6, <1>7
<1>12. \A b \in Calls : Buffered(call'[b]) <= MaxBuffered
  BY <1>2, <1>11 DEF Counted, n
<1>13. faults' = 0 => total' = Bytes(call')
  <2> SUFFICES ASSUME faults' = 0 PROVE total' = Bytes(call')
    OBVIOUS
  <2>1. total = Bytes(call)
    BY <1>9 DEF Counted, TotalIsExact
  <2>2. total + n - m = Bytes(call') /\ Bytes(call') \in Nat
    BY <1>8, <2>1
  <2> QED
    BY <1>5, <2>2
<1> QED
  BY <1>9, <1>10, <1>12, <1>13 DEF Counted, TotalIsExact, link

\* A step that every call takes at once, and no buffer grows.
LEMMA AllCounted ==
  ASSUME IInv, Counted, IInv', \A c \in Calls : Keeps(call[c], call'[c]),
         conn' \in {"up", "down", "closed"}, channel' \in {"none", "open", "closed"},
         UNCHANGED faults \/ Fault,
         \/ total' = 0 /\ faults' # 0
         \/ total' = Max({0, total - (Bytes(call) - Bytes(call'))})
         \/ total' = total /\ call' = call
  PROVE  Counted'
<1> USE BoundAssumption
<1>1. call \in [Calls -> Call] /\ call' \in [Calls -> Call]
  BY DEF IInv
<1>2. \A c \in Calls : Buffered(call'[c]) <= Buffered(call[c]) /\ Buffered(call'[c]) \in Nat
                       /\ Buffered(call[c]) \in Nat
  BY <1>1, KeepsFits, Counts
<1>3. \A c \in Calls : Buffered(call'[c]) <= MaxBuffered
  BY <1>2 DEF Counted
<1>4. Bytes(call) \in Nat /\ Bytes(call') \in Nat /\ Bytes(call') <= Bytes(call)
  BY <1>2, SumShrinks DEF Sized
<1>5. faults' \in 0..MaxFaults /\ (faults' = 0 => faults = 0)
  BY DEF Counted, Fault
<1>6. total \in 0..MaxTotal /\ (faults = 0 => total = Bytes(call))
  BY DEF Counted, TotalIsExact
<1>7. total' \in 0..MaxTotal /\ (faults' = 0 => total' = Bytes(call'))
  <2>1. CASE total' = 0 /\ faults' # 0
    BY <2>1
  <2>2. CASE total' = Max({0, total - (Bytes(call) - Bytes(call'))})
    <3> DEFINE n == total - (Bytes(call) - Bytes(call'))
    <3>1. n \in Int /\ n <= total /\ (faults' = 0 => n = Bytes(call'))
      BY <1>4, <1>5, <1>6
    <3>2. total' = IF n < 0 THEN 0 ELSE n
      BY <2>2, <3>1, NotBelowZero
    <3> HIDE DEF n
    <3> QED
      BY <1>4, <1>6, <3>1, <3>2
  <2>3. CASE total' = total /\ call' = call
    BY <1>5, <1>6, <2>3
  <2> QED
    BY <2>1, <2>2, <2>3
<1> QED
  BY <1>3, <1>5, <1>7 DEF Counted, TotalIsExact

LEMMA CallCounted ==
  ASSUME IInv, Counted, IInv', NEW c \in Calls,
         \/ Create(c) \/ PublishStep(c) \/ Refused(c) \/ BrokerStores(c)
         \/ NoticeFalls(c) \/ IdleFires(c) \/ Close(c)
         \/ Pull(c) \/ Resume(c) \/ ConsumerCancelled(c) \/ Drops(c) \/ Forget(c)
         \/ \E n \in 0..Last : ChunkArrives(c, n)
  PROVE  Counted'
<1> DEFINE o == call[c]
<1>1. o \in Call /\ Filled(o)
  BY CallsFilled DEF IInv
<1> HIDE DEF o
<1>2. ASSUME NEW k, Becomes(c, k), Keeps(o, k), UNCHANGED link, UNCHANGED faults \/ Fault
      PROVE  Counted'
  <2>1. Fits(o, k)
    BY <1>1, <1>2, KeepsFits
  <2> QED
    BY <1>2, <2>1, BecomesCounted DEF o
<1>3. CASE Create(c)
  <2> DEFINE first(h) == [Unmade EXCEPT !.made = TRUE, !.pub = "start", !.registered = TRUE,
                                        !.idle = TRUE, !.holders = {"consumer"} \cup h]
             second == [Unmade EXCEPT !.made = TRUE, !.ended = TRUE, !.holders = {"consumer"}]
  <2>1. \A h : first(h).chunks = <<>> /\ second.chunks = <<>>
    BY DEF Unmade
  <2>2. /\ (\E h \in SUBSET {"signal"} : Becomes(c, first(h))) \/ Becomes(c, second)
        /\ UNCHANGED <<link, faults>>
    BY <1>3 DEF Create
  <2>3. PICK k : /\ Becomes(c, k) /\ UNCHANGED <<link, faults>> /\ k.chunks = <<>>
    <3> HIDE DEF first, second
    <3> QED
      BY <2>1, <2>2
  <2>4. Buffered(k) = 0 /\ Buffered(o) \in Nat
    BY <1>1, <2>3, EmptySeq, Counts DEF Buffered
  <2>5. Fits(o, k)
    BY <2>4 DEF Fits
  <2> QED
    BY <2>3, <2>5, BecomesCounted DEF o
<1>4. CASE PublishStep(c)
  <2>1. Keeps(o, Launch(o, "sending")) /\ Keeps(o, Launch(o, "resending"))
        /\ Keeps(o, PublishFails(o, "ambiguous"))
    BY <1>1, PublishKeeps
  <2>2. Keeps(o, [o EXCEPT !.pub = "parked"]) /\ Keeps(o, [o EXCEPT !.pub = "sent"])
    BY <1>1 DEF Keeps, Filled
  <2>3. PICK k : Becomes(c, k) /\ Keeps(o, k) /\ UNCHANGED <<link, faults>>
    BY <1>4, <2>1, <2>2
       DEF PublishStep, PublishStarts, PublishResumes, ReadinessFails, Confirmed,
           ConfirmTimesOut, o
  <2> QED
    BY <1>2, <2>3
<1>5. CASE Refused(c)
  <2> DEFINE k == [o EXCEPT !.request = "no"]
  <2>1. Keeps(o, k)
    BY <1>1 DEF Keeps, Filled
  <2>2. Keeps(k, PublishFails(k, "definite"))
    BY <2>1, PublishKeeps DEF Keeps
  <2>3. Keeps(o, PublishFails(k, "definite"))
    BY <2>1, <2>2, KeepsOn
  <2>4. Becomes(c, PublishFails(k, "definite")) /\ Fault /\ UNCHANGED link
    BY <1>5 DEF Refused, o
  <2> QED
    BY <1>2, <2>3, <2>4
<1>6. CASE BrokerStores(c)
  <2>1. Keeps(o, [o EXCEPT !.request = "stored"])
    BY <1>1 DEF Keeps, Filled
  <2> QED
    BY <1>2, <1>6, <2>1 DEF BrokerStores, o
<1>7. CASE NoticeFalls(c)
  <2>1. Keeps(o, Notify(o))
    BY <1>1, PartsKeep
  <2> QED
    BY <1>2, <1>7, <2>1 DEF NoticeFalls, o
<1>8. CASE IdleFires(c)
  <2> DEFINE k == [o EXCEPT !.idle = FALSE]
  <2>1. Keeps(o, k)
    BY <1>1 DEF Keeps, Filled
  <2>2. Keeps(k, Fail(k, "timeout"))
    BY <2>1, EndsKeep DEF Keeps
  <2>3. Keeps(o, Fail(k, "timeout"))
    BY <2>1, <2>2, KeepsOn
  <2>4. Becomes(c, IF k.ended THEN k ELSE Fail(k, "timeout")) /\ UNCHANGED <<link, faults>>
    BY <1>8 DEF IdleFires, o
  <2> HIDE DEF k
  <2> QED
    BY <1>2, <2>1, <2>3, <2>4
<1>9. CASE Close(c)
  <2>1. Keeps(o, Cancel(o))
    BY <1>1, EndsKeep
  <2> QED
    BY <1>2, <1>9, <2>1 DEF Close, o
<1>10. CASE Pull(c)
  <2>1. Fits(o, Take(o))
    BY <1>1, TakeFits
  <2>2. Fits(o, [o EXCEPT !.pull = "first", !.woken = FALSE])
    <3>1. Keeps(o, [o EXCEPT !.pull = "first", !.woken = FALSE])
      BY <1>1 DEF Keeps, Filled
    <3> QED
      BY <1>1, <3>1, KeepsFits
  <2>3. PICK k : Becomes(c, k) /\ Fits(o, k) /\ UNCHANGED <<link, faults>>
    BY <1>10, <2>1, <2>2 DEF Pull, o
  <2> QED
    BY <2>3, BecomesCounted DEF o
<1>11. CASE Resume(c)
  <2>1. Fits(o, Take(o))
    BY <1>1, TakeFits
  <2> QED
    BY <1>11, <2>1, BecomesCounted DEF Resume, o
<1>12. CASE ConsumerCancelled(c)
  <2> DEFINE k == [Cancel(o) EXCEPT !.pull = "idle", !.over = "quit"]
  <2>1. Keeps(o, Cancel(o))
    BY <1>1, EndsKeep
  <2>2. Keeps(Cancel(o), k)
    BY <2>1 DEF Keeps, Filled
  <2>3. Keeps(o, k)
    BY <2>1, <2>2, KeepsOn
  <2>4. Becomes(c, k) /\ UNCHANGED <<link, faults>>
    BY <1>12 DEF ConsumerCancelled, o
  <2> QED
    BY <1>2, <2>3, <2>4
<1>13. CASE Forget(c)
  <2> DEFINE k == [o EXCEPT !.registered = FALSE, !.chunks = <<>>, !.over = "dropped"]
  <2>1. Keeps(o, k)
    BY <1>1 DEF Keeps, Filled
  <2>2. Becomes(c, k) /\ UNCHANGED <<link, faults>>
    BY <1>13 DEF Forget, o
  <2> QED
    BY <1>2, <2>1, <2>2
<1>15. CASE Drops(c)
  <2>1. Keeps(o, [o EXCEPT !.holders = @ \ {"consumer"}])
    BY <1>1 DEF Keeps, Filled
  <2> QED
    BY <1>2, <1>15, <2>1 DEF Drops, o
<1>14. ASSUME NEW n \in 0..Last, ChunkArrives(c, n) PROVE Counted'
  <2>1. Fits(o, Arrive(o, n))
    BY <1>1, ArriveFits
  <2>2. Becomes(c, Arrive(o, n)) /\ UNCHANGED link /\ (UNCHANGED faults \/ Fault)
    BY <1>14 DEF ChunkArrives, o
  <2> QED
    BY <2>1, <2>2, BecomesCounted DEF o
<1> QED
  BY <1>3, <1>4, <1>5, <1>6, <1>7, <1>8, <1>9, <1>10, <1>11, <1>12, <1>13, <1>14, <1>15

LEMMA LinkCounted ==
  ASSUME IInv, Counted, IInv',
         SocketDrops \/ ChannelCloses \/ ConnectionCloses \/ Reconnects
  PROVE  Counted'
<1>1. \A c \in Calls : call[c] \in Call /\ Filled(call[c])
  BY CallsFilled DEF IInv
<1>2. ASSUME NEW now, ChannelLost(now)
      PROVE  /\ \A c \in Calls : Keeps(call[c], call'[c])
             /\ total' = Max({0, total - (Bytes(call) - Bytes(call'))})
             /\ channel' \in {"none", "open", "closed"}
  <2>1. call' = [c \in Calls |-> Interrupted(call[c], now)]
    BY <1>2 DEF ChannelLost
  <2>2. \A c \in Calls : Keeps(call[c], call'[c])
    BY <1>1, <2>1, LossKeeps
  <2> QED
    BY <1>2, <2>1, <2>2 DEF ChannelLost, Counted
<1>3. CASE SocketDrops
  <2>1. \A c \in Calls : Keeps(call[c], call'[c])
    <3> SUFFICES ASSUME NEW c \in Calls PROVE Keeps(call[c], call'[c])
      OBVIOUS
    <3> DEFINE d == Disconnected(call[c])
    <3>1. call'[c] = Interrupted(d, "down")
      BY <1>3 DEF SocketDrops
    <3>2. Keeps(call[c], d)
      BY <1>1, LossKeeps
    <3>3. Keeps(d, Interrupted(d, "down"))
      BY <3>2, LossKeeps DEF Keeps
    <3> QED
      BY <3>1, <3>2, <3>3, KeepsOn
  <2>2. total' = 0 /\ Fault /\ conn' = "down" /\ channel' = "none"
    BY <1>3 DEF SocketDrops
  <2>3. faults' # 0
    BY <2>2 DEF Fault, Counted
  <2> QED
    BY <2>1, <2>2, <2>3, AllCounted
<1>4. CASE ChannelCloses
  <2>1. ChannelLost("up") /\ Fault /\ conn' \in {"up", "down", "closed"}
    BY <1>4 DEF ChannelCloses, Counted
  <2> QED
    BY <1>2, <2>1, AllCounted
<1>5. CASE ConnectionCloses
  <2>1. ChannelLost("closed") /\ UNCHANGED faults /\ conn' = "closed"
    BY <1>5 DEF ConnectionCloses
  <2> QED
    BY <1>2, <2>1, AllCounted
<1>6. CASE Reconnects
  <2>1. conn' = "up" /\ channel' = "open" /\ UNCHANGED <<total, faults>>
    BY <1>6 DEF Reconnects
  <2>2. \A c \in Calls : call'[c].chunks = call[c].chunks
    BY <1>1, <1>6 DEF Reconnects, Filled
  <2>3. \A c \in Calls : Buffered(call'[c]) = Buffered(call[c])
    BY <2>2 DEF Buffered
  <2>4. call \in [Calls -> Call] /\ call' \in [Calls -> Call]
    BY DEF IInv
  <2>5. Bytes(call') = Bytes(call)
    <3>1. Sized(call) /\ Sized(call') /\ \A c \in Calls : Buffered(call[c]) \in Nat
      BY <2>4, CallsSized DEF Sized
    <3>2. Bytes(call') <= Bytes(call) /\ Bytes(call') \in Nat /\ Bytes(call) \in Nat
      BY <2>3, <3>1, SumShrinks
    <3>3. Bytes(call) <= Bytes(call')
      BY <2>3, <3>1, SumShrinks
    <3> QED
      BY <3>2, <3>3
  <2> QED
    BY <2>1, <2>3, <2>5 DEF Counted, TotalIsExact
<1> QED
  BY <1>3, <1>4, <1>5, <1>6

LEMMA CountedInvariance == Spec => [](IInv /\ Counted)
<1>1. Init => IInv /\ Counted
  <2> SUFFICES ASSUME Init PROVE Counted
    BY InitIInv
  <2>1. \A c \in Calls : Buffered(call[c]) = 0
    BY EmptySeq DEF Init, Unmade, Buffered
  <2>2. Bytes(call) = 0
    BY <2>1, SumStarts
  <2> QED
    BY <2>1, <2>2, BoundAssumption DEF Init, Counted, TotalIsExact
<1>2. IInv /\ Counted /\ [Next]_vars => (IInv /\ Counted)'
  <2> SUFFICES ASSUME IInv, Counted, [Next]_vars PROVE (IInv /\ Counted)'
    OBVIOUS
  <2>1. IInv'
    BY NextIInv
  <2>2. CASE Next
    <3>1. CASE \E c \in Calls :
            \/ Create(c) \/ PublishStep(c) \/ Refused(c) \/ BrokerStores(c)
            \/ NoticeFalls(c) \/ IdleFires(c) \/ Close(c)
            \/ Pull(c) \/ Resume(c) \/ ConsumerCancelled(c) \/ Drops(c) \/ Forget(c)
            \/ \E n \in 0..Last : ChunkArrives(c, n)
      BY <2>1, <3>1, CallCounted
    <3>2. CASE SocketDrops \/ ChannelCloses \/ ConnectionCloses \/ Reconnects
      BY <2>1, <3>2, LinkCounted
    <3> QED
      BY <2>2, <3>1, <3>2 DEF Next
  <2>3. CASE UNCHANGED vars
    BY <2>1, <2>3 DEF vars, link, Counted, TotalIsExact
  <2> QED
    BY <2>1, <2>2, <2>3
<1> QED
  BY <1>1, <1>2, PTL DEF Spec

--------------------------------------------------------------------------------
(* The theorems. *)

\* What the consumer of a stream is given is a prefix of what was produced, and a
\* loop that ends without an error has seen all of it, whatever the broker repeats
\* or loses and whenever the call is ended from elsewhere (_on_stream_chunk, _next).
THEOREM StreamsAreFaithful == Spec => []StreamIsFaithful
<1>1. IInv => StreamIsFaithful
  <2> SUFFICES ASSUME IInv, NEW c \in Calls
               PROVE  /\ InTurn(call[c].got)
                      /\ call[c].over = "ended" /\ ~call[c].cancelled /\ call[c].pub # "none" =>
                           Len(call[c].got) = Last + 1
    BY DEF StreamIsFaithful, DeliveredInOrder, CleanEndIsComplete
  <2>1. Good(call[c]) /\ call[c] \in Call
    BY DEF IInv, Good, Core
  <2>2. InTurn(call[c].got)
    BY <2>1 DEF Good, Core, Runs
  <2>3. ASSUME call[c].over = "ended", ~call[c].cancelled, call[c].pub # "none"
        PROVE  Len(call[c].got) = Last + 1
    <3>1. Reach(call[c]) = Last + 1 /\ call[c].chunks = <<>>
      BY <2>1, <2>3 DEF Good, Core, Ends, Holds
    <3>2. Given(call[c]) \in Nat /\ Buffered(call[c]) = 0
      BY <2>1, <3>1, Counts
    <3>3. Given(call[c]) = Last + 1
      BY <3>1, <3>2 DEF Reach
    <3> QED
      BY <3>3 DEF Given
  <2> QED
    BY <2>2, <2>3
<1> QED
  BY <1>1, Invariance, PTL

\* The notice that stops a producer is never sent before its request, nor for a
\* request that was withdrawn or refused, and nothing is sent after it (_cancel,
\* _notify and the done-callback of the publish task).
THEOREM NoticesFollow == Spec => NoticeFollowsRequest
<1>1. IInv /\ [Next]_vars =>
        [\A c \in Calls : call[c].notice = "sent" =>
           /\ call[c].pub \in {"sent", "ambiguous"}
           /\ call'[c].pub = call[c].pub /\ call'[c].notice = "sent"]_vars
  <2> SUFFICES ASSUME IInv, [Next]_vars, NEW c \in Calls, call[c].notice = "sent"
               PROVE  /\ call[c].pub \in {"sent", "ambiguous"}
                      /\ call'[c].pub = call[c].pub /\ call'[c].notice = "sent"
    OBVIOUS
  <2>1. call[c].pub \in {"sent", "ambiguous"}
    BY DEF IInv, Good, Core, Notifies
  <2>2. AllSettle
    BY NextIInv
  <2> QED
    BY <2>1, <2>2 DEF AllSettle, Settles
<1> QED
  BY <1>1, Invariance, PTL DEF Spec, NoticeFollowsRequest

\* The first error of a call is the one its consumer sees, and a released call gets
\* none later: only the error of a lost connection, which does not release the call,
\* may give way to that of its publish (the except branch of _publish).
THEOREM FirstOutcomesStand == Spec => FirstOutcomeStands
<1>1. IInv /\ Blameless /\ [Next]_vars =>
        [\A c \in Calls :
           \/ call'[c].error = call[c].error
           \/ /\ ~call[c].released
              /\ \/ call[c].error = "none"
                 \/ call[c].error = "disconnected" /\ call'[c].error = "publish"]_vars
  BY NextBlames DEF AllBlame, Upholds
<1> QED
  BY <1>1, BlamelessInvariance, PTL DEF Spec, FirstOutcomeStands

\* Slots, buffers, timers and the dispatcher's count of what is buffered belong to
\* live calls: a released call holds none, one that is registered and not over has
\* the timer that will end it, no buffer and no total exceeds its bound, and until
\* the first fault the total is what the calls buffer (_drop_buffer, _release_call,
\* _arm_idle).
THEOREM BuffersStayAccounted == Spec => []BuffersAccounted
<1>1. IInv /\ Counted => BuffersAccounted
  BY DEF IInv, Counted, Good, Core, Holds, BuffersAccounted, TypeOK, NothingHeld,
     DeadlineArmed, Buffered
<1> QED
  BY <1>1, CountedInvariance, PTL

================================================================================
