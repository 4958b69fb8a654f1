------------------------------ MODULE StreamingReply ------------------------------
(***************************************************************************)
(* The streaming calls of one MessageDispatcher: the request published in   *)
(* the background, the numbered chunks buffered until they are pulled, the  *)
(* idle deadline, the notice that stops the producer, and everything that   *)
(* may end a call meanwhile (protobus/message_dispatcher.py, StreamingReply *)
(* and _on_stream_chunk).                                                   *)
(*                                                                          *)
(* A call is one record, and a handler is an operator from the record it    *)
(* finds to the one it leaves.  Chunk n is the body with sequence number n; *)
(* every chunk counts as one byte.                                          *)
(***************************************************************************)
EXTENDS Integers, Sequences, FiniteSetsExt

CONSTANTS
  Calls,        \* the streaming calls
  Last,         \* the sequence number of the final chunk
  MaxBuffered,  \* Config.stream_max_buffered_chunks
  MaxTotal,     \* Config.stream_max_total_buffered_bytes
  MaxFaults     \* lost sockets and channels, refusals, lost or repeated chunks (a bound)

ASSUME BoundAssumption ==
  /\ IsFiniteSet(Calls) /\ Last \in Nat /\ MaxBuffered \in Nat \ {0} /\ MaxTotal \in Nat \ {0}
  /\ MaxFaults \in Nat

VARIABLES
  conn,     \* the connection: up, down (reconnecting) or closed
  channel,  \* the dispatcher's _channel: none, open or closed
  call,     \* the calls
  total,    \* _total_buffered_bytes
  faults

link == <<conn, channel>>
vars == <<link, call, total, faults>>

Unsent  == {"start", "parked", "woken"}
Sending == {"sending", "again", "rewoken", "resending"}
Settled == {"none", "withdrawn", "sent", "definite", "ambiguous"}

Call == [made : BOOLEAN,        \* the call exists
         pub : Unsent \cup Sending \cup Settled,      \* its publish task
         request : {"no", "wire", "stored"},          \* its request
         registered : BOOLEAN,                        \* in _pending_streams
         chunks : Seq(0..Last), next : 0..(Last + 1), \* buffer, last_seq + 1
         ended : BOOLEAN,
         error : {"none", "disconnected", "timeout", "sequence", "backpressure", "publish"},
         cancelled : BOOLEAN, released : BOOLEAN, idle : BOOLEAN,
         pull : {"idle", "first", "loop"}, woken : BOOLEAN,  \* the consumer
         over : {"no", "ended", "failed", "quit", "dropped"},
         holders : SUBSET {"consumer", "signal"},     \* who refers to the reply
         got : Seq(0..Last),                                 \* what it was given
         notice : {"none", "due", "sent"}]                   \* the cancel notice

TypeOK ==
  /\ conn \in {"up", "down", "closed"} /\ channel \in {"none", "open", "closed"}
  /\ call \in [Calls -> Call]
  /\ \A c \in Calls : Len(call[c].chunks) <= MaxBuffered
  /\ total \in 0..MaxTotal /\ faults \in 0..MaxFaults

Unmade == [made |-> FALSE, pub |-> "none", request |-> "no", registered |-> FALSE,
           chunks |-> <<>>, next |-> 0, ended |-> FALSE, error |-> "none",
           cancelled |-> FALSE, released |-> FALSE, idle |-> FALSE, pull |-> "idle",
           woken |-> FALSE, over |-> "no", holders |-> {}, got |-> <<>>, notice |-> "none"]

Init ==
  /\ conn \in {"up", "down"} /\ channel = (IF conn = "up" THEN "open" ELSE "none")
  /\ call = [c \in Calls |-> Unmade] /\ total = 0 /\ faults = 0

--------------------------------------------------------------------------------
(* Helpers. *)

Fault == faults < MaxFaults /\ faults' = faults + 1

\* A buffer that grows or shrinks moves the total with it, never below zero.
Becomes(c, k) ==
  /\ call' = [call EXCEPT ![c] = k]
  /\ total' = Max({0, total + Len(k.chunks) - Len(call[c].chunks)})

Wake(k) == [k EXCEPT !.woken = @ \/ k.pull # "idle"]

\* _release_call: once, on any terminal outcome; the signal lets the reply go.
Release(k) ==
  IF k.released THEN k
  ELSE [k EXCEPT !.released = TRUE, !.idle = FALSE, !.registered = FALSE, !.chunks = <<>>,
                 !.holders = @ \ {"signal"}]

\* _notify: only for a request that may have reached a producer.
Notify(k) ==
  [k EXCEPT !.notice = IF k.pub \in {"sent", "ambiguous"} /\ channel = "open" THEN "sent" ELSE "none"]

\* Mutant: the notice goes out at once, whatever the request is doing.
Stop_atOnce(k) ==
  CASE k.pub \in Unsent  -> [k EXCEPT !.pub = "withdrawn"]
    [] k.pub \in Sending -> [k EXCEPT !.notice = "sent"]
    [] OTHER             -> Notify(k)

\* Withdraw a request that has not left, hold the notice until one that is
\* leaving has settled, or send it.
Stop(k) ==
  CASE k.pub \in Unsent  -> [k EXCEPT !.pub = "withdrawn"]
    [] k.pub \in Sending -> [k EXCEPT !.notice = "due"]
    [] OTHER             -> Notify(k)

\* _cancel with notify_only.
Abandon(k) == IF k.cancelled THEN k ELSE Stop(Release([k EXCEPT !.cancelled = TRUE]))

\* _cancel by the caller: the call ends, and a parked consumer observes it.
Cancel(k) ==
  IF k.cancelled THEN k
  ELSE Stop(Wake([Release([k EXCEPT !.cancelled = TRUE]) EXCEPT !.ended = TRUE]))

\* A stream that failed by itself: the consumer's next pull raises the error.
Fail(k, error) == Wake(Abandon([k EXCEPT !.error = error, !.ended = TRUE]))

\* Mutant: a failed publish is reported, whatever already ended the call.
PublishFails_last(k, how) ==
  LET e == [k EXCEPT !.pub = how, !.error = "publish", !.ended = TRUE]
  IN Wake(IF how = "definite" THEN Release(e)
          ELSE [Release(e) EXCEPT !.cancelled = TRUE, !.notice = "due"])

\* The except branch of _publish.  An ambiguous failure owes the producer a
\* notice, sent once the task has ended; a call that is over stays as it is.
PublishFails(k, how) ==
  IF k.released THEN [k EXCEPT !.pub = how]
  ELSE LET e == [k EXCEPT !.pub = how, !.error = "publish", !.ended = TRUE]
       IN Wake(IF how = "definite" THEN Release(e)
               ELSE [Release(e) EXCEPT !.cancelled = TRUE, !.notice = "due"])

\* _publish_on_the_bus on the channel as it is now; on none, or on a closed one,
\* it raises.
Launch(k, step) ==
  IF channel = "open" THEN [k EXCEPT !.pub = step, !.request = "wire"]
  ELSE PublishFails(k, "ambiguous")

--------------------------------------------------------------------------------
(* The call and its publish task. *)

\* Mutant: the deadline is left to the first pull.
Create_undated(c) ==
  /\ ~call[c].made /\ conn # "closed"
  /\ Becomes(c, [Unmade EXCEPT !.made = TRUE, !.pub = "start", !.registered = TRUE,
                               !.holders = {"consumer"}])
  /\ UNCHANGED <<link, faults>>

\* publish_streaming, perhaps with a signal, which then holds the reply's _on_abort,
\* or with one that is aborted already.
Create(c) ==
  /\ ~call[c].made /\ conn # "closed"
  /\ \/ \E signal \in SUBSET {"signal"} :
          Becomes(c, [Unmade EXCEPT !.made = TRUE, !.pub = "start", !.registered = TRUE,
                                    !.idle = TRUE, !.holders = {"consumer"} \cup signal])
     \/ Becomes(c, [Unmade EXCEPT !.made = TRUE, !.ended = TRUE, !.holders = {"consumer"}])
  /\ UNCHANGED <<link, faults>>

\* when_ready: at once, parked, or refused.
PublishStarts(c) ==
  /\ call[c].pub = "start"
  /\ Becomes(c, CASE conn = "up"   -> Launch(call[c], "sending")
                  [] conn = "down" -> [call[c] EXCEPT !.pub = "parked"]
                  [] OTHER         -> PublishFails(call[c], "ambiguous"))
  /\ UNCHANGED <<link, faults>>

PublishResumes(c) ==
  /\ \/ call[c].pub = "woken"   /\ Becomes(c, Launch(call[c], "sending"))
     \/ call[c].pub = "rewoken" /\ Becomes(c, Launch(call[c], "resending"))
  /\ UNCHANGED <<link, faults>>

\* when_ready gave up, or was told that the connection is given up.
ReadinessFails(c) ==
  /\ call[c].pub \in {"parked", "again"}
  /\ Becomes(c, PublishFails(call[c], "ambiguous"))
  /\ UNCHANGED <<link, faults>>

Confirmed(c) ==
  /\ call[c].pub \in {"sending", "resending"} /\ call[c].request = "stored"
  /\ Becomes(c, [call[c] EXCEPT !.pub = "sent"])
  /\ UNCHANGED <<link, faults>>

Refused(c) ==
  /\ call[c].pub \in {"sending", "resending"} /\ call[c].request = "wire" /\ Fault
  /\ Becomes(c, PublishFails([call[c] EXCEPT !.request = "no"], "definite"))
  /\ UNCHANGED link

ConfirmTimesOut(c) ==
  /\ call[c].pub \in {"sending", "resending"}
  /\ Becomes(c, PublishFails(call[c], "ambiguous"))
  /\ UNCHANGED <<link, faults>>

\* The done-callback of a publish task whose call was cancelled mid-send.
NoticeFalls(c) ==
  /\ call[c].notice = "due" /\ call[c].pub \in Settled
  /\ Becomes(c, Notify(call[c]))
  /\ UNCHANGED <<link, faults>>

\* Mutant: the idle deadline leaves a parked consumer to the next chunk.
IdleFires_silently(c) ==
  /\ call[c].idle
  /\ LET k == [call[c] EXCEPT !.idle = FALSE]
     IN Becomes(c, IF k.ended THEN k
                   ELSE Abandon([k EXCEPT !.error = "timeout", !.ended = TRUE]))
  /\ UNCHANGED <<link, faults>>

\* Mutant: a deadline that passes when all has arrived is set again.
IdleFires_rearms(c) ==
  /\ call[c].idle
  /\ Becomes(c, IF call[c].ended THEN call[c]
                ELSE Fail([call[c] EXCEPT !.idle = FALSE], "timeout"))
  /\ UNCHANGED <<link, faults>>

\* _on_idle.
IdleFires(c) ==
  /\ call[c].idle
  /\ LET k == [call[c] EXCEPT !.idle = FALSE]
     IN Becomes(c, IF k.ended THEN k ELSE Fail(k, "timeout"))
  /\ UNCHANGED <<link, faults>>

\* aclose() by the consumer, or the signal: whoever still holds the reply.
Close(c) ==
  /\ call[c].holders # {} /\ ~call[c].cancelled
  /\ Becomes(c, Cancel(call[c]))
  /\ UNCHANGED <<link, faults>>

--------------------------------------------------------------------------------
(* Chunks. *)

\* Mutants: the loss of a chunk goes unnoticed, a repeated one is buffered again,
\* and a chunk finds its call although the slot was released.
Arrive_noGap(k, n) ==
  IF n < k.next THEN Wake([k EXCEPT !.ended = @ \/ n = Last])
  ELSE IF Len(k.chunks) = MaxBuffered \/ total = MaxTotal
    THEN Fail([k EXCEPT !.next = n + 1], "backpressure")
  ELSE Wake([k EXCEPT !.next = n + 1, !.chunks = Append(@, n), !.idle = TRUE,
                      !.ended = @ \/ n = Last])
Arrive_unbounded(k, n) ==
  IF n < k.next THEN Wake([k EXCEPT !.ended = @ \/ n = Last])
  ELSE IF n > k.next THEN Fail(k, "sequence")
  ELSE Wake([k EXCEPT !.next = n + 1, !.chunks = Append(@, n), !.idle = TRUE,
                      !.ended = @ \/ n = Last])

\* _on_stream_chunk: drop what was seen, fail on a gap or a full buffer, or
\* buffer the chunk and give the producer more time.
Arrive(k, n) ==
  IF n < k.next THEN Wake([k EXCEPT !.ended = @ \/ n = Last])
  ELSE IF n > k.next THEN Fail(k, "sequence")
  ELSE IF Len(k.chunks) = MaxBuffered \/ total = MaxTotal
    THEN Fail([k EXCEPT !.next = n + 1], "backpressure")
  ELSE Wake([k EXCEPT !.next = n + 1, !.chunks = Append(@, n), !.idle = TRUE,
                      !.ended = @ \/ n = Last])

\* Mutant: a released call still takes chunks.
ChunkArrives_late(c, n) ==
  /\ call[c].request = "stored" /\ conn = "up"
  /\ IF n = call[c].next THEN UNCHANGED faults ELSE Fault
  /\ Becomes(c, Arrive(call[c], n))
  /\ UNCHANGED link

\* The producer's next chunk, or by a fault one repeated or out of turn.
ChunkArrives(c, n) ==
  /\ call[c].registered /\ call[c].request = "stored" /\ conn = "up"
  /\ IF n = call[c].next THEN UNCHANGED faults ELSE Fault
  /\ Becomes(c, Arrive(call[c], n))
  /\ UNCHANGED link

--------------------------------------------------------------------------------
(* The consumer. *)

\* Mutant: the end is looked at before the chunks still buffered.
Take_endFirst(k) ==
  IF k.error # "none" THEN [Release(k) EXCEPT !.pull = "idle", !.over = "failed"]
  ELSE IF k.ended THEN [Release(k) EXCEPT !.pull = "idle", !.over = "ended"]
  ELSE IF k.chunks # <<>>
    THEN [k EXCEPT !.pull = "idle", !.got = Append(@, Head(k.chunks)),
                   !.chunks = Tail(@), !.idle = TRUE]
  ELSE [k EXCEPT !.pull = "loop", !.woken = FALSE]

\* The loop of _next: raise, return a chunk, end, or park.
Take(k) ==
  IF k.error # "none" THEN [Release(k) EXCEPT !.pull = "idle", !.over = "failed"]
  ELSE IF k.chunks # <<>>
    THEN [k EXCEPT !.pull = "idle", !.got = Append(@, Head(k.chunks)),
                   !.chunks = Tail(@), !.idle = TRUE]
  ELSE IF k.ended THEN [Release(k) EXCEPT !.pull = "idle", !.over = "ended"]
  ELSE [k EXCEPT !.pull = "loop", !.woken = FALSE]

\* __anext__: before the first chunk it waits for the publish too.
Pull(c) ==
  LET k == call[c]
  IN /\ "consumer" \in k.holders /\ k.over = "no" /\ k.pull = "idle"
     /\ Becomes(c, IF k.pub \in Settled \/ k.ended THEN Take(k)
                   ELSE [k EXCEPT !.pull = "first", !.woken = FALSE])
     /\ UNCHANGED <<link, faults>>

Resume(c) ==
  /\ \/ call[c].pull = "first" /\ (call[c].woken \/ call[c].pub \in Settled)
     \/ call[c].pull = "loop"  /\ call[c].woken
  /\ Becomes(c, Take(call[c]))
  /\ UNCHANGED <<link, faults>>

\* The consuming task is cancelled in a pull.
ConsumerCancelled(c) ==
  /\ call[c].pull # "idle"
  /\ Becomes(c, [Cancel(call[c]) EXCEPT !.pull = "idle", !.over = "quit"])
  /\ UNCHANGED <<link, faults>>

\* The consumer lets go of the reply, read to its end or not.
Drops(c) ==
  /\ "consumer" \in call[c].holders /\ call[c].pull = "idle"
  /\ Becomes(c, [call[c] EXCEPT !.holders = @ \ {"consumer"}])
  /\ UNCHANGED <<link, faults>>

\* Neither its consumer or its signal, nor its idle timer, nor its publish task
\* refers to the reply any more.
Unreferenced(k) == k.holders = {} /\ k.pull = "idle" /\ ~k.idle /\ k.pub \in Settled

\* Mutant: the slot is given back, the bytes are not.
Forget_keepsBytes(c) ==
  /\ call[c].registered /\ Unreferenced(call[c])
  /\ call' = [call EXCEPT ![c].registered = FALSE, ![c].chunks = <<>>, ![c].over = "dropped"]
  /\ UNCHANGED <<link, total, faults>>

\* Mutant: the finalizer takes the buffer, and leaves the slot.
Forget_keepsSlot(c) ==
  /\ call[c].registered /\ Unreferenced(call[c])
  /\ Becomes(c, [call[c] EXCEPT !.chunks = <<>>, !.over = "dropped"])
  /\ UNCHANGED <<link, faults>>

\* _forget_stream, the finalizer of a reply nothing refers to.
Forget(c) ==
  /\ call[c].registered /\ Unreferenced(call[c])
  /\ Becomes(c, [call[c] EXCEPT !.registered = FALSE, !.chunks = <<>>, !.over = "dropped"])
  /\ UNCHANGED <<link, faults>>

--------------------------------------------------------------------------------
(* The broker and the connection. *)

BrokerStores(c) ==
  /\ call[c].request = "wire"
  /\ Becomes(c, [call[c] EXCEPT !.request = "stored"])
  /\ UNCHANGED <<link, faults>>

Cut(k) == [k EXCEPT !.request = IF @ = "wire" THEN "no" ELSE @]

\* The publish of a socket lost is repeated once; that of a channel lost fails.
Interrupted(k, now) ==
  CASE k.pub = "sending" /\ now = "down" -> [Cut(k) EXCEPT !.pub = "again"]
    [] k.pub = "sending" /\ now # "down" -> PublishFails(Cut(k), "ambiguous")
    [] k.pub = "resending"               -> PublishFails(Cut(k), "ambiguous")
    [] k.pub \in {"parked", "again"} /\ now = "closed" -> PublishFails(k, "ambiguous")
    [] OTHER -> k

\* _on_disconnected fails every pending stream and forgets what they buffer.
Disconnected(k) ==
  IF ~k.registered THEN k
  ELSE Wake([k EXCEPT !.error = "disconnected", !.ended = TRUE, !.registered = FALSE])

SocketDrops ==
  /\ conn = "up" /\ Fault
  /\ conn' = "down" /\ channel' = "none" /\ total' = 0
  /\ call' = [c \in Calls |-> Interrupted(Disconnected(call[c]), "down")]

\* What the calls buffer together.
Bytes(calls) == MapThenSumSet(LAMBDA c : Len(calls[c].chunks), Calls)

\* What the failing publishes release is taken off the total, one after another.
ChannelLost(now) ==
  LET after == [c \in Calls |-> Interrupted(call[c], now)]
  IN /\ call' = after /\ total' = Max({0, total - (Bytes(call) - Bytes(after))})
     /\ channel' = (IF channel = "open" THEN "closed" ELSE channel)

ChannelCloses ==
  /\ conn = "up" /\ channel = "open" /\ Fault
  /\ ChannelLost("up")
  /\ UNCHANGED conn

\* disconnect(): no event, and the streams are left to their idle deadlines.
ConnectionCloses ==
  /\ conn # "closed" /\ conn' = "closed"
  /\ ChannelLost("closed")
  /\ UNCHANGED faults

Reconnects ==
  /\ conn = "down" /\ conn' = "up" /\ channel' = "open"
  /\ call' = [c \in Calls |-> [call[c] EXCEPT
       !.pub = CASE @ = "parked" -> "woken" [] @ = "again" -> "rewoken" [] OTHER -> @]]
  /\ UNCHANGED <<total, faults>>

PublishStep(c) == PublishStarts(c) \/ PublishResumes(c) \/ ReadinessFails(c)
                  \/ Confirmed(c) \/ ConfirmTimesOut(c)

Next ==
  \/ \E c \in Calls :
       \/ Create(c) \/ PublishStep(c) \/ Refused(c) \/ BrokerStores(c)
       \/ NoticeFalls(c) \/ IdleFires(c) \/ Close(c)
       \/ Pull(c) \/ Resume(c) \/ ConsumerCancelled(c) \/ Drops(c) \/ Forget(c)
       \/ \E n \in 0..Last : ChunkArrives(c, n)
  \/ SocketDrops \/ ChannelCloses \/ ConnectionCloses \/ Reconnects

Spec == Init /\ [][Next]_vars

\* Tasks run on, waits have their limits, timers fire, and a reply nothing refers
\* to is finalised.  The consumer need neither pull nor close nor let go, the
\* signal need never fire; the broker, the producer and the connection owe nothing.
FairSpec ==
  /\ Spec
  /\ \A c \in Calls : /\ WF_vars(PublishStep(c)) /\ WF_vars(NoticeFalls(c))
                      /\ WF_vars(IdleFires(c)) /\ WF_vars(Resume(c)) /\ WF_vars(Forget(c))

--------------------------------------------------------------------------------
(* Properties. *)

InTurn(s) == \A i \in 1..Len(s) : s[i] = i - 1

\* What the consumer is given is a prefix of what was produced: nothing missing,
\* nothing twice, whatever the broker repeats or loses.
DeliveredInOrder == \A c \in Calls : InTurn(call[c].got)

\* A loop that ends without an error has seen the whole stream, unless the caller
\* ended it.
CleanEndIsComplete ==
  \A c \in Calls : call[c].over = "ended" /\ ~call[c].cancelled /\ call[c].pub # "none" =>
    Len(call[c].got) = Last + 1

\* What the consumer of a stream sees is the stream (_on_stream_chunk, _next).
StreamIsFaithful == DeliveredInOrder /\ CleanEndIsComplete

\* A released call holds nothing and takes nothing any more: no slot, no buffer,
\* no timer, although chunks and the publish may still be on their way.
NothingHeld ==
  \A c \in Calls : call[c].released =>
    ~call[c].registered /\ call[c].chunks = <<>> /\ ~call[c].idle

\* Until the first fault the total counts exactly what the calls buffer.
TotalIsExact == faults = 0 => total = Bytes(call)

\* A call that is not over has a timer to end it.
DeadlineArmed == \A c \in Calls : call[c].registered /\ ~call[c].ended => call[c].idle

\* Slots, buffers, the dispatcher's total and timers belong to live calls and
\* to nothing else (_drop_buffer, _release_call, _arm_idle).
BuffersAccounted == TypeOK /\ NothingHeld /\ TotalIsExact /\ DeadlineArmed

\* The cancel notice never overtakes its request: once it is sent, no request of
\* the call leaves the process, and none that was refused or withdrawn gets one.
NoticeFollowsRequest ==
  [][\A c \in Calls : call[c].notice = "sent" =>
       /\ call[c].pub \in {"sent", "ambiguous"}
       /\ call'[c].pub = call[c].pub /\ call'[c].notice = "sent"]_vars

\* The first error of a call stands, and a call that was released without one gets
\* none, with one exception that the code has: the error of a lost connection, whose
\* call is not released, gives way to the failure of its publish.
FirstOutcomeStands ==
  [][\A c \in Calls :
       \/ call'[c].error = call[c].error
       \/ /\ ~call[c].released
          /\ \/ call[c].error = "none"
             \/ call[c].error = "disconnected" /\ call'[c].error = "publish"]_vars

\* A consumer is never left in a pull, whatever becomes of the request, the
\* producer and the connection.
PullReturns == \A c \in Calls : call[c].pull # "idle" ~> call[c].pull = "idle"

\* A slot is given back although nobody iterates, closes or aborts; only a stream
\* that has ended, unread, keeps it for as long as its consumer or a signal holds it.
SlotReleased ==
  \A c \in Calls : call[c].registered ~>
    ~call[c].registered \/ (call[c].ended /\ call[c].holders # {})

\* No call keeps its consumer waiting or its slot for ever (_next, _on_idle,
\* _forget_stream).
CallReleases == PullReturns /\ SlotReleased

================================================================================
