----------------------------- MODULE ServiceDispatch -----------------------------
(***************************************************************************)
(* A call from the proxy that makes it to the answer the proxy hands back:  *)
(* the envelope ServiceProxy builds, what MessageService._on_message checks *)
(* before it runs a handler, how each way a handler can end becomes a       *)
(* reply, and what the caller is told (protobus/service_proxy.py,           *)
(* message_service.py, errors.py, the envelopes of message_factory.py).     *)
(*                                                                          *)
(* Broker and retry ladder are what SettleLadder promises of them, without  *)
(* faults: a delivery is answered and settled, or retried, or dead-lettered.*)
(***************************************************************************)
EXTENDS Naturals, Sequences, FiniteSets, SequencesExt

CONSTANTS
  Calls,         \* correlation ids
  Sends,         \* what each call may send: see Requests
  Service,       \* the runtime name of the service, as its segments
  ServerKnows,   \* the services in the server's schema
  Declared,      \* the methods the contract declares
  Streams,       \* those declared `returns (stream X)`
  Own,           \* the names for which the service class has a handler
  Members,       \* the attributes every ServiceProxy has
  MaxRetries,
  MaxChunks      \* chunks a stream yields (a bound)

\* The name in an envelope that does not decode.
Garbage == <<>>

\* A proxy sends a method of its contract, with a payload that fits the declared
\* type or not; a raw publisher puts whatever it likes under any key.  "knows" is
\* the schema of the caller, "declares" the methods of the contract it finds there,
\* and "reads" that it can decode the response type.
Requests ==
  [by : {"proxy"}, knows : SUBSET Seq(STRING), declares : SUBSET STRING, method : Declared,
   fits : BOOLEAN, rpc : BOOLEAN, reads : BOOLEAN]
  \cup [by : {"raw"}, key : Seq(STRING), envelope : Seq(STRING),
        fits : BOOLEAN, rpc : BOOLEAN, reads : BOOLEAN]

ASSUME SchemaAssumption ==
  /\ Streams \subseteq Declared /\ Declared \subseteq STRING
  /\ Service \in Seq(STRING) /\ Service # <<>>
ASSUME SendsAssumption  == \A c \in Calls : Sends[c] \subseteq Requests
ASSUME BoundAssumption  == MaxRetries \in Nat /\ MaxChunks \in Nat

VARIABLES
  exposes,   \* Config.expose_internal_errors()
  sent,      \* what each call sends
  phase,     \* where the request is
  attempt,   \* x-retry-count
  answer,    \* the reply a finished handler left: RESPONSE_BUFFER_ATTR or the result
  shared,    \* RESPONSE_BUFFER_ATTR of an exception that several handlers raise
  iterator,  \* the iterator of the service's streaming handler
  cancelled, \* the delivery being worked on, by a caller that closed its stream
  replies,   \* on their way to the caller, or read
  pulled,    \* how many of them the caller has read
  outcome,   \* what the caller was told
  ran,       \* handlers run, with the attempt (history)
  clash      \* calls whose shared exception another call raised again (history)

vars == <<exposes, sent, phase, attempt, answer, shared, iterator, cancelled, replies, pulled,
          outcome, ran, clash>>

server == <<phase, attempt, answer, shared, iterator, ran, clash>>
client == <<pulled, outcome>>

--------------------------------------------------------------------------------
(* Names.  "a.B.c" is <<"a", "B", "c">>. *)

\* _resolve_contract, of service and proxy alike: trim segments off the runtime
\* name until the schema knows it.  <<>> when nothing is left to trim.
Contract(name, known) ==
  LET matches == {n \in 1..Len(name) : SubSeq(name, 1, n) \in known}
  IN  IF matches = {} THEN <<>>
      ELSE SubSeq(name, 1, CHOOSE n \in matches : \A k \in matches : k <= n)

Serves == Contract(Service, ServerKnows)

\* split_method_name: the last segment, and everything before it.
Method(full)  == full[Len(full)]
Parent(full)  == SubSeq(full, 1, Len(full) - 1)

--------------------------------------------------------------------------------
(* Replies: ResponseContainers. *)

NoReply == [is |-> "none", call |-> "none", method |-> <<>>, code |-> "", text |-> ""]

Result(c, m) == [is |-> "result", call |-> c, method |-> m, code |-> "", text |-> ""]
Failure(c, m, code, text) == [is |-> "error", call |-> c, method |-> m, code |-> code, text |-> text]
EndOfStream(c, m) == [is |-> "end", call |-> c, method |-> m, code |-> "", text |-> ""]

Handled == "handled"      \* is_handled_error
Internal == "internal"    \* anything else, raised afresh
Shared == "shared"        \* anything else, the same instance for several requests

\* Mutant of Sanitized: the error crosses as it is.
Sanitized_asIs(c, m, error) ==
  IF error = Handled THEN Failure(c, m, "HANDLED_ERROR", "meant for the caller")
  ELSE Failure(c, m, "", "internal")

\* build_response of sanitize_error_for_client: an unhandled error crosses as an
\* InternalServiceError that quotes the correlation id, or as it is if configured.
Sanitized(c, m, error) ==
  IF error = Handled THEN Failure(c, m, "HANDLED_ERROR", "meant for the caller")
  ELSE IF exposes THEN Failure(c, m, "", "internal")
  ELSE Failure(c, m, "INTERNAL_ERROR", "generic")

--------------------------------------------------------------------------------
(* The request. *)

Message(c) ==
  LET s == sent[c]
  IN  IF s.by = "raw" THEN [key |-> s.key, envelope |-> s.envelope]
      ELSE [key |-> <<"REQUEST">> \o Service \o <<s.method>>,
            envelope |-> Contract(Service, s.knows) \o <<s.method>>]

Key(c) == Message(c).key
Envelope(c) == Message(c).envelope

\* Mutant of Rejection: the envelope alone decides.
Rejection_trustsBody(c) ==
  IF Envelope(c) = Garbage THEN Failure(c, Key(c), "PROTOCOL_ERROR", "rejected")
  ELSE IF Parent(Envelope(c)) # Serves \/ Method(Envelope(c)) \notin Declared \cap Own
    THEN Failure(c, Serves \o <<Method(Key(c))>>, "PROTOCOL_ERROR", "rejected")
  ELSE IF ~sent[c].fits THEN Failure(c, Envelope(c), "PROTOCOL_ERROR", "rejected")
  ELSE NoReply

\* The checks of _on_message in their order: envelope, routing key, name, contract,
\* handler, payload.  A rejection is labelled with the method of the key.
Rejection(c) ==
  LET key == Key(c)
      full == Envelope(c)
      label == Serves \o <<Method(key)>>
      Reject(m) == Failure(c, m, "PROTOCOL_ERROR", "rejected")
  IN  IF full = Garbage THEN Reject(key)
      ELSE IF \/ ~IsPrefix(<<"REQUEST">> \o Service, key) \/ Len(key) < Len(Service) + 2
              \/ Method(key) # Method(full)
              \/ Len(full) < 2
              \/ Parent(full) # Serves
              \/ Method(full) \notin Declared
        THEN Reject(label)
      ELSE IF Method(full) \notin Own \/ ~sent[c].fits THEN Reject(full)
      ELSE NoReply

--------------------------------------------------------------------------------
Phases == {"caller", "queued", "running", "streaming", "answered", "failed", "settled", "dead"}
Outcomes == {"none", "waiting", "value", "ended", "closed", "RemoteError", "InvalidRequestError",
             "InvalidResponseError", "InvalidServiceNameError"}

TypeOK ==
  /\ exposes \in BOOLEAN
  /\ sent \in [Calls -> Requests]
  /\ phase \in [Calls -> Phases]
  /\ attempt \in [Calls -> 0..MaxRetries]
  /\ \A c \in Calls : answer[c].is \in {"none", "result", "error", "shared"}
  /\ shared.is \in {"none", "error"}
  /\ iterator \in [Calls -> {"none", "open", "exhausted", "broken", "released"}]
  /\ cancelled \in [Calls -> BOOLEAN]
  /\ \A c \in Calls : Len(replies[c]) <= MaxChunks + 1 /\ pulled[c] \in 0..Len(replies[c])
  /\ outcome \in [Calls -> Outcomes]
  /\ \A r \in ran : r.call \in Calls /\ r.attempt \in 0..MaxRetries
  /\ clash \subseteq Calls

Init ==
  /\ exposes \in BOOLEAN
  /\ sent \in {f \in [Calls -> UNION {Sends[c] : c \in Calls}] : \A c \in Calls : f[c] \in Sends[c]}
  /\ phase = [c \in Calls |-> "caller"]
  /\ attempt = [c \in Calls |-> 0]
  /\ answer = [c \in Calls |-> NoReply] /\ shared = NoReply
  /\ iterator = [c \in Calls |-> "none"]
  /\ cancelled = [c \in Calls |-> FALSE]
  /\ replies = [c \in Calls |-> <<>>] /\ pulled = [c \in Calls |-> 0]
  /\ outcome = [c \in Calls |-> "none"]
  /\ ran = {} /\ clash = {}

Streaming(c) == Envelope(c) # Garbage /\ Method(Envelope(c)) \in Streams

--------------------------------------------------------------------------------
(* The proxy. *)

\* A name no schema resolves, and a method that would replace a member of the proxy,
\* fail its init(), a payload that does not fit fails the call; none of them sends
\* anything.  A call without a reply returns {}.
Call(c) ==
  /\ phase[c] = "caller" /\ outcome[c] = "none"
  /\ LET s == sent[c]
         refusal == IF s.by = "raw" THEN "none"
                    ELSE IF Contract(Service, s.knows) = <<>> \/ s.declares \cap Members # {}
                      THEN "InvalidServiceNameError"
                    ELSE IF ~s.fits THEN "InvalidRequestError" ELSE "none"
     IN  IF refusal # "none"
           THEN outcome' = [outcome EXCEPT ![c] = refusal] /\ UNCHANGED phase
           ELSE /\ phase' = [phase EXCEPT ![c] = "queued"]
                /\ outcome' = [outcome EXCEPT ![c] = IF s.rpc THEN "waiting" ELSE "value"]
  /\ UNCHANGED <<exposes, sent, attempt, answer, shared, iterator, cancelled, replies, pulled, ran, clash>>

\* cancel_stream: a notice that finds the request in its queue, or parked for a
\* retry, finds nothing to cancel.
CancelStream(c) ==
  cancelled' = [cancelled EXCEPT ![c] =
                 @ \/ phase[c] \in {"running", "streaming", "answered", "failed"}]

\* _unwrap and StreamingCall.__anext__: an error envelope needs no schema, a result
\* does; either ends a stream, which is closed at the server too.
Read(c) ==
  /\ outcome[c] = "waiting" /\ pulled[c] < Len(replies[c])
  /\ LET reply == replies[c][pulled[c] + 1]
         told == IF reply.is = "error" THEN "RemoteError"
                 ELSE IF reply.is = "end" THEN "ended"
                 ELSE IF ~sent[c].reads THEN "InvalidResponseError"
                 ELSE IF Streaming(c) THEN "waiting" ELSE "value"
     IN  /\ outcome' = [outcome EXCEPT ![c] = told]
         /\ IF Streaming(c) /\ told = "InvalidResponseError" THEN CancelStream(c) ELSE UNCHANGED cancelled
  /\ pulled' = [pulled EXCEPT ![c] = @ + 1]
  /\ UNCHANGED <<exposes, sent, server, replies>>

\* StreamingCall.aclose().
Close(c) ==
  /\ outcome[c] = "waiting" /\ Streaming(c)
  /\ outcome' = [outcome EXCEPT ![c] = "closed"]
  /\ CancelStream(c)
  /\ UNCHANGED <<exposes, sent, server, replies, pulled>>

--------------------------------------------------------------------------------
(* The service. *)

Ends(c, p, reply) ==
  /\ phase' = [phase EXCEPT ![c] = p]
  /\ answer' = [answer EXCEPT ![c] = reply]

\* _on_message up to the handler: no await in between.
Deliver(c) ==
  /\ phase[c] = "queued"
  /\ LET no == Rejection(c)
     IN  IF no # NoReply THEN Ends(c, "answered", no) /\ UNCHANGED ran
         ELSE /\ phase' = [phase EXCEPT ![c] = "running"]
              /\ ran' = ran \cup {[call |-> c, attempt |-> attempt[c]]}
              /\ UNCHANGED answer
  /\ UNCHANGED <<exposes, sent, attempt, shared, iterator, cancelled, client, replies, clash>>

\* A unary handler returns; a result that does not fit its type fails the delivery
\* with an exception that carries no reply.
Return(c) ==
  /\ phase[c] = "running" /\ ~Streaming(c)
  /\ \/ Ends(c, "answered", Result(c, Envelope(c)))
     \/ Ends(c, "failed", NoReply)
  /\ UNCHANGED <<exposes, sent, attempt, shared, iterator, cancelled, client, replies, ran, clash>>

\* A streaming handler returns its iterable, or something that is none.
ReturnStream(c) ==
  /\ phase[c] = "running" /\ Streaming(c)
  /\ \/ /\ phase' = [phase EXCEPT ![c] = "streaming"]
        /\ iterator' = [iterator EXCEPT ![c] = "open"]
        /\ UNCHANGED answer
     \/ Ends(c, "answered", Failure(c, Envelope(c), "", "not a stream")) /\ UNCHANGED iterator
  /\ UNCHANGED <<exposes, sent, attempt, shared, cancelled, client, replies, ran, clash>>

\* Mutant of Raise: a handled error climbs the ladder like any other.
Raise_retriesHandled(c) ==
  /\ phase[c] = "running"
  /\ \E error \in {Handled, Internal} : Ends(c, "failed", Sanitized(c, Envelope(c), error))
  /\ UNCHANGED <<exposes, sent, attempt, shared, iterator, cancelled, client, replies, ran, clash>>

\* _handle_unary_error: a handled error is the answer; another one carries the
\* answer up the ladder as an attribute of the exception, which belongs to
\* everybody the same instance was raised for.
Raise(c) ==
  /\ phase[c] = "running"
  /\ \E error \in {Handled, Internal, Shared} :
       LET reply == Sanitized(c, Envelope(c), error)
       IN  /\ Ends(c, IF error = Handled THEN "answered" ELSE "failed",
                   IF error = Shared THEN [NoReply EXCEPT !.is = "shared"] ELSE reply)
           /\ shared' = IF error = Shared THEN reply ELSE shared
           /\ clash' = IF error # Shared THEN clash
                ELSE clash \cup {d \in Calls \ {c} : phase[d] = "failed" /\ answer[d].is = "shared"}
  /\ UNCHANGED <<exposes, sent, attempt, iterator, cancelled, client, replies, ran>>

\* The processing timeout: the pre-encoded timeout_reply goes with the failure.
TimeOut(c) ==
  /\ phase[c] = "running"
  /\ Ends(c, "failed", Failure(c, Envelope(c), "PROCESSING_TIMEOUT", "timed out"))
  /\ UNCHANGED <<exposes, sent, attempt, shared, iterator, cancelled, client, replies, ran, clash>>

Answering(c, reply) ==
  replies' = IF sent[c].rpc THEN [replies EXCEPT ![c] = Append(@, reply)] ELSE replies

\* Mutant of Yield: an error of the iterator is logged, and the stream ends.
Yield_swallows(c) ==
  /\ phase[c] = "streaming" /\ sent[c].rpc /\ ~cancelled[c]
  /\ \/ /\ Len(replies[c]) < MaxChunks
        /\ Answering(c, Result(c, Envelope(c)))
        /\ UNCHANGED <<phase, iterator>>
     \/ /\ Answering(c, EndOfStream(c, Envelope(c)))
        /\ phase' = [phase EXCEPT ![c] = "settled"]
        /\ \E how \in {"exhausted", "broken"} : iterator' = [iterator EXCEPT ![c] = how]
  /\ UNCHANGED <<exposes, sent, attempt, answer, shared, cancelled, client, ran, clash>>

\* _stream_responses: chunks, and in the end the end, or the error that ended it -
\* one the handler raised, or a chunk that does not fit its type.
Yield(c) ==
  /\ phase[c] = "streaming" /\ sent[c].rpc /\ ~cancelled[c]
  /\ LET m == Envelope(c)
         Over(how, last) == /\ Answering(c, last)
                            /\ phase' = [phase EXCEPT ![c] = "settled"]
                            /\ iterator' = [iterator EXCEPT ![c] = how]
     IN  \/ /\ Len(replies[c]) < MaxChunks
            /\ Answering(c, Result(c, m))
            /\ UNCHANGED <<phase, iterator>>
         \/ Over("exhausted", EndOfStream(c, m))
         \/ \E error \in {Handled, Internal} : Over("broken", Sanitized(c, m, error))
  /\ UNCHANGED <<exposes, sent, attempt, answer, shared, cancelled, client, ran, clash>>

\* Mutant of StopStream: the wrapper is closed, the handler's iterator is not.
StopStream_abandons(c) ==
  /\ phase[c] = "streaming" /\ (cancelled[c] \/ ~sent[c].rpc)
  /\ phase' = [phase EXCEPT ![c] = "settled"]
  /\ UNCHANGED <<exposes, sent, attempt, answer, shared, iterator, cancelled, client, replies, ran, clash>>

\* The delivery was cancelled, or wants no reply.  In the second case the wrapper
\* is closed before it started, and its finally block, which closes the iterator of
\* the handler, does not run.
StopStream(c) ==
  /\ phase[c] = "streaming" /\ (cancelled[c] \/ ~sent[c].rpc)
  /\ phase' = [phase EXCEPT ![c] = "settled"]
  /\ iterator' = [iterator EXCEPT ![c] = IF sent[c].rpc THEN "released" ELSE "open"]
  /\ UNCHANGED <<exposes, sent, attempt, answer, shared, cancelled, client, replies, ran, clash>>

Settle(c) ==
  /\ phase[c] = "answered"
  /\ phase' = [phase EXCEPT ![c] = "settled"]
  /\ Answering(c, answer[c])
  /\ UNCHANGED <<exposes, sent, attempt, answer, shared, iterator, cancelled, client, ran, clash>>

\* A cancelled delivery is over.  The ladder: parked and delivered again, or answered with what the exception
\* carries and dead-lettered.
Climb(c) ==
  /\ phase[c] = "failed"
  /\ IF cancelled[c] THEN phase' = [phase EXCEPT ![c] = "settled"] /\ UNCHANGED <<attempt, clash, replies>>
     ELSE IF attempt[c] < MaxRetries
       THEN /\ attempt' = [attempt EXCEPT ![c] = @ + 1]
            /\ phase' = [phase EXCEPT ![c] = "queued"]
            /\ clash' = clash \ {c}
            /\ UNCHANGED replies
       ELSE /\ phase' = [phase EXCEPT ![c] = "dead"]
            /\ CASE answer[c].is = "none" -> UNCHANGED replies
                 [] answer[c].is = "shared" -> Answering(c, shared)
                 [] OTHER -> Answering(c, answer[c])
            /\ UNCHANGED <<attempt, clash>>
  /\ UNCHANGED <<exposes, sent, answer, shared, iterator, cancelled, client, ran>>

Next == \E c \in Calls :
  \/ Call(c) \/ Read(c) \/ Close(c)
  \/ Deliver(c) \/ Return(c) \/ ReturnStream(c) \/ Raise(c) \/ TimeOut(c) \/ Yield(c)
  \/ StopStream(c) \/ Settle(c) \/ Climb(c)

Spec == Init /\ [][Next]_vars

--------------------------------------------------------------------------------
(* Properties. *)

Finished(c) == phase[c] \in {"settled", "dead"}
ProtocolErrors(c) == {i \in 1..Len(replies[c]) : replies[c][i].code = "PROTOCOL_ERROR"}

\* "RabbitMQ topic permissions stay meaningful": a handler runs only for a method
\* of this service that the routing key names, that the contract declares and that
\* the service itself wrote, whatever the body asks for.
RunsWhatTheKeyAllows ==
  \A r \in ran :
    /\ IsPrefix(<<"REQUEST">> \o Service, Key(r.call))
    /\ Method(Key(r.call)) = Method(Envelope(r.call))
    /\ Method(Key(r.call)) \in Declared \cap Own

\* A request that is refused, or whose handler raised a HandledError, is answered
\* at its first failure and never comes back; only an exhausted one is dead.
OnlyFailuresAreRetried ==
  \A c \in Calls :
    /\ ProtocolErrors(c) # {} => attempt[c] = 0 /\ {r \in ran : r.call = c} = {}
    /\ phase[c] = "dead" => Cardinality({r \in ran : r.call = c}) = MaxRetries + 1
                             /\ answer[c].code # "HANDLED_ERROR"

\* A proxy whose schema resolves the same contract is never told that its request
\* could not be understood.
ProxiesAreUnderstood ==
  \A c \in Calls : sent[c].by = "proxy" /\ Contract(Service, sent[c].knows) = Serves
                     /\ sent[c].method \in Own => ProtocolErrors(c) = {}

HandlersAreEntitled == RunsWhatTheKeyAllows /\ OnlyFailuresAreRetried /\ ProxiesAreUnderstood

\* By the time a request is settled its caller has been sent exactly one final
\* reply, about this very call - unless its last failure was a result that would
\* not encode, which carries no reply, or an exception that was raised for another
\* call as well, whose reply it then gets, or it closed its stream.
AnsweredOnce ==
  \A c \in Calls :
    LET final == {i \in 1..Len(replies[c]) : replies[c][i].is # "result" \/ ~Streaming(c)}
    IN  /\ Cardinality(final) <= 1
        /\ Finished(c) /\ sent[c].rpc /\ ~(Streaming(c) /\ outcome[c] \in {"closed", "InvalidResponseError"}) =>
             Cardinality(final) = 1 \/ (phase[c] = "dead" /\ answer[c] = NoReply)
        /\ \A i \in 1..Len(replies[c]) : replies[c][i].call # c => c \in clash

\* The handler's iterator is released whichever way its stream ended - unless
\* nobody asked for a reply.
IteratorsAreReleased ==
  \A c \in Calls : Finished(c) /\ iterator[c] = "open" => ~sent[c].rpc

\* Both ends of every call are accounted for.
EveryCallIsWoundUp == TypeOK /\ AnsweredOnce /\ IteratorsAreReleased

\* What the caller is told is what happened: a value is its own result, a stream
\* that ends cleanly was produced to its end and read in full, and an error of the
\* server never turns into one of decoding.
ToldTheTruth ==
  \A c \in Calls : sent[c].rpc =>
    /\ outcome[c] \in {"value", "ended"} =>
         phase[c] = "settled" /\ pulled[c] = Len(replies[c])
         /\ \A i \in 1..Len(replies[c]) : replies[c][i].is # "error" /\ replies[c][i].call = c
    /\ outcome[c] = "ended" => iterator[c] = "exhausted"
    /\ outcome[c] = "InvalidResponseError" => ~sent[c].reads /\ replies[c][pulled[c]].is = "result"

\* The text of an internal error stays with the service unless it is configured to
\* cross, on every path: unary, streaming, retried, and of shared exceptions.
NothingInternalCrosses ==
  \A c \in Calls : \A i \in 1..Len(replies[c]) : replies[c][i].text = "internal" => exposes

AnswersAreSound == ToldTheTruth /\ NothingInternalCrosses

================================================================================
