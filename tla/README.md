# A TLA+ model of protobus

protobus (`protobus/`, Python, asyncio, aiormq) is an RPC and event framework
over RabbitMQ. A process holds one AMQP connection; services consume a durable
queue and answer on a callback exchange; callers publish requests with a
correlation id and wait; events fan out to every service that subscribed to their
topic. The promise that matters is made under failure: a request is handled at
least once, a caller is told the truth about what became of its request, a process
that loses its socket comes back whole, and one that is told to stop finishes what
it has begun. The modules here model the parts that make that promise, TLC checks
them on small instances, and TLAPS proves every safety property that the passing runs check,
a refinement and the action properties among them, for every instance.

## Inventory

Everything runs on one event loop per process, so an action of a model is a
stretch of code between two awaits. What makes the system hard is what may
happen at an await: a socket drops, a channel closes, a task is cancelled,
another delivery runs, a timer fires.

| component | source | state | operations | what makes it correct |
|---|---|---|---|---|
| delivery and retry ladder | `connection.py` 893–1189, `message_listener.py` 101–147 | queues of the broker, `x-retry-count`, delivery tasks, `_active_deliveries` | deliver, early ack, run, reply, stream, answer the error, park on the retry exchange, dead-letter, ack/reject, requeue, `cancel_stream` | nothing is lost, nothing sticks on an open channel, the reply precedes the ack, the DLQ only after every attempt |
| connection lifecycle | `connection.py` 411–828 | handle, generation, attempt counter, timer, tasks, restorers, readiness waiters | `connect`, `_do_connect`, `_on_handle_closed`, `_reconnect_attempt`, `_run_restorers`, `_discard_generation`, `disconnect`, `when_ready` | one socket, one reconnector, ready means restored, the budget holds, nobody is forgotten |
| publisher confirms | `connection.py` 1193–1316 | `in_flight`, `waiters`, `pending` per channel | `_confirmed_publish`, `_watch_channel_close` | the bound holds, no lost wake-up, the outcome is true |
| unary calls | `message_dispatcher.py` 165–597 | `_callbacks`, `_channel`, the call's publish task and deadline | `publish`, `_on_result`, `_on_disconnected`, `_restore` | errors tell the truth about the request, a reply is never discarded, every call ends |
| streaming calls | `message_dispatcher.py` 272–344, 599–918 | `_pending_streams`, chunks, sequence number, idle timer, publish state | publish, chunk arrival, pull, idle expiry, abort, cancel notice | gapless prefix, the notice never overtakes the request, slots are released |
| listener lifecycle | `base_listener.py`, with what `message_listener.py` and `event_listener.py` add | channel, consumer tag, `_was_started`, bindings, names of the retry objects | init, subscribe, start, restore, `_recover_channel`, `stop_consuming`, close | one consumer while started, none after stop, nothing consumes without the ladder it climbs |
| graceful shutdown | `runnable_service.py`, `message_service.py` 198–302, `connection.py` 597–642 | consumers, in-flight counters, drain waiters, `_shutdown_event`, `_running_services`, exit code | launch, run, signal, `request_shutdown`, shutdown | stop before drain before cleanup before disconnect; `run()` returns; a failed start is reported |
| service dispatch | `message_service.py` 306–530, `service_proxy.py`, `errors.py`, envelopes of `message_factory.py` | contract, method table, the reply left on an exception, running iterators | resolve, check, call, encode, stream, classify and sanitize the error, decode | only the method the key names runs; one answer to every request; nothing internal crosses |
| schemas | `message_factory.py` 660–1024, `proto_parser.py`, `custom_types.py` | a root per factory, names bound in it, the process-wide registry of custom types | `init`, `parse`, `register_type`, `add_proto`, name resolution | everything that can be loaded is, in any order; names bound once and alike |
| events and routing | `event_dispatcher.py`, `event_listener.py`, `trie.py`, `message_service.py` 249–300 | durable queue and bindings, trie, ladder of the queue | publish, subscribe, `subscribe_all`, match, run handlers, retry | each handler that matches, once per attempt; a retry stays with the service that failed; nothing the broker took is lost |
| cancel listener, abort signal | `cancel_listener.py`, `cancellation.py` | consumer on a fanout, signal listeners | start, notice, close | a notice reaches the delivery it names |
| context | `context.py` | wiring | init, close | schemas, then the connection, then traffic |
| errors, priority, config, logger, CLI | the remaining files | none that several steps share | | |

How they meet: a component registers a *restorer* with the connection, which
runs all of them after every reconnection before it announces readiness;
`disconnected` is an event the dispatcher and the listeners react to at once;
the dispatchers and `consume` publish through `_confirmed_publish`; `consume` counts
its deliveries on the connection, where every service's drain waits for the count;
a service hands its handlers to `consume`, which decides from the error they raise
whether to retry; dispatcher and service encode with the factory of their context;
the broker carries everything else.

## Modules

### `SettleLadder` (with `AtLeastOnce`, `SettleLadder_proofs`)

One service queue and its consumer. A *copy* is what the broker holds of a
logical message, because a retry or a dead-lettering publishes a fresh copy
before it acks the old one. `where` is the queue (ready, held by a consumer,
being acked, retry, dlq), `count` the header `x-retry-count`. A *slot* is one
task running `on_message`; its steps are the awaits of that function:

| step | code |
|---|---|
| `early` | the ack of an early acker (934–936) |
| `run` | the handler, its timeout, its failure (951–995) |
| `reply` | the unary or streaming reply (997–1012, 1318–1380) |
| `answer` | `publish_error_reply` (1039–1058) |
| `park`, `bury` | the retry and the dead-letter publication (1065–1116) |
| `settle` | the ack, or the reject without requeue (1013, 1026, 1099, 1116, 1122) |
| `recover` | `_recover_unsettled` (1157–1189) |

`live` says that the channel the delivery came on is still open; the tasks of a
lost channel run on beside the redelivery, as in the code. A publication on a
live channel can be confirmed, fail, or (`ParkFails`, `BuryFails`,
`ReplyFails("ambiguous")`) fail with the message stored all the same. The TTL hop
of the retry queue belongs to the broker (`RetryHop`), is unconfirmed, and may
drop the copy (`HopDrops`).

`SettledForAReason` joins `DoneMeansAnswered` (a settled request was answered) and
`DeadOnlyAfterAllAttempts` (the DLQ holds only what failed on every attempt).

`AtLeastOnce` is the abstract promise: a message stays owed until a reason to let
it go is on record, and a message let go may only come back. `SettleLadderLive`
checks that the ladder implements it under the mapping `Owed`.

### `Connection` (with `Connection_proofs`)

One connection object with `connect()`, the shared `_do_connect` task, any number of
reconnection timers and `_reconnect_attempt` tasks (`task`, a timer first and a task when
that fires), and `disconnect()`. `held` says which of them `_reconnect_timer` or
`_reconnect_task` still refers to: a second one takes the reference over, and the first
runs on where `disconnect()` cannot reach it. `socket` is every socket ever opened, so a
leaked or second socket is a state that can be seen; `restored` are the components whose
topology is on the installed one. A completed dial is seen by those awaiting it only when
they resume: `Tell` puts them in `connected` or `refused`, and the loop may run anything
else first. The two closes that are awaited, in `_discard_generation` and in `disconnect()`, are
steps of their own (`discard`, `closing`), and so is the cancellation that `disconnect()`
awaits.

Nothing in the code orders `connect()`, `disconnect()` and a reconnection among themselves.
`windows` records the interleavings that have occurred in which what the class promises
is not kept, so that the properties say which those are and that the rest is safe:

| window | what happened |
|---|---|
| `lost` | the socket was lost, and a reconnection scheduled, after the dial and before `connect()` resumed: it clears the flag of that reconnection and announces readiness (654–658) |
| `closed` | `disconnect()` was called after the dial and before `connect()` resumed: it announces a closed connection ready |
| `again` | `connect()` on a connection whose restorers are registered: it announces readiness without running them |
| `during` | `connect()` while a reconnection is under way: both work on the connection (646–654) |
| `closing` | `connect()` before a `disconnect()` has returned: it takes back the mark that stops the others |

`OneOfEach` joins the types with one socket, one reconnector and the budget, while no
window has let two parties in (`OneOwner`: the first and the last two); `ReadyMeansRestored`
excepts all five. `NobodyForgotten` and `ComesBack` hold in all of them.

### `RpcCall` (with `RpcCall_proofs`)

One call of `MessageDispatcher.publish`: the coroutine (`pc`), the reply slot in
`_callbacks`, the publish task, and the fate of the at most two copies of its
request. The connection is reduced to up, down or closed with a number for the
socket, since `Connection` models the rest; the publish task is `_confirmed_publish`
reduced to its outcomes, since `ConfirmedPublish` models the rest.
`ErrorsAreTruthful` says what each error promises its caller: after `TimeoutError` or
`DisconnectedError` the request may have been accepted, after any other error on the
first attempt it was not.

### `StreamingReply` (with `StreamingReply_proofs`)

The streaming calls of one dispatcher. A call is one record: its publish task
(`pub`: parked on readiness, sending, republishing, or how it settled), its request
on the way to the broker, its entry in `_pending_streams` with the buffer, the idle
timer, and its consumer between two pulls or in one. Handlers are operators from
the record they find to the one they leave (`Arrive` is `_on_stream_chunk`, `Take` the
loop of `_next`, `Stop` the end of `_cancel`), and the actions apply them; `Becomes`
moves `_total_buffered_bytes` with the buffer, as `_drop_buffer` does. Chunk n is the
body with sequence number n and counts as one byte, so the two bounds of one call
(chunks, bytes) coincide. The broker may, by a fault, repeat a chunk or deliver one
out of turn; the server may run the request again, which only repeats numbers.
A reply is finalised (`Forget`) once nothing refers to it: `holders` are its consumer, which lets
go when it likes or never (`Drops`), and the signal of a call, whose listener list has the
bound `_on_abort`; the idle timer and the publish task refer to it too (`Unreferenced`).
`SocketDrops` is `_on_disconnected` together with what it does to the publish in
flight; `ConnectionCloses` is `disconnect()`, which emits no event, so a stream is
left to its idle deadline.

What the model makes visible beside its properties: the republication of a stream's
request is always for a call that `_on_disconnected` has failed already, so its
chunks go nowhere; a stream that arrived completely but was not read yet raises
`DisconnectedError` after a drop; the failure of its publish replaces that error, since
the call is not released (the one exception in `FirstOutcomeStands`); a stream that has
ended is left alone by its idle timer, so one that is not read keeps its slot and its buffer
until its consumer and its signal have let go of it (the exception in `SlotReleased`); a publish that never left the process because the
connection was given up still counts as ambiguous, and a notice is sent for it when
a channel is there.

### `ConfirmedPublish` (with `Connection_proofs`)

Publishers sharing one confirm channel: the loop over the in-flight bound, the
list of waiters, the confirm future, the `finally` block that wakes the next, the
close callback that fails everything, and cancellation of a publisher while
parked, after its wake-up, and while sending. `BoundIsExact` joins the bound with
`NoLostWakeup`: nobody is parked while a place is free, a wake-up lost with a
cancelled publisher (`missed`) excepted.

### `ListenerLifecycle` (with `ListenerLifecycle_proofs`)

One listener, of requests or of events with a ladder, and the four kinds of
coroutine that use its fields: `task["app"]` is the owner's `init`, `subscribe` and
`start`; `task["ops"]` its `stop_consuming` and `close`; `task["restore"]` the restorer
that the connection runs; and one of `Recoverers` per channel lost on a live socket.
A task is the broker call it awaits (`pc`: open, declare, bind, ladder, consume,
cancel, shut) and the channel that call was issued on (`on`). They interleave at every
call, and each call reads `_channel` anew, as the code does: a rebuild whose channel
was replaced under it goes on, on the other one. The connection is what a listener sees of
it: alive, the flag `connected`, reconnecting, an attempt under way. A broker may be
replaced by one that has nothing declared; a channel may close at any moment, its
callback running later (`closing`). An attempt runs the restorers attached when it began
(`Reconnect` makes this listener's `due`), one after the other, and whether the listener is rebuilt
is decided at its turn by what it is then (`RestoreTurn`).

Some interleavings do break what the listener promises. `windows` records those that
have occurred, so that every property says that the rest is safe and which ones are
not:

| window | what happened |
|---|---|
| `overslept` | a recovery slept through a restoration and rebuilt what was already whole |
| `second` | a second recovery began beside one that had not ended: its own channel closed under it |
| `ignored` | a channel closed while the connection was restoring other components |
| `resumed` | the owner called `start()` during a rebuild |
| `overtaken` | the turn of the restorer came when the owner had used the new socket already (`init` and `start` during the attempt) or was closing the listener |
| `stopInStart` | `stop_consuming()` or `close()` while `start()` awaited its consumer |
| `closeInRebuild` | `close()` while a rebuild was opening its channel |
| `gaveUp` | a recovery used up its attempts |

`ConsumesOnce` (at most one consumer), `StopIsFinal` (nothing consumes, and no channel
is held, after the end) and `RebuildIsWhole` (queue, binding and consumer are back,
never a consumer without the ladder it climbs) are the safety half, `ConsumesAgain` the
liveness half.

### `GracefulShutdown` (with `GracefulShutdown_proofs`)

Services on one context. `boot[s]` is how far `launch()` has come with the three
listeners, `shutdown[s]` the step of `shutdown()`, `work[m]` what has become of a
delivery. `InFlight` is the maximum of the two counters of the connection as the set it
counts: a handler that outlives its processing timeout (`overrun`) stays in it after its
delivery was settled. The count is the connection's, not the service's, so a drain waits
for the work of its neighbours; `disconnect()` is the connection's too, which is how one
service that is done cuts off another (`alone` false). `early` marks a service asked to
stop while `init()` was still starting consumers. Signals, `request_shutdown()`, the
failure of any start-up step and `run()` come in any order. `DrainsInOrder` is the order
the docstring of `shutdown()` gives, with the signal handlers installed exactly while
some service is inside `run()`; `LostHasCause` that a delivery is cut off only for a named
reason; `ShutdownEnds` that `run()` comes back and that a failed start stops and reports 1.

### `ServiceDispatch` (with `ServiceDispatch_proofs`)

A call from proxy to answer. A name is the sequence of its segments, so resolving a
contract is taking prefixes, and splitting a method off is taking the last segment.
`Requests` are those of a proxy, whose schema may lack the service or know another
contract, whose contract may name a method like one of the proxy's own attributes
(`Members`; its `init()` refuses it) and whose payload may not fit, and those of a raw
publisher, which may put any envelope under any routing key. `Rejection` is every check of `_on_message` in
its order; a handler returns, returns what does not encode, yields, raises a
`HandledError`, another error, or one and the same exception instance for several calls
(`shared`; `clash` records the calls concerned), or times out. `Settle` and `Climb` are
what `consume` does with each, without faults: those are `SettleLadder`'s. The properties
are `HandlersAreEntitled` (what may run, what may be retried), `EveryCallIsWoundUp` (one
final reply to each request, every iterator released) and `AnswersAreSound` (the outcome
the caller sees is what happened; internal text stays inside).

### `SchemaLoading`

The schemas of the factories of one process. A text is the types and services it
declares and the references it makes, each relative to a scope; a root is what the
descriptor pool holds, with every reference bound to the name it was resolved to.
`StartInit`, `LoadFile` and `NextPass` are the passes of `_load_files` over what is left,
`Parse` and `RegisterType` the two ways to add to a live factory. The registry of custom
types is the process's, so a registration through one factory is seen by the parser of
another whose root does not have it (`late`). `SchemasAreWhole` compares what was loaded
with the least fixpoint of what can be loaded in any order (`Loadable`), and two factories with
each other.

### `EventRouting` (with `EventRouting_proofs`)

Extends `SchemaLoading`: a publisher encodes an event with its factory, each replica
decodes with its own, and events are explored once the factories are deployed
(`Deployed`). A service has one durable queue and ladder, which outlive its replicas
together with the bindings. `MatchTopic` is the trie, with a node as the prefix that
leads to it and the walk of `_match` over it as a recursive function; `Matches` is
RabbitMQ's rule as a reference definition. An event is routed on its key; one without a key
on the topic in its body, and one without either is acknowledged unheard (`RoutedOn`, `Route`).
A handler is what `id()` tells apart: a function under two patterns runs once, but a bound
method that is looked up anew for each `subscribe()` is two handlers and runs twice. A replica starts its consumer
first and then subscribes one pattern after the other, works on one delivery at a time,
looks the handlers up once and runs them in order (a second `subscribe_all()` replaces the
first one's handler, `InForce`); any may fail, the replica may crash
between any two steps, and a confirm of the publisher may be lost, which publishes the
event again. The ladder of an event queue is modelled here by the branches `consume`
takes when nothing else fails, since `SettleLadder` has its faults; what is new is its
topology: the redelivery exchange of the one service, and no ladder at all when
`max_retries` is 0.

## Runs

| run | bounds | question |
|---|---|---|
| `SettleLadder` | one streaming request, two tasks, one retry, three copies, two faults | safety of the ladder (2.3 million states) |
| `SettleLadderLive` | two requests (one unary without a caller, one stream), prefetch 1, four copies, one fault | every message is settled; the ladder implements `AtLeastOnce` |
| `SettleLadderEarly` | two requests, early ack, two faults, producers that cancel themselves | an early acker reruns only after a loss |
| `Connection` | two components, a budget of two, three sockets, three faults, one disconnect, two attempts alive, one window | safety and recovery of the connection (1.26 million states) |
| `RpcCall` | three sockets | truth and termination of a call |
| `StreamingReply` | one call of three chunks, room for two, three faults | order, completeness, release, the notice, the deadline, the pulls |
| `ConfirmedPublish` | four publishers, two places | the bound, the wake-ups, the outcomes, termination |
| `ListenerLifecycle` | either kind of listener, two recoveries of two attempts, two faults, two windows | one consumer, none after the stop, a whole rebuild, consuming again (958,477 states) |
| `GracefulShutdown` | two services with one delivery each, one failed start | the order of the shutdown, losses with a cause, its end (430,000 states) |
| `ServiceDispatch` | one call of any kind beside a well-formed one, one retry, two chunks | what runs, what is answered, what the caller is told (107,000 states) |
| `EventRouting` | two factories over six texts; two services, one event, one retry, one failed handler, one crash, one lost confirm; every table of two routes of up to three words on every topic of up to three | schemas, routing, the event ladder, nothing lost (980,000 states) |
| `EventBacklog` | the same instance without faults | violated, see below |

Why these bounds are enough. *Ladder*: one retry separates "climb" from "give up"; two tasks
and two faults let a zombie task of a lost channel overlap the redelivery and let
that one fail too; three copies are an original, its retry and one ambiguous
duplicate. Where all copy names are in use, a publication that would need one is
disabled, so longer chains of duplicates are cut off and not explored.
*Connection*: two attempts in the budget distinguish a counter that is reset from one that is
not; three faults are enough to lose a socket, fail its restoration and then a dial, which
is a budget used up; once the three sockets are used the broker refuses every dial, without a
fault. Two attempts alive are one and the second that a window lets in, and after one
window everything runs on, so that `NobodyForgotten` and `ComesBack` are checked behind each of
them. With these bounds each window is needed by `OneOfEach` or by `ReadyMeansRestored`. *Calls*: two sockets make a republication, a third one lets
that one be lost too. Three chunks with room for two give a full buffer, a gap and a
repetition in the middle of a stream; three faults let a lost socket follow a
repeated chunk and a lost channel. One call is enough for all but the total, which the
calls share: `BuffersAccounted` for more calls is the same sum. *Confirms*:
two places and four publishers give two in flight and two parked.
*Listener*: two faults lose a channel and then the socket under its recovery, or refuse
the recovery (a broker that refuses it once may go on, as one fault); two recoveries are one
and a second beside it. `MaxWindows = 2` lets the owner and the faults go on after one unsafe
interleaving and rest after a second. With these bounds every window that a property excuses is
needed: without any one of them TLC finds a behaviour that violates the property. Three channels
and four tags are reused when nothing refers to them.
*Shutdown*: the two services are each other's neighbour in every respect; one is busy with
an event and the other with a request, which `shutdown()` stops at different steps. The third
service would add no new step.
*Dispatch*: the second call is there to share an exception and a service with the first; the
odd requests are every combination of key and body that fails a different check. *Schemas*: the
texts are a plain dependency, a name hidden by an inner scope, a custom type referred to
absolutely and relatively, and a cycle, in orders that need one pass and several; two
`init()` calls and two later additions let a failure be followed by each. *Events*: one event
copied by a lost confirm is two deliveries; patterns of three words put a wildcard at the
start, in the middle and at the end; one service climbs a ladder and the other has
none. Every deployment explored with events has the same two files (`Deployments`): the
others differ only in whether a body decodes, which a raw publisher's event of a type
nobody knows covers.

Every property has a mutant: a plausible bug in the mapped code (the definitions
whose comment begins with "Mutant") under which TLC finds it violated. A property
that joins several, such as `DrainsInOrder`, has several where its parts break in different ways.

Deadlock is not checked: a queue that has been emptied, a connection that was
closed, a call that has ended and a process that has shut down rest for good.

### Fairness

`SettleLadder`: each task's own code runs on (a handler is cut off by the
processing timeout, a confirm by its own; an async iterable is assumed to yield or
end, because the code puts no limit on it), the broker delivers, expires and
settles, and the channel is reopened (`BaseListener._recover_channel` and the
connection's restoration). Faults, cancellations and the loss of a TTL hop are
never forced. `Connection`: the loop runs what is due - a `connect()` that can resume, an attempt, a
close callback - in any order, dials end, timers fire. `RpcCall`: the coroutine runs when something it waits for has happened, and
the deadline passes; the broker, the service and the reconnection owe nothing.
`StreamingReply`: publish tasks run and their waits have limits, timers fire, a woken
pull resumes, and a reply to which nothing refers any more is finalised (CPython counts
references; the model leaves out no holder that the code has). The consumer need neither pull
nor close nor let go of its reply, the signal need not fire nor let go either, and producer,
broker and connection owe nothing.
`ConfirmedPublish`: tasks run and the confirm timeout passes; the broker owes
nothing. `ListenerLifecycle`: the loop runs every task and callback, the broker answers,
a lost socket is noticed and the connection comes back; the listener's owner and all faults
are free. `GracefulShutdown`: a shutdown takes its next step (its drain has a deadline) and
a `run()` whose event is set returns; handlers need not end, and nobody need ask for a
shutdown. `ServiceDispatch` and `EventRouting` check safety only, and state no fairness:
whether a delivery is worked off in the end is the question of `SettleLadderLive`.

### Assumptions that are switches

- `ProducerCancels` (SettleLadder): stream producers may raise `CancelledError`
  that nobody asked for.
- `ReadyHolds` (RpcCall): nothing runs between readiness and the publisher it
  woke. The passing run has it off.

## Where the code and its documents differ

Reproduced by a run whose property TLC violates:

- `EventBacklog`: `MessageService.init()` starts the event consumer
  (`message_service.py` 249) before anything can be subscribed, and the durable queue
  still has its bindings: what accumulated while every replica was down is delivered to a
  router without handlers, matches nothing and is acknowledged. `docs/guide/events.md` 388
  says of such an event that it "survives: the queue is durable and not auto-delete, so it
  accumulates".

Reproducible by changing an instance, as said with each:

- A stream producer that raises `CancelledError` unasked leaves its delivery
  unacknowledged on an open channel (`connection.py` 1022, 1361), which
  `_recover_unsettled` says must not happen. (`SettleLadder.cfg` with
  `ProducerCancels = TRUE` violates `NoStuckDelivery`.)
- `connect()` announces readiness without looking at the socket, at `disconnect()` or at the
  restorers (`connection.py` 654–658), where line 463 says of `is_ready` that it is "True when the
  socket is up AND every restorer has finished"; and called during a reconnection, or beside a
  `disconnect()` that has not returned, it makes a second party work on the connection, whose socket
  or attempt can be left over. (Drop the window from `OneOwner` or `ReadyMeansRestored`.)
- A socket lost between readiness and the woken publisher makes the publish run on a
  channel that is `None`, an `AttributeError` (`message_dispatcher.py` 486): the outcome
  `untyped` of `RpcCall`, reachable in `RpcCall.cfg`.
- `_on_disconnected` sets the total of buffered bytes to 0 while the failed streams keep
  theirs, which are subtracted again when they are released (`message_dispatcher.py`
  220, 343); the total then counts less than is buffered, and the bound over all calls
  admits more than its limit. (`StreamingReply` with two calls of two chunks, room for one
  byte in all, and one lost socket.)
- A publisher cancelled after it was popped from `waiters` and before it runs leaves with
  the wake-up (`connection.py` 1276–1282). (`NoLostWakeup` without its excuse `missed`.)
- A listener may consume its queue twice over, or after it was stopped: a recovery that
  slept through a restoration (`base_listener.py` 218), one that began beside another (190),
  a restorer whose turn comes after `init()` and `start()` on the new socket (147),
  a `start()` during a rebuild, a `stop_consuming()` while `start()` awaits its consumer,
  where 329–331 says that "a reconnection inside the drain window must not put the consumer
  back". (Drop the window from the property that names it.)
- A second `init()` that fails leaves `is_initialized` true (`ReadyMeansLoaded` without
  `inits[f] > 1`); a custom type registered through another factory makes `parse()` refuse a
  text that names it (`CustomTypesAgree` without `late`); a name with candidates in two
  scopes is bound by load order, and files that refer to each other in a cycle cannot be
  loaded, where `docs/guide/schema.md` 458 and `docs/operations/troubleshooting.md` 263 say that
  files are loaded "in dependency order" whatever order they are found in
  (`OrderDoesNotMatter` without its exception; the `chicken` and `egg` texts).
- One exception instance raised for two requests carries one reply
  (`message_service.py` 408): the caller dead-lettered last gets the reply that names the other
  call (`AnsweredOnce` without `clash`).
- `request_shutdown()` during `init()` does not stop it from starting consumers
  (`StopBeforeDrain` without `early`), and a start that fails after it keeps exit code 0
  (`FailedStartStops` without `early`). `run()` entered after its shutdown has ended
  waits for ever (`RunComesBack` asks that it came before).

Read from the code while modelling, without a property that shows it:

- After a republication the error of the second
  attempt (`PublishNackedError`, `NotReadyError`) is raised as it is, although the first
  copy may have been accepted (`message_dispatcher.py` 541–545), where
  `docs/reference/errors.md` calls these errors definite.
- With `late_ack=False` the code publishes the
  error reply (`connection.py` 1123–1126) that
  `docs/concepts/delivery-guarantees.md` calls disabled entirely (`AnswerError`
  models it).
- A reply the broker refuses reruns a handler that succeeded
  (`ReplyFails("reply")`), a fourth source of duplicates beside the three listed there.
- An event whose handler raises a `HandledError` is rejected without requeue
  (`connection.py` 1117–1122) on a queue that has no dead-letter exchange: it is gone, where
  `docs/guide/events.md` 374–376 says it "goes straight to the DLQ". (`RunHandler` puts it
  in `dropped`.)
- A unary result that does not encode fails the delivery after the handler ran: it is
  retried, dead-lettered, and never answered (`message_service.py` 386). A streaming handler whose
  caller wants no reply leaves its iterator open.
- `trie.py` 41–42 says that a value keeps its "registration order"; `match_topic` returns
  the exact child's values before those of `*` and of `#`.

## Proofs

Each module `M_proofs` proves theorems about `M` for every value of its constants, from
the assumptions that `M` names and TLC evaluates on every run. Nearly all follow one
argument: an invariant `IInv` that the initial states satisfy, that every action
preserves (one step per action in the lemma about `Next`), and that implies the property.
TLC checked each `IInv` on the module's run before it was proved. What follows is what
each `IInv` adds to the properties, that is, why they hold.

| module | theorem | property | assuming |
|---|---|---|---|
| `SettleLadder_proofs` | `TypeCorrect` | `TypeOK` | |
| | `NothingIsLost` | `NoLoss` | |
| | `NothingSticks` | `NoStuckDelivery` | `~ProducerCancels` |
| | `NothingLeavesUnexplained` | `SettledForAReason` | |
| | `LadderKeepsPromise` | `KeepsPromise`, the refinement of `AtLeastOnce` | `LateAck` |
| | `RerunsHaveACause` | `RerunHasCause` | |
| | `EarlyAckersRunOnce` | `EarlyAckRerunsOnlyAfterLoss` | |
| | `ErrorReplyIsFinal` | `ErrorIsFinal` | |
| `Connection_proofs` | `ConnectionNeverForks` | `OneOfEach` | |
| | `ReadyIsRestored` | `ReadyMeansRestored` | |
| | `DisconnectSticks` | `DisconnectIsFinal` | |
| | `NobodyIsForgotten` | `NobodyForgotten` (action property) | |
| | `BoundStaysExact` | `BoundIsExact` of `ConfirmedPublish` | |
| | `OutcomesAreTruthful` | `OutcomeIsTruthful` of `ConfirmedPublish` | |
| `RpcCall_proofs` | `ErrorsTellTheTruth` | `ErrorsAreTruthful` | |
| | `NeverTwiceOnTheWire` | `OneCopyOnTheWire` | |
| | `RepliesWin` | `AnswerWins` (action property) | |
| `StreamingReply_proofs` | `StreamsAreFaithful` | `StreamIsFaithful` | |
| | `NoticesFollow` | `NoticeFollowsRequest` (action property) | |
| | `FirstOutcomesStand` | `FirstOutcomeStands` (action property) | |
| | `BuffersStayAccounted` | `BuffersAccounted` | |
| `ListenerLifecycle_proofs` | `ListenerConsumesOnce` | `ConsumesOnce` | |
| | `ListenerStopIsFinal` | `StopIsFinal` | |
| | `ListenerRebuildIsWhole` | `RebuildIsWhole` | |
| `GracefulShutdown_proofs` | `ShutdownIsOrdered` | `DrainsInOrder` | |
| | `NoLossWithoutCause` | `LostHasCause` | |
| `ServiceDispatch_proofs` | `HandlersEarnTheirRun` | `HandlersAreEntitled` | |
| | `CallsAreWoundUp` | `EveryCallIsWoundUp` | |
| | `AnswersStaySound` | `AnswersAreSound` | |
| `EventRouting_proofs` | `SchemasStayWhole` | `SchemasAreWhole` | |
| | `RetriesNeverSpread` | `RetriesStayHome` | |
| | `EventTypesHold` | `EventTypeOK`, a part of `RoutingIsExact` | |
| | `RoutingStaysExact` | `RoutingIsExact` | |
| | `EventsAreHandled` | `HandledOrExplained` | |

The two hypotheses are constants of the instance, and each is needed: with
the constant the other way TLC violates the property, or, for an early acker, the promise
is not made.

*Ladder.* `NoLoss` is not inductive: a step that lets a copy go must know why that is
safe. `IInv` adds `SlotsOK`, what a task knows of its copy at each of its steps (above
all, a task that answers for its delivery on an open channel has a copy that is held,
and one about to ack for a parked retry says so in `why`); `OneHolder`, that no two such
tasks have the same copy; and `Owing`, that for a late acker every message has a reason on
record or a *safe* copy: one that is ready, held, waiting for its retry or dead-lettered,
and that no live task is about to ack because its retry was stored. The other theorems
carry an invariant of their own on top: `Attended` (every held copy has a task that
answers for it), `ReasonInv` (a copy's count never exceeds the failed runs of its
message, and a task that is about to dead-letter knows of every failure), `RerunInv` (`Once`: a
message without a cause on record has one copy, started once at most; `Disturbed`: a task that
climbs the ladder has its cause on record), and `CalmInv` (without faults nobody is left
behind on a lost channel and each message has one copy due, so that what an error
reply says stays true). The refinement
maps the abstract set of messages to `Owed`: every action takes at most one message out of it, with its
reason, or puts some back.

*Connection.* As long as no window has let two parties in (`OneOwner`), the invariant says who
owns the connection (`Owned`). There is one attempt at most, and `disconnect()` knows of it
(`Alone`, `Reconnecting`); of it, a dial and a `connect()` about to resume, each excludes the others
(`DialFits`, `NoDialThen`, `CallerFits`) and says what the installed handle may be in the
meantime (`HandleFits`, `CloserFits`); the budget and readiness are what that owner left
(`BudgetFits`, `ReadyFits`, `RestorationFits`, the last but one only while no window has
announced readiness unseen, `Informed`). Since `task` has a single attempt then, every action is
first shown to be one of a simpler machine with one attempt (`LoneSteps`), and each part of the
invariant is proved to be kept by the steps of that machine. `NobodyForgotten` has no such
condition: it follows from `WaitersFit`, whatever has occurred.

*Calls.* The publish task may outlive its caller, so `IInv` ties what the caller was
told to the publish task's state and that state to the copy on the wire (`PublishFits`,
`CopiesFit`, `OutcomeFits`).

*Streams.* A call is a record and a handler an operator on it, so `IInv` is a predicate
`Good` of one record: it holds nothing once released (`Holds`), what was given and what is
buffered continue each other without a gap (`Runs`), a clean end was given the last chunk
(`Ends`), a notice follows its request (`Notifies`), the republication is of a failed call
(`Continues`). Each handler takes a good record to a good one; the two action properties
come from relations (`Stands`, `Settles`, `Goes`) that every handler satisfies. `Counted` adds
the dispatcher's total: a handler keeps a call's buffer, gives it up (`Keeps`) or lengthens it
by one chunk while there is room (`Fits`), and a sum over finitely many calls moves by what
one of them changes (`SumMoves`), by induction on sets of calls (`Grows`).

*Confirms.* The list of waiters holds each parked publisher once (`ListFits`), so waking
its head wakes somebody and never one twice; and the bound counts exactly those who send.
(`Connection_proofs` holds the proofs of both models of `connection.py`; they share no
variable, and the definitions of `ConfirmedPublish` that would clash are prefixed with
`Publisher`.)

*Listener.* None of the three properties is inductive: each says something of moments of
rest, and what makes it true is what each coroutine may rely on while it awaits the broker.
`IInv` says which calls a task can be in (`AppFits`, `OpsFits`, `RebuildersFit`), that a call
still awaited is on an open channel (`AwaitedOnOpen`), and what the connection's flags tell of
the rebuilds: the restorer works only during an attempt, a recovery only outside of one,
and the restorer whose turn has come opens its channel on a socket the listener has not used,
unless its owner had overtaken it (`ConnFits`, `InTurn`). So, unless a recovery overslept or began beside another, at most one rebuild
is at work (`OneRecovery`, `OthersRest`), on the listener's channel, or the listener has
none (`ChannelFits`). Every consumer is accounted for by whoever is ending it or by who started
it, and there is none while a rebuild has yet to start one (`ConsumersFit`): that is
`ConsumesOnce`. `StartFits` is what makes the two calls of the owner safe that take long: no
rebuild is about to consume beside a `start()` that awaits its consumer, and after `close()` has
cleared the fields nobody opens another channel; with `StopFits` and `OpenFits` that is
`StopIsFinal`. A started listener consumes, or has lost its channel, or has a rebuild on its
way (`WholeFits`), and what its channel lacks, a task is about to declare (`QueueFits`,
`BindingFits`, `LadderFits`); at rest, that is `RebuildIsWhole`. Each part is claimed
only while the windows that spoil it have not occurred, the same ones the properties excuse.
The actions go through a few relations: `Goes` and `Advances` for a task that completes a call
and issues the next, `Loses` and `Learns` for all the ways a channel is lost.

*Shutdown.* Each step of `shutdown()` leaves behind what the next relies on: what it
stopped stays stopped (`StopFits`), nothing of a service whose drain was woken is in flight
any more (`WokenFits`), and cleanup comes after the work (`CleanupAfterWork`) - but for what a
shutdown during `init()` (`early`) or the deadline of the drain excuses.

*Dispatch.* `IInv` is an invariant `Fits(c)` of each call and a frame lemma (`Elsewhere`)
for all other calls, which share only the exception instance: how many runs a call has had at
each attempt (`RunsFit`), what each reply in flight says about them (`RepliesFit`), which of them was
read (`ReadsFit`), and what its iterator has left (`IteratorFits`). `ContractIsPrefix` and
`LastSegment` are what resolving a name needs to know of sequences.

*Schemas.* The invariant is one of each factory. While a pass is running, what is loaded
is contained in every set closed under loading (`Least`), and what the passes have set aside
since the last text that went in still waits for a name that is not there (`Waiting`);
so a load that is stuck has reached the least fixpoint, and a load that ends has everything
(`EndFits`). Every binding is to a name of its own pool (`PoolFits`), and the custom types a factory
knows are those it or the process registered (`CustomsFit`). The steps of the
factories interleave freely: each action is shown to keep the invariant of the one it moves and to leave
the others alone.

*Events.* Every copy a service has to do with, queued, in its replica's hands or waiting for a retry, has
earned its place (`QueuesFit`): its first attempt was routed here by a binding of this
service, and every attempt before it failed here. No path takes a retry back to the shared exchange.

`EventsAreHandled` needs to know of each delivery at work which handlers are left (`RouteInv`):
what it still has to run matches the key (`Runs`), and each handler in force has run for this
copy, is on its list, or will be looked up when the handler of all events has ended
(`LeavesNoneOut`) - or its replica had not subscribed when the copy arrived. Then a copy that
was routed is pending somewhere, excused, or handled.

*The trie.* `TrieIsExact` is proved of every table and topic, not by induction over patterns
(the prover has no induction theorem it can use) but over a set of numbers that has 0 and, with each
number, the next (`Climbs`, from the well-foundedness of the naturals). The depth of the trie
is bounded (`Deepest`), so the recursive walk is defined (`VisitsDefined`), and what it collects at a node,
for the words that are left, is what `Reached` says: the handlers of the patterns through
that node whose rest can be cut to match (`VisitLists`, one level, from `ReachedOn`; `WalkLists`,
all levels). At the root that is RabbitMQ's rule. `FoldDefined` gives the folds of the community
modules step by step: what `Distinct`, `Only` and `FlattenSeq` return.

What the attempts taught about the models: the walk of the trie is a function of the node
whose values are functions of the position, since the prover knows no function of two
arguments. With two calls of `subscribe_all()` the second replaces the first, so what has to
handle an event are the handlers in force (`InForce`), not all that were ever subscribed. A
`CASE` whose guards overlap does not say which branch is meant, and TLC takes the first;
definitions that relied on that are chains of `IF` now, in the code's order. And TLC and
tlapm group `UNION A \cup B` differently; such a union is in parentheses.

Only model-checked is liveness, since `ENABLED` and fairness are out of the prover's reach:
`EverySettled`, `ComesBack`, `CallEnds`, `CallReleases`, `EveryPublishEnds`, `ConsumesAgain` and
`ShutdownEnds`.

## Not modelled

- In the modelled parts: `no_ack` consumers, unregistering a restorer, the branch
  of `_on_handle_closed` for an event loop that is shutting down, and two `connect()` or two
  `disconnect()` calls at a time. A waiter that comes when the last attempt has been given up,
  or before anything was connected, has nobody to wake it but its own timeout
  (`WaitTimesOut`); `NobodyForgotten` promises it no more.
- The grammar of `.proto` texts (tokenizer and parser of `proto_parser.py`) and the
  conversion of payloads to and from the wire: pure functions over data that no protocol
  above looks at. A schema is what its text declares and refers to, a payload fits its
  type or does not.
- The module-level `register_custom_type()` before any factory exists, the arity of
  handlers, and the generated proxies' method objects.
- The cancel listener's own channel, which nobody watches and whose loss costs only notices,
  and the list of callbacks of an abort signal.
- Error classes, priorities, configuration, logging: validation of single values and
  formatting, without state that several steps share. The command line tools: generators
  run by hand.

## Plan

The components that keep state across an await are modelled, and every safety property of
every passing run is a theorem. A change of the code starts at the definition that models it:
TLC on the run, then the lemma of that action in the proofs.
