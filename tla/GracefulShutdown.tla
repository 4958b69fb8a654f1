---------------------------- MODULE GracefulShutdown ----------------------------
(***************************************************************************)
(* Services that share one connection and one event loop: how they start,   *)
(* and how a signal, a request or a failed start shuts them down            *)
(* (protobus/runnable_service.py, message_service.py, the in-flight         *)
(* accounting of connection.py).                                            *)
(*                                                                          *)
(* shutdown() is a sequence of awaits - stop consuming, drain, clean up,    *)
(* disconnect - and each service runs its own, on a connection whose count  *)
(* of deliveries in flight and whose disconnect() are common to all.        *)
(***************************************************************************)
EXTENDS Integers, FiniteSets

CONSTANTS
  Services,      \* RunnableServices on one Context
  Messages,      \* requests and events waiting in their queues
  Home,          \* the service each message is for
  Kind,          \* "request" or "event"
  MaxFaults      \* failed start-up steps (a bound)

ASSUME HomeAssumption  == Home \in [Messages -> Services]
                          /\ Kind \in [Messages -> {"request", "event"}]
ASSUME BoundAssumption == MaxFaults \in Nat

VARIABLES
  connected,   \* until somebody calls connection.disconnect()
  boot,        \* how far launch() has come
  consuming,   \* what each service consumes: requests, events, cancellations
  work,        \* what has become of each message
  shutdown,    \* the step of the service's shutdown()
  woken,       \* its drain waiter has been resolved
  expired,     \* its drain reached SHUTDOWN_DRAIN_TIMEOUT_MS (history)
  event,       \* _shutdown_event: absent until run() creates it
  registered,  \* the services inside run(): _running_services
  installed,   \* the loop has our signal handlers
  exit,        \* exit_code
  faults,      \* failed start-up steps so far
  early,       \* asked to shut down while init() was running (history)
  alone        \* disconnected with every other service drained (history)

vars == <<connected, boot, consuming, work, shutdown, woken, expired, event,
          registered, installed, exit, faults, early, alone>>

broker == <<connected, consuming, work>>
asking == <<registered, installed, event>>

Boots == {"new", "requests", "events", "cancels", "ready", "failed"}
Steps == {"no", "stopRequests", "stopEvents", "stopCancels", "drain", "draining",
          "cleanup", "closing", "done"}

\* A message is handled, settled and done with, handled past its processing
\* timeout after it was settled ("overrun"), or lost to a disconnection, in
\* which case the broker redelivers it to another replica.
Fates == {"queued", "handling", "overrun", "settled", "lost"}

TypeOK ==
  /\ connected \in BOOLEAN /\ installed \in BOOLEAN /\ alone \in BOOLEAN
  /\ boot \in [Services -> Boots]
  /\ consuming \in [Services -> SUBSET {"request", "event", "cancel"}]
  /\ work \in [Messages -> Fates]
  /\ shutdown \in [Services -> Steps]
  /\ woken \in [Services -> BOOLEAN] /\ expired \in [Services -> BOOLEAN]
  /\ event \in [Services -> {"absent", "clear", "set", "returned"}]
  /\ \A s \in Services : woken[s] => shutdown[s] = "draining"
  /\ registered \subseteq Services
  /\ exit \in [Services -> {0, 1}]
  /\ faults \in 0..MaxFaults
  /\ early \in [Services -> BOOLEAN]

Init ==
  /\ connected = TRUE /\ installed = FALSE /\ alone = TRUE
  /\ boot = [s \in Services |-> "new"]
  /\ consuming = [s \in Services |-> {}]
  /\ work = [m \in Messages |-> "queued"]
  /\ shutdown = [s \in Services |-> "no"]
  /\ woken = [s \in Services |-> FALSE] /\ expired = [s \in Services |-> FALSE]
  /\ event = [s \in Services |-> "absent"]
  /\ registered = {}
  /\ exit = [s \in Services |-> 0]
  /\ faults = 0
  /\ early = [s \in Services |-> FALSE]

--------------------------------------------------------------------------------
(* Deliveries. *)

\* Mutant of InFlight: a handler that outlives its delivery is not counted.
InFlight_deliveries == {m \in Messages : work[m] = "handling"}

\* max(_in_flight_deliveries, _running_handlers), as the set it counts.
InFlight == {m \in Messages : work[m] \in {"handling", "overrun"}}

\* _maybe_drained: the waiters are resolved when the last one ends.
WakeDrains(ended) ==
  woken' = IF InFlight \subseteq ended
             THEN [s \in Services |-> woken[s] \/ shutdown[s] = "draining"] ELSE woken

Deliver(m) ==
  /\ connected /\ work[m] = "queued" /\ Kind[m] \in consuming[Home[m]]
  /\ work' = [work EXCEPT ![m] = "handling"]
  /\ UNCHANGED <<connected, boot, consuming, shutdown, woken, expired, asking, exit,
                 faults, early, alone>>

\* The delivery is answered and settled; on a closed connection it cannot be.
Settle(m) ==
  /\ work[m] = "handling"
  /\ work' = [work EXCEPT ![m] = IF connected THEN "settled" ELSE "lost"]
  /\ WakeDrains({m})
  /\ UNCHANGED <<connected, boot, consuming, shutdown, expired, asking, exit,
                 faults, early, alone>>

\* The processing timeout settles a delivery whose handler runs on.
Overrun(m) ==
  /\ connected /\ work[m] = "handling"
  /\ work' = [work EXCEPT ![m] = "overrun"]
  /\ UNCHANGED <<connected, boot, consuming, shutdown, woken, expired, asking, exit,
                 faults, early, alone>>

OverrunEnds(m) ==
  /\ work[m] = "overrun"
  /\ work' = [work EXCEPT ![m] = "settled"]
  /\ WakeDrains({m})
  /\ UNCHANGED <<connected, boot, consuming, shutdown, expired, asking, exit,
                 faults, early, alone>>

--------------------------------------------------------------------------------
(* launch() and run(). *)

After(b) == CASE b = "new" -> "requests" [] b = "requests" -> "events"
              [] b = "events" -> "cancels" [] b = "cancels" -> "ready"

\* One step of MessageService.init - listener.start, event_listener.start, the
\* cancel listener, whose failure is swallowed - and post_init.  None looks at
\* _shutting_down.
Boot(s) ==
  /\ boot[s] \in {"new", "requests"} => connected
  /\ boot[s] \in {"new", "requests", "events", "cancels"}
  /\ boot' = [boot EXCEPT ![s] = After(@)]
  /\ consuming' = [consuming EXCEPT ![s] = @ \cup
       (CASE boot[s] = "new" -> {"request"} [] boot[s] = "requests" -> {"event"}
          [] boot[s] = "events" /\ connected -> {"cancel"} [] OTHER -> {})]
  /\ UNCHANGED <<connected, work, shutdown, woken, expired, asking, exit, faults, early, alone>>

\* Mutant of BootFails: the failure is re-raised without a shutdown.
BootFails_bare(s) ==
  /\ boot[s] \in {"new", "requests", "cancels"}
  /\ \/ connected /\ faults < MaxFaults /\ faults' = faults + 1
     \/ ~connected /\ UNCHANGED faults
  /\ boot' = [boot EXCEPT ![s] = "failed"]
  /\ UNCHANGED <<broker, shutdown, exit, woken, expired, asking, early, alone>>

\* A step that raises, as every one does once the connection is closed: launch()
\* runs the shutdown with exit code 1 - unless one is running already.
BootFails(s) ==
  /\ boot[s] \in {"new", "requests", "cancels"}
  /\ \/ connected /\ faults < MaxFaults /\ faults' = faults + 1
     \/ ~connected /\ UNCHANGED faults
  /\ boot' = [boot EXCEPT ![s] = "failed"]
  /\ shutdown' = [shutdown EXCEPT ![s] = IF @ = "no" THEN "stopRequests" ELSE @]
  /\ exit' = IF shutdown[s] = "no" THEN [exit EXCEPT ![s] = 1] ELSE exit
  /\ UNCHANGED <<broker, woken, expired, asking, early, alone>>

\* run(): the event exists and the service hears signals only from here on.
Run(s) ==
  /\ boot[s] = "ready" /\ event[s] = "absent"
  /\ event' = [event EXCEPT ![s] = "clear"]
  /\ registered' = registered \cup {s}
  /\ installed' = TRUE
  /\ UNCHANGED <<broker, boot, shutdown, woken, expired, exit, faults, early, alone>>

\* Mutant of RunReturns: the signal handlers go with the first service.
RunReturns_removes(s) ==
  /\ event[s] = "set"
  /\ event' = [event EXCEPT ![s] = "returned"]
  /\ registered' = registered \ {s}
  /\ installed' = FALSE
  /\ UNCHANGED <<broker, boot, shutdown, woken, expired, exit, faults, early, alone>>

\* The last service to leave takes the loop's handlers with it.
RunReturns(s) ==
  /\ event[s] = "set"
  /\ event' = [event EXCEPT ![s] = "returned"]
  /\ registered' = registered \ {s}
  /\ installed' = (registered' # {})
  /\ UNCHANGED <<broker, boot, shutdown, woken, expired, exit, faults, early, alone>>

\* A signal starts the shutdown of every service inside run().
Signal ==
  /\ installed /\ \E s \in registered : shutdown[s] = "no"
  /\ shutdown' = [s \in Services |->
       IF s \in registered /\ shutdown[s] = "no" THEN "stopRequests" ELSE shutdown[s]]
  /\ UNCHANGED <<broker, boot, woken, expired, asking, exit, faults, early, alone>>

\* request_shutdown(), from a handler or a watchdog, at any time.
RequestShutdown(s) ==
  /\ boot[s] \notin {"new", "failed"} /\ shutdown[s] = "no"
  /\ shutdown' = [shutdown EXCEPT ![s] = "stopRequests"]
  /\ early' = [early EXCEPT ![s] = boot[s] # "ready"]
  /\ UNCHANGED <<broker, boot, woken, expired, asking, exit, faults, alone>>

--------------------------------------------------------------------------------
(* shutdown(): every step runs whatever became of the one before. *)

Step(s, from, to) == shutdown[s] = from /\ shutdown' = [shutdown EXCEPT ![s] = to]

StopRequests(s) ==
  /\ Step(s, "stopRequests", "stopEvents")
  /\ consuming' = [consuming EXCEPT ![s] = @ \ {"request"}]
  /\ UNCHANGED <<connected, boot, work, woken, expired, asking, exit, faults, early, alone>>

\* Mutant of StopEvents: only the request listener is stopped.
StopEvents_skipped(s) ==
  /\ Step(s, "stopEvents", "stopCancels")
  /\ UNCHANGED <<broker, boot, woken, expired, asking, exit, faults, early, alone>>

StopEvents(s) ==
  /\ Step(s, "stopEvents", "stopCancels")
  /\ consuming' = [consuming EXCEPT ![s] = @ \ {"event"}]
  /\ UNCHANGED <<connected, boot, work, woken, expired, asking, exit, faults, early, alone>>

\* The cancel listener closes with the rest, so a stream that is drained can no
\* longer be cancelled by its caller.
StopCancels(s) ==
  /\ Step(s, "stopCancels", "drain")
  /\ consuming' = [consuming EXCEPT ![s] = @ \ {"cancel"}]
  /\ UNCHANGED <<connected, boot, work, woken, expired, asking, exit, faults, early, alone>>

\* Mutant of Drain: the drain does not wait.
Drain_skipped(s) ==
  /\ Step(s, "drain", "cleanup")
  /\ UNCHANGED <<broker, boot, woken, expired, asking, exit, faults, early, alone>>

\* Nothing in flight: straight on.  Otherwise drain_in_flight() parks a waiter.
Drain(s) ==
  /\ Step(s, "drain", IF InFlight = {} THEN "cleanup" ELSE "draining")
  /\ UNCHANGED <<broker, boot, woken, expired, asking, exit, faults, early, alone>>

Drained(s) ==
  /\ woken[s] /\ Step(s, "draining", "cleanup")
  /\ woken' = [woken EXCEPT ![s] = FALSE]
  /\ UNCHANGED <<broker, boot, expired, asking, exit, faults, early, alone>>

DrainExpires(s) ==
  /\ ~woken[s] /\ Step(s, "draining", "cleanup")
  /\ expired' = [expired EXCEPT ![s] = TRUE]
  /\ UNCHANGED <<broker, boot, woken, asking, exit, faults, early, alone>>

\* A service that has nothing to do with the connection any more.
PastDrain(s) == shutdown[s] \in {"cleanup", "closing", "done"}

\* cleanup() is over; the connection is closed for every service on it.
Disconnect(s) ==
  /\ Step(s, "cleanup", "closing")
  /\ connected' = FALSE
  /\ consuming' = [t \in Services |-> {}]
  /\ alone' = (alone /\ (connected => \A t \in Services \ {s} : PastDrain(t)))
  /\ UNCHANGED <<boot, work, woken, expired, asking, exit, faults, early>>

\* Mutant of Report: the exit code is stored but nobody is told.
Report_silent(s) ==
  /\ Step(s, "closing", "done")
  /\ UNCHANGED <<broker, boot, woken, expired, asking, exit, faults, early, alone>>

\* The event exists only if run() was called; a run() called later waits on one
\* that nobody will set.
Report(s) ==
  /\ Step(s, "closing", "done")
  /\ event' = [event EXCEPT ![s] = IF @ = "clear" THEN "set" ELSE @]
  /\ UNCHANGED <<broker, boot, woken, expired, registered, installed, exit, faults, early, alone>>

--------------------------------------------------------------------------------
Shutdown(s) ==
  \/ StopRequests(s) \/ StopEvents(s) \/ StopCancels(s) \/ Drain(s) \/ Drained(s)
  \/ DrainExpires(s) \/ Disconnect(s) \/ Report(s)

Next ==
  \/ \E m \in Messages : Deliver(m) \/ Settle(m) \/ Overrun(m) \/ OverrunEnds(m)
  \/ \E s \in Services : Boot(s) \/ BootFails(s) \/ Run(s) \/ RunReturns(s) \/ RequestShutdown(s)
                        \/ Shutdown(s)
  \/ Signal

Spec == Init /\ [][Next]_vars

\* The loop runs its tasks: a shutdown's next step, and a run() whose event is
\* set.  Handlers need not end, and nobody need ask for a shutdown.
FairSpec == Spec /\ \A s \in Services : WF_vars(Shutdown(s)) /\ WF_vars(RunReturns(s))

--------------------------------------------------------------------------------
(* Properties. *)

\* "Stop before drain": a service that drains takes no more work and leaves no
\* consumer behind - unless it was asked to stop while it was still starting,
\* when init() goes on to start consumers that nobody stops.
StopBeforeDrain ==
  \A s \in Services :
    PastDrain(s) \/ shutdown[s] \in {"drain", "draining"} =>
      consuming[s] = {} \/ early[s]

\* "Drain before cleanup": cleanup() never takes resources from a handler of its
\* own service, one that has outlived its processing timeout included - unless
\* the drain's deadline passed.
CleanupAfterWork ==
  \A m \in Messages : work[m] \in {"handling", "overrun"} /\ PastDrain(Home[m])
                      => expired[Home[m]] \/ early[Home[m]]

\* A message is lost to the redelivery it was drained to avoid only when a
\* deadline passed, or another service on the connection was not yet drained.
LostHasCause ==
  \A m \in Messages : work[m] = "lost" =>
    ~alone \/ expired[Home[m]] \/ early[Home[m]]

\* As long as any service is inside run(), the loop has the signal handlers that
\* stop it, whichever of its neighbours came or left first.
HearsSignals == (registered # {}) <=> installed

\* The order shutdown() documents, for every service of the process and from any
\* signal that finds it running.
DrainsInOrder == TypeOK /\ StopBeforeDrain /\ CleanupAfterWork /\ HearsSignals

\* run() ends once its service shuts down, if run() came before the shutdown's
\* end; a service shut down between launch() and run() waits for ever.
RunComesBack ==
  \A s \in Services : (event[s] = "clear" /\ shutdown[s] \notin {"no", "done"}) ~> (event[s] = "returned")

\* A service that failed to start releases everything and reports exit code 1 -
\* unless it had been asked to stop before the step that failed.
FailedStartStops ==
  \A s \in Services : (boot[s] = "failed")
    ~> (shutdown[s] = "done" /\ (exit[s] = 1 \/ early[s]))

\* A service that is told to stop does, and its process learns how it went
\* (run, shutdown, launch).
ShutdownEnds == RunComesBack /\ FailedStartStops

================================================================================
