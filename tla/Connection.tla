------------------------------- MODULE Connection -------------------------------
(***************************************************************************)
(* The lifecycle of the one AMQP connection a process holds: single-flight  *)
(* dialling, generation-numbered reconnection with an attempt budget,       *)
(* restoration of every component's topology before readiness is            *)
(* announced, and a disconnect that may race all of it                      *)
(* (protobus/connection.py, Connection).                                    *)
(*                                                                          *)
(* Everything runs on one event loop: an action is the code between two     *)
(* awaits.  A completed dial is seen by the tasks awaiting it only when     *)
(* they resume, so whatever the loop runs first comes between.              *)
(*                                                                          *)
(* Nothing orders connect(), disconnect() and a reconnection among          *)
(* themselves, and some of their interleavings do break what the class      *)
(* promises.  The history variable windows names those that have occurred,  *)
(* so that the properties say both that everything else is safe and which   *)
(* ones are not.                                                            *)
(***************************************************************************)
EXTENDS Integers, FiniteSets

CONSTANTS
  Components,     \* how many components register a restorer
  Waiters,        \* tasks that may wait in when_ready
  MaxAttempts,    \* opts.max_retries, 0 meaning without limit
  MaxSockets,     \* sockets opened in a behaviour (a bound)
  MaxFaults,      \* failed dials and restorations, dropped sockets (a bound)
  MaxDisconnects, \* calls of disconnect() (a bound)
  MaxAlive,       \* reconnection attempts alive at a time (a bound)
  MaxWindows      \* unsafe interleavings in a behaviour (a bound)

ASSUME CountAssumption ==
  /\ Components \in Nat /\ MaxAttempts \in Nat /\ MaxSockets \in Nat
  /\ MaxFaults \in Nat /\ MaxDisconnects \in Nat
  /\ MaxAlive \in Nat \ {0} /\ MaxWindows \in Nat

VARIABLES
  handle,        \* self._handle, 0 for None
  socket,        \* the state of every socket ever opened
  isConnected, isReconnecting, isReady, manualDisconnect,
  generation,
  attempts,      \* self._reconnect_attempts
  dial,          \* the shared _do_connect task
  task,          \* the reconnection timers set and _reconnect_attempt tasks alive
  caller,        \* where a connect() call stands
  closer,        \* where a disconnect() call stands
  registered,    \* how many restorers are registered
  restored,      \* the components whose topology is on the installed socket
  parked,        \* when_ready waiters
  faults, disconnects,
  streak,        \* attempts failed since the connection was last ready (history)
  windows        \* the unsafe interleavings that have occurred (history)

flags == <<isConnected, isReconnecting, isReady, manualDisconnect>>
topology == <<registered, restored>>
bounds == <<faults, disconnects, windows>>
vars == <<handle, socket, flags, generation, attempts, dial, task, caller, closer,
          topology, parked, streak, bounds>>

Sockets  == 1..MaxSockets
Attempts == 1..MaxAlive
NoDial   == [pc |-> "none", gen |-> 0, sock |-> 0]

\* An attempt is a timer first and a task when that fires; held says that
\* _reconnect_timer or _reconnect_task refers to it.
NoTask == [pc |-> "none", held |-> FALSE, attempt |-> 0, gen |-> 0, next |-> 1, last |-> 0]

\* What the properties except: a socket lost, or a disconnect(), between the dial
\* connect() awaits and its resumption; connect() with components registered,
\* while a reconnection is under way, or before a disconnect() has returned.
Windows == {"lost", "closed", "again", "during", "closing"}

AttemptRecord ==
  [pc : {"none", "timer", "start", "connect", "connected", "refused", "restore", "check",
         "discard", "cancelled"},
   held : BOOLEAN, attempt : Nat, gen : Nat, next : 1..(Components + 1),
   last : 0..Components]

FlagsTyped ==
  /\ isConnected \in BOOLEAN /\ isReconnecting \in BOOLEAN /\ isReady \in BOOLEAN
  /\ manualDisconnect \in BOOLEAN

TasksTyped ==
  /\ dial \in [pc : {"none", "dialing", "discarding"}, gen : Nat, sock : 0..MaxSockets]
  /\ task \in [Attempts -> AttemptRecord]
  /\ caller \in {"idle", "connect", "connected", "refused"}
  /\ closer \in {"idle", "cancelling", "closing"}

CountsTyped ==
  /\ generation \in Nat /\ attempts \in Nat /\ streak \in Nat
  /\ registered \in 0..Components
  /\ faults \in 0..MaxFaults /\ disconnects \in 0..MaxDisconnects
  /\ windows \subseteq Windows

MapsTyped ==
  /\ handle \in 0..MaxSockets
  /\ socket \in [Sockets -> {"unused", "open", "dropped", "closed"}]
  /\ restored \subseteq 1..Components
  /\ parked \subseteq Waiters

TypeOK == FlagsTyped /\ TasksTyped /\ CountsTyped /\ MapsTyped

Init ==
  /\ handle = 0 /\ socket = [s \in Sockets |-> "unused"]
  /\ isConnected = FALSE /\ isReconnecting = FALSE /\ isReady = FALSE
  /\ manualDisconnect = FALSE
  /\ generation = 0 /\ attempts = 0
  /\ dial = NoDial /\ task = [t \in Attempts |-> NoTask]
  /\ caller = "idle" /\ closer = "idle"
  /\ registered = 0 /\ restored = {}
  /\ parked = {} /\ streak = 0
  /\ faults = 0 /\ disconnects = 0 /\ windows = {}

--------------------------------------------------------------------------------
(* Helpers. *)

At(t, pc) == task[t].pc = pc
Alive == {t \in Attempts : ~At(t, "none")}
Fault == faults < MaxFaults /\ faults' = faults + 1 /\ UNCHANGED <<disconnects, windows>>
Seen(new) == windows' = windows \cup new /\ Cardinality(windows') <= MaxWindows

\* A restorer's component, and every waiter, learns of readiness at once.
MarkReady == isReady' = TRUE /\ parked' = {} /\ streak' = 0

\* An attempt the connection no longer refers to.
Forgotten(r) == IF r.held THEN [r EXCEPT !.held = FALSE] ELSE r

\* The timer is kept in _reconnect_timer, in place of any that was there.
SetTimer(known) ==
  \E t \in Attempts :
    /\ known[t] = NoTask /\ \A u \in 1..(t - 1) : known[u] # NoTask
    /\ task' = [u \in Attempts |->
                  IF u = t THEN [NoTask EXCEPT !.pc = "timer", !.held = TRUE]
                  ELSE IF known[u].pc = "timer" THEN Forgotten(known[u]) ELSE known[u]]

\* Mutant: a reconnection under way does not keep a second one from starting.
ScheduleReconnect_twice(reconnecting, tried, known) ==
  IF manualDisconnect
    THEN /\ isReconnecting' = reconnecting /\ attempts' = tried
         /\ task' = known /\ UNCHANGED parked
  ELSE IF MaxAttempts > 0 /\ tried >= MaxAttempts
    THEN /\ isReconnecting' = FALSE /\ attempts' = tried
         /\ task' = known /\ parked' = {}
  ELSE /\ isReconnecting' = TRUE /\ attempts' = tried + 1
       /\ SetTimer(known) /\ UNCHANGED parked

\* Mutant: those waiting are not told that no attempts are left.
ScheduleReconnect_silent(reconnecting, tried, known) ==
  IF manualDisconnect \/ reconnecting
    THEN /\ isReconnecting' = reconnecting /\ attempts' = tried
         /\ task' = known /\ UNCHANGED parked
  ELSE IF MaxAttempts > 0 /\ tried >= MaxAttempts
    THEN /\ isReconnecting' = FALSE /\ attempts' = tried
         /\ task' = known /\ UNCHANGED parked
  ELSE /\ isReconnecting' = TRUE /\ attempts' = tried + 1
       /\ SetTimer(known) /\ UNCHANGED parked

\* _schedule_reconnect, entered with the given flag, attempt counter and attempts.
ScheduleReconnect(reconnecting, tried, known) ==
  IF manualDisconnect \/ reconnecting
    THEN /\ isReconnecting' = reconnecting /\ attempts' = tried
         /\ task' = known /\ UNCHANGED parked
  ELSE IF MaxAttempts > 0 /\ tried >= MaxAttempts
    THEN /\ isReconnecting' = FALSE /\ attempts' = tried
         /\ task' = known /\ parked' = {}
  ELSE /\ isReconnecting' = TRUE /\ attempts' = tried + 1
       /\ SetTimer(known) /\ UNCHANGED parked

\* Everybody awaiting the shared dial is told how it ended.
Tell(result) ==
  /\ caller' = IF caller = "connect" THEN result ELSE caller
  /\ task' = [t \in Attempts |-> IF At(t, "connect") THEN [task[t] EXCEPT !.pc = result]
                                ELSE task[t]]

Ended(t) == [task EXCEPT ![t] = NoTask]

\* _connect: join the dial in flight, or start one for this generation.
JoinOrDial == dial' = IF dial.pc = "none" THEN [pc |-> "dialing", gen |-> generation, sock |-> 0]
                      ELSE dial

Close(s) == IF s = 0 THEN socket ELSE [socket EXCEPT ![s] = "closed"]

SocketGood == handle # 0 /\ socket[handle] = "open"

--------------------------------------------------------------------------------
(* connect() and the dial. *)

\* connect() refuses a live connection and nothing else.
Connect ==
  /\ caller = "idle" /\ ~isConnected
  /\ manualDisconnect' = FALSE
  /\ caller' = "connect" /\ JoinOrDial
  /\ Seen({w \in Windows :
           \/ w = "again" /\ registered > 0
           \/ w = "during" /\ Alive # {}
           \/ w = "closing" /\ closer # "idle"})
  /\ UNCHANGED <<handle, socket, isConnected, isReconnecting, isReady, generation, attempts,
                 task, closer, topology, parked, streak, faults, disconnects>>

ConnectReturns ==
  /\ caller = "connected" /\ caller' = "idle"
  /\ isReconnecting' = FALSE /\ MarkReady
  /\ UNCHANGED <<handle, socket, isConnected, manualDisconnect, generation, attempts, dial,
                 task, closer, topology, bounds>>

ConnectRaises ==
  /\ caller = "refused" /\ caller' = "idle"
  /\ UNCHANGED <<handle, socket, flags, generation, attempts, dial, task, closer, topology,
                 parked, streak, bounds>>

\* The socket a dial opens: the first never used.
Opened(s) == socket[s] = "unused" /\ \A r \in 1..(s - 1) : socket[r] # "unused"

\* Mutant: a dial that outlived a disconnect is installed all the same.
DialSucceeds_unchecked ==
  /\ dial.pc = "dialing"
  /\ \E s \in Sockets :
       /\ Opened(s) /\ socket' = [socket EXCEPT ![s] = "open"]
       /\ handle' = s /\ restored' = {} /\ isConnected' = TRUE /\ attempts' = 0
       /\ dial' = NoDial /\ Tell("connected")
  /\ UNCHANGED <<isReconnecting, isReady, manualDisconnect, generation, closer, registered,
                 parked, streak, bounds>>

\* A new socket is installed only for the generation that asked for it.
DialSucceeds ==
  /\ dial.pc = "dialing"
  /\ \E s \in Sockets :
       /\ Opened(s) /\ socket' = [socket EXCEPT ![s] = "open"]
       /\ IF dial.gen # generation \/ manualDisconnect
            THEN /\ dial' = [dial EXCEPT !.pc = "discarding", !.sock = s]
                 /\ UNCHANGED <<handle, restored, isConnected, attempts, caller, task>>
            ELSE /\ handle' = s /\ restored' = {} /\ isConnected' = TRUE /\ attempts' = 0
                 /\ dial' = NoDial /\ Tell("connected")
  /\ UNCHANGED <<isReconnecting, isReady, manualDisconnect, generation, closer, registered,
                 parked, streak, bounds>>

DialDiscarded ==
  /\ dial.pc = "discarding"
  /\ socket' = Close(dial.sock)
  /\ dial' = NoDial /\ Tell("refused")
  /\ UNCHANGED <<handle, flags, generation, attempts, closer, topology, parked, streak, bounds>>

\* At the bound, once all its sockets have been used, the broker refuses every dial.
DialFails ==
  /\ dial.pc = "dialing"
  /\ IF \E s \in Sockets : socket[s] = "unused" THEN Fault ELSE UNCHANGED bounds
  /\ isConnected' = FALSE
  /\ dial' = NoDial /\ Tell("refused")
  /\ UNCHANGED <<handle, socket, isReconnecting, isReady, manualDisconnect, generation,
                 attempts, closer, topology, parked, streak>>

--------------------------------------------------------------------------------
(* Losing the socket and reconnecting. *)

\* The broker or the network drops a socket; its close callback is queued.
SocketDrops(s) ==
  /\ socket[s] = "open" /\ Fault
  /\ socket' = [socket EXCEPT ![s] = "dropped"]
  /\ UNCHANGED <<handle, flags, generation, attempts, dial, task, caller, closer, topology,
                 parked, streak>>

\* Mutant: a lost socket is recorded, but nothing is scheduled to replace it.
HandleClosed_unscheduled(s) ==
  /\ socket[s] = "dropped"
  /\ socket' = Close(s)
  /\ IF s # handle \/ manualDisconnect
       THEN UNCHANGED <<flags, generation, windows>>
       ELSE /\ isConnected' = FALSE /\ isReady' = FALSE
            /\ generation' = generation + 1
            /\ Seen({w \in {"lost"} : caller = "connected"})
            /\ UNCHANGED <<isReconnecting, manualDisconnect>>
  /\ UNCHANGED <<handle, attempts, task, parked, dial, caller, closer, topology, streak,
                 faults, disconnects>>

\* _on_handle_closed: only the installed handle of an open connection counts.
HandleClosed(s) ==
  /\ socket[s] = "dropped"
  /\ socket' = Close(s)
  /\ IF s # handle \/ manualDisconnect
       THEN UNCHANGED <<flags, generation, attempts, task, parked, windows>>
       ELSE /\ isConnected' = FALSE /\ isReady' = FALSE
            /\ generation' = generation + 1
            /\ ScheduleReconnect(isReconnecting, attempts, task)
            /\ Seen({w \in {"lost"} : caller = "connected"})
            /\ UNCHANGED manualDisconnect
  /\ UNCHANGED <<handle, dial, caller, closer, topology, streak, faults, disconnects>>

\* fire(): the timer's reference is cleared and the task's set, whichever
\* attempts they referred to.
TimerFires(t) ==
  /\ At(t, "timer")
  /\ task' = [u \in Attempts |-> IF u = t THEN [task[t] EXCEPT !.pc = "start", !.held = TRUE]
                               ELSE Forgotten(task[u])]
  /\ UNCHANGED <<handle, socket, flags, generation, attempts, dial, caller, closer, topology,
                 parked, streak, bounds>>

\* _reconnect_attempt reads the counter before a successful dial resets it.
AttemptStarts(t) ==
  /\ At(t, "start")
  /\ task' = [task EXCEPT ![t].pc = "connect", ![t].attempt = attempts]
  /\ JoinOrDial
  /\ UNCHANGED <<handle, socket, flags, generation, attempts, caller, closer, topology,
                 parked, streak, bounds>>

\* _run_restorers, for the generation and the restorers of this moment.
RestorationStarts(t) ==
  /\ At(t, "connected")
  /\ task' = [task EXCEPT ![t].pc = "restore", ![t].gen = generation, ![t].next = 1,
                          ![t].last = registered]
  /\ UNCHANGED <<handle, socket, flags, generation, attempts, dial, caller, closer, topology,
                 parked, streak, bounds>>

\* One restorer, unless its generation is over.  On a socket already lost it may
\* or may not notice.
RestorerRuns(t) ==
  /\ At(t, "restore")
  /\ IF task[t].next <= task[t].last
       THEN /\ task[t].gen = generation /\ handle # 0
            /\ restored' = restored \cup {task[t].next}
            /\ task' = [task EXCEPT ![t].next = @ + 1]
       ELSE /\ task' = [task EXCEPT ![t].pc = "check"]
            /\ UNCHANGED restored
  /\ UNCHANGED <<handle, socket, flags, generation, attempts, dial, caller, closer,
                 registered, parked, streak, bounds>>

\* Mutant: the generation is not looked at again after the last restorer.
Reconnected_unchecked(t) ==
  /\ At(t, "check")
  /\ isReconnecting' = FALSE /\ MarkReady
  /\ task' = Ended(t)
  /\ UNCHANGED <<handle, socket, isConnected, manualDisconnect, generation, attempts, dial,
                 caller, closer, topology, bounds>>

\* The last look of _run_restorers, after letting queued callbacks run.
Reconnected(t) ==
  /\ At(t, "check") /\ task[t].gen = generation /\ SocketGood
  /\ isReconnecting' = FALSE /\ MarkReady
  /\ task' = Ended(t)
  /\ UNCHANGED <<handle, socket, isConnected, manualDisconnect, generation, attempts, dial,
                 caller, closer, topology, bounds>>

\* A refused dial, a stale generation, a dead socket, or a restorer that raises.
AttemptBreaks(t) ==
  \/ At(t, "refused") /\ UNCHANGED bounds
  \/ /\ At(t, "restore") /\ task[t].next <= task[t].last
     /\ IF task[t].gen = generation /\ SocketGood THEN Fault ELSE UNCHANGED bounds
  \/ At(t, "check") /\ ~(task[t].gen = generation /\ SocketGood) /\ UNCHANGED bounds

\* Mutant: the socket that could not be restored is dropped without closing it.
AttemptFails_leaks(t) ==
  /\ AttemptBreaks(t)
  /\ IF manualDisconnect
       THEN /\ isReconnecting' = FALSE /\ task' = Ended(t)
            /\ UNCHANGED <<handle, restored, isConnected, isReady, generation, attempts,
                           parked, streak>>
       ELSE /\ generation' = generation + 1
            /\ isReady' = FALSE /\ isConnected' = FALSE
            /\ handle' = 0 /\ restored' = {}
            /\ streak' = streak + 1
            /\ ScheduleReconnect(FALSE, task[t].attempt, Ended(t))
  /\ UNCHANGED <<socket, manualDisconnect, dial, caller, closer, registered>>

\* The except branch: discard the generation and schedule the next attempt,
\* in one go unless there is a socket to close first.
AttemptFails(t) ==
  /\ AttemptBreaks(t)
  /\ IF manualDisconnect
       THEN /\ isReconnecting' = FALSE /\ task' = Ended(t)
            /\ UNCHANGED <<handle, restored, socket, isConnected, isReady, generation, attempts,
                           parked, streak>>
       ELSE /\ generation' = generation + 1
            /\ isReady' = FALSE /\ isConnected' = FALSE
            /\ handle' = 0 /\ restored' = {} /\ socket' = Close(handle)
            /\ streak' = streak + 1
            /\ IF handle = 0
                 THEN ScheduleReconnect(FALSE, task[t].attempt, Ended(t))
                 ELSE /\ task' = [task EXCEPT ![t].pc = "discard"]
                      /\ UNCHANGED <<isReconnecting, attempts, parked>>
  /\ UNCHANGED <<manualDisconnect, dial, caller, closer, registered>>

\* Mutant: the counter a successful dial has reset is used as it is.
GenerationDiscarded_resetBudget(t) ==
  /\ At(t, "discard")
  /\ ScheduleReconnect(FALSE, attempts, Ended(t))
  /\ UNCHANGED <<handle, socket, isConnected, isReady, manualDisconnect, generation, dial,
                 caller, closer, topology, streak, bounds>>

GenerationDiscarded(t) ==
  /\ At(t, "discard")
  /\ ScheduleReconnect(FALSE, task[t].attempt, Ended(t))
  /\ UNCHANGED <<handle, socket, isConnected, isReady, manualDisconnect, generation, dial,
                 caller, closer, topology, streak, bounds>>

--------------------------------------------------------------------------------
(* disconnect(), readiness waiters and component registration. *)

\* Mutant: those waiting for readiness are not told of the disconnect.
Release_keepsWaiters ==
  /\ isReconnecting' = FALSE /\ isReady' = FALSE /\ UNCHANGED parked
  /\ handle' = 0 /\ restored' = {} /\ socket' = Close(handle)
  /\ IF handle = 0 THEN closer' = "idle" /\ isConnected' = FALSE
                   ELSE closer' = "closing" /\ UNCHANGED isConnected

\* The rest of disconnect(), once it has no reconnection task left.
Release ==
  /\ isReconnecting' = FALSE /\ isReady' = FALSE /\ parked' = {}
  /\ handle' = 0 /\ restored' = {} /\ socket' = Close(handle)
  /\ IF handle = 0 THEN closer' = "idle" /\ isConnected' = FALSE
                   ELSE closer' = "closing" /\ UNCHANGED isConnected

\* The timer it knows of is cancelled at once, the task when it next runs.
Stopped(t) ==
  IF task[t].held /\ At(t, "timer") THEN NoTask
  ELSE IF task[t].held THEN [NoTask EXCEPT !.pc = "cancelled"] ELSE task[t]

Disconnect ==
  /\ closer = "idle" /\ disconnects < MaxDisconnects
  /\ disconnects' = disconnects + 1
  /\ manualDisconnect' = TRUE /\ generation' = generation + 1
  /\ task' = [t \in Attempts |-> Stopped(t)]
  /\ IF \E t \in Attempts : Stopped(t).pc = "cancelled"
       THEN /\ closer' = "cancelling"
            /\ UNCHANGED <<handle, restored, socket, isConnected, isReconnecting, isReady, parked>>
       ELSE Release
  /\ Seen({w \in {"closed"} : caller = "connected"})
  /\ UNCHANGED <<attempts, dial, caller, registered, streak, faults>>

\* The reconnection task takes its cancellation wherever it was waiting; the
\* shielded dial runs on without it.
AttemptCancelled(t) ==
  /\ At(t, "cancelled")
  /\ task' = Ended(t)
  /\ Release
  /\ UNCHANGED <<manualDisconnect, generation, attempts, dial, caller, registered, streak, bounds>>

DisconnectReturns ==
  /\ closer = "closing" /\ closer' = "idle" /\ isConnected' = FALSE
  /\ UNCHANGED <<handle, socket, isReconnecting, isReady, manualDisconnect, generation,
                 attempts, dial, task, caller, topology, parked, streak, bounds>>

\* when_ready: immediate if ready or closed, parked otherwise.
WaitReady(w) ==
  /\ w \notin parked /\ ~isReady /\ ~manualDisconnect
  /\ parked' = parked \cup {w}
  /\ UNCHANGED <<handle, socket, flags, generation, attempts, dial, task, caller, closer,
                 topology, streak, bounds>>

WaitTimesOut(w) ==
  /\ w \in parked
  /\ parked' = parked \ {w}
  /\ UNCHANGED <<handle, socket, flags, generation, attempts, dial, task, caller, closer,
                 topology, streak, bounds>>

\* A component initialises itself against the live connection and registers.
Register ==
  /\ registered < Components /\ isConnected /\ SocketGood
  /\ registered' = registered + 1
  /\ restored' = restored \cup {registered + 1}
  /\ UNCHANGED <<handle, socket, flags, generation, attempts, dial, task, caller, closer,
                 parked, streak, bounds>>

Attempting(t) ==
  \/ TimerFires(t) \/ AttemptStarts(t) \/ RestorationStarts(t) \/ RestorerRuns(t)
  \/ Reconnected(t) \/ AttemptFails(t) \/ GenerationDiscarded(t) \/ AttemptCancelled(t)

Calling == ConnectReturns \/ ConnectRaises
Dialling == DialSucceeds \/ DialDiscarded \/ DialFails

Next ==
  \/ Calling \/ Dialling \/ DisconnectReturns
  \/ (\E t \in Attempts : Attempting(t))
  \/ Connect \/ Disconnect \/ Register
  \/ (\E s \in Sockets : SocketDrops(s) \/ HandleClosed(s))
  \/ (\E w \in Waiters : WaitReady(w) \/ WaitTimesOut(w))

Spec == Init /\ [][Next]_vars

\* The event loop runs what is due, a connect() that can resume and a close callback
\* among it; dials end and timers fire.
FairSpec ==
  /\ Spec /\ WF_vars(Calling) /\ WF_vars(Dialling)
  /\ \A t \in Attempts : WF_vars(Attempting(t))
  /\ WF_vars(\E s \in Sockets : HandleClosed(s))

--------------------------------------------------------------------------------
(* Properties. *)

\* No window in which two parties work on the connection without knowing of each
\* other has occurred.
OneOwner == windows \cap {"lost", "during", "closing"} = {}

\* is_ready: the socket is up (or its loss not yet reported to the loop) and
\* every restorer has put its component's topology on it, unless connect() said so
\* of a connection it had lost, or of one whose restorers it does not run.
ReadyMeansRestored ==
  isReady /\ OneOwner /\ windows \cap {"closed", "again"} = {} =>
    /\ handle # 0 /\ socket[handle] \in {"open", "dropped"}
    /\ 1..registered \subseteq restored

\* The connection never forks: the only open socket is the installed one, or a
\* superseded one on its way to being closed.
OneSocket == \A s \in Sockets : socket[s] = "open" => s \in {handle, dial.sock}

\* A disconnect that has returned leaves no socket behind, unless a dial it
\* could not stop is still to be discarded, or two parties had dialled.
DisconnectIsFinal ==
  OneOwner /\ manualDisconnect /\ closer = "idle" /\ dial.pc = "none" =>
    \A s \in Sockets : socket[s] # "open"

\* Being "reconnecting" is backed by exactly one timer or task that will end it;
\* a second one would race it, none would leave the connection down for good.
OneReconnector ==
  /\ \A t, u \in Alive : t = u
  /\ isReconnecting <=> Alive # {}

\* An attempt that dials but cannot restore counts against the budget like one
\* that cannot dial: no more than max_retries fail in a row.
BudgetHolds == MaxAttempts > 0 => streak <= MaxAttempts

\* Dials, drops, timers and restorations overlap, but one connection, one
\* reconnector and one budget come out of them (connect, _schedule_reconnect),
\* unless two parties have come to work on them.
OneOfEach == TypeOK /\ (OneOwner => OneSocket /\ OneReconnector /\ BudgetHolds)

\* Whoever waits for readiness hears of it, of the connection being closed, and of
\* the last attempt being given up, in whatever windows: nobody is left parked on
\* a connection that is ready or closed, or by the last attempt to end.
NobodyForgotten ==
  [][parked' # {} =>
       /\ ~isReady' /\ (manualDisconnect' => closer' = "cancelling")
       /\ Alive # {} => Alive' # {}]_vars

\* A connection that loses its socket is carrying traffic again sooner or later,
\* or is given up, or was closed on purpose, in whatever windows.
GaveUp == MaxAttempts > 0 /\ attempts >= MaxAttempts /\ Alive = {}
ComesBack ==
  (handle # 0 /\ socket[handle] # "open") ~> ((isReady /\ SocketGood) \/ manualDisconnect \/ GaveUp)

================================================================================
