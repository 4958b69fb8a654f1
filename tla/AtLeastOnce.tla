------------------------------ MODULE AtLeastOnce ------------------------------
(***************************************************************************)
(* What a late-acking service queue promises of every message it accepts:   *)
(* the broker owes it to a handler until a reason to let it go is on        *)
(* record, and a message let go may only come back, never vanish.           *)
(***************************************************************************)
CONSTANTS Msgs, Reasons

VARIABLES
  owed,     \* messages the broker still owes to a handler
  outcome   \* the reasons on record to let each message go

vars == <<owed, outcome>>

Init == owed = Msgs /\ outcome = [m \in Msgs |-> {}]

\* A reason is recorded; other copies may keep the message owed.
Conclude(m, reason) ==
  /\ m \in owed
  /\ outcome' = [outcome EXCEPT ![m] = @ \cup {reason}]
  /\ owed' \in {owed, owed \ {m}}

\* Only a message with a reason on record is let go.
Release(m) ==
  /\ m \in owed /\ outcome[m] # {}
  /\ owed' = owed \ {m}
  /\ UNCHANGED outcome

\* At least once, not exactly once: messages let go may be delivered again.
Redeliver ==
  /\ owed' \in {owed \cup back : back \in SUBSET Msgs}
  /\ UNCHANGED outcome

Next ==
  \/ \E m \in Msgs, reason \in Reasons : Conclude(m, reason)
  \/ \E m \in Msgs : Release(m)
  \/ Redeliver

Spec == Init /\ [][Next]_vars
================================================================================
