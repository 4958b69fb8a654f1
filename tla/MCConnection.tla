------------------------------ MODULE MCConnection ------------------------------
(***************************************************************************)
(* Model values for Connection: one waiter is enough, since waiters only    *)
(* meet in the sets that mark_ready and abandon_ready empty whole.          *)
(***************************************************************************)
EXTENDS Connection

CONSTANTS w1

MCWaiters == {w1}
================================================================================
