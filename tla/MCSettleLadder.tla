----------------------------- MODULE MCSettleLadder -----------------------------
(***************************************************************************)
(* Model values for SettleLadder: two service requests, one answered with   *)
(* a single reply and one with a stream, and interchangeable task slots.    *)
(***************************************************************************)
EXTENDS SettleLadder, TLC

CONSTANTS m1, m2, s1, s2

MCBoth    == {m1, m2}
MCStream  == {m2}
MCUnary   == {m1}
MCSlots   == {s1, s2}
MCSymmetry == Permutations(MCSlots)
================================================================================
