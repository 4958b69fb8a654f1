--------------------------- MODULE MCConfirmedPublish ---------------------------
(***************************************************************************)
(* Model values for ConfirmedPublish: interchangeable publishers.           *)
(***************************************************************************)
EXTENDS ConfirmedPublish, TLC

CONSTANTS p1, p2, p3, p4

MCFour     == {p1, p2, p3, p4}
MCSymmetry == Permutations(MCFour)
================================================================================
