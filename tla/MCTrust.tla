------------------------------- MODULE MCTrust -----------------------------
(***************************************************************************)
(* An instance of Trust for TLC: one other hub and one exchange with it.   *)
(***************************************************************************)
EXTENDS Trust

CONSTANTS o1, x1
=============================================================================
