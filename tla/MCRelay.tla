------------------------------- MODULE MCRelay -----------------------------
(***************************************************************************)
(* An instance of Relay for TLC: one page, whose queue is not soon full.   *)
(***************************************************************************)
EXTENDS Relay

CONSTANT p1
=============================================================================
