----------------------------- MODULE MCAccounts ----------------------------
(* A small instance of Accounts for TLC.                                   *)
EXTENDS Accounts, TLC

CONSTANTS admin, bob, b_ob

Renamed == b_ob :> bob
Symmetry == Permutations(Offers) \cup Permutations(Clients)
=============================================================================
