----------------------------- MODULE MCDelivery ----------------------------
(* A small instance of Delivery for TLC.                                   *)
EXTENDS Delivery

BACKOFF == <<2, 8, 30, 60, 90>>
=============================================================================
