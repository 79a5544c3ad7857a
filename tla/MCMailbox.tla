----------------------------- MODULE MCMailbox -----------------------------
(* Small instances of Mailbox for TLC.                                     *)
EXTENDS Mailbox, TLC

CONSTANTS everyone, ann, bob, hub2_bob

\* Mail for bob, whose name may become that of a group, and for all, of whom
\* one is on another hub.
ToBobOrAll == {{bob}, {everyone, hub2_bob}}

\* Mail for oneself, from here or from the other hub.
ToAnn == {{ann}}

\* Message ids and request slots are interchangeable.
Symmetry == Permutations(Ids) \cup Permutations(Clients)
=============================================================================
