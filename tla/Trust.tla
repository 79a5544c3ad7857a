------------------------------- MODULE Trust -------------------------------
(***************************************************************************)
(* Whom the hub exchanges mail with: the federation switch, the list of    *)
(* trusted peers and the list of blocked origins, and the two paths that   *)
(* read them.  Delivery.tla abstracts all of this into one switch.         *)
(*                                                                         *)
(* A message to another hub is resolved once, by asking that hub, and then *)
(* sent by one or more attempts, each of which asks whether it may.  A     *)
(* message from another hub is accepted after its signature was checked,   *)
(* for which the signer's document is fetched.  Every look is an await,    *)
(* and an operator may change the lists between any two.                   *)
(***************************************************************************)
EXTENDS Naturals, FiniteSets

CONSTANTS
    None,
    Origins,   \* normalised, as peer_origin returns them
    Exchanges  \* messages in transit, in either direction

VARIABLES
    federation,  \* the stored switch
    peers,
    blocks,
    adding,      \* the origins add_peer has found not to be blocked
    exchange     \* each exchange, or None

vars == <<federation, peers, blocks, adding, exchange>>

\* What speaks against an exchange.
Objections == {"off", "untrusted", "blocked"}
Against(fed, trusted, blocked, o) ==
    (IF fed THEN {} ELSE {"off"}) \cup (IF o \in trusted THEN {} ELSE {"untrusted"})
        \cup (IF o \in blocked THEN {"blocked"} ELSE {})

Exchange ==
    [way : {"in", "out"}, origin : Origins, stage :
        {"resolved", "begun", "unblocked", "read", "signed", "done"},
     fed : BOOLEAN,                \* settings as this attempt read them
     steady : SUBSET Objections]   \* history: what held since the attempt began

TypeOK ==
    /\ federation \in BOOLEAN
    /\ peers \subseteq Origins /\ blocks \subseteq Origins /\ adding \subseteq Origins
    /\ exchange \in [Exchanges -> Exchange \cup {None}]

Init ==
    /\ federation \in BOOLEAN
    /\ peers = {} /\ blocks = {} /\ adding = {}
    /\ exchange = [x \in Exchanges |-> None]

-----------------------------------------------------------------------------
(* The operator *)

\* An objection that is dropped, if only for a moment, is not steady.
Change(fed, trusted, blocked) ==
    /\ federation' = fed /\ peers' = trusted /\ blocks' = blocked
    /\ exchange' = [x \in Exchanges |->
          IF exchange[x] = None THEN None
          ELSE [exchange[x] EXCEPT !.steady = IF exchange[x].stage = "done" THEN @ ELSE
                   @ \cap Against(fed, trusted, blocked, exchange[x].origin)]]

SwitchFederation == Change(~federation, peers, blocks) /\ UNCHANGED adding

\* may_exchange: "the blocklist overrides the mode in every case".
MayExchange(o) == o \notin blocks

\* add_peer: the look, and the write.
AddPeerLook(o) ==
    /\ MayExchange(o)
    /\ adding' = adding \cup {o}
    /\ UNCHANGED <<federation, peers, blocks, exchange>>

AddPeer(o) ==
    /\ o \in adding
    /\ adding' = adding \ {o}
    /\ Change(federation, peers \cup {o}, blocks)

RemovePeer(o) == Change(federation, peers \ {o}, blocks) /\ UNCHANGED adding
AddBlock(o) == Change(federation, peers, blocks \cup {o}) /\ UNCHANGED adding
RemoveBlock(o) == Change(federation, peers, blocks \ {o}) /\ UNCHANGED adding

-----------------------------------------------------------------------------
(* Mail to a peer *)

Lists == <<federation, peers, blocks, adding>>

\* Where an exchange stands; one that was refused is over.
Moves(x, stage) == exchange' = [exchange EXCEPT ![x].stage = stage]
Refused(x) == exchange' = [exchange EXCEPT ![x] = None]

\* outbound.resolve asks the other hub, whoever it is.
Resolve(x, o) ==
    /\ exchange[x] = None
    /\ exchange' = [exchange EXCEPT ![x] =
          [way |-> "out", origin |-> o, stage |-> "resolved", fed |-> FALSE, steady |-> {}]]
    /\ UNCHANGED Lists

\* Mutant: an attempt begins where the last one was authorized.
BeginAuthorized(x) ==
    /\ exchange[x] # None /\ exchange[x].way = "out"
    /\ exchange[x].stage \in {"resolved", "done"}
    /\ exchange' = [exchange EXCEPT
          ![x].stage = IF @ = "done" THEN "read" ELSE "begun",
          ![x].steady = Against(federation, peers, blocks, exchange[x].origin)]
    /\ UNCHANGED Lists

\* An attempt, the first or a retry.
Begin(x) ==
    /\ exchange[x] # None /\ exchange[x].way = "out"
    /\ exchange[x].stage \in {"resolved", "done"}
    /\ exchange' = [exchange EXCEPT
          ![x].stage = "begun", ![x].fed = FALSE,
          ![x].steady = Against(federation, peers, blocks, exchange[x].origin)]
    /\ UNCHANGED Lists

At(x, way, stage) == exchange[x] # None /\ exchange[x].way = way /\ exchange[x].stage = stage

\* FederatedDelivery.deliver: the blocks, the settings, then the peers ...
AskBlocks(x) ==
    /\ At(x, "out", "begun")
    /\ IF MayExchange(exchange[x].origin) THEN Moves(x, "unblocked") ELSE Refused(x)
    /\ UNCHANGED Lists

AskSettings(x) ==
    /\ At(x, "out", "unblocked")
    /\ exchange' = [exchange EXCEPT ![x].stage = "read", ![x].fed = federation]
    /\ UNCHANGED Lists

\* ... and outbound.deliver, which decides on what was read, and posts.
Deliver(x) ==
    /\ At(x, "out", "read")
    /\ IF exchange[x].fed /\ exchange[x].origin \in peers THEN Moves(x, "done") ELSE Refused(x)
    /\ UNCHANGED Lists

-----------------------------------------------------------------------------
(* Mail from a peer *)

\* A delivery arrives, signed with a key of the origin it names.
Knock(x, o) ==
    /\ exchange[x] = None
    /\ exchange' = [exchange EXCEPT ![x] =
          [way |-> "in", origin |-> o, stage |-> "begun", fed |-> FALSE,
           steady |-> Against(federation, peers, blocks, o)]]
    /\ UNCHANGED Lists

\* federation_inbox.
AskFederation(x) ==
    /\ At(x, "in", "begun")
    /\ IF federation THEN Moves(x, "read") ELSE Refused(x)
    /\ UNCHANGED Lists

\* verified_peer: the signer's origin is trusted, and then its key is fetched.
AskPeers(x) ==
    /\ At(x, "in", "read")
    /\ IF exchange[x].origin \in peers THEN Moves(x, "signed") ELSE Refused(x)
    /\ UNCHANGED Lists

\* The key is no good, or the activity is not what it should be.
Reject(x) ==
    /\ At(x, "in", "signed")
    /\ Refused(x)
    /\ UNCHANGED Lists

Accept(x) ==
    /\ At(x, "in", "signed")
    /\ Moves(x, "done")
    /\ UNCHANGED Lists

\* An exchange is over: delivered, given up, answered.
Finish(x) ==
    /\ exchange[x] # None /\ exchange[x].stage \in {"resolved", "done"}
    /\ Refused(x)
    /\ UNCHANGED Lists

Next ==
    \/ SwitchFederation
    \/ \E o \in Origins : \/ AddPeerLook(o) \/ AddPeer(o) \/ RemovePeer(o)
                          \/ AddBlock(o) \/ RemoveBlock(o)
    \/ \E x \in Exchanges, o \in Origins : Resolve(x, o) \/ Knock(x, o)
    \/ \E x \in Exchanges :
          \/ Begin(x) \/ AskBlocks(x) \/ AskSettings(x) \/ Deliver(x)
          \/ AskFederation(x) \/ AskPeers(x) \/ Reject(x) \/ Accept(x) \/ Finish(x)

Spec == Init /\ [][Next]_vars

-----------------------------------------------------------------------------
(* Properties *)

Completed(way) == {x \in Exchanges : At(x, way, "done")}

\* What a path asks, it asks at every attempt, and carries no answer over from an
\* earlier one.  No attempt sends to a hub that was blocked, or was not trusted, or
\* while federation was off, for as long as the attempt lasted.  No mail is taken
\* from a hub that was not trusted, or while federation was off, for as long as
\* that took; whether it is blocked that path never asks (see BlockWins).
DecidedAnew ==
    /\ \A x \in Completed("out") : exchange[x].steady = {}
    /\ \A x \in Completed("in") : exchange[x].steady \cap {"off", "untrusted"} = {}

\* "A blocked origin is refused even when it is also a trusted peer", by "every
\* path that needs the answer - adding a peer, delivering outbound, accepting
\* inbound".
BlockWins == \A x \in Completed("in") \cup Completed("out") : "blocked" \notin exchange[x].steady
=============================================================================
