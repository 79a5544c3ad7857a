------------------------------- MODULE Rules -------------------------------
(***************************************************************************)
(* The messaging rules of src/agent_inbox/rules.py: pure functions of what *)
(* is stored, with no state of their own.  A store is a function from the  *)
(* ids that are stored to message records                                  *)
(*     [from, to, parent, ...]                                             *)
(* where `to' stands for ObjectRecord.audience, the union of to and cc.    *)
(* The directory is a function `profile' from the actors who joined to the *)
(* groups their profile lists; every rule takes it as an argument, because *)
(* the code passes (all_actors, memberships) to every rule.                *)
(***************************************************************************)
EXTENDS Integers, FiniteSets

CONSTANTS
    Everyone,   \* the reserved audience that means every actor here
    None        \* Python's None: no parent, nobody

----------------------------------------------------------------------------
(* Membership is computed from what actors say about themselves.           *)

GroupNames(profile) == UNION {profile[a] : a \in DOMAIN profile}

Members(group, profile) == {a \in DOMAIN profile : group \in profile[a]}

\* One addressed name.  A group shadows an actor of the same name.
ResolveName(name, profile) ==
    IF name = Everyone THEN DOMAIN profile
    ELSE IF name \in GroupNames(profile) THEN Members(name, profile)
    ELSE {name} \cap DOMAIN profile

ResolveAudience(names, profile) ==
    UNION {ResolveName(n, profile) : n \in names}

----------------------------------------------------------------------------
(* Delivery.  Nobody receives its own fan-out; an actor that writes its    *)
(* own name does receive its own message.                                  *)

NamedSelf(names, sender) == names \cap {sender}

RecipientsOf(obj, profile) ==
    (ResolveAudience(obj.to, profile) \ {obj.from}) \cup NamedSelf(obj.to, obj.from)

IsPartyTo(obj, actor, profile) ==
    obj.from = actor \/ actor \in RecipientsOf(obj, profile)

----------------------------------------------------------------------------
(* Threading.                                                              *)

\* Mutant: only the parent's existence is asked for.
MayAttachToAny(objects, sender, parent, profile) == parent \in DOMAIN objects

\* A parent that does not exist is refused exactly as a forbidden one is.
MayAttachTo(objects, sender, parent, profile) ==
    /\ parent \in DOMAIN objects
    /\ IsPartyTo(objects[parent], sender, profile)

\* Mutant: every stored parent is shown.
ShownParentAlways(objects, obj, reader, profile) ==
    IF obj.parent \in DOMAIN objects THEN obj.parent ELSE None

\* The parent a reader is shown: blank unless it is a turn of theirs.
ShownParent(objects, obj, reader, profile) ==
    IF MayAttachTo(objects, reader, obj.parent, profile) THEN obj.parent ELSE None

\* One step up inReplyTo, staying put at a parent that is absent.
Up(objects, id) ==
    IF objects[id].parent \in DOMAIN objects THEN objects[id].parent ELSE id

\* The walk to the root.  As many steps as there are messages reach the root
\* of any chain without a cycle.
ThreadRoot(objects, id) ==
    LET n == Cardinality(DOMAIN objects)
        climb[i \in 0..n] == IF i = 0 THEN id ELSE Up(objects, climb[i - 1])
    IN  climb[n]

ThreadMembers(objects, root) ==
    {m \in DOMAIN objects : ThreadRoot(objects, m) = root}

----------------------------------------------------------------------------
(* Expiry.  A thread goes whole, and only when its latest turn is idle.    *)
(* `idle' is the set of messages published before the cutoff.              *)

\* Mutant: every message expires on its own.
ExpiringMessages(objects, idle) == DOMAIN objects \cap idle

\* Mutant: only a thread that still has its first message expires.
ExpiringRootedThreads(objects, idle) ==
    {m \in DOMAIN objects :
        /\ objects[ThreadRoot(objects, m)].parent = None
        /\ ThreadMembers(objects, ThreadRoot(objects, m)) \subseteq idle}

ExpiringThreads(objects, idle) ==
    {m \in DOMAIN objects :
        ThreadMembers(objects, ThreadRoot(objects, m)) \subseteq idle}
=============================================================================
