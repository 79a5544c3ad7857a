------------------------------ MODULE Mailbox ------------------------------
(***************************************************************************)
(* The mailbox of one hub (src/agent_inbox/mailbox.py, with the halves of  *)
(* house.py and retraction.py that change what it stores) over its store.  *)
(*                                                                         *)
(* Requests are coroutines of one event loop.  Each of them looks at the   *)
(* store, awaits, and writes what it decided from the look: a request is   *)
(* therefore a look step, then a write step, and every other request may   *)
(* run in between.  The reads of one look happen at several awaits in the  *)
(* code; they are one step here because a stored audience and an actor's   *)
(* existence never change, so a write that falls between two reads could   *)
(* as well have come before the first or after the last.                   *)
(***************************************************************************)
EXTENDS Rules

CONSTANTS
    Names,      \* names an actor may hold on this hub
    Groups,     \* names a profile may list as groups, those of actors included
    Remotes,    \* actor URIs on other hubs
    Humans,     \* the actors of type Person
    Ids,        \* message ids a send may mint
    Clients,    \* requests that may be in flight at once
    Sweepers,   \* the purge loop and the operator's purge requests
    Retention,  \* retention window, in ticks; 0 keeps mail for ever
    Aims        \* bound: the audiences a send may be addressed to

ASSUME MailboxConstants ==
    /\ Humans \subseteq Names
    /\ Retention \in Nat
    /\ None \notin Names \cup Groups \cup Remotes \cup Ids
    /\ Everyone \notin Names \cup Remotes
    /\ Remotes \cap Names = {}
    /\ Aims \subseteq SUBSET (Names \cup Groups \cup {Everyone} \cup Remotes)

VARIABLES
    profile,    \* joined actor -> groups its profile lists
    objects,    \* stored id -> message
    reads,      \* <<id, reader>> rows
    age,        \* id -> ticks since it was published
    req,        \* client -> its request in flight
    sweep,      \* sweeper -> what it read and means to remove
    sent,       \* history: minted id -> the message as first stored
    listed      \* history: <<actor, group>> pairs that profiles have listed

vars == <<profile, objects, reads, age, req, sweep, sent, listed>>

Authors == Names \cup Remotes
Message == [from : Authors, to : SUBSET Authors, parent : Ids \cup {None},
            retracted : Names \cup {None}]

Stages == {"idle", "compose", "store", "answered", "mark", "retract"}
Request == [stage : Stages,
            by     : Authors \cup {None},      \* the caller
            to     : SUBSET Authors,           \* the audience it resolved
            parent : Ids \cup {None},          \* the parent it settled on
            target : Ids \cup {None},          \* the message it is about
            copy   : Message \cup {None}]      \* the record a retraction read

Idle == [stage |-> "idle", by |-> None, to |-> {}, parent |-> None,
         target |-> None, copy |-> None]
Asleep == [seen |-> {}, doomed |-> {}]

TypeOK ==
    /\ DOMAIN profile \subseteq Names
    /\ profile \in [DOMAIN profile -> SUBSET Groups]
    /\ DOMAIN objects \subseteq DOMAIN sent
    /\ objects \in [DOMAIN objects -> Message]
    /\ reads \subseteq Ids \X Names
    /\ age \in [Ids -> 0 .. Retention + 1]
    /\ req \in [Clients -> Request]
    /\ sweep \in [Sweepers -> [seen : SUBSET Ids, doomed : SUBSET Ids]]
    /\ DOMAIN sent \subseteq Ids
    /\ sent \in [DOMAIN sent -> Message]
    /\ listed \subseteq Names \X Groups

\* What a request holds at each stage.
PendingOK ==
    \A c \in Clients :
        /\ req[c].stage \in {"store", "compose"} => req[c].by \in Authors
        /\ req[c].stage = "mark" => req[c].by \in Names /\ req[c].target \in Ids
        /\ req[c].stage = "retract" => /\ req[c].by \in Names /\ req[c].target \in DOMAIN sent
                                       /\ req[c].copy \in Message

Init ==
    /\ profile = [a \in {} |-> {}]
    /\ objects = [m \in {} |-> None]
    /\ reads = {}
    /\ age = [m \in Ids |-> 0]
    /\ req = [c \in Clients |-> Idle]
    /\ sweep = [s \in Sweepers |-> Asleep]
    /\ sent = [m \in {} |-> None]
    /\ listed = {}

Put(f, key, value) == [k \in DOMAIN f \cup {key} |-> IF k = key THEN value ELSE f[k]]
Drop(f, keys) == [k \in DOMAIN f \ keys |-> f[k]]

----------------------------------------------------------------------------
(* Identity.                                                               *)

\* The store's atomic claim settles who gets a name.
Join(a) ==
    /\ a \in Names \ DOMAIN profile
    /\ profile' = Put(profile, a, {})
    /\ UNCHANGED <<objects, reads, age, req, sweep, sent, listed>>

\* The whole profile is replaced, groups included; nothing checks that a
\* group is not also the name of an actor.
UpdateProfile(a, groups) ==
    /\ a \in DOMAIN profile
    /\ profile' = Put(profile, a, groups)
    /\ listed' = listed \cup ({a} \X groups)
    /\ UNCHANGED <<objects, reads, age, req, sweep, sent>>

----------------------------------------------------------------------------
(* Sending.                                                                *)

Known == DOMAIN profile \cup GroupNames(profile) \cup {Everyone}

\* Mutant: the audience is stored as it was addressed.
ReachedAsAddressed(aimed, by) == aimed

\* Who a send reaches: resolved now, without the sender's own fan-out, and
\* the remote recipients appended as the URIs they resolved to.
Reached(aimed, by) ==
    LET local == aimed \ Remotes
    IN  (ResolveAudience(local, profile) \ {by}) \cup NamedSelf(local, by)
            \cup (aimed \cap Remotes)

\* Mailbox.send up to its last await: refuse an unknown name and an audience
\* that resolves to nobody, and start a new thread instead of attaching to a
\* turn that is not the sender's.
Resolve(c, by, aimed, parent, target) ==
    /\ by \in DOMAIN profile \cup Remotes
    /\ aimed \ Remotes \subseteq Known
    /\ aimed \subseteq Remotes \/ Reached(aimed, by) # {}
    /\ req' = [req EXCEPT ![c] =
                 [Idle EXCEPT !.stage = "store", !.by = by, !.target = target,
                              !.to = Reached(aimed, by),
                              !.parent = IF MayAttachTo(objects, by, parent, profile)
                                         THEN parent ELSE None]]

\* A send by an actor here, or by a peer whose signature was verified; a
\* peer's activity names somebody, and on this hub only.  The remote names
\* in `aimed' are those that resolved; the others get a failed receipt.
SendLook(c) ==
    /\ req[c].stage = "idle"
    /\ \E by \in Authors, parent \in Ids \cup {None}, aimed \in Aims :
         /\ by \in Remotes => aimed # {} /\ aimed \cap Remotes = {}
         /\ Resolve(c, by, aimed, parent, None)
    /\ UNCHANGED <<profile, objects, reads, age, sweep, sent, listed>>

\* The await that stores the message, under a fresh uuid.
SendStore(c) ==
    /\ req[c].stage = "store"
    /\ \E m \in Ids \ DOMAIN sent :
         LET obj == [from |-> req[c].by, to |-> req[c].to,
                     parent |-> req[c].parent, retracted |-> None]
         IN  /\ objects' = Put(objects, m, obj)
             /\ sent' = Put(sent, m, obj)
             /\ age' = [age EXCEPT ![m] = 0]
    /\ req' = [req EXCEPT ![c] =
                 IF req[c].target = None THEN Idle
                 ELSE [Idle EXCEPT !.stage = "answered", !.by = req[c].by,
                                   !.target = req[c].target]]
    /\ UNCHANGED <<profile, reads, sweep, listed>>

----------------------------------------------------------------------------
(* Reading.                                                                *)

\* Mailbox._visible_object: what a caller may name, and act on, by id.
Visible(m, reader) ==
    /\ reader \in DOMAIN profile
    /\ m \in DOMAIN objects
    /\ IsPartyTo(objects[m], reader, profile)

\* The look of read and of mark_read_for; `parent' is what the caller is shown.
Look(c, reader, m) ==
    /\ Visible(m, reader)
    /\ req' = [req EXCEPT ![c] =
                 [Idle EXCEPT !.stage = "mark", !.by = reader, !.target = m,
                              !.parent = ShownParent(objects, objects[m], reader, profile)]]

ReadLook(c) ==
    /\ req[c].stage = "idle"
    /\ \E reader \in Names, m \in Ids : Look(c, reader, m)
    /\ UNCHANGED <<profile, objects, reads, age, sweep, sent, listed>>

\* Mutant: one reader acknowledges for the whole audience.
AcknowledgedForAll(m, reader) == {<<m, a>> : a \in sent[m].to \cap Names}

\* The rows one acknowledgement adds: the reader's own, and once.
Acknowledged(m, reader) == {<<m, reader>>}

\* INSERT OR IGNORE, with no check that the message is still stored.
MarkRead(c) ==
    /\ req[c].stage = "mark"
    /\ reads' = reads \cup Acknowledged(req[c].target, req[c].by)
    /\ req' = [req EXCEPT ![c] = Idle]
    /\ UNCHANGED <<profile, objects, age, sweep, sent, listed>>

\* House.reply: look at the original, send to its author on its thread, and
\* only then mark the original read.
ReplyLook(c) ==
    /\ req[c].stage = "idle"
    /\ \E reader \in Names, m \in Ids :
         /\ Visible(m, reader)
         /\ req' = [req EXCEPT ![c] =
                      [Idle EXCEPT !.stage = "compose", !.by = reader, !.target = m,
                                   !.to = {objects[m].from}]]
    /\ UNCHANGED <<profile, objects, reads, age, sweep, sent, listed>>

\* The author's name is resolved as a local name: nobody here is called by
\* the URI of a remote author, so that reply is refused.
ReplySend(c) ==
    /\ req[c].stage = "compose"
    /\ req[c].to \subseteq Known
    /\ Resolve(c, req[c].by, req[c].to, req[c].target, req[c].target)
    /\ UNCHANGED <<profile, objects, reads, age, sweep, sent, listed>>

ReplyMark(c) ==
    /\ req[c].stage = "answered"
    /\ Look(c, req[c].by, req[c].target)
    /\ UNCHANGED <<profile, objects, reads, age, sweep, sent, listed>>

----------------------------------------------------------------------------
(* Retraction.                                                             *)

\* Its author, or any human, may retract; an already retracted message is
\* left as it is.  The whole record read here is what gets written back.
RetractLook(c) ==
    /\ req[c].stage = "idle"
    /\ \E by \in DOMAIN profile, m \in DOMAIN objects :
         /\ by \in Humans \/ objects[m].from = by
         /\ objects[m].retracted = None
         /\ req' = [req EXCEPT ![c] =
                      [Idle EXCEPT !.stage = "retract", !.by = by, !.target = m,
                                   !.copy = objects[m]]]
    /\ UNCHANGED <<profile, objects, reads, age, sweep, sent, listed>>

\* Mutant: the tombstone leaves the thread.
TombstoneAlone(record, by) == [record EXCEPT !.retracted = by, !.parent = None]

Tombstone(record, by) == [record EXCEPT !.retracted = by]

\* INSERT OR REPLACE: the row is written whether or not it is still there.
RetractStore(c) ==
    /\ req[c].stage = "retract"
    /\ objects' = Put(objects, req[c].target, Tombstone(req[c].copy, req[c].by))
    /\ req' = [req EXCEPT ![c] = Idle]
    /\ UNCHANGED <<profile, reads, age, sweep, sent, listed>>

----------------------------------------------------------------------------
(* Expiry.                                                                 *)

\* Mutant: at the cutoff, too.
AtCutoff == {m \in DOMAIN sent : age[m] >= Retention}

\* Strictly before the cutoff: a last word exactly on it keeps the thread.
BeforeCutoff == {m \in DOMAIN sent : age[m] > Retention}

\* expire_preview: nothing when retention is disabled.
Doomed == ExpiringThreads(objects, BeforeCutoff)

PurgeLook(s) ==
    /\ sweep[s] = Asleep
    /\ Retention > 0
    /\ Doomed # {}
    /\ sweep' = [sweep EXCEPT ![s] = [seen |-> DOMAIN objects, doomed |-> Doomed]]
    /\ UNCHANGED <<profile, objects, reads, age, req, sent, listed>>

\* The await after it, which takes the read rows and the objects together.
PurgeRemove(s) ==
    /\ sweep[s].doomed # {}
    /\ objects' = Drop(objects, sweep[s].doomed)
    /\ reads' = {row \in reads : row[1] \notin sweep[s].doomed}
    /\ sweep' = [sweep EXCEPT ![s] = Asleep]
    /\ UNCHANGED <<profile, age, req, sent, listed>>

----------------------------------------------------------------------------
(* The environment.                                                        *)

\* A request ends early: refused, its store call raised, or cancelled.
Abandon(c) ==
    /\ req[c] # Idle
    /\ req' = [req EXCEPT ![c] = Idle]
    /\ UNCHANGED <<profile, objects, reads, age, sweep, sent, listed>>

\* The purge's store call raised; purge_forever logs it and goes on.
PurgeFails(s) ==
    /\ sweep[s] # Asleep
    /\ sweep' = [sweep EXCEPT ![s] = Asleep]
    /\ UNCHANGED <<profile, objects, reads, age, req, sent, listed>>

\* The hub restarts: what was in flight is gone, what was committed is not.
Restart ==
    /\ req # [c \in Clients |-> Idle] \/ sweep # [s \in Sweepers |-> Asleep]
    /\ req' = [c \in Clients |-> Idle]
    /\ sweep' = [s \in Sweepers |-> Asleep]
    /\ UNCHANGED <<profile, objects, reads, age, sent, listed>>

\* Time passes; beyond the retention window one age is as good as another, and
\* where mail is kept for ever no age matters.
Tick ==
    /\ Retention > 0
    /\ \E m \in DOMAIN sent : age[m] <= Retention
    /\ age' = [m \in Ids |-> IF m \in DOMAIN sent /\ age[m] <= Retention
                             THEN age[m] + 1 ELSE age[m]]
    /\ UNCHANGED <<profile, objects, reads, req, sweep, sent, listed>>

Client(c) ==
    \/ SendLook(c) \/ SendStore(c)
    \/ ReadLook(c) \/ MarkRead(c)
    \/ ReplyLook(c) \/ ReplySend(c) \/ ReplyMark(c)
    \/ RetractLook(c) \/ RetractStore(c)
    \/ Abandon(c)

Sweep(s) == PurgeLook(s) \/ PurgeRemove(s) \/ PurgeFails(s)

Next ==
    \/ \E a \in Names : Join(a)
    \/ \E a \in Names, groups \in SUBSET Groups : UpdateProfile(a, groups)
    \/ \E c \in Clients : Client(c)
    \/ \E s \in Sweepers : Sweep(s)
    \/ Restart
    \/ Tick

Spec == Init /\ [][Next]_vars

----------------------------------------------------------------------------
(* What must be true of it.                                                *)

\* Those who were given message m when it was sent, and its author.
Parties(m) == {sent[m].from} \cup sent[m].to

\* Those the rules take for parties to m, or once did: a profile may list as a
\* group the name of an actor that m is for, and a group shadows an actor.
Insiders(m) == Parties(m) \cup {a \in Names : \E n \in sent[m].to : <<a, n>> \in listed}

\* Somebody lists the name of actor a as a group, and a itself does not: what is
\* for a goes to the group.
Shadowed(a) == a \in GroupNames(profile) /\ a \notin profile[a]

\* A message reaches who was there when it was sent, and the re-resolution that
\* every read performs (rules.recipients_of) changes that in one way only: it
\* is kept from an actor whose name others list as a group, and given to those
\* who list as a group the name of an actor it is for.  Joining, leaving or
\* renaming groups that are nobody's name never moves it.
AudienceSettled ==
    \A m \in DOMAIN objects :
        LET now == RecipientsOf(objects[m], profile)
        IN  /\ \A a \in (sent[m].to \cap Names) \ now : Shadowed(a)
            /\ \A a \in now \ sent[m].to : profile[a] \cap sent[m].to # {}

\* What the comment says: resolving at send time means that a message reaches
\* who was there when it was sent (mailbox.py, "Resolve the audience now").
ReachesWhoWasThere ==
    \A m \in DOMAIN objects :
        RecipientsOf(objects[m], profile) = sent[m].to \cap Names

\* No turn is ever placed in a conversation its author cannot see: the parent
\* a send settled on, checked before an await and stored after it, was a turn
\* of the author's, or one for an actor whose name the author had listed as a
\* group (rules.may_attach_to).
AttachedByParty ==
    \A m \in DOMAIN sent :
        sent[m].parent # None =>
            /\ sent[m].parent \in DOMAIN sent
            /\ sent[m].from \in Insiders(sent[m].parent)

\* Mail is only ever acknowledged by someone it was for, or by someone who
\* listed the name of one as a group: also a row written long after the check
\* that allowed it.
ReadersAreParties ==
    \A row \in reads : row[1] \in DOMAIN sent /\ row[2] \in Insiders(row[1])

\* A reader shown the id of a parent is a party to that parent too, or listed
\* the name of one as a group: to any other stranger the id of a message is no
\* proof that it exists (issue #45).
NoForeignParentShown ==
    \A c \in Clients :
        req[c].stage = "mark" /\ req[c].parent # None =>
            req[c].by \in Insiders(req[c].parent)

\* Retraction takes the body and nothing else: whatever interleaving wrote
\* the row back, a stored message keeps its author, audience and parent.
TurnKeepsItsPlace ==
    \A m \in DOMAIN objects :
        objects[m] = [sent[m] EXCEPT !.retracted = objects[m].retracted]

\* What waits for a reader (rules.unread).
Waiting(a) ==
    {m \in DOMAIN objects : a \in RecipientsOf(objects[m], profile) /\ <<m, a>> \notin reads}

\* Mail leaves an inbox only because its own reader dealt with it, because its
\* conversation expired, or because names and groups collide: others list the
\* reader's name as a group, or the reader no longer lists the name of the actor
\* the mail was for.  No read or reply of another, and no other change of a
\* profile, consumes it.
NothingVanishes ==
    [][\A a \in DOMAIN profile :
         \A m \in Waiting(a) \ Waiting(a)' :
            \/ m \notin DOMAIN objects'
            \/ \E c \in Clients : /\ req[c].stage = "mark"
                                  /\ req[c].by = a /\ req[c].target = m
            \/ a \in sent[m].to /\ Shadowed(a)'
            \/ a \notin sent[m].to /\ profile[a]' # profile[a]]_vars

\* Expiry takes nothing that was published within the retention window,
\* however long ago the purge looked and whatever was written since.
PurgeSparesTheRecent ==
    [][\A m \in DOMAIN objects \ DOMAIN objects' : age[m] > Retention]_vars

\* Expiry takes a thread whole, as it saw it: no turn that was stored when
\* the purge looked is left behind without the parent that purge took.
ThreadsGoWhole ==
    [][\A s \in Sweepers : PurgeRemove(s) =>
         \A m \in DOMAIN objects' \cap sweep[s].seen :
            objects[m].parent \notin DOMAIN objects \ DOMAIN objects']_vars

\* A conversation still being replied to never loses its own beginning
\* (README.md, "It expires on its own").
ThreadKeepsItsBeginning ==
    \A m \in DOMAIN objects :
        objects[m].parent # None => objects[m].parent \in DOMAIN objects

----------------------------------------------------------------------------
(* Progress.  The purge loop sleeps and runs again for as long as the hub  *)
(* is up, whatever one cycle raised, and a hub is not restarted within the *)
(* milliseconds of every single cycle: hence strong fairness of the        *)
(* removal, and weak fairness of the look and of the clock.                *)

FairSpec ==
    /\ Spec
    /\ WF_vars(Tick)
    /\ \A s \in Sweepers : WF_vars(PurgeLook(s)) /\ SF_vars(PurgeRemove(s))

\* Mail expires: every stored message is eventually removed, also one whose
\* parent a purge took while it was being written, and one a late retraction
\* brought back.
EveryMessageExpires ==
    \A m \in Ids : m \in DOMAIN objects ~> m \notin DOMAIN objects
=============================================================================
