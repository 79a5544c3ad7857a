------------------------------ MODULE Outward ------------------------------
(***************************************************************************)
(* What a hub shows of its actors to anybody but its own.  An operator     *)
(* decides whether the hub federates at all, an actor how findable it is,  *)
(* and a request from outside is answered in steps, between which either   *)
(* may change: WebFinger, NodeInfo, the actor document and the directory.  *)
(*                                                                         *)
(* Requests of outsiders only: one with the hub's own credentials is shown *)
(* everything.  Whether a signature is a trusted peer's is Trust; here it  *)
(* is, or is not, each time it is asked.                                   *)
(***************************************************************************)
EXTENDS Naturals, FiniteSets

CONSTANTS None, Names, Clients

Levels == {"local", "normal", "discoverable"}
Written == Levels \cup {"unset", "unreadable"}
Routes == {"webfinger", "actor", "directory", "nodeinfo"}

VARIABLES
    profile,    \* what each name's stored profile says, None without an actor
    mode,       \* whether the stored setting says the hub federates
    enforcing,  \* whether the hub authenticates its own
    ask,        \* what each outsider is waiting for
    answer,     \* what it was last shown: names, a count, or a refusal
    shown       \* history: the answer shows a name that was hidden, or of
                \* a hub that did not federate, all the while

vars == <<profile, mode, enforcing, ask, answer, shown>>

Stages == {"none", "asked", "federates", "here", "checked"}
Ask == [at : Stages, route : Routes, name : Names, peer : BOOLEAN,
        federating : BOOLEAN, open : SUBSET Names, mode : BOOLEAN]
Answer == [kind : {"none", "refused", "absent", "thin", "rich", "list", "count"},
           names : SUBSET Names]
Quiet == [at |-> "none", route |-> "actor", name |-> CHOOSE n \in Names : TRUE,
          peer |-> FALSE, federating |-> FALSE, open |-> {}, mode |-> FALSE]

\* visibility.read: what a stored value means.
Read(n) == IF profile[n] = "unset" THEN "normal"
           ELSE IF profile[n] = "unreadable" THEN "local" ELSE profile[n]

TypeOK ==
    /\ profile \in [Names -> Written \cup {None}]
    /\ mode \in BOOLEAN /\ enforcing \in BOOLEAN
    /\ ask \in [Clients -> Ask] /\ answer \in [Clients -> Answer]
    /\ shown \subseteq Clients

\* An old store may hold a value nobody can read.
Init ==
    /\ profile \in [Names -> Written \cup {None}]
    /\ mode \in BOOLEAN /\ enforcing \in BOOLEAN
    /\ ask = [c \in Clients |-> Quiet]
    /\ answer = [c \in Clients |-> [kind |-> "none", names |-> {}]]
    /\ shown = {}

-----------------------------------------------------------------------------
(* The hub's own people *)

\* History: who was not hidden, and whether the hub federated, at some moment
\* of each request under way.
Visible(p) == {n \in Names : p[n] \notin {None, "local", "unreadable"}}
Since == [c \in Clients |->
             IF ask[c].at = "none" THEN ask[c]
             ELSE [ask[c] EXCEPT !.open = @ \cup Visible(profile'),
                                 !.mode = @ \/ mode']]

\* parse: what is written is one of the three levels; a profile may not say.
UpdateProfile(n) ==
    /\ profile' \in {[profile EXCEPT ![n] = v] : v \in Levels \cup {"unset"}}
    /\ UNCHANGED <<mode, enforcing, answer, shown>> /\ ask' = Since

SetMode ==
    /\ mode' = ~mode
    /\ UNCHANGED <<profile, enforcing, answer, shown>> /\ ask' = Since

-----------------------------------------------------------------------------
(* An outsider's request *)

Request(c) ==
    /\ ask[c].at = "none"
    /\ \E r \in Routes, n \in Names, p \in BOOLEAN :
         ask' = [ask EXCEPT ![c] = [at |-> "asked", route |-> r, name |-> n,
                    peer |-> p, federating |-> FALSE, open |-> Visible(profile), mode |-> mode]]
    /\ answer' = [answer EXCEPT ![c] = [kind |-> "none", names |-> {}]]
    /\ UNCHANGED <<profile, mode, enforcing, shown>>

Reply(c, kind, names) ==
    /\ answer' = [answer EXCEPT ![c] = [kind |-> kind, names |-> names]]
    /\ ask' = [ask EXCEPT ![c] = Quiet]
    /\ shown' = IF names \subseteq ask[c].open /\ (ask[c].mode \/ names = {}) THEN shown ELSE shown \cup {c}

Advance(c, to) == ask' = [ask EXCEPT ![c].at = to] /\ UNCHANGED <<answer, shown>>

\* Every route asks first whether the hub federates.
Federates(c) ==
    /\ ask[c].at = "asked"
    /\ CASE ask[c].route \in {"webfinger", "nodeinfo"} /\ ~mode -> Reply(c, "refused", {})
         [] ask[c].route = "directory" /\ ~mode /\ enforcing -> Reply(c, "refused", {})
         [] OTHER -> /\ ask' = [ask EXCEPT ![c].at = "federates", ![c].federating = mode]
                     /\ UNCHANGED <<answer, shown>>
    /\ UNCHANGED <<profile, mode, enforcing>>

Webfinger(c) ==
    /\ ask[c].at = "federates" /\ ask[c].route = "webfinger"
    /\ LET n == ask[c].name
       IN  IF profile[n] = None \/ Read(n) = "local" THEN Reply(c, "absent", {})
           ELSE Reply(c, "thin", {n})
    /\ UNCHANGED <<profile, mode, enforcing>>

\* A count names nobody, and counts only those willing to be public.
NodeInfo(c) ==
    /\ ask[c].at = "federates" /\ ask[c].route = "nodeinfo"
    /\ Reply(c, "count", {n \in Names : profile[n] # None /\ Read(n) # "local"})
    /\ UNCHANGED <<profile, mode, enforcing>>

\* A hub that does not federate shows its own people its whole directory, and
\* cannot tell who they are; nothing here is about that.
Directory(c) ==
    /\ ask[c].at = "federates" /\ ask[c].route = "directory"
    /\ Reply(c, "list", {n \in Names : profile[n] # None /\ ask[c].federating
                                         /\ Read(n) = "discoverable"})
    /\ UNCHANGED <<profile, mode, enforcing>>

\* Mutant: the stranger's document is served without asking the actor.
ActorUnasked(c) ==
    /\ ask[c].at = "federates" /\ ask[c].route = "actor"
    /\ IF (ask[c].federating /\ ask[c].peer)
            /\ (profile[ask[c].name] = None \/ Read(ask[c].name) = "local")
       THEN Reply(c, "absent", {})
       ELSE Advance(c, "checked")
    /\ UNCHANGED <<profile, mode, enforcing>>

\* _resolvable_or_absent, for every outsider a federating hub answers.
Resolvable(c) ==
    /\ ask[c].at = "federates" /\ ask[c].route = "actor"
    /\ IF (ask[c].federating \/ ask[c].peer)
            /\ (profile[ask[c].name] = None \/ Read(ask[c].name) = "local")
       THEN Reply(c, "absent", {})
       ELSE Advance(c, "checked")
    /\ UNCHANGED <<profile, mode, enforcing>>

\* The document: rich for a peer that proved itself, thin for a stranger,
\* and none of either from a hub that does not federate.
Actor(c) ==
    /\ ask[c].at = "checked" /\ ask[c].route = "actor"
    /\ IF ~ask[c].federating THEN Reply(c, "refused", {})
       ELSE IF profile[ask[c].name] = None THEN Reply(c, "absent", {})
       ELSE Reply(c, IF ask[c].peer THEN "rich" ELSE "thin", {ask[c].name})
    /\ UNCHANGED <<profile, mode, enforcing>>

Next ==
    \/ SetMode
    \/ \E n \in Names : UpdateProfile(n)
    \/ \E c \in Clients :
         Request(c) \/ Federates(c) \/ Webfinger(c) \/ NodeInfo(c)
           \/ Directory(c) \/ Resolvable(c) \/ Actor(c)

Spec == Init /\ [][Next]_vars

-----------------------------------------------------------------------------
(* "The field can only ever withhold": no route shows an outsider a name   *)
(* that was hidden all the while the request was at work, nor any name of  *)
(* a hub that did not federate, whatever changes between its steps.        *)
HiddenStaysHidden == shown = {}
=============================================================================
