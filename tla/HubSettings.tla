---------------------------- MODULE HubSettings ----------------------------
(***************************************************************************)
(* What a hub keeps about itself.  A setting has a value from the process  *)
(* environment, which is fixed for the life of the process and governs,    *)
(* from the hub's table, or from a default.  An operator's page is a copy  *)
(* of what was resolved when it was rendered, and comes back any time      *)
(* later, after a restart under another environment too.                   *)
(*                                                                         *)
(* The table also keeps the signing key, minted by the first who needs it. *)
(* title stands for title and description, which are handled alike.        *)
(***************************************************************************)
EXTENDS Naturals

CONSTANTS
    None,          \* an absent row, variable or value
    Names,         \* hub names; Local is one of them
    Local,         \* the name no federating hub may have
    Titles,
    Empty,         \* what a form sends for a field left empty
    Environments,  \* what a deployment may set, from key to value or None
    Clients,       \* operators' pages and scripts
    Needs          \* the requests in need of the signing key

Keys == {"name", "title", "federation"}
Values == Names \cup Titles \cup {Empty, "enabled", "disabled"}

\* Assumed of the constants; each instance is checked against it.
HubSettingsConstants ==
    /\ Local \in Names /\ None \notin Values
    /\ Environments \subseteq [Keys -> Values \cup {None}]

VARIABLES
    env,     \* the environment of the running process
    stored,  \* the table: a value, and (history) where it came from; or None
    page,    \* what each client last rendered
    put,     \* each client's PUT at work: the changes not written yet
    key,     \* the stored signing key, the number of its minting
    minted,  \* keys minted so far
    need     \* the state of each need of the key

vars == <<env, stored, page, put, key, minted, need>>

Sources == {"environment", "stored", "default"}
Setting == [value : Values \cup {None}, source : Sources]
Row == [value : Values, origin : {"operator", "environment"}]
Change == [k : Keys, row : Row \cup {None}]

TypeOK ==
    /\ env \in Environments
    /\ stored \in [Keys -> Row \cup {None}]
    /\ page \in [Clients -> [Keys -> Setting] \cup {None}]
    /\ \A c \in Clients : put[c] \subseteq Change
    /\ minted \in Nat /\ key \in (1..minted) \cup {None}
    /\ need \in [Needs -> {"none", "minting", "served"}]

Init ==
    /\ env \in Environments
    /\ stored = [k \in Keys |-> None]
    /\ page = [c \in Clients |-> None]
    /\ put = [c \in Clients |-> {}]
    /\ key = None /\ minted = 0
    /\ need = [n \in Needs |-> "none"]

-----------------------------------------------------------------------------
(* Which value governs *)

Default(k) ==
    CASE k = "name" -> Local [] k = "title" -> None [] OTHER -> "disabled"

Resolved ==
    [k \in Keys |->
        IF env[k] # None THEN [value |-> env[k], source |-> "environment"]
        ELSE IF stored[k] # None
             THEN [value |-> stored[k].value, source |-> "stored"]
             ELSE [value |-> Default(k), source |-> "default"]]

\* What every route that federates asks: the table alone.
Federates == stored["federation"] # None /\ stored["federation"].value = "enabled"

\* What the descriptor for peers says, and the one for the hub's own people.
Descriptor == [k \in {"title", "federation"} |-> Resolved[k].value]
Hub == [name |-> Resolved["name"].value, title |-> Resolved["title"].value,
        federates |-> Federates]

-----------------------------------------------------------------------------
(* Reading and writing the settings *)

HubSettings(c) ==
    /\ put[c] = {}
    /\ page' = [page EXCEPT ![c] = Resolved]
    /\ UNCHANGED <<env, stored, put, key, minted, need>>

ValidName(v) == v \in Names

\* The version a page carries is a digest of its values and their sources.
Same(p) == p = Resolved

\* The value a client sends for a field: what its page shows, or a new one.
\* A value that was never edited is, for the history, the page's.
Row0(p, k, v) ==
    IF v = None THEN None
    ELSE [value |-> v,
          origin |-> IF p # None /\ p[k].value = v
                         /\ p[k].source = "environment"
                     THEN "environment" ELSE "operator"]

\* May the changes be stored?  changes : keys |-> value or None (clear).
Accepted(changes) ==
    \A k \in DOMAIN changes :
        /\ Resolved[k].source # "environment"
        /\ k = "name" /\ changes[k] # None => ValidName(changes[k])
        /\ k = "federation" /\ changes[k] # None
             => changes[k] \in {"enabled", "disabled"}
        /\ k = "federation" /\ changes[k] = "enabled" =>
             (IF "name" \in DOMAIN changes /\ changes["name"] # None
              THEN changes["name"] ELSE Resolved["name"].value) # Local

\* set_hub_settings up to its first write.
Begin(c, p, changes) ==
    /\ Accepted(changes)
    /\ put' = [put EXCEPT ![c] =
                  {[k |-> k, row |-> Row0(p, k, changes[k])] : k \in DOMAIN changes}]
    /\ page' = [page EXCEPT ![c] = None]
    /\ UNCHANGED <<env, stored, key, minted, need>>

\* The console's form: the fields it does not show as governed, and a version.
Fields(p) == {k \in {"name", "title"} : p[k].source # "environment"}
Shown(p, k) == IF p[k].value = None THEN Empty ELSE p[k].value

SettingsSave(c) ==
    LET p == page[c]
    IN  /\ p # None /\ put[c] = {}
        /\ Same(p)
        /\ Fields(p) # {}
        /\ \/ Begin(c, p, [k \in Fields(p) |-> Shown(p, k)])
           \/ \E e \in Fields(p), v \in Names \cup Titles \cup {Empty} :
                Begin(c, p, [k \in Fields(p) |->
                                IF k = e THEN v ELSE Shown(p, k)])

\* A program that reads the settings, changes one and sends them back, with
\* the version it read.
ScriptPut(c) ==
    LET p == page[c]
    IN  /\ p # None /\ put[c] = {}
        /\ Same(p)
        /\ \E ks \in SUBSET Keys \ {{}}, e \in Keys, v \in Values \cup {None} :
             Begin(c, p, [k \in ks |-> IF k = e THEN v ELSE p[k].value])

\* One that never read them and sends a single new value, with no version.
BlindPut(c) ==
    /\ put[c] = {}
    /\ \E k \in Keys, v \in Values \cup {None} :
         Begin(c, None, [x \in {k} |-> v])

\* A write of one setting; another request may come between two of them.
SetHubSetting(c) ==
    \E ch \in put[c] :
        /\ stored' = [stored EXCEPT ![ch.k] = ch.row]
        /\ put' = [put EXCEPT ![c] = @ \ {ch}]
        /\ UNCHANGED <<env, page, key, minted, need>>

-----------------------------------------------------------------------------
(* The signing key *)

\* Mutant: every caller mints one.
SigningKeyAnew(n) ==
    /\ need[n] = "none"
    /\ need' = [need EXCEPT ![n] = "minting"]
    /\ UNCHANGED <<env, stored, page, put, key, minted>>

\* hub_signing_key, until it has looked.
SigningKey(n) ==
    /\ need[n] = "none"
    /\ need' = [need EXCEPT ![n] = IF key = None THEN "minting" ELSE "served"]
    /\ UNCHANGED <<env, stored, page, put, key, minted>>

Mint(n) ==
    /\ need[n] = "minting"
    /\ minted' = minted + 1 /\ key' = minted + 1
    /\ need' = [need EXCEPT ![n] = "served"]
    /\ UNCHANGED <<env, stored, page, put>>

\* The process ends and is started again; requests under way are gone, and
\* a page in a browser is not.
Restart ==
    /\ env' \in Environments
    /\ put' = [c \in Clients |-> {}]
    /\ need' = [n \in Needs |-> IF need[n] = "minting" THEN "none" ELSE need[n]]
    /\ UNCHANGED <<stored, page, key, minted>>

Next ==
    \/ \E c \in Clients :
         HubSettings(c) \/ SettingsSave(c) \/ ScriptPut(c) \/ BlindPut(c)
           \/ SetHubSetting(c)
    \/ \E n \in Needs : SigningKey(n) \/ Mint(n)
    \/ Restart

Spec == Init /\ [][Next]_vars

-----------------------------------------------------------------------------
(* "A value that came from the environment is never written back" (FR-011):*)
(* no page rendered while the deployment governed a setting, submitted     *)
(* whenever, puts the deployment's value in the operator's table (not run).*)
EnvNeverStored == \A k \in Keys : stored[k] # None => stored[k].origin = "operator"

(* The key the hub signs with changes only while two first needs of it     *)
(* overlap; from then on, restarts included, every peer that fetched it    *)
(* can go on using it.                                                     *)
Settled == key # None /\ \A n \in Needs : need[n] # "minting"
KeySettlesStep == Settled => Settled' /\ key' = key
KeySettles == [][KeySettlesStep]_vars

(* hub_signing_key: "minted on first need and kept thereafter".  The code  *)
(* does not keep this when two requests are first at once.                 *)
KeyKept == minted <= 1

(* set_hub_settings: enabling and renaming are "judged on the outcome".    *)
(* The code does not keep this: a later rename is not judged at all.       *)
OutcomeJudged == put = [c \in Clients |-> {}] /\ Federates
                   => Resolved["name"].value # Local

(* federation_descriptor: "Honest about the mode".  The code does not keep *)
(* this when the environment sets the mode, which the routes do not read.  *)
HonestAboutMode == (Descriptor["federation"] = "enabled") = Federates
=============================================================================
