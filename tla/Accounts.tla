------------------------------ MODULE Accounts -----------------------------
(***************************************************************************)
(* Who may operate the hub: auth.AuthService over the tables of            *)
(* auth.store, merge, which makes an operator's account and mailbox one    *)
(* identity, and the hub's startup, which adopts the accounts it finds and *)
(* seeds the first one.                                                    *)
(*                                                                         *)
(* Every operation reads a row, awaits, and writes the whole row it read   *)
(* with some columns changed (put_user); other operations run in between.  *)
(* A crash may come between any two steps, also of the startup.            *)
(*                                                                         *)
(* An offer is what one begin_enrolment issues: an authenticator's secret  *)
(* and its recovery codes, of which there is one here.  Passwords are not  *)
(* modelled: whoever gives a wrong one takes no step.  Sessions of one     *)
(* user and kind are not told apart, so that ending one may leave another. *)
(* An operation's check of its session and its first read are one step.    *)
(***************************************************************************)
EXTENDS Naturals, FiniteSets

CONSTANTS
    None,
    Admin,      \* the seeded account, and the name of its mailbox
    People,     \* other names an actor may hold
    Legacy,     \* usernames no actor may hold, from before names were merged
    Usable,     \* legacy username -> the name it should become
    Offers,
    Clients,    \* requests in flight
    Override    \* whether AGENT_INBOX_ADMIN_PASSWORD is set

Names == {Admin} \cup People
Usernames == Names \cup Legacy

Record == [state : {"new", "active"}, totp : Offers \cup {None}]

ASSUME AccountConstants ==
    /\ None \notin Usernames \cup Offers \cup Record \cup {"agent", "service", "person"}
    /\ Names \cap Legacy = {}
    /\ Usable \in [Legacy -> Names]
    /\ Override \in BOOLEAN

VARIABLES
    account,    \* username -> its row of auth_users, or None
    codes,      \* unspent rows of auth_recovery_codes: <<username, offer>>
    sessions,   \* rows of auth_sessions: <<username, kind>>
    actors,     \* name -> the type of the actor that holds it, or None
    boot,       \* the hub's startup: its stage, the accounts it has yet to
                \* adopt, and the one it has copied to a usable name
    req,        \* client -> the request it is in
    offered,    \* history: offers issued
    admitted,   \* history: offer -> logins its recovery code let in
    half        \* history: usernames whose invitation broke off since startup

tables == <<account, codes, sessions>>
histories == <<offered, admitted, half>>
vars == <<tables, actors, boot, req, histories>>

Fresh == [state |-> "new", totp |-> None]
Stages == {"idle", "spending", "stamping", "opening", "issuing", "coding",
           "enabling", "changing", "inviting", "claiming", "undoing",
           "withdrawing", "removing"}
Request == [stage : Stages, user : Usernames \cup {None},
            copy : Record \cup {None}, offer : Offers \cup {None}]
Idle == [stage |-> "idle", user |-> None, copy |-> None, offer |-> None]
Holders == {u \in Usernames : account[u] # None}

TypeOK ==
    /\ account \in [Usernames -> Record \cup {None}]
    /\ codes \subseteq Usernames \X Offers
    /\ sessions \subseteq Usernames \X {"limited", "full"}
    /\ actors \in [Names -> {None, "agent", "service", "person"}]
    /\ boot \in [stage : {"down", "adopting", "serving"},
                 todo : SUBSET Holders, moved : Legacy \cup {None}]
    /\ req \in [Clients -> Request]
    /\ offered \subseteq Offers
    /\ admitted \in [Offers -> Nat]
    /\ half \subseteq Usernames

\* A new database, or one from before operators had mailboxes.
Init ==
    /\ \E old \in SUBSET Legacy, issued \in [Legacy -> Offers \cup {None}] :
        /\ \A u, v \in Legacy : issued[u] = issued[v] => u = v \/ issued[u] = None
        /\ account = [u \in Usernames |->
                        IF u \notin old THEN None
                        ELSE IF issued[u] = None THEN Fresh
                        ELSE [state |-> "active", totp |-> issued[u]]]
        /\ offered = {issued[u] : u \in Legacy} \ {None}
        /\ codes = {<<u, issued[u]>> : u \in {v \in old : issued[v] # None}}
    /\ sessions = {}
    /\ actors = [n \in Names |-> None]
    /\ boot = [stage |-> "down", todo |-> {}, moved |-> None]
    /\ req = [c \in Clients |-> Idle]
    /\ admitted = [o \in Offers |-> 0]
    /\ half = {}

----------------------------------------------------------------------------
(* The stores' calls.                                                      *)

Serving == boot.stage = "serving"
At(c, stage) == Serving /\ req[c].stage = stage
Enter(c, stage) == req' = [req EXCEPT ![c].stage = stage]
Finish(c) == req' = [req EXCEPT ![c] = Idle]
Start(c, stage, user, copy, offer) ==
    req' = [req EXCEPT ![c] = [stage |-> stage, user |-> user,
                               copy |-> copy, offer |-> offer]]
SignedIn(u) == <<u, "full">> \in sessions
AnOperator == \E u \in Usernames : SignedIn(u)

\* Mutant: INSERT OR REPLACE for UPDATE.
Upserted(u, row) == [account EXCEPT ![u] = row]

\* Mutant: only the enrolment state is written, as the other columns have
\* not changed since they were read.
StateUpdated(u, row) ==
    IF account[u] = None THEN account
    ELSE [account EXCEPT ![u].state = row.state]

\* put_user: an UPDATE of every column, of no row when there is none.
Updated(u, row) ==
    IF account[u] = None THEN account ELSE [account EXCEPT ![u] = row]

\* remove_user
Deleted(u) ==
    /\ account' = [account EXCEPT ![u] = None]
    /\ codes' = {k \in codes : k[1] # u}
    /\ sessions' = {s \in sessions : s[1] # u}

----------------------------------------------------------------------------
(* Signing in.                                                             *)

\* What follows the password: nothing for a new account, else a code of the
\* authenticator, or one that is tried as a recovery code.
AfterPassword(row, o) ==
    IF row.state = "new" THEN {"opening"}
    ELSE {"spending"} \cup {s \in {"stamping"} : row.totp = o}

LoginLook(c, u, o) ==
    /\ At(c, "idle")
    /\ account[u] # None
    /\ \E stage \in AfterPassword(account[u], o) : Start(c, stage, u, account[u], o)
    /\ UNCHANGED <<tables, actors, boot, histories>>

LoginOverride(c) ==
    /\ Override
    /\ At(c, "idle")
    /\ sessions' = sessions \cup {<<Admin, "full">>}
    /\ UNCHANGED <<account, codes, actors, boot, req, histories>>

\* Mutant: the code is looked up, and not marked used.
CodeLeft(c) == UNCHANGED codes

CodeUsed(c) == codes' = codes \ {<<req[c].user, req[c].offer>>}

LoginSpend(c) ==
    /\ At(c, "spending")
    /\ IF <<req[c].user, req[c].offer>> \in codes
       THEN /\ CodeUsed(c)
            /\ admitted' = [admitted EXCEPT ![req[c].offer] = @ + 1]
            /\ Enter(c, "stamping")
       ELSE Finish(c) /\ UNCHANGED <<codes, admitted>>
    /\ UNCHANGED <<account, sessions, actors, boot, offered, half>>

OpenSession(c) ==
    /\ At(c, "opening")
    /\ sessions' = sessions \cup
        {<<req[c].user, IF req[c].copy.state = "new" THEN "limited" ELSE "full">>}
    /\ Finish(c)
    /\ UNCHANGED <<account, codes, actors, boot, histories>>

\* Logging out, or an expired session that is swept.
EndSession(s) ==
    /\ Serving
    /\ s \in sessions
    /\ sessions' = sessions \ {s}
    /\ UNCHANGED <<account, codes, actors, boot, req, histories>>

----------------------------------------------------------------------------
(* Enrolling, rotating an authenticator, changing a password.              *)

BeginEnrolment(c, u, o) ==
    /\ At(c, "idle")
    /\ \E kind \in {"limited", "full"} : <<u, kind>> \in sessions
    /\ account[u] # None
    /\ o \notin offered
    /\ Start(c, "issuing", u, [account[u] EXCEPT !.totp = o], o)
    /\ offered' = offered \cup {o}
    /\ UNCHANGED <<tables, actors, boot, admitted, half>>

AddRecoveryCodes(c) ==
    /\ At(c, "coding")
    /\ codes' = {k \in codes : k[1] # req[c].user} \cup {<<req[c].user, req[c].offer>>}
    /\ Finish(c)
    /\ UNCHANGED <<account, sessions, actors, boot, histories>>

CompleteEnrolment(c, u) ==
    /\ At(c, "idle")
    /\ \E kind \in {"limited", "full"} : <<u, kind>> \in sessions
    /\ account[u] # None
    /\ account[u].totp # None
    /\ Start(c, "enabling", u, [account[u] EXCEPT !.state = "active"], None)
    /\ UNCHANGED <<tables, actors, boot, histories>>

ChangePassword(c, u) ==
    /\ At(c, "idle")
    /\ SignedIn(u)
    /\ account[u] # None
    /\ Start(c, "changing", u, account[u], None)
    /\ UNCHANGED <<tables, actors, boot, histories>>

\* The write of whatever was read, and what the operation does next.
Write(c) ==
    /\ \E stage \in {"stamping", "issuing", "enabling", "changing"} : At(c, stage)
    /\ account' = Updated(req[c].user, req[c].copy)
    /\ CASE req[c].stage = "issuing" -> Enter(c, "coding")
         [] req[c].stage = "changing" -> Finish(c)
         [] OTHER -> Enter(c, "opening")
    /\ UNCHANGED <<codes, sessions, actors, boot, histories>>

\* reset-admin, from a process of its own: what it writes does not depend on
\* what it read, so its read and its write are one step.  The model has
\* nobody run it while the hub starts.
ResetUser(u) ==
    /\ boot.stage # "adopting"
    /\ account[u] # None
    /\ account' = [account EXCEPT ![u] = Fresh]
    /\ UNCHANGED <<codes, sessions, actors, boot, req, histories>>

----------------------------------------------------------------------------
(* Inviting and removing operators.                                        *)

CreateHuman(c, n) ==
    /\ At(c, "idle")
    /\ AnOperator
    /\ actors[n] = None
    /\ Start(c, "inviting", n, None, None)
    /\ UNCHANGED <<tables, actors, boot, histories>>

\* A username in use ends the request, by add_operator's own check or by the
\* table's primary key.
AddOperator(c) ==
    LET n == req[c].user IN
    /\ At(c, "inviting")
    /\ IF account[n] = None
       THEN account' = [account EXCEPT ![n] = Fresh] /\ Enter(c, "claiming")
       ELSE Finish(c) /\ UNCHANGED account
    /\ UNCHANGED <<codes, sessions, actors, boot, histories>>

\* Mutant: the loser of the race for the name keeps the account.
ClaimLost(c) == Finish(c)

ClaimUndone(c) == Enter(c, "undoing")

ClaimName(c) ==
    LET n == req[c].user IN
    /\ At(c, "claiming")
    /\ IF actors[n] = None
       THEN actors' = [actors EXCEPT ![n] = "person"] /\ Finish(c)
       ELSE ClaimUndone(c) /\ UNCHANGED actors
    /\ UNCHANGED <<tables, boot, histories>>

Others(u) == Holders \ {u}

\* remove_operator's look: for an operator, and to undo an invitation.  The
\* last account is not removed.
RemoveLook(c, u) ==
    /\ At(c, "idle")
    /\ AnOperator
    /\ Others(u) # {}
    /\ Start(c, "removing", u, None, None)
    /\ UNCHANGED <<tables, actors, boot, histories>>

UndoLook(c) ==
    LET u == req[c].user IN
    /\ At(c, "undoing")
    /\ IF Others(u) # {}
       THEN Enter(c, "withdrawing") /\ UNCHANGED half
       ELSE Finish(c) /\ half' = half \cup {u}
    /\ UNCHANGED <<tables, actors, boot, offered, admitted>>

RemoveUser(c) ==
    /\ \E stage \in {"removing", "withdrawing"} : At(c, stage)
    /\ Deleted(req[c].user)
    /\ half' = half \ {req[c].user}
    /\ Finish(c)
    /\ UNCHANGED <<actors, boot, offered, admitted>>

\* A request that fails at its next call: the store is busy, or its client
\* has gone.
Abandon(c) ==
    /\ Serving
    /\ req[c].stage # "idle"
    /\ half' = IF req[c].stage \in {"claiming", "undoing", "withdrawing"}
               THEN half \cup {req[c].user} ELSE half
    /\ Finish(c)
    /\ UNCHANGED <<tables, actors, boot, offered, admitted>>

\* An agent takes a name; the hub's own is reserved.
Join(n) ==
    /\ Serving
    /\ n # Admin
    /\ actors[n] = None
    /\ actors' = [actors EXCEPT ![n] = "agent"]
    /\ UNCHANGED <<tables, boot, req, histories>>

----------------------------------------------------------------------------
(* Startup.                                                                *)

\* The residents are installed; then adopt_existing lists the accounts.
OpenHouse ==
    /\ boot.stage = "down"
    /\ actors' = [actors EXCEPT ![Admin] = IF @ = None THEN "service" ELSE @]
    /\ boot' = [stage |-> "adopting", todo |-> Holders, moved |-> None]
    /\ UNCHANGED <<tables, req, histories>>

Adopting(u) == boot.stage = "adopting" /\ boot.moved = None /\ u \in boot.todo

\* The name is claimed for a person, or whoever holds it is promoted.
Adopt(n) ==
    /\ Adopting(n)
    /\ n \in Names
    /\ actors' = [actors EXCEPT ![n] = "person"]
    /\ boot' = [boot EXCEPT !.todo = @ \ {n}]
    /\ UNCHANGED <<tables, req, histories>>

Collides(u) == actors[Usable[u]] # None \/ account[Usable[u]] # None

LeaveColliding(u) ==
    /\ Adopting(u)
    /\ u \in Legacy
    /\ Collides(u)
    /\ boot' = [boot EXCEPT !.todo = @ \ {u}]
    /\ UNCHANGED <<tables, actors, req, histories>>

\* Mutant: the old account goes first.
MoveOldFirst(u) ==
    /\ Deleted(u)
    /\ boot' = [boot EXCEPT !.moved = u]

MoveNewFirst(u) ==
    /\ account' = [account EXCEPT ![Usable[u]] = account[u]]
    /\ boot' = [boot EXCEPT !.moved = u]
    /\ UNCHANGED <<codes, sessions>>

\* _rename, first half.
MoveCopy(u) ==
    /\ Adopting(u)
    /\ u \in Legacy
    /\ ~ Collides(u)
    /\ MoveNewFirst(u)
    /\ UNCHANGED <<actors, req, histories>>

\* Its second half; the new name is claimed next.
MoveDrop ==
    /\ boot.stage = "adopting"
    /\ boot.moved # None
    /\ Deleted(boot.moved)
    /\ boot' = [boot EXCEPT !.moved = None,
                            !.todo = (@ \ {boot.moved}) \cup {Usable[boot.moved]}]
    /\ UNCHANGED <<actors, req, histories>>

\* bootstrap_admin, after the table was emptied when the hub was started with
\* --reset-user-table.  A waiting admin's new password is no change here.
BootstrapAdmin(wipe) ==
    LET kept == [u \in Usernames |-> IF wipe THEN None ELSE account[u]]
        seeded == \A u \in Usernames : kept[u] = None
    IN
    /\ boot.stage = "adopting" /\ boot.moved = None /\ boot.todo = {}
    /\ account' = IF seeded THEN [kept EXCEPT ![Admin] = Fresh] ELSE kept
    /\ codes' = IF wipe THEN {} ELSE codes
    /\ sessions' = IF wipe THEN {} ELSE sessions
    /\ boot' = [boot EXCEPT !.stage = "serving"]
    /\ UNCHANGED <<actors, req, histories>>

Crash ==
    /\ boot.stage # "down"
    /\ boot' = [stage |-> "down", todo |-> {}, moved |-> None]
    /\ req' = [c \in Clients |-> Idle]
    /\ half' = {}
    /\ UNCHANGED <<tables, actors, offered, admitted>>

----------------------------------------------------------------------------
SigningIn(c) ==
    \/ \E u \in Usernames, o \in Offers : LoginLook(c, u, o)
    \/ LoginOverride(c)
    \/ LoginSpend(c)
    \/ OpenSession(c)

Enrolling(c) ==
    \/ \E u \in Usernames, o \in Offers : BeginEnrolment(c, u, o)
    \/ \E u \in Usernames : CompleteEnrolment(c, u) \/ ChangePassword(c, u)
    \/ AddRecoveryCodes(c)
    \/ Write(c)

Managing(c) ==
    \/ \E n \in Names : CreateHuman(c, n)
    \/ AddOperator(c)
    \/ ClaimName(c)
    \/ \E u \in Usernames : RemoveLook(c, u)
    \/ UndoLook(c)
    \/ RemoveUser(c)

Starting ==
    \/ OpenHouse
    \/ \E n \in Names : Adopt(n)
    \/ \E u \in Legacy : LeaveColliding(u) \/ MoveCopy(u)
    \/ MoveDrop
    \/ \E wipe \in BOOLEAN : BootstrapAdmin(wipe)

Next ==
    \/ \E c \in Clients : SigningIn(c) \/ Enrolling(c) \/ Managing(c) \/ Abandon(c)
    \/ \E s \in sessions : EndSession(s)
    \/ \E u \in Usernames : ResetUser(u)
    \/ \E n \in Names : Join(n)
    \/ Starting
    \/ Crash

Spec == Init /\ [][Next]_vars

----------------------------------------------------------------------------
\* An account that is set up has an authenticator, whatever rows the writes of
\* login, enrolment, rotation and reset carried from before their awaits: a
\* login of an active account demands a code it can produce.
Enrolled(row) == row.state = "active" => row.totp # None
ActiveHasAuthenticator == \A u \in Holders : Enrolled(account[u])

\* A recovery code lets one login in, however many present it at once and
\* whatever was rotated or renamed meanwhile (spend_recovery_code).
CodeAdmitsOnce == \A o \in Offers : admitted[o] <= 1

\* While the hub serves, an account whose name can have a mailbox has one, and
\* it is no agent's -- unless its invitation is still under way, or broke off
\* where the code cannot undo it (create_human, adopt_existing).
Unfinished ==
    {req[c].user : c \in {d \in Clients :
        req[d].stage \in {"claiming", "undoing", "withdrawing"}}}
HumanHasMailbox ==
    Serving => \A n \in Names \cap Holders :
        actors[n] \in {"person", "service"} \/ n \in Unfinished \cup half

\* A removed operator is not brought back by the late write of a login, an
\* enrolment or a password change: an account that appears while the hub
\* serves is an invitation (put_user, remove_user).
RemovedStaysGone ==
    [][Serving => \A u \in Usernames :
        account[u] = None => account'[u] \in {None, Fresh}]_vars

\* Renaming accounts at startup loses nobody, at whichever step it is cut
\* off: every row survives under some name (_rename).
RenameLosesNobody ==
    [][boot.stage = "adopting" /\ boot'.stage # "serving" =>
        \A u \in Holders : \E v \in Usernames : account'[v] = account[u]]_vars

\* What service.py says of removal: nobody can empty the list of operators of
\* a hub that serves.
SomebodyCanSignIn == Serving => Holders # {}
=============================================================================
