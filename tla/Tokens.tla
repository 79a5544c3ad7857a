------------------------------- MODULE Tokens -------------------------------
(***************************************************************************)
(* Device tokens: who a request acts as, and the record of whom a token    *)
(* has let in.  A token admits a machine; an agent that holds a shared one *)
(* says in a header who it is.  Admissions are recorded at most once per   *)
(* token, agent and minute: the process notes the minute first, then       *)
(* writes the rows, and requests run at once.  An operator's page lists,   *)
(* token by token, whom each has let in, and is what one revokes by.       *)
(***************************************************************************)
EXTENDS Naturals, FiniteSets

CONSTANTS
    None,
    Agents,      \* names an agent may claim
    People,      \* operators that may be signed in
    Shared,      \* the actor of a token that names no one
    Issue,       \* the tokens there may be: id |-> [actor, kind, expires]
    AuthMode,    \* "warn" or "enforce"
    Presented,   \* the credentials that requests come with
    Requests,    \* requests at work at once (bound)
    Horizon,     \* minutes (bound)
    Restarts     \* restarts of the hub (bound)

Ids == DOMAIN Issue
Actor(t) == Issue[t].actor

\* Assumed of the constants; each instance is checked against it.
TokensConstants ==
    /\ None \notin Agents \cup People \cup {Shared} /\ Shared \notin Agents
    /\ \A t \in Ids :
         /\ Actor(t) \in Agents \cup {Shared}
         /\ Issue[t].kind \in {"agent", "bound", "ui"}
         /\ Issue[t].expires \in Nat \cup {None}
    /\ AuthMode \in {"warn", "enforce"} /\ Horizon \in Nat
    /\ Presented \subseteq [token : Ids \cup {None}, claim : Agents \cup {None},
                            session : People \cup {None}]

VARIABLES
    row,       \* each token's row: "none", "good" or "revoked"
    uses,      \* the rows of auth_token_use: minutes counted, 0 for no row
    used,      \* the tokens with a last_used
    page,      \* what an operator has asked for, and was told so far
    admitted,  \* the process's note of what it recorded this minute
    clock,     \* the minute
    request,   \* what is at work: its credentials and how far it is
    restarts,
    let,       \* history: the agents served on a token
    lost       \* history: the agents on a token whose row was not written

tokens == <<row, uses, used>>
vars == <<tokens, page, admitted, clock, request, restarts, let, lost>>

Bucket == [token : Ids, actor : Agents, minute : 0..Horizon]
Pairs == Ids \X Agents

Stages == {"arrived", "resolved", "recording", "touching", "identified"}
Request == [with : [token : Ids \cup {None}, claim : Agents \cup {None},
                    session : People \cup {None}],
             stage : Stages, bucket : Bucket \cup {None}]
Free == [stage |-> "free"]

\* of: the tokens a page is about; left: those whose uses are still to be read;
\* owed: the agents that they had let in when it was asked for, not named yet.
Page == [at : {"list", "revoke", "revoked"}, of : SUBSET Ids,
         left : SUBSET Ids, owed : SUBSET Pairs]
NoPage == [at |-> "none", of |-> {}, left |-> {}, owed |-> {}]

TypeOK ==
    /\ row \in [Ids -> {"none", "good", "revoked"}]
    /\ uses \in [Pairs -> Nat] /\ used \subseteq Ids /\ page \in Page \cup {NoPage}
    /\ admitted \subseteq Bucket /\ clock \in 0..Horizon
    /\ request \in [Requests -> Request \cup {Free}]
    /\ restarts \in 0..Restarts
    /\ let \subseteq Pairs /\ lost \subseteq Pairs

Init ==
    /\ row = [t \in Ids |-> "none"]
    /\ uses = [p \in Pairs |-> 0] /\ used = {} /\ page = NoPage
    /\ admitted = {} /\ clock = 0 /\ restarts = 0
    /\ request = [r \in Requests |-> Free]
    /\ let = {} /\ lost = {}

-----------------------------------------------------------------------------
(* Tokens *)

\* The form of the console's page: a label, and the secret shown once.
MintToken(t) ==
    /\ row[t] = "none" /\ row' = [row EXCEPT ![t] = "good"]
    /\ UNCHANGED <<uses, used, page, admitted, clock, request, restarts, let, lost>>

\* The agents a token has let in, unless their row is being written or its
\* write failed.
Pair(b) == <<b.token, b.actor>>
Recording == {Pair(request[r].bucket) :
                r \in {q \in Requests : request[q].stage = "recording"}}
Owed(ts) == {p \in let : p[1] \in ts} \ (lost \cup Recording)

UsesFor(t) == {p \in Pairs : p[1] = t /\ uses[p] > 0}

Ask(at, ts) ==
    /\ page = NoPage
    /\ page' = [at |-> at, of |-> ts, left |-> ts, owed |-> Owed(ts)]
    /\ UNCHANGED <<tokens, admitted, clock, request, restarts, let, lost>>

\* list_tokens: every token, then the uses of one after the other.
ListTokens == Ask("list", {t \in Ids : row[t] # "none"})

\* revoke_token: the uses first.
RevokeToken(t) == row[t] # "none" /\ Ask("revoke", {t})

TokenUses(t) ==
    /\ t \in page.left
    /\ page' = [page EXCEPT !.left = @ \ {t}, !.owed = @ \ UsesFor(t)]
    /\ UNCHANGED <<tokens, admitted, clock, request, restarts, let, lost>>

\* ... then the row.  A revoked one stays so, and its uses are said again.
Revoke ==
    /\ page.at = "revoke" /\ page.left = {}
    /\ row' = [t \in Ids |-> IF t \in page.of THEN "revoked" ELSE row[t]]
    /\ page' = [page EXCEPT !.at = "revoked"]
    /\ UNCHANGED <<uses, used, admitted, clock, request, restarts, let, lost>>

\* The page is rendered, and left.
Rendered == page.left = {} /\ page.at \in {"list", "revoked"}
Close ==
    /\ Rendered /\ page' = NoPage
    /\ UNCHANGED <<tokens, admitted, clock, request, restarts, let, lost>>

HasExpired(t) == Issue[t].expires # None /\ clock >= Issue[t].expires

MayAct(t) == Issue[t].kind # "ui"

-----------------------------------------------------------------------------
(* A request with its credentials *)

Become(r, new) == request' = [request EXCEPT ![r] = new]

Arrive(r) ==
    /\ request[r] = Free
    /\ \E c \in Presented :
         /\ c.token # None => row[c.token] # "none"
         /\ Become(r, [with |-> c, stage |-> "arrived", bucket |-> None])
    /\ UNCHANGED <<tokens, page, admitted, clock, restarts, let, lost>>

\* resolve_token: refused when revoked or past its time, put aside when it
\* may not act.
ResolveToken(r) ==
    /\ request[r].stage = "arrived"
    /\ LET t == request[r].with.token
       IN  IF t = None \/ row[t] = "none"
           THEN Become(r, [request[r] EXCEPT !.stage = "identified",
                                             !.with.token = None])
           ELSE IF row[t] = "revoked" \/ HasExpired(t) THEN Become(r, Free)
           ELSE IF MayAct(t)
           THEN Become(r, [request[r] EXCEPT !.stage = "resolved"])
           ELSE Become(r, [request[r] EXCEPT !.stage = "identified",
                                             !.with.token = None])
    /\ UNCHANGED <<tokens, page, admitted, clock, restarts, let, lost>>

\* The name recorded is the one the hub will go by, not the one claimed.
\* Mutant: the claim is recorded, a bound token's too.
AdmittedAsClaimed(c) == c.claim
Admitted(c) == IF Actor(c.token) = Shared THEN c.claim ELSE Actor(c.token)

\* admit, until its first write.
Admit(r) ==
    /\ request[r].stage = "resolved"
    /\ LET who == Admitted(request[r].with)
           b == [token |-> request[r].with.token, actor |-> who, minute |-> clock]
       IN  IF who = None
           THEN /\ Become(r, [request[r] EXCEPT !.stage = "identified"])
                /\ UNCHANGED admitted
           ELSE IF b \in admitted
           THEN /\ Become(r, [request[r] EXCEPT !.stage = "identified",
                                                !.bucket = b])
                /\ UNCHANGED admitted
           ELSE /\ Become(r, [request[r] EXCEPT !.stage = "recording",
                                                !.bucket = b])
                /\ admitted' = {a \in admitted : a.minute = clock} \cup {b}
    /\ UNCHANGED <<tokens, page, clock, restarts, let, lost>>

RecordUse(r) ==
    /\ request[r].stage = "recording"
    /\ LET b == request[r].bucket
       IN  uses' = [uses EXCEPT ![Pair(b)] = @ + 1]
    /\ Become(r, [request[r] EXCEPT !.stage = "touching"])
    /\ UNCHANGED <<row, used, page, admitted, clock, restarts, let, lost>>

\* admit, to its end: last_used is written after the use.
TouchToken(r) ==
    /\ request[r].stage = "touching"
    /\ used' = used \cup {request[r].bucket.token}
    /\ Become(r, [request[r] EXCEPT !.stage = "identified"])
    /\ UNCHANGED <<row, uses, page, admitted, clock, restarts, let, lost>>

\* A write raises, or the caller hangs up; the request ends with it.
RecordFails(r) ==
    /\ request[r].stage \in {"recording", "touching"}
    /\ lost' = IF request[r].stage = "recording"
               THEN lost \cup {Pair(request[r].bucket)} ELSE lost
    /\ Become(r, Free)
    /\ UNCHANGED <<tokens, page, admitted, clock, restarts, let>>

\* provide_caller: whom the request acts as, or None when it is refused.
Caller(c) ==
    IF c.token # None /\ Actor(c.token) # Shared THEN Actor(c.token)
    ELSE IF c.session # None THEN c.session
    ELSE IF c.token # None \/ AuthMode = "warn" THEN c.claim
    ELSE None

\* A session counts for more than a token that names no one.
OnToken(c) == c.token # None /\ (Actor(c.token) # Shared \/ c.session = None)

Serve(r) ==
    /\ request[r].stage = "identified"
    /\ LET c == request[r].with
       IN  let' = IF OnToken(c) /\ Caller(c) \in Agents
                  THEN let \cup {<<c.token, Caller(c)>>} ELSE let
    /\ Become(r, Free)
    /\ UNCHANGED <<tokens, page, admitted, clock, restarts, lost>>

Tick ==
    /\ clock < Horizon /\ clock' = clock + 1
    /\ UNCHANGED <<tokens, page, admitted, request, restarts, let, lost>>

Restart ==
    /\ restarts < Restarts /\ restarts' = restarts + 1
    /\ admitted' = {}
    /\ lost' = lost \cup Recording
    /\ request' = [r \in Requests |-> Free]
    /\ page' = IF Rendered THEN page ELSE NoPage
    /\ UNCHANGED <<tokens, clock, let>>

Next ==
    \/ \E t \in Ids : MintToken(t) \/ RevokeToken(t) \/ TokenUses(t)
    \/ ListTokens \/ Revoke \/ Close
    \/ \E r \in Requests :
         Arrive(r) \/ ResolveToken(r) \/ Admit(r) \/ RecordUse(r)
           \/ TouchToken(r) \/ RecordFails(r) \/ Serve(r)
    \/ Tick \/ Restart

Spec == Init /\ [][Next]_vars

-----------------------------------------------------------------------------
(* What an operator revokes by: every agent a token has let in is on its   *)
(* list, under the name the hub served, and a page that was asked for      *)
(* since names it, unless a write of it is under way or failed: a failed   *)
(* one is not tried again in that minute.  A token with a date of last use *)
(* has somebody on its list.                                               *)
AdmittedIsKnown ==
    /\ \A p \in let : uses[p] > 0 \/ p \in lost \cup Recording
    /\ \A t \in used : UsesFor(t) # {}
    /\ Rendered => page.owed = {}

(* "uses" counts minutes, however many requests come at once; a restart    *)
(* may count a minute again.                                               *)
CountsMinutes ==
    \A p \in Pairs : uses[p] <= clock + 1 + restarts
=============================================================================
