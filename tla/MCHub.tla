------------------------------- MODULE MCHub -------------------------------
(***************************************************************************)
(* Small instances of the hub's smaller parts for TLC.                     *)
(***************************************************************************)
EXTENDS Hub, MCSqliteConnection, TLC

CONSTANTS
    a1, b1, h, x, y,           \* names: three of this hub's, h a human; two elsewhere
    c1, c2,                    \* clients
    m1, m2, o1,                \* messages
    s, t1, t2,                 \* a title, two tokens
    r1, r2                     \* requests

\* One client follows an agent, the other everything.
MCOwner == c1 :> a1 @@ c2 :> None

Setup(name, title, federates) ==
    "name" :> name @@ "title" :> title @@ "federation" :> federates
MCEnvironments ==
    {Setup(None, None, None), Setup(b1, None, None), Setup(None, s, "enabled")}

Issued(actor, kind, expires) == [actor |-> actor, kind |-> kind, expires |-> expires]
Credentials(token, agent, session) ==
    [token |-> token, claim |-> agent, session |-> session]

\* A token two agents share, and one that two requests of its agent come with.
MCSharedToken ==
    [issue |-> t1 :> Issued(Off, "agent", 1), requests |-> {r1},
     presented |-> {Credentials(t1, a1, None), Credentials(t1, b1, None)}]
MCBoundToken ==
    [issue |-> t2 :> Issued(a1, "bound", None), requests |-> {r1, r2},
     presented |-> {Credentials(t2, b1, None)}]

MCPolicies == <<"standing_residents", "message_limits", "audit_log", "probe_detector">>

\* A message that names its recipient once, posted up to three times, and one that
\* names it twice, each posted once.
MCRetried == [mentions |-> {"to"}, backoff |-> <<0, 1>>]
MCTwins == [mentions |-> {"to", "cc"}, backoff |-> <<>>]

\* A conversation of which a and b each see a part; ids out of order.
MCSends == {<<a1, {h}>>, <<h, {b1}>>}
MCMinting == <<2, 1, 3>>
=============================================================================
