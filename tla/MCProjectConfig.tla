-------------------------- MODULE MCProjectConfig --------------------------
(***************************************************************************)
(* An instance of ProjectConfig for TLC: two processes, two engines.       *)
(***************************************************************************)
EXTENDS ProjectConfig, TLC

CONSTANTS a, b, home, work, p1, p2

Ask(kind, engine, hub, token, force) ==
    [kind |-> kind, engine |-> engine, hub |-> hub, token |-> token, force |-> force]

\* One command of each kind that the code treats differently.
MCCommands ==
    {Ask("join", a, home, FALSE, FALSE), Ask("tool", b, home, FALSE, FALSE),
     Ask("join", a, work, TRUE, TRUE),
     Ask("set", b, work, TRUE, FALSE),
     Ask("unset", b, None, TRUE, FALSE),
     Ask("decline", a, None, FALSE, FALSE), Ask("ask", a, None, FALSE, FALSE),
     Ask("set machine", a, work, FALSE, FALSE), Ask("unset machine", a, None, FALSE, FALSE)}
=============================================================================
