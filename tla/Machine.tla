------------------------------ MODULE Machine ------------------------------
(***************************************************************************)
(* What runs on a person's machine, side by side: the commands that write  *)
(* its configuration files, which the module extends, the installers of    *)
(* wake hooks, and the console with a browser.  A behaviour is one of the  *)
(* part it begins with, and the variables of the others stay as they are.  *)
(***************************************************************************)
EXTENDS ProjectConfig, FiniteSets, Sequences

CONSTANTS
    Off,                         \* what a variable of another part holds
    Torn, Installers, Files, SharedFiles, Hidden, HookEvents, Others, Runs, Edits,
    Host, Anyone, People, Parties, Deployments, Views, Sids, Clicks, Failures

VARIABLES
    part,
    hookFile, tmp, gitignore, inGit, op, runs, edits, wanted, crossed,
    setup, sessions, joined, cookie, page, request, next, posted, marked, gone,
    faults, lost

Installing == INSTANCE Hooks WITH
    file <- hookFile, tracked <- inGit, Shared <- SharedFiles, Events <- HookEvents

\* Host: the console's own name.
Browser == INSTANCE Console WITH Console <- Host

\* What the parts assume of their constants, which each module states.
ASSUME MachineConstants == Installing!HooksConstants /\ Browser!ConsoleConstants

-----------------------------------------------------------------------------
installing == <<hookFile, tmp, gitignore, inGit, op, runs, edits, wanted, crossed>>
browser == <<setup, sessions, joined, cookie, page, request, next, posted, marked,
             gone, faults, lost>>

NoHooks ==
    /\ hookFile = Off /\ tmp = Off /\ gitignore = Off /\ inGit = Off /\ op = Off
    /\ runs = Off /\ edits = Off /\ wanted = Off /\ crossed = Off

NoBrowser ==
    /\ setup = Off /\ sessions = Off /\ joined = Off /\ cookie = Off /\ page = Off
    /\ request = Off /\ next = Off /\ posted = Off /\ marked = Off /\ gone = Off
    /\ faults = Off /\ lost = Off

\* No configuration file yet.
Fresh == Init /\ file = [n \in Names |-> None] /\ machine.hub = None

MachineInit ==
    \/ part = "config" /\ Init /\ NoHooks /\ NoBrowser
    \/ part = "hooks" /\ Fresh /\ Installing!Init /\ NoBrowser
    \/ part = "browser" /\ Fresh /\ NoHooks /\ Browser!Init

MachineNext ==
    \/ part = "config" /\ Next /\ UNCHANGED <<part, installing, browser>>
    \/ part = "hooks" /\ Installing!Next /\ UNCHANGED <<part, vars, browser>>
    \/ part = "browser" /\ Browser!Next /\ UNCHANGED <<part, vars, installing>>

machineVars == <<part, vars, installing, browser>>

MachineSpec ==
    /\ MachineInit /\ [][MachineNext]_machineVars
    /\ \A w \in Processes : WF_vars(part = "config" /\ Step(w))

-----------------------------------------------------------------------------
(* The properties of the parts, each over the behaviours of its part; those *)
(* of the configuration files are as their module states them.              *)

\* Hook files survive installers of whatever version, killed at any step
\* (hookconfig.apply, strip, _write).
HooksSurvive == part = "hooks" => Installing!HooksSurvive

\* A reply submitted once is stored at most once, unless the answer to it was lost;
\* on a hub that enforces, without the console's shared token, it is from the human
\* whose session it came with (the console's message_reply, acting_for).
OneClickOneReply == part = "browser" => Browser!OneClickOneReply
=============================================================================
