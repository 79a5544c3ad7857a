--------------------------- MODULE ProjectConfig ---------------------------
(***************************************************************************)
(* The two configuration files of a machine and the commands that write    *)
(* them: one project's agent-inbox.toml (or agent-mailbox.toml, its legacy *)
(* name), with the hub the project pins and one entry per engine, and the  *)
(* machine-wide config.toml, with a hub and a shared token.  Commands run  *)
(* as processes of their own.  Each reads a file, changes its copy and     *)
(* replaces the file, under a lock file (locking.exclusive): the project's *)
(* lock first, and the machine's inside it where a join needs both.        *)
(*                                                                         *)
(* A token is known by the hub that minted it.  Names and roles are not    *)
(* told apart, nor the two spellings of an engine's key.  A process may    *)
(* die at any step.  A lock's age matters only against STALE_AFTER, which  *)
(* no live writer spends inside: its section takes microseconds.  Reading  *)
(* one's own lock and unlinking it are one step.                           *)
(***************************************************************************)
EXTENDS Naturals, FiniteSets

CONSTANTS
    None,
    Hubs,
    Engines,
    Processes,
    Commands,     \* what the processes may be asked to do, a set of Command
    Turns,        \* commands per process (bound)
    Crashes,      \* processes that may die (bound)
    UnlinkFails   \* whether releasing a lock may fail (OSError)

Locks == {"project", "machine"}
Names == {"current", "legacy"}
Kinds == {"join", "tool", "set", "unset", "decline", "ask",
          "set machine", "unset machine"}
Joins == {"join", "tool"}

\* hub: the hub named, or None; token: whether a token is given (join) or is
\* the setting that is set or unset (the others); force: join's replace flag.
Command == [kind : Kinds, engine : Engines, hub : Hubs \cup {None},
            token : BOOLEAN, force : BOOLEAN]

Entry == [token : Hubs \cup {None}, off : BOOLEAN]
Content == [hub : Hubs \cup {None}, agents : [Engines -> Entry \cup {None}]]
Machine == [hub : Hubs \cup {None}, token : Hubs \cup {None}]
LockFile == [owner : Processes, turn : 1..Turns, said : BOOLEAN, old : BOOLEAN]

ASSUME ConfigConstants ==
    /\ None \notin Hubs \cup Commands \cup LockFile \cup Entry \cup Content
    /\ Commands \subseteq Command
    /\ Turns \in Nat /\ Crashes \in Nat /\ UnlinkFails \in BOOLEAN

Stages == {"idle", "take", "sweep", "sign", "read", "render", "tidy", "leave",
           "read machine", "write machine", "leave machine", "decide",
           "install", "dead"}

VARIABLES
    file,       \* the project file under each of its names, or None
    tracked,    \* whether git tracks the legacy file
    machine,    \* config.toml
    hooks,      \* the engines whose wake hooks are installed
    lock,       \* each lock file, or None
    proc,       \* what each process is doing
    raced,      \* history: locks a reclaim took from a holder it never judged
    recorded    \* history: engines some finished write has given an entry

vars == <<file, tracked, machine, hooks, lock, proc, raced, recorded>>

Process == [at : Stages, turn : 0..Turns, cmd : Command \cup {None},
            hub : Hubs \cup {None}, wants : Locks, ok : BOOLEAN,
            judged : (Processes \X (1..Turns)) \cup {None},
            copy : Content \cup Machine \cup {None},
            target : Names]
Unused == [at |-> "idle", turn |-> 0, cmd |-> None, hub |-> None,
           wants |-> "project", ok |-> TRUE, judged |-> None, copy |-> None,
           target |-> "current"]

Blank == [hub |-> None, agents |-> [e \in Engines |-> None]]
NoEntry == [token |-> None, off |-> FALSE]

\* find_config and reading what it finds: the current name before the legacy.
Found == IF file["current"] # None THEN "current"
         ELSE IF file["legacy"] # None THEN "legacy" ELSE "current"
InForce == IF file[Found] = None THEN Blank ELSE file[Found]

\* load_hub: the project's hub, or the machine's.
LoadHub == IF InForce.hub # None THEN InForce.hub ELSE machine.hub

\* wake_declined.
WakeDeclined(e) == InForce.agents[e] # None /\ InForce.agents[e].off

\* Inside the block a lock protects.
Inside(p, l) ==
    \/ l = "project" /\ proc[p].at \in {"read", "render", "tidy", "leave"}
    \/ l = "machine" /\ proc[p].at \in {"read machine", "write machine", "leave machine"}
    \/ /\ l = "project"   \* a join that is after the machine's lock
       /\ proc[p].cmd # None /\ proc[p].cmd.kind \in Joins
       /\ proc[p].wants = "machine"
       /\ proc[p].at \in {"take", "sweep", "sign", "read machine",
                          "write machine", "leave machine"}

Alive(p) == proc[p].at # "dead"
Id(k) == <<k.owner, k.turn>>

\* Mutant: an empty lock is debris of a crash, whatever its age.
AbandonedWhenEmpty(k) == IF k.said THEN ~Alive(k.owner) \/ k.old ELSE TRUE

\* _abandoned: a lock that names its holder is judged by whether the holder
\* lives and by age; one that says nothing yet, by age alone.
Abandoned(k) == IF k.said THEN ~Alive(k.owner) \/ k.old ELSE k.old

-----------------------------------------------------------------------------
TypeOK ==
    /\ file \in [Names -> Content \cup {None}]
    /\ tracked \in BOOLEAN
    /\ machine \in Machine
    /\ hooks \subseteq Engines
    /\ lock \in [Locks -> LockFile \cup {None}]
    /\ proc \in [Processes -> Process]
    /\ raced \subseteq Locks
    /\ recorded \subseteq Engines

\* A fresh project, or one from before the rename; a machine with or without
\* a hub somebody chose.
Init ==
    /\ tracked \in BOOLEAN
    /\ \/ file = [n \in Names |-> None] /\ ~tracked
       \/ \E e \in Engines : file = [current |-> None,
              legacy |-> [Blank EXCEPT !.agents[e] = NoEntry]]
    /\ machine \in [hub : Hubs \cup {None}, token : {None}]
    /\ hooks = {}
    /\ lock = [l \in Locks |-> None]
    /\ proc = [p \in Processes |-> Unused]
    /\ raced = {}
    /\ recorded = {e \in Engines : InForce.agents[e] # None}

Goto(p, stage) == proc' = [proc EXCEPT ![p].at = stage]
files == <<file, tracked, machine, hooks, recorded>>

-----------------------------------------------------------------------------
(* Commands *)

\* A command begins: where, with which hub, and with which lock to take first.
Run(p, c, stage, hub, first) ==
    /\ proc' = [proc EXCEPT ![p] = [Unused EXCEPT
           !.at = stage, !.turn = proc[p].turn + 1, !.cmd = c,
           !.hub = hub, !.wants = first]]
    /\ UNCHANGED <<file, tracked, machine, lock, raced, recorded>>

Url(c) == IF c.hub # None THEN c.hub ELSE LoadHub

\* A join needs a hub, and claims its name there before it writes anything (the
\* hub may refuse, and then nothing is done here).
Join(p, c) ==
    /\ c.kind = "join" /\ Url(c) # None
    /\ Run(p, c, "take", Url(c), "project")
    /\ UNCHANGED hooks

\* The MCP tool: an engine that is configured stays with the hub it has.
JoinTool(p, c) ==
    LET url == IF InForce.agents[c.engine] # None /\ LoadHub # None THEN LoadHub
               ELSE Url(c) IN
    /\ c.kind = "tool" /\ url # None
    /\ Run(p, c, "take", url, "project")
    /\ UNCHANGED hooks

\* A setting goes to the file it belongs in.
ConfigSet(p, c) ==
    /\ c.kind \in {"set", "set machine"}
    /\ Run(p, c, "take", c.hub, IF c.kind = "set" THEN "project" ELSE "machine")
    /\ UNCHANGED hooks

ConfigUnset(p, c) ==
    /\ c.kind \in {"unset", "unset machine"}
    /\ Run(p, c, "take", None, IF c.kind = "unset" THEN "project" ELSE "machine")
    /\ UNCHANGED hooks

\* Every harness's hooks go, then the refusal is recorded.
UninstallHook(p, c) ==
    /\ c.kind = "decline"
    /\ Run(p, c, "take", None, "project")
    /\ hooks' = {}

\* The file is written only to clear a refusal, and only then locked.
InstallHook(p, c) ==
    /\ c.kind = "ask"
    /\ Run(p, c, IF WakeDeclined(c.engine) THEN "take" ELSE "install", None, "project")
    /\ UNCHANGED hooks

Begin(p) ==
    /\ proc[p].at = "idle" /\ proc[p].turn < Turns
    /\ \E c \in Commands :
          \/ Join(p, c) \/ JoinTool(p, c) \/ ConfigSet(p, c) \/ ConfigUnset(p, c)
          \/ UninstallHook(p, c) \/ InstallHook(p, c)

\* _install_wake_hook, after a join: ask wake_declined, then write the hooks.
Decide(p) ==
    /\ proc[p].at = "decide"
    /\ Goto(p, IF WakeDeclined(proc[p].cmd.engine) THEN "idle" ELSE "install")
    /\ UNCHANGED <<files, lock, raced>>

\* hookconfig.install_for; a harness without hooks, or a failed write, is no
\* error of the command.
Install(p) ==
    /\ proc[p].at = "install"
    /\ hooks' \in {hooks, hooks \cup {proc[p].cmd.engine}}
    /\ Goto(p, "idle")
    /\ UNCHANGED <<file, tracked, machine, lock, raced, recorded>>

-----------------------------------------------------------------------------
(* exclusive *)

Take(p) ==
    LET l == proc[p].wants IN
    /\ proc[p].at = "take" /\ lock[l] = None
    /\ lock' = [lock EXCEPT ![l] = [owner |-> p, turn |-> proc[p].turn,
                                    said |-> FALSE, old |-> FALSE]]
    /\ Goto(p, "sign")
    /\ UNCHANGED <<files, raced>>

\* The claim is written through the open file: a lock unlinked meanwhile
\* says nothing to anybody.
Sign(p) ==
    LET l == proc[p].wants IN
    /\ proc[p].at = "sign"
    /\ lock' = IF lock[l] # None /\ Id(lock[l]) = <<p, proc[p].turn>>
               THEN [lock EXCEPT ![l].said = TRUE] ELSE lock
    /\ Goto(p, IF l = "project" THEN "read" ELSE "read machine")
    /\ UNCHANGED <<files, raced>>

Judge(p) ==
    LET k == lock[proc[p].wants] IN
    /\ proc[p].at = "take" /\ k # None /\ Abandoned(k)
    /\ proc' = [proc EXCEPT ![p].at = "sweep", ![p].judged = Id(k)]
    /\ UNCHANGED <<files, lock, raced>>

\* The unlink removes whatever lock is there by now.
Sweep(p) ==
    LET l == proc[p].wants IN
    /\ proc[p].at = "sweep"
    /\ raced' = IF lock[l] # None /\ Id(lock[l]) # proc[p].judged
                THEN raced \cup {l} ELSE raced
    /\ lock' = [lock EXCEPT ![l] = None]
    /\ proc' = [proc EXCEPT ![p].at = "take", ![p].judged = None]
    /\ UNCHANGED files

\* Mutant: no deadline.
WaitForEver(p) == FALSE /\ UNCHANGED vars

\* LockUnavailable: the deadline passed.  A join that held the project's lock
\* lets go of it; install-hook goes on without having cleared the refusal.
GiveUp(p) ==
    LET r == proc[p] IN
    /\ r.at = "take" /\ lock[r.wants] # None
    /\ proc' = [proc EXCEPT
          ![p].at = IF r.cmd.kind = "ask" THEN "install"
                    ELSE IF Inside(p, "project") THEN "leave" ELSE "idle",
          ![p].wants = "project", ![p].ok = FALSE]
    /\ UNCHANGED <<files, lock, raced>>

\* Only the holder unlinks; the unlink may fail.
Released(p, l) ==
    \/ lock' = IF lock[l] # None /\ lock[l].said /\ lock[l].owner = p
               THEN [lock EXCEPT ![l] = None] ELSE lock
    \/ UnlinkFails /\ UNCHANGED lock

-----------------------------------------------------------------------------
(* The project file *)

\* What the command reads there that stops it, with nothing written: an entry
\* that a join may not replace, a setting to remove that is not set.
Refused(c, content) ==
    LET mine == content.agents[c.engine] IN
    \/ c.kind \in Joins /\ mine # None /\ ~c.force
    \/ c.kind = "unset" /\ ~c.token /\ content.hub = None
    \/ c.kind = "unset" /\ c.token /\ (mine = None \/ mine.token = None)
    \/ c.kind = "ask" /\ (mine = None \/ ~mine.off)

KeptToken(r, mine) ==
    IF r.cmd.token THEN r.hub
    ELSE IF mine # None THEN mine.token ELSE None

\* write_config, write_project and unset_project up to the rendering.
Edited(r, content) ==
    LET c == r.cmd
        mine == content.agents[c.engine]
        held == IF mine = None THEN NoEntry ELSE mine
        kept == KeptToken(r, mine)
        entry == CASE c.kind \in Joins -> [token |-> kept, off |-> FALSE]
                   [] c.kind = "decline" -> [held EXCEPT !.off = TRUE]
                   [] c.kind = "ask" -> [held EXCEPT !.off = FALSE]
                   [] c.kind = "set" /\ c.token -> [held EXCEPT !.token = r.hub]
                   [] c.kind = "set" /\ ~c.token -> held
                   [] c.kind = "unset" /\ c.token -> [held EXCEPT !.token = None]
                   [] OTHER -> mine
        pin == CASE c.kind \in Joins /\ content.hub = None /\ kept # None -> r.hub
                 [] c.kind = "set" /\ ~c.token -> r.hub
                 [] c.kind = "unset" /\ ~c.token -> None
                 [] OTHER -> content.hub
    IN [hub |-> pin, agents |-> [content.agents EXCEPT ![c.engine] = entry]]

\* The read under the lock, and what it decides.
Read(p) ==
    LET r == proc[p]
        nowhere == r.cmd.kind = "unset" /\ file[Found] = None
        needsMachine == /\ r.cmd.kind \in Joins /\ InForce.hub = None
                        /\ KeptToken(r, InForce.agents[r.cmd.engine]) = None
    IN
    /\ r.at = "read"
    /\ IF nowhere \/ Refused(r.cmd, InForce)
       THEN proc' = [proc EXCEPT ![p].at = "leave", ![p].ok = FALSE]
       ELSE proc' = [proc EXCEPT ![p].at = IF needsMachine THEN "take" ELSE "render",
                                 ![p].wants = IF needsMachine THEN "machine" ELSE "project",
                                 ![p].copy = Edited(r, InForce),
                                 ![p].target = Found]
    /\ UNCHANGED <<files, lock, raced>>

\* migrate_project_name: where the write lands.
Landing(name) ==
    IF name = "legacy" /\ (file["current"] # None \/ ~tracked) THEN "current" ELSE name

\* Mutant: a moved file is removed before its successor is written.
RenderTidyFirst(p) ==
    LET r == proc[p] IN
    /\ r.at = "render"
    /\ IF Landing(r.target) # r.target
       THEN /\ file' = [file EXCEPT !["legacy"] = None]
            /\ proc' = [proc EXCEPT ![p].target = "current"]
            /\ UNCHANGED recorded
       ELSE /\ file' = [file EXCEPT ![Landing(r.target)] = r.copy]
            /\ recorded' = recorded \cup {e \in Engines : r.copy.agents[e] # None}
            /\ Goto(p, "leave")
    /\ UNCHANGED <<tracked, machine, hooks, lock, raced>>

\* _render_project: the new file is renamed into place, and only then does
\* the one it moved from go (Tidy).
Render(p) ==
    LET r == proc[p] IN
    /\ r.at = "render"
    /\ file' = [file EXCEPT ![Landing(r.target)] = r.copy]
    /\ recorded' = recorded \cup {e \in Engines : r.copy.agents[e] # None}
    /\ Goto(p, IF Landing(r.target) # r.target THEN "tidy" ELSE "leave")
    /\ UNCHANGED <<tracked, machine, hooks, lock, raced>>

Tidy(p) ==
    /\ proc[p].at = "tidy"
    /\ file' = [file EXCEPT !["legacy"] = None]
    /\ Goto(p, "leave")
    /\ UNCHANGED <<tracked, machine, hooks, lock, raced, recorded>>

\* Out of the project's block, by return or by exception.
Leave(p) ==
    LET r == proc[p] IN
    /\ r.at = "leave"
    /\ Released(p, "project")
    /\ Goto(p, CASE r.cmd.kind = "join" /\ r.ok -> "decide"
                 [] r.cmd.kind = "ask" -> "install"
                 [] OTHER -> "idle")
    /\ UNCHANGED <<files, raced>>

-----------------------------------------------------------------------------
(* The machine-wide file *)

\* Mutant: a join overwrites whatever hub the machine has.
DeclinesNothing(r) ==
    r.cmd.kind = "unset machine" /\ (IF r.cmd.token THEN machine.token ELSE machine.hub) = None

\* _set_machine_hub declines to change a hub that is set to another;
\* unset_global has nothing to remove from a file without the setting.
Declines(r) ==
    \/ r.cmd.kind \in Joins /\ machine.hub \notin {None, r.hub}
    \/ r.cmd.kind = "unset machine" /\
          (IF r.cmd.token THEN machine.token ELSE machine.hub) = None

ReadMachine(p) ==
    LET r == proc[p]
        value == IF r.cmd.kind = "unset machine" THEN None ELSE r.hub
        edited == IF r.cmd.kind \notin Joins /\ r.cmd.token
                  THEN [machine EXCEPT !.token = value]
                  ELSE [machine EXCEPT !.hub = value]
    IN
    /\ r.at = "read machine"
    /\ proc' = IF Declines(r)
               THEN [proc EXCEPT ![p].at = "leave machine"]
               ELSE [proc EXCEPT ![p].at = "write machine",
                       ![p].judged = None,
                       ![p].copy = IF r.cmd.kind \in Joins THEN r.copy ELSE edited]
    /\ UNCHANGED <<files, lock, raced>>

\* _merge_global.  A join's copy is still the project's: it reads the
\* machine's file once more and merges its hub.
Merged(r) == IF r.cmd.kind \in Joins THEN [machine EXCEPT !.hub = r.hub] ELSE r.copy

WriteMachine(p) ==
    LET r == proc[p] IN
    /\ r.at = "write machine"
    /\ machine' = Merged(r)
    /\ Goto(p, "leave machine")
    /\ UNCHANGED <<file, tracked, hooks, lock, raced, recorded>>

LeaveMachine(p) ==
    LET r == proc[p] IN
    /\ r.at = "leave machine"
    /\ Released(p, "machine")
    /\ proc' = [proc EXCEPT ![p].at = IF r.cmd.kind \in Joins THEN "render" ELSE "idle",
                            ![p].wants = "project"]
    /\ UNCHANGED <<files, raced>>

-----------------------------------------------------------------------------
(* Time and failure *)

\* STALE_AFTER passes over a lock no live writer is inside of.
Age(l) ==
    /\ lock[l] # None /\ ~lock[l].old
    /\ LET p == lock[l].owner IN
       ~Alive(p) \/ proc[p].turn # lock[l].turn \/ ~(Inside(p, l) \/ proc[p].at = "sign")
    /\ lock' = [lock EXCEPT ![l].old = TRUE]
    /\ UNCHANGED <<files, proc, raced>>

Crash(p) ==
    /\ proc[p].at \notin {"idle", "dead"}
    /\ Cardinality({q \in Processes : ~Alive(q)}) < Crashes
    /\ Goto(p, "dead")
    /\ UNCHANGED <<files, lock, raced>>

Step(p) ==
    \/ Decide(p) \/ Install(p)
    \/ Take(p) \/ Sign(p) \/ Judge(p) \/ Sweep(p) \/ GiveUp(p)
    \/ Read(p) \/ Render(p) \/ Tidy(p) \/ Leave(p)
    \/ ReadMachine(p) \/ WriteMachine(p) \/ LeaveMachine(p)

\* Every process has done its turns, or died.
Rest ==
    /\ \A p \in Processes : proc[p].at = "dead" \/ (proc[p].at = "idle" /\ proc[p].turn = Turns)
    /\ UNCHANGED vars

Next ==
    \/ \E p \in Processes : Begin(p) \/ Step(p) \/ Crash(p)
    \/ \E l \in Locks : Age(l)
    \/ Rest

\* A started command runs on until it ends or dies: its steps are a program's,
\* and the wait for a lock has a deadline.
Spec == Init /\ [][Next]_vars /\ \A p \in Processes : WF_vars(Step(p))

-----------------------------------------------------------------------------
(* Properties *)

\* No two processes are between reading and replacing the same file, whoever
\* dies, however often a lock is taken back, unless a reclaim removed a lock
\* it had not judged (the window that exclusive's docstring admits).
OneWriter ==
    \A l \in Locks \ raced : \A p, q \in Processes :
        Inside(p, l) /\ Inside(q, l) => p = q

\* An engine that some finished write gave an identity keeps one in the file
\* that is in force: whatever the other engines' commands write, at every
\* step of the move from the legacy name, and wherever a writer dies.
IdentitiesKept ==
    "project" \notin raced => \A e \in recorded : InForce.agents[e] # None

\* A hub that the machine's file names is changed by whoever sets or unsets
\* it there; a join, however late, never changes one that is set, unless the
\* machine's lock was raced.
ChosenHubKept ==
    [][machine.hub \in {None, machine.hub'} \/ "machine" \in raced \/
       \E p \in Processes : proc[p].at = "write machine" /\ proc'[p].at = "leave machine"
                            /\ proc[p].cmd.kind \notin Joins]_vars

\* Commands come to an end: no chain of abandoned, half written or unreleased
\* locks makes one wait for ever, so that when no more are given there is a rest.
CommandsEnd == []<>(\A p \in Processes : proc[p].at \in {"idle", "dead"})

\* uninstall-hook says that the project "will not have them reinstalled ...,
\* including by join": a refusal on record goes by install-hook alone.
RefusalStays ==
    [][\A e \in Engines : WakeDeclined(e) /\ ~WakeDeclined(e)' /\ "project" \notin raced' =>
          \E p \in Processes : proc[p].at = "render" /\ proc'[p].at # "render"
                               /\ proc[p].cmd.kind = "ask"]_vars
=============================================================================
