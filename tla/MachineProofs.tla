---------------------------- MODULE MachineProofs -----------------------------
(***************************************************************************)
(* Proofs about the configuration files, the installers of wake hooks and  *)
(* the console's forms, for any values of the constants.  Each part has an *)
(* inductive invariant of its own; at the end each is carried over to the  *)
(* behaviours of Machine, whose steps are the part's or leave it be.  The  *)
(* configuration files come first.                                         *)
(***************************************************************************)
EXTENDS Machine, TLAPS, FiniteSetTheorems, SequenceTheorems

-----------------------------------------------------------------------------
(* The configuration files (ProjectConfig), for any hubs, engines,         *)
(* commands, processes, turns and crashes, and whether or not releasing a  *)
(* lock may fail.  The lock files exclude one another's holders by an      *)
(* argument in two parts: what one process goes through in a turn          *)
(* (claiming a lock, and being past it for good), and what the lock files  *)
(* say of that.                                                            *)

ProjectStages == {"read", "render", "tidy", "leave"}
MachineStages == {"read machine", "write machine", "leave machine"}
Locking == {"take", "sweep", "sign"}

\* A join that is about the machine's file has the project's next content.
Both(r) == r.cmd.kind \in Joins /\ r.wants = "machine" /\ r.at \in Locking \cup MachineStages

\* What a process at work has in its hands.
Working(r) ==
    /\ r.at \notin {"idle", "dead"} => r.cmd \in Commands /\ r.turn \in 1..Turns
    /\ r.at \in ProjectStages => r.wants = "project"
    /\ r.at \in MachineStages => r.wants = "machine"
    /\ r.at = "render" \/ Both(r) => r.copy \in Content
    /\ r.at = "write machine" /\ r.cmd.kind \notin Joins => r.copy \in Machine
    /\ r.at = "sweep" => r.judged \in Processes \X (1..Turns)

Inv == TypeOK /\ \A p \in Processes : Working(proc[p])

----------------------------------------------------------------------------
(* Types.                                                                  *)

LEMMA BlankTyped == Blank \in Content /\ NoEntry \in Entry
  BY DEF Blank, Content, NoEntry, Entry

LEMMA InForceTyped == ASSUME TypeOK PROVE InForce \in Content /\ Found \in Names
  BY BlankTyped DEF TypeOK, InForce, Found, Names

LEMMA UnusedTyped == Unused \in Process
  BY ConfigConstants DEF Unused, Process, Stages, Locks, Names

LEMMA InitTyped == Init => Inv
<1> SUFFICES ASSUME Init PROVE Inv
  OBVIOUS
<1>1. file \in [Names -> Content \cup {None}]
  <2>1. CASE file = [n \in Names |-> None]
    BY <2>1
  <2>2. ASSUME NEW e \in Engines, file = [current |-> None, legacy |-> [Blank EXCEPT !.agents[e] = NoEntry]]
        PROVE  file \in [Names -> Content \cup {None}]
    <3>1. [Blank EXCEPT !.agents[e] = NoEntry] \in Content
      BY BlankTyped DEF Blank, Content
    <3>2. file \in [current : Content \cup {None}, legacy : Content \cup {None}]
      BY <2>2, <3>1
    <3>3. DOMAIN file = Names /\ \A n \in Names : file[n] \in Content \cup {None}
      BY <2>2, <3>1 DEF Names
    <3>4. file = [n \in Names |-> file[n]]
      BY <2>2 DEF Names
    <3> QED
      BY <3>3, <3>4
  <2> QED
    BY <2>1, <2>2 DEF Init
<1>2. machine \in Machine
  BY DEF Init, Machine
<1>3. proc \in [Processes -> Process]
  BY UnusedTyped DEF Init
<1>4. TypeOK
  BY <1>1, <1>2, <1>3 DEF Init, TypeOK
<1>5. \A p \in Processes : Working(proc[p])
  BY DEF Init, Unused, Working, ProjectStages, MachineStages, Both, Locking
<1> QED
  BY <1>4, <1>5 DEF Inv

\* A step of a process writes its own record.
LEMMA Writes ==
    ASSUME Inv, NEW p \in Processes, NEW r \in Process, Working(r),
           proc' = [proc EXCEPT ![p] = r]
    PROVE  /\ proc' \in [Processes -> Process]
           /\ \A q \in Processes : Working(proc'[q])
           /\ proc'[p] = r
  BY DEF Inv, TypeOK

LEMMA ProcTyped ==
    ASSUME Inv, NEW p \in Processes
    PROVE  proc[p] \in Process /\ Working(proc[p])
  BY DEF Inv, TypeOK

\* A command that begins, by what it begins with.
LEMMA BeginRuns ==
    ASSUME Inv, NEW p \in Processes, Begin(p)
    PROVE  \E c \in Commands, stage \in {"take", "install"}, hub \in Hubs \cup {None},
             first \in Locks :
               /\ Run(p, c, stage, hub, first)
               /\ hooks' \subseteq Engines
               /\ c.kind \in Joins => first = "project"
<1>1. PICK c \in Commands :
          Join(p, c) \/ JoinTool(p, c) \/ ConfigSet(p, c) \/ ConfigUnset(p, c)
              \/ UninstallHook(p, c) \/ InstallHook(p, c)
  BY DEF Begin
<1>2. c.hub \in Hubs \cup {None} /\ hooks \subseteq Engines
      /\ InForce \in Content /\ InForce.hub \in Hubs \cup {None} /\ machine.hub \in Hubs \cup {None}
  BY ConfigConstants, InForceTyped DEF Command, Inv, TypeOK, Machine, Content
<1>3. LoadHub \in Hubs \cup {None} /\ Url(c) \in Hubs \cup {None}
  BY <1>2 DEF LoadHub, Url
<1>4. "project" \in Locks /\ "machine" \in Locks
  BY DEF Locks
<1>5. CASE Join(p, c) \/ UninstallHook(p, c) \/ InstallHook(p, c)
  BY <1>2, <1>3, <1>4, <1>5 DEF Join, UninstallHook, InstallHook
<1>6. CASE JoinTool(p, c)
  BY <1>2, <1>3, <1>4, <1>6 DEF JoinTool
<1>7. CASE ConfigSet(p, c) \/ ConfigUnset(p, c)
  BY <1>2, <1>3, <1>4, <1>7 DEF ConfigSet, ConfigUnset, Joins
<1> QED
  BY <1>1, <1>5, <1>6, <1>7

LEMMA BeginTyped ==
    ASSUME Inv, NEW p \in Processes, Begin(p)
    PROVE  /\ Inv'
           /\ proc'[p].turn = proc[p].turn + 1 /\ proc'[p].at \in {"take", "install"}
           /\ ~ Both(proc'[p])
           /\ \A q \in Processes \ {p} : proc'[q] = proc[q]
           /\ UNCHANGED <<lock, raced>>
<1>1. PICK c \in Commands, stage \in {"take", "install"}, hub \in Hubs \cup {None},
           first \in Locks :
          /\ Run(p, c, stage, hub, first)
          /\ hooks' \subseteq Engines
          /\ c.kind \in Joins => first = "project"
  BY BeginRuns
<1> DEFINE r == [Unused EXCEPT !.at = stage, !.turn = proc[p].turn + 1, !.cmd = c,
                               !.hub = hub, !.wants = first]
<1>2. proc[p].turn + 1 \in 1..Turns /\ proc[p].turn + 1 \in 0..Turns
  <2>1. proc[p].turn \in 0..Turns /\ proc[p].turn < Turns /\ Turns \in Nat
    BY ProcTyped, ConfigConstants DEF Begin, Process
  <2> QED
    BY <2>1
<1>3. c \in Command
  BY ConfigConstants
<1>4. r.at = stage /\ r.turn = proc[p].turn + 1 /\ r.cmd = c /\ r.wants = first
  BY UnusedTyped DEF Process
<1>5. r \in Process
  <2>1. proc[p].turn + 1 \in 0..Turns /\ stage \in Stages /\ c \in Command \cup {None}
    BY <1>2, <1>3 DEF Stages
  <2> QED
    BY <2>1, UnusedTyped DEF Process
<1>6. Working(r)
  BY <1>1, <1>2, <1>3, <1>4 DEF Working, ProjectStages, MachineStages, Both
<1>7. proc' = [proc EXCEPT ![p] = r]
  BY <1>1 DEF Run
<1> QED
  <2> HIDE DEF r
  <2>1. proc' \in [Processes -> Process] /\ \A q \in Processes : Working(proc'[q])
    BY <1>5, <1>6, <1>7, Writes
  <2>2. Inv'
    BY <1>1, <2>1 DEF Run, Inv, TypeOK
  <2>3. proc'[p] = r /\ \A q \in Processes \ {p} : proc'[q] = proc[q]
    BY <1>7 DEF Inv, TypeOK
  <2>4. ~ Both(r)
    BY <1>1, <1>4 DEF Both
  <2> QED
    BY <1>1, <1>4, <2>2, <2>3, <2>4 DEF Run

\* The steps around a lock.
LEMMA LockTyped ==
    ASSUME Inv, NEW p \in Processes, Take(p) \/ Sign(p) \/ Judge(p) \/ Sweep(p) \/ GiveUp(p)
    PROVE  Inv'
<1> DEFINE r == proc[p]
<1>0. r \in Process /\ Working(r)
  BY ProcTyped
<1>1. r.at \in Locking /\ r.cmd \in Commands /\ r.turn \in 1..Turns /\ r.wants \in Locks
  BY <1>0 DEF Take, Sign, Judge, Sweep, GiveUp, Working, Locking, Process
<1>2. lock' \in [Locks -> LockFile \cup {None}]
  <2>0. lock \in [Locks -> LockFile \cup {None}]
    BY DEF Inv, TypeOK
  <2>1. CASE Take(p)
    BY <1>1, <2>0, <2>1 DEF Take, LockFile
  <2>2. CASE Sign(p)
    <3>1. lock[r.wants] # None => [lock[r.wants] EXCEPT !.said = TRUE] \in LockFile
      BY <1>1, <2>0 DEF LockFile
    <3> QED
      BY <1>1, <2>0, <2>2, <3>1 DEF Sign
  <2>3. CASE Sweep(p)
    BY <1>1, <2>0, <2>3 DEF Sweep
  <2>4. CASE Judge(p) \/ GiveUp(p)
    BY <2>0, <2>4 DEF Judge, GiveUp
  <2> QED
    BY <2>1, <2>2, <2>3, <2>4
<1>3. proc' \in [Processes -> Process] /\ \A q \in Processes : Working(proc'[q])
  <2>1. CASE Take(p) \/ Sign(p)
    <3>1. PICK stage \in {"sign", "read", "read machine"} :
              /\ proc' = [proc EXCEPT ![p] = [r EXCEPT !.at = stage]]
              /\ stage = "read" => r.wants = "project"
              /\ stage = "read machine" => r.wants = "machine"
              /\ r.at \in {"take", "sign"}
      BY <2>1, <1>1 DEF Take, Sign, Goto, Locks, Inv, TypeOK
    <3> DEFINE s == [r EXCEPT !.at = stage]
    <3>2. s \in Process /\ s.at = stage /\ s.turn = r.turn /\ s.cmd = r.cmd /\ s.wants = r.wants
          /\ s.judged = r.judged /\ s.copy = r.copy
      BY <1>0 DEF Process, Stages
    <3>3. Working(s)
      <4> HIDE DEF s
      <4>1. Both(s) => Both(r)
        BY <1>1, <3>2 DEF Both, Locking, MachineStages
      <4> QED
        BY <1>0, <1>1, <3>1, <3>2, <4>1 DEF Working, ProjectStages, MachineStages
    <3> HIDE DEF s
    <3> QED
      BY <3>1, <3>2, <3>3, Writes DEF s
  <2>2. CASE Judge(p)
    <3> DEFINE k == lock[r.wants]
               s == [r EXCEPT !.at = "sweep", !.judged = Id(k)]
    <3>1. Id(k) \in Processes \X (1..Turns)
      BY <2>2, <1>1 DEF Judge, Inv, TypeOK, LockFile, Id
    <3>2. s \in Process /\ s.at = "sweep" /\ s.turn = r.turn /\ s.cmd = r.cmd
          /\ s.wants = r.wants /\ s.judged = Id(k) /\ s.copy = r.copy
      BY <1>0, <3>1 DEF Process, Stages
    <3>3. Working(s)
      <4> HIDE DEF s
      <4>1. Both(s) => Both(r)
        BY <1>1, <3>2 DEF Both
      <4> QED
        BY <1>0, <1>1, <3>1, <3>2, <4>1 DEF Working, ProjectStages, MachineStages, Judge
    <3>4. proc' = [proc EXCEPT ![p] = s]
      BY <2>2 DEF Judge, Inv, TypeOK
    <3> HIDE DEF s
    <3> QED
      BY <3>2, <3>3, <3>4, Writes
  <2>3. CASE Sweep(p)
    <3> DEFINE s == [r EXCEPT !.at = "take", !.judged = None]
    <3>2. s \in Process /\ s.at = "take" /\ s.turn = r.turn /\ s.cmd = r.cmd
          /\ s.wants = r.wants /\ s.copy = r.copy
      BY <1>0 DEF Process, Stages
    <3>3. Working(s)
      <4> HIDE DEF s
      <4>1. Both(s) => Both(r)
        BY <1>1, <3>2 DEF Both
      <4> QED
        BY <1>0, <1>1, <3>2, <4>1 DEF Working, ProjectStages, MachineStages
    <3>4. proc' = [proc EXCEPT ![p] = s]
      BY <2>3 DEF Sweep, Inv, TypeOK
    <3> HIDE DEF s
    <3> QED
      BY <3>2, <3>3, <3>4, Writes
  <2>4. CASE GiveUp(p)
    <3>1. PICK stage \in {"install", "leave", "idle"} :
              proc' = [proc EXCEPT ![p] = [r EXCEPT !.at = stage, !.wants = "project", !.ok = FALSE]]
      BY <2>4 DEF GiveUp, Inv, TypeOK
    <3> DEFINE s == [r EXCEPT !.at = stage, !.wants = "project", !.ok = FALSE]
    <3>2. s \in Process /\ s.at = stage /\ s.turn = r.turn /\ s.cmd = r.cmd
          /\ s.wants = "project" /\ s.copy = r.copy
      BY <1>0 DEF Process, Stages, Locks
    <3>3. Working(s)
      BY <1>0, <1>1, <3>2 DEF Working, ProjectStages, MachineStages, Both
    <3> HIDE DEF s
    <3> QED
      BY <3>1, <3>2, <3>3, Writes DEF s
  <2> QED
    BY <2>1, <2>2, <2>3, <2>4
<1>4. raced' \subseteq Locks /\ UNCHANGED files
  BY <1>1 DEF Take, Sign, Judge, Sweep, GiveUp, Inv, TypeOK
<1> QED
  BY <1>2, <1>3, <1>4 DEF files, Inv, TypeOK

\* What a release does to the lock files.
LEMMA ReleasedTyped ==
    ASSUME TypeOK, NEW p \in Processes, NEW l \in Locks, Released(p, l)
    PROVE  lock' \in [Locks -> LockFile \cup {None}]
  BY DEF TypeOK, Released

\* What a command would write is a content of the file.
LEMMA EditedTyped ==
    ASSUME Inv, NEW r \in Process, r.cmd \in Command, NEW content \in Content
    PROVE  Edited(r, content) \in Content
<1> DEFINE c == r.cmd
           mine == content.agents[c.engine]
           held == IF mine = None THEN NoEntry ELSE mine
           kept == KeptToken(r, mine)
<1>1. /\ c.engine \in Engines /\ c.token \in BOOLEAN /\ r.hub \in Hubs \cup {None}
      /\ content.hub \in Hubs \cup {None}
      /\ content.agents \in [Engines -> Entry \cup {None}]
  BY DEF Command, Process, Content
<1>2. mine \in Entry \cup {None} /\ held \in Entry
  BY <1>1, BlankTyped
<1>3. mine # None => mine.token \in Hubs \cup {None}
  BY <1>2 DEF Entry
<1>4. kept \in Hubs \cup {None}
  BY <1>1, <1>3 DEF KeptToken
<1>5. /\ [token |-> kept, off |-> FALSE] \in Entry
      /\ [held EXCEPT !.off = TRUE] \in Entry
      /\ [held EXCEPT !.off = FALSE] \in Entry
      /\ [held EXCEPT !.token = r.hub] \in Entry
      /\ [held EXCEPT !.token = None] \in Entry
  BY <1>1, <1>2, <1>4 DEF Entry
<1> DEFINE entry == CASE c.kind \in Joins -> [token |-> kept, off |-> FALSE]
                   [] c.kind = "decline" -> [held EXCEPT !.off = TRUE]
                   [] c.kind = "ask" -> [held EXCEPT !.off = FALSE]
                   [] c.kind = "set" /\ c.token -> [held EXCEPT !.token = r.hub]
                   [] c.kind = "set" /\ ~c.token -> held
                   [] c.kind = "unset" /\ c.token -> [held EXCEPT !.token = None]
                   [] OTHER -> mine
           pin == CASE c.kind \in Joins /\ content.hub = None /\ kept # None -> r.hub
                 [] c.kind = "set" /\ ~c.token -> r.hub
                 [] c.kind = "unset" /\ ~c.token -> None
                 [] OTHER -> content.hub
<1>6. entry \in Entry \cup {None}
  <2> HIDE DEF held, mine, kept
  <2> QED
    BY <1>2, <1>5 DEF Joins
<1>7. pin \in Hubs \cup {None}
  <2> HIDE DEF held, mine, kept
  <2> QED
    BY <1>1, <1>4 DEF Joins
<1>8. Edited(r, content) = [hub |-> pin, agents |-> [content.agents EXCEPT ![c.engine] = entry]]
  BY DEF Edited
<1> HIDE DEF entry, pin
<1> QED
  BY <1>1, <1>6, <1>7, <1>8 DEF Content

\* The steps inside the project's lock, and after it.
LEMMA ProjectTyped ==
    ASSUME Inv, NEW p \in Processes,
           Read(p) \/ Render(p) \/ Tidy(p) \/ Leave(p) \/ Decide(p) \/ Install(p)
    PROVE  Inv'
<1> DEFINE r == proc[p]
<1>0. r \in Process /\ Working(r)
  BY ProcTyped
<1>1. r.at \notin {"idle", "dead"} /\ r.cmd \in Commands /\ r.turn \in 1..Turns
  BY <1>0 DEF Read, Render, Tidy, Leave, Decide, Install, Working
<1>2. CASE Read(p)
  <2>0. r.at = "read" /\ r.wants = "project" /\ UNCHANGED <<files, lock, raced>>
    BY <1>0, <1>2 DEF Read, Working, ProjectStages
  <2>1. InForce \in Content /\ Found \in Names
    BY InForceTyped DEF Inv
  <2>2. Edited(r, InForce) \in Content
    BY <1>0, <1>1, <2>1, EditedTyped, ConfigConstants
  <2>3. CASE proc' = [proc EXCEPT ![p] = [r EXCEPT !.at = "leave", !.ok = FALSE]]
    <3> DEFINE s == [r EXCEPT !.at = "leave", !.ok = FALSE]
    <3>1. s \in Process /\ s.at = "leave" /\ s.turn = r.turn /\ s.cmd = r.cmd /\ s.wants = "project"
      BY <1>0, <2>0 DEF Process, Stages
    <3>2. Working(s)
      BY <1>1, <3>1 DEF Working, ProjectStages, MachineStages, Both
    <3> HIDE DEF s
    <3>3. proc' \in [Processes -> Process] /\ \A q \in Processes : Working(proc'[q])
      BY <2>3, <3>1, <3>2, Writes DEF s
    <3> QED
      BY <2>0, <3>3 DEF files, Inv, TypeOK
  <2>4. ASSUME NEW stage \in {"take", "render"}, NEW chosen \in Locks,
               stage = "render" => chosen = "project",
               proc' = [proc EXCEPT ![p] = [r EXCEPT !.at = stage, !.wants = chosen,
                           !.copy = Edited(r, InForce), !.target = Found]]
        PROVE  Inv'
    <3> DEFINE s == [r EXCEPT !.at = stage, !.wants = chosen,
                           !.copy = Edited(r, InForce), !.target = Found]
    <3>1. s \in Process /\ s.at = stage /\ s.turn = r.turn /\ s.cmd = r.cmd
          /\ s.wants = chosen /\ s.copy \in Content
      BY <1>0, <2>1, <2>2 DEF Process, Stages
    <3>2. Working(s)
      <4> HIDE DEF s
      <4> QED
        BY <1>1, <2>4, <3>1 DEF Working, ProjectStages, MachineStages
    <3> HIDE DEF s
    <3>3. proc' \in [Processes -> Process] /\ \A q \in Processes : Working(proc'[q])
      BY <2>4, <3>1, <3>2, Writes DEF s
    <3> QED
      BY <2>0, <3>3 DEF files, Inv, TypeOK
  <2>5. \/ proc' = [proc EXCEPT ![p] = [r EXCEPT !.at = "leave", !.ok = FALSE]]
        \/ proc' = [proc EXCEPT ![p] = [r EXCEPT !.at = "take", !.wants = "machine",
                           !.copy = Edited(r, InForce), !.target = Found]]
        \/ proc' = [proc EXCEPT ![p] = [r EXCEPT !.at = "render", !.wants = "project",
                           !.copy = Edited(r, InForce), !.target = Found]]
    BY <1>2 DEF Read, Inv, TypeOK
  <2> QED
    BY <2>3, <2>4, <2>5 DEF Locks
<1>3. ASSUME NEW stage \in {"tidy", "leave", "decide", "install", "idle"},
             proc' = [proc EXCEPT ![p] = [r EXCEPT !.at = stage]],
             stage \in {"tidy", "leave"} => r.at \in ProjectStages
      PROVE  proc' \in [Processes -> Process] /\ \A q \in Processes : Working(proc'[q])
  <2> DEFINE s == [r EXCEPT !.at = stage]
  <2>1. s \in Process /\ s.at = stage /\ s.turn = r.turn /\ s.cmd = r.cmd /\ s.wants = r.wants
    BY <1>0 DEF Process, Stages
  <2> HIDE DEF s
  <2>2. Working(s)
    BY <1>0, <1>1, <1>3, <2>1 DEF Working, ProjectStages, MachineStages, Both, Locking
  <2> QED
    BY <1>3, <2>1, <2>2, Writes DEF s
<1>4. CASE Render(p)
  <2>1. r.at = "render" /\ r.copy \in Content
    BY <1>0, <1>4 DEF Render, Working
  <2>2. file' \in [Names -> Content \cup {None}]
    <3>1. Landing(r.target) \in Names
      BY <1>0 DEF Landing, Names, Process
    <3> QED
      BY <1>4, <2>1, <3>1 DEF Render, Inv, TypeOK
  <2>3. recorded' \subseteq Engines
    BY <1>4 DEF Render, Inv, TypeOK
  <2>4. \E stage \in {"tidy", "leave"} : proc' = [proc EXCEPT ![p] = [r EXCEPT !.at = stage]]
    BY <1>4 DEF Render, Goto, Inv, TypeOK
  <2>5. proc' \in [Processes -> Process] /\ \A q \in Processes : Working(proc'[q])
    BY <1>3, <2>1, <2>4 DEF ProjectStages
  <2> QED
    BY <1>4, <2>2, <2>3, <2>5 DEF Render, Inv, TypeOK
<1>5. CASE Tidy(p)
  <2>1. proc' = [proc EXCEPT ![p] = [r EXCEPT !.at = "leave"]] /\ r.at = "tidy"
    BY <1>5 DEF Tidy, Goto, Inv, TypeOK
  <2>2. proc' \in [Processes -> Process] /\ \A q \in Processes : Working(proc'[q])
    BY <1>3, <2>1 DEF ProjectStages
  <2>3. file' \in [Names -> Content \cup {None}]
    BY <1>5 DEF Tidy, Inv, TypeOK
  <2> QED
    BY <1>5, <2>2, <2>3 DEF Tidy, Inv, TypeOK
<1>6. CASE Leave(p)
  <2>1. lock' \in [Locks -> LockFile \cup {None}]
    BY <1>6, ReleasedTyped DEF Leave, Locks, Inv
  <2>2. \E stage \in {"decide", "install", "idle"} :
            proc' = [proc EXCEPT ![p] = [r EXCEPT !.at = stage]]
    BY <1>6 DEF Leave, Goto, Inv, TypeOK
  <2>3. proc' \in [Processes -> Process] /\ \A q \in Processes : Working(proc'[q])
    BY <1>3, <2>2
  <2> QED
    BY <1>6, <2>1, <2>3 DEF Leave, files, Inv, TypeOK
<1>7. CASE Decide(p) \/ Install(p)
  <2>1. \E stage \in {"install", "idle"} : proc' = [proc EXCEPT ![p] = [r EXCEPT !.at = stage]]
    BY <1>7 DEF Decide, Install, Goto, Inv, TypeOK
  <2>2. proc' \in [Processes -> Process] /\ \A q \in Processes : Working(proc'[q])
    BY <1>3, <2>1
  <2>3. r.cmd.engine \in Engines
    BY <1>1, ConfigConstants DEF Command
  <2> QED
    BY <1>7, <2>2, <2>3 DEF Decide, Install, files, Inv, TypeOK
<1> QED
  BY <1>2, <1>4, <1>5, <1>6, <1>7

\* The steps inside the machine's lock.
LEMMA MachineTyped ==
    ASSUME Inv, NEW p \in Processes, ReadMachine(p) \/ WriteMachine(p) \/ LeaveMachine(p)
    PROVE  Inv'
<1> DEFINE r == proc[p]
<1>0. r \in Process /\ Working(r)
  BY ProcTyped
<1>1. /\ r.at \in MachineStages /\ r.cmd \in Commands /\ r.turn \in 1..Turns
      /\ r.wants = "machine" /\ machine \in Machine
      /\ r.cmd.kind \in Joins => r.copy \in Content
  BY <1>0 DEF ReadMachine, WriteMachine, LeaveMachine, Working, MachineStages, Both, Inv, TypeOK
<1>2. CASE ReadMachine(p)
  <2> DEFINE value == IF r.cmd.kind = "unset machine" THEN None ELSE r.hub
             edited == IF r.cmd.kind \notin Joins /\ r.cmd.token
                       THEN [machine EXCEPT !.token = value]
                       ELSE [machine EXCEPT !.hub = value]
             copy == IF r.cmd.kind \in Joins THEN r.copy ELSE edited
  <2>1. value \in Hubs \cup {None}
    BY <1>0 DEF Process
  <2>2. edited \in Machine
    <3> HIDE DEF value
    <3> QED
      BY <1>1, <2>1 DEF Machine
  <2>3. /\ copy \in Content \cup Machine
        /\ r.cmd.kind \in Joins => copy \in Content
        /\ r.cmd.kind \notin Joins => copy \in Machine
    BY <1>1, <2>2
  <2>4. \/ proc' = [proc EXCEPT ![p] = [r EXCEPT !.at = "leave machine"]]
        \/ proc' = [proc EXCEPT ![p] = [r EXCEPT !.at = "write machine", !.judged = None,
                                                   !.copy = copy]]
    BY <1>2 DEF ReadMachine, Inv, TypeOK
  <2> HIDE DEF copy
  <2>5. CASE proc' = [proc EXCEPT ![p] = [r EXCEPT !.at = "leave machine"]]
    <3> DEFINE s == [r EXCEPT !.at = "leave machine"]
    <3>1. s \in Process /\ s.at = "leave machine" /\ s.turn = r.turn /\ s.cmd = r.cmd
          /\ s.wants = r.wants /\ s.copy = r.copy
      BY <1>0 DEF Process, Stages
    <3> HIDE DEF s
    <3>2. Working(s)
      BY <1>1, <3>1 DEF Working, ProjectStages, MachineStages, Both
    <3>3. proc' \in [Processes -> Process] /\ \A q \in Processes : Working(proc'[q])
      BY <2>5, <3>1, <3>2, Writes DEF s
    <3> QED
      BY <1>2, <3>3 DEF ReadMachine, files, Inv, TypeOK
  <2>6. CASE proc' = [proc EXCEPT ![p] = [r EXCEPT !.at = "write machine", !.judged = None,
                                                   !.copy = copy]]
    <3> DEFINE s == [r EXCEPT !.at = "write machine", !.judged = None, !.copy = copy]
    <3>1. s \in Process /\ s.at = "write machine" /\ s.turn = r.turn /\ s.cmd = r.cmd
          /\ s.wants = r.wants /\ s.copy = copy
      BY <1>0, <2>3 DEF Process, Stages
    <3> HIDE DEF s
    <3>2. Working(s)
      BY <1>1, <2>3, <3>1 DEF Working, ProjectStages, MachineStages, Both
    <3>3. proc' \in [Processes -> Process] /\ \A q \in Processes : Working(proc'[q])
      BY <2>6, <3>1, <3>2, Writes DEF s
    <3> QED
      BY <1>2, <3>3 DEF ReadMachine, files, Inv, TypeOK
  <2> QED
    BY <2>4, <2>5, <2>6
<1>3. CASE WriteMachine(p)
  <2> DEFINE s == [r EXCEPT !.at = "leave machine"]
  <2>1. s \in Process /\ s.at = "leave machine" /\ s.turn = r.turn /\ s.cmd = r.cmd
        /\ s.wants = r.wants /\ s.copy = r.copy
    BY <1>0 DEF Process, Stages
  <2>2. proc' = [proc EXCEPT ![p] = s]
    BY <1>3 DEF WriteMachine, Goto, Inv, TypeOK
  <2> HIDE DEF s
  <2>3. Working(s)
    BY <1>1, <2>1 DEF Working, ProjectStages, MachineStages, Both
  <2>4. machine' \in Machine
    <3>1. r.hub \in Hubs \cup {None}
      BY <1>0 DEF Process
    <3>2. [machine EXCEPT !.hub = r.hub] \in Machine
      BY <1>1, <3>1 DEF Machine
    <3>3. r.cmd.kind \notin Joins => r.copy \in Machine
      BY <1>0, <1>3 DEF WriteMachine, Working
    <3> QED
      BY <1>3, <3>2, <3>3 DEF WriteMachine, Merged
  <2>5. proc' \in [Processes -> Process] /\ \A q \in Processes : Working(proc'[q])
    BY <2>1, <2>2, <2>3, Writes
  <2> QED
    BY <1>3, <2>4, <2>5 DEF WriteMachine, Inv, TypeOK
<1>4. CASE LeaveMachine(p)
  <2>1. PICK stage \in {"render", "idle"} :
            /\ proc' = [proc EXCEPT ![p] = [r EXCEPT !.at = stage, !.wants = "project"]]
            /\ stage = "render" => r.cmd.kind \in Joins
    BY <1>4 DEF LeaveMachine, Inv, TypeOK
  <2> DEFINE s == [r EXCEPT !.at = stage, !.wants = "project"]
  <2>2. s \in Process /\ s.at = stage /\ s.turn = r.turn /\ s.cmd = r.cmd
        /\ s.wants = "project" /\ s.copy = r.copy
    BY <1>0 DEF Process, Stages, Locks
  <2> HIDE DEF s
  <2>3. Working(s)
    BY <1>1, <2>1, <2>2 DEF Working, ProjectStages, MachineStages, Both
  <2>4. proc' \in [Processes -> Process] /\ \A q \in Processes : Working(proc'[q])
    BY <2>1, <2>2, <2>3, Writes DEF s
  <2>5. lock' \in [Locks -> LockFile \cup {None}]
    BY <1>4, ReleasedTyped DEF LeaveMachine, Locks, Inv
  <2> QED
    BY <1>4, <2>4, <2>5 DEF LeaveMachine, files, Inv, TypeOK
<1> QED
  BY <1>2, <1>3, <1>4

LEMMA StepTyped == Inv /\ [Next]_vars => Inv'
<1> SUFFICES ASSUME Inv, [Next]_vars PROVE Inv'
  OBVIOUS
<1>1. ASSUME NEW p \in Processes, Begin(p) \/ Step(p) PROVE Inv'
  BY <1>1, BeginTyped, LockTyped, ProjectTyped, MachineTyped DEF Step
<1>2. ASSUME NEW p \in Processes, Crash(p) PROVE Inv'
  <2> DEFINE s == [proc[p] EXCEPT !.at = "dead"]
  <2>1. s \in Process /\ s.at = "dead"
    BY ProcTyped, ZenonT(30) DEF Process, Stages
  <2>2. proc' = [proc EXCEPT ![p] = s]
    BY <1>2 DEF Crash, Goto, Inv, TypeOK
  <2> HIDE DEF s
  <2>3. Working(s)
    BY <2>1 DEF Working, ProjectStages, MachineStages, Both, Locking
  <2>4. proc' \in [Processes -> Process] /\ \A q \in Processes : Working(proc'[q])
    BY <2>1, <2>2, <2>3, Writes
  <2> QED
    BY <1>2, <2>4 DEF Crash, files, Inv, TypeOK
<1>3. ASSUME NEW l \in Locks, Age(l) PROVE Inv'
  <2>1. lock[l] \in LockFile
    BY <1>3 DEF Age, Inv, TypeOK
  <2>2. [lock[l] EXCEPT !.old = TRUE] \in LockFile
    BY <2>1 DEF LockFile
  <2>3. lock' \in [Locks -> LockFile \cup {None}]
    BY <1>3, <2>2 DEF Age, Inv, TypeOK
  <2> QED
    BY <1>3, <2>3 DEF Age, files, Inv, TypeOK
<1>4. CASE UNCHANGED vars
  BY <1>4 DEF vars, Inv, TypeOK
<1> QED
  BY <1>1, <1>2, <1>3, <1>4 DEF Next, Rest

\* Every command and every file keeps its shape, through crashes at any step
\* (config.py, locking.py).
THEOREM TypeCorrect == Spec => []TypeOK
<1>1. Inv => TypeOK
  BY DEF Inv
<1> QED
  BY <1>1, InitTyped, StepTyped, PTL DEF Spec

----------------------------------------------------------------------------
(* Exclusion.                                                              *)

\* What a process, as its record tells, has claimed: from the lock file it
\* made to the end of the block, whether or not the file is still its own.
Claiming(r, l) ==
    \/ r.at = "sign" /\ r.wants = l
    \/ l = "project" /\ r.at \in ProjectStages
    \/ l = "machine" /\ r.at \in MachineStages
    \/ l = "project" /\ Both(r)

\* It may still claim the lock, in this turn.
Pending(r, l) ==
    \/ r.at \in {"take", "sweep"} /\ r.wants = l
    \/ /\ l = "machine" /\ r.wants = "project" /\ r.cmd.kind \in Joins
       /\ r.at \in {"take", "sweep", "sign", "read"}

\* It will not claim the lock as of turn t, now or later.
Past(r, t, l) ==
    \/ r.at = "dead"
    \/ r.turn > t
    \/ r.turn = t /\ ~ Claiming(r, l) /\ ~ Pending(r, l)

\* Every lock file was made by a claim that goes on or is past; it is past
\* where the file has grown old, or somebody has judged it abandoned.
LocksAccounted ==
    \A l \in Locks : lock[l] # None =>
        LET r == proc[lock[l].owner] IN
        /\ (Claiming(r, l) /\ r.turn = lock[l].turn) \/ Past(r, lock[l].turn, l)
        /\ lock[l].old => Past(r, lock[l].turn, l)

JudgedArePast ==
    \A p \in Processes : proc[p].at = "sweep" =>
        Past(proc[proc[p].judged[1]], proc[p].judged[2], proc[p].wants)

\* Whoever claims a lock finds the file its own, but for a raced lock.
ClaimsHold ==
    \A l \in Locks \ raced : \A p \in Processes : Claiming(proc[p], l) =>
        lock[l] # None /\ lock[l].owner = p /\ lock[l].turn = proc[p].turn

IInv == Inv /\ LocksAccounted /\ JudgedArePast /\ ClaimsHold

LEMMA InsideIsClaiming ==
    ASSUME Inv, NEW p \in Processes, NEW l \in Locks
    PROVE  Inside(p, l) \/ (proc[p].at = "sign" /\ proc[p].wants = l) <=> Claiming(proc[p], l)
<1>1. proc[p].at \notin {"idle", "dead"} => proc[p].cmd # None
  BY ProcTyped, ConfigConstants DEF Working
<1> QED
  BY <1>1 DEF Inside, Claiming, Both, ProjectStages, MachineStages, Locking

\* The way of a process through a turn: by stages, and what it waits for.
Passes(r, s) ==
    \/ s.at = "dead"
    \/ s.wants = r.wants /\ <<r.at, s.at>> \in
           {<<"take", "sign">>, <<"take", "sweep">>, <<"sweep", "take">>,
            <<"render", "tidy">>, <<"render", "leave">>, <<"tidy", "leave">>,
            <<"leave", "decide">>, <<"leave", "install">>, <<"leave", "idle">>,
            <<"decide", "idle">>, <<"decide", "install">>, <<"install", "idle">>,
            <<"read machine", "write machine">>, <<"read machine", "leave machine">>,
            <<"write machine", "leave machine">>}
    \/ s.wants = r.wants /\ r.at = "sign" /\ r.wants = "project" /\ s.at = "read"
    \/ s.wants = r.wants /\ r.at = "sign" /\ r.wants = "machine" /\ s.at = "read machine"
    \/ /\ r.at = "take" /\ s.wants = "project"
       /\ IF Both(r) THEN s.at = "leave" ELSE s.at \in {"install", "idle"}
    \/ r.at = "read" /\ s.at \in {"leave", "render"} /\ s.wants = "project"
    \/ r.at = "read" /\ s.at = "take" /\ s.wants = "machine" /\ r.cmd.kind \in Joins
    \/ /\ r.at = "leave machine" /\ s.wants = "project"
       /\ s.at = IF Both(r) THEN "render" ELSE "idle"

LEMMA PassingKeeps ==
    ASSUME NEW r \in Process, NEW s \in Process, Working(r), Passes(r, s),
           s.turn = r.turn, s.cmd = r.cmd, NEW l \in Locks
    PROVE  /\ \A t \in Nat : Past(r, t, l) /\ r.at # "dead" => Past(s, t, l)
           /\ Claiming(r, l) => Claiming(s, l) \/ Past(s, r.turn, l)
           /\ Claiming(s, l) => Claiming(r, l) \/ (r.at = "take" /\ s.at = "sign" /\ r.wants = l)
<1> USE DEF Locks, ProjectStages, MachineStages, Both, Locking
<1>1. Claiming(r, l) => Claiming(s, l) \/ (~ Claiming(s, l) /\ ~ Pending(s, l)) \/ s.at = "dead"
  BY DEF Passes, Claiming, Pending, Working
<1>2. Claiming(s, l) => Claiming(r, l) \/ (r.at = "take" /\ s.at = "sign" /\ r.wants = l)
  BY DEF Passes, Claiming, Working
<1>3. ~ Claiming(r, l) /\ ~ Pending(r, l) /\ s.at # "dead" => ~ Claiming(s, l) /\ ~ Pending(s, l)
  BY DEF Passes, Claiming, Pending, Working
<1> HIDE DEF Claiming, Pending
<1> QED
  BY <1>1, <1>2, <1>3 DEF Past

LEMMA StepPasses ==
    ASSUME Inv, NEW p \in Processes, Step(p) \/ Crash(p)
    PROVE  /\ Passes(proc[p], proc'[p])
           /\ proc'[p].turn = proc[p].turn /\ proc'[p].cmd = proc[p].cmd
           /\ \A q \in Processes \ {p} : proc'[q] = proc[q]
<1> DEFINE r == proc[p]
<1>0. r \in Process /\ Working(r) /\ proc \in [Processes -> Process]
  BY ProcTyped DEF Inv, TypeOK
<1>1. ASSUME NEW stage \in Stages, proc' = [proc EXCEPT ![p].at = stage],
             \/ stage = "dead"
             \/ <<r.at, stage>> \in
                 {<<"take", "sign">>, <<"render", "tidy">>, <<"render", "leave">>, <<"tidy", "leave">>,
                  <<"leave", "decide">>, <<"leave", "install">>, <<"leave", "idle">>,
                  <<"decide", "idle">>, <<"decide", "install">>, <<"install", "idle">>,
                  <<"read machine", "leave machine">>, <<"write machine", "leave machine">>}
             \/ r.at = "sign" /\ r.wants = "project" /\ stage = "read"
             \/ r.at = "sign" /\ r.wants = "machine" /\ stage = "read machine"
      PROVE  /\ Passes(r, proc'[p])
             /\ proc'[p].turn = r.turn /\ proc'[p].cmd = r.cmd
             /\ \A q \in Processes \ {p} : proc'[q] = proc[q]
  <2>1. /\ proc'[p].at = stage /\ proc'[p].wants = r.wants
        /\ proc'[p].turn = r.turn /\ proc'[p].cmd = r.cmd
        /\ \A q \in Processes \ {p} : proc'[q] = proc[q]
    BY <1>0, <1>1 DEF Process
  <2> QED
    BY <1>1, <2>1 DEF Passes
<1> USE DEF Stages
<1>2. CASE Crash(p)
  BY <1>1, <1>2 DEF Crash, Goto
<1>3. CASE Decide(p) \/ Install(p)
  BY <1>1, <1>3 DEF Decide, Install, Goto
<1>4. CASE Take(p)
  BY <1>1, <1>4 DEF Take, Goto
<1>5. CASE Sign(p)
  <2>1. r.wants \in Locks
    BY <1>0 DEF Process
  <2> QED
    BY <1>1, <1>5, <2>1 DEF Sign, Goto, Locks
<1>6. CASE Render(p) \/ Tidy(p) \/ Leave(p)
  BY <1>1, <1>6 DEF Render, Tidy, Leave, Goto
<1>7. CASE WriteMachine(p)
  BY <1>1, <1>7 DEF WriteMachine, Goto
<1>8. CASE Judge(p) \/ Sweep(p)
  <2>1. /\ <<r.at, proc'[p].at>> \in {<<"take", "sweep">>, <<"sweep", "take">>}
        /\ proc'[p].wants = r.wants /\ proc'[p].turn = r.turn /\ proc'[p].cmd = r.cmd
        /\ \A q \in Processes \ {p} : proc'[q] = proc[q]
    <3>1. CASE Judge(p)
      BY <1>0, <3>1 DEF Judge, Process
    <3>2. CASE Sweep(p)
      BY <1>0, <3>2 DEF Sweep, Process
    <3> QED
      BY <1>8, <3>1, <3>2
  <2> QED
    BY <2>1 DEF Passes
<1>9. CASE GiveUp(p)
  <2>1. /\ r.at = "take" /\ proc'[p].wants = "project"
        /\ proc'[p].at = IF r.cmd.kind = "ask" THEN "install"
                         ELSE IF Inside(p, "project") THEN "leave" ELSE "idle"
        /\ proc'[p].turn = r.turn /\ proc'[p].cmd = r.cmd
        /\ \A q \in Processes \ {p} : proc'[q] = proc[q]
    BY <1>0, <1>9 DEF GiveUp, Process
  <2>2. r.cmd.kind # "ask" => (Inside(p, "project") <=> Both(r))
    BY <1>0, <2>1, ConfigConstants DEF Inside, Both, Working, Locking
  <2>3. r.cmd.kind = "ask" => ~ Both(r)
    BY DEF Both, Joins
  <2> QED
    BY <2>1, <2>2, <2>3 DEF Passes
<1>10. CASE Read(p)
  <2>1. /\ r.at = "read" /\ proc'[p].turn = r.turn /\ proc'[p].cmd = r.cmd
        /\ r.wants = "project"
        /\ \A q \in Processes \ {p} : proc'[q] = proc[q]
        /\ \/ proc'[p].at = "leave" /\ proc'[p].wants = r.wants
           \/ proc'[p].at = "render" /\ proc'[p].wants = "project"
           \/ proc'[p].at = "take" /\ proc'[p].wants = "machine" /\ r.cmd.kind \in Joins
    <3>1. r.at = "read" /\ r.wants = "project"
      BY <1>0, <1>10 DEF Read, Working, ProjectStages
    <3>2. CASE proc' = [proc EXCEPT ![p].at = "leave", ![p].ok = FALSE]
      BY <1>0, <3>1, <3>2 DEF Process
    <3>3. CASE /\ r.cmd.kind \in Joins
               /\ proc' = [proc EXCEPT ![p].at = "take", ![p].wants = "machine",
                              ![p].copy = Edited(r, InForce), ![p].target = Found]
      BY <1>0, <3>1, <3>3 DEF Process
    <3>4. CASE proc' = [proc EXCEPT ![p].at = "render", ![p].wants = "project",
                              ![p].copy = Edited(r, InForce), ![p].target = Found]
      BY <1>0, <3>1, <3>4 DEF Process
    <3> QED
      BY <1>10, <3>2, <3>3, <3>4 DEF Read
  <2> QED
    BY <2>1 DEF Passes
<1>11. CASE ReadMachine(p)
  <2>1. /\ r.at = "read machine" /\ proc'[p].turn = r.turn /\ proc'[p].cmd = r.cmd
        /\ proc'[p].at \in {"leave machine", "write machine"} /\ proc'[p].wants = r.wants
        /\ \A q \in Processes \ {p} : proc'[q] = proc[q]
    BY <1>0, <1>11 DEF ReadMachine, Process
  <2> QED
    BY <2>1 DEF Passes
<1>12. CASE LeaveMachine(p)
  <2>1. /\ r.at = "leave machine" /\ proc'[p].turn = r.turn /\ proc'[p].cmd = r.cmd
        /\ proc'[p].at = IF r.cmd.kind \in Joins THEN "render" ELSE "idle"
        /\ proc'[p].wants = "project"
        /\ \A q \in Processes \ {p} : proc'[q] = proc[q]
    BY <1>0, <1>12 DEF LeaveMachine, Process
  <2>2. Both(r) <=> r.cmd.kind \in Joins
    BY <1>0, <2>1 DEF Both, Working, MachineStages
  <2> QED
    BY <2>1, <2>2 DEF Passes
<1> QED
  BY <1>2, <1>3, <1>4, <1>5, <1>6, <1>7, <1>8, <1>9, <1>10, <1>11, <1>12 DEF Step

\* Over any step: what is past stays past, a claim goes on or is past, and only
\* taking a lock makes a claim.
LEMMA NextPasses ==
    ASSUME Inv, [Next]_vars, NEW q \in Processes, NEW l \in Locks
    PROVE  /\ \A t \in Nat : Past(proc[q], t, l) => Past(proc'[q], t, l)
           /\ Claiming(proc[q], l) =>
                  \/ Claiming(proc'[q], l) /\ proc'[q].turn = proc[q].turn
                  \/ Past(proc'[q], proc[q].turn, l)
           /\ Claiming(proc'[q], l) =>
                  \/ Claiming(proc[q], l) /\ proc'[q].turn = proc[q].turn
                  \/ Take(q) /\ proc[q].wants = l /\ proc'[q].turn = proc[q].turn
           /\ proc[q].turn \in Nat /\ proc'[q].turn \in Nat
<1>0. /\ proc \in [Processes -> Process] /\ proc' \in [Processes -> Process]
      /\ Working(proc[q]) /\ Working(proc'[q])
      /\ proc[q].turn \in Nat /\ proc'[q].turn \in Nat
  <2>1. Inv'
    BY StepTyped
  <2>2. \A r \in Process : r.turn \in Nat
    BY ConfigConstants DEF Process
  <2> QED
    BY <2>1, <2>2 DEF Inv, TypeOK
<1>1. CASE proc'[q] = proc[q]
  BY <1>0, <1>1
<1>2. CASE Begin(q)
  <2>1. /\ proc[q].at = "idle" /\ proc'[q].turn = proc[q].turn + 1
        /\ proc'[q].at \in {"take", "install"}
        /\ ~ Both(proc'[q])
    BY <1>2, BeginTyped DEF Begin
  <2>2. ~ Both(proc[q])
    BY <2>1 DEF Both, MachineStages, Locking
  <2>3. ~ Claiming(proc[q], l) /\ ~ Claiming(proc'[q], l)
    BY <2>1, <2>2 DEF Claiming, ProjectStages, MachineStages
  <2>4. \A t \in Nat : Past(proc[q], t, l) => Past(proc'[q], t, l)
    BY <1>0, <2>1 DEF Past
  <2> QED
    BY <1>0, <2>3, <2>4
<1>3. CASE Step(q) \/ Crash(q)
  <2>1. /\ Passes(proc[q], proc'[q])
        /\ proc'[q].turn = proc[q].turn /\ proc'[q].cmd = proc[q].cmd
    BY <1>3, StepPasses
  <2>2. proc[q].at # "dead"
    BY <1>3 DEF Step, Crash, Decide, Install, Take, Sign, Judge, Sweep, GiveUp, Read, Render,
       Tidy, Leave, ReadMachine, WriteMachine, LeaveMachine
  <2>3. proc[q].at = "take" /\ proc'[q].at = "sign" => Take(q)
    BY <1>0, <1>3 DEF Step, Crash, Goto, Decide, Install, Sign, Judge, Sweep, GiveUp, Read, Render,
       Tidy, Leave, ReadMachine, WriteMachine, LeaveMachine, Process
  <2> QED
    BY <1>0, <2>1, <2>2, <2>3, PassingKeeps
<1>4. \/ proc'[q] = proc[q] \/ Begin(q) \/ Step(q) \/ Crash(q)
  BY BeginTyped, StepPasses DEF Next, Age, Rest, vars
<1> QED
  BY <1>1, <1>2, <1>3, <1>4

----------------------------------------------------------------------------
(* The lock files.                                                         *)

LEMMA Taken ==
    ASSUME Inv, NEW p \in Processes, Take(p)
    PROVE  LET l == proc[p].wants IN
           /\ l \in Locks /\ lock[l] = None
           /\ lock'[l] = [owner |-> p, turn |-> proc[p].turn, said |-> FALSE, old |-> FALSE]
           /\ \A m \in Locks \ {l} : lock'[m] = lock[m]
           /\ Claiming(proc'[p], l) /\ proc'[p].turn = proc[p].turn
           /\ raced' = raced
<1>1. proc[p] \in Process /\ proc[p].wants \in Locks
  BY ProcTyped DEF Process
<1>2. proc'[p].at = "sign" /\ proc'[p].wants = proc[p].wants /\ proc'[p].turn = proc[p].turn
  BY <1>1 DEF Take, Goto, Inv, TypeOK, Process
<1> QED
  BY <1>1, <1>2 DEF Take, Claiming, Inv, TypeOK

LEMMA Swept ==
    ASSUME Inv, NEW q \in Processes, Sweep(q)
    PROVE  LET l == proc[q].wants IN
           /\ l \in Locks /\ lock'[l] = None
           /\ \A m \in Locks \ {l} : lock'[m] = lock[m]
           /\ l \in raced' \/ lock[l] = None \/ Id(lock[l]) = proc[q].judged
           /\ raced \subseteq raced'
           /\ proc[q].at = "sweep"
<1>1. proc[q].wants \in Locks
  BY ProcTyped DEF Process
<1> QED
  BY <1>1 DEF Sweep, Inv, TypeOK

LEMMA LetGo ==
    ASSUME Inv, NEW q \in Processes, Leave(q) \/ LeaveMachine(q)
    PROVE  \A l \in Locks :
              \/ lock'[l] = lock[l]
              \/ /\ lock'[l] = None /\ lock[l] # None /\ lock[l].owner = q
                 /\ ~ Claiming(proc'[q], l)
<1>1. proc[q] \in Process /\ proc \in [Processes -> Process] /\ lock \in [Locks -> LockFile \cup {None}]
  BY ProcTyped DEF Inv, TypeOK
<1>2. CASE Leave(q)
  <2>1. proc'[q].at \in {"decide", "install", "idle"}
    BY <1>1, <1>2 DEF Leave, Goto, Process
  <2>2. ~ Claiming(proc'[q], "project")
    BY <2>1 DEF Claiming, Both, ProjectStages, MachineStages, Locking
  <2> QED
    BY <1>1, <1>2, <2>2 DEF Leave, Released, Locks
<1>3. CASE LeaveMachine(q)
  <2>1. proc'[q].at \in {"render", "idle"}
    BY <1>1, <1>3 DEF LeaveMachine, Process
  <2>2. ~ Claiming(proc'[q], "machine")
    BY <2>1 DEF Claiming, ProjectStages, MachineStages
  <2> QED
    BY <1>1, <1>3, <2>2 DEF LeaveMachine, Released, Locks
<1> QED
  BY <1>2, <1>3

\* Whatever happens to a lock file.
LEMMA LockChanges ==
    ASSUME Inv, [Next]_vars, NEW l \in Locks
    PROVE  \/ lock'[l] = lock[l]
           \/ \E p \in Processes : Take(p) /\ proc[p].wants = l
           \/ \E q \in Processes : Sweep(q) /\ proc[q].wants = l
           \/ \E q \in Processes : /\ Leave(q) \/ LeaveMachine(q)
                                   /\ lock'[l] = None /\ lock[l] # None /\ lock[l].owner = q
                                   /\ ~ Claiming(proc'[q], l)
           \/ lock[l] # None /\ lock'[l] = [lock[l] EXCEPT !.said = TRUE]
           \/ Age(l) /\ lock'[l] = [lock[l] EXCEPT !.old = TRUE]
<1>0. lock \in [Locks -> LockFile \cup {None}]
  BY DEF Inv, TypeOK
<1>1. ASSUME NEW p \in Processes, Take(p) PROVE lock'[l] = lock[l] \/ proc[p].wants = l
  BY <1>1, Taken
<1>2. ASSUME NEW p \in Processes, Sweep(p) PROVE lock'[l] = lock[l] \/ proc[p].wants = l
  BY <1>2, Swept
<1>3. ASSUME NEW p \in Processes, Sign(p)
      PROVE  lock'[l] = lock[l] \/ (lock[l] # None /\ lock'[l] = [lock[l] EXCEPT !.said = TRUE])
  <2>1. proc[p].wants \in Locks
    BY ProcTyped DEF Process
  <2> QED
    BY <1>0, <1>3, <2>1 DEF Sign
<1>4. ASSUME NEW m \in Locks, Age(m)
      PROVE  lock'[l] = lock[l] \/ (Age(l) /\ lock'[l] = [lock[l] EXCEPT !.old = TRUE])
  <2>1. CASE m = l
    BY <1>0, <1>4, <2>1 DEF Age
  <2>2. CASE m # l
    BY <1>0, <1>4, <2>2 DEF Age
  <2> QED
    BY <2>1, <2>2
<1>5. ASSUME NEW p \in Processes,
             \/ Begin(p) \/ Decide(p) \/ Install(p) \/ Judge(p) \/ GiveUp(p) \/ Read(p)
             \/ Render(p) \/ Tidy(p) \/ ReadMachine(p) \/ WriteMachine(p) \/ Crash(p)
      PROVE  lock'[l] = lock[l]
  BY <1>5, BeginTyped DEF Decide, Install, Judge, GiveUp, Read, Render, Tidy, ReadMachine,
     WriteMachine, Crash
<1>6. CASE UNCHANGED vars
  BY <1>6 DEF vars
<1> QED
  BY <1>1, <1>2, <1>3, <1>4, <1>5, <1>6, LetGo DEF Next, Step, Rest

LEMMA PastNeverClaims ==
    ASSUME NEW r, NEW l, Past(r, r.turn, l), r.turn \in Nat
    PROVE  ~ Claiming(r, l)
<1>1. ~ r.turn > r.turn
  OBVIOUS
<1>2. r.at = "dead" => ~ Claiming(r, l)
  BY DEF Claiming, Both, ProjectStages, MachineStages, Locking
<1> QED
  BY <1>1, <1>2 DEF Past

\* Of the maker of a lock file, through a step.
LEMMA MakerGoesOn ==
    ASSUME Inv, [Next]_vars, NEW l \in Locks, NEW o \in Processes, NEW t \in Nat,
           (Claiming(proc[o], l) /\ proc[o].turn = t) \/ Past(proc[o], t, l)
    PROVE  (Claiming(proc'[o], l) /\ proc'[o].turn = t) \/ Past(proc'[o], t, l)
  BY NextPasses

LEMMA LockFileFields ==
    ASSUME Inv, NEW l \in Locks, lock[l] # None
    PROVE  /\ lock[l] \in LockFile /\ lock[l].owner \in Processes /\ lock[l].turn \in Nat
           /\ \A k : k \in {[lock[l] EXCEPT !.said = TRUE], [lock[l] EXCEPT !.old = TRUE]} =>
                 k # None /\ k.owner = lock[l].owner /\ k.turn = lock[l].turn
           /\ [lock[l] EXCEPT !.said = TRUE].old = lock[l].old
<1>1. lock[l] \in LockFile
  BY DEF Inv, TypeOK
<1>2. lock[l].turn \in Nat
  BY <1>1, ConfigConstants DEF LockFile
<1>3. [lock[l] EXCEPT !.said = TRUE] \in LockFile /\ [lock[l] EXCEPT !.old = TRUE] \in LockFile
  BY <1>1 DEF LockFile
<1> QED
  BY <1>1, <1>2, <1>3, ConfigConstants DEF LockFile

LEMMA StepAccounted == ASSUME IInv, [Next]_vars PROVE LocksAccounted'
<1> USE DEF IInv
<1> SUFFICES ASSUME NEW l \in Locks, lock'[l] # None
             PROVE  LET r == proc'[lock'[l].owner] IN
                    /\ (Claiming(r, l) /\ r.turn = lock'[l].turn) \/ Past(r, lock'[l].turn, l)
                    /\ lock'[l].old => Past(r, lock'[l].turn, l)
  BY DEF LocksAccounted
<1>1. ASSUME lock[l] # None, lock'[l].owner = lock[l].owner, lock'[l].turn = lock[l].turn,
             lock'[l].old = lock[l].old
      PROVE  LET r == proc'[lock'[l].owner] IN
             /\ (Claiming(r, l) /\ r.turn = lock'[l].turn) \/ Past(r, lock'[l].turn, l)
             /\ lock'[l].old => Past(r, lock'[l].turn, l)
  <2>1. lock[l].owner \in Processes /\ lock[l].turn \in Nat
    BY <1>1, LockFileFields
  <2>2. LET r == proc[lock[l].owner] IN
        /\ (Claiming(r, l) /\ r.turn = lock[l].turn) \/ Past(r, lock[l].turn, l)
        /\ lock[l].old => Past(r, lock[l].turn, l)
    BY <1>1 DEF LocksAccounted
  <2> QED
    BY <1>1, <2>1, <2>2, MakerGoesOn, NextPasses
<1>2. CASE lock'[l] = lock[l]
  BY <1>1, <1>2
<1>3. ASSUME NEW p \in Processes, Take(p), proc[p].wants = l
      PROVE  /\ lock'[l].owner = p /\ Claiming(proc'[p], l) /\ proc'[p].turn = lock'[l].turn
             /\ ~ lock'[l].old
  <2>1. /\ lock'[l] = [owner |-> p, turn |-> proc[p].turn, said |-> FALSE, old |-> FALSE]
        /\ Claiming(proc'[p], l) /\ proc'[p].turn = proc[p].turn
    BY <1>3, Taken
  <2> QED
    BY <2>1
<1>4. ASSUME NEW q \in Processes, Sweep(q), proc[q].wants = l PROVE FALSE
  BY <1>4, Swept
<1>5. CASE lock[l] # None /\ lock'[l] = [lock[l] EXCEPT !.said = TRUE]
  BY <1>1, <1>5, LockFileFields
<1>6. CASE Age(l) /\ lock'[l] = [lock[l] EXCEPT !.old = TRUE]
  <2> DEFINE o == lock[l].owner
             t == lock[l].turn
  <2>1. /\ lock[l] # None /\ o \in Processes /\ t \in Nat /\ proc' = proc
        /\ lock'[l].owner = o /\ lock'[l].turn = t
    BY <1>6, LockFileFields DEF Age
  <2>2. \/ proc[o].at = "dead" \/ proc[o].turn # t
        \/ ~ (Inside(o, l) \/ (proc[o].at = "sign" /\ proc[o].wants = l))
    BY <1>6 DEF Age, Alive
  <2>3. proc[o].at = "dead" \/ proc[o].turn # t \/ ~ Claiming(proc[o], l)
    BY <2>1, <2>2, InsideIsClaiming
  <2>4. (Claiming(proc[o], l) /\ proc[o].turn = t) \/ Past(proc[o], t, l)
    BY <2>1 DEF LocksAccounted
  <2>5. Past(proc[o], t, l)
    BY <2>3, <2>4 DEF Past
  <2> QED
    BY <2>1, <2>5
<1> QED
  BY <1>2, <1>3, <1>4, <1>5, <1>6, LockChanges

LEMMA StepJudged == ASSUME IInv, [Next]_vars PROVE JudgedArePast'
<1> USE DEF IInv
<1> SUFFICES ASSUME NEW p \in Processes, proc'[p].at = "sweep"
             PROVE  Past(proc'[proc'[p].judged[1]], proc'[p].judged[2], proc'[p].wants)
  BY DEF JudgedArePast
<1>1. proc[p] \in Process /\ Working(proc[p]) /\ proc[p].wants \in Locks
  BY ProcTyped DEF Process
<1>2. CASE proc'[p] = proc[p]
  <2>1. /\ proc[p].judged[1] \in Processes /\ proc[p].judged[2] \in Nat
        /\ Past(proc[proc[p].judged[1]], proc[p].judged[2], proc[p].wants)
    <3>1. proc[p].judged \in Processes \X (1..Turns)
      BY <1>1, <1>2 DEF Working
    <3>2. proc[p].judged[1] \in Processes /\ proc[p].judged[2] \in 1..Turns
      BY <3>1
    <3> QED
      BY <1>2, <3>2, ConfigConstants DEF JudgedArePast
  <2> QED
    BY <1>1, <1>2, <2>1, NextPasses
<1>3. CASE Judge(p)
  <2> DEFINE l == proc[p].wants
             k == lock[l]
  <2>1. proc'[p].wants = l /\ proc'[p].judged = <<k.owner, k.turn>> /\ k # None
    BY <1>1, <1>3 DEF Judge, Id, Process, Inv, TypeOK
  <2>2. k.owner \in Processes /\ k.turn \in Nat
    BY <1>1, <2>1, LockFileFields
  <2>3. Past(proc[k.owner], k.turn, l)
    BY <1>1, <1>3, <2>1 DEF Judge, Abandoned, Alive, LocksAccounted, Past
  <2>4. Past(proc'[k.owner], k.turn, l)
    BY <1>1, <2>2, <2>3, NextPasses
  <2> QED
    BY <2>1, <2>4
<1>4. proc'[p] = proc[p] \/ Judge(p)
  <2>1. ASSUME Step(p) \/ Crash(p) PROVE Judge(p)
    <3>1. proc[p].at = "take"
      BY <2>1, StepPasses DEF Passes
    <3>2. Judge(p) \/ Take(p) \/ GiveUp(p) \/ Crash(p)
      BY <2>1, <3>1 DEF Step, Decide, Install, Sign, Sweep, Read, Render, Tidy, Leave,
         ReadMachine, WriteMachine, LeaveMachine
    <3>3. ~ Take(p) /\ ~ GiveUp(p) /\ ~ Crash(p)
      BY <1>1 DEF Take, GiveUp, Crash, Goto, Process, Inv, TypeOK
    <3> QED
      BY <3>2, <3>3
  <2> QED
    BY <2>1, BeginTyped, StepPasses DEF Next, Age, Rest, vars
<1> QED
  BY <1>2, <1>3, <1>4

LEMMA RacedStays == ASSUME Inv, [Next]_vars PROVE raced \subseteq raced'
  BY BeginTyped, Swept, ZenonT(30) DEF Next, Step, Crash, Age, Rest, vars, files, Decide,
     Install, Take, Sign, Judge, GiveUp, Read, Render, Tidy, Leave, ReadMachine, WriteMachine,
     LeaveMachine

LEMMA StepClaims == ASSUME IInv, [Next]_vars PROVE ClaimsHold'
<1> USE DEF IInv
<1> SUFFICES ASSUME NEW l \in Locks, l \notin raced', NEW p \in Processes, Claiming(proc'[p], l)
             PROVE  lock'[l] # None /\ lock'[l].owner = p /\ lock'[l].turn = proc'[p].turn
  BY DEF ClaimsHold
<1>1. l \notin raced
  BY RacedStays
<1>2. CASE Take(p) /\ proc[p].wants = l
  <2>1. [owner |-> p, turn |-> proc[p].turn, said |-> FALSE, old |-> FALSE] # None
    <3>1. proc[p].turn \in 1..Turns
      BY <1>2, ProcTyped DEF Take, Working
    <3>2. [owner |-> p, turn |-> proc[p].turn, said |-> FALSE, old |-> FALSE] \in LockFile
      BY <3>1 DEF LockFile
    <3> QED
      BY <3>2, ConfigConstants
  <2>2. /\ lock'[l] = [owner |-> p, turn |-> proc[p].turn, said |-> FALSE, old |-> FALSE]
        /\ proc'[p].turn = proc[p].turn
    BY <1>2, Taken
  <2> QED
    BY <2>1, <2>2
<1>3. CASE Claiming(proc[p], l) /\ proc'[p].turn = proc[p].turn
  <2>1. /\ lock[l] # None /\ lock[l].owner = p /\ lock[l].turn = proc[p].turn
        /\ proc[p].turn \in Nat
    BY <1>1, <1>3, NextPasses DEF ClaimsHold
  <2>2. ASSUME NEW q \in Processes, Take(q), proc[q].wants = l PROVE FALSE
    BY <2>1, <2>2, Taken
  <2>3. ASSUME NEW q \in Processes, Sweep(q), proc[q].wants = l PROVE FALSE
    <3>1. proc[q].judged = <<p, proc[p].turn>> /\ proc[q].at = "sweep"
      BY <2>1, <2>3, Swept DEF Id
    <3>2. Past(proc[p], proc[p].turn, l)
      BY <2>3, <3>1 DEF JudgedArePast
    <3> QED
      BY <1>3, <2>1, <3>2, PastNeverClaims
  <2>4. ASSUME NEW q \in Processes, lock[l].owner = q, ~ Claiming(proc'[q], l) PROVE FALSE
    BY <2>1, <2>4
  <2> QED
    BY <1>3, <2>1, <2>2, <2>3, <2>4, LockChanges, LockFileFields, ZenonT(30)
<1> QED
  BY <1>2, <1>3, NextPasses

LEMMA Exclusion == IInv /\ [Next]_vars => IInv'
  BY StepTyped, StepAccounted, StepJudged, StepClaims DEF IInv

LEMMA InitExcludes == Init => IInv
<1> SUFFICES ASSUME Init PROVE IInv
  OBVIOUS
<1>1. Inv
  BY InitTyped
<1>2. \A p \in Processes : proc[p].at = "idle" /\ \A l \in Locks : ~ Claiming(proc[p], l)
  BY DEF Init, Unused, Claiming, Both, ProjectStages, MachineStages, Locking
<1>3. LocksAccounted
  BY DEF Init, LocksAccounted
<1>4. JudgedArePast /\ ClaimsHold
  BY <1>2 DEF JudgedArePast, ClaimsHold
<1> QED
  BY <1>1, <1>3, <1>4 DEF IInv

\* Two processes that claim the same lock are one, but for a raced lock.
LEMMA OneClaim ==
    ASSUME IInv, NEW l \in Locks, l \notin raced, NEW p \in Processes, NEW q \in Processes,
           Claiming(proc[p], l), Claiming(proc[q], l)
    PROVE  p = q
  BY DEF IInv, ClaimsHold

\* The steps of the commands, without their fairness.
Safely == Init /\ [][Next]_vars

LEMMA WritersExclude == Safely => []OneWriter
<1>1. IInv => OneWriter
  BY InsideIsClaiming, OneClaim DEF OneWriter, IInv
<1> QED
  BY <1>1, InitExcludes, Exclusion, PTL DEF Safely

\* No two processes are between reading and replacing the same file, whoever
\* dies, whatever is left behind, and however often a lock is taken back, unless
\* a reclaim removed a lock that it had not judged (locking.exclusive).
THEOREM OneWriterAtATime == Spec => []OneWriter
BY WritersExclude, PTL DEF Spec, Safely

----------------------------------------------------------------------------
(* What the writers keep.                                                  *)

Recording(content) == \A e \in recorded : content.agents[e] # None

\* The holder of the project's lock will write where the file in force is, and
\* everybody who is recorded; a file that was moved is there before its
\* predecessor goes.
WritersKeep ==
    \A p \in Processes :
        /\ proc[p].at = "render" \/ Both(proc[p]) =>
               proc[p].target = Found /\ Recording(proc[p].copy)
        /\ proc[p].at = "tidy" => file["current"] # None

FilesKeep == "project" \notin raced => WritersKeep /\ Recording(InForce)

LEMMA EditedKeeps ==
    ASSUME Inv, NEW r \in Process, r.cmd \in Command, NEW content \in Content, Recording(content)
    PROVE  Recording(Edited(r, content))
<1> DEFINE c == r.cmd
           mine == content.agents[c.engine]
           new == Edited(r, content).agents[c.engine]
<1>1. /\ c.engine \in Engines /\ recorded \subseteq Engines
      /\ content.agents \in [Engines -> Entry \cup {None}]
      /\ Edited(r, content).agents \in [Engines -> Entry \cup {None}]
  BY EditedTyped DEF Command, Content, Inv, TypeOK
<1>2. \A e \in Engines \ {c.engine} : Edited(r, content).agents[e] = content.agents[e]
  BY <1>1 DEF Edited
<1>3. mine # None => new # None
  <2> DEFINE held == IF mine = None THEN NoEntry ELSE mine
             kept == KeptToken(r, mine)
  <2>1. held \in Entry /\ DOMAIN held = {"token", "off"}
    BY <1>1, BlankTyped DEF Entry
  <2>2. kept \in Hubs \cup {None}
    BY <1>1 DEF KeptToken, Process, Entry, Command
  <2>3. /\ [token |-> kept, off |-> FALSE] \in Entry
        /\ [held EXCEPT !.off = TRUE] \in Entry
        /\ [held EXCEPT !.off = FALSE] \in Entry
        /\ [held EXCEPT !.token = r.hub] \in Entry
        /\ [held EXCEPT !.token = None] \in Entry
    BY <2>1, <2>2 DEF Entry, Process
  <2>4. new \in Entry \/ new = mine
    <3>1. new = CASE c.kind \in Joins -> [token |-> kept, off |-> FALSE]
                   [] c.kind = "decline" -> [held EXCEPT !.off = TRUE]
                   [] c.kind = "ask" -> [held EXCEPT !.off = FALSE]
                   [] c.kind = "set" /\ c.token -> [held EXCEPT !.token = r.hub]
                   [] c.kind = "set" /\ ~c.token -> held
                   [] c.kind = "unset" /\ c.token -> [held EXCEPT !.token = None]
                   [] OTHER -> mine
      BY <1>1 DEF Edited
    <3> HIDE DEF new, held, mine, kept
    <3> QED
      BY <2>1, <2>3, <3>1 DEF Joins
  <2> QED
    BY <2>4, ConfigConstants
<1> QED
  BY <1>1, <1>2, <1>3 DEF Recording

\* Only reading the file under the lock makes what will be written.
Carried(r, s) ==
    /\ s.at = "render" \/ Both(s) =>
           (r.at = "render" \/ Both(r)) /\ s.target = r.target /\ s.copy = r.copy
    /\ s.at # "tidy"

LEMMA OthersCarry ==
    ASSUME Inv, NEW p \in Processes,
           \/ Begin(p) \/ Crash(p) \/ Decide(p) \/ Install(p) \/ Take(p) \/ Sign(p) \/ Judge(p)
           \/ Sweep(p) \/ GiveUp(p) \/ Leave(p) \/ ReadMachine(p) \/ WriteMachine(p)
           \/ LeaveMachine(p)
    PROVE  /\ Carried(proc[p], proc'[p])
           /\ \A q \in Processes \ {p} : proc'[q] = proc[q]
           /\ UNCHANGED <<file, recorded>>
<1> DEFINE r == proc[p]
           s == proc'[p]
<1>0. /\ r \in Process /\ Working(r) /\ proc \in [Processes -> Process]
      /\ r.wants \in Locks
  BY ProcTyped DEF Inv, TypeOK, Process
<1>1. CASE Begin(p)
  <2>1. s.at \in {"take", "install"} /\ ~ Both(s) /\ \A q \in Processes \ {p} : proc'[q] = proc[q]
    BY <1>1, BeginTyped
  <2>2. UNCHANGED <<file, recorded>>
    BY <1>1, BeginRuns DEF Run
  <2> QED
    BY <2>1, <2>2 DEF Carried
<1>2. CASE Crash(p) \/ Decide(p) \/ Install(p) \/ Leave(p) \/ Take(p) \/ Sign(p) \/ WriteMachine(p)
  <2>1. PICK stage \in Stages :
            /\ proc' = [proc EXCEPT ![p].at = stage]
            /\ \/ stage \in {"dead", "idle", "install", "decide"}
               \/ r.at \in {"take", "sign", "write machine"}
                  /\ stage \in {"sign", "read", "read machine", "leave machine"}
    BY <1>2 DEF Crash, Decide, Install, Leave, Take, Sign, WriteMachine, Goto, Stages
  <2>2. /\ s.at = stage /\ s.wants = r.wants /\ s.cmd = r.cmd /\ s.target = r.target
        /\ s.copy = r.copy
        /\ \A q \in Processes \ {p} : proc'[q] = proc[q]
    BY <1>0, <2>1 DEF Process
  <2>3. Both(s) => Both(r)
    BY <2>1, <2>2 DEF Both, Locking, MachineStages
  <2>4. UNCHANGED <<file, recorded>>
    BY <1>2 DEF Crash, Decide, Install, Leave, Take, Sign, WriteMachine, files
  <2> QED
    BY <2>1, <2>2, <2>3, <2>4 DEF Carried
<1>3. CASE Judge(p) \/ Sweep(p)
  <2>1. /\ s.at \in {"take", "sweep"} /\ r.at \in {"take", "sweep"}
        /\ s.wants = r.wants /\ s.cmd = r.cmd
        /\ s.target = r.target /\ s.copy = r.copy
        /\ \A q \in Processes \ {p} : proc'[q] = proc[q]
    <3>1. CASE Judge(p)
      BY <1>0, <3>1 DEF Judge, Process
    <3>2. CASE Sweep(p)
      BY <1>0, <3>2 DEF Sweep, Process
    <3> QED
      BY <1>3, <3>1, <3>2
  <2>2. Both(s) => Both(r)
    BY <2>1 DEF Both, Locking
  <2>3. UNCHANGED <<file, recorded>>
    BY <1>3 DEF Judge, Sweep, files
  <2> QED
    BY <2>1, <2>2, <2>3 DEF Carried
<1>4. CASE GiveUp(p)
  <2>1. /\ s.at \in {"install", "leave", "idle"} /\ s.wants = "project"
        /\ \A q \in Processes \ {p} : proc'[q] = proc[q]
        /\ UNCHANGED <<file, recorded>>
    BY <1>0, <1>4 DEF GiveUp, Process, files
  <2> QED
    BY <2>1 DEF Carried, Both
<1>5. CASE ReadMachine(p)
  <2>1. /\ r.at = "read machine" /\ s.at \in {"leave machine", "write machine"}
        /\ s.wants = r.wants /\ s.cmd = r.cmd /\ s.target = r.target
        /\ r.cmd.kind \in Joins => s.copy = r.copy
        /\ \A q \in Processes \ {p} : proc'[q] = proc[q]
        /\ UNCHANGED <<file, recorded>>
    BY <1>0, <1>5 DEF ReadMachine, Process, files
  <2> QED
    BY <2>1 DEF Carried, Both, MachineStages
<1>6. CASE LeaveMachine(p)
  <2>1. /\ r.at = "leave machine" /\ s.at = IF r.cmd.kind \in Joins THEN "render" ELSE "idle"
        /\ s.wants = "project" /\ s.cmd = r.cmd /\ s.target = r.target /\ s.copy = r.copy
        /\ \A q \in Processes \ {p} : proc'[q] = proc[q]
        /\ UNCHANGED <<file, recorded>>
    BY <1>0, <1>6 DEF LeaveMachine, Process, files
  <2>2. r.cmd.kind \in Joins => Both(r)
    BY <1>0, <2>1 DEF Both, Working, MachineStages
  <2> QED
    BY <2>1, <2>2 DEF Carried, Both
<1> QED
  BY <1>1, <1>2, <1>3, <1>4, <1>5, <1>6

LEMMA StepKeeps ==
    ASSUME IInv, FilesKeep, [Next]_vars
    PROVE  FilesKeep'
<1> SUFFICES ASSUME "project" \notin raced' PROVE WritersKeep' /\ Recording(InForce)'
  BY DEF FilesKeep
<1>0. /\ Inv /\ "project" \notin raced /\ WritersKeep /\ Recording(InForce)
      /\ "project" \in Locks
  BY RacedStays DEF FilesKeep, IInv, Locks
<1>1. ASSUME UNCHANGED <<file, recorded>>,
             \A q \in Processes :
                \/ proc'[q] = proc[q]
                \/ Carried(proc[q], proc'[q])
                \/ /\ proc'[q].target = Found /\ Recording(proc'[q].copy)
                   /\ proc'[q].at # "tidy"
      PROVE  WritersKeep' /\ Recording(InForce)'
  <2>1. Found' = Found /\ InForce' = InForce
    BY <1>1 DEF Found, InForce
  <2>2. Recording(InForce)'
    BY <1>0, <1>1, <2>1 DEF Recording
  <2>3. ASSUME NEW q \in Processes, proc'[q].at = "render" \/ Both(proc'[q])
        PROVE  proc'[q].target = Found /\ \A e \in recorded : proc'[q].copy.agents[e] # None
    BY <1>0, <1>1, <2>3 DEF WritersKeep, Carried, Recording
  <2>4. ASSUME NEW q \in Processes, proc'[q].at = "tidy" PROVE file["current"] # None
    BY <1>0, <1>1, <2>4 DEF WritersKeep, Carried
  <2> QED
    BY <1>1, <2>1, <2>2, <2>3, <2>4 DEF WritersKeep, Recording, Both
<1>2. CASE UNCHANGED vars \/ Rest \/ \E l \in Locks : Age(l)
  BY <1>1, <1>2 DEF vars, Rest, Age, files
<1>3. ASSUME NEW p \in Processes,
           \/ Begin(p) \/ Crash(p) \/ Decide(p) \/ Install(p) \/ Take(p) \/ Sign(p) \/ Judge(p)
           \/ Sweep(p) \/ GiveUp(p) \/ Leave(p) \/ ReadMachine(p) \/ WriteMachine(p)
           \/ LeaveMachine(p)
      PROVE  WritersKeep' /\ Recording(InForce)'
  <2>1. /\ Carried(proc[p], proc'[p])
        /\ \A q \in Processes \ {p} : proc'[q] = proc[q]
        /\ UNCHANGED <<file, recorded>>
    BY <1>0, <1>3, OthersCarry
  <2> QED
    BY <1>1, <2>1
<1>4. ASSUME NEW p \in Processes, Read(p) PROVE WritersKeep' /\ Recording(InForce)'
  <2> DEFINE r == proc[p]
  <2>0. r \in Process /\ Working(r) /\ proc \in [Processes -> Process] /\ r.cmd \in Command
    BY <1>0, <1>4, ProcTyped, ConfigConstants DEF Inv, TypeOK, Read, Working
  <2>1. Recording(Edited(r, InForce))
    BY <1>0, <2>0, InForceTyped, EditedKeeps DEF Inv
  <2>2. \A q \in Processes \ {p} : proc'[q] = proc[q]
    BY <1>0, <1>4, StepPasses DEF Step
  <2>3. CASE proc' = [proc EXCEPT ![p].at = "leave", ![p].ok = FALSE]
    <3>1. proc'[p].at = "leave"
      BY <2>0, <2>3 DEF Process
    <3>2. Carried(proc[p], proc'[p])
      BY <3>1 DEF Carried, Both, Locking, MachineStages
    <3> QED
      BY <1>1, <1>4, <2>2, <3>2 DEF Read, files
  <2>4. CASE \/ proc' = [proc EXCEPT ![p].at = "take", ![p].wants = "machine",
                           ![p].copy = Edited(r, InForce), ![p].target = Found]
             \/ proc' = [proc EXCEPT ![p].at = "render", ![p].wants = "project",
                           ![p].copy = Edited(r, InForce), ![p].target = Found]
    <3>1. proc'[p].target = Found /\ proc'[p].copy = Edited(r, InForce) /\ proc'[p].at # "tidy"
      BY <2>0, <2>4 DEF Process
    <3>2. Recording(proc'[p].copy)
      BY <2>1, <3>1
    <3> QED
      BY <1>1, <1>4, <2>2, <3>1, <3>2 DEF Read, files
  <2> QED
    BY <1>4, <2>3, <2>4 DEF Read
<1>5. ASSUME NEW p \in Processes, Claiming(proc[p], "project")
      PROVE  \A q \in Processes \ {p} :
                proc[q].at # "render" /\ ~ Both(proc[q]) /\ proc[q].at # "tidy"
  BY <1>0, <1>5, OneClaim DEF Claiming, ProjectStages
<1>6. ASSUME NEW p \in Processes, Render(p) PROVE WritersKeep' /\ Recording(InForce)'
  <2> DEFINE r == proc[p]
             landed == Landing(r.target)
  <2>0. /\ r \in Process /\ Working(r) /\ r.at = "render" /\ r.target = Found /\ r.copy \in Content
        /\ Recording(r.copy) /\ file \in [Names -> Content \cup {None}]
    BY <1>0, <1>6, ProcTyped DEF Render, WritersKeep, Inv, TypeOK, Working
  <2>1. r.copy # None
    BY <2>0, ConfigConstants
  <2>2. /\ landed \in Names /\ file' = [file EXCEPT ![landed] = r.copy]
        /\ landed = "legacy" => file["current"] = None
    BY <1>6, <2>0 DEF Render, Landing, Found, Names
  <2>3. InForce' = r.copy /\ (landed = "current" => file'["current"] # None)
    BY <2>0, <2>1, <2>2 DEF InForce, Found, Names
  <2>4. recorded' = recorded \cup {e \in Engines : r.copy.agents[e] # None}
    BY <1>6 DEF Render
  <2>5. Recording(InForce)'
    BY <2>0, <2>3, <2>4 DEF Recording
  <2>6. \A q \in Processes \ {p} : proc'[q] = proc[q]
    BY <1>0, <1>6, StepPasses DEF Step
  <2>7. /\ proc'[p].at \in {"tidy", "leave"}
        /\ proc'[p].at = "tidy" => landed # Found
    BY <1>0, <1>6, <2>0 DEF Render, Goto, Process, Inv, TypeOK
  <2>8. landed # Found => landed = "current"
    BY <2>0 DEF Landing, Found
  <2>9. \A q \in Processes \ {p} :
           proc[q].at # "render" /\ ~ Both(proc[q]) /\ proc[q].at # "tidy"
    BY <1>5, <2>0 DEF Claiming, ProjectStages
  <2>10. ASSUME NEW q \in Processes
         PROVE  /\ proc'[q].at # "render" /\ ~ Both(proc'[q])
                /\ proc'[q].at = "tidy" => file'["current"] # None
    <3>1. CASE q = p
      BY <2>3, <2>7, <2>8, <3>1 DEF Both, Locking, MachineStages
    <3>2. CASE q # p
      BY <2>6, <2>9, <3>2
    <3> QED
      BY <3>1, <3>2
  <2> QED
    BY <2>5, <2>10 DEF WritersKeep, Both
<1>7. ASSUME NEW p \in Processes, Tidy(p) PROVE WritersKeep' /\ Recording(InForce)'
  <2>0. /\ proc[p].at = "tidy" /\ file["current"] # None /\ recorded' = recorded
        /\ file' = [file EXCEPT !["legacy"] = None] /\ file \in [Names -> Content \cup {None}]
    BY <1>0, <1>7 DEF Tidy, WritersKeep, Inv, TypeOK
  <2>1. InForce' = InForce /\ file'["current"] # None
    BY <2>0 DEF InForce, Found, Names
  <2>2. Recording(InForce)'
    BY <1>0, <2>0, <2>1 DEF Recording
  <2>3. proc'[p].at = "leave" /\ \A q \in Processes \ {p} : proc'[q] = proc[q]
    BY <1>0, <1>7, StepPasses DEF Step, Tidy, Goto, Inv, TypeOK, Process
  <2>4. \A q \in Processes \ {p} :
           proc[q].at # "render" /\ ~ Both(proc[q]) /\ proc[q].at # "tidy"
    BY <1>5, <2>0 DEF Claiming, ProjectStages
  <2>5. ASSUME NEW q \in Processes
         PROVE proc'[q].at # "render" /\ ~ Both(proc'[q]) /\ proc'[q].at # "tidy"
    <3>1. CASE q = p
      BY <2>3, <3>1 DEF Both, Locking, MachineStages
    <3>2. CASE q # p
      BY <2>3, <2>4, <3>2
    <3> QED
      BY <3>1, <3>2
  <2> QED
    BY <2>2, <2>5 DEF WritersKeep, Both
<1> QED
  BY <1>2, <1>3, <1>4, <1>6, <1>7 DEF Next, Step

LEMMA IdentitiesStay == Safely => []IdentitiesKept
<1>1. Init => FilesKeep
  <2> SUFFICES ASSUME Init PROVE FilesKeep
    OBVIOUS
  <2>1. Recording(InForce)
    BY DEF Init, Recording
  <2>2. WritersKeep
    BY DEF Init, Unused, WritersKeep, Both, Locking, MachineStages
  <2> QED
    BY <2>1, <2>2 DEF FilesKeep
<1>2. FilesKeep => IdentitiesKept
  BY DEF FilesKeep, IdentitiesKept, Recording
<1>3. IInv /\ FilesKeep /\ [Next]_vars => FilesKeep'
  BY StepKeeps
<1> QED
  BY <1>1, <1>2, <1>3, InitExcludes, Exclusion, PTL DEF Safely

\* An engine that a finished write gave an identity keeps one in the file that
\* is in force, whatever the other commands write, at every step of the move
\* from the legacy name, and wherever a writer dies (write_config,
\* migrate_project_name), but for a raced lock.
THEOREM IdentitiesAreKept == Spec => []IdentitiesKept
BY IdentitiesStay, PTL DEF Spec, Safely

----------------------------------------------------------------------------
(* The machine's hub.                                                      *)

\* A join that is about to write the machine's file found no other hub there.
JoinsDefer ==
    "machine" \notin raced => \A p \in Processes :
        proc[p].at = "write machine" /\ proc[p].cmd.kind \in Joins =>
            machine.hub \in {None, proc[p].hub}

LEMMA MachineWriters ==
    ASSUME Inv, [Next]_vars
    PROVE  UNCHANGED machine \/ \E p \in Processes : WriteMachine(p)
  BY BeginRuns, ZenonT(30) DEF Next, Step, Crash, Age, Rest, vars, files, Run, Decide, Install,
     Take, Sign, Judge, Sweep, GiveUp, Read, Render, Tidy, Leave, ReadMachine, LeaveMachine

LEMMA StepDefers ==
    ASSUME IInv, JoinsDefer, [Next]_vars
    PROVE  JoinsDefer'
<1> SUFFICES ASSUME "machine" \notin raced', NEW p \in Processes,
                    proc'[p].at = "write machine", proc'[p].cmd.kind \in Joins
             PROVE  machine'.hub \in {None, proc'[p].hub}
  BY DEF JoinsDefer
<1>0. Inv /\ "machine" \notin raced /\ "machine" \in Locks
  BY RacedStays DEF IInv, Locks
<1>1. CASE proc'[p] = proc[p]
  <2>1. ASSUME NEW q \in Processes, WriteMachine(q) PROVE FALSE
    <3>1. proc[q].at = "write machine" /\ proc'[q].at = "leave machine"
      BY <1>0, <2>1 DEF WriteMachine, Goto, Inv, TypeOK, Process
    <3>2. p = q
      BY <1>0, <1>1, <3>1, OneClaim DEF Claiming, MachineStages
    <3> QED
      BY <1>1, <3>1, <3>2
  <2>2. UNCHANGED machine
    BY <1>0, <2>1, MachineWriters
  <2> QED
    BY <1>0, <1>1, <2>2 DEF JoinsDefer
<1>2. CASE ReadMachine(p)
  <2>1. /\ proc[p] \in Process /\ proc \in [Processes -> Process]
    BY <1>0, ProcTyped DEF Inv, TypeOK
  <2>2. /\ ~ Declines(proc[p]) /\ proc'[p].cmd = proc[p].cmd /\ proc'[p].hub = proc[p].hub
        /\ UNCHANGED machine
    BY <1>2, <2>1 DEF ReadMachine, Process, files
  <2> QED
    BY <2>2 DEF Declines
<1>3. proc'[p] = proc[p] \/ ReadMachine(p)
  <2>1. ASSUME Step(p) \/ Crash(p) PROVE ReadMachine(p)
    <3>1. proc[p].at = "read machine"
      BY <1>0, <2>1, StepPasses DEF Passes
    <3>2. ReadMachine(p) \/ Crash(p)
      BY <2>1, <3>1 DEF Step, Decide, Install, Take, Sign, Judge, Sweep, GiveUp, Read, Render, Tidy,
         Leave, WriteMachine, LeaveMachine
    <3>3. ~ Crash(p)
      <4>1. proc \in [Processes -> Process]
        BY <1>0 DEF Inv, TypeOK
      <4> QED
        BY <4>1 DEF Crash, Goto, Process
    <3> QED
      BY <3>2, <3>3
  <2> QED
    BY <1>0, <2>1, BeginTyped, StepPasses DEF Next, Age, Rest, vars
<1> QED
  BY <1>1, <1>2, <1>3

LEMMA ChosenHubStays == Safely => ChosenHubKept
<1> DEFINE Kept ==
        \/ machine.hub \in {None, machine.hub'}
        \/ "machine" \in raced
        \/ \E p \in Processes : proc[p].at = "write machine" /\ proc'[p].at = "leave machine"
                                /\ proc[p].cmd.kind \notin Joins
<1>1. Init => JoinsDefer
  <2>1. Init => \A p \in Processes : proc[p].at = "idle"
    BY DEF Init, Unused
  <2> QED
    BY <2>1 DEF JoinsDefer
<1>2. IInv /\ JoinsDefer /\ [Next]_vars => JoinsDefer'
  BY StepDefers
<1>3. IInv /\ JoinsDefer /\ [Next]_vars => Kept
  <2> SUFFICES ASSUME Inv, JoinsDefer, [Next]_vars, "machine" \notin raced PROVE Kept
    BY DEF IInv
  <2>1. CASE UNCHANGED machine
    BY <2>1
  <2>2. ASSUME NEW p \in Processes, WriteMachine(p) PROVE Kept
    <3>1. /\ proc[p].at = "write machine" /\ proc'[p].at = "leave machine"
          /\ machine' = Merged(proc[p]) /\ machine \in Machine
      BY <2>2 DEF WriteMachine, Goto, Inv, TypeOK, Process
    <3>2. CASE proc[p].cmd.kind \in Joins
      <4>1. machine'.hub = proc[p].hub
        BY <3>1, <3>2 DEF Merged, Machine
      <4>2. machine.hub \in {None, proc[p].hub}
        BY <3>1, <3>2 DEF JoinsDefer
      <4> QED
        BY <4>1, <4>2
    <3> QED
      BY <3>1, <3>2
  <2> QED
    BY <2>1, <2>2, MachineWriters
<1> QED
  BY <1>1, <1>2, <1>3, InitExcludes, Exclusion, PTL DEF Safely, ChosenHubKept

\* A hub that the machine's file names is changed by whoever sets or unsets it
\* there; a join, however late, never changes one that is set
\* (_set_machine_hub), but for a raced lock.
THEOREM ChosenHubsAreKept == Spec => ChosenHubKept
BY ChosenHubStays, PTL DEF Spec, Safely

-----------------------------------------------------------------------------
(* The parts, side by side *)

\* A step in a behaviour of a part is a step of the part, or leaves it alone.
LEMMA InstallingStep ==
    ASSUME [MachineNext]_machineVars, part' = "hooks"
    PROVE  part = "hooks" /\ [Installing!Next]_(Installing!vars)
BY DEF MachineNext, machineVars, installing, Installing!vars

LEMMA BrowserStep ==
    ASSUME [MachineNext]_machineVars, part' = "browser"
    PROVE  part = "browser" /\ [Browser!Next]_(Browser!vars)
BY DEF MachineNext, machineVars, browser, Browser!vars, Browser!hub

-----------------------------------------------------------------------------
(* Hook files (Hooks) *)

\* The instance has a copy of FiniteSets; the theorems are about the original.
LEMMA InstallingCount == \A S : Installing!Cardinality(S) = Cardinality(S)
BY DEF Installing!Cardinality, Cardinality

\* A file that parses, has the hooks of others that it should, and one of ours
\* for every event or for none.
Good(s, w) ==
    /\ s \in Installing!Settings /\ Installing!TheirsIn(s) = w
    /\ \A e \in HookEvents : Installing!OursIn(s, e) = {} \/ \E g : Installing!OursIn(s, e) = {g}
    /\ \A e \in HookEvents : Installing!OursIn(s, e) = {} <=> Installing!OursIn(s, "Stop") = {}

LEMMA BlankGood ==
    ASSUME Installing!HooksConstants
    PROVE  Installing!Blank \in Installing!Settings /\ Installing!TheirsIn(Installing!Blank) = {} /\ Good(Installing!Blank, {})
<1>1. Installing!Blank \in Installing!Settings /\ \A e \in HookEvents : Installing!Blank[e] = {}
  BY DEF Installing!Blank, Installing!Settings
<1>2. Installing!TheirsIn(Installing!Blank) = {} /\ \A e \in HookEvents : Installing!OursIn(Installing!Blank, e) = {}
  BY <1>1 DEF Installing!TheirsIn, Installing!OursIn
<1>3. Installing!OursIn(Installing!Blank, "Stop") = {}
  BY <1>2 DEF Installing!HooksConstants
<1> QED
  BY <1>1, <1>2, <1>3 DEF Good

LEMMA Group ==
    ASSUME NEW s \in Installing!Settings, NEW e \in HookEvents
    PROVE  s[e] \subseteq SUBSET Installing!Hook /\ {} \notin s[e]
BY DEF Installing!Settings

LEMMA Stripped ==
    ASSUME Installing!HooksConstants, NEW s \in Installing!Settings
    PROVE  /\ Installing!Strip(s) \in Installing!Settings
           /\ Installing!TheirsIn(Installing!Strip(s)) = Installing!TheirsIn(s)
           /\ \A e \in HookEvents : Installing!OursIn(Installing!Strip(s), e) = {}
<1>1. \A e \in HookEvents : Installing!Strip(s)[e] = {g \ Installing!Ours : g \in s[e]} \ {{}}
  BY DEF Installing!Strip
<1>2. ASSUME NEW e \in HookEvents
      PROVE Installing!Strip(s)[e] \subseteq (SUBSET Installing!Hook) \ {{}}
  BY <1>1, Group
<1>3. Installing!Strip(s) \in Installing!Settings
  BY <1>2 DEF Installing!Strip, Installing!Settings
<1>4. \A e \in HookEvents : Installing!OursIn(Installing!Strip(s), e) = {}
  BY <1>1 DEF Installing!OursIn
<1>5. ASSUME NEW e \in HookEvents, NEW hook \in Others
      PROVE  (\E g \in Installing!Strip(s)[e] : hook \in g) <=> (\E g \in s[e] : hook \in g)
  <2>1. hook \notin Installing!Ours
    BY DEF Installing!HooksConstants
  <2>2. ASSUME NEW g \in s[e],
               hook \in g PROVE g \ Installing!Ours \in Installing!Strip(s)[e] /\ hook \in g \ Installing!Ours
    BY <1>1, <2>1, <2>2
  <2>3. ASSUME NEW g \in Installing!Strip(s)[e], hook \in g PROVE \E f \in s[e] : hook \in f
    BY <1>1, <2>3
  <2> QED
    BY <2>2, <2>3
<1>6. Installing!TheirsIn(Installing!Strip(s)) = Installing!TheirsIn(s)
  BY <1>5 DEF Installing!TheirsIn
<1> QED
  BY <1>3, <1>4, <1>6

LEMMA StripGood ==
    ASSUME Installing!HooksConstants, NEW s, NEW w, Good(s, w)
    PROVE  Good(Installing!Strip(s), w)
<1>1. "Stop" \in HookEvents
  BY DEF Installing!HooksConstants
<1> QED
  BY <1>1, Stripped DEF Good

LEMMA Applied ==
    ASSUME Installing!HooksConstants, NEW s \in Installing!Settings, NEW held
    PROVE  /\ Installing!Apply(s, held) \in Installing!Settings
           /\ Installing!TheirsIn(Installing!Apply(s, held)) = Installing!TheirsIn(s)
           /\ \A e \in HookEvents : \E g : Installing!OursIn(Installing!Apply(s, held), e) = {g}
<1> DEFINE new(e) == IF held /\ e = "Stop" THEN "hold" ELSE "check"
<1>1. \A e \in HookEvents : Installing!Apply(s, held)[e] = Installing!Strip(s)[e] \cup {{new(e)}}
  BY DEF Installing!Apply
<1>2. \A e : new(e) \in Installing!Ours /\ {new(e)} \in (SUBSET Installing!Hook) \ {{}}
  BY DEF Installing!Ours, Installing!Hook
<1> HIDE DEF new
<1>3. Installing!Apply(s, held) \in [HookEvents -> SUBSET ((SUBSET Installing!Hook) \ {{}})]
  <2>1. \A e \in HookEvents : Installing!Strip(s)[e] \subseteq (SUBSET Installing!Hook) \ {{}}
    BY Stripped DEF Installing!Settings
  <2>2. ASSUME NEW e \in HookEvents
        PROVE Installing!Apply(s, held)[e] \subseteq (SUBSET Installing!Hook) \ {{}}
    <3>1. /\ Installing!Apply(s, held)[e] = Installing!Strip(s)[e] \cup {{new(e)}}
          /\ Installing!Strip(s)[e] \subseteq (SUBSET Installing!Hook) \ {{}}
          /\ {new(e)} \in (SUBSET Installing!Hook) \ {{}}
      BY <1>1, <1>2, <2>1
    <3> QED
      BY <3>1
  <2>3. Installing!Apply(s, held) = [e \in HookEvents |-> Installing!Apply(s, held)[e]]
    BY DEF Installing!Apply
  <2> QED
    BY <2>2, <2>3
<1>4. ASSUME NEW e \in HookEvents
      PROVE Installing!OursIn(Installing!Apply(s, held), e) = {{new(e)}}
  <2>1. \A g \in Installing!Strip(s)[e] : g \cap Installing!Ours = {}
    BY Stripped DEF Installing!OursIn
  <2>2. {new(e)} \cap Installing!Ours # {}
    BY <1>2
  <2> QED
    BY <1>1, <2>1, <2>2 DEF Installing!OursIn
<1>5. Installing!TheirsIn(Installing!Apply(s, held)) = Installing!TheirsIn(Installing!Strip(s))
  <2>1. \A e : new(e) \notin Others
    BY <1>2 DEF Installing!HooksConstants
  <2>2. ASSUME NEW e \in HookEvents, NEW hook \in Others
        PROVE  (\E g \in Installing!Apply(s, held)[e] : hook \in g) <=> (\E g \in Installing!Strip(s)[e] : hook \in g)
    BY <1>1, <2>1
  <2> QED
    BY <2>2 DEF Installing!TheirsIn
<1> QED
  BY <1>3, <1>4, <1>5, Stripped DEF Installing!Settings

LEMMA ApplyGood ==
    ASSUME Installing!HooksConstants, NEW s, NEW w, NEW held, Good(s, w)
    PROVE  Good(Installing!Apply(s, held), w)
<1>1. "Stop" \in HookEvents
  BY DEF Installing!HooksConstants
<1>2. s \in Installing!Settings /\ Installing!TheirsIn(s) = w
  BY DEF Good
<1>3. /\ Installing!Apply(s, held) \in Installing!Settings
      /\ Installing!TheirsIn(Installing!Apply(s, held)) = w
      /\ \A e \in HookEvents : \E g : Installing!OursIn(Installing!Apply(s, held), e) = {g}
  BY <1>2, Applied
<1> QED
  BY <1>1, <1>3 DEF Good

LEMMA AddedHook ==
    ASSUME Installing!HooksConstants, NEW s, NEW w, Good(s, w), NEW e \in HookEvents,
           NEW hook \in Others,
           NEW g \in s[e] \cup {{}}
    PROVE  Good([s EXCEPT ![e] = (@ \ {g}) \cup {g \cup {hook}}], w \cup {<<e, hook>>})
<1>1. s \in Installing!Settings /\ g \subseteq Installing!Hook
  BY Group DEF Good
<1>2. PICK more : more = (s[e] \ {g}) \cup {g \cup {hook}}
  OBVIOUS
<1>3. PICK t : t = [s EXCEPT ![e] = more]
  OBVIOUS
<1>4. more \in SUBSET ((SUBSET Installing!Hook) \ {{}})
  <2>1. hook \in Installing!Hook
    BY DEF Installing!Hook
  <2>2. g \cup {hook} \in (SUBSET Installing!Hook) \ {{}}
    BY <1>1, <2>1
  <2>3. s[e] \subseteq (SUBSET Installing!Hook) \ {{}}
    BY <1>1, Group
  <2> QED
    BY <1>2, <2>2, <2>3
<1>5. t \in Installing!Settings /\ t[e] = more /\ \A f \in HookEvents \ {e} : t[f] = s[f]
  BY <1>1, <1>3, <1>4 DEF Installing!Settings
<1>6. hook \notin Installing!Ours
  BY DEF Installing!HooksConstants
<1>7. ASSUME NEW f \in HookEvents, f # e PROVE Installing!OursIn(t, f) = Installing!OursIn(s, f)
  BY <1>5, <1>7 DEF Installing!OursIn
<1>8. /\ Installing!OursIn(s, e) = {} => Installing!OursIn(t, e) = {}
      /\ \A a : Installing!OursIn(s, e) = {a} => \E b : Installing!OursIn(t, e) = {b}
  <2>1. CASE g \cap Installing!Ours = {}
    <3>1. (g \cup {hook}) \cap Installing!Ours = {}
      BY <1>6, <2>1
    <3>2. Installing!OursIn(t, e) = Installing!OursIn(s, e)
      BY <1>2, <1>5, <2>1, <3>1 DEF Installing!OursIn
    <3> QED
      BY <3>2
  <2>2. CASE g \cap Installing!Ours # {}
    <3>1. g \in Installing!OursIn(s, e)
      BY <2>2 DEF Installing!OursIn
    <3>2. (g \cup {hook}) \cap Installing!Ours # {}
      BY <2>2
    <3>3. Installing!OursIn(t, e) = (Installing!OursIn(s, e) \ {g}) \cup {g \cup {hook}}
      BY <1>2, <1>5, <3>2 DEF Installing!OursIn
    <3>4. ASSUME NEW a,
                 Installing!OursIn(s, e) = {a} PROVE Installing!OursIn(t, e) = {g \cup {hook}}
      BY <3>1, <3>3, <3>4
    <3> QED
      BY <3>1, <3>4
  <2> QED
    BY <2>1, <2>2
<1>9. \A f \in HookEvents : Installing!OursIn(t, f) = {} \/ \E b : Installing!OursIn(t, f) = {b}
  BY <1>7, <1>8 DEF Good
<1>10. \A f \in HookEvents : Installing!OursIn(t, f) = {} <=> Installing!OursIn(s, f) = {}
  <2>1. Installing!OursIn(t, e) = {} => Installing!OursIn(s, e) = {}
    <3>1. ASSUME NEW b PROVE {b} # {}
      OBVIOUS
    <3> QED
      BY <1>8, <3>1 DEF Good
  <2> QED
    BY <1>7, <1>8, <2>1
<1>11. \A f \in HookEvents : Installing!OursIn(t, f) = {} <=> Installing!OursIn(t, "Stop") = {}
  <2>1. "Stop" \in HookEvents
    BY DEF Installing!HooksConstants
  <2> QED
    BY <1>10, <2>1 DEF Good
<1>12. ASSUME NEW f \in HookEvents, NEW o \in Others
       PROVE  (\E a \in t[f] : o \in a) <=> ((\E a \in s[f] : o \in a) \/ (f = e /\ o = hook))
  <2>1. CASE f # e
    BY <1>5, <2>1
  <2>2. CASE f = e
    <3>1. \A a \in s[e] : a \in more \/ a = g
      BY <1>2
    <3>2. \A a \in more : a \in s[e] \/ a = g \cup {hook}
      BY <1>2
    <3>3. g \cup {hook} \in more /\ (g = {} \/ g \in s[e])
      BY <1>2
    <3> QED
      BY <1>5, <2>2, <3>1, <3>2, <3>3
  <2> QED
    BY <2>1, <2>2
<1>13. Installing!TheirsIn(t) = Installing!TheirsIn(s) \cup {<<e, hook>>}
  BY <1>12 DEF Installing!TheirsIn
<1>14. Good(t, w \cup {<<e, hook>>})
  BY <1>5, <1>9, <1>11, <1>13 DEF Good
<1> QED
  BY <1>2, <1>3, <1>14

LEMMA TakenHook ==
    ASSUME Installing!HooksConstants, NEW s, NEW w, Good(s, w), NEW e \in HookEvents,
           NEW hook \in Others
    PROVE  Good([s EXCEPT ![e] = {g \ {hook} : g \in @} \ {{}}], w \ {<<e, hook>>})
<1>1. s \in Installing!Settings
  BY DEF Good
<1>2. PICK less : less = {g \ {hook} : g \in s[e]} \ {{}}
  OBVIOUS
<1>3. PICK t : t = [s EXCEPT ![e] = less]
  OBVIOUS
<1>4. less \in SUBSET ((SUBSET Installing!Hook) \ {{}})
  BY <1>1, <1>2, Group
<1>5. t \in Installing!Settings /\ t[e] = less /\ \A f \in HookEvents \ {e} : t[f] = s[f]
  BY <1>1, <1>3, <1>4 DEF Installing!Settings
<1>6. hook \notin Installing!Ours
  BY DEF Installing!HooksConstants
<1>7. ASSUME NEW f \in HookEvents, f # e PROVE Installing!OursIn(t, f) = Installing!OursIn(s, f)
  BY <1>5, <1>7 DEF Installing!OursIn
<1>8. Installing!OursIn(t, e) = {g \ {hook} : g \in Installing!OursIn(s, e)}
  <2>1. \A g : (g \ {hook}) \cap Installing!Ours # {} <=> g \cap Installing!Ours # {}
    BY <1>6
  <2>2. \A g : (g \ {hook}) \cap Installing!Ours # {} => g \ {hook} # {}
    OBVIOUS
  <2> QED
    BY <1>2, <1>5, <2>1, <2>2 DEF Installing!OursIn
<1>9. \A f \in HookEvents : Installing!OursIn(t, f) = {} \/ \E b : Installing!OursIn(t, f) = {b}
  <2>2. ASSUME NEW a,
               Installing!OursIn(s, e) = {a} PROVE Installing!OursIn(t, e) = {a \ {hook}}
    BY <1>8, <2>2
  <2>3. Installing!OursIn(t, e) = {} \/ \E b : Installing!OursIn(t, e) = {b}
    BY <1>8, <2>2 DEF Good
  <2> QED
    BY <1>7, <2>3 DEF Good
<1>10. \A f \in HookEvents : Installing!OursIn(t, f) = {} <=> Installing!OursIn(s, f) = {}
  BY <1>7, <1>8
<1>11. \A f \in HookEvents : Installing!OursIn(t, f) = {} <=> Installing!OursIn(t, "Stop") = {}
  <2>1. "Stop" \in HookEvents
    BY DEF Installing!HooksConstants
  <2> QED
    BY <1>10, <2>1 DEF Good
<1>12. ASSUME NEW f \in HookEvents, NEW o \in Others
       PROVE  (\E a \in t[f] : o \in a) <=> ((\E a \in s[f] : o \in a) /\ ~(f = e /\ o = hook))
  <2>1. CASE f # e
    BY <1>5, <2>1
  <2>2. CASE f = e
    <3>1. ASSUME NEW a \in less, o \in a PROVE o # hook /\ \E b \in s[e] : o \in b
      BY <1>2, <3>1
    <3>2. ASSUME NEW a \in s[e], o \in a,
                 o # hook PROVE a \ {hook} \in less /\ o \in a \ {hook}
      BY <1>2, <3>2
    <3> QED
      BY <1>5, <2>2, <3>1, <3>2
  <2> QED
    BY <2>1, <2>2
<1>13. Installing!TheirsIn(t) = Installing!TheirsIn(s) \ {<<e, hook>>}
  BY <1>12 DEF Installing!TheirsIn
<1>14. Good(t, w \ {<<e, hook>>})
  BY <1>5, <1>9, <1>11, <1>13 DEF Good
<1> QED
  BY <1>2, <1>3, <1>14

\* The fields of an installer's record.
Fields == {"step", "run", "at", "text", "fd", "rules", "known"}
\* Stages in which an installer has read the file and not yet put its own there.
AtWork == {"opening", "writing", "renaming"}

\* The shape that nested updates of the records need.
Shaped ==
    /\ DOMAIN op = Installers /\ \A q \in Installers : DOMAIN op[q] = Fields
    /\ DOMAIN hookFile = Installing!Harnesses
    /\ DOMAIN tmp = Installing!Harnesses
    /\ DOMAIN wanted = Installing!Harnesses

\* The file itself,
FileSound(h) ==
    \A s, w : s = (IF hookFile[h] = None THEN Installing!Blank ELSE hookFile[h]) /\ w = wanted[h] => Good(s, w)
\* what an installer is about to write,
TextSound(h) ==
    \A p \in Installers : \A s, w :
        op[p].step \in AtWork /\ Files[op[p].at] = h /\ s = op[p].text /\ w = wanted[h]
            => Good(s, w)
\* and what it has written and will rename, are good;
TmpSound(h) ==
    /\ \A p \in Installers : \A s, w :
          op[p].step = "renaming" /\ Files[op[p].at] = h /\ s = tmp[h] /\ w = wanted[h]
              => Good(s, w)
    /\ \A p \in Installers :
          op[p].step = "writing" /\ Files[op[p].at] = h => op[p].fd = "tmp"
\* one installer at a time is at work on the file,
Alone(h) ==
    \A p, q \in Installers :
        /\ op[p].step \in AtWork /\ op[q].step \in AtWork
        /\ Files[op[p].at] = h /\ Files[op[q].at] = h
        => p = q
\* unless the file is one where two were (crossed).
Sound(h) == FileSound(h) /\ TextSound(h) /\ TmpSound(h) /\ Alone(h)

\* Every shared file that was never crossed is sound, at every step of a write.
HookInv == Shaped /\ \A h \in SharedFiles \ crossed : Sound(h)

LEMMA GoodIsFile ==
    ASSUME Installing!HooksConstants, NEW s, NEW w, Good(s, w)
    PROVE  s \notin {None, Torn}
BY DEF Good, Installing!HooksConstants

LEMMA HooksInit ==
    ASSUME Installing!HooksConstants, Installing!Init
    PROVE  HookInv
<1>1. DOMAIN Installing!Idle = Fields /\ Installing!Idle.step = "idle"
  BY DEF Installing!Idle, Fields
<1>2. Shaped
  BY <1>1 DEF Shaped, Installing!Init
<1>3. ASSUME NEW h \in SharedFiles PROVE Sound(h)
  <2>1. hookFile[h] = None /\ wanted[h] = {}
    BY DEF Installing!Init, Installing!HooksConstants
  <2>2. \A p \in Installers : op[p].step = "idle"
    BY <1>1 DEF Installing!Init
  <2>3. FileSound(h)
    BY <2>1, BlankGood DEF FileSound
  <2> QED
    BY <2>2, <2>3 DEF Sound, TextSound, TmpSound, Alone, AtWork
<1> QED
  BY <1>2, <1>3 DEF HookInv

\* A file that the step does not touch, and nobody begins or goes on at.
LEMMA Elsewhere ==
    ASSUME NEW h \in SharedFiles, Sound(h),
           hookFile'[h] = hookFile[h], tmp'[h] = tmp[h], wanted'[h] = wanted[h],
           \A q \in Installers :
               \/ op'[q].step \notin AtWork
               \/ Files[op'[q].at] # h
               \/ /\ op'[q].step = op[q].step /\ op'[q].at = op[q].at
                  /\ op'[q].text = op[q].text /\ op'[q].fd = op[q].fd
    PROVE  Sound(h)'
<1>1. FileSound(h)'
  BY DEF Sound, FileSound
<1>2. TextSound(h)'
  BY DEF Sound, TextSound
<1>3. TmpSound(h)'
  BY DEF Sound, TmpSound, AtWork
<1>4. Alone(h)'
  BY DEF Sound, Alone
<1> QED
  BY <1>1, <1>2, <1>3, <1>4 DEF Sound

\* One installer's step that leaves it at no file.
LEMMA Leaves ==
    ASSUME Installing!HooksConstants, HookInv, NEW p \in Installers,
           op' = [op EXCEPT ![p] = op'[p]], DOMAIN op'[p] = Fields,
           op'[p].step \notin AtWork,
           hookFile' = hookFile, tmp' = tmp, wanted' = wanted, crossed \subseteq crossed'
    PROVE  HookInv'
<1>1. \A q \in Installers \ {p} : op'[q] = op[q]
  BY DEF HookInv, Shaped
<1>2. Shaped'
  BY <1>1 DEF HookInv, Shaped
<1>3. ASSUME NEW h \in SharedFiles \ crossed' PROVE Sound(h)'
  BY <1>1, Elsewhere DEF HookInv
<1> QED
  BY <1>2, <1>3 DEF HookInv

LEMMA OnwardsOf ==
    ASSUME Shaped, NEW p \in Installers
    PROVE  /\ Installing!Onwards(p) = [op EXCEPT ![p] = Installing!Onwards(p)[p]]
           /\ DOMAIN Installing!Onwards(p)[p] = Fields
           /\ Installing!Onwards(p)[p].step \notin AtWork
<1>1. PICK r : r = Installing!Idle
  OBVIOUS
<1>2. DOMAIN r = Fields /\ r.step = "idle"
  BY <1>1 DEF Installing!Idle, Fields
<1>3. PICK a, rules : a = op[p].run /\ rules = (IF Installing!At(p) \in Hidden THEN <<Installing!At(p), "state">> ELSE <<"state">>)
  OBVIOUS
<1>4. PICK b : b = op[p].at + 1
  OBVIOUS
<1>5. PICK r1 : r1 = [r EXCEPT !.step = "hiding", !.run = a, !.rules = rules]
  OBVIOUS
<1>6. PICK r2 : r2 = [r EXCEPT !.step = "reading", !.run = "uninstall", !.at = b]
  OBVIOUS
<1>7. DOMAIN r1 = Fields /\ r1.step = "hiding"
  BY <1>2, <1>5 DEF Fields
<1>8. DOMAIN r2 = Fields /\ r2.step = "reading"
  BY <1>2, <1>6 DEF Fields
<1>9. \E x \in {r, r1, r2} : Installing!Onwards(p) = [op EXCEPT ![p] = x]
  BY <1>1, <1>3, <1>4, <1>5, <1>6 DEF Installing!Onwards, Installing!Done
<1>10. PICK x \in {r, r1, r2} : Installing!Onwards(p) = [op EXCEPT ![p] = x]
  BY <1>9
<1>11. DOMAIN x = Fields /\ x.step \notin AtWork
  BY <1>2, <1>7, <1>8 DEF AtWork
<1>12. Installing!Onwards(p)[p] = x
  BY <1>10 DEF Shaped
<1> QED
  BY <1>10, <1>11, <1>12

LEMMA GoneOn ==
    ASSUME Installing!HooksConstants, HookInv, NEW p \in Installers, NEW r,
           op' = [op EXCEPT ![p] = r], DOMAIN r = Fields, r.step \notin AtWork,
           hookFile' = hookFile, tmp' = tmp, wanted' = wanted, crossed \subseteq crossed'
    PROVE  HookInv'
<1>1. op'[p] = r
  BY DEF HookInv, Shaped
<1> QED
  BY <1>1, Leaves

LEMMA IdleShape == DOMAIN Installing!Idle = Fields /\ Installing!Idle.step = "idle" /\ "idle" \notin AtWork
BY DEF Installing!Idle, Fields, AtWork

LEMMA StartKeeps ==
    ASSUME Installing!HooksConstants, HookInv, NEW p \in Installers,
           \E run \in {"install", "held", "uninstall"}, at \in DOMAIN Files : Installing!Start(p, run, at)
    PROVE  HookInv'
<1>1. PICK run, at : Installing!Start(p, run, at)
  OBVIOUS
<1>2. PICK r : r = [op[p] EXCEPT !.step = "reading", !.run = run, !.at = at]
  OBVIOUS
<1>3. DOMAIN r = Fields /\ r.step = "reading"
  BY <1>2 DEF HookInv, Shaped, Fields
<1>4. op' = [op EXCEPT ![p] = r]
  BY <1>1, <1>2 DEF Installing!Start
<1> QED
  BY <1>1, <1>3, <1>4, GoneOn DEF Installing!Start, AtWork

LEMMA HideKeeps ==
    ASSUME Installing!HooksConstants, HookInv, NEW p \in Installers,
           Installing!EnsureIgnored(p) \/ Installing!AppendRule(p) \/ Installing!Finish(p) \/ Installing!Killed(p)
    PROVE  HookInv'
<1>1. hookFile' = hookFile /\ tmp' = tmp /\ wanted' = wanted /\ crossed' = crossed
  BY DEF Installing!EnsureIgnored, Installing!AppendRule, Installing!Finish,
     Installing!Killed
<1>2. DOMAIN op[p] = Fields
  BY DEF HookInv, Shaped
<1>3. \E r : op' = [op EXCEPT ![p] = r] /\ DOMAIN r = Fields /\ r.step \notin AtWork
  <2>1. CASE Installing!EnsureIgnored(p)
    <3>1. PICK known : known = gitignore
      OBVIOUS
    <3>2. PICK r1 : r1 = [op[p] EXCEPT !.rules = Tail(@)]
      OBVIOUS
    <3>3. PICK r2 : r2 = [op[p] EXCEPT !.step = "appending", !.known = known]
      OBVIOUS
    <3>4. DOMAIN r1 = Fields /\ r1.step = op[p].step
      BY <1>2, <3>2 DEF Fields
    <3>5. DOMAIN r2 = Fields /\ r2.step = "appending"
      BY <1>2, <3>3 DEF Fields
    <3>6. op' = [op EXCEPT ![p] = r1] \/ op' = [op EXCEPT ![p] = r2]
      BY <2>1, <3>1, <3>2, <3>3 DEF Installing!EnsureIgnored
    <3>7. op[p].step = "hiding"
      BY <2>1 DEF Installing!EnsureIgnored
    <3> QED
      BY <3>4, <3>5, <3>6, <3>7 DEF AtWork
  <2>2. CASE Installing!AppendRule(p)
    <3>1. PICK r : r = [op[p] EXCEPT !.step = "hiding", !.rules = Tail(@), !.known = {}]
      OBVIOUS
    <3>2. DOMAIN r = Fields /\ r.step = "hiding"
      BY <1>2, <3>1 DEF Fields
    <3>3. op' = [op EXCEPT ![p] = r]
      BY <2>2, <3>1 DEF Installing!AppendRule
    <3> QED
      BY <3>2, <3>3 DEF AtWork
  <2>3. CASE Installing!Finish(p) \/ Installing!Killed(p)
    <3>1. op' = [op EXCEPT ![p] = Installing!Idle]
      BY <2>3 DEF Installing!Finish, Installing!Killed, Installing!Done
    <3> QED
      BY <3>1, IdleShape
  <2> QED
    BY <2>1, <2>2, <2>3
<1> QED
  BY <1>1, <1>3, GoneOn

\* What a step does to the file that its installer is at.
LEMMA AtOne ==
    ASSUME Installing!HooksConstants, HookInv, NEW p \in Installers, NEW h,
           Shaped', wanted' = wanted, crossed \subseteq crossed',
           \A g \in Installing!Harnesses \ {h} : hookFile'[g] = hookFile[g] /\ tmp'[g] = tmp[g],
           \A q \in Installers \ {p} :
               /\ op'[q].step = op[q].step /\ op'[q].at = op[q].at
               /\ op'[q].text = op[q].text
               /\ Files[op[q].at] # h => op'[q].fd = op[q].fd,
           op'[p].step \notin AtWork \/ Files[op'[p].at] = h,
           h \in SharedFiles \ crossed' => Sound(h)'
    PROVE  HookInv'
<1>1. ASSUME NEW g \in SharedFiles \ crossed', g # h PROVE Sound(g)'
  <2>1. g \in Installing!Harnesses \ {h} /\ Sound(g)
    BY <1>1 DEF HookInv, Installing!HooksConstants
  <2> QED
    BY <1>1, <2>1, Elsewhere
<1> QED
  BY <1>1 DEF HookInv

LEMMA ReadKeeps ==
    ASSUME Installing!HooksConstants, HookInv, NEW p \in Installers, Installing!Read(p)
    PROVE  HookInv'
<1>1. PICK h : h = Files[op[p].at]
  OBVIOUS
<1>2. h \in SharedFiles /\ crossed' = (IF Installing!Busy(h) = {} THEN crossed ELSE crossed \cup {h})
  BY <1>1 DEF Installing!Read, Installing!At, Installing!Crossing
<1>3. hookFile' = hookFile /\ tmp' = tmp /\ wanted' = wanted /\ crossed \subseteq crossed'
  BY <1>2 DEF Installing!Read
<1>4. CASE op' = Installing!Done(p)
  BY <1>3, <1>4, IdleShape, GoneOn DEF Installing!Done
<1>5. CASE op' = Installing!Onwards(p)
  <2>1. Shaped
    BY DEF HookInv
  <2> QED
    BY <1>3, <1>5, <2>1, OnwardsOf, GoneOn
<1>6. CASE /\ op' = [op EXCEPT ![p].step = "opening",
                               ![p].text = IF hookFile[h] = None THEN Installing!Blank ELSE hookFile[h]]
           /\ hookFile[h] # Torn
  <2>1. PICK text : text = (IF hookFile[h] = None THEN Installing!Blank ELSE hookFile[h])
    OBVIOUS
  <2>2. PICK r : r = [op[p] EXCEPT !.step = "opening", !.text = text]
    OBVIOUS
  <2>3. DOMAIN r = Fields /\ r.step = "opening" /\ r.text = text /\ r.at = op[p].at
    BY <2>2 DEF HookInv, Shaped, Fields
  <2>4. op' = [op EXCEPT ![p] = r]
    BY <1>6, <2>1, <2>2
  <2>5. op'[p] = r /\ \A q \in Installers \ {p} : op'[q] = op[q]
    BY <2>4 DEF HookInv, Shaped
  <2>6. Shaped'
    BY <1>3, <2>3, <2>4, <2>5 DEF HookInv, Shaped
  <2>7. ASSUME h \in SharedFiles \ crossed' PROVE Sound(h)'
    <3>1. Installing!Busy(h) = {} /\ Sound(h)
      BY <1>2, <2>7 DEF HookInv
    <3>2. \A q \in Installers : op[q].step \in AtWork => Files[op[q].at] # h
      BY <3>1 DEF Installing!Busy, Installing!At, AtWork
    <3>3. FileSound(h)'
      BY <1>3, <3>1 DEF Sound, FileSound
    <3>4. Good(text, wanted[h])
      BY <2>1, <3>1 DEF Sound, FileSound
    <3>5. TextSound(h)'
      BY <1>3, <2>3, <2>5, <3>2, <3>4 DEF TextSound
    <3>6. TmpSound(h)'
      BY <2>3, <2>5, <3>2 DEF TmpSound, AtWork
    <3>7. Alone(h)'
      BY <2>5, <3>2 DEF Alone
    <3> QED
      BY <3>3, <3>5, <3>6, <3>7 DEF Sound
  <2> QED
    BY <1>1, <1>3, <2>3, <2>5, <2>6, <2>7, AtOne
<1> QED
  BY <1>1, <1>4, <1>5, <1>6 DEF Installing!Read, Installing!At

LEMMA ReadNothingKeeps ==
    ASSUME Installing!HooksConstants, HookInv, NEW p \in Installers,
           Installing!ReadNothing(p)
    PROVE  HookInv'
<1>1. PICK h : h = Files[op[p].at]
  OBVIOUS
<1>2. h \notin SharedFiles /\ tmp' = tmp /\ wanted' = wanted /\ crossed \subseteq crossed'
  BY <1>1 DEF Installing!ReadNothing, Installing!At, Installing!Crossing
<1>3. CASE hookFile' = [hookFile EXCEPT ![h] = None] /\ op' = Installing!Onwards(p)
  <2>1. Shaped
    BY DEF HookInv
  <2>2. PICK r : r = Installing!Onwards(p)[p]
    OBVIOUS
  <2>3. op' = [op EXCEPT ![p] = r] /\ DOMAIN r = Fields /\ r.step \notin AtWork
    BY <1>3, <2>1, <2>2, OnwardsOf
  <2>4. op'[p] = r /\ \A q \in Installers \ {p} : op'[q] = op[q]
    BY <2>1, <2>3 DEF Shaped
  <2>5. Shaped'
    BY <1>2, <1>3, <2>1, <2>3, <2>4 DEF Shaped
  <2>6. \A g \in Installing!Harnesses \ {h} : hookFile'[g] = hookFile[g] /\ tmp'[g] = tmp[g]
    BY <1>2, <1>3, <2>1 DEF Shaped
  <2> QED
    BY <1>2, <2>3, <2>4, <2>5, <2>6, AtOne
<1>4. CASE Installing!Go(p, "opening") /\ hookFile' = hookFile
  <2>2. PICK r : r = [op[p] EXCEPT !.step = "opening"]
    OBVIOUS
  <2>3. DOMAIN r = Fields /\ r.at = op[p].at
    BY <2>2 DEF HookInv, Shaped, Fields
  <2>4. op' = [op EXCEPT ![p] = r]
    BY <1>4, <2>2 DEF Installing!Go
  <2>5. op'[p] = r /\ \A q \in Installers \ {p} : op'[q] = op[q]
    BY <2>4 DEF HookInv, Shaped
  <2>6. Shaped'
    BY <1>2, <1>4, <2>3, <2>4, <2>5 DEF HookInv, Shaped
  <2> QED
    BY <1>1, <1>2, <1>4, <2>3, <2>5, <2>6, AtOne
<1> QED
  BY <1>1, <1>3, <1>4 DEF Installing!ReadNothing, Installing!At

LEMMA OpenKeeps ==
    ASSUME Installing!HooksConstants, HookInv, NEW p \in Installers, Installing!Open(p)
    PROVE  HookInv'
<1>1. PICK h : h = Files[op[p].at]
  OBVIOUS
<1>2. PICK r : r = [op[p] EXCEPT !.step = "writing", !.fd = "tmp"]
  OBVIOUS
<1>3. /\ DOMAIN r = Fields /\ r.at = op[p].at /\ r.text = op[p].text
      /\ r.step = "writing" /\ r.fd = "tmp"
  BY <1>2 DEF HookInv, Shaped, Fields
<1>4. op' = [op EXCEPT ![p] = r] /\ tmp' = [tmp EXCEPT ![h] = Torn]
  BY <1>1, <1>2 DEF Installing!Open, Installing!At
<1>5. hookFile' = hookFile /\ wanted' = wanted /\ crossed' = crossed
  BY DEF Installing!Open
<1>6. op'[p] = r /\ \A q \in Installers \ {p} : op'[q] = op[q]
  BY <1>4 DEF HookInv, Shaped
<1>7. Shaped'
  BY <1>3, <1>4, <1>5, <1>6 DEF HookInv, Shaped
<1>8. \A g \in Installing!Harnesses \ {h} : hookFile'[g] = hookFile[g] /\ tmp'[g] = tmp[g]
  BY <1>4, <1>5 DEF HookInv, Shaped
<1>9. ASSUME h \in SharedFiles \ crossed' PROVE Sound(h)'
  <2>1. Sound(h) /\ op[p].step \in AtWork
    BY <1>5, <1>9 DEF HookInv, Installing!Open, AtWork
  <2>2. \A q \in Installers \ {p} : op[q].step \in AtWork => Files[op[q].at] # h
    BY <1>1, <2>1 DEF Sound, Alone
  <2>3. FileSound(h)'
    BY <1>5, <2>1 DEF Sound, FileSound
  <2>4. TextSound(h)'
    BY <1>1, <1>3, <1>5, <1>6, <2>1, <2>2 DEF Sound, TextSound
  <2>5. TmpSound(h)'
    BY <1>3, <1>6, <2>2 DEF TmpSound, AtWork
  <2>6. Alone(h)'
    BY <1>6, <2>2 DEF Alone
  <2> QED
    BY <2>3, <2>4, <2>5, <2>6 DEF Sound
<1> QED
  BY <1>1, <1>3, <1>5, <1>6, <1>7, <1>8, <1>9, AtOne

LEMMA WriteKeeps ==
    ASSUME Installing!HooksConstants, HookInv, NEW p \in Installers, Installing!Write(p)
    PROVE  HookInv'
<1>1. PICK h : h = Files[op[p].at]
  OBVIOUS
<1>2. PICK out : out = (IF op[p].run = "uninstall" THEN Installing!Strip(op[p].text)
                        ELSE Installing!Installed(h, op[p].text, op[p].run = "held"))
  OBVIOUS
<1>3. PICK r : r = [op[p] EXCEPT !.step = "renaming"]
  OBVIOUS
<1>4. /\ DOMAIN r = Fields /\ r.at = op[p].at /\ r.text = op[p].text
      /\ r.step = "renaming"
  BY <1>3 DEF HookInv, Shaped, Fields
<1>5. /\ op' = [op EXCEPT ![p] = r] /\ op[p].step = "writing"
      /\ tmp' = IF op[p].fd = "tmp" THEN [tmp EXCEPT ![h] = out] ELSE tmp
      /\ hookFile' = IF op[p].fd = "file" THEN [hookFile EXCEPT ![h] = out] ELSE hookFile
      /\ wanted' = wanted /\ crossed' = crossed
  BY <1>1, <1>2, <1>3 DEF Installing!Write, Installing!Go, Installing!At
<1>6. op'[p] = r /\ \A q \in Installers \ {p} : op'[q] = op[q]
  BY <1>5 DEF HookInv, Shaped
<1>7. Shaped'
  BY <1>4, <1>5, <1>6 DEF HookInv, Shaped
<1>8. \A g \in Installing!Harnesses \ {h} : hookFile'[g] = hookFile[g] /\ tmp'[g] = tmp[g]
  BY <1>5 DEF HookInv, Shaped
<1>9. ASSUME h \in SharedFiles \ crossed' PROVE Sound(h)'
  <2>1. Sound(h) /\ op[p].fd = "tmp" /\ h \in Installing!Harnesses
    BY <1>1, <1>5, <1>9 DEF HookInv, Sound, TmpSound, Installing!HooksConstants
  <2>2. \A q \in Installers \ {p} : op[q].step \in AtWork => Files[op[q].at] # h
    BY <1>1, <1>5, <2>1 DEF Sound, Alone, AtWork
  <2>3. hookFile' = hookFile /\ tmp'[h] = out
    BY <1>5, <2>1 DEF HookInv, Shaped
  <2>4. Good(op[p].text, wanted[h])
    BY <1>1, <1>5, <2>1 DEF Sound, TextSound, AtWork
  <2>5. Good(out, wanted[h])
    BY <1>2, <1>9, <2>4, StripGood, ApplyGood DEF Installing!Installed
  <2>6. FileSound(h)'
    BY <1>5, <2>1, <2>3 DEF Sound, FileSound
  <2>7. TextSound(h)'
    BY <1>4, <1>5, <1>6, <2>2, <2>4 DEF TextSound
  <2>8. TmpSound(h)'
    BY <1>4, <1>5, <1>6, <2>2, <2>3, <2>5 DEF TmpSound, AtWork
  <2>9. Alone(h)'
    BY <1>6, <2>2 DEF Alone
  <2> QED
    BY <2>6, <2>7, <2>8, <2>9 DEF Sound
<1> QED
  BY <1>1, <1>4, <1>5, <1>6, <1>7, <1>8, <1>9, AtOne

LEMMA RenameKeeps ==
    ASSUME Installing!HooksConstants, HookInv, NEW p \in Installers, Installing!Rename(p)
    PROVE  HookInv'
<1>1. PICK h : h = Files[op[p].at]
  OBVIOUS
<1>2. op[p].step = "renaming" /\ wanted' = wanted /\ crossed' = crossed
  BY DEF Installing!Rename
<1>3. CASE tmp[h] = None
  <2>1. op' = Installing!Done(p) /\ hookFile' = hookFile /\ tmp' = tmp
    BY <1>1, <1>3 DEF Installing!Rename, Installing!At
  <2> QED
    BY <1>2, <2>1, IdleShape, GoneOn DEF Installing!Done
<1>4. CASE tmp[h] # None
  <2>1. PICK r : r = Installing!Onwards(p)[p]
    OBVIOUS
  <2>2. DOMAIN r = Fields /\ r.step \notin AtWork
    BY <2>1, OnwardsOf DEF HookInv
  <2> DEFINE moved(q) == IF q \in Installing!Busy(h) /\ op[q].fd = "tmp" THEN "file"
                        ELSE IF q \in Installing!Busy(h) /\ op[q].fd = "file" THEN "gone" ELSE op[q].fd
  <2>3. /\ hookFile' = [hookFile EXCEPT ![h] = tmp[h]] /\ tmp' = [tmp EXCEPT ![h] = None]
        /\ op' = [q \in Installers |-> IF q = p THEN r ELSE [op[q] EXCEPT !.fd = moved(q)]]
    BY <1>1, <1>4, <2>1 DEF Installing!Rename, Installing!At
  <2>4. \A q : q \in Installing!Busy(h) => Files[op[q].at] = h
    BY DEF Installing!Busy, Installing!At
  <2>5. op'[p] = r
    BY <2>3
  <2>6. ASSUME NEW q \in Installers \ {p}
        PROVE  /\ op'[q].step = op[q].step /\ op'[q].at = op[q].at
               /\ op'[q].text = op[q].text /\ DOMAIN op'[q] = Fields
               /\ Files[op[q].at] # h => op'[q].fd = op[q].fd
    <3>1. PICK fd : fd = moved(q)
      OBVIOUS
    <3>2. op'[q] = [op[q] EXCEPT !.fd = fd]
      BY <2>3, <3>1
    <3>3. Files[op[q].at] # h => fd = op[q].fd
      BY <2>4, <3>1
    <3>4. DOMAIN op[q] = Fields
      BY DEF HookInv, Shaped
    <3> HIDE DEF moved
    <3> QED
      BY <3>2, <3>3, <3>4 DEF Fields
  <2>7. Shaped'
    <3>1. DOMAIN op' = Installers
      BY <2>3
    <3> HIDE DEF moved
    <3> QED
      BY <1>2, <2>2, <2>3, <2>5, <2>6, <3>1 DEF HookInv, Shaped
  <2>8. \A g \in Installing!Harnesses \ {h} : hookFile'[g] = hookFile[g] /\ tmp'[g] = tmp[g]
    BY <2>3 DEF HookInv, Shaped
  <2>9. ASSUME h \in SharedFiles \ crossed' PROVE Sound(h)'
    <3>1. Sound(h) /\ op[p].step \in AtWork /\ h \in Installing!Harnesses
      BY <1>2, <2>9 DEF HookInv, AtWork, Installing!HooksConstants
    <3>2. \A q \in Installers \ {p} : op[q].step \in AtWork => Files[op[q].at] # h
      BY <1>1, <3>1 DEF Sound, Alone
    <3>3. \A q \in Installers : op'[q].step \in AtWork => Files[op'[q].at] # h
      BY <2>2, <2>5, <2>6, <3>2
    <3>4. Good(tmp[h], wanted[h]) /\ hookFile'[h] = tmp[h]
      BY <1>1, <1>2, <2>3, <3>1 DEF Sound, TmpSound, HookInv, Shaped
    <3>5. FileSound(h)'
      BY <1>2, <1>4, <3>4 DEF FileSound
    <3> QED
      BY <3>3, <3>5 DEF Sound, TextSound, TmpSound, Alone, AtWork
  <2> HIDE DEF moved
  <2> QED
    BY <1>2, <2>2, <2>5, <2>6, <2>7, <2>8, <2>9, AtOne
<1> QED
  BY <1>3, <1>4

LEMMA EditKeeps ==
    ASSUME Installing!HooksConstants, HookInv, NEW h \in Installing!Harnesses,
           NEW e \in HookEvents, NEW hook \in Others,
           Installing!Edit(h, e, hook)
    PROVE  HookInv'
<1>1. PICK s : s = (IF hookFile[h] = None THEN Installing!Blank ELSE hookFile[h])
  OBVIOUS
<1>2. PICK w : w = wanted[h]
  OBVIOUS
<1>3. \E g \in s[e] \cup {{}} : \E t, v :
         /\ wanted' = [wanted EXCEPT ![h] = v] /\ hookFile' = [hookFile EXCEPT ![h] = t]
         /\ \/ /\ v = w \cup {<<e, hook>>}
               /\ t = [s EXCEPT ![e] = (@ \ {g}) \cup {g \cup {hook}}]
            \/ /\ v = w \ {<<e, hook>>}
               /\ t = [s EXCEPT ![e] = {a \ {hook} : a \in @} \ {{}}]
  <2>1. CASE /\ wanted' = [wanted EXCEPT ![h] = @ \cup {<<e, hook>>}]
             /\ \E g \in s[e] \cup {{}} :
                   hookFile' = [hookFile EXCEPT ![h] =
                               [s EXCEPT ![e] = (@ \ {g}) \cup {g \cup {hook}}]]
    <3>1. PICK g \in s[e] \cup {{}} :
             hookFile' = [hookFile EXCEPT ![h] = [s EXCEPT ![e] = (@ \ {g}) \cup {g \cup {hook}}]]
      BY <2>1
    <3>2. PICK t : t = [s EXCEPT ![e] = (@ \ {g}) \cup {g \cup {hook}}]
      OBVIOUS
    <3>3. wanted' = [wanted EXCEPT ![h] = w \cup {<<e, hook>>}]
      BY <1>2, <2>1
    <3> QED
      BY <3>1, <3>2, <3>3
  <2>2. CASE /\ wanted' = [wanted EXCEPT ![h] = @ \ {<<e, hook>>}]
             /\ hookFile' = [hookFile EXCEPT ![h] =
                            [s EXCEPT ![e] = {a \ {hook} : a \in @} \ {{}}]]
    <3>1. PICK t : t = [s EXCEPT ![e] = {a \ {hook} : a \in @} \ {{}}]
      OBVIOUS
    <3>2. wanted' = [wanted EXCEPT ![h] = w \ {<<e, hook>>}]
      BY <1>2, <2>2
    <3>3. hookFile' = [hookFile EXCEPT ![h] = t]
      BY <2>2, <3>1
    <3> QED
      BY <3>1, <3>2, <3>3
  <2> QED
    BY <1>1, <2>1, <2>2 DEF Installing!Edit
<1>4. PICK g \in s[e] \cup {{}} : \E t, v :
         /\ wanted' = [wanted EXCEPT ![h] = v] /\ hookFile' = [hookFile EXCEPT ![h] = t]
         /\ \/ /\ v = w \cup {<<e, hook>>}
               /\ t = [s EXCEPT ![e] = (@ \ {g}) \cup {g \cup {hook}}]
            \/ /\ v = w \ {<<e, hook>>}
               /\ t = [s EXCEPT ![e] = {a \ {hook} : a \in @} \ {{}}]
  BY <1>3
<1>14. PICK t, v :
         /\ wanted' = [wanted EXCEPT ![h] = v] /\ hookFile' = [hookFile EXCEPT ![h] = t]
         /\ \/ /\ v = w \cup {<<e, hook>>}
               /\ t = [s EXCEPT ![e] = (@ \ {g}) \cup {g \cup {hook}}]
            \/ /\ v = w \ {<<e, hook>>}
               /\ t = [s EXCEPT ![e] = {a \ {hook} : a \in @} \ {{}}]
  BY <1>4
<1>5. tmp' = tmp /\ h \in SharedFiles /\ crossed' = (IF Installing!Busy(h) = {} THEN crossed ELSE crossed \cup {h})
  BY DEF Installing!Edit, Installing!Crossing
<1> DEFINE moved(q) == q \in Installing!Busy(h) /\ op[q].fd = "file"
<1>6. op' = [q \in Installers |-> IF moved(q) THEN [op[q] EXCEPT !.fd = "gone"] ELSE op[q]]
  BY DEF Installing!Edit
<1>7. ASSUME NEW q \in Installers
      PROVE  /\ op'[q].step = op[q].step /\ op'[q].at = op[q].at
             /\ op'[q].text = op[q].text /\ DOMAIN op'[q] = Fields
             /\ q \notin Installing!Busy(h) => op'[q] = op[q]
  <2>1. DOMAIN op[q] = Fields
    BY DEF HookInv, Shaped
  <2>2. PICK r : r = [op[q] EXCEPT !.fd = "gone"]
    OBVIOUS
  <2>3. /\ r.step = op[q].step /\ r.at = op[q].at /\ r.text = op[q].text /\ DOMAIN r = Fields
    BY <2>1, <2>2 DEF Fields
  <2>4. op'[q] = IF moved(q) THEN r ELSE op[q]
    BY <1>6, <2>2
  <2> QED
    BY <2>1, <2>3, <2>4
<1>8. DOMAIN op' = Installers
  BY <1>6
<1>9. hookFile'[h] = t /\ wanted'[h] = v
  BY <1>14 DEF HookInv, Shaped
<1>10. \A k \in Installing!Harnesses \ {h} : hookFile'[k] = hookFile[k] /\ wanted'[k] = wanted[k]
  BY <1>14 DEF HookInv, Shaped
<1> HIDE DEF moved
<1>11. Shaped'
  BY <1>14, <1>5, <1>7, <1>8 DEF HookInv, Shaped
<1>12. ASSUME NEW k \in SharedFiles \ crossed', k # h PROVE Sound(k)'
  <2>1. k \in Installing!Harnesses \ {h} /\ Sound(k)
    BY <1>5, <1>12 DEF HookInv, Installing!HooksConstants
  <2>2. \A q \in Installers : q \in Installing!Busy(h) => Files[op[q].at] # k
    BY <1>12 DEF Installing!Busy, Installing!At
  <2>3. hookFile'[k] = hookFile[k] /\ tmp'[k] = tmp[k] /\ wanted'[k] = wanted[k]
    BY <1>5, <1>10, <2>1
  <2> QED
    BY <1>7, <2>1, <2>2, <2>3, Elsewhere
<1>13. ASSUME h \in SharedFiles \ crossed' PROVE Sound(h)'
  <2>1. Sound(h) /\ Installing!Busy(h) = {}
    BY <1>5, <1>13 DEF HookInv
  <2>2. \A q \in Installers : op[q].step \in AtWork => Files[op[q].at] # h
    BY <2>1 DEF Installing!Busy, Installing!At, AtWork
  <2>3. Good(s, w)
    BY <1>1, <1>2, <2>1 DEF Sound, FileSound
  <2>4. Good(t, v)
    <3>1. CASE /\ v = w \cup {<<e, hook>>}
               /\ t = [s EXCEPT ![e] = (@ \ {g}) \cup {g \cup {hook}}]
      <4>1. Good([s EXCEPT ![e] = (@ \ {g}) \cup {g \cup {hook}}], w \cup {<<e, hook>>})
        BY <2>3, AddedHook
      <4> QED
        BY <3>1, <4>1
    <3>2. CASE /\ v = w \ {<<e, hook>>}
               /\ t = [s EXCEPT ![e] = {a \ {hook} : a \in @} \ {{}}]
      <4>1. Good([s EXCEPT ![e] = {a \ {hook} : a \in @} \ {{}}], w \ {<<e, hook>>})
        BY <2>3, TakenHook
      <4> QED
        BY <3>2, <4>1
    <3> QED
      BY <1>14, <3>1, <3>2
  <2>5. t # None
    BY <2>4, GoodIsFile
  <2>6. FileSound(h)'
    BY <1>9, <2>4, <2>5 DEF FileSound
  <2>7. \A q \in Installers : op'[q].step \in AtWork => Files[op'[q].at] # h
    BY <1>7, <2>2
  <2> QED
    BY <2>6, <2>7 DEF Sound, TextSound, TmpSound, Alone, AtWork
<1> QED
  BY <1>11, <1>12, <1>13 DEF HookInv

LEMMA HooksNext ==
    ASSUME Installing!HooksConstants, HookInv, Installing!Next
    PROVE  HookInv'
BY StartKeeps, ReadKeeps, ReadNothingKeeps, OpenKeeps, WriteKeeps, RenameKeeps,
   HideKeeps, EditKeeps DEF Installing!Next

LEMMA HooksStay ==
    ASSUME HookInv, UNCHANGED Installing!vars
    PROVE  HookInv'
<1>1. Shaped'
  BY DEF HookInv, Shaped, Installing!vars
<1>2. ASSUME NEW h \in SharedFiles \ crossed' PROVE Sound(h)'
  BY Elsewhere DEF HookInv, Installing!vars
<1> QED
  BY <1>1, <1>2 DEF HookInv

LEMMA HooksHold ==
    ASSUME Installing!HooksConstants, HookInv
    PROVE  Installing!HooksSurvive
<1>1. ASSUME NEW h \in SharedFiles \ crossed,
             NEW s, s = (IF hookFile[h] = None THEN Installing!Blank ELSE hookFile[h]),
             NEW w, w = wanted[h]
      PROVE  /\ s # Torn /\ Installing!TheirsIn(s) = w
             /\ \A e \in HookEvents : Cardinality(Installing!OursIn(s, e)) <= 1
             /\ \A e \in HookEvents : Installing!OursIn(s, e) = {} <=> Installing!OursIn(s, "Stop") = {}
  <2>1. Good(s, w)
    BY <1>1 DEF HookInv, Sound, FileSound
  <2>2. s # Torn
    BY <2>1, GoodIsFile
  <2>3. ASSUME NEW e \in HookEvents PROVE Cardinality(Installing!OursIn(s, e)) <= 1
    <3>1. CASE Installing!OursIn(s, e) = {}
      BY <3>1, FS_EmptySet
    <3>2. CASE \E g : Installing!OursIn(s, e) = {g}
      <4>1. PICK g : Installing!OursIn(s, e) = {g}
        BY <3>2
      <4>2. Cardinality({g}) = 1
        BY FS_Singleton
      <4> QED
        BY <4>1, <4>2
    <3> QED
      BY <2>1, <3>1, <3>2 DEF Good
  <2> QED
    BY <2>1, <2>2, <2>3 DEF Good
<1> QED
  BY <1>1, InstallingCount DEF Installing!HooksSurvive

-----------------------------------------------------------------------------
(* Forms (Console) *)

\* The instance has a copy of FiniteSets; the theorems are about the original.
LEMMA BrowserCount == \A S : Browser!Cardinality(S) = Cardinality(S)
BY DEF Browser!Cardinality, Cardinality

\* Whom the hub may have a message from.
Speakers == People \cup {None, Host, Anyone}
\* What the hub stored of a submission.
Post == [form : {"reply", "send"}, by : Speakers, sid : Sids \cup {None}]
\* The replies that a submission stored.
Repliers(k) == {i \in DOMAIN posted[k] : posted[k][i].form = "reply"}

\* Sessions, pages, requests and what was stored.
FormTypes ==
    /\ sessions \in [Sids -> Browser!Session \cup {None}]
    /\ cookie \in Sids \cup {None} /\ (cookie # None => sessions[cookie] # None)
    /\ page \in [at : Browser!AllViews \cup {"login", "enrol", "sent", "failed"},
                 form : Browser!Forms \cup {None}, click : 0..Clicks]
    /\ request \in [step : {"none", "gate", "who", "call"},
                    what : Browser!AllViews \cup Browser!Forms \cup {None}, sid : Sids \cup {None},
                    name : Speakers, click : 0..Clicks]
    /\ next \in 1..(Clicks + 1)
    /\ posted \in [1..Clicks -> Seq(Post)]
\* A submission that a page or a request holds was made, and one that was not
\* made stored nothing.
FormsNumbered ==
    /\ page.form \in Browser!Forms => page.click \in 1..Clicks /\ page.click < next
    /\ request.step # "none" /\ request.what \in Browser!Forms =>
          request.click \in 1..Clicks /\ request.click < next
    /\ \A k \in 1..Clicks : k >= next => posted[k] = <<>>
    /\ request.step # "none" => request.what \in Browser!AllViews \cup Browser!Forms
\* A page that would submit a reply again, and a reply under way, are not yet stored.
Resubmitted ==
    page.form = "reply" /\ page.click \notin lost /\ request.step = "none" =>
        Repliers(page.click) = {}
\* The same of the request.
UnderWay ==
    request.step # "none" /\ request.what = "reply" /\ request.click \notin lost =>
        Repliers(request.click) = {}
\* The property;
AtMostOne ==
    \A k \in 1..Clicks : k \notin lost => Repliers(k) = {} \/ \E i : Repliers(k) = {i}
\* the hub takes only the word of the session;
Enforced == setup.mode = "enforce" /\ setup.token # "shared"
\* then what is stored is from whoever the session belongs to.
FromTheirSession ==
    Enforced =>
        /\ ~joined
        /\ \A k \in 1..Clicks : \A i \in DOMAIN posted[k] :
              /\ posted[k][i].sid \in Sids
              /\ sessions[posted[k][i].sid] # None
              /\ posted[k][i].by = sessions[posted[k][i].sid].user
\* A reply is stored by its request, and no page or request that holds the
\* submission is left that would store it again, but for a lost answer.
ClickInv ==
    FormTypes /\ FormsNumbered /\ Resubmitted /\ UnderWay /\ AtMostOne /\ FromTheirSession

LEMMA ConsoleHolds == ClickInv => Browser!OneClickOneReply
<1> SUFFICES ASSUME ClickInv, NEW k \in 1..Clicks
             PROVE  /\ k \notin lost => Browser!Times(k, "reply") <= 1
                    /\ Enforced => \A i \in DOMAIN posted[k] :
                           posted[k][i].by = sessions[posted[k][i].sid].user
  BY DEF Browser!OneClickOneReply, Enforced
<1>1. Browser!Times(k, "reply") = Cardinality(Repliers(k))
  BY BrowserCount DEF Browser!Times, Repliers
<1>2. ASSUME k \notin lost PROVE Cardinality(Repliers(k)) <= 1
  <2>1. CASE Repliers(k) = {}
    BY <2>1, FS_EmptySet
  <2>2. CASE \E i : Repliers(k) = {i}
    BY <2>2, FS_Singleton
  <2> QED
    BY <1>2, <2>1, <2>2 DEF ClickInv, AtMostOne
<1> QED
  BY <1>1, <1>2 DEF ClickInv, FromTheirSession

LEMMA ConsoleInit == ASSUME Browser!ConsoleConstants PROVE Browser!Init => ClickInv
<1> SUFFICES ASSUME Browser!Init PROVE ClickInv
  OBVIOUS
<1>1. posted = [k \in 1..Clicks |-> <<>>]
  BY DEF Browser!Init
<1>2. \A k \in 1..Clicks : Repliers(k) = {}
  BY <1>1 DEF Repliers
<1>3. page = [at |-> "login", form |-> None, click |-> 0]
  BY DEF Browser!Init, Browser!Page
<1>4. request = [step |-> "none", what |-> None, sid |-> None, name |-> None, click |-> 0]
  BY DEF Browser!Init, Browser!NoRequest
<1>5. 0 \in 0..Clicks /\ next = 1 /\ 1 \in 1..(Clicks + 1)
  BY DEF Browser!Init, Browser!ConsoleConstants
<1>6. FormTypes
  BY <1>1, <1>3, <1>4, <1>5 DEF Browser!Init, FormTypes, Speakers
<1>7. None \notin Browser!Forms
  BY DEF Browser!ConsoleConstants
<1>10. page.form = None /\ request.step = "none" /\ "reply" \in Browser!Forms
  BY <1>3, <1>4 DEF Browser!Forms
<1>8. FormsNumbered /\ Resubmitted /\ UnderWay
  BY <1>1, <1>7, <1>10 DEF FormsNumbered, Resubmitted, UnderWay
<1>9. AtMostOne
  BY <1>2 DEF AtMostOne
<1>11. Enforced => ~joined
  BY DEF Browser!Init, Enforced
<1>12. \A k \in 1..Clicks : DOMAIN posted[k] = {}
  BY <1>1
<1>13. FromTheirSession
  BY <1>11, <1>12 DEF FromTheirSession
<1> QED
  BY <1>6, <1>8, <1>9, <1>13 DEF ClickInv

\* What is posted stays with its session's human: a row keeps its user.
LEMMA SessionsKeep ==
    ASSUME Browser!ConsoleConstants, ClickInv, UNCHANGED <<setup, joined, posted>>,
           \A sid \in Sids : sessions[sid] # None =>
               sessions'[sid] # None /\ sessions'[sid].user = sessions[sid].user
    PROVE  FromTheirSession'
BY DEF ClickInv, FromTheirSession, Enforced

\* A step that posts nothing.
LEMMA NothingPosted ==
    ASSUME Browser!ConsoleConstants, ClickInv, UNCHANGED <<setup, joined, posted, next>>,
           FormTypes',
           lost \subseteq lost',
           \A sid \in Sids : sessions[sid] # None =>
               sessions'[sid] # None /\ sessions'[sid].user = sessions[sid].user,
           page'.form \in Browser!Forms =>
               \/ page' = page /\ (request.step = "none" \/ request'.step # "none")
               \/ request.step # "none" /\ page'.form = request.what /\ page'.click = request.click,
           request'.step # "none" /\ request'.what \in Browser!Forms =>
               \/ request.step # "none" /\ request'.what = request.what /\ request'.click = request.click
               \/ request.step = "none" /\ request'.what = page.form /\ request'.click = page.click,
           request'.step # "none" => request'.what \in Browser!AllViews \cup Browser!Forms
    PROVE  ClickInv'
<1>1. FromTheirSession'
  BY SessionsKeep
<1>2. \A k : Repliers(k)' = Repliers(k)
  BY DEF Repliers
<1>3. FormsNumbered'
  BY DEF ClickInv, FormsNumbered
<1>4. AtMostOne'
  BY <1>2 DEF ClickInv, AtMostOne
<1>5. Resubmitted'
  <2> SUFFICES ASSUME page'.form = "reply", page'.click \notin lost', request'.step = "none"
               PROVE  Repliers(page.click)' = {}
    BY DEF Resubmitted
  <2>1. "reply" \in Browser!Forms
    BY DEF Browser!Forms
  <2>2. Repliers(page.click)' = Repliers(page'.click)
    BY DEF Repliers
  <2> QED
    BY <2>1, <2>2 DEF ClickInv, Resubmitted, UnderWay
<1>6. UnderWay'
  <2> SUFFICES ASSUME request'.step # "none", request'.what = "reply", request'.click \notin lost'
               PROVE  Repliers(request.click)' = {}
    BY DEF UnderWay
  <2>1. "reply" \in Browser!Forms
    BY DEF Browser!Forms
  <2>2. Repliers(request.click)' = Repliers(request'.click)
    BY DEF Repliers
  <2> QED
    BY <2>1, <2>2 DEF ClickInv, Resubmitted, UnderWay
<1> QED
  BY <1>1, <1>3, <1>4, <1>5, <1>6 DEF ClickInv

RequestShape == [step : {"none", "gate", "who", "call"},
                 what : Browser!AllViews \cup Browser!Forms \cup {None}, sid : Sids \cup {None},
                 name : Speakers, click : 0..Clicks]
PageShape == [at : Browser!AllViews \cup {"login", "enrol", "sent", "failed"},
              form : Browser!Forms \cup {None}, click : 0..Clicks]

LEMMA PageOf ==
    ASSUME NEW at, NEW form, NEW click
    PROVE  /\ Browser!Page(at, form, click).at = at /\ Browser!Page(at, form, click).form = form
           /\ Browser!Page(at, form, click).click = click
           /\ at \in Browser!AllViews \cup {"login", "enrol", "sent", "failed"} /\ form \in Browser!Forms \cup {None}
                 /\ click \in 0..Clicks => Browser!Page(at, form, click) \in PageShape
BY DEF Browser!Page, PageShape

LEMMA NoRequestShape ==
    ASSUME Browser!ConsoleConstants
    PROVE  Browser!NoRequest \in RequestShape /\ Browser!NoRequest.step = "none"
BY DEF Browser!NoRequest, RequestShape, Speakers, Browser!ConsoleConstants

LEMMA AskShape ==
    ASSUME NEW what \in Browser!AllViews \cup Browser!Forms, NEW sid \in Sids \cup {None},
           NEW click \in 0..Clicks
    PROVE  LET r == Browser!Ask(what, sid, click)
           IN  r \in RequestShape /\ r.step = "gate" /\ r.what = what /\ r.click = click
BY DEF Browser!Ask, RequestShape, Speakers

LEMMA SessionsSame ==
    ASSUME sessions' = sessions
    PROVE  \A sid \in Sids : sessions[sid] # None =>
               sessions'[sid] # None /\ sessions'[sid].user = sessions[sid].user
OBVIOUS

LEMMA TypesKept ==
    ASSUME ClickInv, UNCHANGED <<posted, next, sessions, cookie>>,
           page' \in PageShape, request' \in RequestShape
    PROVE  FormTypes'
BY DEF ClickInv, FormTypes, PageShape, RequestShape

LEMMA GatePosts ==
    ASSUME Browser!ConsoleConstants, ClickInv, NEW answers, Browser!Gate(answers)
    PROVE  ClickInv'
<1>1. /\ request.step = "gate"
      /\ UNCHANGED <<setup, sessions, joined, posted, marked, gone, cookie, next, lost>>
  BY DEF Browser!Gate, Browser!hub
<1>2. page \in PageShape /\ request \in RequestShape /\ None \notin Browser!Forms /\ 0 \in 0..Clicks
      /\ request.what \in Browser!AllViews \cup Browser!Forms
  BY <1>1 DEF ClickInv, FormTypes, PageShape, RequestShape, Browser!ConsoleConstants,
     FormsNumbered
<1>3. CASE page' = Browser!Page("login", None, 0) /\ request' = Browser!NoRequest
  <2>1. page' \in PageShape /\ page'.form = None
    BY <1>2, <1>3, PageOf
  <2>2. request' \in RequestShape /\ request'.step = "none"
    BY <1>3, NoRequestShape
  <2> QED
    BY <1>1, <1>2, <2>1, <2>2, TypesKept, SessionsSame, NothingPosted
<1>4. CASE /\ page' = page
           /\ \/ request' = [request EXCEPT !.step = "call", !.name = Host]
              \/ request' = [request EXCEPT !.step = "who"]
  <2>1. request' \in RequestShape /\ request'.step # "none" /\ request'.what = request.what
        /\ request'.click = request.click
    BY <1>2, <1>4 DEF RequestShape, Speakers
  <2> QED
    BY <1>1, <1>2, <1>4, <2>1, TypesKept, SessionsSame, NothingPosted
<1> QED
  BY <1>3, <1>4 DEF Browser!Gate

LEMMA WhoAmIPosts ==
    ASSUME Browser!ConsoleConstants, ClickInv, NEW answers, Browser!WhoAmI(answers)
    PROVE  ClickInv'
<1>1. /\ request.step = "who" /\ page' = page
      /\ request' = [request EXCEPT !.step = "call", !.name = Browser!ActingFor(request.sid, answers)]
      /\ UNCHANGED <<setup, sessions, joined, posted, marked, gone, cookie, next, lost>>
  BY DEF Browser!WhoAmI, Browser!hub
<1>2. /\ page \in PageShape
      /\ request \in RequestShape
      /\ request.what \in Browser!AllViews \cup Browser!Forms
  BY <1>1 DEF ClickInv, FormTypes, PageShape, RequestShape, FormsNumbered
<1>3. Browser!ActingFor(request.sid, answers) \in Speakers
  <2>1. request.sid \in Sids \cup {None} /\ sessions \in [Sids -> Browser!Session \cup {None}]
    BY <1>2 DEF RequestShape, ClickInv, FormTypes
  <2>2. Browser!Full(request.sid) => sessions[request.sid].user \in People
    BY <2>1 DEF Browser!Full, Browser!Session
  <2> QED
    BY <2>2 DEF Browser!ActingFor, Browser!Verified, Speakers
<1>4. request' \in RequestShape /\ request'.step # "none" /\ request'.what = request.what
      /\ request'.click = request.click
  BY <1>1, <1>2, <1>3 DEF RequestShape
<1> QED
  BY <1>1, <1>2, <1>4, TypesKept, SessionsSame, NothingPosted

LEMMA FailedPage ==
    ASSUME Browser!ConsoleConstants, ClickInv, NEW unauthenticated, request.step # "none"
    PROVE  LET p == Browser!Failed(unauthenticated)
           IN  /\ p \in PageShape
               /\ p.form \in Browser!Forms => p.form = request.what /\ p.click = request.click
<1>1. request \in RequestShape /\ None \notin Browser!Forms /\ 0 \in 0..Clicks
      /\ "inbox" \in Browser!AllViews
  BY DEF ClickInv, FormTypes, PageShape, RequestShape, Browser!ConsoleConstants,
     Browser!AllViews
<1>2. \/ Browser!Failed(unauthenticated) = Browser!Page("login", None, 0)
      \/ Browser!Failed(unauthenticated) = Browser!Page("inbox", None, 0)
      \/ request.what \in Browser!Forms /\ Browser!Failed(unauthenticated) = Browser!Page("failed", request.what, request.click)
      \/ Browser!Failed(unauthenticated) = Browser!Page("failed", None, 0)
  BY DEF Browser!Failed
<1>3. request.click \in 0..Clicks
  BY <1>1 DEF RequestShape
<1> QED
  BY <1>1, <1>2, <1>3, PageOf

LEMMA RefusePosts ==
    ASSUME Browser!ConsoleConstants, ClickInv, Browser!Refuse
    PROVE  ClickInv'
<1>1. PICK u : page' = Browser!Failed(u)
  BY DEF Browser!Refuse
<1>2. /\ request.step = "call" /\ request' = Browser!NoRequest
      /\ UNCHANGED <<setup, sessions, joined, posted, marked, gone, cookie, next, lost>>
  BY DEF Browser!Refuse, Browser!hub
<1>3. page' \in PageShape /\ (page'.form \in Browser!Forms => page'.form = request.what /\ page'.click = request.click)
  BY <1>1, <1>2, FailedPage
<1>4. request' \in RequestShape /\ request'.step = "none"
  BY <1>2, NoRequestShape
<1> QED
  BY <1>2, <1>3, <1>4, TypesKept, SessionsSame, NothingPosted

LEMMA AskPosts ==
    ASSUME Browser!ConsoleConstants, ClickInv, NEW what \in Browser!AllViews,
           what \notin Browser!Forms,
           request' = Browser!Ask(what, cookie, 0), request.step = "none",
           UNCHANGED <<setup, Browser!hub, cookie, page, next, faults, lost>>
    PROVE  ClickInv'
<1>1. cookie \in Sids \cup {None} /\ 0 \in 0..Clicks /\ page \in PageShape
  BY DEF ClickInv, FormTypes, Browser!ConsoleConstants, PageShape
<1>2. request' \in RequestShape /\ request'.step = "gate" /\ request'.what = what
  BY <1>1, AskShape
<1> QED
  BY <1>1, <1>2, TypesKept, SessionsSame, NothingPosted DEF Browser!hub

LEMMA VisitPosts ==
    ASSUME Browser!ConsoleConstants, ClickInv, NEW view \in Views, Browser!Visit(view)
    PROVE  ClickInv'
<1>1. view \in Browser!AllViews /\ view \notin Browser!Forms
  BY DEF Browser!ConsoleConstants, Browser!AllViews, Browser!Forms
<1>2. request.step = "none"
  BY NoRequestShape DEF Browser!Visit
<1> QED
  BY <1>1, <1>2, AskPosts DEF Browser!Visit

LEMMA ReloadPosts ==
    ASSUME Browser!ConsoleConstants, ClickInv, Browser!Reload
    PROVE  ClickInv'
<1>1. /\ request.step = "none" /\ request' = Browser!Ask(page.form, cookie, page.click)
      /\ UNCHANGED <<setup, sessions, joined, posted, marked, gone, cookie, page, next, lost>>
  BY NoRequestShape DEF Browser!Reload, Browser!hub
<1>2. /\ cookie \in Sids \cup {None} /\ page \in PageShape /\ page.form \in Browser!Forms
      /\ page.click \in 0..Clicks
  BY DEF ClickInv, FormTypes, PageShape, Browser!Reload
<1>3. /\ request' \in RequestShape /\ request'.step = "gate" /\ request'.what = page.form
      /\ request'.click = page.click
  BY <1>1, <1>2, AskShape
<1> QED
  BY <1>1, <1>2, <1>3, TypesKept, SessionsSame, NothingPosted

LEMMA SubmitPosts ==
    ASSUME Browser!ConsoleConstants, ClickInv, NEW form \in Browser!Forms,
           Browser!Submit(form)
    PROVE  ClickInv'
<1>1. /\ request.step = "none" /\ request' = Browser!Ask(form, cookie, next)
      /\ next' = next + 1 /\ next <= Clicks
      /\ UNCHANGED <<setup, sessions, joined, posted, marked, gone, cookie, page, lost>>
  BY NoRequestShape DEF Browser!Submit, Browser!hub
<1>2. /\ cookie \in Sids \cup {None} /\ page \in PageShape
      /\ next \in 1..Clicks /\ next \in 0..Clicks /\ next' \in 1..(Clicks + 1) /\ next < next'
      /\ next \in Int
  BY <1>1 DEF ClickInv, FormTypes, PageShape, Browser!ConsoleConstants
<1>3. /\ request' \in RequestShape /\ request'.step = "gate" /\ request'.what = form
      /\ request'.click = next
  BY <1>1, <1>2, AskShape
<1>4. FormTypes'
  BY <1>1, <1>2, <1>3 DEF ClickInv, FormTypes, PageShape, RequestShape
<1>5. posted[next] = <<>>
  BY <1>2 DEF ClickInv, FormsNumbered
<1>6. FormsNumbered'
  BY <1>1, <1>2, <1>3 DEF ClickInv, FormsNumbered, FormTypes, PageShape
<1>7. \A k : Repliers(k)' = Repliers(k)
  BY <1>1 DEF Repliers
<1>8. Repliers(next) = {}
  BY <1>5 DEF Repliers
<1>9. Resubmitted'
  BY <1>3 DEF Resubmitted
<1>10. UnderWay'
  <2>1. Repliers(request.click)' = {}
    BY <1>1, <1>3, <1>5 DEF Repliers
  <2> QED
    BY <2>1 DEF UnderWay
<1>11. AtMostOne'
  BY <1>1, <1>7 DEF ClickInv, AtMostOne
<1>12. FromTheirSession'
  BY <1>1, SessionsKeep, SessionsSame
<1> QED
  BY <1>4, <1>6, <1>9, <1>10, <1>11, <1>12 DEF ClickInv

\* A step of a browser's tab, which leaves the handler as it is.
LEMMA TabPosts ==
    ASSUME Browser!ConsoleConstants, ClickInv,
           UNCHANGED <<setup, joined, posted, next, request, lost>>,
           page' = page \/ (page' \in PageShape /\ page'.form = None),
           cookie' \in Sids \cup {None}, cookie' # None => sessions'[cookie'] # None,
           sessions' \in [Sids -> Browser!Session \cup {None}],
           \A sid \in Sids : sessions[sid] # None =>
               sessions'[sid] # None /\ sessions'[sid].user = sessions[sid].user
    PROVE  ClickInv'
<1>1. FormTypes'
  BY DEF ClickInv, FormTypes, PageShape
<1>2. None \notin Browser!Forms
  BY DEF Browser!ConsoleConstants
<1>3. request.step # "none" => request.what \in Browser!AllViews \cup Browser!Forms
  BY DEF ClickInv, FormsNumbered
<1> QED
  BY <1>1, <1>2, <1>3, NothingPosted

LEMMA LoginPosts ==
    ASSUME Browser!ConsoleConstants, ClickInv, NEW u \in People, NEW sid \in Sids,
           NEW limited \in BOOLEAN,
           Browser!Login(u, sid, limited)
    PROVE  ClickInv'
<1>1. PICK row : row = [user |-> u, limited |-> limited, live |-> TRUE]
  OBVIOUS
<1>2. row \in Browser!Session
  BY <1>1, Zenon DEF Browser!Session
<1>3. /\ sessions[sid] = None /\ sessions' = [sessions EXCEPT ![sid] = row] /\ cookie' = sid
      /\ UNCHANGED <<setup, joined, posted, next, request, lost>>
  BY <1>1 DEF Browser!Login
<1>4. page' = page \/ page' = Browser!Page("enrol", None, 0) \/ page' = Browser!Page("overview", None, 0)
  BY DEF Browser!Login
<1>5. "overview" \in Browser!AllViews /\ 0 \in 0..Clicks
  BY DEF Browser!AllViews, Browser!ConsoleConstants
<1>6. page' = page \/ (page' \in PageShape /\ page'.form = None)
  BY <1>4, <1>5, PageOf
<1>7. /\ sessions' \in [Sids -> Browser!Session \cup {None}]
      /\ \A s \in Sids : sessions[s] # None => sessions'[s] = sessions[s]
  BY <1>2, <1>3 DEF ClickInv, FormTypes
<1>8. cookie' \in Sids /\ sessions'[cookie'] # None
  BY <1>2, <1>3 DEF ClickInv, FormTypes, Browser!ConsoleConstants
<1> QED
  BY <1>3, <1>6, <1>7, <1>8, TabPosts

LEMMA EnrolPosts ==
    ASSUME Browser!ConsoleConstants, ClickInv, NEW sid \in Sids, Browser!Enrol(sid)
    PROVE  ClickInv'
<1>1. PICK row : row = [sessions[cookie] EXCEPT !.limited = FALSE]
  OBVIOUS
<1>2. row \in Browser!Session
  <2>1. sessions[cookie] \in Browser!Session
    BY DEF Browser!Enrol, ClickInv, FormTypes
  <2> QED
    BY <1>1, <2>1, Zenon DEF Browser!Session
<1>3. /\ sessions[sid] = None /\ sessions' = [sessions EXCEPT ![sid] = row] /\ cookie' = sid
      /\ page' = Browser!Page("overview", None, 0)
      /\ UNCHANGED <<setup, joined, posted, next, request, lost>>
  BY <1>1 DEF Browser!Enrol
<1>5. "overview" \in Browser!AllViews /\ 0 \in 0..Clicks
  BY DEF Browser!AllViews, Browser!ConsoleConstants
<1>6. page' \in PageShape /\ page'.form = None
  BY <1>3, <1>5, PageOf
<1>7. /\ sessions' \in [Sids -> Browser!Session \cup {None}]
      /\ \A s \in Sids : sessions[s] # None => sessions'[s] = sessions[s]
  BY <1>2, <1>3 DEF ClickInv, FormTypes
<1>8. cookie' \in Sids /\ sessions'[cookie'] # None
  BY <1>2, <1>3 DEF ClickInv, FormTypes, Browser!ConsoleConstants
<1> QED
  BY <1>3, <1>6, <1>7, <1>8, TabPosts

\* A row that ends keeps its user.
LEMMA EndedRow ==
    ASSUME Browser!ConsoleConstants, FormTypes, NEW sid \in Sids, sessions[sid] # None,
           sessions' = [sessions EXCEPT ![sid].live = FALSE]
    PROVE  /\ sessions' \in [Sids -> Browser!Session \cup {None}]
           /\ \A s \in Sids : sessions[s] # None =>
                  sessions'[s] # None /\ sessions'[s].user = sessions[s].user
<1>1. PICK row : row = [sessions[sid] EXCEPT !.live = FALSE]
  OBVIOUS
<1>2. row \in Browser!Session /\ row.user = sessions[sid].user
  <2>1. sessions[sid] \in Browser!Session
    BY DEF FormTypes
  <2> QED
    BY <1>1, <2>1, Zenon DEF Browser!Session
<1>3. sessions' = [sessions EXCEPT ![sid] = row]
  BY <1>1
<1> QED
  BY <1>2, <1>3, ZenonT(30) DEF FormTypes, Browser!ConsoleConstants

LEMMA LogoutPosts ==
    ASSUME Browser!ConsoleConstants, ClickInv, NEW answers, Browser!Logout(answers)
    PROVE  ClickInv'
<1>1. /\ cookie # None /\ cookie' = None /\ page' = Browser!Page("login", None, 0)
      /\ sessions' = sessions \/ sessions' = [sessions EXCEPT ![cookie].live = FALSE]
      /\ UNCHANGED <<setup, joined, posted, next, request, lost>>
  BY DEF Browser!Logout
<1>2. 0 \in 0..Clicks
  BY DEF Browser!ConsoleConstants
<1>3. page' \in PageShape /\ page'.form = None
  BY <1>1, <1>2, PageOf
<1>4. cookie \in Sids /\ sessions[cookie] # None
  BY <1>1 DEF ClickInv, FormTypes
<1>5. /\ sessions' \in [Sids -> Browser!Session \cup {None}]
      /\ \A s \in Sids : sessions[s] # None =>
             sessions'[s] # None /\ sessions'[s].user = sessions[s].user
  BY <1>1, <1>4, EndedRow DEF ClickInv, FormTypes
<1> QED
  BY <1>1, <1>3, <1>5, TabPosts

LEMMA EndPosts ==
    ASSUME Browser!ConsoleConstants, ClickInv, NEW sid \in Sids, Browser!EndSession(sid)
    PROVE  ClickInv'
<1>1. /\ sessions[sid] # None /\ sessions' = [sessions EXCEPT ![sid].live = FALSE]
      /\ UNCHANGED <<setup, joined, cookie, page, posted, next, request, lost>>
  BY DEF Browser!EndSession
<1>2. /\ sessions' \in [Sids -> Browser!Session \cup {None}]
      /\ \A s \in Sids : sessions[s] # None =>
             sessions'[s] # None /\ sessions'[s].user = sessions[s].user
  BY <1>1, EndedRow DEF ClickInv
<1>3. cookie' \in Sids \cup {None} /\ (cookie' # None => sessions'[cookie'] # None)
  BY <1>1, <1>2 DEF ClickInv, FormTypes
<1> QED
  BY <1>1, <1>2, <1>3, TabPosts

-----------------------------------------------------------------------------
(* The hub's call *)

\* Of an answered call that posted nothing or is a redirect.
LEMMA AnsweredPage ==
    ASSUME Browser!ConsoleConstants, ClickInv, request.step = "call", Browser!Answered
    PROVE  /\ page' \in PageShape /\ request' \in RequestShape
           /\ request'.step # "none" => request'.what \in Browser!AllViews \ Browser!Forms
           /\ \/ page' = page /\ request'.step # "none"
              \/ page'.form = None
              \/ page'.form = "send" /\ request.what = "send" /\ page'.click = request.click
<1>1. /\ request \in RequestShape
      /\ page \in PageShape
      /\ request.what \in Browser!AllViews \cup Browser!Forms
      /\ cookie \in Sids \cup {None} /\ 0 \in 0..Clicks /\ request.click \in 0..Clicks
  BY DEF ClickInv, FormTypes, RequestShape, PageShape, FormsNumbered,
     Browser!ConsoleConstants
<1>2. CASE request.what = "send"
  <2>1. page' = Browser!Page("sent", request.what, request.click) /\ request' = Browser!NoRequest
    BY <1>2 DEF Browser!Answered, Browser!After
  <2>2. "send" \in Browser!Forms
    BY DEF Browser!Forms
  <2> QED
    BY <1>1, <1>2, <2>1, <2>2, PageOf, NoRequestShape
<1>3. CASE request.what \in {"reply", "retract", "read"}
  <2>1. PICK at \in {"thread", "inbox"} : request' = Browser!Ask(at, cookie, 0) /\ page' = page
    BY <1>3 DEF Browser!Answered, Browser!After, Browser!Forms
  <2>2. at \in Browser!AllViews \ Browser!Forms
    BY <2>1 DEF Browser!AllViews, Browser!Forms
  <2>3. request' \in RequestShape /\ request'.step = "gate" /\ request'.what = at
    BY <1>1, <2>1, <2>2, AskShape
  <2> QED
    BY <1>1, <2>1, <2>2, <2>3
<1>4. CASE request.what \in Browser!AllViews
  <2>1. page' = Browser!Page(request.what, None, 0) /\ request' = Browser!NoRequest
    BY <1>4 DEF Browser!Answered, Browser!After, Browser!Forms, Browser!AllViews
  <2> QED
    BY <1>1, <1>4, <2>1, PageOf, NoRequestShape
<1> QED
  BY <1>1, <1>2, <1>3, <1>4 DEF Browser!Forms

\* A call that is allowed to post acts for a member; a hub that enforces took it
\* from the session it came with.
LEMMA PostIsTheirs ==
    ASSUME Browser!ConsoleConstants, ClickInv, NEW sid \in Sids \cup {None},
           NEW name \in Speakers,
           NEW what \in {"reply", "send"}, Browser!Allowed(what, sid, name)
    PROVE  /\ Browser!Caller(sid, name) = name
           /\ Enforced => sid \in Sids /\ sessions[sid] # None /\ name = sessions[sid].user
<1>1. Browser!Caller(sid, name) = name /\ Browser!Member(name)
  BY DEF Browser!Allowed
<1>2. ASSUME Enforced
      PROVE sid \in Sids /\ sessions[sid] # None /\ name = sessions[sid].user
  <2>1. setup.mode = "enforce" /\ setup.token # "shared" /\ name \in People
    BY <1>1, <1>2 DEF Enforced, Browser!Member, ClickInv, FromTheirSession
  <2>2. name # None /\ name # Anyone
    BY <2>1 DEF Browser!ConsoleConstants
  <2>3. Browser!Full(sid)
    BY <1>1, <2>1, <2>2 DEF Browser!Caller, Browser!Verified
  <2>4. sid \in Sids /\ sessions[sid] # None /\ sessions[sid] \in Browser!Session
    BY <2>3 DEF Browser!Full, ClickInv, FormTypes
  <2>5. sessions[sid].user \in People
    BY <2>4 DEF Browser!Session
  <2>6. sessions[sid].user \notin {None, Anyone}
    BY <2>5 DEF Browser!ConsoleConstants
  <2>7. Browser!Verified(sid) = sessions[sid].user
    BY <2>1, <2>3 DEF Browser!Verified
  <2> QED
    BY <1>1, <2>4, <2>6, <2>7 DEF Browser!Caller
<1> QED
  BY <1>1, <1>2

\* What a submission's posts are, with one more.
LEMMA RepliersThen ==
    ASSUME NEW k, NEW old \in Seq(Post), NEW post \in Post, posted[k] = old,
           posted'[k] = Append(old, post)
    PROVE  Repliers(k)' = Repliers(k) \cup
               (IF post.form = "reply" THEN {Len(old) + 1} ELSE {})
<1>1. PICK all : all = Append(old, post)
  OBVIOUS
<1>2. /\ DOMAIN all = 1..(Len(old) + 1) /\ DOMAIN old = 1..Len(old) /\ Len(old) \in Nat
      /\ all[Len(old) + 1] = post /\ \A i \in 1..Len(old) : all[i] = old[i]
  BY <1>1
<1>3. {i \in DOMAIN all : all[i].form = "reply"} =
          {i \in DOMAIN old : old[i].form = "reply"} \cup
              (IF post.form = "reply" THEN {Len(old) + 1} ELSE {})
  BY <1>2
<1>4. posted'[k] = all
  BY <1>1
<1> QED
  BY <1>3, <1>4 DEF Repliers

LEMMA Posting ==
    ASSUME Browser!ConsoleConstants, ClickInv, NEW answers \in BOOLEAN,
           Browser!Call(answers),
           request.what \in {"reply", "send"}
    PROVE  ClickInv'
<1>1. PICK k, what, by, post : /\ k = request.click /\ what = request.what
        /\ by = Browser!Caller(request.sid, request.name)
        /\ post = [form |-> what, by |-> by, sid |-> request.sid]
  OBVIOUS
<1>2. /\ request.step = "call" /\ request \in RequestShape /\ page \in PageShape
      /\ request.sid \in Sids \cup {None} /\ request.name \in Speakers
  BY DEF Browser!Call, ClickInv, FormTypes, RequestShape, PageShape
<1>3. what \in Browser!Forms /\ k \in 1..Clicks /\ k < next /\ k # 0
  BY <1>1, <1>2 DEF ClickInv, FormsNumbered, Browser!Forms
<1>4. /\ by \in Speakers
      /\ Enforced => request.sid \in Sids /\ sessions[request.sid] # None
                     /\ by = sessions[request.sid].user
  BY <1>1, <1>2, PostIsTheirs DEF Browser!Call
<1>5. post \in Post /\ post.form = what /\ post.by = by /\ post.sid = request.sid
  BY <1>1, <1>2, <1>4 DEF Post
<1>6. /\ posted' = [posted EXCEPT ![k] = Append(@, post)]
      /\ lost' = IF ~answers THEN lost \cup {k} ELSE lost
      /\ UNCHANGED <<sessions, joined, setup, cookie, next>>
  BY <1>1, <1>3 DEF Browser!Call, Browser!Effect
<1>7. PICK old \in Seq(Post) : posted[k] = old
  BY <1>3 DEF ClickInv, FormTypes
<1>8. PICK all : all = Append(old, post)
  OBVIOUS
<1>9. all \in Seq(Post) /\ DOMAIN all = 1..(Len(old) + 1) /\ DOMAIN old = 1..Len(old)
      /\ Len(old) \in Nat /\ all[Len(old) + 1] = post /\ \A i \in 1..Len(old) : all[i] = old[i]
  BY <1>5, <1>7, <1>8
<1>10. posted' = [posted EXCEPT ![k] = all]
  BY <1>6, <1>7, <1>8
<1>11. /\ posted' \in [1..Clicks -> Seq(Post)] /\ posted'[k] = all
       /\ \A j \in 1..Clicks : j # k => posted'[j] = posted[j]
  BY <1>3, <1>9, <1>10 DEF ClickInv, FormTypes
<1>12. /\ page' \in PageShape /\ request' \in RequestShape
       /\ request'.step # "none" => request'.what \in Browser!AllViews \ Browser!Forms
       /\ \/ answers /\ page' = page /\ request'.step # "none"
          \/ answers /\ page'.form = None
          \/ answers /\ page'.form = "send" /\ what = "send" /\ page'.click = k
          \/ ~answers /\ (page'.form \in Browser!Forms => page'.form = what /\ page'.click = k)
  <2>1. CASE answers
    BY <1>1, <1>2, <2>1, AnsweredPage DEF Browser!Call
  <2>2. CASE ~answers
    <3>1. page' = Browser!Failed(FALSE) /\ request' = Browser!NoRequest
      BY <2>2 DEF Browser!Call
    <3> QED
      BY <1>1, <1>2, <2>2, <3>1, FailedPage, NoRequestShape
  <2> QED
    BY <2>1, <2>2
<1>13. None \notin Browser!Forms /\ "reply" \in Browser!Forms /\ "send" \in Browser!Forms
  BY DEF Browser!ConsoleConstants, Browser!Forms
<1>14. FormTypes'
  BY <1>6, <1>11, <1>12 DEF ClickInv, FormTypes, RequestShape, PageShape
<1>15. FormsNumbered'
  BY <1>1, <1>3, <1>6, <1>11, <1>12, <1>13 DEF ClickInv, FormsNumbered, FormTypes
<1>16. ASSUME NEW j, j # k, j \in 1..Clicks PROVE Repliers(j)' = Repliers(j)
  BY <1>11, <1>16 DEF Repliers
<1>17. Repliers(k)' = Repliers(k) \cup (IF what = "reply" THEN {Len(old) + 1} ELSE {})
  BY <1>5, <1>7, <1>8, <1>11, RepliersThen
<1>18. Resubmitted'
  <2> SUFFICES ASSUME page'.form = "reply", page'.click \notin lost', request'.step = "none"
               PROVE  FALSE
    BY DEF Resubmitted
  <2>1. ~answers /\ page'.click = k
    BY <1>12, <1>13
  <2> QED
    BY <1>6, <2>1
<1>19. UnderWay'
  BY <1>12, <1>13 DEF UnderWay
<1>20. AtMostOne'
  <2> SUFFICES ASSUME NEW j \in 1..Clicks, j \notin lost'
               PROVE  Repliers(j)' = {} \/ \E i : Repliers(j)' = {i}
    BY DEF AtMostOne
  <2>1. j \notin lost
    BY <1>6
  <2>2. CASE j # k
    BY <1>16, <2>1, <2>2 DEF ClickInv, AtMostOne
  <2>3. CASE j = k /\ what = "reply"
    <3>1. Repliers(k) = {}
      BY <1>1, <1>2, <2>1, <2>3 DEF ClickInv, UnderWay
    <3>2. Repliers(k)' = {Len(old) + 1}
      BY <1>17, <2>3, <3>1
    <3> QED
      BY <2>3, <3>2
  <2>4. CASE j = k /\ what # "reply"
    BY <1>17, <2>1, <2>4 DEF ClickInv, AtMostOne
  <2> QED
    BY <2>2, <2>3, <2>4
<1>21. FromTheirSession'
  <2> SUFFICES ASSUME Enforced
               PROVE  /\ ~joined
                      /\ \A j \in 1..Clicks : \A i \in DOMAIN posted'[j] :
                           /\ posted'[j][i].sid \in Sids
                           /\ sessions[posted'[j][i].sid] # None
                           /\ posted'[j][i].by = sessions[posted'[j][i].sid].user
    BY <1>6 DEF FromTheirSession, Enforced
  <2>1. ~joined /\ \A j \in 1..Clicks : \A i \in DOMAIN posted[j] :
              /\ posted[j][i].sid \in Sids
              /\ sessions[posted[j][i].sid] # None
              /\ posted[j][i].by = sessions[posted[j][i].sid].user
    BY DEF ClickInv, FromTheirSession
  <2>2. ASSUME NEW i \in DOMAIN all
        PROVE  /\ all[i].sid \in Sids /\ sessions[all[i].sid] # None
               /\ all[i].by = sessions[all[i].sid].user
    <3>1. CASE i = Len(old) + 1
      BY <1>4, <1>5, <1>9, <3>1
    <3>2. CASE i # Len(old) + 1
      <4>1. i \in 1..Len(old) /\ all[i] = old[i] /\ i \in DOMAIN posted[k]
        BY <1>7, <1>9, <2>2, <3>2
      <4> QED
        BY <1>3, <1>7, <2>1, <4>1
    <3> QED
      BY <3>1, <3>2
  <2> QED
    BY <1>11, <2>1, <2>2
<1> QED
  BY <1>14, <1>15, <1>18, <1>19, <1>20, <1>21 DEF ClickInv

LEMMA NotPosting ==
    ASSUME Browser!ConsoleConstants, ClickInv, NEW answers \in BOOLEAN,
           Browser!Call(answers),
           request.what \notin {"reply", "send"}
    PROVE  ClickInv'
<1>1. /\ request.step = "call" /\ lost \subseteq lost'
      /\ UNCHANGED <<setup, sessions, joined, posted, cookie, next>>
  BY DEF Browser!Call, Browser!Effect
<1>2. None \notin Browser!Forms
  BY DEF Browser!ConsoleConstants
<1>3. CASE answers
  <2>1. Browser!Answered
    BY <1>3 DEF Browser!Call
  <2> QED
    BY <1>1, <1>2, <2>1, AnsweredPage, TypesKept, SessionsSame, NothingPosted
<1>4. CASE ~answers
  <2>1. page' = Browser!Failed(FALSE) /\ request' = Browser!NoRequest
    BY <1>4 DEF Browser!Call
  <2> QED
    BY <1>1, <2>1, FailedPage, NoRequestShape, TypesKept, SessionsSame, NothingPosted
<1> QED
  BY <1>3, <1>4

LEMMA ConsoleStays ==
    ASSUME Browser!ConsoleConstants, ClickInv, UNCHANGED Browser!vars
    PROVE  ClickInv'
<1>1. page' \in PageShape /\ request' \in RequestShape
  BY DEF ClickInv, FormTypes, PageShape, RequestShape, Browser!vars
<1>2. request.step # "none" => request.what \in Browser!AllViews \cup Browser!Forms
  BY DEF ClickInv, FormsNumbered
<1> QED
  BY <1>1, <1>2, TypesKept, SessionsSame, NothingPosted DEF Browser!vars, Browser!hub

LEMMA ConsoleNext ==
    ASSUME Browser!ConsoleConstants, ClickInv, Browser!Next
    PROVE  ClickInv'
<1>1. CASE Browser!Refuse \/ Browser!Reload
  BY <1>1, RefusePosts, ReloadPosts
<1>2. ASSUME NEW answers \in BOOLEAN,
             Browser!Gate(answers) \/ Browser!WhoAmI(answers) \/ Browser!Logout(answers)
      PROVE  ClickInv'
  BY <1>2, GatePosts, WhoAmIPosts, LogoutPosts
<1>3. ASSUME NEW answers \in BOOLEAN, Browser!Call(answers) PROVE ClickInv'
  BY <1>3, Posting, NotPosting
<1>4. ASSUME NEW view \in Views, Browser!Visit(view) PROVE ClickInv'
  BY <1>4, VisitPosts
<1>5. ASSUME NEW form \in Browser!Forms, Browser!Submit(form) PROVE ClickInv'
  BY <1>5, SubmitPosts
<1>6. ASSUME NEW sid \in Sids, Browser!Enrol(sid) \/ Browser!EndSession(sid) PROVE ClickInv'
  BY <1>6, EnrolPosts, EndPosts
<1>7. ASSUME NEW sid \in Sids, NEW u \in People, NEW limited \in BOOLEAN,
             Browser!Login(u, sid, limited)
      PROVE  ClickInv'
  BY <1>7, LoginPosts
<1> QED
  BY <1>1, <1>2, <1>3, <1>4, <1>5, <1>6, <1>7 DEF Browser!Next

-----------------------------------------------------------------------------
(* What holds in every behaviour of the parts *)

\* A hook file that installers of one convention edit holds one hook of ours or
\* none for every event, and all that was not ours, whoever is killed at any step
\* (hookconfig.apply, strip, _write): for any installers, files and runs.
THEOREM TheHooksSurvive == MachineSpec => []HooksSurvive
<1> DEFINE I == part = "hooks" => HookInv
<1>1. MachineInit => I
  BY MachineConstants, HooksInit DEF MachineInit
<1>2. I /\ [MachineNext]_machineVars => I'
  BY MachineConstants, InstallingStep, HooksNext, HooksStay
<1>3. I => HooksSurvive
  BY MachineConstants, HooksHold DEF HooksSurvive
<1> QED
  BY <1>1, <1>2, <1>3, PTL DEF MachineSpec

\* A reply submitted once is stored at most once, unless the answer to it was lost;
\* and where the hub enforces and the console does not act by its shared token, it
\* is from the human whose session it came with (the console's message_reply,
\* acting_for): for any people, sessions, deployments and number of failures.
THEOREM OneClickIsOneReply == MachineSpec => []OneClickOneReply
<1> DEFINE I == part = "browser" => ClickInv
<1>1. MachineInit => I
  BY MachineConstants, ConsoleInit DEF MachineInit
<1>2. I /\ [MachineNext]_machineVars => I'
  BY MachineConstants, BrowserStep, ConsoleNext, ConsoleStays
<1>3. I => OneClickOneReply
  BY MachineConstants, ConsoleHolds DEF OneClickOneReply
<1> QED
  BY <1>1, <1>2, <1>3, PTL DEF MachineSpec

\* Whatever else the machine runs, its configuration files have one writer at a
\* time, keep the identities that were recorded in them and the hub that was
\* chosen (config._locked, projectconfig.locked, update_hub).
THEOREM TheFilesAreKept == MachineSpec => []OneWriter /\ []IdentitiesKept /\ ChosenHubKept
<1>1. MachineInit => Init
  BY DEF MachineInit, Fresh
<1>2. [MachineNext]_machineVars => [Next]_vars
  BY DEF MachineNext, machineVars
<1>3. MachineSpec => Safely
  BY <1>1, <1>2, PTL DEF MachineSpec, Safely
<1> QED
  BY <1>3, WritersExclude, IdentitiesStay, ChosenHubStays
=============================================================================
