-------------------------------- MODULE Hooks -------------------------------
(***************************************************************************)
(* The files of a checkout that the wake hooks are installed into: a       *)
(* settings file shared with the user and other tools (hookconfig merges   *)
(* its hooks into it), or a file of our own, and the .gitignore that keeps *)
(* them out of git (ignores).  An installer reads, writes a temporary file *)
(* that has the same name for everybody, and renames it; nothing locks the *)
(* files, and installers may overlap, be killed, or race the user's edits. *)
(***************************************************************************)
EXTENDS Naturals, FiniteSets, Sequences

CONSTANTS
    None,
    Torn,          \* a file that was opened for writing and not written yet
    Installers,    \* processes: join, install-hook, uninstall-hook
    Files,         \* a sequence of harnesses, in the order uninstall-hook goes
    Shared,        \* those whose file holds other hooks too
    Hidden,        \* those whose file is kept out of git
    Events,        \* harness events that are hooked, "Stop" among them
    Others,        \* hooks that are not ours
    Runs, Edits    \* installs and uninstalls; edits of the user (bounds)

Harnesses == {Files[i] : i \in DOMAIN Files}

\* A check that returns at once, and the Stop hook that holds until mail comes.
Ours == {"check", "hold"}
Hook == Ours \cup Others
Blank == [e \in Events |-> {}]
Settings == [Events -> SUBSET ((SUBSET Hook) \ {{}})]
Own == [e \in Events |-> {{"check"}}]    \* a file of ours, in its own language
Content == Settings \cup {None, Torn}
Rules == Harnesses \cup {"state", "theirs"}

\* Assumed of the constants; each instance is checked against it.
HooksConstants ==
    /\ Shared \subseteq Harnesses /\ Hidden \subseteq Harnesses
    /\ \A i, j \in DOMAIN Files : Files[i] = Files[j] => i = j
    /\ Ours \cap Others = {} /\ "state" \notin Harnesses /\ "Stop" \in Events
    /\ None # Torn /\ {None, Torn} \cap Settings = {} /\ Files \in Seq(Harnesses)
    /\ Runs \in Nat /\ Edits \in Nat

VARIABLES
    file,          \* harness -> its hook file
    tmp,           \* harness -> the temporary file beside it
    gitignore,     \* the rules in .gitignore
    tracked,       \* files that git has already; an ignore rule is no use then
    op,            \* installer -> what it is at
    runs, edits,
    wanted,        \* history: harness -> its file's other hooks, as last edited
    crossed        \* history: files at which two were at work at a time

vars == <<file, tmp, gitignore, tracked, op, runs, edits, wanted, crossed>>

Idle == [step |-> "idle", run |-> "none", at |-> 0, text |-> None, fd |-> "none",
         rules |-> <<>>, known |-> {}]

TypeOK ==
    /\ file \in [Harnesses -> Content] /\ tmp \in [Harnesses -> Content]
    /\ gitignore \subseteq Rules /\ tracked \subseteq Hidden
    /\ \A p \in Installers :
          /\ op[p].step \in {"idle", "reading", "opening", "writing", "renaming",
                             "hiding", "appending"}
          /\ op[p].run \in {"none", "install", "held", "uninstall"}
          /\ op[p].at \in 0..Len(Files) /\ op[p].text \in Content
          /\ op[p].fd \in {"none", "tmp", "file", "gone"}
          /\ op[p].rules \in Seq(Rules) /\ op[p].known \subseteq Rules
    /\ runs \in 0..Runs /\ edits \in 0..Edits
    /\ wanted \in [Harnesses -> SUBSET (Events \X Others)]
    /\ crossed \subseteq Harnesses

Init ==
    /\ file = [h \in Harnesses |-> None] /\ tmp = [h \in Harnesses |-> None]
    /\ gitignore \in SUBSET {"theirs"} /\ tracked \in SUBSET Hidden
    /\ op = [p \in Installers |-> Idle] /\ runs = 0 /\ edits = 0
    /\ wanted = [h \in Harnesses |-> {}] /\ crossed = {}

-----------------------------------------------------------------------------
(* hookconfig's pure part *)

\* Mutant: a group with a hook of ours goes whole.
StripGroups(s) == [e \in Events |-> {g \in s[e] : g \cap Ours = {}}]

\* strip: ours go, whatever command they run; a group that held no other, too.
Strip(s) == [e \in Events |-> {g \ Ours : g \in s[e]} \ {{}}]

\* apply: ours replaced, so an older form of them is not kept beside.
Apply(s, held) ==
    [e \in Events |-> Strip(s)[e] \cup {{IF held /\ e = "Stop" THEN "hold" ELSE "check"}}]

\* codex_apply: the same, but no hook there may wait.
Installed(h, text, held) ==
    IF h \in Shared THEN Apply(text, held /\ h \notin Hidden) ELSE Own

-----------------------------------------------------------------------------
(* The installers *)

At(p) == Files[op[p].at]
Busy(h) == {p \in Installers : op[p].step \in {"opening", "writing", "renaming"} /\ At(p) = h}
Go(p, step) == op' = [op EXCEPT ![p].step = step]
Crossing(h, others) == crossed' = IF others = {} THEN crossed ELSE crossed \cup {h}

\* install_for names one harness; uninstall-hook goes through all of them.
Start(p, run, at) ==
    /\ op[p] = Idle /\ runs < Runs /\ runs' = runs + 1
    /\ run = "uninstall" => at = 1
    /\ op' = [op EXCEPT ![p].step = "reading", ![p].run = run, ![p].at = at]
    /\ UNCHANGED <<file, tmp, gitignore, tracked, edits, wanted, crossed>>

Done(p) == [op EXCEPT ![p] = Idle]

\* The next file, or the end, of an uninstall; the ignore rules of an install.
Onwards(p) ==
    IF op[p].run # "uninstall"
    THEN [op EXCEPT ![p] = [Idle EXCEPT !.step = "hiding", !.run = op[p].run,
              !.rules = IF At(p) \in Hidden THEN <<At(p), "state">> ELSE <<"state">>]]
    ELSE IF op[p].at = Len(Files) THEN Done(p)
    ELSE [op EXCEPT ![p] = [Idle EXCEPT !.step = "reading", !.run = "uninstall",
                                        !.at = op[p].at + 1]]

\* _read.  A file that does not parse ends the whole command.
Read(p) ==
    LET h == At(p) IN
    /\ op[p].step = "reading" /\ h \in Shared
    /\ op' = IF file[h] = Torn THEN Done(p)
             ELSE IF file[h] = None /\ op[p].run = "uninstall" THEN Onwards(p)
             ELSE [op EXCEPT ![p].step = "opening",
                             ![p].text = IF file[h] = None THEN Blank ELSE file[h]]
    /\ Crossing(h, Busy(h))
    /\ UNCHANGED <<file, tmp, gitignore, tracked, runs, edits, wanted>>

\* A file of our own is written without a look, and removed without one.
ReadNothing(p) ==
    LET h == At(p) IN
    /\ op[p].step = "reading" /\ h \notin Shared
    /\ IF op[p].run = "uninstall"
       THEN file' = [file EXCEPT ![h] = None] /\ op' = Onwards(p)
       ELSE Go(p, "opening") /\ UNCHANGED file
    /\ Crossing(h, Busy(h))
    /\ UNCHANGED <<tmp, gitignore, tracked, runs, edits, wanted>>

\* _write: the temporary file is emptied or made, ...
Open(p) ==
    /\ op[p].step = "opening"
    /\ tmp' = [tmp EXCEPT ![At(p)] = Torn]
    /\ op' = [op EXCEPT ![p].step = "writing", ![p].fd = "tmp"]
    /\ UNCHANGED <<file, gitignore, tracked, runs, edits, wanted, crossed>>

\* ... written, wherever another installer's rename has taken it meanwhile, ...
Write(p) ==
    LET h == At(p)
        out == IF op[p].run = "uninstall" THEN Strip(op[p].text)
               ELSE Installed(h, op[p].text, op[p].run = "held")
    IN
    /\ op[p].step = "writing" /\ Go(p, "renaming")
    /\ tmp' = IF op[p].fd = "tmp" THEN [tmp EXCEPT ![h] = out] ELSE tmp
    /\ file' = IF op[p].fd = "file" THEN [file EXCEPT ![h] = out] ELSE file
    /\ UNCHANGED <<gitignore, tracked, runs, edits, wanted, crossed>>

\* ... and renamed; renamed already by another, the command fails.
Rename(p) ==
    LET h == At(p)
        moved(q) == IF q \in Busy(h) /\ op[q].fd = "tmp" THEN "file"
                    ELSE IF q \in Busy(h) /\ op[q].fd = "file" THEN "gone" ELSE op[q].fd
    IN
    /\ op[p].step = "renaming"
    /\ IF tmp[h] = None THEN op' = Done(p) /\ UNCHANGED <<file, tmp>>
       ELSE /\ file' = [file EXCEPT ![h] = tmp[h]] /\ tmp' = [tmp EXCEPT ![h] = None]
            /\ op' = [q \in Installers |->
                        IF q = p THEN Onwards(p)[p] ELSE [op[q] EXCEPT !.fd = moved(q)]]
    /\ UNCHANGED <<gitignore, tracked, runs, edits, wanted, crossed>>

-----------------------------------------------------------------------------
(* ignores *)

\* ensure_ignored asks git, of a file that git has and of one it ignores.
EnsureIgnored(p) ==
    LET rule == Head(op[p].rules) IN
    /\ op[p].step = "hiding" /\ op[p].rules # <<>>
    /\ op' = IF rule \in tracked \cup gitignore
             THEN [op EXCEPT ![p].rules = Tail(@)]
             ELSE [op EXCEPT ![p].step = "appending", ![p].known = gitignore]
    /\ UNCHANGED <<file, tmp, gitignore, tracked, runs, edits, wanted, crossed>>

\* _append writes back the whole file that it read, with one rule more.
AppendRule(p) ==
    /\ op[p].step = "appending"
    /\ gitignore' = op[p].known \cup {Head(op[p].rules)}
    /\ op' = [op EXCEPT ![p].step = "hiding", ![p].rules = Tail(@), ![p].known = {}]
    /\ UNCHANGED <<file, tmp, tracked, runs, edits, wanted, crossed>>

\* Best effort: what raises here leaves the hook installed.
Finish(p) ==
    /\ op[p].step \in {"hiding", "appending"} /\ op' = Done(p)
    /\ UNCHANGED <<file, tmp, gitignore, tracked, runs, edits, wanted, crossed>>

-----------------------------------------------------------------------------
(* Around them *)

Killed(p) ==
    /\ op[p].step # "idle" /\ op' = Done(p)
    /\ UNCHANGED <<file, tmp, gitignore, tracked, runs, edits, wanted, crossed>>

\* The user, or another tool, adds a hook to a group or beside it, or takes one
\* away, in a file that parses.
Edit(h, e, hook) ==
    LET s == IF file[h] = None THEN Blank ELSE file[h] IN
    /\ edits < Edits /\ edits' = edits + 1
    /\ h \in Shared /\ file[h] # Torn
    /\ \/ /\ <<e, hook>> \notin wanted[h]
          /\ wanted' = [wanted EXCEPT ![h] = @ \cup {<<e, hook>>}]
          /\ \E g \in s[e] \cup {{}} :
                file' = [file EXCEPT ![h] =
                            [s EXCEPT ![e] = (@ \ {g}) \cup {g \cup {hook}}]]
       \/ /\ <<e, hook>> \in wanted[h]
          /\ wanted' = [wanted EXCEPT ![h] = @ \ {<<e, hook>>}]
          /\ file' = [file EXCEPT ![h] = [s EXCEPT ![e] = {g \ {hook} : g \in @} \ {{}}]]
    /\ op' = [q \in Installers |->
                IF q \in Busy(h) /\ op[q].fd = "file" THEN [op[q] EXCEPT !.fd = "gone"]
                ELSE op[q]]
    /\ Crossing(h, Busy(h))
    /\ UNCHANGED <<tmp, gitignore, tracked, runs>>

Next ==
    \/ \E p \in Installers :
          \/ \E run \in {"install", "held", "uninstall"}, at \in DOMAIN Files :
                Start(p, run, at)
          \/ Read(p) \/ ReadNothing(p) \/ Open(p) \/ Write(p) \/ Rename(p)
          \/ EnsureIgnored(p) \/ AppendRule(p) \/ Finish(p) \/ Killed(p)
    \/ \E h \in Harnesses, e \in Events, hook \in Others : Edit(h, e, hook)

Spec == Init /\ [][Next]_vars

-----------------------------------------------------------------------------
OursIn(s, e) == {g \in s[e] : g \cap Ours # {}}
TheirsIn(s) == {p \in Events \X Others : \E g \in s[p[1]] : p[2] \in g}

\* Installed and uninstalled by whatever versions and killed at any step: a
\* shared file has one hook of ours per event or none, and all of the others',
\* in a file that parses.  Where two were at work at a time it may lose both.
HooksSurvive ==
    /\ \A h \in Shared :
          LET s == IF file[h] = None THEN Blank ELSE file[h] IN
          h \notin crossed =>
             /\ s # Torn /\ TheirsIn(s) = wanted[h]
             /\ \A e \in Events : Cardinality(OursIn(s, e)) <= 1
             /\ \A e \in Events : OursIn(s, e) = {} <=> OursIn(s, "Stop") = {}

\* Nobody's hook and no file is lost (not run: overlapping installers share
\* their temporary file, and write what they read before).
NothingCrossed ==
    \A h \in Shared :
        file[h] \notin {None, Torn} => TheirsIn(file[h]) = wanted[h]

\* No rule is lost (not run: an append writes back what it read before another).
NoRuleLost == [][gitignore \subseteq gitignore']_vars
=============================================================================
