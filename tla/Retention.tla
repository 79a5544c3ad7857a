------------------------------ MODULE Retention -----------------------------
(***************************************************************************)
(* When the hub expires mail: the purge loop that lives as long as the hub *)
(* serves, the status it leaves for anyone to look at, and the page from   *)
(* which an operator previews a purge and runs one.  Which threads are     *)
(* idle long enough is Rules' expiring_threads, and here a set that grows. *)
(***************************************************************************)
EXTENDS Naturals, FiniteSets

CONSTANTS
    None,
    Conversations,   \* the threads of the hub
    Minutes,     \* purge_interval_minutes; 0 is no schedule
    Settle,      \* SETTLE_MINUTES
    Keeps,       \* whether the hub's retention window is set at all
    Failures     \* cycles that raise (bound)

\* Assumed of the constants; each instance is checked against it.
RetentionConstants ==
    /\ Minutes \in Nat /\ Settle \in Nat \ {0} /\ Keeps \in BOOLEAN
    /\ Failures \in Nat

VARIABLES
    hub,       \* whether it serves
    up,        \* minutes since it started, counted to just over Settle (bound)
    loop,      \* purge_forever: "none", "sleeping" or "purging"
    left,      \* minutes of its sleep that are left
    doomed,    \* what the purge under way, the loop's, is to remove
    status,    \* PurgeStatus
    idle,      \* threads that have been quiet for long enough
    removed,   \* threads that are gone
    page,      \* the operator's maintenance page
    faults     \* cycles that raised

letters == <<idle, removed>>
cycle == <<loop, left, doomed, status>>
vars == <<hub, up, cycle, letters, page, faults>>

\* A page shows a preview with the loop's status, and after a purge its count;
\* or it is blank: not asked for, refused, or cut off.
Blank == [at |-> "blank", shows |-> {}, heartbeat |-> None, note |-> None]
NeverRan == [ran |-> FALSE, took |-> 0, error |-> FALSE]
Status == [ran : BOOLEAN, took : 0..Cardinality(Conversations), error : BOOLEAN]

TypeOK ==
    /\ hub \in {"up", "down"} /\ up \in 0..(Settle + 1)
    /\ loop \in {"none", "sleeping", "purging"} /\ left \in 0..(Minutes + Settle)
    /\ doomed \subseteq Conversations /\ status \in Status
    /\ idle \subseteq Conversations /\ removed \subseteq Conversations
    /\ page \in [at : {"blank", "shown", "purging", "purged"},
                 shows : SUBSET Conversations, heartbeat : Status \cup {None},
                 note : 0..Cardinality(Conversations) \cup {None}]
    /\ faults \in 0..Failures

Init ==
    /\ hub = "down" /\ up = 0 /\ loop = "none" /\ left = 0 /\ doomed = {}
    /\ status = NeverRan /\ idle = {} /\ removed = {} /\ page = Blank
    /\ faults = 0

-----------------------------------------------------------------------------
(* The purge and its preview *)

\* expire_preview: what a purge would remove.
Expiring == IF Keeps THEN idle \ removed ELSE {}

\* PurgeStatus.completed and .failed.
Completed(n) == [ran |-> TRUE, took |-> n, error |-> FALSE]
Failed == [status EXCEPT !.error = TRUE]

-----------------------------------------------------------------------------
(* The loop, as long as the hub serves *)

\* Mutant: the first cycle waits as long as the rest.
FirstDelayWhole == Minutes

\* The first cycle comes sooner than the rest, and never at startup.
FirstDelay == IF Minutes < Settle THEN Minutes ELSE Settle

\* scheduled_purge
Start ==
    /\ hub = "down" /\ hub' = "up" /\ up' = 0
    /\ IF Minutes = 0
       THEN loop' = "none" /\ left' = 0
       ELSE loop' = "sleeping" /\ left' = FirstDelay
    /\ UNCHANGED <<doomed, status, letters, page, faults>>

\* Shut down, or killed: the task goes with the hub, and so does its status.
Stop ==
    /\ hub = "up" /\ hub' = "down" /\ up' = 0
    /\ loop' = "none" /\ left' = 0 /\ doomed' = {} /\ status' = NeverRan
    /\ page' = IF page.at = "purging" THEN Blank ELSE page
    /\ UNCHANGED <<letters, faults>>

Due == loop = "sleeping" /\ left = 0

\* A minute passes; a timer that is due fires first, and a cycle is short.
Minute ==
    /\ hub = "up" /\ ~Due /\ loop # "purging"
    /\ up' = IF up > Settle THEN up ELSE up + 1
    /\ left' = IF loop = "sleeping" THEN left - 1 ELSE left
    /\ UNCHANGED <<hub, loop, doomed, status, letters, page, faults>>

Wake ==
    /\ Due /\ loop' = "purging" /\ doomed' = Expiring
    /\ UNCHANGED <<hub, up, left, status, letters, page, faults>>

Purge ==
    /\ loop = "purging"
    /\ removed' = removed \cup doomed
    /\ status' = Completed(Cardinality(doomed))
    /\ loop' = "sleeping" /\ left' = Minutes /\ doomed' = {}
    /\ UNCHANGED <<hub, up, idle, page, faults>>

\* The store raises at either step; the loop goes on.
PurgeRaises ==
    /\ loop = "purging" /\ faults < Failures /\ faults' = faults + 1
    /\ status' = Failed
    /\ loop' = "sleeping" /\ left' = Minutes /\ doomed' = {}
    /\ UNCHANGED <<hub, up, letters, page>>

-----------------------------------------------------------------------------
(* The operator's page *)

\* purge_preview: the list and the schedule's status in one answer.
Preview(note) ==
    [at |-> "shown", shows |-> Expiring, heartbeat |-> status, note |-> note]

Look ==
    /\ hub = "up" /\ page' = Preview(None)
    /\ UNCHANGED <<hub, up, cycle, letters, faults>>

\* There is a button only under a list.
PressPurge ==
    /\ hub = "up" /\ page.at = "shown" /\ page.shows # {}
    /\ page' = [Blank EXCEPT !.at = "purging", !.shows = Expiring]
    /\ UNCHANGED <<hub, up, cycle, letters, faults>>

PurgeNow ==
    /\ page.at = "purging"
    /\ removed' = removed \cup page.shows
    /\ page' = [Blank EXCEPT !.at = "purged", !.note = Cardinality(page.shows)]
    /\ UNCHANGED <<hub, up, cycle, idle, faults>>

\* What is left is read again, not taken from the purge's answer; refused, it
\* is shown as nothing.
ReadAgain ==
    /\ page.at = "purged"
    /\ page' = IF hub = "up" THEN Preview(page.note) ELSE Blank
    /\ UNCHANGED <<hub, up, cycle, letters, faults>>

\* The hub refuses (nobody is signed in), or the operator leaves.
Refused ==
    /\ page.at # "blank" /\ page' = Blank
    /\ UNCHANGED <<hub, up, cycle, letters, faults>>

\* A thread has been quiet for as long as the hub keeps mail.
GoQuiet(t) ==
    /\ t \notin idle /\ idle' = idle \cup {t}
    /\ UNCHANGED <<hub, up, cycle, removed, page, faults>>

Next ==
    \/ Start \/ Stop \/ Minute \/ Wake \/ Purge \/ PurgeRaises
    \/ Look \/ PressPurge \/ PurgeNow \/ ReadAgain \/ Refused
    \/ \E t \in Conversations : GoQuiet(t)

\* The hub's own steps, and time's.
Fairness == WF_vars(Minute) /\ WF_vars(Wake) /\ WF_vars(Purge \/ PurgeRaises)

Spec == Init /\ [][Next]_vars /\ Fairness

-----------------------------------------------------------------------------
(* However often the hub is restarted: if it keeps being up for longer     *)
(* than the settling time, the loop has every idle thread removed.  The    *)
(* loop that shipped first slept a whole interval before its first cycle.  *)
SettlesAgain == up > Settle
ExpiresSome(t) == t \in idle /\ t \notin removed
RetentionRuns ==
    []<>SettlesAgain => \A t \in Conversations : ~<>[]ExpiresSome(t)

\* A hub that has been up for longer than that says so: its status has a cycle.
HeartbeatTells ==
    up > Settle /\ Minutes > 0 => status.ran \/ status.error

\* What an operator's purge removes was on the list that they were shown; it is
\* what is idle when the button is pressed, which may be more (not run).
PurgedWasShown ==
    [][page.at = "shown" /\ page'.at = "purging" => page'.shows \subseteq page.shows]_vars
=============================================================================
