------------------------------- MODULE Waker -------------------------------
(***************************************************************************)
(* How a session is told of its mail: wake.py, as the hooks of hookconfig  *)
(* run it.  A harness runs a check at the start of a session, before each  *)
(* prompt and when a turn ends.  The last one may wait: it polls the hub,  *)
(* and holds the hub's event stream, which can only shorten its sleep,     *)
(* until something new is there, and then exits with 2, which makes the    *)
(* harness continue the turn.  At its deadline it settles, looks once more *)
(* and exits with 2 as well, so that the turn it causes installs the next  *)
(* waiter.                                                                 *)
(*                                                                         *)
(* What an engine has been told is in a file of its own, its watermark;    *)
(* a lock file is to keep its waiters to one.  Several checks of an engine *)
(* may run at once, and each is a process: it reads the hub, reads the     *)
(* watermark, writes it and only then says something.  Waiters keep time   *)
(* by what they slept; everything else takes none.                         *)
(***************************************************************************)
EXTENDS Naturals, FiniteSets

CONSTANTS
    None,
    Engines,
    Hooks,         \* processes an engine's hooks may have at once (bound), <<engine, n>>
    Messages,
    Waiting,       \* the engines whose Stop hook waits (not Codex's)
    WaitTimeout,   \* --wait-timeout
    Poll,          \* the polling interval, and
    SlowPoll,      \* the one while a stream is held
    Settle,        \* REARM_SETTLE
    HookTimeout,   \* when the harness kills a hook, or None
    Faults         \* requests to the hub that fail (bound)

Shared == "shared"   \* the watermark from before there was one per engine

\* Assumed of the constants; each instance is checked against it.
WakerConstants ==
    /\ Waiting \subseteq Engines
    /\ Hooks \subseteq Engines \X Nat
    /\ {WaitTimeout, Poll, SlowPoll, Settle} \subseteq Nat \ {0}
    /\ HookTimeout \in Nat \cup {None}
    /\ Faults \in Nat
    /\ Shared \notin Engines

Of(e) == {h \in Hooks : h[1] = e}
Events == {"SessionStart", "UserPromptSubmit", "Stop"}
Stages == {"none", "claim", "sweep", "sign", "fetch", "load", "save", "emit",
           "asleep", "settle", "leave"}
VARIABLES
    unread,    \* what waits in each engine's inbox
    sent,      \* the messages that have arrived so far
    seen,      \* the watermark files
    session,   \* what each engine's session is doing
    lock,      \* the waiter's lock file of each engine
    hook,      \* the processes
    faults,    \* failed requests so far
    told       \* history: what each engine's session has been told of, or would
               \* have been by a process that was killed; and the old watermark

vars == <<unread, sent, seen, session, lock, hook, faults, told>>

Hook == [at : Stages, event : Events, wait : BOOLEAN, found : SUBSET Messages,
         known : SUBSET Messages, tries : 0..2, slept : Nat, nap : Nat,
         held : {"no", "yes", "never"}, flag : BOOLEAN, rearm : BOOLEAN, code : {0, 2}]
NoHook == [at |-> "none", event |-> "Stop", wait |-> FALSE, found |-> {}, known |-> {},
           tries |-> 0, slept |-> 0, nap |-> 0, held |-> "no", flag |-> FALSE, rearm |-> FALSE,
           code |-> 0]
LockFile == [by : Hooks, said : BOOLEAN, alive : BOOLEAN]

TypeOK ==
    /\ unread \in [Engines -> SUBSET Messages]
    /\ sent \subseteq Messages
    /\ seen \in [Engines \cup {Shared} -> (SUBSET Messages) \cup {None}]
    /\ session \in [Engines -> {"closed", "busy", "idle"}]
    /\ lock \in [Engines -> LockFile \cup {None}]
    /\ hook \in [Hooks -> Hook]
    /\ faults \in 0..Faults
    /\ told \in [Engines -> SUBSET Messages]

\* A project from before the watermarks were split may still have the old one.
\* Mail that everybody has read already makes no difference.
Init ==
    /\ unread \in [Engines -> SUBSET Messages]
    /\ sent = UNION {unread[e] : e \in Engines}
    /\ \E old \in SUBSET sent :
          /\ seen \in {[e \in Engines \cup {Shared} |-> IF e = Shared THEN file ELSE None] :
                           file \in {old} \cup IF old = {} THEN {None} ELSE {}}
          /\ told = [e \in Engines |-> old]
    /\ session = [e \in Engines |-> "closed"]
    /\ lock = [e \in Engines |-> None]
    /\ hook = [h \in Hooks |-> NoHook]
    /\ faults = 0

-----------------------------------------------------------------------------
(* The pure parts *)

\* _state_path.
File(e) == e

\* _load_seen: an engine's own watermark, or the first time the old one.
Seen(e) ==
    IF seen[File(e)] # None THEN seen[File(e)]
    ELSE IF seen[Shared] # None THEN seen[Shared] ELSE {}

\* wake_response: what it says.  What it saves is all it found.
ToAnnounce(p) == IF p.event = "SessionStart" THEN p.found ELSE p.found \ p.known

\* Mutant: a held stream replaces the poll.
OnArrivalOnly(p) == p.flag

\* _interval is never unbounded: a sleep ends, whatever the stream does.
SleepEnds(p) == TRUE

\* _interval, to the deadline at most: longer while a stream is held.
Least(i, j) == IF i < j THEN i ELSE j
Interval(p) ==
    Least(IF p.held = "yes" /\ SlowPoll > Poll THEN SlowPoll ELSE Poll, WaitTimeout - p.slept)

\* The harness's own limit on a hook falls within the sleep.
CutShort(p) == IF HookTimeout = None THEN FALSE ELSE p.slept + p.nap > HookTimeout

\* _lock_stale.  The age it looks at as well is beyond what a waiter lives.
Stale(k) == ~k.said \/ ~k.alive

-----------------------------------------------------------------------------
(* The harness and the hub *)

\* A hook process begins.
Run(e, event) ==
    \E h \in Of(e) :
        /\ hook[h].at = "none"
        /\ LET wait == event = "Stop" /\ e \in Waiting IN
           hook' = [hook EXCEPT ![h] =
               [NoHook EXCEPT !.at = IF wait THEN "claim" ELSE "fetch",
                              !.event = event, !.wait = wait]]

StartSession(e) ==
    /\ session[e] = "closed"
    /\ session' = [session EXCEPT ![e] = "busy"]
    /\ Run(e, "SessionStart")
    /\ UNCHANGED <<unread, sent, seen, lock, faults, told>>

Prompt(e) ==
    /\ session[e] = "idle"
    /\ session' = [session EXCEPT ![e] = "busy"]
    /\ Run(e, "UserPromptSubmit")
    /\ UNCHANGED <<unread, sent, seen, lock, faults, told>>

EndTurn(e) ==
    /\ session[e] = "busy"
    /\ session' = [session EXCEPT ![e] = "idle"]
    /\ Run(e, "Stop")
    /\ UNCHANGED <<unread, sent, seen, lock, faults, told>>

\* What a killed process leaves: its lock file, and what it did not say.
Killed(hs) ==
    /\ hook' = [h \in Hooks |-> IF h \in hs THEN NoHook ELSE hook[h]]
    /\ lock' = [e \in Engines |->
          IF lock[e] # None /\ lock[e].by \in hs THEN [lock[e] EXCEPT !.alive = FALSE]
          ELSE lock[e]]
    /\ told' = [e \in Engines |-> told[e] \cup UNION {
          IF hook[h].at = "emit" THEN ToAnnounce(hook[h]) ELSE {} : h \in hs \cap Of(e)}]

\* The human closes the session, and its processes go with it.
CloseSession(e) ==
    /\ session[e] # "closed"
    /\ session' = [session EXCEPT ![e] = "closed"]
    /\ Killed(Of(e))
    /\ UNCHANGED <<unread, sent, seen, faults>>

\* The harness kills a hook that outlives its limit.
TimeOut(h) ==
    /\ hook[h].at \in {"asleep", "settle"} 
    /\ CutShort(hook[h])
    /\ Killed({h})
    /\ UNCHANGED <<unread, sent, seen, session, faults>>

\* Mail for some engines; a waiter that holds a stream may hear of it at once,
\* or not (the hub drops the event, a proxy keeps it).
Arrive(m, es) ==
    /\ m \notin sent
    /\ sent' = sent \cup {m}
    /\ unread' = [e \in Engines |-> IF e \in es THEN unread[e] \cup {m} ELSE unread[e]]
    /\ \E woken \in SUBSET {h \in Hooks : h[1] \in es /\ hook[h].held = "yes"} :
          hook' = [h \in Hooks |-> IF h \in woken THEN [hook[h] EXCEPT !.flag = TRUE] ELSE hook[h]]
    /\ UNCHANGED <<seen, session, lock, faults, told>>

\* The agent reads its mail.
Read(e, m) ==
    /\ session[e] = "busy" /\ m \in unread[e]
    /\ unread' = [unread EXCEPT ![e] = @ \ {m}]
    /\ UNCHANGED <<sent, seen, session, lock, hook, faults, told>>

-----------------------------------------------------------------------------
(* The waiter's lock *)

\* _acquire_lock: two tries to create the file.
Claim(h) ==
    LET e == h[1]  p == hook[h] IN
    /\ p.at = "claim"
    /\ IF p.tries < 2 /\ lock[e] = None
       THEN /\ lock' = [lock EXCEPT ![e] = [by |-> h, said |-> FALSE, alive |-> TRUE]]
            /\ hook' = [hook EXCEPT ![h].at = "sign"]
       ELSE /\ hook' = [hook EXCEPT ![h] = IF p.tries < 2 /\ Stale(lock[e])
                                           THEN [p EXCEPT !.at = "sweep", !.tries = @ + 1]
                                           ELSE NoHook]
            /\ UNCHANGED lock
    /\ UNCHANGED <<unread, sent, seen, session, faults, told>>

\* The unlink, of whatever lock is there by now.
Sweep(h) ==
    /\ hook[h].at = "sweep"
    /\ lock' = [lock EXCEPT ![h[1]] = None]
    /\ hook' = [hook EXCEPT ![h].at = "claim"]
    /\ UNCHANGED <<unread, sent, seen, session, faults, told>>

\* The claim, written into the file that was created, if it is still there.
Sign(h) ==
    LET e == h[1] IN
    /\ hook[h].at = "sign"
    /\ lock' = [lock EXCEPT ![e] = IF lock[e] # None /\ lock[e].by = h
                                   THEN [lock[e] EXCEPT !.said = TRUE] ELSE lock[e]]
    /\ hook' = [hook EXCEPT ![h].at = "fetch", ![h].tries = 0]
    /\ UNCHANGED <<unread, sent, seen, session, faults, told>>

-----------------------------------------------------------------------------
(* A check *)

Fetch(h) ==
    /\ hook[h].at = "fetch"
    /\ hook' = [hook EXCEPT ![h].at = "load", ![h].found = unread[h[1]]]
    /\ UNCHANGED <<unread, sent, seen, session, lock, faults, told>>

Load(h) ==
    /\ hook[h].at = "load"
    /\ hook' = [hook EXCEPT ![h].at = "save", ![h].known = Seen(h[1])]
    /\ UNCHANGED <<unread, sent, seen, session, lock, faults, told>>

\* Mutant: what is new is worked out against the watermark just written.
SaveAndCompare(h) ==
    /\ hook[h].at = "save"
    /\ seen' = [seen EXCEPT ![File(h[1])] = hook[h].found]
    /\ hook' = [hook EXCEPT ![h].at = "emit", ![h].known = hook[h].found]
    /\ UNCHANGED <<unread, sent, session, lock, faults, told>>

Save(h) ==
    /\ hook[h].at = "save"
    /\ seen' = [seen EXCEPT ![File(h[1])] = hook[h].found]
    /\ hook' = [hook EXCEPT ![h].at = "emit"]
    /\ UNCHANGED <<unread, sent, session, lock, faults, told>>

\* What matters of a process on its way out.
Leaving(p, code) == [NoHook EXCEPT !.at = "leave", !.wait = p.wait, !.code = code]

\* After a check that found nothing new: a one-shot ends, a waiter sleeps or,
\* at its deadline, settles.
AfterSilence(p) ==
    IF ~p.wait THEN NoHook
    ELSE IF p.rearm THEN Leaving(p, 2)
    ELSE IF p.slept >= WaitTimeout
         THEN [p EXCEPT !.at = "settle", !.nap = Settle, !.rearm = TRUE]
         ELSE [p EXCEPT !.at = "asleep", !.nap = Interval(p)]

\* _emit, and the exit code of a Stop hook that had something to say.
Emit(h) ==
    LET p == hook[h]  e == h[1]  new == ToAnnounce(p)
    IN
    /\ p.at = "emit"
    /\ told' = [told EXCEPT ![e] = @ \cup new]
    /\ hook' = [hook EXCEPT ![h] =
          IF new # {} /\ p.event = "Stop" THEN Leaving(p, 2)
          ELSE AfterSilence([p EXCEPT !.found = {}, !.known = {}])]
    /\ UNCHANGED <<unread, sent, seen, session, lock, faults>>

\* The hub does not answer.  A one-shot says nothing.  A waiter goes on as if
\* nothing were waiting, except in the check that follows the settling: that
\* exception leaves run, silently.
Fail(h) ==
    LET p == hook[h] IN
    /\ p.at = "fetch" /\ faults < Faults
    /\ faults' = faults + 1
    /\ hook' = [hook EXCEPT ![h] = IF p.rearm THEN Leaving(p, 0) ELSE AfterSilence(p)]
    /\ UNCHANGED <<unread, sent, seen, session, lock, told>>

\* The process ends: the lock goes if it is its own, and a 2 continues the turn.
Leave(h) ==
    LET p == hook[h]  e == h[1] IN
    /\ p.at = "leave"
    /\ lock' = [lock EXCEPT ![e] = IF lock[e] # None /\ lock[e].by = h /\ lock[e].said
                                   THEN None ELSE lock[e]]
    /\ session' = [session EXCEPT ![e] = IF p.code = 2 /\ @ = "idle" THEN "busy" ELSE @]
    /\ hook' = [hook EXCEPT ![h] = NoHook]
    /\ UNCHANGED <<unread, sent, seen, faults, told>>

-----------------------------------------------------------------------------
(* Sleeping, and the stream that shortens it *)

\* A sleep ends by its time, unless the harness's limit comes first, or at an
\* arrival, which is forgotten once observed.
Wake(h) ==
    LET p == hook[h] IN
    /\ p.at \in {"asleep", "settle"}
    /\ \/ /\ SleepEnds(p)
          /\ ~CutShort(p)
          /\ hook' = [hook EXCEPT ![h] = [p EXCEPT !.at = "fetch", !.slept = @ + p.nap, !.nap = 0]]
       \/ /\ p.flag
          /\ hook' = [hook EXCEPT ![h] = [p EXCEPT !.at = "fetch", !.nap = 0, !.flag = FALSE]]
    /\ UNCHANGED <<unread, sent, seen, session, lock, faults, told>>

\* ArrivalStream's thread: it connects, is refused for good, or loses its
\* connection and connects again.  Only a sleep looks at it, so it moves then.
Stream(h) ==
    /\ hook[h].wait /\ hook[h].at = "asleep"
    /\ \/ hook[h].held = "no" /\ hook' = [hook EXCEPT ![h].held = "yes"]
       \/ hook[h].held = "no" /\ hook' = [hook EXCEPT ![h].held = "never"]
       \/ hook[h].held = "yes" /\ hook' = [hook EXCEPT ![h].held = "no"]
    /\ UNCHANGED <<unread, sent, seen, session, lock, faults, told>>

Step(h) ==
    \/ Claim(h) \/ Sweep(h) \/ Sign(h)
    \/ Fetch(h) \/ Load(h) \/ Save(h) \/ Emit(h) \/ Leave(h) \/ Wake(h)

Next ==
    \/ \E e \in Engines : StartSession(e) \/ Prompt(e) \/ EndTurn(e) \/ CloseSession(e)
    \/ \E e \in Engines, m \in Messages : Read(e, m)
    \/ \E m \in Messages, es \in SUBSET Engines : Arrive(m, es)
    \/ \E h \in Hooks : Step(h) \/ Fail(h) \/ TimeOut(h) \/ Stream(h)

\* A process runs on, and a turn ends.
Fairness ==
    /\ \A h \in Hooks : WF_vars(Step(h))
    /\ \A e \in Engines : WF_vars(EndTurn(e))
Spec == Init /\ [][Next]_vars /\ Fairness

-----------------------------------------------------------------------------
(* Properties *)

\* Nothing is taken for announced that was not: a message an engine's
\* watermark holds, and that it has not read, the engine was told of, or is
\* about to be, however its checks overlap and whatever other engines' do;
\* unless whoever was to say so was killed, or the old watermark held it.
NoWakeLost ==
    \A e \in Engines : seen[File(e)] # None =>
        \A m \in seen[File(e)] \cap unread[e] :
            \/ m \in told[e]
            \/ \E h \in Of(e) : hook[h].at = "emit" /\ m \in ToAnnounce(hook[h])

Waits(e) == \E h \in Of(e) : hook[h].wait

\* A session that went idle with a waiter has one until it is woken: nothing
\* but a human leaves it idle and deaf ("an agent that stays reachable
\* overnight").
SessionStaysReachable ==
    \A e \in Waiting : session[e] = "idle" => Waits(e)

\* An engine's session is idle, waited for and has mail.
Sleeping(e, m) == m \in unread[e] /\ session[e] = "idle" /\ Waits(e)

\* What may become of that.
Roused(e, m) ==
    \/ m \in told[e] \/ m \notin unread[e]
    \/ session[e] = "closed" \/ (session[e] = "idle" /\ ~Waits(e))

\* Mail that waits while a session is idle and waited for is announced, or
\* read, or the session is closed or left without a waiter: whatever the
\* stream does, and however often the hub did not answer.
MailWakes == \A e \in Waiting, m \in Messages : Sleeping(e, m) ~> Roused(e, m)
=============================================================================
