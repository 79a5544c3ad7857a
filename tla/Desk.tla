-------------------------------- MODULE Desk -------------------------------
(***************************************************************************)
(* What runs beside an agent or a human, side by side: what Machine has,   *)
(* the wake hooks, the MCP server's gate, replies and inbox, and the       *)
(* console's relay.  A behaviour is one of the part it begins with, and    *)
(* the variables of the others stay as they are.                           *)
(***************************************************************************)
EXTENDS Machine, Naturals

CONSTANTS
    WakeEngines, Hooks, News, Wakeful, WaitTimeout, Poll, SlowPoll, SettleTime,
    HookTimeout, Faults,                                          \* wake hooks
    Senders, WakeFrom, MaxPerMinute, Window, Horizon, Adapter,    \* interruptions
    Messages, Bodies, Batches, BatchCap, Calls,                   \* replies
    Sessions, Ids, LastInstant, OneEach, PageSize, InboxViews,    \* the inbox
    Pages, Depth, LostAfter, Lag                                  \* the relay

VARIABLES
    unread, sent, seen, session, hookLock, hook, hookFaults, told,
    clock, hub, task, alive, gate, woken,
    batch, results, step, calls, flight, stored, handled, early,
    instant, service, waiting, asked, cursor, shown, excused,
    upstream, stage, attempt, settled, state, saying, stopped, pageAt, onItsWay, feed,
    head, missed

Wakes == INSTANCE Waker WITH
    Engines <- WakeEngines, Waiting <- Wakeful, Messages <- News, Settle <- SettleTime,
    faults <- hookFaults, lock <- hookLock
Gate == INSTANCE Interrupts
Answers == INSTANCE Replies
Mail == INSTANCE Inbox WITH
    Views <- InboxViews, Page <- PageSize, clock <- instant, hub <- service
Line == INSTANCE Relay WITH page <- pageAt, posted <- onItsWay

\* What the parts assume of their constants, which each module states.
ASSUME DeskConstants ==
    /\ Wakes!WakerConstants /\ Gate!InterruptConstants /\ Answers!RepliesConstants
    /\ Mail!InboxConstants /\ Line!RelayConstants

-----------------------------------------------------------------------------
wakes == <<unread, sent, seen, session, hookLock, hook, hookFaults, told>>
interrupts == <<clock, hub, task, alive, gate, woken>>
replies == <<batch, results, step, calls, flight, stored, handled, early>>
inbox == <<instant, service, waiting, asked, cursor, shown, excused>>
line == <<upstream, stage, attempt, settled, state, saying, stopped, pageAt, onItsWay, feed,
          head, missed>>

NoWakes ==
    /\ unread = Off /\ sent = Off /\ seen = Off /\ session = Off
    /\ hookLock = Off /\ hook = Off /\ hookFaults = Off /\ told = Off

NoInterrupts ==
    /\ clock = Off /\ hub = Off /\ task = Off /\ alive = Off /\ gate = Off
    /\ woken = Off

NoReplies ==
    /\ batch = Off /\ results = Off /\ step = Off /\ calls = Off
    /\ flight = Off /\ stored = Off /\ handled = Off /\ early = Off

NoInbox ==
    /\ instant = Off /\ service = Off /\ waiting = Off /\ asked = Off
    /\ cursor = Off /\ shown = Off /\ excused = Off

NoLine ==
    /\ upstream = Off /\ stage = Off /\ attempt = Off /\ settled = Off
    /\ state = Off /\ saying = Off /\ stopped = Off /\ pageAt = Off
    /\ onItsWay = Off /\ feed = Off /\ head = Off /\ missed = Off

\* The parts of Machine as they begin when the behaviour is of another.
NoMachine == Fresh /\ NoHooks /\ NoBrowser

DeskInit ==
    \/ MachineInit /\ NoWakes /\ NoInterrupts /\ NoReplies /\ NoInbox /\ NoLine
    \/ /\ NoMachine
       /\ \/ part = "wakes" /\ Wakes!Init
             /\ NoInterrupts /\ NoReplies /\ NoInbox /\ NoLine
          \/ part = "interrupts" /\ Gate!Init
             /\ NoWakes /\ NoReplies /\ NoInbox /\ NoLine
          \/ part = "replies" /\ Answers!Init
             /\ NoWakes /\ NoInterrupts /\ NoInbox /\ NoLine
          \/ part = "inbox" /\ Mail!Init
             /\ NoWakes /\ NoInterrupts /\ NoReplies /\ NoLine
          \/ part = "line" /\ Line!Init
             /\ NoWakes /\ NoInterrupts /\ NoReplies /\ NoInbox

DeskNext ==
    \/ MachineNext /\ UNCHANGED <<wakes, interrupts, replies, inbox, line>>
    \/ part = "wakes" /\ Wakes!Next
       /\ UNCHANGED <<machineVars, interrupts, replies, inbox, line>>
    \/ part = "interrupts" /\ Gate!Next
       /\ UNCHANGED <<machineVars, wakes, replies, inbox, line>>
    \/ part = "replies" /\ Answers!Next
       /\ UNCHANGED <<machineVars, wakes, interrupts, inbox, line>>
    \/ part = "inbox" /\ Mail!Next
       /\ UNCHANGED <<machineVars, wakes, interrupts, replies, line>>
    \/ part = "line" /\ Line!Next
       /\ UNCHANGED <<machineVars, wakes, interrupts, replies, inbox>>

deskVars == <<machineVars, wakes, interrupts, replies, inbox, line>>

\* The fairness of the parts, each in its own behaviours.
Fairness ==
    /\ \A w \in Processes : WF_vars(part = "config" /\ Step(w))
    /\ \A h \in Hooks : WF_wakes(part = "wakes" /\ Wakes!Step(h))
    /\ \A e \in WakeEngines : WF_wakes(part = "wakes" /\ Wakes!EndTurn(e))
    /\ WF_line(part = "line" /\ Line!Proceed)
    /\ WF_line(part = "line" /\ Line!Fanout)
    /\ \A p \in Pages : WF_line(part = "line" /\ Line!Offer(p))

DeskSpec == DeskInit /\ [][DeskNext]_deskVars /\ Fairness

-----------------------------------------------------------------------------
(* The properties of the parts, each over the behaviours of its part; those *)
(* of the machine's parts are as Machine and ProjectConfig state them.      *)

\* Whatever an engine's watermark holds and it has not read, it was told of,
\* or is about to be, however its checks overlap (wake.run, wake_response).
NoWakeLost == part = "wakes" => Wakes!NoWakeLost

\* Mail for an idle session that is waited for rouses it (wake._wait).
MailWakes ==
    \A e \in WakeEngines, m \in News :
        (part = "wakes" /\ Wakes!Sleeping(e, m)) ~> (part = "wakes" /\ Wakes!Roused(e, m))

\* A task interrupts no more often than its cap, across reconnects
\* (interrupt.Gatekeeper, mcp_client._hold_the_stream).
RateHeld == part = "interrupts" => Gate!RateHeld

\* A repeated call does not store a reply twice, unless it overtook an earlier
\* attempt (mcp_client._reply_once).
RepliedOnce == part = "replies" => Answers!RepliedOnce

\* Waiting mail that a session's bookmark has passed was shown to it, but for
\* the cases its module names (api.inbox).
PassedWasShown == part = "inbox" => Mail!PassedWasShown

\* A subscribed page will show the relay's state, unless the last change fell
\* between its greeting and its subscription or found its queue full: those two
\* losses the code does not make good (relay.Relay.subscribe, _post).
WatchersAgree == part = "line" => Line!WatchersAgree

\* A hub that stays up is connected to again (relay.Relay._run).
LineComesBack == <>[](part = "line" /\ Line!Reachable) => []<>(part = "line" /\ Line!Open)
=============================================================================
