----------------------------- MODULE Interrupts -----------------------------
(***************************************************************************)
(* Whether arriving mail may interrupt an agent: interrupt.decide and its  *)
(* Gatekeeper, and the part of the MCP server that holds the hub's event   *)
(* stream.  The gate remembers when it let mail interrupt, and whether the *)
(* hub at the other end authenticates senders, which is settled anew after *)
(* every connection and before anything is read from it.                   *)
(*                                                                         *)
(* A restart of the hub ends its streams and may change its mode.  The     *)
(* server's task ends when the hub, or a proxy before it, answers with a   *)
(* final status; the agent's next tool call begins another.                *)
(***************************************************************************)
EXTENDS Naturals, Sequences, FiniteSets

CONSTANTS
    None,
    Senders,
    WakeFrom,     \* Policy.wake_from
    MaxPerMinute, \* Policy.max_per_minute
    Window,       \* RATE_WINDOW_SECONDS
    Horizon,      \* how far the clock goes (bound)
    Adapter       \* whether a wake adapter is installed

\* Assumed of the constants; each instance is checked against it.
InterruptConstants ==
    /\ WakeFrom \subseteq Senders
    /\ MaxPerMinute \in Nat /\ Window \in Nat \ {0} /\ Horizon \in Nat
    /\ Adapter \in BOOLEAN

VARIABLES
    clock,
    hub,    \* its mode: whether it authenticates senders, or "down"
    task,   \* where the listening task is
    alive,  \* whether the stream it holds is of the hub that runs now
    gate,   \* the Gatekeeper: identity_verified and recent; or None
    woken   \* history: when this task's mail interrupted, in order

vars == <<clock, hub, task, alive, gate, woken>>

Times == 0..Horizon
Modes == {"authenticates", "open", "down"}

TypeOK ==
    /\ clock \in Times
    /\ hub \in Modes
    /\ task \in {"none", "dial", "settle", "read", "delay", "done"}
    /\ alive \in BOOLEAN
    /\ gate = None \/ (gate.verified \in BOOLEAN /\ gate.recent \in Seq(Times))
    /\ woken \in Seq(Times)

\* A gate that is built distrusts, and remembers nothing.
NewGate == [verified |-> FALSE, recent |-> <<>>]

Init ==
    /\ clock = 0
    /\ hub \in Modes
    /\ task = "none" /\ alive = FALSE
    /\ gate = None
    /\ woken = <<>>

-----------------------------------------------------------------------------
(* Deciding *)

\* The places of what it remembers and is not yet out of the window.
Within(recent) == {i \in DOMAIN recent : clock - recent[i] < Window}

\* decide: the reasons in their order, the last of them the interruption.
Reason(from) ==
    CASE WakeFrom = {} -> "not-configured"
      [] WakeFrom # {} /\ ~gate.verified -> "identity-unverified"
      [] WakeFrom # {} /\ gate.verified /\ from \notin WakeFrom -> "sender-not-trusted"
      [] from \in WakeFrom /\ gate.verified ->
            IF Cardinality(Within(gate.recent)) >= MaxPerMinute THEN "rate-limited"
            ELSE IF ~Adapter THEN "no-adapter" ELSE "wake"

\* A deque that keeps the cap's worth of times, and one at least.
Remembered(recent) ==
    LET all == Append(recent, clock)
        kept == IF MaxPerMinute = 0 THEN 1 ELSE MaxPerMinute
    IN IF Len(all) > kept THEN Tail(all) ELSE all

\* consider, for an arrival that the stream delivers.
Arrive(from) ==
    /\ task = "read" /\ alive
    /\ IF Reason(from) = "wake"
       THEN /\ gate' = [gate EXCEPT !.recent = Remembered(@)]
            /\ woken' = Append(woken, clock)
       ELSE UNCHANGED <<gate, woken>>
    /\ UNCHANGED <<clock, hub, task, alive>>

-----------------------------------------------------------------------------
(* Holding the stream *)

\* _start_listening, at a tool call: at most one task; _listen builds the gate.
ToolCall ==
    /\ task \in {"none", "done"}
    /\ task' = "dial" /\ alive' = FALSE
    /\ gate' = NewGate
    /\ woken' = <<>>
    /\ UNCHANGED <<clock, hub>>

\* Mutant: a connection begins with a gate of its own.
GateOnConnect == NewGate

\* A connection leaves the gate as it is.
GateKept == gate

Connect ==
    /\ task = "dial" /\ hub # "down"
    /\ task' = "settle" /\ alive' = TRUE
    /\ gate' = GateKept
    /\ UNCHANGED <<clock, hub, woken>>

\* The hub is away, or the connection is refused in a way that may pass.
Fail ==
    /\ task = "dial"
    /\ task' = "delay"
    /\ UNCHANGED <<clock, hub, alive, gate, woken>>

\* One of _FINAL_STATUSES.
RefusedForGood ==
    /\ task = "dial" /\ hub # "down"
    /\ task' = "done"
    /\ UNCHANGED <<clock, hub, alive, gate, woken>>

\* _hub_authenticates: any doubt answers no.
Verified == hub = "authenticates"

\* _settle_trust, before the first byte is read.
Settle ==
    /\ task = "settle"
    /\ gate' = [gate EXCEPT !.verified = Verified]
    /\ task' = "read"
    /\ UNCHANGED <<clock, hub, alive, woken>>

\* The stream ends, by the hub or on the way.
End ==
    /\ task = "read"
    /\ task' = "delay" /\ alive' = FALSE
    /\ UNCHANGED <<clock, hub, gate, woken>>

Redial ==
    /\ task = "delay"
    /\ task' = "dial"
    /\ UNCHANGED <<clock, hub, alive, gate, woken>>

\* _stop_listening: the gate goes with the stream.
StopListening ==
    /\ task # "none"
    /\ task' = "none" /\ alive' = FALSE
    /\ gate' = None
    /\ woken' = <<>>
    /\ UNCHANGED <<clock, hub>>

-----------------------------------------------------------------------------
HubRestarts ==
    /\ hub' \in Modes
    /\ alive' = FALSE
    /\ UNCHANGED <<clock, task, gate, woken>>

Tick ==
    /\ clock < Horizon
    /\ clock' = clock + 1
    /\ UNCHANGED <<hub, task, alive, gate, woken>>

Next ==
    \/ \E from \in Senders : Arrive(from)
    \/ ToolCall \/ Connect \/ Fail \/ RefusedForGood \/ Settle \/ End \/ Redial
    \/ StopListening \/ HubRestarts \/ Tick

Spec == Init /\ [][Next]_vars

-----------------------------------------------------------------------------
(* Properties *)

\* "A hub that restarts in a loop must not hand back a fresh allowance": within
\* any window a listening task interrupts the agent no more often than its cap,
\* however often the stream was lost and the trust settled anew, and though the
\* gate remembers no more interruptions than the cap.
RateHeld ==
    \A t \in Times :
        Cardinality({i \in 1..Len(woken) : woken[i] <= t /\ t - woken[i] < Window})
            <= MaxPerMinute

\* Nobody is interrupted on the word of a hub that does not authenticate, also
\* when the hub was restarted without authentication since the gate was built.
WakesOnVerifiedNamesStep == Len(woken') > Len(woken) => hub = "authenticates"
WakesOnVerifiedNames == [][WakesOnVerifiedNamesStep]_vars
=============================================================================
