----------------------------- MODULE Listeners -----------------------------
(***************************************************************************)
(* The hub's held connections: notify.Listeners and the two event streams  *)
(* of the API that use it.  A client asks for a stream, of one actor's     *)
(* mail or of everything; the hub answers before the generator behind the  *)
(* stream has run, and registers the connection only when it does.  Mail   *)
(* is announced after it is stored, in one synchronous step: to every      *)
(* connection of each local recipient, then once to whoever watches the    *)
(* hub.  A queue that is full drops the event.                             *)
(*                                                                         *)
(* A client may leave at any time; the hub learns of it later.  What a     *)
(* client missed it finds by polling, which nothing here affects.          *)
(***************************************************************************)
EXTENDS Naturals, FiniteSets, Sequences

CONSTANTS
    Actors,
    Clients,
    Hub,            \* the "actor" of a client that watches everything
    Owner,          \* whose stream each client asks for, [Clients -> Actors \cup {Hub}]
    Messages,
    MaxListeners,
    QueueDepth

\* Assumed of the constants; each instance is checked against it.
ListenersConstants ==
    /\ Hub \notin Actors
    /\ Owner \in [Clients -> Actors \cup {Hub}]
    /\ MaxListeners \in Nat /\ QueueDepth \in Nat \ {0}
    /\ IsFiniteSet(Clients)

VARIABLES
    conn,      \* what each client's request has come to
    queue,     \* the queue of each registered connection
    frames,    \* what a client has been sent on this connection
    owed,      \* history: what was announced to it while registered, in order
    dropped,   \* history: the part of that its queue had no room for
    announced  \* the messages sent so far

vars == <<conn, queue, frames, owed, dropped, announced>>

Stages == {"away", "answered", "open", "gone"}

\* count and at_capacity.
Registered == {c \in Clients : conn[c] \in {"open", "gone"}}
AtCapacity == Cardinality(Registered) >= MaxListeners

TypeOK ==
    /\ conn \in [Clients -> Stages]
    /\ queue \in [Clients -> Seq(Messages)]
    /\ frames \in [Clients -> Seq(Messages)]
    /\ owed \in [Clients -> Seq(Messages)]
    /\ dropped \in [Clients -> SUBSET Messages]
    /\ announced \subseteq Messages

Init ==
    /\ conn = [c \in Clients |-> "away"]
    /\ queue = [c \in Clients |-> <<>>]
    /\ frames = [c \in Clients |-> <<>>]
    /\ owed = [c \in Clients |-> <<>>]
    /\ dropped = [c \in Clients |-> {}]
    /\ announced = {}

\* The route's own check, before it starts to answer; full is a 503.
Ask(c) ==
    /\ conn[c] = "away" /\ ~AtCapacity
    /\ conn' = [conn EXCEPT ![c] = "answered"]
    /\ UNCHANGED <<queue, frames, owed, dropped, announced>>

\* The generator's first step; the cap is asked again, and the stream ends.
Refuse(c) ==
    /\ conn[c] = "answered" /\ AtCapacity
    /\ conn' = [conn EXCEPT ![c] = "away"]
    /\ UNCHANGED <<queue, frames, owed, dropped, announced>>

Register(c) ==
    /\ conn' = [conn EXCEPT ![c] = "open"]
    /\ queue' = [queue EXCEPT ![c] = <<>>]
    /\ frames' = [frames EXCEPT ![c] = <<>>]
    /\ owed' = [owed EXCEPT ![c] = <<>>]
    /\ dropped' = [dropped EXCEPT ![c] = {}]
    /\ UNCHANGED announced

\* open and open_everything.
Open(c) == conn[c] = "answered" /\ ~AtCapacity /\ Register(c)

\* The client leaves.  Before its generator ran there is nothing to undo.
Vanish(c) ==
    /\ conn[c] \in {"answered", "open"}
    /\ conn' = [conn EXCEPT ![c] = IF @ = "open" THEN "gone" ELSE "away"]
    /\ UNCHANGED <<queue, frames, owed, dropped, announced>>

\* Mutant: only a stream that had nothing left to say cleans up.
CloseWhenDrained(c) ==
    /\ conn[c] = "gone" /\ queue[c] = <<>>
    /\ conn' = [conn EXCEPT ![c] = "away"]
    /\ UNCHANGED <<queue, frames, owed, dropped, announced>>

\* The generator is cancelled: close and close_everything, from its finally.
Close(c) ==
    /\ conn[c] = "gone"
    /\ conn' = [conn EXCEPT ![c] = "away"]
    /\ UNCHANGED <<queue, frames, owed, dropped, announced>>

Frame(c) ==
    /\ conn[c] = "open" /\ queue[c] # <<>>
    /\ frames' = [frames EXCEPT ![c] = Append(@, Head(queue[c]))]
    /\ queue' = [queue EXCEPT ![c] = Tail(@)]
    /\ UNCHANGED <<conn, owed, dropped, announced>>

\* Mutant: who watches the hub is told inside the loop over the recipients.
CopiesInTheLoop(c, recipients) ==
    Cardinality(IF Owner[c] = Hub THEN recipients ELSE recipients \cap {Owner[c]})

\* announce, for each recipient, and announce_all, once.
Copies(c, recipients) == IF Owner[c] \in recipients \cup {Hub} THEN 1 ELSE 0

Full(q) == Len(q) >= QueueDepth

\* put_nowait, or drop; of several copies, as many as there is room for.
Offer(q, m, copies) ==
    LET room == IF Full(q) THEN 0 ELSE QueueDepth - Len(q)
    IN q \o [i \in 1..(IF copies < room THEN copies ELSE room) |-> m]

\* House._announce, after the store.
Announce(m, recipients) ==
    LET told == {c \in Registered : Copies(c, recipients) > 0}
    IN
    /\ m \notin announced
    /\ announced' = announced \cup {m}
    /\ queue' = [c \in Clients |-> IF c \in told THEN Offer(queue[c], m, Copies(c, recipients))
                             ELSE queue[c]]
    /\ owed' = [c \in Clients |-> IF c \in told THEN Append(owed[c], m) ELSE owed[c]]
    /\ dropped' = [c \in Clients |->
          IF c \in told /\ Full(queue[c]) THEN dropped[c] \cup {m} ELSE dropped[c]]
    /\ UNCHANGED <<conn, frames>>

Next ==
    \/ \E c \in Clients : Ask(c) \/ Refuse(c) \/ Open(c) \/ Vanish(c) \/ Close(c) \/ Frame(c)
    \/ \E m \in Messages, r \in SUBSET Actors : Announce(m, r)

\* The event loop runs a cancelled generator to its end.
Fairness == \A c \in Clients : WF_vars(Close(c))
Spec == Init /\ [][Next]_vars /\ Fairness

-----------------------------------------------------------------------------
(* Properties *)

\* The hub never holds more connections than its cap, though the route's check
\* and the registration are apart: the registration checks again.
WithinCap == Cardinality(Registered) <= MaxListeners

\* What was heard is what was owed but for what is missing: each once, in order.
Faithful(had, all, missing) ==
    /\ \A i \in DOMAIN had : had[i] \notin missing
    /\ \A k \in DOMAIN all : all[k] \notin missing => \E i \in DOMAIN had : had[i] = all[k]
    /\ \A i \in DOMAIN had : \E k \in DOMAIN all : had[i] = all[k]
    /\ \A i, j \in DOMAIN had : i < j =>
          /\ had[i] # had[j]
          /\ \E k, l \in DOMAIN all : k < l /\ had[i] = all[k] /\ had[j] = all[l]

\* A connection hears everything announced to it since it was registered, each
\* message once and in order, also a message to several people it watches all
\* of, except for what came while its queue was full.
ToldOnceInOrder ==
    \A c \in Registered : Faithful(frames[c] \o queue[c], owed[c], dropped[c])

\* The hub is full, and every connection was left by its client.
Deserted == AtCapacity /\ \A c \in Clients : conn[c] # "open"

\* A hub whose connections have all been left by their clients does not stay
\* full: no client that went away keeps a slot.
SlotsComeBack == Deserted ~> ~Deserted
=============================================================================
