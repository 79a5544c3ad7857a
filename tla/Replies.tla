------------------------------ MODULE Replies ------------------------------
(***************************************************************************)
(* Answering mail through the MCP tools: reply_message and reply_messages. *)
(* A reply is sent only when the thread does not show it already, the same *)
(* body to the same message; so an agent whose call failed may call again. *)
(* A batch is worked off one item after the other, up to a cap, and every  *)
(* item is reported on its own.                                            *)
(*                                                                         *)
(* The client gives up on an answer after a time, and the hub does not     *)
(* learn of it: the request goes on.  A hub that refuses the connection    *)
(* never got the request.                                                  *)
(***************************************************************************)
EXTENDS Naturals, FiniteSets, Sequences

CONSTANTS
    Messages,
    Bodies,
    Batches,   \* the calls an agent may make, each a sequence of replies
    BatchCap,  \* BATCH_CAP
    Calls      \* how many calls are made (bound)

Reply == [message : Messages, body : Bodies]

\* Assumed of the constants; each instance is checked against it.
RepliesConstants ==
    /\ Batches \subseteq Seq(Reply)
    /\ BatchCap \in Nat \ {0} /\ Calls \in Nat

VARIABLES
    batch,    \* the call under way
    results,  \* the outcomes of its items so far
    step,     \* the client: "idle", "next", "checked", "waiting"
    calls,    \* the calls so far
    flight,   \* the posts the hub is at work on
    stored,   \* how often the hub stored each reply
    handled,  \* the messages no longer waiting for this agent
    early     \* history: the replies looked for while one was under way

vars == <<batch, results, step, calls, flight, stored, handled, early>>

Outcomes ==
    {"delivered", "duplicate", "unknown", "failed", "not attempted"}
Post == [reply : Reply, call : 1..Calls, stage : {"sent", "stored", "answering"}]

TypeOK ==
    /\ batch \in Batches \cup {<<>>}
    /\ results \in Seq(Outcomes) /\ Len(results) <= Len(batch)
    /\ step \in {"idle", "next", "checked", "waiting"}
    /\ calls \in 0..Calls
    /\ flight \subseteq Post
    /\ stored \in [Reply -> Nat]
    /\ handled \subseteq Messages
    /\ early \subseteq Reply

Init ==
    /\ batch = <<>> /\ results = <<>> /\ step = "idle" /\ calls = 0
    /\ flight = {}
    /\ stored = [r \in Reply |-> 0]
    /\ handled = {} /\ early = {}

-----------------------------------------------------------------------------
(* The client *)

At == Len(results) + 1
This == batch[At]
Before == {batch[i].message : i \in 1..(At - 1)}

Call(b) ==
    /\ step = "idle" /\ calls < Calls
    /\ batch' = b /\ results' = <<>> /\ step' = "next"
    /\ calls' = calls + 1
    /\ UNCHANGED <<flight, stored, handled, early>>

Report(outcome) ==
    /\ results' = Append(results, outcome)
    /\ step' = "next"

Turn == step = "next" /\ At <= Len(batch)

\* An item whose message came earlier in the batch, whatever its body and whatever
\* became of the earlier one, is reported as one that was "handled there".
Repeated ==
    /\ Turn /\ This.message \in Before
    /\ Report("duplicate")
    /\ UNCHANGED <<batch, calls, flight, stored, handled, early>>

BeyondCap ==
    /\ Turn /\ This.message \notin Before /\ Cardinality(Before) >= BatchCap
    /\ Report("not attempted")
    /\ UNCHANGED <<batch, calls, flight, stored, handled, early>>

Attempted == Turn /\ This.message \notin Before /\ Cardinality(Before) < BatchCap

\* Mutant: the parent's name is compared in two spellings.
FoundNever(r) == FALSE

\* _existing_reply.
Found(r) == stored[r] > 0

\* _reply_once: the look at the thread.
Check ==
    /\ Attempted
    /\ IF Found(This) THEN Report("duplicate") ELSE results' = results /\ step' = "checked"
    /\ early' = IF \E f \in flight : f.reply = This /\ f.stage = "sent"
                THEN early \cup {This} ELSE early
    /\ UNCHANGED <<batch, calls, flight, stored, handled>>

CheckFails ==
    /\ Attempted
    /\ Report("unknown")
    /\ UNCHANGED <<batch, calls, flight, stored, handled, early>>

Send ==
    /\ step = "checked"
    /\ flight' = flight \cup {[reply |-> This, call |-> calls, stage |-> "sent"]}
    /\ step' = "waiting"
    /\ UNCHANGED <<batch, results, calls, stored, handled, early>>

\* _open: the connection was refused until the grace was over.
Unreached ==
    /\ step = "checked"
    /\ Report("failed")
    /\ UNCHANGED <<batch, calls, flight, stored, handled, early>>

Mine(f) == step = "waiting" /\ f.reply = This /\ f.call = calls

Answered(f) ==
    /\ Mine(f) /\ f.stage = "answering"
    /\ flight' = flight \ {f}
    /\ Report("delivered")
    /\ UNCHANGED <<batch, calls, stored, handled, early>>

\* The hub refuses, or raises before it stored.
Refused(f) ==
    /\ f.stage = "sent"
    /\ flight' = flight \ {f}
    /\ IF Mine(f) THEN Report("failed") ELSE UNCHANGED <<results, step>>
    /\ UNCHANGED <<batch, calls, stored, handled, early>>

\* The client's timeout, or an answer that was lost.
TimedOut ==
    /\ step = "waiting"
    /\ Report("failed")
    /\ UNCHANGED <<batch, calls, flight, stored, handled, early>>

Done ==
    /\ step = "next" /\ At > Len(batch)
    /\ step' = "idle"
    /\ UNCHANGED <<batch, results, calls, flight, stored, handled, early>>

-----------------------------------------------------------------------------
(* The hub: House.reply *)

Becomes(f, stage) == flight' = (flight \ {f}) \cup {[f EXCEPT !.stage = stage]}

StoreReply(f) ==
    /\ f.stage = "sent"
    /\ stored' = [stored EXCEPT ![f.reply] = @ + 1]
    /\ Becomes(f, "stored")
    /\ UNCHANGED <<batch, results, step, calls, handled, early>>

\* The original is marked read; that this fails is swallowed.
Mark(f) ==
    /\ f.stage = "stored"
    /\ handled' \in {handled, handled \cup {f.reply.message}}
    /\ Becomes(f, "answering")
    /\ UNCHANGED <<batch, results, step, calls, stored, early>>

Forget(f) ==
    /\ f.stage = "answering" /\ ~Mine(f)
    /\ flight' = flight \ {f}
    /\ UNCHANGED <<batch, results, step, calls, stored, handled, early>>

Next ==
    \/ \E b \in Batches : Call(b)
    \/ Repeated \/ BeyondCap \/ Check \/ CheckFails \/ Send \/ Unreached \/ TimedOut \/ Done
    \/ \E f \in flight : \/ Answered(f) \/ Refused(f) \/ StoreReply(f) \/ Mark(f) \/ Forget(f)

Spec == Init /\ [][Next]_vars

-----------------------------------------------------------------------------
(* Properties *)

\* However often an agent repeats a call that failed, a reply is stored once;
\* unless it was looked for while an earlier attempt was still on its way.
RepliedOnce == \A r \in Reply : stored[r] > 1 => r \in early

\* The item's message came earlier in the batch.
Again(i) == \E j \in 1..(i - 1) : batch[j].message = batch[i].message

\* What a report gives an agent to rely on: that the reply is on the thread.  A
\* duplicate says so only of the first item of the batch to its message: of a later
\* one the hub was not asked, and the earlier one may have failed.
Assures(i) == results[i] = "delivered" \/ (results[i] = "duplicate" /\ ~Again(i))

\* What a call reports is so: a reply that was delivered, or is a duplicate and
\* no item's repetition, is on the thread; and a message is handled only when a
\* reply of this agent to it was stored.
LedgerIsTrue ==
    /\ \A i \in 1..Len(results) : Assures(i) => stored[batch[i]] > 0
    /\ \A m \in handled : \E r \in Reply : r.message = m /\ stored[r] > 0

\* "Safe to retry.  If your previous call timed out, call again with the same
\* body ... and nothing is sent twice."
SafeToRetry == \A r \in Reply : stored[r] <= 1
=============================================================================
