------------------------------- MODULE House -------------------------------
(***************************************************************************)
(* The pipeline every policed operation goes through: the policies check   *)
(* the attempt and may refuse it, the operation is carried out, the        *)
(* policies are told how it went, and listeners are told of new mail.  A   *)
(* send has a part on this hub and a part on others: remote recipients are *)
(* resolved first, then the message is stored, then it is delivered.       *)
(*                                                                         *)
(* The state is one attempt at a time; what the mailbox does with it is    *)
(* Mailbox, what a delivery goes through is Delivery.                      *)
(***************************************************************************)
EXTENDS Naturals, FiniteSets, Sequences

CONSTANTS
    Locals,         \* recipients of this hub
    Remotes,        \* addresses at other hubs
    Policies,       \* the policies in their order, by name
    Broken,         \* those whose record raises
    MaxRecipients,  \* MessageLimits.max_recipients
    Attempts        \* attempts made (bound)

Names == {Policies[i] : i \in DOMAIN Policies}

\* Assumed of the constants; each instance is checked against it.
HouseConstants ==
    /\ Policies \in Seq({"standing_residents", "message_limits", "audit_log",
                         "probe_detector"})
    /\ Broken \subseteq Names
    /\ MaxRecipients \in Nat /\ Attempts \in Nat

Addressees == Locals \cup Remotes

VARIABLES
    deliverer,  \* whether this house was given a delivery collaborator
    op,         \* the operation under way: "none", "send", "read" or "view"
    to,         \* its recipients
    large,      \* its body is over the limit
    at,         \* how far it is
    resolved,   \* remote recipients with an actor URI
    receipts,   \* what is reported of the remote recipients
    stored,     \* the message is in the mailbox
    outcome,    \* what the policies are to be told: "ok", "failed", "not yours"
    heard,      \* how many policies were told
    log,        \* how often each policy was told of this attempt
    announced,  \* local recipients whose listeners were told
    told,       \* what the caller was told: "nothing", "sent", "error"
    refusals,   \* the probe detector's count for this caller
    reached,    \* history: attempts at what is not the caller's
    made        \* attempts so far

vars == <<deliverer, op, to, large, at, resolved, receipts, stored, outcome, heard, log,
          announced, told, refusals, reached, made>>

Stages == {"idle", "check", "split", "resolve", "store", "deliver", "look",
           "record", "announce"}
States == {"delivered", "queued", "failed"}

TypeOK ==
    /\ deliverer \in BOOLEAN /\ op \in {"none", "send", "read", "view"} /\ to \subseteq Addressees
    /\ large \in BOOLEAN /\ at \in Stages
    /\ resolved \subseteq Remotes /\ receipts \subseteq Remotes \X States
    /\ stored \in BOOLEAN /\ outcome \in {"ok", "failed", "not yours"}
    /\ heard \in 0..Len(Policies) /\ log \in [Names -> Nat]
    /\ announced \subseteq Locals /\ told \in {"nothing", "sent", "error"}
    /\ refusals \in Nat /\ reached \in Nat /\ made \in 0..Attempts

Fresh ==
    /\ resolved' = {} /\ receipts' = {} /\ stored' = FALSE /\ outcome' = "ok"
    /\ heard' = 0 /\ log' = [p \in Names |-> 0] /\ announced' = {}
    /\ told' = "nothing"

Init ==
    /\ deliverer \in BOOLEAN
    /\ op = "none" /\ to = {} /\ large = FALSE /\ at = "idle"
    /\ resolved = {} /\ receipts = {} /\ stored = FALSE /\ outcome = "ok"
    /\ heard = 0 /\ log = [p \in Names |-> 0] /\ announced = {}
    /\ told = "nothing" /\ refusals = 0 /\ reached = 0 /\ made = 0

request == <<deliverer, op, to, large, made>>
work == <<resolved, receipts, stored, announced>>
observers == <<heard, log, refusals>>

-----------------------------------------------------------------------------
(* An attempt, and the policies' checks *)

Attempt ==
    /\ at = "idle" /\ made < Attempts /\ made' = made + 1
    /\ op' \in {"send", "read", "view"}
    /\ to' \in IF op' = "send" THEN SUBSET Addressees \ {{}} ELSE {{}}
    /\ large' \in IF op' = "send" THEN BOOLEAN ELSE {FALSE}
    /\ at' = IF op' = "view" THEN "look" ELSE "check"
    /\ Fresh /\ UNCHANGED <<deliverer, refusals, reached>>

\* MessageLimits.check; the others check nothing.
Refuses == "message_limits" \in Names /\ op = "send"
             /\ (large \/ Cardinality(to) > MaxRecipients)

Check ==
    /\ at = "check"
    /\ IF Refuses THEN at' = "idle" /\ told' = "error"
       ELSE at' = (IF op = "send" THEN "split" ELSE "look") /\ UNCHANGED told
    /\ UNCHANGED <<request, work, outcome, observers, reached>>

-----------------------------------------------------------------------------
(* send *)

\* Mutant: a house that cannot deliver sends the local part alone.
SplitDrops ==
    /\ at = "split"
    /\ at' = IF deliverer THEN "resolve" ELSE "store"
    /\ UNCHANGED <<request, work, outcome, observers, told, reached>>

\* A house that cannot deliver refuses a recipient at another hub.
Split ==
    /\ at = "split"
    /\ IF to \cap Remotes # {} /\ ~deliverer
       THEN at' = "record" /\ outcome' = "failed" ELSE at' = "resolve" /\ UNCHANGED outcome
    /\ UNCHANGED <<request, work, observers, told, reached>>

Unresolved == (to \cap Remotes) \ (resolved \cup {r[1] : r \in receipts})

Resolve ==
    /\ at = "resolve"
    /\ IF Unresolved = {}
       THEN at' = "store" /\ UNCHANGED <<resolved, receipts>>
       ELSE /\ \E a \in Unresolved :
                 \/ resolved' = resolved \cup {a} /\ UNCHANGED receipts
                 \/ receipts' = receipts \cup {<<a, "failed">>} /\ UNCHANGED resolved
            /\ UNCHANGED at
    /\ UNCHANGED <<request, stored, announced, outcome, observers, told, reached>>

\* Mailbox.send, which may refuse: an unknown recipient or parent.  A missing
\* parent counts as reaching for something not the caller's.
Store ==
    /\ at = "store"
    /\ \/ stored' = TRUE /\ at' = "deliver" /\ UNCHANGED <<outcome, reached>>
       \/ /\ at' = "record" /\ UNCHANGED stored
          /\ \/ outcome' = "failed" /\ UNCHANGED reached
             \/ outcome' = "not yours" /\ reached' = reached + 1
    /\ UNCHANGED <<request, resolved, receipts, announced, observers, told>>

Undelivered == resolved \ {r[1] : r \in receipts}
ReachedNobody == to \cap Locals = {} /\ \A r \in receipts : r[2] = "failed"

Deliver ==
    /\ at = "deliver"
    /\ IF Undelivered = {}
       THEN /\ at' = "record"
            /\ outcome' = IF ReachedNobody THEN "failed" ELSE "ok"
            /\ UNCHANGED receipts
       ELSE /\ \E a \in Undelivered, s \in States : receipts' = receipts \cup {<<a, s>>}
            /\ UNCHANGED <<at, outcome>>
    /\ UNCHANGED <<request, resolved, stored, announced, observers, told, reached>>

-----------------------------------------------------------------------------
(* read and view *)

Look ==
    /\ at = "look" /\ at' = "record"
    /\ \/ outcome' = "ok" /\ UNCHANGED reached
       \/ outcome' = "not yours" /\ reached' = reached + 1
    /\ UNCHANGED <<request, work, observers, told>>

-----------------------------------------------------------------------------
(* The policies are told, and the listeners *)

\* _record: one that raises is passed over.
Record ==
    /\ at = "record" /\ heard < Len(Policies)
    /\ LET p == Policies[heard + 1]
       IN  /\ log' = IF p \in Broken THEN log ELSE [log EXCEPT ![p] = @ + 1]
           /\ refusals' = IF p = "probe_detector" /\ p \notin Broken
                               /\ outcome = "not yours"
                          THEN refusals + 1 ELSE refusals
    /\ heard' = heard + 1
    /\ UNCHANGED <<request, at, work, outcome, told, reached>>

\* A send that stored its message goes on, whatever its policies were told;
\* whatever failed is raised to the caller.
Recorded ==
    /\ at = "record" /\ heard = Len(Policies)
    /\ IF stored THEN at' = "announce" /\ UNCHANGED told
       ELSE /\ at' = "idle"
            /\ told' = IF outcome = "ok" THEN "sent" ELSE "error"
    /\ UNCHANGED <<request, work, outcome, observers, reached>>

\* _announce: every local recipient, or as many as there were before one
\* raised; the send is over and well either way.
Announce ==
    /\ at = "announce" /\ at' = "idle" /\ told' = "sent"
    /\ announced' \in SUBSET (to \cap Locals)
    /\ UNCHANGED <<request, resolved, receipts, stored, outcome, observers, reached>>

\* The process stops, or the request is cancelled, between two of its steps.
Cut ==
    /\ at # "idle" /\ at' = "idle"
    /\ UNCHANGED <<request, work, outcome, observers, told, reached>>

Next ==
    \/ Attempt \/ Check \/ Split \/ Resolve \/ Store \/ Deliver \/ Look
    \/ Record \/ Recorded \/ Announce \/ Cut

Spec == Init /\ [][Next]_vars

-----------------------------------------------------------------------------
(* "A send that succeeds and reaches nobody is the worst failure": every   *)
(* recipient of a message that was reported sent is a local recipient, or  *)
(* has a receipt that says how it went.                                    *)
EveryRecipientAccounted ==
    told = "sent" /\ op = "send" =>
        \A a \in to \cap Remotes : \E r \in receipts : r[1] = a

(* "Let[ting] a broken audit logger fail a message that was already        *)
(* delivered": a caller who is told of an error, and so may well send      *)
(* again, has sent nothing.                                                *)
ErrorMeansUnsent == told = "error" => ~stored

(* AuditLog: "Log every attempt and its outcome."  The code does not keep  *)
(* this: an attempt that a check refused is told to no policy.             *)
EveryAttemptLogged ==
    told # "nothing" /\ "audit_log" \in Names \ Broken => log["audit_log"] = 1
=============================================================================
