----------------------------- MODULE Delivery ------------------------------
(***************************************************************************)
(* Mail from one hub to another: the sender's half (House.send's loop over *)
(* its remote recipients, retry.RetryingDelivery around                    *)
(* delivery.FederatedDelivery), the wire, and the receiver's half          *)
(* (api.federation_inbox and the claims of sqlite_store).                  *)
(*                                                                         *)
(* The sender posts one activity per recipient it was given, once for each *)
(* time the recipient is named, waits for an answer, and tries again on a  *)
(* fixed schedule while nobody answers.  Giving up on an answer does not   *)
(* stop the request: an earlier attempt may be running at the receiver     *)
(* while a later one arrives.  The receiver claims an activity before it   *)
(* delivers it, and honours an unfinished claim for a lease.               *)
(*                                                                         *)
(* Time is a clock that only stops for what has a deadline: a retry starts *)
(* when its wait is over, and an attempt is over when a socket operation   *)
(* takes as long as its timeout.  That does not bound the attempt: a peer  *)
(* that keeps sending a little holds it for as long as it likes.  Nothing  *)
(* bounds when a request that was sent is read, nor how long the receiver  *)
(* takes over it.                                                          *)
(***************************************************************************)
EXTENDS Integers, Sequences

CONSTANTS
    Records,    \* messages, stored at the sender before any of this
    Recipients, \* their recipients on the other hub
    Mentions,   \* the times a message names each of them: in `to', in `cc'
    Backoff,    \* waits between attempts (retry.BACKOFF)
    Timeout,    \* longest a socket operation takes
    Lease,      \* how long an unfinished claim is honoured
    ClockBound  \* bound: when the clock stops while nothing has a deadline

\* Assumed of the constants; each instance is checked against it.
DeliveryConstants ==
    /\ Backoff \in Seq(Nat)
    /\ Timeout \in Nat \ {0}
    /\ Lease \in Nat
    /\ ClockBound \in Nat

\* Nothing removes a recipient that is named twice.
Copies == Records \X Recipients \X Mentions

\* The id of what is posted for a copy: of the record and the recipient's name,
\* the same for each mention.
Activity(c) == <<c[1], c[2]>>
Activities == {Activity(c) : c \in Copies}

MaxTries == Len(Backoff) + 1

VARIABLES
    now,        \* the clock
    trusted,    \* the sender federates, and the peer is listed and not blocked
    phase,      \* copy -> where its delivery is
    tries,      \* copy -> attempts made
    due,        \* copy -> when its wait, or its wait for an answer, must be
                \* over; Never while nothing bounds it
    word,       \* copy -> what the sender has said of it: receipt, then log
    post,       \* copy -> attempt -> its request, and the handler serving it
    claim,      \* activity -> when it was claimed (the seen_activities row)
    done,       \* activities whose row says delivered
    arrived,    \* activity -> how often the receiver stored it
    lapsed      \* history: activities whose claim was taken over after its
                \* lease, or given up by a handler that had stored the message

sender == <<phase, tries, due, word>>
receiver == <<claim, done, arrived, lapsed>>
deliveryVars == <<now, trusted, sender, post, receiver>>

Free == -1                      \* no row
Never == -1                     \* no deadline
Phases == {"unsent", "attempt", "cleared", "posting", "backoff", "ended", "lost"}
Words == {"nothing", "queued", "delivered", "refused", "seen", "unreachable", "stopped"}
Answers == {"ok", "seen", "refused", "error"}
Serving == {"claimed", "stored", "failed"}      \* a handler is at work

DeliveryTypeOK ==
    /\ now \in Nat
    /\ trusted \in BOOLEAN
    /\ phase \in [Copies -> Phases]
    /\ tries \in [Copies -> 0 .. MaxTries]
    /\ due \in [Copies -> Nat \cup {Never}]
    /\ word \in [Copies -> Words]
    /\ post \in [Copies -> [1 .. MaxTries -> {"none", "wire"} \cup Serving \cup Answers]]
    /\ claim \in [Activities -> Nat \cup {Free}]
    /\ done \subseteq Activities
    /\ arrived \in [Activities -> Nat]
    /\ lapsed \subseteq Activities

DeliveryInit ==
    /\ now = 0
    /\ trusted = TRUE
    /\ phase = [c \in Copies |-> "unsent"]
    /\ tries = [c \in Copies |-> 0]
    /\ due = [c \in Copies |-> Never]
    /\ word = [c \in Copies |-> "nothing"]
    /\ post = [c \in Copies |-> [k \in 1 .. MaxTries |-> "none"]]
    /\ claim = [a \in Activities |-> Free]
    /\ done = {}
    /\ arrived = [a \in Activities |-> 0]
    /\ lapsed = {}

----------------------------------------------------------------------------
(* The sender.                                                             *)

\* What becomes of the request of attempt k.
Becomes(c, k, stage) == post' = [post EXCEPT ![c][k] = stage]

InFlight(c) == phase[c] \in {"attempt", "cleared", "posting", "backoff"}
Inline(c) == phase[c] \in {"attempt", "cleared", "posting"} /\ tries[c] = 1
Timed(c) == phase[c] \in {"posting", "backoff"} /\ due[c] # Never
Held(c) == phase[c] = "posting" /\ due[c] = Never

Start(c) ==
    /\ phase' = [phase EXCEPT ![c] = "attempt"]
    /\ tries' = [tries EXCEPT ![c] = @ + 1]
    /\ due' = [due EXCEPT ![c] = Never]

End(c, said) ==
    /\ phase' = [phase EXCEPT ![c] = "ended"]
    /\ word' = [word EXCEPT ![c] = said]
    /\ due' = [due EXCEPT ![c] = Never]
    /\ UNCHANGED tries

\* House.send delivers a message's remote copies one after the other, each
\* with one attempt the caller waits for.
Send(c) ==
    /\ phase[c] = "unsent" /\ now <= ClockBound
    /\ \A d \in Copies : d[1] = c[1] => ~Inline(d)
    /\ Start(c)
    /\ UNCHANGED <<now, trusted, word, post, receiver>>

\* The wait before the next attempt is over.
Retry(c) ==
    /\ phase[c] = "backoff" /\ now >= due[c]
    /\ Start(c)
    /\ UNCHANGED <<now, trusted, word, post, receiver>>

\* Every attempt reads blocks, settings and peers itself; our own refusal is
\* never retried.
Authorize(c) ==
    /\ phase[c] = "attempt"
    /\ IF trusted THEN /\ phase' = [phase EXCEPT ![c] = "cleared"]
                       /\ UNCHANGED <<tries, due, word>>
       ELSE End(c, "refused")
    /\ UNCHANGED <<now, trusted, post, receiver>>

Post(c) ==
    /\ phase[c] = "cleared"
    /\ phase' = [phase EXCEPT ![c] = "posting"]
    /\ due' = [due EXCEPT ![c] = now + Timeout]
    /\ Becomes(c, tries[c], "wire")
    /\ UNCHANGED <<now, trusted, tries, word, receiver>>

\* Every socket operation of the attempt stays within its timeout, and the
\* attempt is not over: the name is slow to resolve, the peer slow to shake
\* hands, or its answer comes a little at a time.
Trickle(c) ==
    /\ phase[c] = "posting" /\ ~Held(c)
    /\ due' = [due EXCEPT ![c] = Never]
    /\ UNCHANGED <<now, trusted, phase, tries, word, post, receiver>>

\* Mutant: the last failure ends the retries without a word.
TryLaterQuietly(c) ==
    IF tries[c] = MaxTries THEN End(c, word[c])
    ELSE /\ phase' = [phase EXCEPT ![c] = "backoff"]
         /\ due' = [due EXCEPT ![c] = now + Backoff[tries[c]]]
         /\ word' = [word EXCEPT ![c] = "queued"]
         /\ UNCHANGED tries

\* A retryable failure: the next wait, or the end of the schedule.
TryLater(c) ==
    IF tries[c] = MaxTries THEN End(c, "unreachable")
    ELSE /\ phase' = [phase EXCEPT ![c] = "backoff"]
         /\ due' = [due EXCEPT ![c] = now + Backoff[tries[c]]]
         /\ word' = [word EXCEPT ![c] = "queued"]
         /\ UNCHANGED tries

\* No answer: refused, timed out, or lost on its way.  An answer that comes
\* later finds nobody waiting.
NoAnswer(c) ==
    /\ phase[c] = "posting"
    /\ TryLater(c)
    /\ IF post[c][tries[c]] \in Answers THEN Becomes(c, tries[c], "none")
       ELSE UNCHANGED post
    /\ UNCHANGED <<now, trusted, receiver>>

\* Mutant: every 2xx counts as a delivery.
VerdictOfStatus(answer) ==
    CASE answer \in {"ok", "seen"} -> "delivered" [] OTHER -> "refused"

\* What each answer says of the copy.  A peer that has seen the activity did
\* not deliver it now: neither a success nor worth another attempt.
Verdict(answer) ==
    CASE answer = "ok" -> "delivered" [] answer = "seen" -> "seen" [] OTHER -> "refused"

Answered(c) ==
    /\ phase[c] = "posting" /\ post[c][tries[c]] \in Answers
    /\ IF post[c][tries[c]] = "error" THEN TryLater(c)
       ELSE End(c, Verdict(post[c][tries[c]]))
    /\ Becomes(c, tries[c], "none")
    /\ UNCHANGED <<now, trusted, receiver>>

\* RetryingDelivery.aclose: whatever still waits is given up on, aloud.  A
\* request already posted goes on in its thread.
SenderStops ==
    /\ \E c \in Copies : InFlight(c)
    /\ phase' = [c \in Copies |-> IF InFlight(c) THEN "ended" ELSE phase[c]]
    /\ word' = [c \in Copies |-> IF InFlight(c) /\ ~Inline(c) THEN "stopped" ELSE word[c]]
    /\ UNCHANGED <<now, trusted, tries, due, post, receiver>>

\* The queue is held in memory.
SenderCrashes ==
    /\ \E c \in Copies : InFlight(c)
    /\ phase' = [c \in Copies |-> IF InFlight(c) THEN "lost" ELSE phase[c]]
    /\ UNCHANGED <<now, trusted, tries, due, word, post, receiver>>

\* The operator withdraws trust from the peer, or restores it.
ChangeTrust ==
    /\ trusted' = ~trusted
    /\ UNCHANGED <<now, sender, post, receiver>>

----------------------------------------------------------------------------
(* The wire and the receiver.                                              *)

\* The answer goes to whoever waits for it.
Respond(c, k, answer) ==
    Becomes(c, k, IF phase[c] = "posting" /\ tries[c] = k THEN answer ELSE "none")

Lose(c, k) ==
    /\ post[c][k] = "wire"
    /\ Becomes(c, k, "none")
    /\ UNCHANGED <<now, trusted, sender, receiver>>

\* Refused before the claim (the hub does not federate, the signer is no peer,
\* the body is no Create), or turned away by a hub that is coming up.
TurnedAway(c, k) ==
    /\ post[c][k] = "wire"
    /\ \E answer \in {"refused", "error"} : Respond(c, k, answer)
    /\ UNCHANGED <<now, trusted, sender, receiver>>

\* An unfinished claim is older than the lease.
Outlived(a) == claim[a] # Free /\ a \notin done /\ claim[a] < now - Lease

\* Mutant: an unfinished claim is no obstacle.
ClaimWinsUnlessDone(a) == a \notin done

\* One statement decides: there is no row, or an unfinished one that is too old.
ClaimWins(a) == claim[a] = Free \/ Outlived(a)

\* The body is read, and the signer's key fetched, in whatever time they take;
\* then the claim is made.
Claim(c, k) ==
    /\ post[c][k] = "wire"
    /\ LET a == Activity(c)
       IN  IF ClaimWins(a)
           THEN /\ claim' = [claim EXCEPT ![a] = now]
                /\ lapsed' = IF Outlived(a) THEN lapsed \cup {a} ELSE lapsed
                /\ Becomes(c, k, "claimed")
           ELSE Respond(c, k, "seen") /\ UNCHANGED <<claim, lapsed>>
    /\ UNCHANGED <<now, trusted, sender, done, arrived>>

\* House.send: the message is stored, under an id of its own.
Store(c, k) ==
    /\ post[c][k] = "claimed"
    /\ arrived' = [arrived EXCEPT ![Activity(c)] = @ + 1]
    /\ Becomes(c, k, "stored")
    /\ UNCHANGED <<now, trusted, sender, claim, done, lapsed>>

\* The send raises: an unknown recipient, a policy, the store, or the request is
\* cancelled before its message is stored.
SendRaises(c, k) ==
    /\ post[c][k] = "claimed"
    /\ Becomes(c, k, "failed")
    /\ UNCHANGED <<now, trusted, sender, receiver>>

\* The request is cancelled in what is left of the send: the handler does not
\* ask whether the message was stored.
Cancelled(c, k) ==
    /\ post[c][k] = "stored"
    /\ Becomes(c, k, "failed")
    /\ lapsed' = lapsed \cup {Activity(c)}
    /\ UNCHANGED <<now, trusted, sender, claim, done, arrived>>

\* The unfinished row is deleted, whoever's claim it is by now, if that does not
\* fail as well.
Release(c, k) ==
    /\ post[c][k] = "failed"
    /\ \/ claim' = [claim EXCEPT ![Activity(c)] = IF Activity(c) \in done THEN @ ELSE Free]
       \/ UNCHANGED claim
    /\ \E answer \in {"refused", "error"} : Respond(c, k, answer)
    /\ UNCHANGED <<now, trusted, sender, done, arrived, lapsed>>

\* After the store, never before; it updates the row if there is one, whoever's
\* claim it is by now.
Completes(c, k) ==
    /\ post[c][k] = "stored"
    /\ done' = IF claim[Activity(c)] = Free THEN done ELSE done \cup {Activity(c)}
    /\ Respond(c, k, "ok")
    /\ UNCHANGED <<now, trusted, sender, claim, arrived, lapsed>>

\* It raises outside the handler's try: the claim stays unfinished.
CompleteRaises(c, k) ==
    /\ post[c][k] = "stored"
    /\ Respond(c, k, "error")
    /\ UNCHANGED <<now, trusted, sender, receiver>>

\* The receiver dies with what it was serving; its rows are on disk.
ReceiverCrashes ==
    /\ \E c \in Copies, k \in 1 .. MaxTries : post[c][k] \in Serving \cup {"wire"}
    /\ post' = [c \in Copies |-> [k \in 1 .. MaxTries |->
                  IF post[c][k] \in Serving \cup {"wire"} THEN "none" ELSE post[c][k]]]
    /\ UNCHANGED <<now, trusted, sender, receiver>>

TimePasses ==
    /\ now < ClockBound \/ \E c \in Copies : Timed(c)
    /\ \A c \in Copies : Timed(c) => now < due[c]
    /\ now' = now + 1
    /\ UNCHANGED <<trusted, sender, post, receiver>>

Sender(c) ==
    \/ Send(c) \/ Retry(c) \/ Authorize(c) \/ Post(c)
    \/ Trickle(c) \/ NoAnswer(c) \/ Answered(c)

Receiver(c, k) ==
    \/ Lose(c, k) \/ TurnedAway(c, k) \/ Claim(c, k) \/ Store(c, k) \/ SendRaises(c, k)
    \/ Cancelled(c, k) \/ Release(c, k) \/ Completes(c, k) \/ CompleteRaises(c, k)

DeliveryNext ==
    \/ \E c \in Copies : Sender(c)
    \/ \E c \in Copies, k \in 1 .. MaxTries : Receiver(c, k)
    \/ SenderStops \/ SenderCrashes \/ ReceiverCrashes \/ ChangeTrust \/ TimePasses

DeliverySpec == DeliveryInit /\ [][DeliveryNext]_deliveryVars

----------------------------------------------------------------------------
(* What must be true of it.                                                *)

\* The handlers at work on activity a, of whichever copies and attempts.
Claimants(a) ==
    {r \in Copies \X (1 .. MaxTries) : Activity(r[1]) = a /\ post[r[1]][r[2]] \in Serving}

\* What the sender has said, as the courier knows it.
Said == [c \in Copies |-> IF word[c] \in {"refused", "seen", "unreachable", "stopped"}
                          THEN "failed" ELSE word[c]]

Courier == INSTANCE Courier WITH
    ActivityOf <- [c \in Copies |-> Activity(c)], word <- Said

\* However attempts overlap, time out, fail and crash, a message is stored for
\* its recipient at most once, unless its claim lapsed, and what the sender is
\* told is true (issues #40 and #41): the sender's words implement the courier's.
KeepsItsPromise == Courier!Spec

CourierStep == [Courier!Next]_<<arrived, lapsed, Said>>

\* One delivery of an activity is under way at a time, whichever copies and
\* attempts carry it, until a claim lapses: the claim excludes the duplicate that
\* a client-side timeout leaves running, and that of a recipient named twice.
OneClaimant ==
    \A a \in Activities \ lapsed : \A r, q \in Claimants(a) : r = q

\* An activity that was stored is not open to another delivery, completed or
\* not, until its claim lapses.
StoredIsClaimed ==
    \A a \in Activities \ lapsed : arrived[a] > 0 => claim[a] # Free

\* A copy whose first attempt is answered `already seen' is no fresh send: the
\* same message was sent to the same recipient in another copy (issue #40).
SeenIsARepeat ==
    \A c \in Copies :
        word[c] = "seen" /\ tries[c] = 1 =>
            \E d \in Copies \ {c} : Activity(d) = Activity(c) /\ phase[d] # "unsent"

\* A claim whose handler died costs the message a delay, not its existence
\* (Mailbox.claim_activity): the sender is still trying, or will be told
\* something other than `already seen'.
LateNotLost ==
    \A c \in Copies :
        claim[Activity(c)] # Free /\ arrived[Activity(c)] = 0 /\ Claimants(Activity(c)) = {}
            => word[c] # "seen"

----------------------------------------------------------------------------
(* Progress.  Each wait is bounded by its timer and each attempt that the   *)
(* peer does not hold by its timeout, both kept at the sender; nothing is   *)
(* asked of the wire, of the receiver, or of a peer that holds an attempt.  *)

Proceeds(c) == Retry(c) \/ Authorize(c) \/ Post(c)
Concludes(c) == ~Held(c) /\ (NoAnswer(c) \/ Answered(c))

DeliveryFairness ==
    /\ WF_deliveryVars(TimePasses)
    /\ \A c \in Copies : WF_deliveryVars(Proceeds(c)) /\ WF_deliveryVars(Concludes(c))

\* A sender told `queued' is owed an ending either way (retry._gave_up): the
\* wait ends in a word, unless the hub dies with its queue or the peer holds one
\* attempt for ever.
Owed(c) == word[c] = "queued" /\ phase[c] # "lost"

QueuedGetsAnEnding == \A c \in Copies : <>[]Owed(c) => <>[]Held(c)
=============================================================================
