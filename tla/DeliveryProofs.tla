--------------------------- MODULE DeliveryProofs --------------------------
(***************************************************************************)
(* Theorems about Delivery, for any schedule of retries, any timeout and   *)
(* lease, and any number of messages, recipients and mentions.  Nothing is *)
(* assumed of how long an attempt, or the receiver, takes.                 *)
(***************************************************************************)
EXTENDS Delivery, TLAPS

Tries == 1 .. MaxTries

----------------------------------------------------------------------------
(* The inductive invariant: of each copy, what its sender has posted and   *)
(* said; of each activity, while no claim of it has lapsed, who holds it.  *)

\* No attempt has a request before it posts one.
Posted(c) ==
    /\ phase[c] = "unsent" <=> tries[c] = 0
    /\ phase[c] = "backoff" => tries[c] # MaxTries
    /\ \A k \in Tries : k > tries[c] => post[c][k] = "none"
    /\ phase[c] \in {"attempt", "cleared"} => post[c][tries[c]] = "none"

\* What the sender said, and may still say.
Truth(c) ==
    /\ \A k \in Tries : post[c][k] \in {"stored", "ok"} => arrived[Activity(c)] > 0
    /\ word[c] = "delivered" => arrived[Activity(c)] > 0
    /\ phase[c] \in {"unsent", "attempt", "cleared", "posting", "backoff"} =>
          word[c] \in {"nothing", "queued"}

\* No other mention of the recipient was sent, and nothing of this one read.
Alone(c) == \A d \in Copies \ {c} : Activity(d) = Activity(c) => phase[d] = "unsent"

Untouched(c) ==
    \/ phase[c] = "unsent"
    \/ /\ tries[c] = 1
       /\ phase[c] \in {"attempt", "cleared"} \/ post[c][1] = "wire"

\* Then nobody has claimed the activity; and an attempt with no predecessor is
\* not answered `already seen'.
Twin(c) ==
    /\ Alone(c) /\ Untouched(c) => claim[Activity(c)] = Free
    /\ tries[c] = 1 /\ (post[c][1] = "seen" \/ word[c] = "seen") => ~Alone(c)

CopyInv(c) == Posted(c) /\ Truth(c) /\ Twin(c)

\* Request k of copy c is served, and it is for activity a.
Serves(c, k, a) == Activity(c) = a /\ post[c][k] \in Serving

\* One handler at a time, which holds the claim; and the claim is there for as
\* long as the message is.
Handling(a) ==
    /\ \A c, d \in Copies, j, k \in Tries :
          Serves(c, j, a) /\ Serves(d, k, a) => c = d /\ j = k
    /\ \A c \in Copies, k \in Tries : Serves(c, k, a) => claim[a] # Free /\ a \notin done
    /\ \A c \in Copies, k \in Tries :
          Serves(c, k, a) /\ post[c][k] # "stored" => arrived[a] = 0
    /\ arrived[a] > 0 \/ a \in done => claim[a] # Free

IInv ==
    /\ DeliveryConstants /\ DeliveryTypeOK
    /\ \A c \in Copies : CopyInv(c)
    /\ \A a \in Activities \ lapsed : Handling(a)

----------------------------------------------------------------------------

LEMMA MaxTriesType ==
    ASSUME DeliveryConstants
    PROVE  /\ MaxTries \in Nat \ {0}
           /\ \A k \in 1 .. MaxTries : k # MaxTries => Backoff[k] \in Nat
  BY DEF MaxTries, DeliveryConstants

LEMMA ActivityType == ASSUME NEW c \in Copies PROVE Activity(c) \in Activities
  BY DEF Copies, Activity, Activities

LEMMA InitInv == ASSUME DeliveryConstants, DeliveryInit PROVE IInv
  <1>1. DeliveryTypeOK
    BY MaxTriesType DEF DeliveryInit, DeliveryTypeOK, Phases, Words, Free, Never
  <1>2. ASSUME NEW c \in Copies PROVE CopyInv(c)
    <2>1. Activity(c) \in Activities /\ MaxTries \in Nat \ {0}
      BY ActivityType, MaxTriesType
    <2> QED  BY <2>1 DEF DeliveryInit, CopyInv, Posted, Truth, Twin, Tries
  <1>3. ASSUME NEW a \in Activities PROVE Handling(a)
    BY <1>3 DEF DeliveryInit, Handling, Serves, Serving, Tries
  <1> QED  BY <1>1, <1>2, <1>3 DEF IInv

\* One request of one copy changes.
LEMMA BecomesType ==
    ASSUME DeliveryTypeOK, NEW c \in Copies, NEW k \in Tries,
           NEW s \in {"none", "wire"} \cup Serving \cup Answers, Becomes(c, k, s)
    PROVE  /\ post' \in [Copies ->
                         [1 .. MaxTries -> {"none", "wire"} \cup Serving \cup Answers]]
           /\ post'[c][k] = s
           /\ \A j \in Tries \ {k} : post'[c][j] = post[c][j]
           /\ \A d \in Copies \ {c} : post'[d] = post[d]
  <1> DEFINE S == {"none", "wire"} \cup Serving \cup Answers
             f == [post[c] EXCEPT ![k] = s]
  <1> HIDE DEF S
  <1>1. post \in [Copies -> [1 .. MaxTries -> S]] /\ s \in S
    BY DEF DeliveryTypeOK, S
  <1>2. post' = [post EXCEPT ![c] = f]
    BY DEF Becomes
  <1>3. f \in [1 .. MaxTries -> S] /\ f[k] = s /\ \A j \in Tries \ {k} : f[j] = post[c][j]
    BY <1>1 DEF Tries
  <1> HIDE DEF f
  <1>4. /\ post' \in [Copies -> [1 .. MaxTries -> S]] /\ post'[c] = f
        /\ \A d \in Copies \ {c} : post'[d] = post[d]
    BY <1>1, <1>2, <1>3
  <1> QED  BY <1>3, <1>4 DEF S

\* An activity whose row, and whose handlers, stay as they are or are gone.
LEMMA SameHandling ==
    ASSUME NEW a, Handling(a),
           claim'[a] = claim[a], a \in done' <=> a \in done, arrived'[a] = arrived[a],
           \A c \in Copies, k \in Tries :
              Serves(c, k, a)' => Serves(c, k, a) /\ post'[c][k] = post[c][k]
    PROVE  Handling(a)'
  BY DEF Handling

\* A sent copy stays sent, so company is for good.
LEMMA AloneLater ==
    ASSUME NEW c \in Copies, \A d \in Copies : phase'[d] = "unsent" => phase[d] = "unsent"
    PROVE  Alone(c)' => Alone(c)
  BY DEF Alone, Activity

\* A step of one copy's sender.
LEMMA SenderCopy ==
    ASSUME IInv, NEW c \in Copies, DeliveryTypeOK', UNCHANGED receiver,
           \A d \in Copies \ {c} : /\ phase'[d] = phase[d] /\ tries'[d] = tries[d]
                                   /\ word'[d] = word[d] /\ post'[d] = post[d],
           phase'[c] # "unsent", CopyInv(c)',
           \A k \in Tries : post'[c][k] \in Serving => post'[c][k] = post[c][k]
    PROVE  IInv'
  <1>1. UNCHANGED <<claim, done, arrived, lapsed>>
    BY DEF receiver
  <1>2. ASSUME NEW d \in Copies \ {c} PROVE CopyInv(d)'
    <2>1. CopyInv(d) /\ (Alone(d)' => Alone(d))
      BY AloneLater DEF IInv
    <2> QED  BY <1>1, <2>1 DEF CopyInv, Posted, Truth, Twin, Untouched
  <1>3. ASSUME NEW a \in Activities \ lapsed PROVE Handling(a)'
    <2>1. ASSUME NEW d \in Copies, NEW k \in Tries, Serves(d, k, a)'
          PROVE  Serves(d, k, a) /\ post'[d][k] = post[d][k]
      BY <2>1 DEF Serves
    <2> QED  BY <1>1, <2>1, SameHandling DEF IInv
  <1> QED  BY <1>1, <1>2, <1>3 DEF IInv

\* The start of an attempt, the first or a later one.
LEMMA SendInv == ASSUME IInv, NEW c \in Copies, Send(c) PROVE IInv'
  <1>1. /\ DeliveryTypeOK /\ CopyInv(c) /\ phase[c] = "unsent" /\ tries[c] = 0
        /\ MaxTries \in Nat \ {0}
    BY MaxTriesType DEF Send, IInv, CopyInv, Posted
  <1>2. /\ phase'[c] = "attempt" /\ tries'[c] = 1
        /\ UNCHANGED <<now, trusted, word, post, claim, done, arrived, lapsed>>
        /\ \A d \in Copies \ {c} : phase'[d] = phase[d] /\ tries'[d] = tries[d]
    BY <1>1 DEF Send, Start, DeliveryTypeOK, receiver
  <1>3. DeliveryTypeOK'
    BY <1>1, <1>2 DEF Send, Start, DeliveryTypeOK, Phases
  <1>4. CopyInv(c)'
    <2>1. Alone(c)' => Alone(c)
      BY <1>2, AloneLater
    <2>2. \A k \in Tries : post[c][k] = "none"
      BY <1>1 DEF CopyInv, Posted, Tries
    <2> QED  BY <1>1, <1>2, <2>1, <2>2 DEF CopyInv, Posted, Truth, Twin, Untouched, Tries
  <1> QED  BY <1>2, <1>3, <1>4, SenderCopy DEF receiver

LEMMA RetryInv == ASSUME IInv, NEW c \in Copies, Retry(c) PROVE IInv'
  <1>1. /\ DeliveryTypeOK /\ CopyInv(c) /\ phase[c] = "backoff"
        /\ tries[c] \in 1 .. MaxTries /\ tries[c] # MaxTries /\ MaxTries \in Nat \ {0}
    BY MaxTriesType DEF Retry, IInv, CopyInv, Posted, DeliveryTypeOK
  <1>2. /\ phase'[c] = "attempt" /\ tries'[c] = tries[c] + 1
        /\ UNCHANGED <<now, trusted, word, post, claim, done, arrived, lapsed>>
        /\ \A d \in Copies \ {c} : phase'[d] = phase[d] /\ tries'[d] = tries[d]
    BY <1>1 DEF Retry, Start, DeliveryTypeOK, receiver
  <1>3. DeliveryTypeOK'
    BY <1>1, <1>2 DEF Retry, Start, DeliveryTypeOK, Phases
  <1>4. CopyInv(c)'
    <2>1. tries[c] + 1 \in Tries /\ tries[c] + 1 > tries[c] /\ tries[c] + 1 # 1
      BY <1>1 DEF Tries
    <2>2. \A k \in Tries : k > tries[c] => post[c][k] = "none"
      BY <1>1 DEF CopyInv, Posted
    <2>3. Posted(c)'
      BY <1>1, <1>2, <2>1, <2>2 DEF Posted, Tries
    <2> QED  BY <1>1, <1>2, <2>1, <2>3 DEF CopyInv, Truth, Twin, Untouched
  <1> QED  BY <1>2, <1>3, <1>4, SenderCopy DEF receiver

LEMMA AuthorizeInv == ASSUME IInv, NEW c \in Copies, Authorize(c) PROVE IInv'
  <1>1. DeliveryTypeOK /\ CopyInv(c) /\ phase[c] = "attempt"
    BY DEF Authorize, IInv
  <1>2. /\ \/ phase'[c] = "cleared" /\ word'[c] = word[c]
           \/ phase'[c] = "ended" /\ word'[c] = "refused"
        /\ UNCHANGED <<now, trusted, tries, post, claim, done, arrived, lapsed>>
        /\ \A d \in Copies \ {c} : phase'[d] = phase[d] /\ word'[d] = word[d]
    BY <1>1 DEF Authorize, End, DeliveryTypeOK, receiver
  <1>3. DeliveryTypeOK'
    BY <1>1, <1>2 DEF Authorize, End, DeliveryTypeOK, Phases, Words
  <1>4. CopyInv(c)'
    <2>1. Alone(c)' => Alone(c)
      BY <1>1, <1>2, AloneLater
    <2>2. ~(tries[c] = 1 /\ (post[c][1] = "seen" \/ word'[c] = "seen")) \/ ~Alone(c)
      BY <1>1, <1>2 DEF CopyInv, Twin
    <2> QED  BY <1>1, <1>2, <2>1, <2>2 DEF CopyInv, Posted, Truth, Twin, Untouched
  <1> QED  BY <1>2, <1>3, <1>4, SenderCopy DEF receiver

LEMMA PostInv == ASSUME IInv, NEW c \in Copies, Post(c) PROVE IInv'
  <1>1. /\ DeliveryTypeOK /\ CopyInv(c) /\ phase[c] = "cleared" /\ tries[c] \in Tries
        /\ now \in Nat /\ Timeout \in Nat
    BY DEF Post, IInv, CopyInv, Posted, DeliveryTypeOK, DeliveryConstants, Tries
  <1>2. /\ phase'[c] = "posting" /\ Becomes(c, tries[c], "wire")
        /\ UNCHANGED <<now, trusted, tries, word, claim, done, arrived, lapsed>>
        /\ \A d \in Copies \ {c} : phase'[d] = phase[d]
    BY <1>1 DEF Post, DeliveryTypeOK, receiver
  <1>3. /\ post' \in [Copies ->
                      [1 .. MaxTries -> {"none", "wire"} \cup Serving \cup Answers]]
        /\ post'[c][tries[c]] = "wire"
        /\ \A j \in Tries \ {tries[c]} : post'[c][j] = post[c][j]
        /\ \A d \in Copies \ {c} : post'[d] = post[d]
    BY <1>1, <1>2, BecomesType
  <1>4. DeliveryTypeOK'
    BY <1>1, <1>2, <1>3 DEF Post, DeliveryTypeOK, Phases
  <1>5. CopyInv(c)'
    <2>1. Alone(c)' => Alone(c)
      BY <1>1, <1>2, AloneLater
    <2>2. Posted(c)'
      BY <1>1, <1>2, <1>3 DEF CopyInv, Posted, Tries
    <2>3. Truth(c)'
      BY <1>1, <1>2, <1>3 DEF CopyInv, Truth
    <2>4. Twin(c)'
      BY <1>1, <1>2, <1>3, <2>1 DEF CopyInv, Twin, Untouched
    <2> QED  BY <2>2, <2>3, <2>4 DEF CopyInv
  <1>6. \A k \in Tries : post'[c][k] \in Serving => post'[c][k] = post[c][k]
    BY <1>3 DEF Serving
  <1> QED  BY <1>2, <1>3, <1>4, <1>5, <1>6, SenderCopy DEF receiver

LEMMA TrickleInv == ASSUME IInv, NEW c \in Copies, Trickle(c) PROVE IInv'
  <1>1. DeliveryTypeOK /\ CopyInv(c) /\ phase[c] = "posting"
    BY DEF Trickle, IInv
  <1>2. DeliveryTypeOK'
    BY <1>1 DEF Trickle, DeliveryTypeOK, receiver, Never
  <1>3. UNCHANGED <<phase, tries, word, post, receiver>>
    BY DEF Trickle
  <1>4. CopyInv(c)'
    BY <1>1, <1>3 DEF CopyInv, Posted, Truth, Twin, Alone, Untouched, receiver
  <1> QED  BY <1>1, <1>2, <1>3, <1>4, SenderCopy

\* An attempt is over: tried again later, or ended with a word.
LEMMA OverInv ==
    ASSUME IInv, NEW c \in Copies, phase[c] = "posting",
           \/ TryLater(c)
           \/ \E w \in Words : /\ End(c, w)
                               /\ w = "delivered" => arrived[Activity(c)] > 0
                               /\ w = "seen" /\ tries[c] = 1 => ~Alone(c),
           Becomes(c, tries[c], "none") \/ UNCHANGED post,
           UNCHANGED <<now, trusted, receiver>>
    PROVE  IInv'
  <1>1. DeliveryTypeOK /\ CopyInv(c) /\ tries[c] \in Tries
    BY DEF IInv, CopyInv, Posted, DeliveryTypeOK, Tries
  <1>2. /\ post' \in [Copies ->
                      [1 .. MaxTries -> {"none", "wire"} \cup Serving \cup Answers]]
        /\ \A j \in Tries : post'[c][j] = post[c][j] \/ post'[c][j] = "none"
        /\ \A d \in Copies \ {c} : post'[d] = post[d]
    BY <1>1, BecomesType DEF DeliveryTypeOK, Tries
  <1>3. UNCHANGED <<now, trusted, tries, claim, done, arrived, lapsed>>
    BY DEF receiver, TryLater, End
  <1>4. /\ \/ /\ phase'[c] = "ended"
              /\ word'[c] = "delivered" => arrived[Activity(c)] > 0
              /\ word'[c] = "seen" /\ tries[c] = 1 => ~Alone(c)
           \/ phase'[c] = "backoff" /\ word'[c] = "queued" /\ tries[c] # MaxTries
        /\ \A d \in Copies \ {c} : phase'[d] = phase[d] /\ word'[d] = word[d]
    BY <1>1 DEF TryLater, End, DeliveryTypeOK
  <1>5. DeliveryTypeOK'
    <2>1. CASE \E w \in Words : End(c, w)
      BY <1>1, <1>2, <1>3, <2>1 DEF End, DeliveryTypeOK, Phases
    <2>2. CASE TryLater(c)
      <3>1. CASE tries[c] = MaxTries
        BY <1>1, <1>2, <1>3, <2>2, <3>1 DEF TryLater, End, DeliveryTypeOK, Phases, Words
      <3>2. CASE tries[c] # MaxTries
        <4>1. now \in Nat /\ Backoff[tries[c]] \in Nat
          BY <1>1, <3>2, MaxTriesType DEF DeliveryTypeOK, IInv, Tries
        <4>2. now + Backoff[tries[c]] \in Nat
          BY <4>1
        <4> QED
          BY <1>1, <1>2, <1>3, <2>2, <3>2, <4>2 DEF TryLater, DeliveryTypeOK, Phases, Words
      <3> QED  BY <3>1, <3>2
    <2> QED  BY <2>1, <2>2
  <1>6. CopyInv(c)'
    <2>1. Alone(c)' => Alone(c)
      BY <1>4, AloneLater
    <2>2. Posted(c)'
      BY <1>1, <1>2, <1>3, <1>4 DEF CopyInv, Posted
    <2>3. Truth(c)'
      BY <1>1, <1>2, <1>3, <1>4 DEF CopyInv, Truth
    <2>4. post'[c][1] = post[c][1] \/ post'[c][1] = "none" \/ tries[c] # 1
      BY <1>1, <1>2
    <2>5. Twin(c)'
      BY <1>1, <1>3, <1>4, <2>1, <2>4 DEF CopyInv, Twin, Untouched
    <2> QED  BY <2>2, <2>3, <2>5 DEF CopyInv
  <1>7. \A k \in Tries : post'[c][k] \in Serving => post'[c][k] = post[c][k]
    BY <1>2 DEF Serving
  <1> QED  BY <1>2, <1>3, <1>4, <1>5, <1>6, <1>7, SenderCopy DEF receiver

LEMMA NoAnswerInv == ASSUME IInv, NEW c \in Copies, NoAnswer(c) PROVE IInv'
  BY OverInv DEF NoAnswer

LEMMA AnsweredInv == ASSUME IInv, NEW c \in Copies, Answered(c) PROVE IInv'
  <1> DEFINE answer == post[c][tries[c]]
  <1>1. /\ phase[c] = "posting" /\ answer \in Answers
        /\ UNCHANGED <<now, trusted, receiver>>
        /\ Becomes(c, tries[c], "none")
        /\ TryLater(c) \/ (answer # "error" /\ End(c, Verdict(answer)))
    BY DEF Answered
  <1>2. tries[c] \in Tries /\ CopyInv(c)
    BY <1>1 DEF IInv, CopyInv, Posted, DeliveryTypeOK, Tries
  <1>3. CASE TryLater(c)
    BY <1>1, <1>3, OverInv
  <1>4. CASE End(c, Verdict(answer))
    <2>1. /\ Verdict(answer) \in Words
          /\ Verdict(answer) = "delivered" => answer = "ok"
          /\ Verdict(answer) = "seen" => answer = "seen"
      BY <1>1 DEF Verdict, Words, Answers
    <2>2. Verdict(answer) = "delivered" => arrived[Activity(c)] > 0
      BY <1>2, <2>1 DEF CopyInv, Truth
    <2>3. Verdict(answer) = "seen" /\ tries[c] = 1 => ~Alone(c)
      BY <1>2, <2>1 DEF CopyInv, Twin
    <2> HIDE DEF answer
    <2> QED  BY <1>1, <1>4, <2>1, <2>2, <2>3, OverInv
  <1> QED  BY <1>1, <1>3, <1>4

\* A step that serves request k of copy c, and touches the row of its activity
\* alone.
LEMMA RequestStep ==
    ASSUME IInv, NEW c \in Copies, NEW k \in Tries, post[c][k] \in {"wire"} \cup Serving,
           NEW s \in {"none"} \cup Serving \cup Answers, Becomes(c, k, s),
           UNCHANGED <<now, trusted, sender>>,
           claim' \in [Activities -> Nat \cup {Free}], done' \subseteq Activities,
           arrived' \in [Activities -> Nat], lapsed' \subseteq Activities,
           lapsed \subseteq lapsed',
           \A b \in Activities \ {Activity(c)} :
              /\ claim'[b] = claim[b] /\ arrived'[b] = arrived[b]
              /\ b \in done' <=> b \in done,
           arrived[Activity(c)] > 0 => arrived'[Activity(c)] > 0,
           s \in {"stored", "ok"} => arrived'[Activity(c)] > 0,
           s = "seen" /\ tries[c] = 1 => ~Alone(c),
           Activity(c) \notin lapsed' => Handling(Activity(c))'
    PROVE  IInv'
  <1> DEFINE a == Activity(c)
  <1>1. DeliveryTypeOK /\ CopyInv(c) /\ a \in Activities
    BY ActivityType DEF IInv
  <1>2. /\ post' \in [Copies ->
                      [1 .. MaxTries -> {"none", "wire"} \cup Serving \cup Answers]]
        /\ post'[c][k] = s
        /\ \A j \in Tries \ {k} : post'[c][j] = post[c][j]
        /\ \A d \in Copies \ {c} : post'[d] = post[d]
    BY <1>1, BecomesType
  <1>3. DeliveryTypeOK'
    BY <1>1, <1>2 DEF DeliveryTypeOK, sender
  <1>4. UNCHANGED <<phase, tries, word>>
    BY DEF sender
  <1>5. /\ k \in 1 .. MaxTries /\ tries[c] \in 0 .. MaxTries /\ k <= tries[c]
        /\ phase[c] # "unsent"
    <2>1. post[c][k] # "none"
      BY DEF Serving
    <2>2. k \in 1 .. MaxTries /\ tries[c] \in 0 .. MaxTries
      BY <1>1 DEF Tries, DeliveryTypeOK
    <2>3. ~(k > tries[c]) /\ (phase[c] = "unsent" => tries[c] = 0)
      BY <1>1, <2>1 DEF CopyInv, Posted
    <2> QED  BY <2>2, <2>3, MaxTriesType DEF IInv
  <1>6. Posted(c)'
    <2>1. phase[c] \in {"attempt", "cleared"} => k # tries[c]
      BY <1>1 DEF CopyInv, Posted, Serving
    <2>2. \A j \in Tries : j > tries[c] => j # k
      BY <1>5 DEF Tries
    <2>3. tries[c] \in Tries
      BY <1>5, MaxTriesType DEF Tries, IInv
    <2> QED  BY <1>1, <1>2, <1>4, <2>1, <2>2, <2>3 DEF CopyInv, Posted
  <1>7. ASSUME NEW d \in Copies PROVE Truth(d)'
    <2>1. Truth(d) /\ (arrived[Activity(d)] > 0 => arrived'[Activity(d)] > 0)
      BY ActivityType DEF IInv, CopyInv
    <2> QED  BY <1>2, <1>4, <2>1 DEF Truth, Activity
  <1>8. Twin(c)'
    <2>1. Alone(c)' => Alone(c)
      BY <1>4, AloneLater
    <2>2. ~Untouched(c)'
      <3>1. tries[c] = 1 => k = 1
        BY <1>5
      <3>2. tries[c] = 1 => phase[c] \notin {"attempt", "cleared"}
        BY <1>1, <3>1 DEF CopyInv, Posted, Serving
      <3>3. tries[c] = 1 => post'[c][1] # "wire"
        BY <1>2, <3>1 DEF Serving, Answers
      <3> QED  BY <1>4, <1>5, <3>2, <3>3 DEF Untouched
    <2>3. tries[c] = 1 /\ post'[c][1] = "seen" => ~Alone(c)
      <3>1. tries[c] = 1 => k = 1
        BY <1>5
      <3> QED  BY <1>2, <3>1
    <2> QED  BY <1>1, <1>4, <2>1, <2>2, <2>3 DEF CopyInv, Twin
  <1>9. ASSUME NEW d \in Copies \ {c} PROVE CopyInv(d)'
    <2>1. Posted(d)'
      BY <1>2, <1>4 DEF IInv, CopyInv, Posted
    <2>2. CASE Activity(d) = a
      <3>1. ~Alone(d)'
        BY <1>4, <1>5, <2>2 DEF Alone, Activity
      <3> QED  BY <1>7, <2>1, <3>1 DEF CopyInv, Twin
    <2>3. CASE Activity(d) # a
      <3>1. claim'[Activity(d)] = claim[Activity(d)]
        BY <2>3, ActivityType
      <3>2. Alone(d)' => Alone(d)
        BY <1>4, AloneLater
      <3> QED
        BY <1>2, <1>4, <1>7, <2>1, <3>1, <3>2 DEF IInv, CopyInv, Twin, Untouched, Activity
    <2> QED  BY <2>2, <2>3
  <1>10. ASSUME NEW b \in Activities \ lapsed' PROVE Handling(b)'
    <2>1. CASE b = a
      BY <1>10, <2>1
    <2>2. CASE b # a
      <3>1. ASSUME NEW d \in Copies, NEW j \in Tries, Serves(d, j, b)'
            PROVE  Serves(d, j, b) /\ post'[d][j] = post[d][j]
        BY <1>2, <2>2, <3>1 DEF Serves, Activity
      <3>2. Handling(b)
        BY <1>10 DEF IInv
      <3> QED  BY <2>2, <3>1, <3>2, SameHandling
    <2> QED  BY <2>1, <2>2
  <1> QED  BY <1>3, <1>6, <1>7, <1>8, <1>9, <1>10 DEF IInv, CopyInv

\* A handler that is done leaves the activity as it is.
LEMMA Leaves ==
    ASSUME IInv, NEW c \in Copies, NEW k \in Tries, NEW s \in {"none"} \cup Answers,
           Becomes(c, k, s), Activity(c) \notin lapsed, UNCHANGED receiver
    PROVE  Handling(Activity(c))'
  <1>1. UNCHANGED <<claim, done, arrived>> /\ Handling(Activity(c))
    BY ActivityType DEF receiver, IInv
  <1>2. /\ post'[c][k] = s /\ \A j \in Tries \ {k} : post'[c][j] = post[c][j]
        /\ \A d \in Copies \ {c} : post'[d] = post[d]
    BY BecomesType DEF IInv
  <1>3. s \notin Serving
    BY DEF Serving, Answers
  <1>4. ASSUME NEW d \in Copies, NEW j \in Tries, Serves(d, j, Activity(c))'
        PROVE  Serves(d, j, Activity(c)) /\ post'[d][j] = post[d][j]
    BY <1>2, <1>3, <1>4 DEF Serves
  <1> QED  BY <1>1, <1>4, SameHandling

LEMMA RespondType ==
    ASSUME NEW c, NEW k, NEW answer \in Answers, Respond(c, k, answer)
    PROVE  \E s \in {answer, "none"} : Becomes(c, k, s)
  BY DEF Respond

LEMMA UnchangedReceiver ==
    ASSUME IInv, UNCHANGED receiver
    PROVE  /\ claim' \in [Activities -> Nat \cup {Free}] /\ done' \subseteq Activities
           /\ arrived' \in [Activities -> Nat] /\ lapsed' \subseteq Activities
           /\ UNCHANGED <<claim, done, arrived, lapsed>>
  BY DEF IInv, DeliveryTypeOK, receiver

\* A request that leaves no trace in the rows.
LEMMA QuietStep ==
    ASSUME IInv, NEW c \in Copies, NEW k \in Tries, post[c][k] \in {"wire"} \cup Serving,
           NEW s \in {"none"} \cup Answers, Becomes(c, k, s),
           UNCHANGED <<now, trusted, sender, receiver>>,
           s = "ok" => arrived[Activity(c)] > 0,
           s = "seen" /\ tries[c] = 1 => ~Alone(c)
    PROVE  IInv'
  <1>1. Activity(c) \notin lapsed' => Handling(Activity(c))'
    BY Leaves DEF receiver
  <1>2. s # "stored"
    BY DEF Answers
  <1> QED  BY <1>1, <1>2, UnchangedReceiver, RequestStep

LEMMA LoseInv == ASSUME IInv, NEW c \in Copies, NEW k \in Tries, Lose(c, k) PROVE IInv'
  BY QuietStep DEF Lose

LEMMA TurnedAwayInv ==
    ASSUME IInv, NEW c \in Copies, NEW k \in Tries, TurnedAway(c, k) PROVE IInv'
  <1>1. PICK s \in {"refused", "error", "none"} : Becomes(c, k, s)
    BY RespondType DEF TurnedAway, Answers
  <1>2. s \in {"none"} \cup Answers /\ s # "ok" /\ s # "seen"
    BY DEF Answers
  <1> QED  BY <1>1, <1>2, QuietStep DEF TurnedAway

LEMMA ClaimInv == ASSUME IInv, NEW c \in Copies, NEW k \in Tries, Claim(c, k) PROVE IInv'
  <1> DEFINE a == Activity(c)
  <1>1. /\ post[c][k] = "wire" /\ UNCHANGED <<now, trusted, sender, done, arrived>>
        /\ a \in Activities /\ DeliveryTypeOK /\ CopyInv(c)
    BY ActivityType DEF Claim, IInv
  <1>2. CASE ClaimWins(a)
    <2>1. /\ claim' = [claim EXCEPT ![a] = now]
          /\ lapsed' = IF Outlived(a) THEN lapsed \cup {a} ELSE lapsed
          /\ Becomes(c, k, "claimed")
      BY <1>2 DEF Claim
    <2>2. /\ claim' \in [Activities -> Nat \cup {Free}] /\ claim'[a] \in Nat
          /\ \A b \in Activities \ {a} : claim'[b] = claim[b]
          /\ lapsed' \subseteq Activities /\ lapsed \subseteq lapsed'
      BY <1>1, <2>1 DEF DeliveryTypeOK
    <2>3. ASSUME a \notin lapsed' PROVE Handling(a)'
      <3>1. claim[a] = Free /\ a \notin lapsed /\ Handling(a)
        BY <1>1, <1>2, <2>1, <2>3 DEF ClaimWins, IInv
      <3>2. /\ \A d \in Copies, j \in Tries : ~Serves(d, j, a)
            /\ ~(arrived[a] > 0) /\ a \notin done
        BY <3>1 DEF Handling
      <3>3. arrived[a] = 0
        BY <1>1, <3>2 DEF DeliveryTypeOK
      <3>4. /\ post'[c][k] = "claimed" /\ \A j \in Tries \ {k} : post'[c][j] = post[c][j]
            /\ \A d \in Copies \ {c} : post'[d] = post[d]
        BY <1>1, <2>1, BecomesType DEF Serving
      <3>5. \A d \in Copies, j \in Tries : Serves(d, j, a)' => d = c /\ j = k
        BY <3>2, <3>4 DEF Serves
      <3>6. claim'[a] # Free
        BY <2>2 DEF Free
      <3> QED  BY <1>1, <3>2, <3>3, <3>5, <3>6 DEF Handling
    <2>4. "claimed" \in Serving
      BY DEF Serving
    <2> QED  BY <1>1, <2>1, <2>2, <2>3, <2>4, RequestStep DEF DeliveryTypeOK
  <1>3. CASE ~ClaimWins(a)
    <2>1. Respond(c, k, "seen") /\ UNCHANGED receiver
      BY <1>3 DEF Claim, receiver
    <2>2. PICK s \in {"seen", "none"} : Becomes(c, k, s)
      BY <2>1, RespondType DEF Answers
    <2>3. tries[c] = 1 => ~Alone(c)
      <3>1. claim[a] # Free
        BY <1>3 DEF ClaimWins
      <3>2. tries[c] = 1 => k = 1
        BY <1>1 DEF CopyInv, Posted, Tries
      <3> QED  BY <1>1, <3>1, <3>2 DEF CopyInv, Twin, Untouched
    <2>4. s \in {"none"} \cup Answers /\ s # "ok"
      BY DEF Answers
    <2> QED  BY <1>1, <2>1, <2>2, <2>3, <2>4, QuietStep
  <1> QED  BY <1>2, <1>3

\* A handler goes on to its next stage.
LEMMA HandlerStep ==
    ASSUME IInv, NEW c \in Copies, NEW k \in Tries, post[c][k] \in Serving,
           NEW s \in {"stored", "failed"}, Becomes(c, k, s), Activity(c) \notin lapsed,
           UNCHANGED <<claim, done>>,
           arrived'[Activity(c)] = 0 \/ s = "stored"
    PROVE  Handling(Activity(c))'
  <1> DEFINE a == Activity(c)
  <1>1. Handling(a) /\ Serves(c, k, a)
    BY ActivityType DEF IInv, Serves
  <1>2. /\ post'[c][k] = s /\ \A j \in Tries \ {k} : post'[c][j] = post[c][j]
        /\ \A d \in Copies \ {c} : post'[d] = post[d]
    BY BecomesType DEF IInv, Serving
  <1>3. \A d \in Copies, j \in Tries : Serves(d, j, a) => d = c /\ j = k
    BY <1>1 DEF Handling
  <1>4. \A d \in Copies, j \in Tries : Serves(d, j, a)' => d = c /\ j = k
    BY <1>2, <1>3 DEF Serves
  <1>5. claim[a] # Free /\ a \notin done
    BY <1>1 DEF Handling
  <1> QED  BY <1>2, <1>4, <1>5 DEF Handling

LEMMA StoreInv == ASSUME IInv, NEW c \in Copies, NEW k \in Tries, Store(c, k) PROVE IInv'
  <1> DEFINE a == Activity(c)
  <1>1. /\ post[c][k] \in Serving /\ Becomes(c, k, "stored") /\ "stored" \in Serving
        /\ UNCHANGED <<now, trusted, sender, claim, done, lapsed>>
        /\ a \in Activities /\ DeliveryTypeOK
    BY ActivityType DEF Store, IInv, Serving
  <1>2. arrived' = [arrived EXCEPT ![a] = @ + 1] /\ arrived \in [Activities -> Nat]
    BY <1>1 DEF Store, DeliveryTypeOK
  <1>3. /\ arrived' \in [Activities -> Nat] /\ arrived[a] \in Nat
        /\ arrived'[a] = arrived[a] + 1
        /\ \A b \in Activities \ {a} : arrived'[b] = arrived[b]
    BY <1>1, <1>2
  <1>4. arrived'[a] > 0
    BY <1>3
  <1>5. a \notin lapsed' => Handling(a)'
    BY <1>1, HandlerStep
  <1> QED  BY <1>1, <1>3, <1>4, <1>5, RequestStep DEF DeliveryTypeOK

LEMMA SendRaisesInv ==
    ASSUME IInv, NEW c \in Copies, NEW k \in Tries, SendRaises(c, k) PROVE IInv'
  <1> DEFINE a == Activity(c)
  <1>1. /\ post[c][k] = "claimed" /\ Becomes(c, k, "failed") /\ "claimed" \in Serving
        /\ "failed" \in Serving /\ UNCHANGED <<now, trusted, sender, receiver>>
    BY DEF SendRaises, Serving
  <1>2. ASSUME a \notin lapsed PROVE Handling(a)'
    <2>1. Handling(a) /\ Serves(c, k, a)
      BY <1>1, <1>2, ActivityType DEF IInv, Serves
    <2>2. arrived[a] = 0
      BY <1>1, <2>1 DEF Handling
    <2> QED  BY <1>1, <1>2, <2>2, HandlerStep DEF receiver
  <1> QED  BY <1>1, <1>2, UnchangedReceiver, RequestStep

LEMMA CancelledInv ==
    ASSUME IInv, NEW c \in Copies, NEW k \in Tries, Cancelled(c, k) PROVE IInv'
  <1>1. /\ post[c][k] \in Serving /\ Becomes(c, k, "failed") /\ "failed" \in Serving
        /\ UNCHANGED <<now, trusted, sender, claim, done, arrived>>
        /\ lapsed' = lapsed \cup {Activity(c)} /\ Activity(c) \in Activities
    BY ActivityType DEF Cancelled, Serving
  <1> QED  BY <1>1, RequestStep DEF DeliveryTypeOK, IInv

LEMMA ReleaseInv ==
    ASSUME IInv, NEW c \in Copies, NEW k \in Tries, Release(c, k) PROVE IInv'
  <1> DEFINE a == Activity(c)
  <1>1. /\ post[c][k] = "failed" /\ post[c][k] \in Serving
        /\ UNCHANGED <<now, trusted, sender, done, arrived, lapsed>>
        /\ a \in Activities /\ DeliveryTypeOK
    BY ActivityType DEF Release, IInv, Serving
  <1>2. PICK s \in {"refused", "error", "none"} : Becomes(c, k, s)
    BY RespondType DEF Release, Answers
  <1>3. s \in {"none"} \cup Answers /\ s \notin {"ok", "seen", "stored"}
    BY DEF Answers
  <1>4. CASE UNCHANGED claim
    BY <1>1, <1>2, <1>3, <1>4, QuietStep DEF receiver
  <1>5. CASE claim' = [claim EXCEPT ![a] = IF a \in done THEN @ ELSE Free]
    <2>1. /\ claim' \in [Activities -> Nat \cup {Free}] /\ claim'[a] \in {claim[a], Free}
          /\ a \in done => claim'[a] = claim[a]
          /\ \A b \in Activities \ {a} : claim'[b] = claim[b]
      BY <1>1, <1>5 DEF DeliveryTypeOK
    <2>2. ASSUME a \notin lapsed PROVE Handling(a)'
      <3>1. Handling(a) /\ Serves(c, k, a)
        BY <1>1, <2>2 DEF IInv, Serves
      <3>2. arrived[a] = 0 /\ a \notin done
        BY <1>1, <3>1 DEF Handling
      <3>3. /\ post'[c][k] = s /\ s \notin Serving
            /\ \A j \in Tries \ {k} : post'[c][j] = post[c][j]
            /\ \A d \in Copies \ {c} : post'[d] = post[d]
        BY <1>1, <1>2, BecomesType DEF Answers, Serving
      <3>4. \A d \in Copies, j \in Tries : Serves(d, j, a) => d = c /\ j = k
        BY <3>1 DEF Handling
      <3>5. \A d \in Copies, j \in Tries : ~Serves(d, j, a)'
        BY <3>3, <3>4 DEF Serves
      <3>6. ~(arrived'[a] > 0)
        BY <1>1, <3>2
      <3> QED  BY <1>1, <3>2, <3>5, <3>6 DEF Handling
    <2>3. lapsed' \subseteq Activities /\ arrived' \in [Activities -> Nat]
          /\ done' \subseteq Activities
      BY <1>1 DEF DeliveryTypeOK
    <2> QED  BY <1>1, <1>2, <1>3, <2>1, <2>2, <2>3, RequestStep
  <1> QED  BY <1>4, <1>5 DEF Release

LEMMA CompletesInv ==
    ASSUME IInv, NEW c \in Copies, NEW k \in Tries, Completes(c, k) PROVE IInv'
  <1> DEFINE a == Activity(c)
  <1>1. /\ post[c][k] = "stored" /\ post[c][k] \in Serving
        /\ done' = IF claim[a] = Free THEN done ELSE done \cup {a}
        /\ UNCHANGED <<now, trusted, sender, claim, arrived, lapsed>>
        /\ a \in Activities /\ DeliveryTypeOK /\ CopyInv(c)
    BY ActivityType DEF Completes, IInv, Serving
  <1>2. PICK s \in {"ok", "none"} : Becomes(c, k, s)
    BY RespondType DEF Completes, Answers
  <1>3. s \in {"none"} \cup Answers /\ s \notin {"seen", "stored"} /\ s \notin Serving
    BY DEF Answers, Serving
  <1>4. arrived[a] > 0
    BY <1>1 DEF CopyInv, Truth
  <1>5. ASSUME a \notin lapsed PROVE Handling(a)'
    <2>1. Handling(a) /\ Serves(c, k, a)
      BY <1>1, <1>5 DEF IInv, Serves
    <2>2. /\ post'[c][k] = s /\ \A j \in Tries \ {k} : post'[c][j] = post[c][j]
          /\ \A d \in Copies \ {c} : post'[d] = post[d]
      BY <1>1, <1>2, <1>3, BecomesType
    <2>3. /\ claim[a] # Free
          /\ \A d \in Copies, j \in Tries : Serves(d, j, a) => d = c /\ j = k
      BY <2>1 DEF Handling
    <2>4. \A d \in Copies, j \in Tries : ~Serves(d, j, a)'
      BY <1>3, <2>2, <2>3 DEF Serves
    <2> QED  BY <1>1, <2>3, <2>4 DEF Handling
  <1>6. /\ done' \subseteq Activities /\ claim' \in [Activities -> Nat \cup {Free}]
        /\ arrived' \in [Activities -> Nat] /\ lapsed' \subseteq Activities
        /\ \A b \in Activities \ {a} : b \in done' <=> b \in done
    BY <1>1 DEF DeliveryTypeOK
  <1> QED  BY <1>1, <1>2, <1>3, <1>4, <1>5, <1>6, RequestStep

LEMMA CompleteRaisesInv ==
    ASSUME IInv, NEW c \in Copies, NEW k \in Tries, CompleteRaises(c, k) PROVE IInv'
  <1>1. PICK s \in {"error", "none"} : Becomes(c, k, s)
    BY RespondType DEF CompleteRaises, Answers
  <1>2. s \in {"none"} \cup Answers /\ s # "ok" /\ s # "seen"
    BY DEF Answers
  <1> QED  BY <1>1, <1>2, QuietStep DEF CompleteRaises, Serving

\* The sending hub goes down, with a word for what was queued or without.
LEMMA DownInv ==
    ASSUME IInv, DeliveryTypeOK', UNCHANGED <<tries, post, receiver>>,
           \A c \in Copies :
              \/ phase'[c] = phase[c] /\ word'[c] = word[c]
              \/ /\ phase[c] # "unsent" /\ phase'[c] \in {"ended", "lost"}
                 /\ word'[c] \in {word[c], "stopped"}
    PROVE  IInv'
  <1>1. UNCHANGED <<claim, done, arrived, lapsed>>
    BY DEF receiver
  <1>2. \A d \in Copies : phase'[d] = "unsent" => phase[d] = "unsent"
    OBVIOUS
  <1>3. ASSUME NEW c \in Copies PROVE CopyInv(c)'
    <2>1. CopyInv(c) /\ (Alone(c)' => Alone(c))
      BY <1>2, AloneLater DEF IInv
    <2> QED  BY <1>1, <2>1 DEF CopyInv, Posted, Truth, Twin, Untouched
  <1>4. ASSUME NEW a \in Activities \ lapsed PROVE Handling(a)'
    BY <1>1 DEF IInv, Handling, Serves
  <1> QED  BY <1>1, <1>3, <1>4 DEF IInv

LEMMA SenderStopsInv == ASSUME IInv, SenderStops PROVE IInv'
  <1>1. DeliveryTypeOK
    BY DEF IInv
  <1>2. DeliveryTypeOK'
    BY <1>1 DEF SenderStops, DeliveryTypeOK, Phases, Words, receiver
  <1> QED  BY <1>1, <1>2, DownInv DEF SenderStops, InFlight, DeliveryTypeOK

LEMMA SenderCrashesInv == ASSUME IInv, SenderCrashes PROVE IInv'
  <1>1. DeliveryTypeOK
    BY DEF IInv
  <1>2. DeliveryTypeOK'
    BY <1>1 DEF SenderCrashes, DeliveryTypeOK, Phases, receiver
  <1> QED  BY <1>1, <1>2, DownInv DEF SenderCrashes, InFlight, DeliveryTypeOK

LEMMA ReceiverCrashesInv == ASSUME IInv, ReceiverCrashes PROVE IInv'
  <1>1. DeliveryTypeOK
    BY DEF IInv
  <1>2. /\ post' \in [Copies ->
                      [1 .. MaxTries -> {"none", "wire"} \cup Serving \cup Answers]]
        /\ \A c \in Copies, k \in Tries :
              \/ post'[c][k] = "none"
              \/ post'[c][k] = post[c][k] /\ post[c][k] \notin Serving
    BY <1>1 DEF ReceiverCrashes, DeliveryTypeOK, Tries
  <1>3. UNCHANGED <<now, trusted, phase, tries, due, word, claim, done, arrived, lapsed>>
    BY DEF ReceiverCrashes, sender, receiver
  <1>4. DeliveryTypeOK'
    BY <1>1, <1>2, <1>3 DEF DeliveryTypeOK
  <1>5. ASSUME NEW c \in Copies PROVE CopyInv(c)'
    <2>1. CopyInv(c) /\ (Alone(c)' => Alone(c)) /\ 1 \in Tries
      BY <1>3, AloneLater, MaxTriesType DEF IInv, Tries
    <2>2. Posted(c)'
      <3>1. phase[c] \in {"attempt", "cleared"} => tries[c] \in Tries
        BY <1>1, <2>1, MaxTriesType DEF CopyInv, Posted, DeliveryTypeOK, Tries, IInv
      <3> QED  BY <1>2, <1>3, <2>1, <3>1 DEF CopyInv, Posted
    <2> QED  BY <1>2, <1>3, <2>1, <2>2 DEF CopyInv, Truth, Twin, Untouched
  <1>6. ASSUME NEW a \in Activities \ lapsed PROVE Handling(a)'
    <2>1. ASSUME NEW d \in Copies, NEW k \in Tries, Serves(d, k, a)'
          PROVE  Serves(d, k, a) /\ post'[d][k] = post[d][k]
      BY <1>2, <2>1 DEF Serves, Serving
    <2> QED  BY <1>3, <2>1, SameHandling DEF IInv
  <1> QED  BY <1>3, <1>4, <1>5, <1>6 DEF IInv

LEMMA RestInv ==
    ASSUME IInv, ChangeTrust \/ TimePasses \/ UNCHANGED deliveryVars PROVE IInv'
  <1>1. DeliveryTypeOK
    BY DEF IInv
  <1>2. DeliveryTypeOK'
    <2>1. /\ UNCHANGED <<phase, tries, due, word, post, claim, done, arrived, lapsed>>
          /\ now' \in {now, now + 1} /\ trusted' \in {trusted, ~trusted}
      BY DEF ChangeTrust, TimePasses, deliveryVars, sender, receiver
    <2>2. now' \in Nat
      BY <1>1, <2>1 DEF DeliveryTypeOK
    <2>3. trusted' \in BOOLEAN
      BY <1>1, <2>1, Zenon DEF DeliveryTypeOK
    <2> QED  BY <1>1, <2>1, <2>2, <2>3 DEF DeliveryTypeOK
  <1>3. UNCHANGED <<tries, phase, word, post, receiver>>
    BY DEF ChangeTrust, TimePasses, deliveryVars, sender, receiver
  <1> QED  BY <1>2, <1>3, DownInv

LEMMA NextInv == ASSUME IInv, [DeliveryNext]_deliveryVars PROVE IInv'
  <1>1. CASE \E c \in Copies : Sender(c)
    BY <1>1, SendInv, RetryInv, AuthorizeInv, PostInv, TrickleInv, NoAnswerInv, AnsweredInv
       DEF Sender
  <1>2. CASE \E c \in Copies, k \in 1 .. MaxTries : Receiver(c, k)
    BY <1>2, LoseInv, TurnedAwayInv, ClaimInv, StoreInv, SendRaisesInv, CancelledInv,
       ReleaseInv, CompletesInv, CompleteRaisesInv
       DEF Receiver, Tries
  <1>3. CASE SenderStops \/ SenderCrashes \/ ReceiverCrashes
    BY <1>3, SenderStopsInv, SenderCrashesInv, ReceiverCrashesInv
  <1>4. CASE ChangeTrust \/ TimePasses \/ UNCHANGED deliveryVars
    BY <1>4, RestInv
  <1> QED  BY <1>1, <1>2, <1>3, <1>4 DEF DeliveryNext

LEMMA Inductive == DeliveryConstants /\ DeliverySpec => []IInv
  <1>1. DeliveryConstants /\ DeliveryInit => IInv
    BY InitInv
  <1>2. IInv /\ [DeliveryNext]_deliveryVars => IInv'
    BY NextInv
  <1> QED  BY <1>1, <1>2, PTL DEF DeliverySpec

----------------------------------------------------------------------------
(* What follows from it.                                                   *)

\* The state stays within its types.
THEOREM TypesHold == ASSUME DeliveryConstants PROVE DeliverySpec => []DeliveryTypeOK
  <1>1. IInv => DeliveryTypeOK
    BY DEF IInv
  <1> QED  BY <1>1, Inductive, PTL

\* Two handlers of an activity whose claim has not lapsed are one.
LEMMA ClaimantsAreOne == ASSUME IInv PROVE OneClaimant
  <1> SUFFICES ASSUME NEW a \in Activities \ lapsed,
                      NEW r \in Claimants(a), NEW q \in Claimants(a)
               PROVE  r = q
    BY DEF OneClaimant
  <1>1. /\ r \in Copies \X Tries /\ q \in Copies \X Tries
        /\ Serves(r[1], r[2], a) /\ Serves(q[1], q[2], a)
    BY DEF Claimants, Serves, Tries
  <1>2. r[1] = q[1] /\ r[2] = q[2]
    BY <1>1 DEF IInv, Handling
  <1> QED  BY <1>1, <1>2

\* However long attempts and handlers take, and also for a recipient named
\* twice: one delivery of an activity is under way at a time, until a claim of
\* it lapses (Mailbox.claim_activity).
THEOREM ClaimsExclude == ASSUME DeliveryConstants PROVE DeliverySpec => []OneClaimant
  <1>1. IInv => OneClaimant
    BY ClaimantsAreOne
  <1> QED  BY <1>1, Inductive, PTL

\* An activity that was stored is not open to another delivery until its claim
\* lapses (SqliteStore.claim_activity, complete_activity).
THEOREM TheStoredIsClaimed ==
    ASSUME DeliveryConstants PROVE DeliverySpec => []StoredIsClaimed
  <1>1. IInv => StoredIsClaimed
    BY DEF IInv, StoredIsClaimed, Handling
  <1> QED  BY <1>1, Inductive, PTL

\* A first attempt is answered `already seen' only when the same message was
\* sent to the same recipient in another copy (FederatedDelivery.deliver's id).
THEOREM SeenMeansRepeated == ASSUME DeliveryConstants PROVE DeliverySpec => []SeenIsARepeat
  <1>1. IInv => SeenIsARepeat
    BY DEF IInv, SeenIsARepeat, CopyInv, Twin, Alone
  <1> QED  BY <1>1, Inductive, PTL

\* The steps in which the sender speaks, if it does; they touch no row.
LEMMA StepsSpeak ==
    ASSUME IInv, DeliveryNext,
           ~(\E c \in Copies, k \in Tries : Receiver(c, k))
    PROVE  /\ UNCHANGED <<arrived, lapsed>>
           /\ \A c \in Copies : word'[c] = word[c] \/ (InFlight(c) /\ word'[c] # "nothing")
  <1>1. DeliveryTypeOK
    BY DEF IInv
  <1>2. ASSUME NEW c \in Copies, Authorize(c) \/ NoAnswer(c) \/ Answered(c)
        PROVE  /\ UNCHANGED <<arrived, lapsed>>
               /\ \A d \in Copies :
                    word'[d] = word[d] \/ (InFlight(d) /\ word'[d] # "nothing")
    <2>1. InFlight(c) /\ UNCHANGED <<arrived, lapsed>>
      BY <1>2 DEF Authorize, NoAnswer, Answered, InFlight, receiver
    <2>2. word' = word \/ \E w \in Words : w # "nothing" /\ word' = [word EXCEPT ![c] = w]
      <3>1. CASE Authorize(c)
        BY <3>1 DEF Authorize, End, Words
      <3>2. CASE TryLater(c)
        BY <3>2 DEF TryLater, End, Words
      <3>3. CASE \E answer \in Answers : End(c, Verdict(answer))
        BY <3>3 DEF End, Verdict, Words
      <3> QED  BY <1>2, <3>1, <3>2, <3>3 DEF NoAnswer, Answered
    <2> QED  BY <1>1, <2>1, <2>2 DEF DeliveryTypeOK
  <1>3. ASSUME NEW c \in Copies, Send(c) \/ Retry(c) \/ Post(c) \/ Trickle(c)
        PROVE  UNCHANGED <<arrived, lapsed, word>>
    BY <1>3 DEF Send, Retry, Post, Trickle, receiver
  <1>4. CASE SenderStops
    BY <1>1, <1>4 DEF SenderStops, receiver, DeliveryTypeOK
  <1>5. CASE SenderCrashes \/ ReceiverCrashes \/ ChangeTrust \/ TimePasses
    BY <1>5 DEF SenderCrashes, ReceiverCrashes, ChangeTrust, TimePasses, sender, receiver
  <1> QED  BY <1>2, <1>3, <1>4, <1>5 DEF DeliveryNext, Sender, Tries

\* The steps of a request: the activity arrives, its claim lapses, or the
\* courier does not notice.
LEMMA RequestsArrive ==
    ASSUME IInv, NEW c \in Copies, NEW k \in Tries, Receiver(c, k)
    PROVE  /\ word' = word
           /\ \/ UNCHANGED <<arrived, lapsed>>
              \/ UNCHANGED arrived /\ lapsed' = lapsed \cup {Activity(c)}
              \/ /\ arrived[Activity(c)] = 0 \/ Activity(c) \in lapsed
                 /\ arrived' = [arrived EXCEPT ![Activity(c)] = @ + 1]
                 /\ UNCHANGED lapsed
  <1>1. CASE Store(c, k)
    <2>1. Activity(c) \notin lapsed => arrived[Activity(c)] = 0
      BY <1>1, ActivityType DEF Store, IInv, Handling, Serves, Serving
    <2> QED  BY <1>1, <2>1 DEF Store, sender
  <1>2. CASE Claim(c, k) \/ Cancelled(c, k)
    BY <1>2 DEF Claim, Cancelled, sender
  <1>3. CASE \/ Lose(c, k) \/ TurnedAway(c, k) \/ SendRaises(c, k) \/ Release(c, k)
             \/ Completes(c, k) \/ CompleteRaises(c, k)
    BY <1>3 DEF Lose, TurnedAway, SendRaises, Release, Completes, CompleteRaises,
                sender, receiver
  <1> QED  BY <1>1, <1>2, <1>3 DEF Receiver

LEMMA CourierActivities ==
    /\ Courier!Activities = Activities
    /\ \A c \in Copies : /\ Activity(c) \in Courier!Activities
                         /\ [d \in Copies |-> Activity(d)][c] = Activity(c)
  BY DEF Courier!Activities, Activities

\* The courier begins as the two hubs do.
LEMMA CourierBegins == ASSUME DeliveryInit PROVE Courier!Init
  BY CourierActivities DEF DeliveryInit, Courier!Init, Said

\* Every step is one of the courier's, or it does not notice.
LEMMA StepsAreCouriers ==
    ASSUME IInv, IInv', [DeliveryNext]_deliveryVars PROVE CourierStep
  <1> SUFFICES Courier!Next \/ UNCHANGED <<arrived, lapsed, Said>>
    BY DEF CourierStep
  <1>1. CASE UNCHANGED deliveryVars
    BY <1>1 DEF deliveryVars, sender, receiver, Said
  <1>2. CASE \E c \in Copies, k \in Tries : Receiver(c, k)
    <2>1. PICK c \in Copies, k \in Tries : Receiver(c, k)
      BY <1>2
    <2>2. Said' = Said
      BY <2>1, RequestsArrive DEF Said
    <2>3. \/ UNCHANGED <<arrived, lapsed>>
          \/ Courier!Lapse(Activity(c))
          \/ Courier!Arrive(Activity(c))
      BY <2>1, <2>2, RequestsArrive DEF Courier!Lapse, Courier!Arrive
    <2> QED  BY <2>2, <2>3, CourierActivities DEF Courier!Next
  <1>3. CASE DeliveryNext /\ ~(\E c \in Copies, k \in Tries : Receiver(c, k))
    <2>0. /\ UNCHANGED <<arrived, lapsed>>
          /\ \A c \in Copies : word'[c] = word[c] \/ (InFlight(c) /\ word'[c] # "nothing")
      BY <1>3, StepsSpeak
    <2>1. Said' \in [Copies -> Courier!Words]
      BY DEF Said, IInv, DeliveryTypeOK, Words, Courier!Words
    <2>2. ASSUME NEW c \in Copies
          PROVE  Said'[c] = Said[c] \/ Courier!MaySay(c, Said'[c])
      <3>1. CASE word'[c] = word[c]
        BY <3>1 DEF Said
      <3>2. CASE word'[c] # word[c]
        <4>1. InFlight(c) /\ word'[c] # "nothing" /\ word[c] \in {"nothing", "queued"}
          BY <2>0, <3>2 DEF IInv, CopyInv, Truth, InFlight
        <4>2. word'[c] = "delivered" => arrived[Activity(c)] > 0
          BY <2>0 DEF IInv, CopyInv, Truth
        <4>3. word'[c] \in Words
          BY DEF IInv, DeliveryTypeOK
        <4>4. Said[c] = word[c]
          BY <4>1 DEF Said
        <4>5. /\ Said'[c] \in Courier!Words \ {"nothing"}
              /\ Said'[c] = "delivered" => word'[c] = "delivered"
          BY <4>1, <4>3 DEF Said, Words, Courier!Words
        <4> QED  BY <4>1, <4>2, <4>4, <4>5, CourierActivities DEF Courier!MaySay
      <3> QED  BY <3>1, <3>2
    <2>3. \E said \in [Copies -> Courier!Words] :
            /\ \A c \in Copies : said[c] = Said[c] \/ Courier!MaySay(c, said[c])
            /\ Said' = said
      BY <2>1, <2>2
    <2>4. Courier!Speak
      BY <2>0, <2>3, Zenon DEF Courier!Speak, Said
    <2> QED  BY <2>4 DEF Courier!Next
  <1> QED  BY <1>1, <1>2, <1>3

\* The two hubs together behave as Courier promises: one arrival at most while
\* the claim has not lapsed, and never a word that is not so.
THEOREM Refinement == ASSUME DeliveryConstants PROVE DeliverySpec => KeepsItsPromise
  <1>1. DeliveryInit => Courier!Init
    BY CourierBegins
  <1>2. IInv /\ IInv' /\ [DeliveryNext]_deliveryVars => CourierStep
    BY StepsAreCouriers
  <1> QED  BY <1>1, <1>2, Inductive, PTL
     DEF KeepsItsPromise, Courier!Spec, CourierStep, DeliverySpec, Said
=============================================================================
