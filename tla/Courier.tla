------------------------------ MODULE Courier ------------------------------
(***************************************************************************)
(* What a hub promises of the mail it sends to another hub: what it posts  *)
(* for a recipient arrives at any time or never, and at most once unless   *)
(* the receiving hub let go of its claim; and what the sending hub says of *)
(* a copy is never more than the truth: it says `delivered' only of one    *)
(* that arrived, and an ending once said is never taken back.              *)
(***************************************************************************)
EXTENDS Naturals

CONSTANTS
    Copies,         \* one mention of a remote recipient in one message
    ActivityOf      \* copy -> what is posted for it

VARIABLES
    arrived,        \* activity -> how often it was stored at the receiving hub
    lapsed,         \* activities of which the receiving hub let go of its claim
    word            \* copy -> what the sending hub last said of it

Activities == {ActivityOf[c] : c \in Copies}
Words == {"nothing", "queued", "delivered", "failed"}

Init ==
    /\ arrived = [a \in Activities |-> 0]
    /\ lapsed = {}
    /\ word = [c \in Copies |-> "nothing"]

Arrive(a) ==
    /\ arrived[a] = 0 \/ a \in lapsed
    /\ arrived' = [arrived EXCEPT ![a] = @ + 1]
    /\ UNCHANGED <<lapsed, word>>

Lapse(a) ==
    /\ lapsed' = lapsed \cup {a}
    /\ UNCHANGED <<arrived, word>>

\* The hub speaks of some copies, of all those it gives up on when it stops.
MaySay(c, w) ==
    /\ word[c] \in {"nothing", "queued"}
    /\ w \in Words \ {"nothing"}
    /\ w = "delivered" => arrived[ActivityOf[c]] > 0

Speak ==
    /\ \E said \in [Copies -> Words] :
         /\ \A c \in Copies : said[c] = word[c] \/ MaySay(c, said[c])
         /\ word' = said
    /\ UNCHANGED <<arrived, lapsed>>

Next == Speak \/ \E a \in Activities : Arrive(a) \/ Lapse(a)

Spec == Init /\ [][Next]_<<arrived, lapsed, word>>
=============================================================================
