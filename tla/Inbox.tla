------------------------------- MODULE Inbox -------------------------------
(***************************************************************************)
(* Asking for one's mail: api.inbox and the clients that keep its cursor.  *)
(* A reader's waiting mail comes oldest first, a page at a time, and each  *)
(* answer carries a bookmark for the reader to hand back as `since`.  The  *)
(* hub remembers nothing.  Several sessions of one name each keep their    *)
(* own bookmark.  A hub from before the bookmark ignores it.               *)
(*                                                                         *)
(* A message is stamped and handed to the store's queue in one step, and   *)
(* its id says nothing of when.  An answer takes several: what is waiting  *)
(* is read, other requests run, and the answer is made from what was read. *)
(* Instants and ids are numbers, and a bookmark is a pair of them.         *)
(***************************************************************************)
EXTENDS Naturals, FiniteSets

CONSTANTS
    None,
    Sessions,
    Ids,          \* the ids messages may get, a set of positive numbers
    LastInstant,  \* how far the clock goes (bound)
    OneEach,      \* whether no two messages are sent in one instant (bound)
    Page,         \* PAGE
    Views         \* the views asked for

\* Assumed of the constants; each instance is checked against it.
InboxConstants ==
    /\ Ids \subseteq Nat \ {0} /\ IsFiniteSet(Ids)
    /\ LastInstant \in Nat \ {0} /\ Page \in Nat \ {0}
    /\ OneEach \in BOOLEAN
    /\ Views \subseteq {"summary", "threads", "count", "full"}

Message == [at : 1..LastInstant, id : Ids]
Bookmark == (1..LastInstant) \X (Ids \cup {0})

VARIABLES
    clock,
    hub,       \* "old" or "new": whether it knows of bookmarks
    waiting,   \* the reader's unread mail
    asked,     \* what each session is asking for
    cursor,    \* the bookmark each session keeps, or None
    shown,     \* history: what each session was shown
    excused    \* history: what each session's bookmark may have passed over

vars == <<clock, hub, waiting, asked, cursor, shown, excused>>

Question == [view : Views, since : Bookmark \cup {None}, found : SUBSET Message]

TypeOK ==
    /\ clock \in 1..LastInstant
    /\ hub \in {"old", "new"}
    /\ waiting \subseteq Message
    /\ asked \in [Sessions -> Question \cup {None}]
    /\ cursor \in [Sessions -> Bookmark \cup {None}]
    /\ shown \in [Sessions -> SUBSET Message]
    /\ excused \in [Sessions -> SUBSET Message]

Init ==
    /\ clock = 1
    /\ hub \in {"old", "new"}
    /\ waiting = {}
    /\ asked = [s \in Sessions |-> None]
    /\ cursor = [s \in Sessions |-> None]
    /\ shown = [s \in Sessions |-> {}]
    /\ excused = [s \in Sessions |-> {}]

-----------------------------------------------------------------------------
(* Bookmarks *)

\* Mutant: an instant alone.
KeyOfInstant(m) == <<m.at, 0>>

\* _cursor_key: a message's place in the order.
CursorKey(m) == <<m.at, m.id>>

Above(k, l) == k[1] > l[1] \/ (k[1] = l[1] /\ k[2] > l[2])

\* _cursor_parts, and the filter.
Since(found, since) ==
    IF since = None THEN found ELSE {m \in found : Above(CursorKey(m), since)}

\* The oldest first, up to PAGE: those with fewer than PAGE before them.
Older(m, found) == {n \in found : Above(<<m.at, m.id>>, <<n.at, n.id>>)}
PageOf(found) == {m \in found : Cardinality(Older(m, found)) < Page}

\* The newest of what is in the answer, the bookmark that came, or this
\* instant before any id.
NextCursor(answer, since) ==
    IF answer # {} THEN CursorKey(CHOOSE m \in answer :
                         \A n \in answer : n = m \/ Above(<<m.at, m.id>>, <<n.at, n.id>>))
    ELSE IF since # None THEN since ELSE <<clock, 0>>

-----------------------------------------------------------------------------
Tick ==
    /\ clock < LastInstant
    /\ clock' = clock + 1
    /\ UNCHANGED <<hub, waiting, asked, cursor, shown, excused>>

Sent == waiting \cup UNION {shown[s] : s \in Sessions}

\* Mail arrives, unread.  A session that stands in this instant already, with
\* a higher id, and one whose question was answered from an older look, may
\* miss it.
Arrive(id) ==
    LET m == [at |-> clock, id |-> id] IN
    /\ \A n \in Sent : n.id # id
    /\ OneEach => \A n \in Sent : n.at # clock
    /\ waiting' = waiting \cup {m}
    /\ excused' = [s \in Sessions |->
          IF \/ cursor[s] # None /\ ~Above(<<m.at, m.id>>, cursor[s])
             \/ asked[s] # None /\ asked[s].found = {} /\ asked[s].since = None
             \/ asked[s] # None /\ \E n \in asked[s].found : n.at = clock
          THEN excused[s] \cup {m} ELSE excused[s]]
    /\ UNCHANGED <<clock, hub, asked, cursor, shown>>

\* The reader opens a message, which consumes it.
Read(m) ==
    /\ m \in waiting
    /\ waiting' = waiting \ {m}
    /\ UNCHANGED <<clock, hub, asked, cursor, shown, excused>>

Upgrade ==
    /\ hub = "old" /\ \A s \in Sessions : asked[s] = None
    /\ hub' = "new"
    /\ UNCHANGED <<clock, waiting, asked, cursor, shown, excused>>

\* client.check_inbox, and the hub's look at what waits.  `full` is never asked
\* with a bookmark.
Ask(s, view, since) ==
    /\ view \in Views /\ asked[s] = None
    /\ asked' = [asked EXCEPT ![s] =
          [view |-> view, since |-> IF view = "full" THEN None ELSE since,
           found |-> waiting]]
    /\ UNCHANGED <<clock, hub, waiting, cursor, shown, excused>>

\* The agent's tools.
CheckInbox(s) == \E view \in {"summary", "full"} : Ask(s, view, cursor[s])
UnreadCount(s) == Ask(s, "count", cursor[s])
CheckThreads(s) == Ask(s, "threads", cursor[s])

\* The command line, where a bookmark is given or is not.
CliInbox(s) == \E view \in Views, since \in {None, cursor[s]} : Ask(s, view, since)

\* The answer of a hub that knows bookmarks.
Answer(s) ==
    LET q == asked[s]
        new == Since(q.found, q.since)
        answer == IF q.view = "count" THEN new ELSE PageOf(new)
    IN
    /\ q # None /\ hub = "new"
    /\ cursor' = IF q.view = "full" THEN cursor
                 ELSE [cursor EXCEPT ![s] = NextCursor(answer, q.since)]
    /\ shown' = IF q.view = "count" THEN shown ELSE [shown EXCEPT ![s] = @ \cup answer]
    /\ excused' = IF q.view = "count" THEN [excused EXCEPT ![s] = @ \cup answer] ELSE excused
    /\ asked' = [asked EXCEPT ![s] = None]
    /\ UNCHANGED <<clock, hub, waiting>>

\* _from_older_hub: everything, and no bookmark.
AnswerOld(s) ==
    LET q == asked[s] IN
    /\ q # None /\ hub = "old"
    /\ cursor' = IF q.view = "full" THEN cursor ELSE [cursor EXCEPT ![s] = None]
    /\ shown' = IF q.view = "count" THEN shown ELSE [shown EXCEPT ![s] = @ \cup q.found]
    /\ asked' = [asked EXCEPT ![s] = None]
    /\ UNCHANGED <<clock, hub, waiting, excused>>

Next ==
    \/ Tick \/ Upgrade
    \/ \E id \in Ids : Arrive(id)
    \/ \E m \in waiting : Read(m)
    \/ \E s \in Sessions :
          \/ CheckInbox(s) \/ UnreadCount(s) \/ CheckThreads(s) \/ CliInbox(s)
          \/ Answer(s) \/ AnswerOld(s)

Spec == Init /\ [][Next]_vars

-----------------------------------------------------------------------------
(* Properties *)

Passed(s) == {m \in waiting : cursor[s] # None /\ ~Above(CursorKey(m), cursor[s])}

\* Mail that waits and that a session's bookmark has passed was shown to that
\* session: however the pages are cut, whatever shares an instant, and
\* whatever other sessions of the same name ask.  Except what only a count
\* told of, and what came while the answer was being made or in an instant
\* the bookmark stands in.
PassedWasShown == \A s \in Sessions : Passed(s) \subseteq shown[s] \cup excused[s]

\* A bookmark "both never hides and never repeats"; "there is always a cursor,
\* including when nothing is waiting", and mail of that instant "is still
\* shown rather than swallowed".
BookmarkHidesNothing == \A s \in Sessions : Passed(s) \subseteq shown[s]
=============================================================================
