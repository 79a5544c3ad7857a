------------------------------ MODULE Reading ------------------------------
(***************************************************************************)
(* What readers are shown of a store: a thread as a tree (the console), an *)
(* inbox by conversation (api._threads), what a search finds, and what the *)
(* withdrawal of a thread reports.  The store is written by senders whose  *)
(* reply may outlive its parent, and by a purge that takes threads whole.  *)
(***************************************************************************)
EXTENDS Rules, Sequences, SequencesExt

CONSTANTS
    Actors,
    Humans,       \* those who may withdraw anything
    Sends,        \* who may write to whom: pairs of an actor and an audience
    Minting,      \* message ids, in the order they are minted: their own order,
                  \* that of uuids, is another (bound)
    Readers,      \* those who mark mail read (bound)
    Instants,     \* the last instant (bound)
    MaxNest,      \* MAX_NEST
    Limit         \* how many hits a search returns

ASSUME ReadingConstants ==
    /\ Humans \subseteq Actors /\ Sends \subseteq Actors \X SUBSET Actors
    /\ Minting \in Seq(Nat) /\ Readers \subseteq Actors /\ Instants \in Nat \ {0}
    /\ MaxNest \in Nat /\ Limit \in Nat \ {0}
    /\ None \notin Range(Minting) \cup Actors
    /\ \A i, j \in DOMAIN Minting : Minting[i] = Minting[j] => i = j

Ids == Range(Minting)

VARIABLES
    instant,
    objects,    \* stored id -> message
    issued,     \* how many ids were used
    draft,      \* a send between its look at the store and its write
    reads,      \* <<id, reader>> rows
    job         \* a retract-thread request

readingVars == <<instant, objects, issued, draft, reads, job>>

Message == [from : Actors, to : SUBSET Actors, parent : Ids \cup {None},
            at : 1..Instants, retracted : BOOLEAN]

Job == [by : Actors \cup {None}, looked : Seq(Ids), left : Seq(Ids),
        copy : Message \cup {None}, retracted : SUBSET Ids, refused : SUBSET Ids]

NoJob == [by |-> None, looked |-> <<>>, left |-> <<>>, copy |-> None,
          retracted |-> {}, refused |-> {}]

ReadingTypeOK ==
    /\ instant \in 1..Instants /\ issued \in 0..Len(Minting)
    /\ DOMAIN objects \subseteq {Minting[i] : i \in 1..issued}
    /\ \A m \in DOMAIN objects : objects[m] \in Message
    /\ draft = None \/ draft \in [from : Actors, to : SUBSET Actors, parent : Ids \cup {None}]
    /\ reads \subseteq Ids \X Actors
    /\ job \in Job

ReadingInit ==
    /\ instant = 1 /\ objects = [m \in {} |-> None] /\ issued = 0 /\ draft = None
    /\ reads = {} /\ job = NoJob

-----------------------------------------------------------------------------
(* The views *)

Directory == [a \in Actors |-> {}]
Party(m, a) == IsPartyTo(objects[m], a, Directory)

\* The order of the store: by instant, then by id.
Before(m, n) ==
    objects[m].at < objects[n].at \/ (objects[m].at = objects[n].at /\ m < n)

Line(ms) ==
    CHOOSE line \in [1..Cardinality(ms) -> ms] :
        \A i, j \in DOMAIN line : i < j => Before(line[i], line[j])

\* How far thread_roots climbs from m: up to a message whose root is known
\* already, or one without a parent in the store.
Climb(roots, m) ==
    LET climb[k \in 0..Cardinality(DOMAIN objects)] ==
            IF k = 0 THEN m
            ELSE IF climb[k - 1] \in DOMAIN roots THEN climb[k - 1]
            ELSE Up(objects, climb[k - 1])
    IN  climb

\* Mutant: where the climb ends is the root.
RememberedNearest(roots, m) ==
    LET climb == Climb(roots, m)
        top == climb[Cardinality(DOMAIN objects)]
    IN  [n \in DOMAIN roots \cup Range(climb) |->
            IF n \in DOMAIN roots THEN roots[n] ELSE top]

\* Every message passed is given the root that was found, or known.
Remembered(roots, m) ==
    LET climb == Climb(roots, m)
        top == climb[Cardinality(DOMAIN objects)]
    IN  [n \in DOMAIN roots \cup Range(climb) |->
            IF n \in DOMAIN roots THEN roots[n]
            ELSE IF top \in DOMAIN roots THEN roots[top] ELSE top]

\* thread_roots: one pass over the store.
ThreadRoots ==
    LET line == Line(DOMAIN objects)
        roots[i \in 0..Len(line)] ==
            IF i = 0 THEN [m \in {} |-> None] ELSE Remembered(roots[i - 1], line[i])
    IN  roots[Len(line)]

\* Mailbox.thread: any turn of the caller's names the thread.
VisibleTurns(m, a) ==
    IF m \notin DOMAIN objects \/ ~Party(m, a) THEN {}
    ELSE {n \in ThreadMembers(objects, ThreadRoot(objects, m)) : Party(n, a)}

\* observe_thread: the whole of it, for who watches the hub.
ObserveThread(m) ==
    IF m \in DOMAIN objects THEN ThreadMembers(objects, ThreadRoot(objects, m)) ELSE {}

\* A row of the page: a turn, its depth, and whether what it answers is missing.
Row(turns, turn, depth) ==
    [turn |-> turn, depth |-> IF depth < MaxNest THEN depth ELSE MaxNest,
     orphan |-> objects[turn].parent # None /\ objects[turn].parent \notin turns]

\* The calls of walk, within thread_tree, for some turns of one depth.
Calls(ms, depth) ==
    LET line == Line(ms) IN [i \in DOMAIN line |-> [turn |-> line[i], depth |-> depth]]

\* One call of walk: its row comes next, and its replies are walked before the
\* calls that wait.
Walked(turns, walk) ==
    LET call == Head(walk.calls) IN
    [rows |-> Append(walk.rows, Row(turns, call.turn, call.depth)),
     calls |-> Calls({m \in turns : objects[m].parent = call.turn}, call.depth + 1)
               \o Tail(walk.calls)]

\* thread_tree: the turns in the order of the page; what no walk reached is last.
ThreadTree(turns) ==
    LET walk[k \in 0..Cardinality(turns)] ==
            IF k = 0
            THEN [rows |-> <<>>,
                  calls |-> Calls({m \in turns : objects[m].parent \notin turns}, 0)]
            ELSE IF walk[k - 1].calls = <<>> THEN walk[k - 1] ELSE Walked(turns, walk[k - 1])
        ordered == walk[Cardinality(turns)].rows
        missed == Line(turns \ {ordered[i].turn : i \in DOMAIN ordered})
    IN  ordered \o [i \in DOMAIN missed |->
                       [turn |-> missed[i], depth |-> 0, orphan |-> TRUE]]

\* peek: what waits for a.
Waiting(a) ==
    {m \in DOMAIN objects : a \in RecipientsOf(objects[m], Directory) /\ <<m, a>> \notin reads}

\* _threads: by the first turn that also waits, with the parents that a sees;
\* the conversation with the newest turn is the first.
RootAmong(waiting, a, m) ==
    LET shown(n) == ShownParent(objects, objects[n], a, Directory)
        up[k \in 0..Cardinality(waiting)] ==
            IF k = 0 THEN m
            ELSE IF shown(up[k - 1]) \in waiting THEN shown(up[k - 1]) ELSE up[k - 1]
    IN  up[Cardinality(waiting)]

Threads(a) ==
    LET waiting == Waiting(a)
        group(root) == {m \in waiting : RootAmong(waiting, a, m) = root}
    IN  {[root |-> root, unread |-> group(root), last |-> Last(Line(group(root)))] :
            root \in {RootAmong(waiting, a, m) : m \in waiting}}

\* rules.search, for a word that is in all of them and not in a tombstone: a's
\* own and what was sent to a, newest first; and whether there was more.
Matches(a) == {m \in DOMAIN objects : Party(m, a) /\ ~objects[m].retracted}
Search(a) ==
    LET newest == Reverse(Line(Matches(a)))
    IN  [hits |-> SubSeq(newest, 1, IF Len(newest) < Limit THEN Len(newest) ELSE Limit),
         truncated |-> Len(newest) > Limit]

-----------------------------------------------------------------------------
(* The store *)

\* add_object: a message under its id, in place of any that is there.
Put(m, message) == [n \in DOMAIN objects \cup {m} |-> IF n = m THEN message ELSE objects[n]]

\* Mailbox.send: the parent is looked up, ...
SendLook(by, to, parent) ==
    /\ draft = None /\ issued < Len(Minting)
    /\ draft' = [from |-> by, to |-> to,
                 parent |-> IF MayAttachTo(objects, by, parent, Directory)
                            THEN parent ELSE None]
    /\ UNCHANGED <<instant, objects, issued, reads, job>>

\* ... and the message is stored, whatever was purged meanwhile.
SendStore ==
    /\ draft # None
    /\ objects' = Put(Minting[issued + 1],
                      [from |-> draft.from, to |-> draft.to, parent |-> draft.parent,
                       at |-> instant, retracted |-> FALSE])
    /\ issued' = issued + 1 /\ draft' = None
    /\ UNCHANGED <<instant, reads, job>>

MarkRead(m, a) ==
    /\ m \in Waiting(a) /\ reads' = reads \cup {<<m, a>>}
    /\ UNCHANGED <<instant, objects, issued, draft, job>>

\* expire: what is idle at a cutoff, thread by thread.
Purge(cutoff) ==
    LET doomed == ExpiringThreads(objects, {m \in DOMAIN objects : objects[m].at < cutoff}) IN
    /\ doomed # {}
    /\ objects' = [m \in DOMAIN objects \ doomed |-> objects[m]]
    /\ reads' = {row \in reads : row[1] \notin doomed}
    /\ UNCHANGED <<instant, issued, draft, job>>

Tick ==
    /\ instant < Instants /\ instant' = instant + 1
    /\ UNCHANGED <<objects, issued, draft, reads, job>>

-----------------------------------------------------------------------------
(* Withdrawing a thread *)

\* retract_thread_route: the turns that the caller sees in it.
RetractThread(by, m) ==
    /\ job = NoJob /\ VisibleTurns(m, by) # {}
    /\ LET turns == Line(VisibleTurns(m, by)) IN
          job' = [NoJob EXCEPT !.by = by, !.looked = turns, !.left = turns]
    /\ UNCHANGED <<instant, objects, issued, draft, reads>>

\* retract, up to its write.  A turn that is gone by now, or not the caller's,
\* is refused, and the loop goes on; one that was withdrawn is left as it is.
RetractLook ==
    LET m == Head(job.left) IN
    /\ job.left # <<>> /\ job.copy = None
    /\ IF m \notin DOMAIN objects \/ (job.by \notin Humans /\ objects[m].from # job.by)
       THEN job' = [job EXCEPT !.left = Tail(@), !.refused = @ \cup {m}]
       ELSE IF objects[m].retracted
       THEN job' = [job EXCEPT !.left = Tail(@), !.retracted = @ \cup {m}]
       ELSE job' = [job EXCEPT !.copy = objects[m]]
    /\ UNCHANGED <<instant, objects, issued, draft, reads>>

Retract ==
    LET m == Head(job.left) IN
    /\ job.copy # None
    /\ objects' = Put(m, [job.copy EXCEPT !.retracted = TRUE])
    /\ job' = [job EXCEPT !.copy = None, !.left = Tail(@), !.retracted = @ \cup {m}]
    /\ UNCHANGED <<instant, issued, draft, reads>>

\* Answered, or cut off.
Answer ==
    /\ job # NoJob /\ job' = NoJob
    /\ UNCHANGED <<instant, objects, issued, draft, reads>>

ReadingNext ==
    \/ \E send \in Sends, parent \in Ids \cup {None} : SendLook(send[1], send[2], parent)
    \/ \E m \in Ids, a \in Readers : MarkRead(m, a)
    \/ \E m \in Ids, a \in Actors : RetractThread(a, m)
    \/ \E cutoff \in 1..Instants : Purge(cutoff)
    \/ SendStore \/ Tick \/ RetractLook \/ Retract \/ Answer

ReadingSpec == ReadingInit /\ [][ReadingNext]_readingVars

-----------------------------------------------------------------------------
\* The one pass finds the roots that a walk from each message finds.
RootsAgree ==
    ThreadRoots = [m \in DOMAIN objects |-> ThreadRoot(objects, m)]

\* The page of a thread has every turn once, each after the one it answers and
\* one deeper, and only a turn whose parent is nowhere is told apart.
TreeIsWhole ==
    \A m \in DOMAIN objects :
        LET turns == ObserveThread(m)
            rows == ThreadTree(turns)
            below(i, j) == i < j /\ rows[j].depth \in {rows[i].depth + 1, MaxNest}
        IN  /\ Len(rows) = Cardinality(turns) /\ {rows[i].turn : i \in DOMAIN rows} = turns
            /\ \A j \in DOMAIN rows :
                  LET parent == objects[rows[j].turn].parent IN
                  IF parent \in DOMAIN objects
                  THEN ~rows[j].orphan /\ \E i \in DOMAIN rows :
                          rows[i].turn = parent /\ below(i, j)
                  ELSE rows[j].depth = 0 /\ rows[j].orphan = (parent # None)

\* An inbox by conversation has all that waits, once; a group begins with a turn
\* that waits, is of one thread, and no turn in it is apart from its parent.
GroupsPartition ==
    \A a \in Actors :
        /\ UNION {g.unread : g \in Threads(a)} = Waiting(a)
        /\ \A g, h \in Threads(a) : g # h => g.unread \cap h.unread = {}
        /\ \A g \in Threads(a) :
              /\ g.root \in g.unread
              /\ \A m \in g.unread :
                    /\ ThreadRoot(objects, m) = ThreadRoot(objects, g.root)
                    /\ objects[m].parent \in Waiting(a) => objects[m].parent \in g.unread

\* Whatever a search finds opens, with its turn in the thread that comes, and
\* none of its words were withdrawn; what it leaves out it says, and is older.
HitsOpen ==
    \A a \in Actors :
        LET found == Search(a)
            hits == Range(found.hits)
        IN  /\ \A m \in hits : m \in VisibleTurns(m, a) /\ ~objects[m].retracted
            /\ Matches(a) = hits \/ found.truncated
            /\ \A m \in hits, n \in Matches(a) \ hits : objects[n].at <= objects[m].at

\* The report of a withdrawal accounts for every turn that was looked at, once;
\* what it names as withdrawn has no words left, and a human is refused only
\* what was purged meanwhile.
ReportsAccount ==
    /\ job.retracted \cap job.refused = {}
    /\ job.left = <<>> => job.retracted \cup job.refused = Range(job.looked)
    /\ \A m \in job.retracted \cap DOMAIN objects : objects[m].retracted
    /\ job.by \in Humans => job.refused \cap DOMAIN objects = {}

\* What readers are shown of one store agrees with it and with each other.
ViewsAgree ==
    RootsAgree /\ TreeIsWhole /\ GroupsPartition /\ HitsOpen /\ ReportsAccount
=============================================================================
