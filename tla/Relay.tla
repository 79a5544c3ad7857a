------------------------------- MODULE Relay -------------------------------
(***************************************************************************)
(* The console's relay: one thread holds the hub's stream and hands what   *)
(* it learns to the console's event loop, which offers it to the queue of  *)
(* each page that is watching.  A page is told the state of the line when  *)
(* it subscribes and at every change, and infers nothing.                  *)
(*                                                                         *)
(* The thread and the loop share the set of queues, under a lock, and the  *)
(* state, under none.  To publish is two steps of the thread: the state is *)
(* written, then everyone subscribed at that moment is posted a callback.  *)
(* To subscribe is two steps of the loop: the state goes into the queue,   *)
(* then the queue into the set.  An update is the word it carries, or      *)
(* "mail".                                                                 *)
(***************************************************************************)
EXTENDS Naturals, Sequences

CONSTANTS
    None,
    Pages,
    Depth,      \* SUBSCRIBER_DEPTH
    LostAfter,  \* ATTEMPTS_BEFORE_LOST
    Lag         \* callbacks the loop may be behind with, for one page (bound)

\* Assumed of the constants; each instance is checked against it.
RelayConstants ==
    /\ Depth \in Nat \ {0} /\ Lag \in Nat \ {0} /\ LostAfter \in Nat
    /\ None \notin {"open", "reconnecting", "lost", "mail"}

State == {"open", "reconnecting", "lost"}
Update == State \cup {"mail"}

VARIABLES
    upstream,  \* the hub: "up", "down", or "final" (it will not stream to us)
    stage,     \* where the thread is
    attempt,
    settled,   \* whether the connection that ended had lasted, and said so
    state,     \* Relay.state
    saying,    \* the update that is about to be posted, or None
    stopped,
    page,      \* where each page is: "away", "asked", "greeted", "in"
    posted,    \* the loop's callbacks for each page, in order
    feed,      \* each page's queue
    head,      \* what each page's head row says
    missed     \* history: the last change of the line never got to the page's queue

thread == <<stage, attempt, settled, state, saying, stopped>>
watchers == <<page, posted, feed, head, missed>>
vars == <<upstream, thread, watchers>>

TypeOK ==
    /\ upstream \in {"up", "down", "final"}
    /\ stage \in {"idle", "dial", "read", "judge", "delay", "refused", "ended"}
    /\ attempt \in 0..LostAfter
    /\ settled \in BOOLEAN /\ stopped \in BOOLEAN
    /\ state \in State
    /\ saying \in Update \cup {None}
    /\ page \in [Pages -> {"away", "asked", "greeted", "in"}]
    /\ posted \in [Pages -> Seq(Update)]
    /\ feed \in [Pages -> Seq(Update)]
    /\ head \in [Pages -> State]
    /\ missed \in [Pages -> BOOLEAN]

Init ==
    /\ upstream \in {"up", "down", "final"}
    /\ stage = "idle" /\ attempt = 0 /\ settled = FALSE
    /\ state = "reconnecting" /\ saying = None /\ stopped = FALSE
    /\ page = [p \in Pages |-> "away"]
    /\ posted = [p \in Pages |-> <<>>]
    /\ feed = [p \in Pages |-> <<>>]
    /\ head = [p \in Pages |-> "reconnecting"]
    /\ missed = [p \in Pages |-> FALSE]

-----------------------------------------------------------------------------
(* The thread *)

HubChanges ==
    /\ upstream' \in {"up", "down", "final"}
    /\ UNCHANGED <<thread, watchers>>

\* _publish_state: announced only when it is a change.
SetState(s) ==
    /\ state' = s
    /\ saying' = IF s = state THEN None ELSE s

\* _publish: whoever is subscribed at this moment.
Fanout ==
    /\ saying # None
    /\ \A p \in Pages : Len(posted[p]) < Lag
    /\ posted' = [p \in Pages |-> IF page[p] = "in" THEN Append(posted[p], saying)
                                                    ELSE posted[p]]
    /\ missed' = [p \in Pages |->
          missed[p] \/ (page[p] = "greeted" /\ saying # "mail" /\ feed[p] # <<saying>>)]
    /\ saying' = None
    /\ UNCHANGED <<upstream, stage, attempt, settled, state, stopped, page, feed, head>>

Thread(from) == stage = from /\ saying = None

\* A connection, which is open as soon as the hub answered.
Connect ==
    /\ Thread("dial") /\ ~stopped /\ upstream = "up"
    /\ stage' = "read"
    /\ SetState("open")
    /\ UNCHANGED <<upstream, attempt, settled, stopped, watchers>>

Unreachable ==
    /\ Thread("dial") /\ ~stopped /\ upstream = "down"
    /\ stage' = "judge" /\ settled' = FALSE
    /\ UNCHANGED <<upstream, attempt, state, saying, stopped, watchers>>

\* One of FINAL_STATUSES: the thread ends, and start does not begin another.
RefusedForGood ==
    /\ Thread("dial") /\ ~stopped /\ upstream = "final"
    /\ stage' = "refused"
    /\ SetState("lost")
    /\ UNCHANGED <<upstream, attempt, settled, stopped, watchers>>

\* An event of the stream; only arrivals are passed on.
ReadMail ==
    /\ Thread("read") /\ ~stopped /\ upstream = "up"
    /\ saying' = "mail"
    /\ UNCHANGED <<upstream, stage, attempt, settled, state, stopped, watchers>>

\* The hub closed the stream, and it had lasted or not; or the read raised, and
\* how long it had lasted is not known.
Drop ==
    /\ Thread("read")
    /\ stage' = "judge" /\ settled' \in BOOLEAN
    /\ UNCHANGED <<upstream, attempt, state, saying, stopped, watchers>>

Judge ==
    LET tried == IF settled THEN 0 ELSE attempt IN
    /\ Thread("judge")
    /\ attempt' = tried
    /\ SetState(IF tried >= LostAfter THEN "lost" ELSE "reconnecting")
    /\ stage' = "delay"
    /\ UNCHANGED <<upstream, settled, stopped, watchers>>

\* Mutant: a line that is lost is given up.
WaitUnlessLost ==
    /\ Thread("delay")
    /\ stage' = IF stopped \/ state = "lost" THEN "ended" ELSE "dial"
    /\ attempt' = IF attempt < LostAfter THEN attempt + 1 ELSE attempt
    /\ UNCHANGED <<upstream, settled, state, saying, stopped, watchers>>

\* The wait of reconnect_delay.  Beyond LostAfter the count makes no difference
\* but to its length.
Wait ==
    /\ Thread("delay")
    /\ stage' = IF stopped THEN "ended" ELSE "dial"
    /\ attempt' = IF attempt < LostAfter THEN attempt + 1 ELSE attempt
    /\ UNCHANGED <<upstream, settled, state, saying, stopped, watchers>>

Close ==
    /\ ~stopped
    /\ stopped' = TRUE
    /\ UNCHANGED <<upstream, stage, attempt, settled, state, saying, watchers>>

-----------------------------------------------------------------------------
(* The loop, and the pages *)

\* A page and its request for /events, which starts the thread, once.
Visit(p) ==
    /\ page[p] = "away" /\ posted[p] = <<>>
    /\ page' = [page EXCEPT ![p] = "asked"]
    /\ head' = [head EXCEPT ![p] = "reconnecting"]
    /\ stage' = IF stage = "idle" THEN "dial" ELSE stage
    /\ UNCHANGED <<upstream, attempt, settled, state, saying, stopped, posted, feed, missed>>

\* Mutant: an empty queue.
NoGreeting == <<>>

\* The state is delivered before any event.
Greeting == <<state>>

\* The generator's first step: subscribe.
Greet(p) ==
    /\ page[p] = "asked"
    /\ page' = [page EXCEPT ![p] = "greeted"]
    /\ feed' = [feed EXCEPT ![p] = Greeting]
    /\ missed' = [missed EXCEPT ![p] = FALSE]
    /\ UNCHANGED <<upstream, thread, posted, head>>

Add(p) ==
    /\ page[p] = "greeted"
    /\ page' = [page EXCEPT ![p] = "in"]
    /\ UNCHANGED <<upstream, thread, posted, feed, head, missed>>

\* The viewer leaves: the generator's finally, if it had begun.
Leave(p) ==
    /\ page[p] \in {"asked", "in"}
    /\ page' = [page EXCEPT ![p] = "away"]
    /\ feed' = [feed EXCEPT ![p] = <<>>]
    /\ UNCHANGED <<upstream, thread, posted, head, missed>>

\* _offer: put, or drop.  A queue that was left takes it and is never read.
Offer(p) ==
    LET room == Len(feed[p]) < Depth
        update == Head(posted[p]) IN
    /\ posted[p] # <<>>
    /\ posted' = [posted EXCEPT ![p] = Tail(@)]
    /\ feed' = IF page[p] = "in" /\ room THEN [feed EXCEPT ![p] = Append(@, update)] ELSE feed
    /\ missed' = IF update = "mail" THEN missed ELSE [missed EXCEPT ![p] = ~room]
    /\ UNCHANGED <<upstream, thread, page, head>>

\* An event to the browser: `line` goes to the head row, `mail` is a row.
Render(p) ==
    /\ page[p] = "in" /\ feed[p] # <<>>
    /\ feed' = [feed EXCEPT ![p] = Tail(@)]
    /\ head' = IF Head(feed[p]) = "mail" THEN head ELSE [head EXCEPT ![p] = Head(feed[p])]
    /\ UNCHANGED <<upstream, thread, page, posted, missed>>

Next ==
    \/ HubChanges \/ Fanout \/ Close
    \/ Connect \/ Unreachable \/ RefusedForGood \/ ReadMail \/ Drop \/ Judge \/ Wait
    \/ \E p \in Pages : \/ Visit(p) \/ Greet(p) \/ Add(p) \/ Leave(p)
                        \/ Offer(p) \/ Render(p)

\* The thread goes on, but a read may last for ever; the loop runs callbacks.
Proceed == Connect \/ Unreachable \/ RefusedForGood \/ Judge \/ Wait
Fairness ==
    /\ WF_vars(Proceed)
    /\ WF_vars(Fanout)
    /\ \A p \in Pages : WF_vars(Offer(p))

Spec == Init /\ [][Next]_vars /\ Fairness

-----------------------------------------------------------------------------
(* Properties *)

\* What a head row says once these updates have come: the last that is of the line.
After(says, updates) ==
    LET lines == {i \in DOMAIN updates : updates[i] # "mail"}
    IN IF lines = {} THEN says ELSE updates[CHOOSE i \in lines : \A j \in lines : j <= i]

\* What a page's head row will say when everything under way to it has come: what
\* its queue holds, the callbacks posted for it, and what the thread is saying.
Saying == IF saying = None THEN <<>> ELSE <<saying>>
Heading(p) == After(After(After(head[p], feed[p]), posted[p]), Saying)

\* A page that is subscribed will show the state the relay is in, whichever
\* thread was in the middle of what when it subscribed or the line changed;
\* unless its queue had no room for the last change, or the change fell between
\* its greeting and its subscription.
WatchersAgree == \A p \in Pages : page[p] = "in" /\ ~missed[p] => Heading(p) = state

\* The hub is up, and the thread is not done for.
Reachable == upstream = "up" /\ ~stopped /\ stage \notin {"idle", "refused"}

\* A hub that stays up is connected to again, however long it was away and
\* however many attempts failed, unless it once refused for good.
Open == state = "open"
LineComesBack == <>[]Reachable => []<>Open

\* "Every subscriber is told ... which applies, and told again on every
\* transition": a page that keeps up with its queue is shown the state.
ToldEveryTransition ==
    \A p \in Pages : page[p] = "in" /\ Len(feed[p]) + Len(posted[p]) < Depth => Heading(p) = state
=============================================================================
