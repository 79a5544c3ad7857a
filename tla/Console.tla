------------------------------- MODULE Console ------------------------------
(***************************************************************************)
(* A human's browser, the console that serves it, and the hub behind them. *)
(* The console keeps nothing of its own: of every request it takes the     *)
(* browser's session cookie, asks the hub whose it is, and asks again as   *)
(* that human.  Between two of these calls the session may end, another    *)
(* tab may sign in as somebody else, and an answer may be lost.            *)
(***************************************************************************)
EXTENDS Naturals, FiniteSets, Sequences

CONSTANTS
    None,
    Console,       \* the console's own name
    Anyone,        \* SHARED_ACTOR, what a shared token stands for
    People,        \* humans with an account, and so with a mailbox
    Parties,       \* who the message was sent to
    Deployments,   \* the hub's auth_mode, with what kind of token the console's
                   \* process holds
    Views,         \* pages that are asked for
    Sids,          \* session ids the hub issues (bound)
    Clicks,        \* forms submitted (bound)
    Failures       \* calls to the hub that fail (bound)

AllViews == {"overview", "thread", "inbox", "compose", "account"}

Forms == {"reply", "retract", "send", "read"}
Session == [user : People, limited : BOOLEAN, live : BOOLEAN]

\* Assumed of the constants; each instance is checked against it.
ConsoleConstants ==
    /\ {None, Anyone, Console} \cap People = {} /\ Anyone \notin Parties
    /\ Deployments \subseteq
          [mode : {"off", "warn", "enforce"}, token : {"none", "ui", "shared"}]
    /\ Views \subseteq AllViews
    /\ None \notin Sids \cup Session \cup Forms
    /\ Clicks \in Nat /\ Failures \in Nat

VARIABLES
    setup,      \* the deployment; chosen at the start
    sessions,   \* session id -> its row, also after it ended, or None
    joined,     \* whether the console's own name has a mailbox
    cookie,     \* the browser's session, shared by its tabs
    page,       \* what the tab shows, and the submission that it answers
    request,    \* the console's handler, one at a time
    next,       \* the number of the next submission
    posted,     \* submission -> what the hub stored of it
    marked,     \* who the hub holds to have read the message
    gone,       \* whether its body was withdrawn
    faults,     \* calls that failed
    lost        \* submissions whose answer was lost once

hub == <<sessions, joined, posted, marked, gone>>
vars == <<setup, hub, cookie, page, request, next, faults, lost>>

Page(at, form, click) == [at |-> at, form |-> form, click |-> click]
NoRequest == [step |-> "none", what |-> None, sid |-> None, name |-> None, click |-> 0]

TypeOK ==
    /\ setup \in Deployments
    /\ sessions \in [Sids -> Session \cup {None}] /\ joined \in BOOLEAN
    /\ cookie \in Sids \cup {None}
    /\ page \in [at : AllViews \cup {"login", "enrol", "sent", "failed"},
                 form : Forms \cup {None}, click : 0..Clicks]
    /\ request \in [step : {"none", "gate", "who", "call"},
                    what : AllViews \cup Forms \cup {None}, sid : Sids \cup {None},
                    name : People \cup {None, Console, Anyone}, click : 0..Clicks]
    /\ next \in 1..(Clicks + 1)
    /\ \A k \in 1..Clicks : \A i \in DOMAIN posted[k] :
          posted[k][i] \in [form : {"reply", "send"}, by : People \cup {Console},
                            sid : Sids \cup {None}]
    /\ marked \subseteq People \cup {Console} /\ gone \in BOOLEAN
    /\ faults \in 0..Failures /\ lost \subseteq 1..Clicks

\* ensure_own_mailbox: refused where the hub wants a credential and it has none,
\* and not repeated when the hub was away.
Init ==
    /\ setup \in Deployments
    /\ joined \in IF setup.mode = "enforce" /\ setup.token # "shared"
                  THEN {FALSE} ELSE BOOLEAN
    /\ sessions = [sid \in Sids |-> None] /\ cookie = None
    /\ page = Page("login", None, 0) /\ request = NoRequest /\ next = 1
    /\ posted = [k \in 1..Clicks |-> <<>>] /\ marked = {} /\ gone = FALSE
    /\ faults = 0 /\ lost = {}

-----------------------------------------------------------------------------
(* Whom the hub takes a request for *)

Full(sid) ==
    sid # None /\ sessions[sid] # None /\ sessions[sid].live /\ ~sessions[sid].limited

\* resolve_verified_caller: a session names a human, and so goes before the token
\* that names nobody; a token for pages grants nothing.
Verified(sid) ==
    IF setup.mode = "off" THEN None
    ELSE IF Full(sid) THEN sessions[sid].user
    ELSE IF setup.token = "shared" THEN Anyone ELSE None

\* provide_caller: who a request acts as, or None when it is refused.
Caller(sid, name) ==
    IF Verified(sid) \notin {None, Anyone} THEN Verified(sid)
    ELSE IF Verified(sid) = None /\ setup.mode = "enforce" THEN None
    ELSE name

\* Joined, as every human is.
Member(name) == name \in People \/ (name = Console /\ joined)

\* What the call may do: routes with a name in their path are its owner's.
Allowed(what, sid, name) ==
    LET caller == Caller(sid, name)
    IN  CASE what \in {"overview", "thread"} ->
                setup.mode = "enforce" => Verified(sid) # None
          [] what \in {"compose", "account"} -> TRUE   \* no call of their own
          [] what \in {"inbox", "send"} -> caller = name /\ Member(name)
          [] what = "reply" ->
                caller = name /\ Member(name) /\ name \in Parties
          [] what = "read" -> caller \in Parties /\ Member(caller)
          [] what = "retract" -> caller \in People

-----------------------------------------------------------------------------
(* The console *)

\* The browser asks for a page, or submits a form, with the cookie it has now.
Ask(what, sid, click) ==
    [step |-> "gate", what |-> what, sid |-> sid, name |-> None, click |-> click]

\* _gate lets pass whoever carries a cookie, and everybody when the hub does not
\* say that it authenticates, or does not answer.
Gate(answers) ==
    /\ request.step = "gate"
    /\ answers \/ faults < Failures
    /\ faults' = IF answers THEN faults ELSE faults + 1
    /\ IF request.sid = None /\ setup.mode = "enforce" /\ answers
       THEN page' = Page("login", None, 0) /\ request' = NoRequest
       ELSE /\ request' =
                 IF request.what \in {"overview", "thread"}
                 THEN [request EXCEPT !.step = "call", !.name = Console]
                 ELSE [request EXCEPT !.step = "who"]
            /\ UNCHANGED page
    /\ UNCHANGED <<setup, hub, cookie, next, lost>>

\* acting_for; whoami answers nothing when its call fails.
ActingFor(sid, answers) ==
    IF sid = None \/ ~answers \/ Verified(sid) = None THEN Console ELSE Verified(sid)

WhoAmI(answers) ==
    /\ request.step = "who"
    /\ answers \/ faults < Failures
    /\ faults' = IF answers THEN faults ELSE faults + 1
    /\ request' = [request EXCEPT !.step = "call",
                                  !.name = ActingFor(request.sid, answers)]
    /\ UNCHANGED <<setup, hub, cookie, page, next, lost>>

\* Mutant: a reply's answer is rendered, as a composed message's is.
AfterRendered(what) ==
    IF what \in {"reply", "send"} THEN "sent"
    ELSE IF what = "retract" THEN "thread" ELSE IF what = "read" THEN "inbox" ELSE what

\* What the browser is shown of a call that was answered: most forms redirect,
\* and reloading the page then asks for a page.
After(what) ==
    CASE what \in {"reply", "retract"} -> "thread"
      [] what = "read" -> "inbox"
      [] what = "send" -> "sent"
      [] OTHER -> what

\* _err: the door for who may just not have signed in, else an error page, which
\* answers the submission itself.  A message not marked read is not reported.
Failed(unauthenticated) ==
    IF unauthenticated /\ request.sid = None THEN Page("login", None, 0)
    ELSE IF request.what = "read" THEN Page("inbox", None, 0)
    ELSE IF request.what \in Forms THEN Page("failed", request.what, request.click)
    ELSE Page("failed", None, 0)

\* The answer's page; redirected to a view, the browser asks for it.
Answered ==
    LET at == After(request.what)
    IN  IF at = "sent"
        THEN page' = Page("sent", request.what, request.click) /\ request' = NoRequest
        ELSE IF request.what \in Forms
        THEN request' = Ask(at, cookie, 0) /\ UNCHANGED page
        ELSE page' = Page(at, None, 0) /\ request' = NoRequest

Refuse ==
    /\ request.step = "call" /\ ~Allowed(request.what, request.sid, request.name)
    /\ page' = Failed(Caller(request.sid, request.name) = None)
    /\ request' = NoRequest
    /\ UNCHANGED <<setup, hub, cookie, next, faults, lost>>

\* The hub acts.  `answers' says whether the console hears of it: urlopen is not
\* repeated after a timeout, and a call that timed out is an error.
Effect ==
    LET what == request.what
        by == Caller(request.sid, request.name)
        kept == [form |-> what, by |-> by, sid |-> request.sid]
    IN
        /\ posted' = IF what \in {"reply", "send"}
                     THEN [posted EXCEPT ![request.click] = Append(@, kept)]
                     ELSE posted
        /\ marked' = IF what = "read" THEN marked \cup {by} ELSE marked
        /\ gone' = (gone \/ what = "retract")
        /\ UNCHANGED <<sessions, joined>>

Call(answers) ==
    /\ request.step = "call" /\ Allowed(request.what, request.sid, request.name)
    /\ answers \/ faults < Failures
    /\ faults' = IF answers THEN faults ELSE faults + 1
    /\ Effect
    /\ lost' = IF ~answers /\ request.click # 0 THEN lost \cup {request.click} ELSE lost
    /\ IF answers THEN Answered ELSE page' = Failed(FALSE) /\ request' = NoRequest
    /\ UNCHANGED <<setup, cookie, next>>

-----------------------------------------------------------------------------
(* The browser *)

Visit(view) ==
    /\ request = NoRequest /\ request' = Ask(view, cookie, 0)
    /\ UNCHANGED <<setup, hub, cookie, page, next, faults, lost>>

\* The forms of a page: a thread's only for who carries a session.
Offered ==
    CASE page.at = "thread" ->
            IF cookie = None THEN {} ELSE IF gone THEN {"reply"} ELSE {"reply", "retract"}
      [] page.at = "inbox" -> {"read"}
      [] page.at = "compose" -> {"send"}
      [] OTHER -> {}

Submit(form) ==
    /\ request = NoRequest /\ form \in Offered /\ next <= Clicks
    /\ request' = Ask(form, cookie, next) /\ next' = next + 1
    /\ UNCHANGED <<setup, hub, cookie, page, faults, lost>>

\* A page that answered a submission submits again, with the cookie of now.
Reload ==
    /\ request = NoRequest /\ page.at \in {"sent", "failed"} /\ page.form # None
    /\ Len(posted[page.click]) < 2                                     \* bound
    /\ request' = Ask(page.form, cookie, page.click)
    /\ UNCHANGED <<setup, hub, cookie, page, next, faults, lost>>

\* login_submit, in any tab: the hub's cookie is passed on.  Who has no second
\* factor yet is sent to enrol with a session for nothing else.
Login(u, sid, limited) ==
    /\ setup.mode # "off" /\ sessions[sid] = None
    /\ sessions' = [sessions EXCEPT ![sid] =
                      [user |-> u, limited |-> limited, live |-> TRUE]]
    /\ cookie' = sid
    /\ page' = IF page.at = "login"
               THEN Page(IF limited THEN "enrol" ELSE "overview", None, 0) ELSE page
    /\ UNCHANGED <<setup, joined, request, next, posted, marked, gone, faults, lost>>

\* enrol_submit: the hub opens a full session.
Enrol(sid) ==
    /\ page.at = "enrol" /\ cookie # None /\ sessions[sid] = None
    /\ sessions[cookie].live
    /\ sessions' = [sessions EXCEPT ![sid] = [sessions[cookie] EXCEPT !.limited = FALSE]]
    /\ cookie' = sid /\ page' = Page("overview", None, 0)
    /\ UNCHANGED <<setup, joined, request, next, posted, marked, gone, faults, lost>>

\* logout_submit: the cookie goes, and the session unless the call fails.
Logout(answers) ==
    /\ cookie # None /\ cookie' = None
    /\ answers \/ faults < Failures
    /\ faults' = IF answers THEN faults ELSE faults + 1
    /\ sessions' = IF answers THEN [sessions EXCEPT ![cookie].live = FALSE] ELSE sessions
    /\ page' = Page("login", None, 0)
    /\ UNCHANGED <<setup, joined, request, next, posted, marked, gone, lost>>

\* It expires, or its account is removed.
EndSession(sid) ==
    /\ sessions[sid] # None /\ sessions[sid].live
    /\ sessions' = [sessions EXCEPT ![sid].live = FALSE]
    /\ UNCHANGED <<setup, joined, cookie, page, request, next, posted, marked, gone,
                   faults, lost>>

Next ==
    \/ Refuse \/ Reload
    \/ \E answers \in BOOLEAN :
          Gate(answers) \/ WhoAmI(answers) \/ Call(answers) \/ Logout(answers)
    \/ \E view \in Views : Visit(view)
    \/ \E form \in Forms : Submit(form)
    \/ \E sid \in Sids :
          \/ Enrol(sid) \/ EndSession(sid)
          \/ \E u \in People, limited \in BOOLEAN : Login(u, sid, limited)

Spec == Init /\ [][Next]_vars

-----------------------------------------------------------------------------
Times(k, form) == Cardinality({i \in DOMAIN posted[k] : posted[k][i].form = form})

\* A reply submitted once is stored at most once, however often its page is reloaded
\* and whoever the browser has become, unless an answer to it was lost; and a
\* hub that enforces has it from the human whose session it came with, when the
\* console's own token does not act.
OneClickOneReply ==
    \A k \in 1..Clicks :
        /\ k \notin lost => Times(k, "reply") <= 1
        /\ setup.mode = "enforce" /\ setup.token # "shared" =>
              \A i \in DOMAIN posted[k] :
                  posted[k][i].by = sessions[posted[k][i].sid].user

\* The same of a message that is composed, whose answer is a page that submits
\* again (not run).
OneClickOneMessage == \A k \in 1..Clicks : k \notin lost => Times(k, "send") <= 1

\* A reply is attributed to the signed-in human and never to the console: not
\* where a session has ended and the hub does not enforce, or the console holds
\* a shared token and whoami fails (not run).
NeverAsConsole ==
    \A k \in 1..Clicks : \A i \in DOMAIN posted[k] :
        posted[k][i].form = "reply" => posted[k][i].by # Console
=============================================================================
