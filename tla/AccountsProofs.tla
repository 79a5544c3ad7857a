--------------------------- MODULE AccountsProofs --------------------------
(***************************************************************************)
(* Proofs about Accounts, for any names, offers and clients.               *)
(*                                                                         *)
(* The invariants are proved in layers: the types with what a request      *)
(* holds (Inv), then each property by a strengthening of its own on top of *)
(* Inv.  Only the rows a step writes matter to a property, so each proof   *)
(* has a step for every action that writes them and one for the rest.      *)
(***************************************************************************)
EXTENDS Accounts, TLAPS

\* A request that will write a row holds one.
Writing == {"spending", "stamping", "opening", "issuing", "enabling", "changing"}
RequestHolds ==
    \A c \in Clients :
        /\ req[c].stage # "idle" => req[c].user # None
        /\ req[c].stage \in {"inviting", "claiming"} => req[c].user \in Names
        /\ req[c].stage \in Writing => req[c].copy # None
        /\ req[c].stage \in {"spending", "issuing", "coding"} => req[c].offer # None

\* Requests are in flight only while the hub serves, and an account on its way
\* to a usable name is still to be adopted, and has its copy.
StartupHolds ==
    /\ ~ Serving => \A c \in Clients : req[c] = Idle
    /\ boot.moved # None =>
        /\ boot.stage = "adopting"
        /\ boot.moved \in boot.todo
        /\ account[Usable[boot.moved]] = account[boot.moved]
    /\ Serving => boot.todo = {}

Inv == TypeOK /\ RequestHolds /\ StartupHolds

\* Every row a request would write is sound.
CopiesEnrolled ==
    \A c \in Clients : req[c].stage \in Writing => Enrolled(req[c].copy)

\* The rows that can still spend an offer: one at most, and none once it has
\* been spent.
Issuing(c, o) == req[c].stage \in {"issuing", "coding"} /\ req[c].offer = o
CodesAccounted ==
    /\ \A u, v \in Usernames, o \in Offers :
        <<u, o>> \in codes /\ <<v, o>> \in codes => u = v
    /\ \A u \in Usernames, o \in Offers :
        <<u, o>> \in codes => o \in offered /\ admitted[o] = 0
    /\ \A c \in Clients, o \in Offers : Issuing(c, o) =>
        /\ o \in offered
        /\ admitted[o] = 0
        /\ \A u \in Usernames : <<u, o>> \notin codes
        /\ \A d \in Clients : Issuing(d, o) => c = d
    /\ \A o \in Offers : o \notin offered => admitted[o] = 0

\* From the listing of the accounts on, each has its mailbox or is yet to be
\* adopted; the hub's own mailbox is there before any account is seeded.
MailboxesKept ==
    /\ actors[Admin] # "agent"
    /\ boot.stage # "down" =>
        /\ actors[Admin] \in {"person", "service"}
        /\ \A n \in Names \cap Holders :
            \/ actors[n] \in {"person", "service"}
            \/ boot.stage = "adopting" /\ n \in boot.todo
            \/ boot.stage = "adopting" /\ boot.moved # None /\ n = Usable[boot.moved]
            \/ Serving /\ n \in Unfinished \cup half

IInv == Inv /\ CopiesEnrolled /\ CodesAccounted /\ MailboxesKept

----------------------------------------------------------------------------
(* Types.                                                                  *)

LEMMA InitTyped == Init => Inv
<1> SUFFICES ASSUME Init PROVE Inv
  OBVIOUS
<1> USE AccountConstants DEF Init, Names, Usernames, Record, Fresh, Idle
<1>1. account \in [Usernames -> Record \cup {None}]
  OBVIOUS
<1>2. codes \subseteq Usernames \X Offers
  OBVIOUS
<1>3. offered \subseteq Offers
  OBVIOUS
<1>4. TypeOK
  BY <1>1, <1>2, <1>3 DEF TypeOK, Stages, Request
<1>5. RequestHolds /\ StartupHolds
  BY DEF RequestHolds, StartupHolds, Serving, Writing
<1> QED
  BY <1>4, <1>5 DEF Inv

\* A request that goes on holds what its next stage needs.
LEMMA EnterHolds ==
    ASSUME Inv, NEW c \in Clients, NEW stage \in Stages, Enter(c, stage), Serving,
           req[c].stage # "idle",
           stage \in {"inviting", "claiming"} => req[c].user \in Names,
           stage \in Writing => req[c].copy # None,
           stage \in {"spending", "issuing", "coding"} => req[c].offer # None
    PROVE  req' \in [Clients -> Request] /\ RequestHolds'
<1>1. req \in [Clients -> Request] /\ RequestHolds
  BY DEF Inv, TypeOK
<1>2. req[c] \in Request /\ req' = [req EXCEPT ![c].stage = stage]
  BY <1>1 DEF Enter
<1>3. req' \in [Clients -> Request]
  BY <1>1, <1>2 DEF Request
<1>4. /\ req'[c].stage = stage
      /\ req'[c].user = req[c].user
      /\ req'[c].copy = req[c].copy
      /\ req'[c].offer = req[c].offer
      /\ \A d \in Clients \ {c} : req'[d] = req[d]
  BY <1>1, <1>2 DEF Request
<1>5. RequestHolds'
  BY <1>1, <1>3, <1>4 DEF RequestHolds, Writing
<1> QED
  BY <1>3, <1>5

\* A step that touches no startup, and changes rows in place.
LEMMA ServingStep ==
    ASSUME Inv, Serving, boot' = boot,
           req' \in [Clients -> Request], RequestHolds',
           account' \in [Usernames -> Record \cup {None}],
           codes' \subseteq Usernames \X Offers,
           sessions' \subseteq Usernames \X {"limited", "full"},
           actors' \in [Names -> {None, "agent", "service", "person"}],
           offered' \subseteq Offers,
           admitted' \in [Offers -> Nat],
           half' \subseteq Usernames
    PROVE  Inv'
BY DEF Inv, TypeOK, StartupHolds, Serving, Holders

LEMMA StepTyped == Inv /\ [Next]_vars => Inv'
<1> SUFFICES ASSUME Inv, [Next]_vars PROVE Inv'
  OBVIOUS
<1> USE AccountConstants DEF Inv, TypeOK, RequestHolds, StartupHolds, Names, Usernames,
        Record, Fresh, Stages, Request, Idle, Holders, Serving, Writing, tables, histories
<1>1. CASE UNCHANGED vars
  BY <1>1 DEF vars
<1>2. ASSUME NEW c \in Clients, SigningIn(c) PROVE Inv'
  <2>1. ASSUME NEW u \in Usernames, NEW o \in Offers, LoginLook(c, u, o) PROVE Inv'
    BY <2>1 DEF LoginLook, AfterPassword, At, Start
  <2>2. CASE LoginOverride(c)
    BY <2>2 DEF LoginOverride, At
  <2>3. CASE LoginSpend(c)
    <3>1. CASE <<req[c].user, req[c].offer>> \in codes
      <4>1. Enter(c, "stamping") /\ Serving /\ req[c].stage = "spending"
        BY <2>3, <3>1 DEF LoginSpend, At
      <4>2. req' \in [Clients -> Request] /\ RequestHolds'
        BY <4>1, EnterHolds
      <4> QED
        BY <2>3, <3>1, <4>1, <4>2, ServingStep DEF LoginSpend, CodeUsed
    <3>2. CASE <<req[c].user, req[c].offer>> \notin codes
      BY <2>3, <3>2 DEF LoginSpend, At, Finish
    <3> QED
      BY <3>1, <3>2
  <2>4. CASE OpenSession(c)
    BY <2>4 DEF OpenSession, At, Finish
  <2> HIDE DEF Inv
  <2> QED
    BY <1>2, <2>1, <2>2, <2>3, <2>4 DEF SigningIn
<1>3. ASSUME NEW c \in Clients, Enrolling(c) PROVE Inv'
  <2>1. ASSUME NEW u \in Usernames, NEW o \in Offers, BeginEnrolment(c, u, o) PROVE Inv'
    BY <2>1 DEF BeginEnrolment, At, Start
  <2>2. ASSUME NEW u \in Usernames, CompleteEnrolment(c, u) PROVE Inv'
    BY <2>2 DEF CompleteEnrolment, At, Start
  <2>3. ASSUME NEW u \in Usernames, ChangePassword(c, u) PROVE Inv'
    BY <2>3 DEF ChangePassword, At, Start
  <2>4. CASE AddRecoveryCodes(c)
    BY <2>4 DEF AddRecoveryCodes, At, Finish
  <2>5. CASE Write(c)
    <3>1. /\ req[c].user \in Usernames
          /\ req[c].copy \in Record
          /\ account' = Updated(req[c].user, req[c].copy)
          /\ Serving
      BY <2>5 DEF Write, At
    <3>2. /\ account' \in [Usernames -> Record \cup {None}]
          /\ Holders' = Holders
      BY <3>1 DEF Updated
    <3>3. CASE req[c].stage = "issuing"
      <4>1. Enter(c, "coding")
        BY <2>5, <3>3 DEF Write
      <4>2. req' \in [Clients -> Request] /\ RequestHolds'
        BY <3>1, <3>3, <4>1, EnterHolds
      <4> QED
        BY <2>5, <3>1, <3>2, <4>2, ServingStep DEF Write
    <3>4. CASE req[c].stage = "changing"
      <4>1. req' = [req EXCEPT ![c] = Idle]
        BY <2>5, <3>4 DEF Write, Finish
      <4>2. req' \in [Clients -> Request] /\ RequestHolds'
        BY <4>1
      <4> QED
        BY <2>5, <3>1, <3>2, <4>2, ServingStep DEF Write
    <3>5. CASE req[c].stage \in {"stamping", "enabling"}
      <4>1. Enter(c, "opening")
        BY <2>5, <3>5 DEF Write
      <4>2. req' \in [Clients -> Request] /\ RequestHolds'
        BY <3>1, <3>5, <4>1, EnterHolds
      <4> QED
        BY <2>5, <3>1, <3>2, <4>2, ServingStep DEF Write
    <3> QED
      BY <2>5, <3>3, <3>4, <3>5 DEF Write, At
  <2> HIDE DEF Inv
  <2> QED
    BY <1>3, <2>1, <2>2, <2>3, <2>4, <2>5 DEF Enrolling
<1>4. ASSUME NEW c \in Clients, Managing(c) PROVE Inv'
  <2>1. ASSUME NEW n \in Names, CreateHuman(c, n) PROVE Inv'
    BY <2>1 DEF CreateHuman, At, Start
  <2>2. CASE AddOperator(c)
    <3>1. CASE account[req[c].user] = None
      <4>1. Enter(c, "claiming") /\ Serving /\ req[c].stage = "inviting"
        BY <2>2, <3>1 DEF AddOperator, At
      <4>2. req' \in [Clients -> Request] /\ RequestHolds'
        BY <4>1, EnterHolds
      <4> QED
        BY <2>2, <3>1, <4>1, <4>2, ServingStep DEF AddOperator
    <3>2. CASE account[req[c].user] # None
      <4>1. Serving /\ req' = [req EXCEPT ![c] = Idle]
        BY <2>2, <3>2 DEF AddOperator, At, Finish
      <4>2. req' \in [Clients -> Request] /\ RequestHolds'
        BY <4>1
      <4> QED
        BY <2>2, <3>2, <4>1, <4>2, ServingStep DEF AddOperator
    <3> QED
      BY <3>1, <3>2
  <2>3. CASE ClaimName(c)
    <3>1. CASE actors[req[c].user] = None
      <4>1. Serving /\ req' = [req EXCEPT ![c] = Idle]
        BY <2>3, <3>1 DEF ClaimName, At, Finish
      <4>2. req' \in [Clients -> Request] /\ RequestHolds'
        BY <4>1
      <4>3. actors' \in [Names -> {None, "agent", "service", "person"}]
        BY <2>3, <3>1 DEF ClaimName
      <4> QED
        BY <2>3, <4>1, <4>2, <4>3, ServingStep DEF ClaimName
    <3>2. CASE actors[req[c].user] # None
      <4>1. Enter(c, "undoing") /\ Serving /\ req[c].stage = "claiming"
        BY <2>3, <3>2 DEF ClaimName, ClaimUndone, At
      <4>2. req' \in [Clients -> Request] /\ RequestHolds'
        BY <4>1, EnterHolds
      <4> QED
        BY <2>3, <3>2, <4>1, <4>2, ServingStep DEF ClaimName
    <3> QED
      BY <3>1, <3>2
  <2>4. ASSUME NEW u \in Usernames, RemoveLook(c, u) PROVE Inv'
    BY <2>4 DEF RemoveLook, At, Start
  <2>5. CASE UndoLook(c)
    <3>1. CASE Others(req[c].user) # {}
      <4>1. Enter(c, "withdrawing") /\ Serving /\ req[c].stage = "undoing"
        BY <2>5, <3>1 DEF UndoLook, At
      <4>2. req' \in [Clients -> Request] /\ RequestHolds'
        BY <4>1, EnterHolds
      <4> QED
        BY <2>5, <3>1, <4>1, <4>2, ServingStep DEF UndoLook
    <3>2. CASE Others(req[c].user) = {}
      BY <2>5, <3>2 DEF UndoLook, At, Finish
    <3> QED
      BY <3>1, <3>2
  <2>6. CASE RemoveUser(c)
    BY <2>6 DEF RemoveUser, At, Deleted, Finish
  <2> HIDE DEF Inv
  <2> QED
    BY <1>4, <2>1, <2>2, <2>3, <2>4, <2>5, <2>6 DEF Managing
<1>5. ASSUME NEW c \in Clients, Abandon(c) PROVE Inv'
  BY <1>5 DEF Abandon, Finish
<1>6. ASSUME NEW s \in sessions, EndSession(s) PROVE Inv'
  BY <1>6 DEF EndSession
<1>7. ASSUME NEW u \in Usernames, ResetUser(u) PROVE Inv'
  BY <1>7 DEF ResetUser
<1>8. ASSUME NEW n \in Names, Join(n) PROVE Inv'
  BY <1>8 DEF Join
<1>9. CASE Starting
  <2>1. CASE OpenHouse
    BY <2>1 DEF OpenHouse
  <2>2. ASSUME NEW n \in Names, Adopt(n) PROVE Inv'
    BY <2>2 DEF Adopt, Adopting
  <2>3. ASSUME NEW u \in Legacy, LeaveColliding(u) PROVE Inv'
    BY <2>3 DEF LeaveColliding, Adopting
  <2>4. ASSUME NEW u \in Legacy, MoveCopy(u) PROVE Inv'
    BY <2>4 DEF MoveCopy, Adopting, Collides, MoveNewFirst
  <2>5. CASE MoveDrop
    <3>1. /\ boot.moved \in Legacy
          /\ boot.moved \in boot.todo
          /\ Usable[boot.moved] \in Names
          /\ account[Usable[boot.moved]] # None
      BY <2>5 DEF MoveDrop
    <3>2. /\ Usable[boot.moved] # boot.moved
          /\ account' = [account EXCEPT ![boot.moved] = None]
      BY <2>5, <3>1 DEF MoveDrop, Deleted
    <3>3. Holders' = Holders \ {boot.moved}
      BY <3>1, <3>2
    <3>4. boot'.todo \subseteq Holders'
      BY <2>5, <3>1, <3>2, <3>3 DEF MoveDrop
    <3>5. boot' \in [stage : {"down", "adopting", "serving"},
                     todo : SUBSET Holders', moved : Legacy \cup {None}]
      BY <2>5, <3>4 DEF MoveDrop
    <3>6. TypeOK'
      BY <2>5, <3>2, <3>5 DEF MoveDrop, Deleted
    <3> QED
      BY <2>5, <3>6 DEF MoveDrop
  <2>6. ASSUME NEW wipe \in BOOLEAN, BootstrapAdmin(wipe) PROVE Inv'
    <3>1. account' \in [Usernames -> Record \cup {None}]
      <4> DEFINE kept == [u \in Usernames |-> IF wipe THEN None ELSE account[u]]
      <4>1. kept \in [Usernames -> Record \cup {None}] /\ Fresh \in Record
        OBVIOUS
      <4>2. account' = kept \/ account' = [kept EXCEPT ![Admin] = Fresh]
        BY <2>6 DEF BootstrapAdmin
      <4> HIDE DEF kept, Fresh, Record
      <4> QED
        BY <4>1, <4>2
    <3>2. /\ codes' \subseteq codes /\ sessions' \subseteq sessions
          /\ UNCHANGED <<actors, req, histories>>
      BY <2>6 DEF BootstrapAdmin
    <3>3. /\ boot' = [boot EXCEPT !.stage = "serving"]
          /\ boot.moved = None /\ boot.todo = {}
      BY <2>6 DEF BootstrapAdmin
    <3> QED
      BY <3>1, <3>2, <3>3
  <2> HIDE DEF Inv
  <2> QED
    BY <1>9, <2>1, <2>2, <2>3, <2>4, <2>5, <2>6 DEF Starting
<1>10. CASE Crash
  BY <1>10 DEF Crash
<1> HIDE DEF Inv
<1> QED
  BY <1>1, <1>2, <1>3, <1>4, <1>5, <1>6, <1>7, <1>8, <1>9, <1>10 DEF Next

\* The hub's tables, its startup and every request are always well formed, and
\* a request holds what its next step writes, whatever interleaves with it.
THEOREM TypeCorrect == Spec => [](TypeOK /\ RequestHolds /\ StartupHolds)
<1>1. Init => Inv
  BY InitTyped
<1>2. Inv /\ [Next]_vars => Inv'
  BY StepTyped
<1>3. Inv => TypeOK /\ RequestHolds /\ StartupHolds
  BY DEF Inv
<1> QED
  BY <1>1, <1>2, <1>3, PTL DEF Spec

----------------------------------------------------------------------------
(* Enrolment.                                                              *)

Sound == CopiesEnrolled /\ ActiveHasAuthenticator

LEMMA InitSound == Init => Sound
BY DEF Init, Sound, CopiesEnrolled, ActiveHasAuthenticator, Enrolled, Writing, Idle,
   Holders, Fresh

LEMMA StepSound == Inv /\ Sound /\ [Next]_vars => Sound'
<1> SUFFICES ASSUME Inv, Sound, [Next]_vars PROVE Sound'
  OBVIOUS
<1> USE AccountConstants DEF Inv, TypeOK, Names, Usernames, Record, Request, Stages, Idle, Holders, tables, histories, At, Serving, Start, Enter, Finish, RequestHolds, Sound, CopiesEnrolled, ActiveHasAuthenticator, Enrolled, Writing, Fresh
<1>1. CASE UNCHANGED vars
  BY <1>1 DEF vars
<1>2. ASSUME NEW c \in Clients, SigningIn(c) PROVE Sound'
  <2>1. ASSUME NEW u \in Usernames, NEW o \in Offers, LoginLook(c, u, o) PROVE Sound'
    BY <2>1 DEF LoginLook, AfterPassword
  <2>2. CASE LoginOverride(c)
    BY <2>2 DEF LoginOverride
  <2>3. CASE LoginSpend(c)
    <3>1. UNCHANGED account
      BY <2>3 DEF LoginSpend
    <3>2. \A d \in Clients : req'[d].stage \in Writing =>
            req[d].stage \in Writing /\ req'[d].copy = req[d].copy
      <4>1. CASE req' = [req EXCEPT ![c].stage = "stamping"]
        BY <2>3, <4>1 DEF LoginSpend
      <4>2. CASE req' = [req EXCEPT ![c] = Idle]
        BY <4>2
      <4> QED
        BY <2>3, <4>1, <4>2 DEF LoginSpend
    <3> QED
      BY <3>1, <3>2
  <2>4. CASE OpenSession(c)
    BY <2>4 DEF OpenSession
  <2> HIDE DEF Inv, Sound
  <2> QED
    BY <1>2, <2>1, <2>2, <2>3, <2>4 DEF SigningIn
<1>3. ASSUME NEW c \in Clients, Enrolling(c) PROVE Sound'
  <2>1. ASSUME NEW u \in Usernames, NEW o \in Offers, BeginEnrolment(c, u, o) PROVE Sound'
    BY <2>1 DEF BeginEnrolment
  <2>2. ASSUME NEW u \in Usernames, CompleteEnrolment(c, u) PROVE Sound'
    BY <2>2 DEF CompleteEnrolment
  <2>3. ASSUME NEW u \in Usernames, ChangePassword(c, u) PROVE Sound'
    BY <2>3 DEF ChangePassword
  <2>4. CASE AddRecoveryCodes(c)
    BY <2>4 DEF AddRecoveryCodes
  <2>5. CASE Write(c)
    <3>1. /\ req[c].stage \in Writing
          /\ req[c].copy # None /\ Enrolled(req[c].copy)
          /\ account' = Updated(req[c].user, req[c].copy)
      BY <2>5 DEF Write
    <3>2. ActiveHasAuthenticator'
      BY <3>1 DEF Updated
    <3>3. \A d \in Clients : req'[d].stage \in Writing =>
            req[d].stage \in Writing /\ req'[d].copy = req[d].copy
      <4>1. CASE \E stage \in Stages : req' = [req EXCEPT ![c].stage = stage]
        BY <3>1, <4>1
      <4>2. CASE req' = [req EXCEPT ![c] = Idle]
        BY <4>2
      <4> QED
        BY <2>5, <4>1, <4>2 DEF Write
    <3> QED
      BY <3>2, <3>3
  <2> HIDE DEF Inv, Sound
  <2> QED
    BY <1>3, <2>1, <2>2, <2>3, <2>4, <2>5 DEF Enrolling
<1>4. ASSUME NEW c \in Clients, Managing(c) PROVE Sound'
  <2>1. ASSUME NEW n \in Names, CreateHuman(c, n) PROVE Sound'
    BY <2>1 DEF CreateHuman
  <2>2. CASE AddOperator(c)
    <3>1. CASE account[req[c].user] = None
      BY <2>2, <3>1 DEF AddOperator
    <3>2. CASE account[req[c].user] # None
      BY <2>2, <3>2 DEF AddOperator
    <3> QED
      BY <3>1, <3>2
  <2>3. CASE ClaimName(c)
    BY <2>3 DEF ClaimName, ClaimUndone
  <2>5. ASSUME NEW u \in Usernames, RemoveLook(c, u) PROVE Sound'
    BY <2>5 DEF RemoveLook
  <2>6. CASE UndoLook(c)
    <3>1. CASE Others(req[c].user) # {}
      BY <2>6, <3>1 DEF UndoLook
    <3>2. CASE Others(req[c].user) = {}
      BY <2>6, <3>2 DEF UndoLook
    <3> QED
      BY <3>1, <3>2
  <2>7. CASE RemoveUser(c)
    BY <2>7 DEF RemoveUser, Deleted
  <2> HIDE DEF Inv, Sound
  <2> QED
    BY <1>4, <2>1, <2>2, <2>3, <2>5, <2>6, <2>7 DEF Managing
<1>5. ASSUME NEW c \in Clients, Abandon(c) PROVE Sound'
  BY <1>5 DEF Abandon
<1>6. ASSUME NEW s \in sessions, EndSession(s) PROVE Sound'
  BY <1>6 DEF EndSession
<1>7. ASSUME NEW u \in Usernames, ResetUser(u) PROVE Sound'
  BY <1>7 DEF ResetUser
<1>8. ASSUME NEW n \in Names, Join(n) PROVE Sound'
  BY <1>8 DEF Join
<1>9. CASE Starting
  <2>1. CASE OpenHouse
    BY <2>1 DEF OpenHouse
  <2>2. ASSUME NEW n \in Names, Adopt(n) PROVE Sound'
    BY <2>2 DEF Adopt, Adopting
  <2>3. ASSUME NEW u \in Legacy, LeaveColliding(u) PROVE Sound'
    BY <2>3 DEF LeaveColliding, Adopting
  <2>4. ASSUME NEW u \in Legacy, MoveCopy(u) PROVE Sound'
    BY <2>4 DEF MoveCopy, Adopting, Collides, MoveNewFirst
  <2>5. CASE MoveDrop
    BY <2>5 DEF MoveDrop, Deleted
  <2>6. ASSUME NEW wipe \in BOOLEAN, BootstrapAdmin(wipe) PROVE Sound'
    BY <2>6 DEF BootstrapAdmin
  <2> HIDE DEF Inv, Sound
  <2> QED
    BY <1>9, <2>1, <2>2, <2>3, <2>4, <2>5, <2>6 DEF Starting
<1>10. CASE Crash
  BY <1>10 DEF Crash
<1> HIDE DEF Inv, Sound
<1> QED
  BY <1>1, <1>2, <1>3, <1>4, <1>5, <1>6, <1>7, <1>8, <1>9, <1>10 DEF Next

----------------------------------------------------------------------------
(* Recovery codes.                                                         *)

LEMMA InitCodes == Init => CodesAccounted
BY AccountConstants DEF Init, CodesAccounted, Issuing, Idle

\* Most steps touch no code: rows go, and nobody starts to issue one.
Quiet ==
    /\ codes' \subseteq codes
    /\ UNCHANGED <<offered, admitted>>
    /\ \A d \in Clients : req'[d].stage \in {"issuing", "coding"} =>
        /\ req[d].stage \in {"issuing", "coding"}
        /\ req'[d].offer = req[d].offer
Touches ==
    \E c \in Clients :
        \/ LoginSpend(c)
        \/ AddRecoveryCodes(c)
        \/ \E u \in Usernames, o \in Offers : BeginEnrolment(c, u, o)

LEMMA StepQuiet == Inv /\ [Next]_vars => Quiet \/ Touches
<1> SUFFICES ASSUME Inv, [Next]_vars PROVE Quiet \/ Touches
  OBVIOUS
<1> USE AccountConstants DEF Inv, TypeOK, Names, Usernames, Record, Request, Stages, Idle, Holders, tables, histories, At, Serving, Start, Enter, Finish, RequestHolds, Quiet
<1>1. CASE UNCHANGED vars
  BY <1>1 DEF vars
<1>2. ASSUME NEW c \in Clients, SigningIn(c) PROVE Quiet \/ Touches
  <2>1. ASSUME NEW u \in Usernames, NEW o \in Offers, LoginLook(c, u, o) PROVE Quiet \/ Touches
    BY <2>1 DEF LoginLook, AfterPassword
  <2>2. CASE LoginOverride(c)
    BY <2>2 DEF LoginOverride
  <2>3. CASE LoginSpend(c)
    BY <2>3 DEF Touches
  <2>4. CASE OpenSession(c)
    BY <2>4 DEF OpenSession
  <2> QED
    BY <1>2, <2>1, <2>2, <2>3, <2>4 DEF SigningIn
<1>3. ASSUME NEW c \in Clients, Enrolling(c) PROVE Quiet \/ Touches
  <2>1. ASSUME NEW u \in Usernames, NEW o \in Offers, BeginEnrolment(c, u, o) PROVE Quiet \/ Touches
    BY <2>1 DEF Touches
  <2>2. ASSUME NEW u \in Usernames, CompleteEnrolment(c, u) PROVE Quiet \/ Touches
    BY <2>2 DEF CompleteEnrolment
  <2>3. ASSUME NEW u \in Usernames, ChangePassword(c, u) PROVE Quiet \/ Touches
    BY <2>3 DEF ChangePassword
  <2>4. CASE AddRecoveryCodes(c)
    BY <2>4 DEF Touches
  <2>5. CASE Write(c)
    <3>1. CASE req[c].stage = "issuing"
      BY <2>5, <3>1 DEF Write
    <3>2. CASE req[c].stage = "changing"
      BY <2>5, <3>2 DEF Write
    <3>3. CASE req[c].stage \in {"stamping", "enabling"}
      BY <2>5, <3>3 DEF Write
    <3> QED
      BY <2>5, <3>1, <3>2, <3>3 DEF Write
  <2> QED
    BY <1>3, <2>1, <2>2, <2>3, <2>4, <2>5 DEF Enrolling
<1>4. ASSUME NEW c \in Clients, Managing(c) PROVE Quiet \/ Touches
  <2>1. ASSUME NEW n \in Names, CreateHuman(c, n) PROVE Quiet \/ Touches
    BY <2>1 DEF CreateHuman
  <2>2. CASE AddOperator(c)
    BY <2>2 DEF AddOperator
  <2>3. CASE ClaimName(c)
    BY <2>3 DEF ClaimName, ClaimUndone
  <2>5. ASSUME NEW u \in Usernames, RemoveLook(c, u) PROVE Quiet \/ Touches
    BY <2>5 DEF RemoveLook
  <2>6. CASE UndoLook(c)
    <3>1. CASE Others(req[c].user) # {}
      BY <2>6, <3>1 DEF UndoLook
    <3>2. CASE Others(req[c].user) = {}
      BY <2>6, <3>2 DEF UndoLook
    <3> QED
      BY <3>1, <3>2
  <2>7. CASE RemoveUser(c)
    BY <2>7 DEF RemoveUser, Deleted
  <2> QED
    BY <1>4, <2>1, <2>2, <2>3, <2>5, <2>6, <2>7 DEF Managing
<1>5. ASSUME NEW c \in Clients, Abandon(c) PROVE Quiet \/ Touches
  BY <1>5 DEF Abandon
<1>6. ASSUME NEW s \in sessions, EndSession(s) PROVE Quiet \/ Touches
  BY <1>6 DEF EndSession
<1>7. ASSUME NEW u \in Usernames, ResetUser(u) PROVE Quiet \/ Touches
  BY <1>7 DEF ResetUser
<1>8. ASSUME NEW n \in Names, Join(n) PROVE Quiet \/ Touches
  BY <1>8 DEF Join
<1>9. CASE Starting
  <2>1. CASE OpenHouse
    BY <2>1 DEF OpenHouse
  <2>2. ASSUME NEW n \in Names, Adopt(n) PROVE Quiet \/ Touches
    BY <2>2 DEF Adopt, Adopting
  <2>3. ASSUME NEW u \in Legacy, LeaveColliding(u) PROVE Quiet \/ Touches
    BY <2>3 DEF LeaveColliding, Adopting
  <2>4. ASSUME NEW u \in Legacy, MoveCopy(u) PROVE Quiet \/ Touches
    BY <2>4 DEF MoveCopy, Adopting, Collides, MoveNewFirst
  <2>5. CASE MoveDrop
    BY <2>5 DEF MoveDrop, Deleted
  <2>6. ASSUME NEW wipe \in BOOLEAN, BootstrapAdmin(wipe) PROVE Quiet \/ Touches
    BY <2>6 DEF BootstrapAdmin
  <2> QED
    BY <1>9, <2>1, <2>2, <2>3, <2>4, <2>5, <2>6 DEF Starting
<1>10. CASE Crash
  BY <1>10 DEF Crash
<1> QED
  BY <1>1, <1>2, <1>3, <1>4, <1>5, <1>6, <1>7, <1>8, <1>9, <1>10 DEF Next

LEMMA QuietKeepsCodes == CodesAccounted /\ Quiet => CodesAccounted'
<1> SUFFICES ASSUME CodesAccounted, Quiet PROVE CodesAccounted'
  OBVIOUS
<1>1. \A d \in Clients, o \in Offers : Issuing(d, o)' => Issuing(d, o)
  BY DEF Quiet, Issuing
<1>2. codes' \subseteq codes /\ offered' = offered /\ admitted' = admitted
  BY DEF Quiet
<1> QED
  BY <1>1, <1>2 DEF CodesAccounted

LEMMA StepCodes == Inv /\ CodesAccounted /\ [Next]_vars => CodesAccounted'
<1> SUFFICES ASSUME Inv, CodesAccounted, [Next]_vars PROVE CodesAccounted'
  OBVIOUS
<1>1. CASE Quiet
  BY <1>1, QuietKeepsCodes
<1>2. ASSUME NEW c \in Clients, LoginSpend(c) PROVE CodesAccounted'
  <2> DEFINE o == req[c].offer
  <2>1. /\ c \in Clients /\ req[c].stage = "spending"
        /\ req \in [Clients -> Request]
        /\ req[c].user \in Usernames /\ o \in Offers
        /\ admitted \in [Offers -> Nat]
    BY <1>2 DEF LoginSpend, At, Inv, TypeOK, RequestHolds, Request
  <2>2. CASE <<req[c].user, o>> \notin codes
    <3>1. Quiet
      BY <1>2, <2>1, <2>2 DEF LoginSpend, Finish, Idle, Quiet
    <3> QED
      BY <3>1, QuietKeepsCodes
  <2>3. CASE <<req[c].user, o>> \in codes
    <3>1. /\ codes' = codes \ {<<req[c].user, o>>}
          /\ admitted' = [admitted EXCEPT ![o] = @ + 1]
          /\ offered' = offered
          /\ req' = [req EXCEPT ![c].stage = "stamping"]
      BY <1>2, <2>3 DEF LoginSpend, CodeUsed, Enter
    <3>2. \A d \in Clients, x \in Offers : Issuing(d, x)' => Issuing(d, x)
      BY <2>1, <3>1 DEF Issuing, Request
    <3>3. \A u \in Usernames : <<u, o>> \notin codes'
      BY <2>1, <2>3, <3>1 DEF CodesAccounted
    <3>4. o \in offered /\ \A d \in Clients : ~ Issuing(d, o)
      BY <2>1, <2>3 DEF CodesAccounted
    <3>5. \A x \in Offers \ {o} : admitted'[x] = admitted[x]
      BY <2>1, <3>1
    <3>6. codes' \subseteq codes
      BY <3>1
    <3> QED
      BY <2>1, <3>1, <3>2, <3>3, <3>4, <3>5, <3>6 DEF CodesAccounted
  <2> QED
    BY <2>2, <2>3
<1>3. ASSUME NEW c \in Clients, AddRecoveryCodes(c) PROVE CodesAccounted'
  <2>0. PICK u \in Usernames, o \in Offers : u = req[c].user /\ o = req[c].offer
    BY <1>3 DEF AddRecoveryCodes, At, Inv, TypeOK, RequestHolds, Request
  <2>1. Issuing(c, o) /\ req \in [Clients -> Request]
    BY <1>3, <2>0 DEF AddRecoveryCodes, At, Inv, TypeOK, Issuing
  <2>2. /\ codes' = {k \in codes : k[1] # u} \cup {<<u, o>>}
        /\ offered' = offered
        /\ admitted' = admitted
        /\ req' = [req EXCEPT ![c] = Idle]
    BY <1>3, <2>0 DEF AddRecoveryCodes, Finish, histories
  <2>3. \A d \in Clients, x \in Offers : Issuing(d, x)' => Issuing(d, x) /\ d # c
    BY <2>1, <2>2 DEF Issuing, Idle
  <2>4. o \in offered /\ admitted[o] = 0 /\ \A v \in Usernames : <<v, o>> \notin codes
    BY <2>1 DEF CodesAccounted
  <2>5. \A d \in Clients : ~ Issuing(d, o)'
    BY <2>1, <2>3 DEF CodesAccounted
  <2>6. \A v \in Usernames, x \in Offers :
            <<v, x>> \in codes' => <<v, x>> \in codes \/ (v = u /\ x = o)
    BY <2>2
  <2> QED
    BY <2>1, <2>2, <2>3, <2>4, <2>5, <2>6 DEF CodesAccounted
<1>4. ASSUME NEW c \in Clients, NEW u \in Usernames, NEW o \in Offers, BeginEnrolment(c, u, o)
      PROVE  CodesAccounted'
  <2>1. /\ o \notin offered
        /\ offered' = offered \cup {o}
        /\ codes' = codes
        /\ admitted' = admitted
        /\ req \in [Clients -> Request]
    BY <1>4 DEF BeginEnrolment, Inv, TypeOK, tables
  <2>2. /\ req'[c].offer = o
        /\ \A d \in Clients \ {c} : req'[d] = req[d]
    BY <1>4, <2>1 DEF BeginEnrolment, Start
  <2>3. /\ admitted[o] = 0
        /\ \A v \in Usernames : <<v, o>> \notin codes
        /\ \A d \in Clients : ~ Issuing(d, o)
    BY <2>1 DEF CodesAccounted
  <2>4. \A d \in Clients, x \in Offers :
            Issuing(d, x)' => IF x = o THEN d = c ELSE d # c /\ Issuing(d, x)
    BY <2>2, <2>3 DEF Issuing
  <2> QED
    BY <2>1, <2>3, <2>4 DEF CodesAccounted
<1> QED
  BY <1>1, <1>2, <1>3, <1>4, StepQuiet DEF Touches

----------------------------------------------------------------------------
(* Mailboxes.                                                              *)

LEMMA InitMailboxes == Init => MailboxesKept
BY AccountConstants DEF Init, MailboxesKept, Names

\* A step of a request that is no invitation, and brings no account.
LEMMA OthersKeepMailboxes ==
    ASSUME MailboxesKept, UNCHANGED <<actors, boot, half>>, Holders' \subseteq Holders,
           NEW c \in Clients, req[c].stage \notin {"claiming", "undoing", "withdrawing"},
           \A d \in Clients \ {c} : req'[d] = req[d]
    PROVE  MailboxesKept'
<1>1. Unfinished \subseteq Unfinished'
  BY DEF Unfinished
<1> QED
  BY <1>1 DEF MailboxesKept, Serving

LEMMA StepMailboxes == Inv /\ MailboxesKept /\ [Next]_vars => MailboxesKept'
<1> SUFFICES ASSUME Inv, MailboxesKept, [Next]_vars PROVE MailboxesKept'
  OBVIOUS
<1> USE AccountConstants DEF Inv, TypeOK, Names, Usernames, Record, Request, Stages, Idle, Holders, tables, histories, At, Serving, Start, Enter, Finish, RequestHolds, StartupHolds, MailboxesKept, Unfinished
<1>1. CASE UNCHANGED vars
  BY <1>1 DEF vars
<1>2. ASSUME NEW c \in Clients, SigningIn(c) PROVE MailboxesKept'
  <2>1. ASSUME NEW u \in Usernames, NEW o \in Offers, LoginLook(c, u, o) PROVE MailboxesKept'
    <3>1. UNCHANGED <<account, actors, boot, half>>
      BY <2>1 DEF LoginLook, AfterPassword
    <3>2. req[c].stage = "idle" /\ \A d \in Clients \ {c} : req'[d] = req[d]
      BY <2>1 DEF LoginLook, AfterPassword
    <3> QED
      BY <3>1, <3>2, OthersKeepMailboxes
  <2>2. CASE LoginOverride(c)
    BY <2>2 DEF LoginOverride
  <2>3. CASE LoginSpend(c)
    <3>1. UNCHANGED <<account, actors, boot, half>>
      BY <2>3 DEF LoginSpend
    <3>2. \A d \in Clients \ {c} : req'[d] = req[d]
      BY <2>3 DEF LoginSpend
    <3>3. req[c].stage = "spending"
      BY <2>3 DEF LoginSpend
    <3> QED
      BY <3>1, <3>2, <3>3, OthersKeepMailboxes
  <2>4. CASE OpenSession(c)
    BY <2>4 DEF OpenSession
  <2> HIDE DEF Inv, MailboxesKept
  <2> QED
    BY <1>2, <2>1, <2>2, <2>3, <2>4 DEF SigningIn
<1>3. ASSUME NEW c \in Clients, Enrolling(c) PROVE MailboxesKept'
  <2>1. ASSUME NEW u \in Usernames, NEW o \in Offers, BeginEnrolment(c, u, o) PROVE MailboxesKept'
    <3>1. UNCHANGED <<account, actors, boot, half>>
      BY <2>1 DEF BeginEnrolment
    <3>2. req[c].stage = "idle" /\ \A d \in Clients \ {c} : req'[d] = req[d]
      BY <2>1 DEF BeginEnrolment
    <3> QED
      BY <3>1, <3>2, OthersKeepMailboxes
  <2>2. ASSUME NEW u \in Usernames, CompleteEnrolment(c, u) PROVE MailboxesKept'
    <3>1. UNCHANGED <<account, actors, boot, half>>
      BY <2>2 DEF CompleteEnrolment
    <3>2. req[c].stage = "idle" /\ \A d \in Clients \ {c} : req'[d] = req[d]
      BY <2>2 DEF CompleteEnrolment
    <3> QED
      BY <3>1, <3>2, OthersKeepMailboxes
  <2>3. ASSUME NEW u \in Usernames, ChangePassword(c, u) PROVE MailboxesKept'
    <3>1. UNCHANGED <<account, actors, boot, half>>
      BY <2>3 DEF ChangePassword
    <3>2. req[c].stage = "idle" /\ \A d \in Clients \ {c} : req'[d] = req[d]
      BY <2>3 DEF ChangePassword
    <3> QED
      BY <3>1, <3>2, OthersKeepMailboxes
  <2>4. CASE AddRecoveryCodes(c)
    BY <2>4 DEF AddRecoveryCodes
  <2>5. CASE Write(c)
    <3>1. UNCHANGED <<actors, boot, half>>
      BY <2>5 DEF Write
    <3>2. \A d \in Clients \ {c} : req'[d] = req[d]
      BY <2>5 DEF Write
    <3>3. req[c].stage \in {"stamping", "issuing", "enabling", "changing"}
      BY <2>5 DEF Write
    <3>4. Holders' \subseteq Holders
      BY <2>5 DEF Write, Updated
    <3> QED
      BY <3>1, <3>2, <3>3, <3>4, OthersKeepMailboxes
  <2> HIDE DEF Inv, MailboxesKept
  <2> QED
    BY <1>3, <2>1, <2>2, <2>3, <2>4, <2>5 DEF Enrolling
<1>4. ASSUME NEW c \in Clients, Managing(c) PROVE MailboxesKept'
  <2>1. ASSUME NEW n \in Names, CreateHuman(c, n) PROVE MailboxesKept'
    <3>1. UNCHANGED <<account, actors, boot, half>>
      BY <2>1 DEF CreateHuman
    <3>2. req[c].stage = "idle" /\ \A d \in Clients \ {c} : req'[d] = req[d]
      BY <2>1 DEF CreateHuman
    <3> QED
      BY <3>1, <3>2, OthersKeepMailboxes
  <2>2. CASE AddOperator(c)
    <3>1. CASE account[req[c].user] = None
      <4>1. Holders' = Holders \cup {req[c].user} \/ Holders' = Holders
        BY <2>2, <3>1 DEF AddOperator
      <4>2. req[c].user \in Unfinished'
        BY <2>2, <3>1 DEF AddOperator
      <4>3. Unfinished \subseteq Unfinished'
        <5>1. \A d \in Clients :
                req[d].stage \in {"claiming", "undoing", "withdrawing"} => req'[d] = req[d]
          BY <2>2, <3>1 DEF AddOperator
        <5> QED
          BY <5>1
      <4>4. UNCHANGED <<actors, boot, half>> /\ Serving
        BY <2>2 DEF AddOperator
      <4> HIDE DEF Unfinished, Holders
      <4> QED
        BY <4>1, <4>2, <4>3, <4>4
    <3>2. CASE account[req[c].user] # None
      BY <2>2, <3>2 DEF AddOperator
    <3> QED
      BY <3>1, <3>2
  <2>3. CASE ClaimName(c)
    <3>1. CASE actors[req[c].user] = None
      <4>1. PICK n \in Names : n = req[c].user
        BY <2>3 DEF ClaimName
      <4>2. /\ actors' = [actors EXCEPT ![n] = "person"]
            /\ req' = [req EXCEPT ![c] = Idle]
            /\ UNCHANGED <<account, boot, half>>
        BY <2>3, <3>1, <4>1 DEF ClaimName
      <4>3. /\ \A m \in Names \ {n} : actors'[m] = actors[m]
            /\ actors'[n] = "person"
        BY <4>2
      <4>4. Unfinished \subseteq Unfinished' \cup {n}
        BY <4>1, <4>2
      <4>5. MailboxesKept
        OBVIOUS
      <4> HIDE DEF Unfinished, MailboxesKept
      <4> QED
        BY <4>2, <4>3, <4>4, <4>5 DEF MailboxesKept
    <3>2. CASE actors[req[c].user] # None
      <4>1. /\ req' = [req EXCEPT ![c].stage = "undoing"]
            /\ UNCHANGED <<account, actors, boot, half>>
            /\ req[c].stage = "claiming"
        BY <2>3, <3>2 DEF ClaimName, ClaimUndone
      <4>2. Unfinished' = Unfinished
        BY <4>1
      <4>3. MailboxesKept
        OBVIOUS
      <4> HIDE DEF Unfinished, MailboxesKept
      <4> QED
        BY <4>1, <4>2, <4>3 DEF MailboxesKept
    <3> QED
      BY <3>1, <3>2
  <2>5. ASSUME NEW u \in Usernames, RemoveLook(c, u) PROVE MailboxesKept'
    <3>1. UNCHANGED <<account, actors, boot, half>>
      BY <2>5 DEF RemoveLook
    <3>2. req[c].stage = "idle" /\ \A d \in Clients \ {c} : req'[d] = req[d]
      BY <2>5 DEF RemoveLook
    <3> QED
      BY <3>1, <3>2, OthersKeepMailboxes
  <2>6. CASE UndoLook(c)
    <3>1. CASE Others(req[c].user) # {}
      BY <2>6, <3>1 DEF UndoLook
    <3>2. CASE Others(req[c].user) = {}
      BY <2>6, <3>2 DEF UndoLook
    <3> QED
      BY <3>1, <3>2
  <2>7. CASE RemoveUser(c)
    BY <2>7 DEF RemoveUser, Deleted
  <2> HIDE DEF Inv, MailboxesKept
  <2> QED
    BY <1>4, <2>1, <2>2, <2>3, <2>5, <2>6, <2>7 DEF Managing
<1>5. ASSUME NEW c \in Clients, Abandon(c) PROVE MailboxesKept'
  BY <1>5 DEF Abandon
<1>6. ASSUME NEW s \in sessions, EndSession(s) PROVE MailboxesKept'
  BY <1>6 DEF EndSession
<1>7. ASSUME NEW u \in Usernames, ResetUser(u) PROVE MailboxesKept'
  BY <1>7 DEF ResetUser
<1>8. ASSUME NEW n \in Names, Join(n) PROVE MailboxesKept'
  <2>1. /\ actors[n] = None
        /\ n # Admin
        /\ actors' = [actors EXCEPT ![n] = "agent"]
        /\ UNCHANGED <<account, boot, req, half>>
        /\ Serving
    BY <1>8 DEF Join
  <2>2. \A m \in Names : actors[m] \in {"person", "service"} => actors'[m] = actors[m]
    BY <2>1
  <2> QED
    BY <2>1, <2>2
<1>9. CASE Starting
  <2>1. CASE OpenHouse
    <3>1. /\ actors' = [actors EXCEPT ![Admin] = IF @ = None THEN "service" ELSE @]
          /\ boot' = [stage |-> "adopting", todo |-> Holders, moved |-> None]
          /\ UNCHANGED account
      BY <2>1 DEF OpenHouse
    <3>2. actors'[Admin] \in {"person", "service"}
      BY <3>1
    <3> QED
      BY <3>1, <3>2
  <2>2. ASSUME NEW n \in Names, Adopt(n) PROVE MailboxesKept'
    BY <2>2 DEF Adopt, Adopting
  <2>3. ASSUME NEW u \in Legacy, LeaveColliding(u) PROVE MailboxesKept'
    BY <2>3 DEF LeaveColliding, Adopting
  <2>4. ASSUME NEW u \in Legacy, MoveCopy(u) PROVE MailboxesKept'
    BY <2>4 DEF MoveCopy, Adopting, Collides, MoveNewFirst
  <2>5. CASE MoveDrop
    BY <2>5 DEF MoveDrop, Deleted
  <2>6. ASSUME NEW wipe \in BOOLEAN, BootstrapAdmin(wipe) PROVE MailboxesKept'
    BY <2>6 DEF BootstrapAdmin
  <2> HIDE DEF Inv, MailboxesKept
  <2> QED
    BY <1>9, <2>1, <2>2, <2>3, <2>4, <2>5, <2>6 DEF Starting
<1>10. CASE Crash
  BY <1>10 DEF Crash
<1> HIDE DEF Inv, MailboxesKept
<1> QED
  BY <1>1, <1>2, <1>3, <1>4, <1>5, <1>6, <1>7, <1>8, <1>9, <1>10 DEF Next

----------------------------------------------------------------------------
(* What follows.                                                           *)

LEMMA InitAll == Init => IInv /\ Sound
BY InitTyped, InitSound, InitCodes, InitMailboxes DEF IInv, Sound

LEMMA StepAll == IInv /\ Sound /\ [Next]_vars => (IInv /\ Sound)'
BY StepTyped, StepSound, StepCodes, StepMailboxes DEF IInv, Sound

\* No interleaving of logins, enrolments, rotations and resets, each writing
\* back a row it read before an await, leaves an account that is set up and
\* has no authenticator.
THEOREM ActiveAccountsAreEnrolled == Spec => []ActiveHasAuthenticator
<1>1. IInv /\ Sound => ActiveHasAuthenticator
  BY DEF Sound
<1> QED
  BY <1>1, InitAll, StepAll, PTL DEF Spec

\* A recovery code lets one login in, for any number of clients and offers.
\* The step that spends it finds it unspent; CodesAccounted says that then
\* nobody was let in by it before.
THEOREM CodesAreSpentOnce == Spec => []CodeAdmitsOnce
<1> DEFINE Once == IInv /\ Sound /\ CodeAdmitsOnce
<1>1. Init => Once
  <2>1. Init => CodeAdmitsOnce
    BY DEF Init, CodeAdmitsOnce
  <2> QED
    BY <2>1, InitAll
<1>2. Once /\ [Next]_vars => Once'
  <2> SUFFICES ASSUME Once, [Next]_vars PROVE CodeAdmitsOnce'
    BY StepAll
  <2>1. CASE Quiet
    BY <2>1 DEF Quiet, CodeAdmitsOnce
  <2>2. ASSUME NEW c \in Clients, LoginSpend(c) PROVE CodeAdmitsOnce'
    <3>1. PICK u \in Usernames, o \in Offers : u = req[c].user /\ o = req[c].offer
      BY <2>2 DEF LoginSpend, At, IInv, Inv, TypeOK, RequestHolds, Request
    <3>2. CASE <<u, o>> \in codes
      <4>1. admitted[o] = 0
        BY <3>2 DEF IInv, CodesAccounted
      <4>2. admitted' = [admitted EXCEPT ![o] = @ + 1]
        BY <2>2, <3>1, <3>2 DEF LoginSpend
      <4>3. admitted \in [Offers -> Nat]
        BY DEF IInv, Inv, TypeOK
      <4> QED
        BY <4>1, <4>2, <4>3 DEF CodeAdmitsOnce
    <3>3. CASE <<u, o>> \notin codes
      BY <2>2, <3>1, <3>3 DEF LoginSpend, CodeAdmitsOnce
    <3> QED
      BY <3>2, <3>3
  <2>3. ASSUME NEW c \in Clients, AddRecoveryCodes(c) PROVE CodeAdmitsOnce'
    BY <2>3 DEF AddRecoveryCodes, histories, CodeAdmitsOnce
  <2>4. ASSUME NEW c \in Clients, NEW u \in Usernames, NEW o \in Offers,
               BeginEnrolment(c, u, o)
        PROVE  CodeAdmitsOnce'
    BY <2>4 DEF BeginEnrolment, CodeAdmitsOnce
  <2> QED
    BY <2>1, <2>2, <2>3, <2>4, StepQuiet DEF Touches, IInv
<1>3. Once => CodeAdmitsOnce
  OBVIOUS
<1> QED
  BY <1>1, <1>2, <1>3, PTL DEF Spec

\* While the hub serves, every account whose name can have a mailbox has one,
\* and no agent's, but for invitations under way or broken off: whatever
\* invitations, joins and removals race, and wherever a startup was cut off.
THEOREM MailboxesAreOwned == Spec => []HumanHasMailbox
<1>1. IInv /\ Sound => HumanHasMailbox
  BY DEF IInv, MailboxesKept, HumanHasMailbox, Serving
<1> QED
  BY <1>1, InitAll, StepAll, PTL DEF Spec

----------------------------------------------------------------------------
(* Steps.                                                                  *)

\* The steps that write an account's row.
LEMMA AccountWriters ==
    [Next]_vars =>
        \/ UNCHANGED account
        \/ \E c \in Clients : Write(c) \/ AddOperator(c) \/ RemoveUser(c)
        \/ \E u \in Usernames : ResetUser(u)
        \/ \E u \in Legacy : MoveCopy(u)
        \/ MoveDrop
        \/ \E wipe \in BOOLEAN : BootstrapAdmin(wipe)
<1> SUFFICES ASSUME [Next]_vars, ~ UNCHANGED account
             PROVE  \/ \E c \in Clients : Write(c) \/ AddOperator(c) \/ RemoveUser(c)
                    \/ \E u \in Usernames : ResetUser(u)
                    \/ \E u \in Legacy : MoveCopy(u)
                    \/ MoveDrop
                    \/ \E wipe \in BOOLEAN : BootstrapAdmin(wipe)
  OBVIOUS
<1> USE DEF tables, histories
<1>1. ~ UNCHANGED vars
  BY DEF vars
<1>2. ASSUME NEW c \in Clients, SigningIn(c) PROVE FALSE
  BY <1>2 DEF SigningIn, LoginLook, LoginOverride, LoginSpend, OpenSession
<1>3. ASSUME NEW c \in Clients, Enrolling(c) PROVE Write(c)
  BY <1>3 DEF Enrolling, BeginEnrolment, CompleteEnrolment, ChangePassword, AddRecoveryCodes
<1>4. ASSUME NEW c \in Clients, Managing(c) PROVE AddOperator(c) \/ RemoveUser(c)
  BY <1>4 DEF Managing, CreateHuman, ClaimName, RemoveLook, UndoLook
<1>5. CASE Starting
  BY <1>5 DEF Starting, OpenHouse, Adopt, LeaveColliding
<1>6. ASSUME NEW c \in Clients, Abandon(c) PROVE FALSE
  BY <1>6 DEF Abandon
<1>7. ASSUME NEW s \in sessions, EndSession(s) PROVE FALSE
  BY <1>7 DEF EndSession
<1>8. ASSUME NEW n \in Names, Join(n) PROVE FALSE
  BY <1>8 DEF Join
<1>9. ~ Crash
  BY DEF Crash
<1> QED
  BY <1>1, <1>2, <1>3, <1>4, <1>5, <1>6, <1>7, <1>8, <1>9 DEF Next

\* A late write never brings a removed account back: put_user updates the row
\* that is there or none, so that while the hub serves an account appears only
\* as an invitation.
THEOREM RemovalIsFinal == Spec => RemovedStaysGone
<1> DEFINE Gone == Serving => \A u \in Usernames :
                account[u] = None => account'[u] \in {None, Fresh}
<1>1. Inv /\ [Next]_vars => Gone
  <2> SUFFICES ASSUME Inv, [Next]_vars, Serving, NEW u \in Usernames, account[u] = None
               PROVE  account'[u] \in {None, Fresh}
    OBVIOUS
  <2>1. account \in [Usernames -> Record \cup {None}] /\ boot.stage = "serving"
    BY DEF Inv, TypeOK, Serving
  <2>2. CASE UNCHANGED account
    BY <2>2
  <2>3. ASSUME NEW c \in Clients, Write(c) PROVE account'[u] \in {None, Fresh}
    BY <2>1, <2>3 DEF Write, Updated
  <2>4. ASSUME NEW c \in Clients, AddOperator(c) PROVE account'[u] \in {None, Fresh}
    BY <2>1, <2>4 DEF AddOperator
  <2>5. ASSUME NEW c \in Clients, RemoveUser(c) PROVE account'[u] \in {None, Fresh}
    BY <2>1, <2>5 DEF RemoveUser, Deleted
  <2>6. ASSUME NEW v \in Usernames, ResetUser(v) PROVE account'[u] \in {None, Fresh}
    BY <2>1, <2>6 DEF ResetUser
  <2>7. /\ ~ MoveDrop
        /\ \A v \in Legacy : ~ MoveCopy(v)
        /\ \A wipe \in BOOLEAN : ~ BootstrapAdmin(wipe)
    BY <2>1 DEF MoveDrop, MoveCopy, Adopting, BootstrapAdmin
  <2> QED
    BY <2>2, <2>3, <2>4, <2>5, <2>6, <2>7, AccountWriters
<1>2. Inv /\ [Next]_vars => Inv'
  BY StepTyped
<1> QED
  BY <1>1, <1>2, InitTyped, PTL DEF Spec, RemovedStaysGone

\* A startup that is cut off at any step of a rename, any number of times, has
\* every row it found under one name or another.
THEOREM RenamesKeepEveryone == Spec => RenameLosesNobody
<1> DEFINE Kept == boot.stage = "adopting" /\ boot'.stage # "serving" =>
                \A u \in Holders : \E v \in Usernames : account'[v] = account[u]
<1>1. Inv /\ [Next]_vars => Kept
  <2> SUFFICES ASSUME Inv, [Next]_vars, boot.stage = "adopting", boot'.stage # "serving",
                      NEW u \in Holders
               PROVE  \E v \in Usernames : account'[v] = account[u]
    OBVIOUS
  <2>1. /\ account \in [Usernames -> Record \cup {None}]
        /\ u \in Usernames /\ account[u] # None
        /\ ~ Serving
        /\ boot.moved \in Legacy \cup {None}
        /\ Usable \in [Legacy -> Names]
        /\ Names \cap Legacy = {}
        /\ Usernames = Names \cup Legacy
    BY AccountConstants DEF Inv, TypeOK, Serving, Holders, Usernames
  <2>2. CASE UNCHANGED account
    BY <2>1, <2>2
  <2>3. ASSUME NEW w \in Legacy, MoveCopy(w) PROVE account'[u] = account[u]
    BY <2>1, <2>3 DEF MoveCopy, MoveNewFirst, Collides
  <2>4. CASE MoveDrop
    <3>1. /\ boot.moved \in Legacy
          /\ account[Usable[boot.moved]] = account[boot.moved]
      BY <2>1, <2>4 DEF MoveDrop, Inv, StartupHolds
    <3>2. account' = [account EXCEPT ![boot.moved] = None]
      BY <2>4 DEF MoveDrop, Deleted
    <3>3. CASE u = boot.moved
      BY <2>1, <3>1, <3>2, <3>3
    <3>4. CASE u # boot.moved
      BY <2>1, <3>2, <3>4
    <3> QED
      BY <3>3, <3>4
  <2>5. /\ \A c \in Clients : ~ (Write(c) \/ AddOperator(c) \/ RemoveUser(c))
        /\ \A v \in Usernames : ~ ResetUser(v)
        /\ \A wipe \in BOOLEAN : ~ BootstrapAdmin(wipe)
    BY <2>1 DEF Write, AddOperator, RemoveUser, At, ResetUser, BootstrapAdmin, Inv, TypeOK
  <2> QED
    BY <2>1, <2>2, <2>3, <2>4, <2>5, AccountWriters
<1>2. Inv /\ [Next]_vars => Inv'
  BY StepTyped
<1> QED
  BY <1>1, <1>2, InitTyped, PTL DEF Spec, RenameLosesNobody
=============================================================================
