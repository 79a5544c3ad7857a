--------------------------- MODULE MailboxProofs ---------------------------
(* Theorems about Mailbox, for every value of its constants.               *)
EXTENDS Mailbox, RulesProofs

USE MailboxConstants

----------------------------------------------------------------------------
(* The helpers.                                                            *)

\* Whatever is addressed, a send reaches actors who are here, the sender
\* itself, and the remote recipients it named.
LEMMA ReachedType ==
    ASSUME TypeOK, NEW by \in Authors,
           NEW aimed \in SUBSET (Names \cup Groups \cup {Everyone} \cup Remotes)
    PROVE  Reached(aimed, by) \subseteq DOMAIN profile \cup {by} \cup (aimed \cap Remotes)
  <1>1. ResolveAudience(aimed \ Remotes, profile) \subseteq DOMAIN profile
    BY DEF ResolveAudience, ResolveName, Members
  <1> QED  BY <1>1 DEF Reached, NamedSelf

LEMMA IdleType == Idle \in Request /\ Idle.stage = "idle"
  BY DEF Idle, Request, Stages

----------------------------------------------------------------------------
(* Type correctness.  A retraction writes back the record it read, so the  *)
(* types of what is stored rest on what requests hold: PendingOK is the    *)
(* strengthening.                                                          *)

TypeInv == TypeOK /\ PendingOK

LEMMA TypeInit == Init => TypeInv
  BY IdleType DEF Init, TypeInv, TypeOK, PendingOK, Asleep, Idle

\* A request of the right type that replaces one client's.
LEMMA RequestType ==
    ASSUME TypeInv, NEW c \in Clients, NEW r \in Request,
           req' = [req EXCEPT ![c] = r],
           r.stage \in {"store", "compose"} => r.by \in Authors,
           r.stage = "mark" => r.by \in Names /\ r.target \in Ids,
           r.stage = "retract" => /\ r.by \in Names /\ r.target \in DOMAIN sent'
                                  /\ r.copy \in Message,
           DOMAIN sent \subseteq DOMAIN sent'
    PROVE  req' \in [Clients -> Request] /\ PendingOK'
  BY DEF TypeInv, TypeOK, PendingOK

LEMMA ResolveType ==
    ASSUME TypeInv, NEW c \in Clients, NEW by \in Authors,
           NEW aimed \in SUBSET (Names \cup Groups \cup {Everyone} \cup Remotes),
           NEW parent \in Ids \cup {None}, NEW target \in Ids \cup {None},
           Resolve(c, by, aimed, parent, target),
           UNCHANGED <<profile, objects, reads, age, sweep, sent, listed>>
    PROVE  TypeInv'
  <1> DEFINE r == [Idle EXCEPT !.stage = "store", !.by = by, !.target = target,
                               !.to = Reached(aimed, by),
                               !.parent = IF MayAttachTo(objects, by, parent, profile)
                                          THEN parent ELSE None]
  <1>1. Reached(aimed, by) \in SUBSET Authors
    BY ReachedType DEF Authors, TypeInv, TypeOK
  <1>2. r \in Request /\ r.stage = "store" /\ r.by = by
    BY <1>1 DEF Idle, Request, Stages
  <1>3. req' = [req EXCEPT ![c] = r]
    BY DEF Resolve
  <1>4. req' \in [Clients -> Request] /\ PendingOK'
    BY <1>2, <1>3, RequestType
  <1> QED  BY <1>4 DEF TypeInv, TypeOK

LEMMA LookType ==
    ASSUME TypeInv, NEW c \in Clients, NEW reader \in Authors, NEW m \in Ids,
           Look(c, reader, m),
           UNCHANGED <<profile, objects, reads, age, sweep, sent, listed>>
    PROVE  TypeInv'
  <1> DEFINE shown == ShownParent(objects, objects[m], reader, profile)
             r == [Idle EXCEPT !.stage = "mark", !.by = reader, !.target = m,
                               !.parent = shown]
  <1>1. reader \in Names
    BY DEF Look, Visible, TypeInv, TypeOK
  <1>2. shown \in Ids \cup {None}
    BY DEF ShownParent, MayAttachTo, TypeInv, TypeOK
  <1>3. r \in Request /\ r.stage = "mark" /\ r.by = reader /\ r.target = m
    BY <1>2 DEF Idle, Request, Stages
  <1>4. req' = [req EXCEPT ![c] = r]
    BY DEF Look
  <1>5. req' \in [Clients -> Request] /\ PendingOK'
    BY <1>1, <1>3, <1>4, RequestType
  <1> QED  BY <1>5 DEF TypeInv, TypeOK

\* The request of one client ends; nothing else it touches loses its type.
LEMMA IdleAgain ==
    ASSUME TypeInv, NEW c \in Clients, req' = [req EXCEPT ![c] = Idle],
           DOMAIN sent \subseteq DOMAIN sent'
    PROVE  req' \in [Clients -> Request] /\ PendingOK'
  BY IdleType, RequestType

LEMMA TypeNext == TypeInv /\ [Next]_vars => TypeInv'
  <1> SUFFICES ASSUME TypeInv, [Next]_vars PROVE TypeInv'
    OBVIOUS
  <1>1. ASSUME NEW a \in Names, Join(a) PROVE TypeInv'
    <2>1. DOMAIN profile' \subseteq Names /\ profile' \in [DOMAIN profile' -> SUBSET Groups]
      BY <1>1 DEF Join, Put, TypeInv, TypeOK
    <2> QED  BY <1>1, <2>1 DEF Join, TypeInv, TypeOK, PendingOK
  <1>2. ASSUME NEW a \in Names, NEW groups \in SUBSET Groups, UpdateProfile(a, groups)
        PROVE TypeInv'
    <2>1. DOMAIN profile' \subseteq Names /\ profile' \in [DOMAIN profile' -> SUBSET Groups]
      BY <1>2 DEF UpdateProfile, Put, TypeInv, TypeOK
    <2> QED  BY <1>2, <2>1 DEF UpdateProfile, TypeInv, TypeOK, PendingOK
  <1>3. ASSUME NEW c \in Clients, SendLook(c) PROVE TypeInv'
    BY <1>3, ResolveType DEF SendLook
  <1>4. ASSUME NEW c \in Clients, SendStore(c) PROVE TypeInv'
    <2> DEFINE obj == [from |-> req[c].by, to |-> req[c].to,
                       parent |-> req[c].parent, retracted |-> None]
    <2>1. obj \in Message
      BY <1>4 DEF SendStore, TypeInv, TypeOK, PendingOK, Message, Request
    <2>2. PICK m \in Ids \ DOMAIN sent : /\ objects' = Put(objects, m, obj)
                                         /\ sent' = Put(sent, m, obj)
                                         /\ age' = [age EXCEPT ![m] = 0]
      BY <1>4 DEF SendStore
    <2>3. /\ objects' \in [DOMAIN objects' -> Message]
          /\ DOMAIN objects' = DOMAIN objects \cup {m}
          /\ sent' \in [DOMAIN sent' -> Message]
          /\ DOMAIN sent' = DOMAIN sent \cup {m}
      BY <2>1, <2>2 DEF Put, TypeInv, TypeOK
    <2>4. age' \in [Ids -> 0 .. Retention + 1]
      BY <2>2 DEF TypeInv, TypeOK
    <2>5. CASE req[c].target = None
      <3>1. req' \in [Clients -> Request] /\ PendingOK'
        BY <1>4, <2>3, <2>5, IdleAgain DEF SendStore
      <3> QED  BY <1>4, <2>3, <2>4, <3>1 DEF SendStore, TypeInv, TypeOK
    <2>6. CASE req[c].target # None
      <3> DEFINE r == [Idle EXCEPT !.stage = "answered", !.by = req[c].by,
                                   !.target = req[c].target]
      <3>1. r \in Request /\ r.stage = "answered"
        BY DEF TypeInv, TypeOK, Request, Stages, Idle
      <3>2. req' = [req EXCEPT ![c] = r]
        BY <1>4, <2>6 DEF SendStore
      <3>3. req' \in [Clients -> Request] /\ PendingOK'
        BY <2>3, <3>1, <3>2, RequestType
      <3> QED  BY <1>4, <2>3, <2>4, <3>3 DEF SendStore, TypeInv, TypeOK
    <2> QED  BY <2>5, <2>6
  <1>5. ASSUME NEW c \in Clients, ReadLook(c) PROVE TypeInv'
    BY <1>5, LookType DEF ReadLook, Authors
  <1>6. ASSUME NEW c \in Clients, MarkRead(c) PROVE TypeInv'
    <2>1. req' \in [Clients -> Request] /\ PendingOK'
      BY <1>6, IdleAgain DEF MarkRead
    <2>2. reads' \subseteq Ids \X Names
      BY <1>6 DEF MarkRead, Acknowledged, TypeInv, TypeOK, PendingOK
    <2> QED  BY <1>6, <2>1, <2>2 DEF MarkRead, TypeInv, TypeOK
  <1>7. ASSUME NEW c \in Clients, ReplyLook(c) PROVE TypeInv'
    <2>1. PICK reader \in Names, m \in Ids :
             /\ Visible(m, reader)
             /\ req' = [req EXCEPT ![c] =
                          [Idle EXCEPT !.stage = "compose", !.by = reader, !.target = m,
                                       !.to = {objects[m].from}]]
      BY <1>7 DEF ReplyLook
    <2> DEFINE r == [Idle EXCEPT !.stage = "compose", !.by = reader, !.target = m,
                                 !.to = {objects[m].from}]
    <2>2. objects[m].from \in Authors
      BY <2>1 DEF Visible, TypeInv, TypeOK, Message
    <2>3. r \in Request /\ r.stage = "compose" /\ r.by \in Authors
      BY <2>2 DEF Idle, Request, Stages, Authors
    <2>4. req' \in [Clients -> Request] /\ PendingOK'
      BY <1>7, <2>1, <2>3, RequestType DEF ReplyLook
    <2> QED  BY <1>7, <2>4 DEF ReplyLook, TypeInv, TypeOK
  <1>8. ASSUME NEW c \in Clients, ReplySend(c) PROVE TypeInv'
    <2>1. /\ req[c].by \in Authors
          /\ req[c].to \in SUBSET (Names \cup Groups \cup {Everyone} \cup Remotes)
          /\ req[c].target \in Ids \cup {None}
      BY <1>8 DEF ReplySend, TypeInv, TypeOK, PendingOK, Request, Authors
    <2> QED  BY <1>8, <2>1, ResolveType DEF ReplySend
  <1>9. ASSUME NEW c \in Clients, ReplyMark(c) PROVE TypeInv'
    <2>1. req[c].by \in Authors /\ req[c].target \in Ids
      BY <1>9 DEF ReplyMark, Look, Visible, TypeInv, TypeOK, Authors
    <2> QED  BY <1>9, <2>1, LookType DEF ReplyMark
  <1>10. ASSUME NEW c \in Clients, RetractLook(c) PROVE TypeInv'
    <2>1. PICK by \in DOMAIN profile, m \in DOMAIN objects :
             req' = [req EXCEPT ![c] =
                       [Idle EXCEPT !.stage = "retract", !.by = by, !.target = m,
                                    !.copy = objects[m]]]
      BY <1>10 DEF RetractLook
    <2> DEFINE r == [Idle EXCEPT !.stage = "retract", !.by = by, !.target = m,
                                 !.copy = objects[m]]
    <2>2. by \in Names /\ m \in Ids /\ m \in DOMAIN sent /\ objects[m] \in Message
      BY <2>1 DEF TypeInv, TypeOK
    <2>3. /\ r \in Request /\ r.stage = "retract" /\ r.by = by /\ r.target = m
          /\ r.copy = objects[m]
      BY <2>2 DEF Idle, Request, Stages, Authors
    <2>4. req' \in [Clients -> Request] /\ PendingOK'
      <3>1. req' = [req EXCEPT ![c] = r] /\ sent' = sent
        BY <1>10, <2>1 DEF RetractLook
      <3> HIDE DEF r
      <3> QED  BY <1>10, <2>2, <2>3, <3>1, RequestType
    <2> QED  BY <1>10, <2>4 DEF RetractLook, TypeInv, TypeOK
  <1>11. ASSUME NEW c \in Clients, RetractStore(c) PROVE TypeInv'
    <2>1. /\ req[c].by \in Names /\ req[c].target \in DOMAIN sent
          /\ req[c].copy \in Message
      BY <1>11 DEF RetractStore, TypeInv, PendingOK
    <2>2. Tombstone(req[c].copy, req[c].by) \in Message
      BY <2>1 DEF Tombstone, Message
    <2>3. /\ objects' \in [DOMAIN objects' -> Message]
          /\ DOMAIN objects' \subseteq DOMAIN sent
      BY <1>11, <2>1, <2>2 DEF RetractStore, Put, TypeInv, TypeOK
    <2>4. req' \in [Clients -> Request] /\ PendingOK'
      BY <1>11, IdleAgain DEF RetractStore
    <2> QED  BY <1>11, <2>3, <2>4 DEF RetractStore, TypeInv, TypeOK
  <1>12. ASSUME NEW c \in Clients, Abandon(c) PROVE TypeInv'
    <2>1. req' \in [Clients -> Request] /\ PendingOK'
      BY <1>12, IdleAgain DEF Abandon
    <2> QED  BY <1>12, <2>1 DEF Abandon, TypeInv, TypeOK
  <1>13. ASSUME NEW s \in Sweepers, PurgeLook(s) PROVE TypeInv'
    <2>1. Doomed \subseteq DOMAIN objects
      BY DEF Doomed, ExpiringThreads
    <2> QED  BY <1>13, <2>1 DEF PurgeLook, TypeInv, TypeOK, PendingOK
  <1>14. ASSUME NEW s \in Sweepers, PurgeRemove(s) PROVE TypeInv'
    <2>1. /\ objects' \in [DOMAIN objects' -> Message]
          /\ DOMAIN objects' \subseteq DOMAIN objects
      BY <1>14 DEF PurgeRemove, Drop, TypeInv, TypeOK
    <2> QED  BY <1>14, <2>1 DEF PurgeRemove, Asleep, TypeInv, TypeOK, PendingOK
  <1>15. ASSUME NEW s \in Sweepers, PurgeFails(s) PROVE TypeInv'
    BY <1>15 DEF PurgeFails, Asleep, TypeInv, TypeOK, PendingOK
  <1>16. CASE Restart
    BY <1>16, IdleType DEF Restart, Asleep, TypeInv, TypeOK, PendingOK
  <1>17. CASE Tick
    BY <1>17 DEF Tick, TypeInv, TypeOK, PendingOK
  <1>18. CASE UNCHANGED vars
    BY <1>18 DEF vars, TypeInv, TypeOK, PendingOK
  <1> QED
    BY <1>1, <1>2, <1>3, <1>4, <1>5, <1>6, <1>7, <1>8, <1>9, <1>10, <1>11, <1>12,
       <1>13, <1>14, <1>15, <1>16, <1>17, <1>18 DEF Next, Client, Sweep

LEMMA TypeInvariant == Spec => []TypeInv
  BY TypeInit, TypeNext, PTL DEF Spec

\* Every variable keeps its type, and every request holds what its stage
\* needs, whichever awaits its steps fall between.
THEOREM TypeCorrect == Spec => [](TypeOK /\ PendingOK)
  <1>1. TypeInv => TypeOK /\ PendingOK
    BY DEF TypeInv
  <1> QED  BY <1>1, TypeInvariant, PTL

----------------------------------------------------------------------------
(* What holds whatever groups are called.                                  *)

\* What a request means to write is about messages as they were sent: the
\* record a retraction read, the parent a send settled on.
WritesSound(r) ==
    /\ r.stage = "retract" =>
          r.copy = [sent[r.target] EXCEPT !.retracted = r.copy.retracted]
    /\ r.stage = "store" => (r.parent # None => r.parent \in DOMAIN sent)

\* What a purge decided to take is still too old to be spared.
DoomedIsIdle ==
    \A s \in Sweepers : \A m \in sweep[s].doomed : m \in DOMAIN sent /\ age[m] > Retention

\* The strengthening of TurnKeepsItsPlace and PurgeSparesTheRecent: what is
\* decided at a look is still right at the write.
PlaceInv ==
    /\ TypeInv
    /\ TurnKeepsItsPlace
    /\ \A c \in Clients : WritesSound(req[c])
    /\ DoomedIsIdle

\* What SendStore does to the messages: one more, under a fresh id, stored
\* as it was sent.
Adds(c, m) ==
    /\ DOMAIN sent' = DOMAIN sent \cup {m}
    /\ sent'[m].parent = req[c].parent
    /\ \A k \in DOMAIN sent : k # m /\ sent'[k] = sent[k] /\ age'[k] = age[k]
    /\ DOMAIN objects' = DOMAIN objects \cup {m} /\ objects'[m] = sent'[m]
    /\ sent'[m] = [sent'[m] EXCEPT !.retracted = sent'[m].retracted]
    /\ \A k \in DOMAIN objects : k # m /\ objects'[k] = objects[k]

LEMMA Stored ==
    ASSUME TypeInv, NEW c \in Clients, SendStore(c)
    PROVE  \E m \in Ids \ DOMAIN sent : Adds(c, m)
  <1> DEFINE obj == [from |-> req[c].by, to |-> req[c].to,
                     parent |-> req[c].parent, retracted |-> None]
  <1>1. PICK m \in Ids \ DOMAIN sent : /\ objects' = Put(objects, m, obj)
                                       /\ sent' = Put(sent, m, obj)
                                       /\ age' = [age EXCEPT ![m] = 0]
    BY DEF SendStore
  <1>2. /\ DOMAIN sent' = DOMAIN sent \cup {m} /\ sent'[m] = obj
        /\ \A k \in DOMAIN sent : k # m /\ sent'[k] = sent[k]
    BY <1>1 DEF Put
  <1>3. \A k \in DOMAIN sent : age'[k] = age[k]
    BY <1>1 DEF TypeInv, TypeOK
  <1>4. /\ DOMAIN objects' = DOMAIN objects \cup {m} /\ objects'[m] = obj
        /\ \A k \in DOMAIN objects : k # m /\ objects'[k] = objects[k]
    BY <1>1 DEF Put, TypeInv, TypeOK
  <1>5. obj = [obj EXCEPT !.retracted = obj.retracted]
    OBVIOUS
  <1> QED  BY <1>2, <1>3, <1>4, <1>5 DEF Adds

\* A step that stores nothing and replaces one request by a sound one.
LEMMA WritesStep ==
    ASSUME PlaceInv, TypeInv', NEW c \in Clients, NEW r, WritesSound(r),
           req' = [req EXCEPT ![c] = r],
           UNCHANGED <<objects, age, sweep, sent>>
    PROVE  PlaceInv'
  <1>1. \A d \in Clients : req'[d] = req[d] \/ req'[d] = r
    BY DEF PlaceInv, TypeInv, TypeOK
  <1>2. \A d \in Clients : WritesSound(req[d])'
    BY <1>1 DEF PlaceInv, WritesSound
  <1> QED  BY <1>2 DEF PlaceInv, TurnKeepsItsPlace, DoomedIsIdle

LEMMA ResolveWrites ==
    ASSUME PlaceInv, TypeInv', NEW c \in Clients, NEW by, NEW aimed, NEW parent, NEW target,
           Resolve(c, by, aimed, parent, target),
           UNCHANGED <<objects, age, sweep, sent>>
    PROVE  PlaceInv'
  <1> DEFINE settled == IF MayAttachTo(objects, by, parent, profile) THEN parent ELSE None
             r == [Idle EXCEPT !.stage = "store", !.by = by, !.target = target,
                               !.to = Reached(aimed, by), !.parent = settled]
  <1>1. settled # None => settled \in DOMAIN sent
    BY DEF MayAttachTo, PlaceInv, TypeInv, TypeOK
  <1>2. WritesSound(r)
    BY <1>1 DEF WritesSound, Idle
  <1>3. req' = [req EXCEPT ![c] = r]
    BY DEF Resolve
  <1> QED  BY <1>2, <1>3, WritesStep

\* A step that leaves what is stored and what is pending alone.
LEMMA PlaceStays ==
    ASSUME PlaceInv, TypeInv', UNCHANGED <<objects, age, req, sweep, sent>>
    PROVE  PlaceInv'
  BY DEF PlaceInv, TurnKeepsItsPlace, WritesSound, DoomedIsIdle

LEMMA IdleWrites == WritesSound(Idle)
  BY DEF WritesSound, Idle

LEMMA PlaceInit == Init => PlaceInv
  BY TypeInit DEF Init, PlaceInv, TurnKeepsItsPlace, WritesSound, DoomedIsIdle, Idle, Asleep

LEMMA PlaceNext == PlaceInv /\ [Next]_vars => PlaceInv'
  <1> SUFFICES ASSUME PlaceInv, [Next]_vars PROVE PlaceInv'
    OBVIOUS
  <1>0. TypeInv /\ TypeInv'
    BY TypeNext DEF PlaceInv
  <1>1. CASE \/ \E a \in Names : Join(a)
             \/ \E a \in Names, groups \in SUBSET Groups : UpdateProfile(a, groups)
    BY <1>0, <1>1, PlaceStays DEF Join, UpdateProfile
  <1>2. ASSUME NEW c \in Clients, SendLook(c) PROVE PlaceInv'
    BY <1>0, <1>2, ResolveWrites DEF SendLook
  <1>3. ASSUME NEW c \in Clients, SendStore(c) PROVE PlaceInv'
    <2>0. PICK m \in Ids \ DOMAIN sent : Adds(c, m)
      BY <1>0, <1>3, Stored
    <2>1. /\ DOMAIN sent' = DOMAIN sent \cup {m}
          /\ \A k \in DOMAIN sent : k # m /\ sent'[k] = sent[k] /\ age'[k] = age[k]
          /\ DOMAIN objects' = DOMAIN objects \cup {m} /\ objects'[m] = sent'[m]
          /\ sent'[m] = [sent'[m] EXCEPT !.retracted = sent'[m].retracted]
          /\ \A k \in DOMAIN objects : k # m /\ objects'[k] = objects[k]
      BY <2>0 DEF Adds
    <2>2. TurnKeepsItsPlace'
      BY <1>0, <2>1 DEF PlaceInv, TypeInv, TypeOK, TurnKeepsItsPlace
    <2>3. ASSUME NEW d \in Clients PROVE WritesSound(req[d])'
      <3>1. req'[d] = req[d] \/ req'[d].stage \in {"idle", "answered"}
        BY <1>0, <1>3 DEF SendStore, TypeInv, TypeOK, Idle
      <3>2. req[d].stage = "retract" => req[d].target \in DOMAIN sent
        BY <1>0 DEF TypeInv, PendingOK
      <3>3. CASE req'[d] = req[d]
        <4>1. WritesSound(req[d])
          BY DEF PlaceInv
        <4>2. \A k \in DOMAIN sent : k \in DOMAIN sent' /\ sent'[k] = sent[k]
          BY <2>1
        <4> QED  BY <3>2, <3>3, <4>1, <4>2 DEF WritesSound
      <3>4. CASE req'[d].stage \in {"idle", "answered"}
        BY <3>4 DEF WritesSound
      <3> QED  BY <3>1, <3>3, <3>4
    <2>4. DoomedIsIdle'
      BY <1>3, <2>1 DEF SendStore, PlaceInv, DoomedIsIdle
    <2> QED  BY <1>0, <2>2, <2>3, <2>4 DEF PlaceInv
  <1>4. ASSUME NEW c \in Clients,
               ReadLook(c) \/ ReplyLook(c) \/ ReplyMark(c) \/ MarkRead(c) \/ Abandon(c)
        PROVE  PlaceInv'
    <2>1. UNCHANGED <<objects, age, sweep, sent>>
      BY <1>4 DEF ReadLook, ReplyLook, ReplyMark, MarkRead, Abandon
    <2>2. ASSUME NEW reader, NEW m, Look(c, reader, m) PROVE PlaceInv'
      <3> DEFINE r == [Idle EXCEPT !.stage = "mark", !.by = reader, !.target = m,
                          !.parent = ShownParent(objects, objects[m], reader, profile)]
      <3>1. req' = [req EXCEPT ![c] = r]
        BY <2>2 DEF Look
      <3>2. WritesSound(r)
        BY DEF WritesSound, Idle
      <3> QED  BY <1>0, <2>1, <3>1, <3>2, WritesStep
    <2>3. CASE ReplyLook(c)
      <3>1. PICK reader \in Names, m \in Ids :
               req' = [req EXCEPT ![c] =
                         [Idle EXCEPT !.stage = "compose", !.by = reader, !.target = m,
                                      !.to = {objects[m].from}]]
        BY <2>3 DEF ReplyLook
      <3> DEFINE r == [Idle EXCEPT !.stage = "compose", !.by = reader, !.target = m,
                                   !.to = {objects[m].from}]
      <3>2. WritesSound(r)
        BY DEF WritesSound, Idle
      <3> QED  BY <1>0, <2>1, <3>1, <3>2, WritesStep
    <2>4. CASE MarkRead(c) \/ Abandon(c)
      BY <1>0, <2>1, <2>4, IdleWrites, WritesStep DEF MarkRead, Abandon
    <2> QED  BY <1>4, <2>2, <2>3, <2>4 DEF ReadLook, ReplyMark
  <1>5. ASSUME NEW c \in Clients, ReplySend(c) PROVE PlaceInv'
    BY <1>0, <1>5, ResolveWrites DEF ReplySend
  <1>6. ASSUME NEW c \in Clients, RetractLook(c) PROVE PlaceInv'
    <2>1. PICK by \in DOMAIN profile, m \in DOMAIN objects :
             req' = [req EXCEPT ![c] =
                       [Idle EXCEPT !.stage = "retract", !.by = by, !.target = m,
                                    !.copy = objects[m]]]
      BY <1>6 DEF RetractLook
    <2> DEFINE r == [Idle EXCEPT !.stage = "retract", !.by = by, !.target = m,
                                 !.copy = objects[m]]
    <2>2. objects[m] = [sent[m] EXCEPT !.retracted = objects[m].retracted]
      BY DEF PlaceInv, TurnKeepsItsPlace
    <2>3. WritesSound(r)
      BY <2>2 DEF WritesSound, Idle
    <2> QED  BY <1>0, <1>6, <2>1, <2>3, WritesStep DEF RetractLook
  <1>7. ASSUME NEW c \in Clients, RetractStore(c) PROVE PlaceInv'
    <2> DEFINE m == req[c].target
    <2>1. /\ m \in DOMAIN sent /\ req[c].copy \in Message /\ sent[m] \in Message
          /\ req[c].copy = [sent[m] EXCEPT !.retracted = req[c].copy.retracted]
      BY <1>7 DEF RetractStore, PlaceInv, TypeInv, TypeOK, PendingOK, WritesSound
    <2>2. /\ DOMAIN objects' = DOMAIN objects \cup {m}
          /\ objects'[m] = [req[c].copy EXCEPT !.retracted = req[c].by]
          /\ \A k \in DOMAIN objects \ {m} : objects'[k] = objects[k]
      BY <1>7 DEF RetractStore, Put, Tombstone
    <2>3. objects'[m] = [sent[m] EXCEPT !.retracted = objects'[m].retracted]
      BY <2>1, <2>2 DEF Message
    <2>4. TurnKeepsItsPlace'
      BY <1>7, <2>2, <2>3 DEF RetractStore, PlaceInv, TurnKeepsItsPlace
    <2>5. ASSUME NEW d \in Clients PROVE WritesSound(req[d])'
      <3>1. req'[d] = req[d] \/ req'[d].stage = "idle"
        BY <1>0, <1>7 DEF RetractStore, TypeInv, TypeOK, Idle
      <3> QED  BY <1>7, <3>1 DEF RetractStore, PlaceInv, WritesSound
    <2> QED  BY <1>0, <1>7, <2>4, <2>5 DEF RetractStore, PlaceInv, DoomedIsIdle
  <1>8. ASSUME NEW s \in Sweepers, PurgeLook(s) PROVE PlaceInv'
    <2>1. Doomed \subseteq BeforeCutoff
      BY DEF Doomed, ExpiringThreads, ThreadMembers
    <2>2. DoomedIsIdle'
      BY <1>0, <1>8, <2>1 DEF PurgeLook, BeforeCutoff, PlaceInv, TypeInv, TypeOK, DoomedIsIdle
    <2> QED  BY <1>0, <1>8, <2>2 DEF PurgeLook, PlaceInv, TurnKeepsItsPlace, WritesSound
  <1>9. ASSUME NEW s \in Sweepers, PurgeRemove(s) \/ PurgeFails(s) PROVE PlaceInv'
    <2>1. TurnKeepsItsPlace'
      BY <1>9 DEF PurgeRemove, PurgeFails, Drop, PlaceInv, TurnKeepsItsPlace
    <2>2. DoomedIsIdle'
      BY <1>0, <1>9
         DEF PurgeRemove, PurgeFails, Asleep, PlaceInv, TypeInv, TypeOK, DoomedIsIdle
    <2> QED  BY <1>0, <1>9, <2>1, <2>2 DEF PurgeRemove, PurgeFails, PlaceInv, WritesSound
  <1>10. CASE Restart
    BY <1>0, <1>10 DEF Restart, Asleep, Idle, PlaceInv, TurnKeepsItsPlace, WritesSound, DoomedIsIdle
  <1>11. CASE Tick
    <2>1. DoomedIsIdle'
      BY <1>11 DEF Tick, PlaceInv, TypeInv, TypeOK, DoomedIsIdle
    <2> QED  BY <1>0, <1>11, <2>1 DEF Tick, PlaceInv, TurnKeepsItsPlace, WritesSound
  <1>12. CASE UNCHANGED vars
    BY <1>0, <1>12, PlaceStays DEF vars
  <1> QED
    BY <1>1, <1>2, <1>3, <1>4, <1>5, <1>6, <1>7, <1>8, <1>9, <1>10, <1>11, <1>12
       DEF Next, Client, Sweep

LEMMA PlaceInvariant == Spec => []PlaceInv
  BY PlaceInit, PlaceNext, PTL DEF Spec

\* What every step leaves alone: messages go only when a purge removes them,
\* a minted message stays as it was sent, a read row is only added by the
\* reader's own acknowledgement.
LEMMA StepsKeep ==
    ASSUME TypeInv, [Next]_vars
    PROVE  /\ \/ DOMAIN objects \subseteq DOMAIN objects'
              \/ \E s \in Sweepers : PurgeRemove(s)
           /\ \A m \in DOMAIN sent : m \in DOMAIN sent' /\ sent'[m] = sent[m]
           /\ \A row \in reads' \ reads :
                \E c \in Clients : /\ req[c].stage = "mark"
                                   /\ row = <<req[c].target, req[c].by>>
  <1>1. CASE \E a \in Names : Join(a)
    BY <1>1 DEF Join
  <1>2. CASE \E a \in Names, groups \in SUBSET Groups : UpdateProfile(a, groups)
    BY <1>2 DEF UpdateProfile
  <1>3. ASSUME NEW c \in Clients, SendLook(c) \/ ReadLook(c) \/ ReplyLook(c) \/ ReplySend(c)
                                  \/ ReplyMark(c) \/ RetractLook(c) \/ Abandon(c)
        PROVE  UNCHANGED <<objects, sent, reads>>
    BY <1>3 DEF SendLook, ReadLook, ReplyLook, ReplySend, ReplyMark, RetractLook, Abandon
  <1>4. ASSUME NEW c \in Clients, SendStore(c)
        PROVE  /\ DOMAIN objects \subseteq DOMAIN objects' /\ reads' = reads
               /\ \A m \in DOMAIN sent : m \in DOMAIN sent' /\ sent'[m] = sent[m]
    BY <1>4 DEF SendStore, Put
  <1>5. ASSUME NEW c \in Clients, MarkRead(c)
        PROVE  /\ objects' = objects /\ sent' = sent
               /\ reads' = reads \cup {<<req[c].target, req[c].by>>} /\ req[c].stage = "mark"
    BY <1>5 DEF MarkRead, Acknowledged
  <1>6. ASSUME NEW c \in Clients, RetractStore(c)
        PROVE  DOMAIN objects \subseteq DOMAIN objects' /\ sent' = sent /\ reads' = reads
    BY <1>6 DEF RetractStore, Put
  <1>7. CASE \E s \in Sweepers : PurgeLook(s) \/ PurgeFails(s)
    BY <1>7 DEF PurgeLook, PurgeFails
  <1>8. ASSUME NEW s \in Sweepers, PurgeRemove(s) PROVE sent' = sent /\ reads' \subseteq reads
    BY <1>8 DEF PurgeRemove
  <1>9. CASE Restart \/ Tick \/ UNCHANGED vars
    BY <1>9 DEF Restart, Tick, vars
  <1> QED
    BY <1>1, <1>2, <1>3, <1>4, <1>5, <1>6, <1>7, <1>8, <1>9 DEF Next, Client, Sweep

\* Nobody who joined ever leaves.
LEMMA NobodyLeaves == [Next]_vars => DOMAIN profile \subseteq DOMAIN profile'
  <1>1. ASSUME NEW a \in Names, NEW groups, Join(a) \/ UpdateProfile(a, groups)
        PROVE  DOMAIN profile \subseteq DOMAIN profile'
    <2>1. PICK g : profile' = Put(profile, a, g)
      BY <1>1 DEF Join, UpdateProfile
    <2> QED  BY <2>1 DEF Put
  <1>2. CASE (\E c \in Clients : Client(c)) \/ Restart \/ Tick \/ UNCHANGED vars
    BY <1>2 DEF Client, SendLook, SendStore, ReadLook, MarkRead, ReplyLook, ReplySend,
                ReplyMark, RetractLook, RetractStore, Abandon, Restart, Tick, vars
  <1>3. CASE \E s \in Sweepers : Sweep(s)
    BY <1>3 DEF Sweep, PurgeLook, PurgeRemove, PurgeFails
  <1> QED  BY <1>1, <1>2, <1>3 DEF Next

\* Whatever interleaves with a retraction, it changes nothing but the body.
THEOREM RetractionKeepsThePlace == Spec => []TurnKeepsItsPlace
  <1>1. PlaceInv => TurnKeepsItsPlace
    BY DEF PlaceInv
  <1> QED  BY <1>1, PlaceInvariant, PTL

\* Expiry takes nothing that is within the retention window, although what a
\* purge removes was decided an await earlier (Mailbox.purge).
THEOREM PurgeTakesOnlyTheOld == Spec => PurgeSparesTheRecent
  <1>1. PlaceInv /\ [Next]_vars =>
          [\A m \in DOMAIN objects \ DOMAIN objects' : age[m] > Retention]_vars
    <2> SUFFICES ASSUME PlaceInv, [Next]_vars, NEW m \in DOMAIN objects \ DOMAIN objects'
                 PROVE  age[m] > Retention
      OBVIOUS
    <2>1. PICK s \in Sweepers : PurgeRemove(s)
      BY StepsKeep DEF PlaceInv
    <2>2. m \in sweep[s].doomed
      BY <2>1 DEF PurgeRemove, Drop
    <2> QED  BY <2>2 DEF PlaceInv, DoomedIsIdle
  <1> QED  BY <1>1, PlaceInvariant, PTL DEF PurgeSparesTheRecent, Spec

----------------------------------------------------------------------------
(* Threads.                                                                *)

\* inReplyTo leads to an earlier message: there are finitely many messages,
\* and a rank that falls from each to its parent.
Ranked ==
    /\ IsFiniteSet(DOMAIN sent)
    /\ \E rank : Falls(sent, rank)
    /\ \A m \in DOMAIN sent : sent[m].parent # None => sent[m].parent \in DOMAIN sent

\* Of what a purge saw, it means to take, with a message, its replies.
TakesReplies(sw) ==
    \A m \in sw.seen : /\ m \in DOMAIN sent
                       /\ sent[m].parent \in sw.doomed => m \in sw.doomed

\* The strengthening of ThreadsGoWhole.
ThreadInv == PlaceInv /\ Ranked /\ \A s \in Sweepers : TakesReplies(sweep[s])

LEMMA RankedStore ==
    ASSUME PlaceInv, Ranked, NEW c \in Clients, SendStore(c) PROVE Ranked'
  <1>0. PICK m \in Ids \ DOMAIN sent : Adds(c, m)
    BY Stored DEF PlaceInv
  <1>1. /\ DOMAIN sent' = DOMAIN sent \cup {m}
        /\ sent'[m].parent = req[c].parent
        /\ \A k \in DOMAIN sent : k # m /\ sent'[k] = sent[k]
    BY <1>0 DEF Adds
  <1>2. req[c].parent # None => req[c].parent \in DOMAIN sent
    BY DEF SendStore, PlaceInv, WritesSound
  <1>3. PICK rank : Falls(sent, rank)
    BY DEF Ranked
  <1>4. IsFiniteSet(DOMAIN sent')
    BY <1>1, FS_AddElement DEF Ranked
  <1>5. \A k \in DOMAIN sent' : sent'[k].parent # None => sent'[k].parent \in DOMAIN sent
    BY <1>1, <1>2 DEF Ranked
  <1> DEFINE p == req[c].parent
             above == IF p \in DOMAIN sent THEN rank[p] + 1 ELSE 0
             rank2 == [k \in DOMAIN sent' |-> IF k = m THEN above ELSE rank[k]]
  <1>6. above \in Nat
    BY <1>3 DEF Falls
  <1>7. rank2 \in [DOMAIN sent' -> Nat]
    BY <1>1, <1>3, <1>6 DEF Falls
  <1>8. ASSUME NEW k \in DOMAIN sent', sent'[k].parent \in DOMAIN sent'
        PROVE  rank2[sent'[k].parent] < rank2[k]
    <2>1. None \notin DOMAIN sent'
      BY <1>1 DEF PlaceInv, TypeInv, TypeOK
    <2>2. sent'[k].parent \in DOMAIN sent /\ sent'[k].parent # m
      BY <1>1, <1>5, <1>8, <2>1
    <2>3. rank2[sent'[k].parent] = rank[sent'[k].parent] /\ rank[sent'[k].parent] \in Nat
      BY <1>3, <1>8, <2>2 DEF Falls
    <2>4. CASE k = m
      BY <1>1, <1>8, <2>2, <2>3, <2>4
    <2>5. CASE k # m
      <3>1. k \in DOMAIN sent /\ sent'[k] = sent[k] /\ rank2[k] = rank[k]
        BY <1>1, <1>8, <2>5
      <3>2. rank[sent[k].parent] < rank[k]
        BY <1>3, <2>2, <3>1 DEF Falls
      <3> QED  BY <2>3, <3>1, <3>2
    <2> QED  BY <2>4, <2>5
  <1>9. PICK q : Falls(sent', q)
    BY <1>7, <1>8 DEF Falls
  <1> QED  BY <1>1, <1>4, <1>5, <1>9 DEF Ranked

\* What a purge is about to take holds every reply it saw to any of it.
LEMMA LookTakesReplies ==
    ASSUME PlaceInv, Ranked
    PROVE  TakesReplies([seen |-> DOMAIN objects, doomed |-> Doomed])
  <1>1. DOMAIN objects \subseteq DOMAIN sent
    BY DEF PlaceInv, TypeInv, TypeOK
  <1>2. IsFiniteSet(DOMAIN objects)
    BY <1>1, FS_Subset DEF Ranked
  <1>3. \A m \in DOMAIN objects : objects[m].parent = sent[m].parent
    BY <1>1 DEF PlaceInv, TypeInv, TypeOK, TurnKeepsItsPlace, Message
  <1>4. PICK rank : Falls(sent, rank)
    BY DEF Ranked
  <1> DEFINE low == [m \in DOMAIN objects |-> rank[m]]
  <1>5. Falls(objects, low)
    BY <1>1, <1>3, <1>4 DEF Falls
  <1>6. ASSUME NEW m \in DOMAIN objects, sent[m].parent \in Doomed PROVE m \in Doomed
    <2>1. objects[m].parent \in ExpiringThreads(objects, BeforeCutoff)
      BY <1>3, <1>6 DEF Doomed
    <2> HIDE DEF low
    <2> QED  BY <1>2, <1>5, <2>1, RepliesExpireToo DEF Doomed
  <1> QED  BY <1>1, <1>6 DEF TakesReplies

LEMMA ThreadInit == Init => ThreadInv
  <1> SUFFICES ASSUME Init PROVE ThreadInv
    OBVIOUS
  <1>1. DOMAIN sent = {}
    BY DEF Init
  <1>2. IsFiniteSet(DOMAIN sent)
    BY <1>1, FS_EmptySet
  <1>3. Falls(sent, [m \in {} |-> 0])
    BY <1>1 DEF Falls
  <1>4. \A s \in Sweepers : TakesReplies(sweep[s])
    BY DEF Init, Asleep, TakesReplies
  <1> QED  BY <1>1, <1>2, <1>3, <1>4, PlaceInit DEF ThreadInv, Ranked

\* The purge's own steps, and those that store a message, are the only ones
\* that touch what this invariant is about.
LEMMA ThreadNext == ThreadInv /\ [Next]_vars => ThreadInv'
  <1> SUFFICES ASSUME ThreadInv, [Next]_vars PROVE ThreadInv'
    OBVIOUS
  <1>0. PlaceInv /\ PlaceInv' /\ TypeInv /\ Ranked
    BY PlaceNext DEF ThreadInv, PlaceInv
  <1>1. CASE UNCHANGED <<sent, sweep>>
    BY <1>0, <1>1 DEF ThreadInv, Ranked, TakesReplies
  <1>2. ASSUME NEW c \in Clients, SendStore(c) PROVE ThreadInv'
    <2>1. Ranked'
      BY <1>0, <1>2, RankedStore
    <2>2. \A k \in DOMAIN sent : k \in DOMAIN sent' /\ sent'[k] = sent[k]
      BY <1>0, <1>2, Stored DEF Adds
    <2>3. ASSUME NEW s \in Sweepers PROVE TakesReplies(sweep[s])'
      <3>1. sweep' = sweep
        BY <1>2 DEF SendStore
      <3> QED  BY <2>2, <3>1 DEF ThreadInv, TakesReplies
    <2> QED  BY <1>0, <2>1, <2>3 DEF ThreadInv
  <1>3. ASSUME NEW s \in Sweepers, PurgeLook(s) PROVE ThreadInv'
    <2> DEFINE look == [seen |-> DOMAIN objects, doomed |-> Doomed]
    <2>1. TakesReplies(look)
      BY <1>0, LookTakesReplies
    <2>2. sent' = sent /\ sweep' = [sweep EXCEPT ![s] = look]
      BY <1>3 DEF PurgeLook
    <2>3. ASSUME NEW t \in Sweepers PROVE TakesReplies(sweep[t])'
      <3>1. sweep'[t] = sweep[t] \/ sweep'[t] = look
        BY <1>0, <2>2 DEF TypeInv, TypeOK
      <3> HIDE DEF look
      <3> QED  BY <2>1, <2>2, <3>1 DEF ThreadInv, TakesReplies
    <2> QED  BY <1>0, <2>2, <2>3 DEF ThreadInv, Ranked
  <1>4. CASE (\E s \in Sweepers : PurgeRemove(s) \/ PurgeFails(s)) \/ Restart
    <2>1. sent' = sent
      BY <1>4 DEF PurgeRemove, PurgeFails, Restart
    <2>2. \A t \in Sweepers : sweep'[t] = sweep[t] \/ sweep'[t] = Asleep
      BY <1>0, <1>4 DEF PurgeRemove, PurgeFails, Restart, TypeInv, TypeOK
    <2>3. \A t \in Sweepers : TakesReplies(sweep[t])'
      BY <2>1, <2>2 DEF ThreadInv, TakesReplies, Asleep
    <2> QED  BY <1>0, <2>1, <2>3 DEF ThreadInv, Ranked
  <1>5. \/ UNCHANGED <<sent, sweep>>
        \/ \E c \in Clients : SendStore(c)
        \/ \E s \in Sweepers : Sweep(s)
        \/ Restart
    BY DEF Next, vars, Client, Join, UpdateProfile, SendLook, ReadLook, MarkRead, ReplyLook,
           ReplySend, ReplyMark, RetractLook, RetractStore, Abandon, Tick
  <1> QED  BY <1>1, <1>2, <1>3, <1>4, <1>5 DEF Sweep

\* Expiry takes a conversation whole: of the turns a purge saw, none is left
\* without the parent it took, whatever was sent, retracted or purged between
\* its look and its removal (rules.expiring_threads, Mailbox.purge).
THEOREM ThreadsAreTakenWhole == Spec => ThreadsGoWhole
  <1>1. ThreadInv /\ [Next]_vars =>
          [\A s \in Sweepers : PurgeRemove(s) =>
             \A m \in DOMAIN objects' \cap sweep[s].seen :
                objects[m].parent \notin DOMAIN objects \ DOMAIN objects']_vars
    <2> SUFFICES ASSUME ThreadInv, NEW s \in Sweepers, PurgeRemove(s),
                        NEW m \in DOMAIN objects' \cap sweep[s].seen
                 PROVE  objects[m].parent \notin DOMAIN objects \ DOMAIN objects'
      OBVIOUS
    <2>1. DOMAIN objects' = DOMAIN objects \ sweep[s].doomed
      BY DEF PurgeRemove, Drop
    <2>2. objects[m].parent = sent[m].parent
      BY <2>1 DEF ThreadInv, PlaceInv, TypeInv, TypeOK, TurnKeepsItsPlace, Message
    <2>3. sent[m].parent \notin sweep[s].doomed
      BY <2>1 DEF ThreadInv, TakesReplies
    <2> QED  BY <2>1, <2>2, <2>3
  <1>2. Spec => []ThreadInv
    BY ThreadInit, ThreadNext, PTL DEF Spec
  <1> QED  BY <1>1, <1>2, PTL DEF ThreadsGoWhole, Spec

----------------------------------------------------------------------------
(* Safety.  The properties are not inductive by themselves: what a request *)
(* decided before an await must still hold when it writes.  IInv says of   *)
(* every stored audience, and of every audience a request is about to      *)
(* store, that its local names are actors who joined, of every request     *)
(* that what its look established is about messages as they were sent, and *)
(* that what profiles list now is among what they ever listed.             *)

Here(from, to) ==
    /\ from \in DOMAIN profile \cup Remotes
    /\ to \cap Names \subseteq DOMAIN profile

InsiderOf(a, m) == m \in DOMAIN sent /\ a \in Insiders(m)

RequestSound(r) ==
    /\ r.stage = "store" =>
          /\ Here(r.by, r.to)
          /\ r.parent # None => InsiderOf(r.by, r.parent)
    /\ r.stage = "mark" =>
          /\ InsiderOf(r.by, r.target)
          /\ r.parent # None => InsiderOf(r.by, r.parent)
    /\ r.stage = "retract" =>
          r.copy = [sent[r.target] EXCEPT !.retracted = r.copy.retracted]

PendingSound == \A c \in Clients : RequestSound(req[c])

ListedSound == \A a \in DOMAIN profile : \A g \in profile[a] : <<a, g>> \in listed

IInv ==
    /\ TypeInv
    /\ \A m \in DOMAIN sent : Here(sent[m].from, sent[m].to)
    /\ TurnKeepsItsPlace
    /\ AttachedByParty
    /\ ReadersAreParties
    /\ PendingSound
    /\ ListedSound

\* Whoever the rules reach with an audience of actors and of remote URIs is in
\* it, or lists as a group a name that is.
LEMMA ReachedThroughAName ==
    ASSUME NEW p, NEW obj \in Message, NEW a \in RecipientsOf(obj, p)
    PROVE  \/ a \in obj.to
           \/ a \in DOMAIN p /\ p[a] \cap obj.to # {} /\ a # obj.from
  <1>1. CASE a \in NamedSelf(obj.to, obj.from)
    BY <1>1 DEF NamedSelf
  <1>2. ASSUME NEW n \in obj.to, a \in ResolveName(n, p)
        PROVE  a = n \/ (a \in DOMAIN p /\ n \in p[a])
    <2>1. n # Everyone
      BY DEF Message, Authors
    <2> QED  BY <1>2, <2>1 DEF ResolveName, Members
  <1> QED  BY <1>1, <1>2 DEF RecipientsOf, ResolveAudience

\* An actor is reached by its name, unless a group took the name.
LEMMA NamedIsReached ==
    ASSUME NEW p, NEW obj \in Message, NEW a \in obj.to, a \in DOMAIN p,
           a \notin RecipientsOf(obj, p)
    PROVE  a \in GroupNames(p) /\ a \notin p[a]
  <1>1. a # obj.from
    BY DEF RecipientsOf, NamedSelf
  <1>2. a \notin ResolveName(a, p)
    BY <1>1 DEF RecipientsOf, ResolveAudience
  <1>3. a # Everyone
    BY DEF Message, Authors
  <1> QED  BY <1>2, <1>3 DEF ResolveName, Members

\* And by a name that it lists as a group.
LEMMA ListedIsReached ==
    ASSUME NEW p, NEW obj \in Message, NEW a \in DOMAIN p, NEW n \in obj.to,
           n \in p[a], a # obj.from
    PROVE  a \in RecipientsOf(obj, p)
  <1>1. n # Everyone
    BY DEF Message, Authors
  <1>2. a \in ResolveName(n, p)
    BY <1>1 DEF ResolveName, Members, GroupNames
  <1> QED  BY <1>2 DEF RecipientsOf, ResolveAudience

\* What is stored keeps the author and the audience it was sent with.
LEMMA StoredAsSent ==
    ASSUME IInv, NEW m \in DOMAIN objects
    PROVE  /\ m \in DOMAIN sent /\ objects[m] \in Message /\ sent[m] \in Message
           /\ objects[m].from = sent[m].from /\ objects[m].to = sent[m].to
  <1>1. m \in DOMAIN sent /\ objects[m] \in Message /\ sent[m] \in Message
    BY DEF IInv, TypeInv, TypeOK
  <1> QED  BY <1>1 DEF IInv, TurnKeepsItsPlace, Message

LEMMA PartiesAreInsiders ==
    ASSUME IInv, NEW m \in DOMAIN objects, NEW a, IsPartyTo(objects[m], a, profile)
    PROVE  InsiderOf(a, m)
  <1>1. /\ m \in DOMAIN sent /\ objects[m] \in Message
        /\ objects[m].from = sent[m].from /\ objects[m].to = sent[m].to
    BY StoredAsSent
  <1>2. CASE a = sent[m].from \/ a \in sent[m].to
    BY <1>1, <1>2 DEF InsiderOf, Insiders, Parties
  <1>3. CASE a \in DOMAIN profile /\ profile[a] \cap sent[m].to # {}
    <2>1. PICK n \in sent[m].to : n \in profile[a]
      BY <1>3
    <2>2. <<a, n>> \in listed /\ a \in Names
      BY <1>3, <2>1 DEF IInv, ListedSound, TypeInv, TypeOK
    <2> QED  BY <1>1, <2>2 DEF InsiderOf, Insiders
  <1> QED  BY <1>1, <1>2, <1>3, ReachedThroughAName DEF IsPartyTo

LEMMA SettledByIInv == ASSUME IInv PROVE AudienceSettled
  <1> SUFFICES ASSUME NEW m \in DOMAIN objects
               PROVE  LET now == RecipientsOf(objects[m], profile)
                      IN  /\ \A a \in (sent[m].to \cap Names) \ now : Shadowed(a)
                          /\ \A a \in now \ sent[m].to : profile[a] \cap sent[m].to # {}
    BY DEF AudienceSettled
  <1>1. /\ m \in DOMAIN sent /\ objects[m] \in Message /\ objects[m].to = sent[m].to
        /\ sent[m].to \cap Names \subseteq DOMAIN profile
    BY StoredAsSent DEF IInv, Here
  <1>2. ASSUME NEW a \in (sent[m].to \cap Names) \ RecipientsOf(objects[m], profile)
        PROVE  Shadowed(a)
    BY <1>1, NamedIsReached DEF Shadowed
  <1>3. ASSUME NEW a \in RecipientsOf(objects[m], profile) \ sent[m].to
        PROVE  profile[a] \cap sent[m].to # {}
    BY <1>1, ReachedThroughAName
  <1> QED  BY <1>2, <1>3

LEMMA IInvInit == Init => IInv
  BY TypeInit DEF Init, IInv, TurnKeepsItsPlace, AttachedByParty, ReadersAreParties,
                  PendingSound, RequestSound, ListedSound, Idle, Asleep

\* Who was an insider stays one.
LEMMA InsidersKept ==
    ASSUME listed \subseteq listed',
           \A k \in DOMAIN sent : k \in DOMAIN sent' /\ sent'[k] = sent[k]
    PROVE  \A a, k : InsiderOf(a, k) => InsiderOf(a, k)'
  BY DEF InsiderOf, Insiders, Parties

\* What holds of what was sent and of what is pending does so for as long as
\* neither changes.
LEMMA SoundStays ==
    ASSUME IInv, UNCHANGED <<profile, sent, listed>>
    PROVE  /\ \A m \in DOMAIN sent' : Here(sent[m].from, sent[m].to)'
           /\ AttachedByParty' /\ ListedSound'
           /\ \A d \in Clients : req'[d] = req[d] => RequestSound(req[d])'
  <1>1. \A a, k : InsiderOf(a, k) => InsiderOf(a, k)'
    BY InsidersKept
  <1>2. ASSUME NEW d \in Clients, req'[d] = req[d] PROVE RequestSound(req[d])'
    BY <1>1, <1>2 DEF IInv, PendingSound, RequestSound, Here
  <1>3. AttachedByParty'
    BY <1>1 DEF IInv, AttachedByParty, InsiderOf
  <1> QED  BY <1>2, <1>3 DEF IInv, Here, ListedSound

\* A step that changes one request only, and leaves it sound.
LEMMA RequestStep ==
    ASSUME IInv, TypeInv', NEW c \in Clients, NEW r, RequestSound(r),
           req' = [req EXCEPT ![c] = r],
           UNCHANGED <<profile, objects, reads, age, sweep, sent, listed>>
    PROVE  IInv'
  <1>1. \A d \in Clients : req'[d] = req[d] \/ req'[d] = r
    BY DEF IInv, TypeInv, TypeOK
  <1>2. \A a, k : InsiderOf(a, k) => InsiderOf(a, k)'
    BY InsidersKept
  <1>3. ASSUME NEW d \in Clients PROVE RequestSound(req[d])'
    <2>1. CASE req'[d] = req[d]
      BY <2>1, SoundStays
    <2>2. CASE req'[d] = r
      BY <1>2, <2>2 DEF RequestSound, Here
    <2> QED  BY <1>1, <2>1, <2>2
  <1>4. ReadersAreParties'
    BY <1>2 DEF IInv, ReadersAreParties, InsiderOf
  <1> QED
    BY <1>3, <1>4, SoundStays DEF IInv, TurnKeepsItsPlace, PendingSound

LEMMA IdleIsSound == RequestSound(Idle)
  BY DEF RequestSound, Idle

LEMMA ResolveSound ==
    ASSUME IInv, TypeInv', NEW c \in Clients, NEW by \in Authors,
           NEW aimed \in SUBSET (Names \cup Groups \cup {Everyone} \cup Remotes),
           NEW parent \in Ids \cup {None}, NEW target \in Ids \cup {None},
           Resolve(c, by, aimed, parent, target),
           UNCHANGED <<profile, objects, reads, age, sweep, sent, listed>>
    PROVE  IInv'
  <1> DEFINE settled == IF MayAttachTo(objects, by, parent, profile) THEN parent ELSE None
             r == [Idle EXCEPT !.stage = "store", !.by = by, !.target = target,
                               !.to = Reached(aimed, by), !.parent = settled]
  <1>1. by \in DOMAIN profile \cup Remotes
    BY DEF Resolve
  <1>2. Reached(aimed, by) \subseteq DOMAIN profile \cup {by} \cup (aimed \cap Remotes)
    BY ReachedType DEF IInv, TypeInv
  <1>3. DOMAIN profile \subseteq Names
    BY DEF IInv, TypeInv, TypeOK
  <1>5. Here(by, Reached(aimed, by))
    BY <1>1, <1>2, <1>3 DEF Here
  <1>6. settled # None => InsiderOf(by, settled)
    BY PartiesAreInsiders DEF MayAttachTo
  <1>7. RequestSound(r)
    BY <1>5, <1>6 DEF RequestSound, Idle
  <1>8. req' = [req EXCEPT ![c] = r]
    BY DEF Resolve
  <1> QED  BY <1>7, <1>8, RequestStep

LEMMA LookSound ==
    ASSUME IInv, TypeInv', NEW c \in Clients, NEW reader, NEW m,
           Look(c, reader, m),
           UNCHANGED <<profile, objects, reads, age, sweep, sent, listed>>
    PROVE  IInv'
  <1> DEFINE shown == ShownParent(objects, objects[m], reader, profile)
             r == [Idle EXCEPT !.stage = "mark", !.by = reader, !.target = m,
                               !.parent = shown]
  <1>1. InsiderOf(reader, m)
    BY PartiesAreInsiders DEF Look, Visible
  <1>2. shown # None => InsiderOf(reader, shown)
    BY PartiesAreInsiders DEF ShownParent, MayAttachTo
  <1>3. RequestSound(r)
    BY <1>1, <1>2 DEF RequestSound, Idle
  <1>4. req' = [req EXCEPT ![c] = r]
    BY DEF Look
  <1> QED  BY <1>3, <1>4, RequestStep

\* Directory changes only ever add to who is here, and to what was listed.
LEMMA ProfileStep ==
    ASSUME IInv, TypeInv', DOMAIN profile \subseteq DOMAIN profile',
           listed \subseteq listed', ListedSound',
           UNCHANGED <<objects, reads, age, req, sweep, sent>>
    PROVE  IInv'
  <1>1. \A a, m : InsiderOf(a, m) => InsiderOf(a, m)'
    BY DEF InsiderOf, Insiders, Parties
  <1>2. PendingSound'
    BY <1>1 DEF IInv, PendingSound, RequestSound, Here
  <1>3. AttachedByParty' /\ ReadersAreParties'
    BY <1>1 DEF IInv, AttachedByParty, ReadersAreParties, InsiderOf
  <1> QED  BY <1>2, <1>3 DEF IInv, TurnKeepsItsPlace, Here

LEMMA StoreSound ==
    ASSUME IInv, TypeInv', NEW c \in Clients, SendStore(c) PROVE IInv'
  <1> DEFINE obj == [from |-> req[c].by, to |-> req[c].to,
                     parent |-> req[c].parent, retracted |-> None]
  <1>1. PICK m \in Ids \ DOMAIN sent : /\ objects' = Put(objects, m, obj)
                                       /\ sent' = Put(sent, m, obj)
                                       /\ age' = [age EXCEPT ![m] = 0]
    BY DEF SendStore
  <1>2. /\ DOMAIN sent' = DOMAIN sent \cup {m} /\ sent'[m] = obj
        /\ \A k \in DOMAIN sent : sent'[k] = sent[k]
    BY <1>1 DEF Put
  <1>3. /\ DOMAIN objects' = DOMAIN objects \cup {m} /\ objects'[m] = obj
        /\ \A k \in DOMAIN objects : k # m /\ objects'[k] = objects[k]
    BY <1>1 DEF Put, IInv, TypeInv, TypeOK
  <1>4. \A k \in DOMAIN sent : k # m /\ age'[k] = age[k] /\ k \in Ids
    BY <1>1 DEF IInv, TypeInv, TypeOK
  <1>5. \A a, k : InsiderOf(a, k) => InsiderOf(a, k)'
    BY <1>2, InsidersKept DEF SendStore
  <1>6. /\ UNCHANGED <<profile, reads, sweep>>
        /\ Here(req[c].by, req[c].to)
        /\ req[c].parent # None => InsiderOf(req[c].by, req[c].parent)
    BY DEF SendStore, IInv, PendingSound, RequestSound
  <1>7. \A k \in DOMAIN sent' : Here(sent[k].from, sent[k].to)'
    BY <1>2, <1>6 DEF IInv, Here
  <1>8. TurnKeepsItsPlace'
    <2>1. obj = [obj EXCEPT !.retracted = obj.retracted]
      OBVIOUS
    <2>2. \A k \in DOMAIN objects : k \in DOMAIN sent
      BY DEF IInv, TypeInv, TypeOK
    <2> QED  BY <1>2, <1>3, <2>1, <2>2 DEF IInv, TurnKeepsItsPlace
  <1>9. AttachedByParty'
    <2> SUFFICES ASSUME NEW k \in DOMAIN sent', sent'[k].parent # None
                 PROVE  InsiderOf(sent[k].from, sent[k].parent)'
      BY DEF AttachedByParty, InsiderOf
    <2>1. CASE k = m
      <3>1. sent'[k].from = req[c].by /\ sent'[k].parent = req[c].parent
        BY <1>2, <2>1
      <3>2. InsiderOf(req[c].by, req[c].parent)
        BY <1>6, <3>1
      <3> QED  BY <1>5, <3>1, <3>2 DEF InsiderOf, Insiders, Parties
    <2>2. CASE k # m
      <3>1. k \in DOMAIN sent /\ sent'[k] = sent[k]
        BY <1>2, <2>2
      <3>2. InsiderOf(sent[k].from, sent[k].parent)
        BY <3>1 DEF IInv, AttachedByParty, InsiderOf
      <3> QED  BY <1>5, <3>1, <3>2 DEF InsiderOf, Insiders, Parties
    <2> QED  BY <2>1, <2>2
  <1>10. ReadersAreParties'
    BY <1>2, <1>5, <1>6 DEF IInv, ReadersAreParties, InsiderOf
  <1>11. PendingSound'
    <2> SUFFICES ASSUME NEW d \in Clients PROVE RequestSound(req[d])'
      BY DEF PendingSound
    <2>1. req'[d] = req[d] \/ req'[d].stage \in {"idle", "answered"}
      BY DEF SendStore, IInv, TypeInv, TypeOK, Idle
    <2>2. RequestSound(req[d])
      BY DEF IInv, PendingSound
    <2>3. req[d].stage = "retract" => req[d].target \in DOMAIN sent
      BY DEF IInv, TypeInv, PendingOK
    <2>4. CASE req'[d] = req[d]
      BY <1>2, <1>5, <1>6, <2>2, <2>3, <2>4 DEF RequestSound, InsiderOf, Insiders, Parties, Here
    <2>5. CASE req'[d].stage \in {"idle", "answered"}
      BY <2>5 DEF RequestSound
    <2> QED  BY <2>1, <2>4, <2>5
  <1>12. ListedSound'
    BY <1>6 DEF SendStore, IInv, ListedSound
  <1> QED  BY <1>7, <1>8, <1>9, <1>10, <1>11, <1>12 DEF IInv

LEMMA IInvNext == IInv /\ [Next]_vars => IInv'
  <1> SUFFICES ASSUME IInv, [Next]_vars PROVE IInv'
    OBVIOUS
  <1>0. TypeInv'
    BY TypeNext DEF IInv
  <1>1. ASSUME NEW a \in Names, Join(a) PROVE IInv'
    <2>1. ListedSound'
      BY <1>1 DEF Join, Put, IInv, ListedSound
    <2> QED  BY <1>0, <1>1, <2>1, ProfileStep DEF Join, Put
  <1>2. ASSUME NEW a \in Names, NEW groups \in SUBSET Groups, UpdateProfile(a, groups)
        PROVE IInv'
    <2>1. ListedSound'
      BY <1>2 DEF UpdateProfile, Put, IInv, ListedSound
    <2> QED  BY <1>0, <1>2, <2>1, ProfileStep DEF UpdateProfile, Put
  <1>3. ASSUME NEW c \in Clients, SendLook(c) PROVE IInv'
    BY <1>0, <1>3, ResolveSound DEF SendLook
  <1>4. ASSUME NEW c \in Clients, SendStore(c) PROVE IInv'
    BY <1>0, <1>4, StoreSound
  <1>5. ASSUME NEW c \in Clients, ReadLook(c) PROVE IInv'
    BY <1>0, <1>5, LookSound DEF ReadLook
  <1>6. ASSUME NEW c \in Clients, MarkRead(c) PROVE IInv'
    <2>1. RequestSound(req[c])
      BY DEF IInv, PendingSound
    <2>2. InsiderOf(req[c].by, req[c].target)
      BY <1>6, <2>1 DEF MarkRead, RequestSound
    <2>3. ReadersAreParties'
      <3>1. \A row \in reads' : InsiderOf(row[2], row[1])
        BY <1>6, <2>2 DEF MarkRead, Acknowledged, IInv, ReadersAreParties, InsiderOf
      <3>2. UNCHANGED <<sent, listed>>
        BY <1>6 DEF MarkRead
      <3>3. \A a, k : InsiderOf(a, k) => InsiderOf(a, k)'
        BY <3>2, InsidersKept
      <3> QED  BY <3>1, <3>3 DEF ReadersAreParties, InsiderOf
    <2>4. ASSUME NEW d \in Clients PROVE RequestSound(req[d])'
      <3>1. req'[d] = req[d] \/ req'[d].stage = "idle"
        BY <1>6 DEF MarkRead, IInv, TypeInv, TypeOK, Idle
      <3>2. CASE req'[d] = req[d]
        BY <1>6, <3>2, SoundStays DEF MarkRead
      <3>3. CASE req'[d].stage = "idle"
        BY <3>3 DEF RequestSound
      <3> QED  BY <3>1, <3>2, <3>3
    <2> QED
      BY <1>0, <1>6, <2>3, <2>4
         DEF MarkRead, IInv, TurnKeepsItsPlace, AttachedByParty, PendingSound, ListedSound, Here, Insiders, Parties
  <1>7. ASSUME NEW c \in Clients, ReplyLook(c) PROVE IInv'
    <2>1. PICK r : r.stage = "compose" /\ req' = [req EXCEPT ![c] = r]
      BY <1>7 DEF ReplyLook, Idle
    <2>2. RequestSound(r)
      BY <2>1 DEF RequestSound
    <2> QED  BY <1>0, <1>7, <2>1, <2>2, RequestStep DEF ReplyLook
  <1>8. ASSUME NEW c \in Clients, ReplySend(c) PROVE IInv'
    <2>1. /\ req[c].by \in Authors
          /\ req[c].to \in SUBSET (Names \cup Groups \cup {Everyone} \cup Remotes)
          /\ req[c].target \in Ids \cup {None}
      BY <1>8 DEF ReplySend, IInv, TypeInv, TypeOK, PendingOK, Request, Authors
    <2> QED  BY <1>0, <1>8, <2>1, ResolveSound DEF ReplySend
  <1>9. ASSUME NEW c \in Clients, ReplyMark(c) PROVE IInv'
    BY <1>0, <1>9, LookSound DEF ReplyMark
  <1>10. ASSUME NEW c \in Clients, RetractLook(c) PROVE IInv'
    <2>1. PICK by \in DOMAIN profile, m \in DOMAIN objects :
             req' = [req EXCEPT ![c] =
                       [Idle EXCEPT !.stage = "retract", !.by = by, !.target = m,
                                    !.copy = objects[m]]]
      BY <1>10 DEF RetractLook
    <2> DEFINE r == [Idle EXCEPT !.stage = "retract", !.by = by, !.target = m,
                                 !.copy = objects[m]]
    <2>2. objects[m] = [sent[m] EXCEPT !.retracted = objects[m].retracted]
      BY DEF IInv, TurnKeepsItsPlace
    <2>3. RequestSound(r)
      BY <2>2 DEF RequestSound, Idle
    <2> QED  BY <1>0, <1>10, <2>1, <2>3, RequestStep DEF RetractLook
  <1>11. ASSUME NEW c \in Clients, RetractStore(c) PROVE IInv'
    <2> DEFINE m == req[c].target
    <2>1. /\ m \in DOMAIN sent /\ req[c].copy \in Message /\ sent[m] \in Message
          /\ req[c].copy = [sent[m] EXCEPT !.retracted = req[c].copy.retracted]
      BY <1>11 DEF RetractStore, IInv, TypeInv, TypeOK, PendingOK, PendingSound, RequestSound
    <2>2. /\ DOMAIN objects' = DOMAIN objects \cup {m}
          /\ objects'[m] = [req[c].copy EXCEPT !.retracted = req[c].by]
          /\ \A k \in DOMAIN objects \ {m} : objects'[k] = objects[k]
      BY <1>11 DEF RetractStore, Put, Tombstone
    <2>3. objects'[m] = [sent[m] EXCEPT !.retracted = objects'[m].retracted]
      BY <2>1, <2>2 DEF Message
    <2>4. TurnKeepsItsPlace'
      BY <1>11, <2>2, <2>3 DEF RetractStore, IInv, TurnKeepsItsPlace
    <2>5. ASSUME NEW d \in Clients PROVE RequestSound(req[d])'
      <3>1. req'[d] = req[d] \/ req'[d].stage = "idle"
        BY <1>11 DEF RetractStore, IInv, TypeInv, TypeOK, Idle
      <3>2. CASE req'[d] = req[d]
        BY <1>11, <3>2, SoundStays DEF RetractStore
      <3>3. CASE req'[d].stage = "idle"
        BY <3>3 DEF RequestSound
      <3> QED  BY <3>1, <3>2, <3>3
    <2> QED
      BY <1>0, <1>11, <2>4, <2>5
         DEF RetractStore, IInv, AttachedByParty, ReadersAreParties, PendingSound, ListedSound, Here, Insiders, Parties
  <1>12. ASSUME NEW c \in Clients, Abandon(c) PROVE IInv'
    BY <1>0, <1>12, IdleIsSound, RequestStep DEF Abandon
  <1>13. ASSUME NEW s \in Sweepers, PurgeLook(s) \/ PurgeFails(s) PROVE IInv'
    BY <1>0, <1>13
       DEF PurgeLook, PurgeFails, IInv, TurnKeepsItsPlace, AttachedByParty,
           ReadersAreParties, PendingSound, RequestSound, ListedSound, Here, InsiderOf,
           Insiders, Parties
  <1>14. ASSUME NEW s \in Sweepers, PurgeRemove(s) PROVE IInv'
    <2>1. TurnKeepsItsPlace'
      BY <1>14 DEF PurgeRemove, Drop, IInv, TurnKeepsItsPlace
    <2>2. ReadersAreParties'
      BY <1>14 DEF PurgeRemove, IInv, ReadersAreParties, Insiders, Parties
    <2> QED
      BY <1>0, <1>14, <2>1, <2>2
         DEF PurgeRemove, IInv, AttachedByParty, PendingSound, RequestSound, ListedSound, Here,
             InsiderOf, Insiders, Parties
  <1>15. CASE Restart
    <2>1. PendingSound'
      BY <1>15 DEF Restart, Idle, PendingSound, RequestSound
    <2> QED
      BY <1>0, <1>15, <2>1
         DEF Restart, IInv, TurnKeepsItsPlace, AttachedByParty, ReadersAreParties, ListedSound, Here, Insiders, Parties
  <1>16. CASE Tick
    BY <1>0, <1>16
       DEF Tick, IInv, TurnKeepsItsPlace, AttachedByParty, ReadersAreParties,
           PendingSound, RequestSound, ListedSound, Here, InsiderOf, Insiders, Parties
  <1>17. CASE UNCHANGED vars
    BY <1>0, <1>17
       DEF vars, IInv, TurnKeepsItsPlace, AttachedByParty, ReadersAreParties,
           PendingSound, RequestSound, ListedSound, Here, InsiderOf, Insiders, Parties
  <1> QED
    BY <1>1, <1>2, <1>3, <1>4, <1>5, <1>6, <1>7, <1>8, <1>9, <1>10, <1>11, <1>12,
       <1>13, <1>14, <1>15, <1>16, <1>17 DEF Next, Client, Sweep

\* The strengthening holds in every state of every behaviour.
THEOREM Inductive == Spec => []IInv
  BY IInvInit, IInvNext, PTL DEF Spec

\* However profiles change, the actors that stored mail resolves to differ from
\* those it was sent to only where somebody lists the name of one as a group
\* (mailbox.py, the audience resolved at send time; rules.resolve_audience).
THEOREM AudienceIsSettled == Spec => []AudienceSettled
  <1>1. IInv => AudienceSettled
    BY SettledByIInv
  <1> QED  BY <1>1, Inductive, PTL

\* No turn is placed in a conversation by an actor who was no party to it and
\* had listed the name of none, although the check and the write are separate
\* steps (rules.may_attach_to).
THEOREM TurnsAttachByParties == Spec => []AttachedByParty
  <1>1. IInv => AttachedByParty
    BY DEF IInv
  <1> QED  BY <1>1, Inductive, PTL

\* Every read row is of a party to the message it acknowledges, or of an actor
\* that had listed the name of one as a group.
THEOREM ReadsAreByParties == Spec => []ReadersAreParties
  <1>1. IInv => ReadersAreParties
    BY DEF IInv
  <1> QED  BY <1>1, Inductive, PTL

\* A reader is never shown the id of a parent that is not its own mail, or that
\* of an actor whose name it had listed as a group.
THEOREM ParentsStayHidden == Spec => []NoForeignParentShown
  <1>1. IInv => NoForeignParentShown
    BY DEF IInv, PendingSound, RequestSound, InsiderOf, NoForeignParentShown
  <1> QED  BY <1>1, Inductive, PTL

\* Mail leaves an inbox by its reader's own act, by expiry, or because the name
\* of an actor is, or no longer is, listed as a group: no send, retraction or
\* acknowledgement of another actor consumes it, and no other change of a
\* profile (rules.unread, Mailbox.mark_read_for).
THEOREM MailWaitsForItsReader == Spec => NothingVanishes
  <1>1. IInv /\ IInv' /\ [Next]_vars =>
          [\A a \in DOMAIN profile :
             \A m \in Waiting(a) \ Waiting(a)' :
                \/ m \notin DOMAIN objects'
                \/ \E c \in Clients : /\ req[c].stage = "mark"
                                      /\ req[c].by = a /\ req[c].target = m
                \/ a \in sent[m].to /\ Shadowed(a)'
                \/ a \notin sent[m].to /\ profile[a]' # profile[a]]_vars
    <2> SUFFICES ASSUME IInv, IInv', [Next]_vars, NEW a \in DOMAIN profile,
                        NEW m \in Waiting(a) \ Waiting(a)', m \in DOMAIN objects'
                 PROVE  \/ \E c \in Clients : /\ req[c].stage = "mark"
                                              /\ req[c].by = a /\ req[c].target = m
                        \/ a \in sent[m].to /\ Shadowed(a)'
                        \/ a \notin sent[m].to /\ profile[a]' # profile[a]
      OBVIOUS
    <2>1. /\ m \in DOMAIN objects
          /\ a \in RecipientsOf(objects[m], profile) /\ <<m, a>> \notin reads
      BY DEF Waiting
    <2>2. /\ m \in DOMAIN sent /\ objects[m] \in Message
          /\ objects[m].from = sent[m].from /\ objects[m].to = sent[m].to
      BY <2>1, StoredAsSent
    <2>3. sent'[m] = sent[m] /\ a \in DOMAIN profile'
      BY <2>1, <2>2, StepsKeep, NobodyLeaves DEF IInv
    <2>4. /\ objects'[m] \in Message
          /\ objects'[m].from = sent[m].from /\ objects'[m].to = sent[m].to
      <3>1. objects'[m] \in Message /\ sent'[m] \in Message
        BY DEF IInv, TypeInv, TypeOK
      <3>2. objects'[m] = [sent'[m] EXCEPT !.retracted = objects'[m].retracted]
        BY DEF IInv, TurnKeepsItsPlace
      <3> QED  BY <2>3, <3>1, <3>2 DEF Message
    <2>5. CASE a \in RecipientsOf(objects'[m], profile')
      <3>1. <<m, a>> \in reads'
        BY <2>5 DEF Waiting
      <3>2. PICK c \in Clients : /\ req[c].stage = "mark"
                                 /\ <<m, a>> = <<req[c].target, req[c].by>>
        BY <2>1, <3>1, StepsKeep DEF IInv
      <3> QED  BY <3>2
    <2>6. CASE a \in sent[m].to /\ a \notin RecipientsOf(objects'[m], profile')
      BY <2>3, <2>4, <2>6, NamedIsReached DEF Shadowed
    <2>7. CASE a \notin sent[m].to /\ a \notin RecipientsOf(objects'[m], profile')
      <3>1. PICK n \in sent[m].to : n \in profile[a] /\ a # sent[m].from
        BY <2>1, <2>2, <2>7, ReachedThroughAName
      <3>2. n \notin profile'[a]
        BY <2>3, <2>4, <2>7, <3>1, ListedIsReached
      <3> QED  BY <2>7, <3>1, <3>2
    <2> QED  BY <2>5, <2>6, <2>7
  <1> QED  BY <1>1, Inductive, PTL DEF NothingVanishes, Spec
=============================================================================
