----------------------------- MODULE HubProofs -----------------------------
(***************************************************************************)
(* Proofs about the hub's smaller parts, for any values of the constants.  *)
(* Each part has an inductive invariant of its own; at the end each is     *)
(* carried over to the behaviours of Hub, whose steps are the part's or    *)
(* leave it alone.  ReadingProofs has what is proved of the views, and     *)
(* DeliveryProofs what is proved of mail to another hub.                   *)
(***************************************************************************)
EXTENDS Hub, ReadingProofs

-----------------------------------------------------------------------------
(* The connection to the database (SqliteConnection)                       *)
(*                                                                         *)
(* What a caller was told is stored is lost in one way only: another       *)
(* operation of the same connection had a statement that failed, and       *)
(* rolled the common transaction back.  The invariant follows the rows of  *)
(* an operation from their statement to its commit: they are in the open   *)
(* transaction, which is then of the operation's own connection, or on     *)
(* disk, put there by somebody else's commit, or somebody rolled them      *)
(* back.                                                                   *)

\* The rows an operation has written so far.
Written(c) == {written \in Rows(c) : written[2] <= ran[c]}

\* They are kept, for as long as nobody rolls them back.
Kept(c) ==
    /\ stage[c] = "running" => Written(c) \subseteq pending \cup disk \/ Disturbed(c)
    /\ told[c] = "done" => Rows(c) \subseteq disk \/ Disturbed(c)

\* How far an operation is, at each stage.
Staged(c) ==
    /\ stage[c] = "waiting" => ran[c] = 0
    /\ stage[c] = "undoing" => ran[c] < Length(c)
    /\ told[c] # "nothing" => stage[c] = "over"

\* The open transaction holds the rows of its connection's operations.
OneHolder == \A c \in Operations : Rows(c) \cap pending # {} => On[c] = writer

ConnectionInv == TypeOK /\ OneHolder /\ \A c \in Operations : Kept(c) /\ Staged(c)

----------------------------------------------------------------------------

LEMMA ProgramType ==
    ASSUME NEW c \in Operations
    PROVE  /\ Length(c) \in Nat
           /\ \A i \in 1 .. Length(c) : Program[c][i] \in {"read", "write"}
           /\ On[c] \in Connections
  BY ConnectionConstants DEF Length

\* An operation that has failed stays so: the loss it explains, it explains
\* for good.
LEMMA DisturbedStays ==
    ASSUME ConnectionInv, [Next]_vars, NEW c \in Operations, Disturbed(c) PROVE Disturbed(c)'
  <1>1. PICK d \in Operations \ {c} :
            On[d] = On[c] /\ told[d] = "failed" /\ ran[d] < Length(d)
    BY DEF Disturbed
  <1>2. stage[d] = "over"
    BY <1>1 DEF ConnectionInv, Staged
  <1>3. told'[d] = "failed" /\ ran'[d] = ran[d]
    <2>1. ASSUME NEW e \in Operations, Begin(e) \/ Work(e)
          PROVE  told'[d] = told[d] /\ ran'[d] = ran[d]
      BY <1>1, <1>2, <2>1
         DEF Begin, Work, Execute, Raise, Cancel, Rollback, Commit, CommitRaises, Return,
             Running, Over, ConnectionInv, TypeOK
    <2>2. CASE Crash \/ UNCHANGED vars
      BY <1>1, <2>2 DEF Crash, vars
    <2> QED  BY <1>1, <2>1, <2>2 DEF Next
  <1> QED  BY <1>1, <1>3 DEF Disturbed, Length

LEMMA ConnectionInit == Init => ConnectionInv
  <1> SUFFICES ASSUME Init PROVE ConnectionInv
    OBVIOUS
  <1>1. TypeOK
    BY ProgramType DEF Init, TypeOK
  <1>2. OneHolder
    BY DEF Init, OneHolder
  <1>3. \A c \in Operations : Kept(c) /\ Staged(c)
    BY DEF Init, Kept, Staged
  <1> QED  BY <1>1, <1>2, <1>3 DEF ConnectionInv

\* A statement adds its row to the transaction, which is then its own
\* connection's, and takes none away.
LEMMA StatementAdds ==
    ASSUME ConnectionInv, NEW c \in Operations, Running(c),
           Executed(c) \/ UNCHANGED <<writer, pending>>
    PROVE  /\ pending \subseteq pending'
           /\ pending' \subseteq AllRows
           /\ \A written \in pending' \ pending : written = <<c, ran[c] + 1>>
           /\ writer' \in Connections \cup {Nobody}
           /\ writer' = Nobody => pending' = {}
           /\ writer # Nobody => writer' = writer
           /\ pending' # pending => writer' = On[c]
           /\ Executed(c) /\ Program[c][ran[c] + 1] = "write"
                => <<c, ran[c] + 1>> \in pending'
  <1> DEFINE i == ran[c] + 1
  <1>1. i \in 1 .. Length(c) /\ TypeOK
    BY ProgramType DEF Running, ConnectionInv, TypeOK
  <1>2. CASE UNCHANGED <<writer, pending>> /\ ~Executed(c)
    BY <1>1, <1>2 DEF TypeOK
  <1>3. CASE Executed(c) /\ Program[c][i] = "read"
    BY <1>1, <1>3 DEF TypeOK, Executed
  <1>4. CASE Executed(c) /\ Program[c][i] = "write"
    <2>1. /\ writer \in {Nobody, On[c]} /\ writer' = On[c]
          /\ pending' = pending \cup {<<c, i>>}
      BY <1>4 DEF Executed
    <2>2. <<c, i>> \in AllRows
      BY <1>1, <1>4 DEF AllRows, Rows
    <2> QED  BY <1>1, <1>4, <2>1, <2>2, ProgramType, ConnectionConstants DEF TypeOK
  <1> QED  BY <1>1, <1>2, <1>3, <1>4, ProgramType

LEMMA StatementHolder ==
    ASSUME ConnectionInv, NEW c \in Operations, Running(c),
           Executed(c) \/ UNCHANGED <<writer, pending>>
    PROVE  OneHolder'
  <1> SUFFICES ASSUME NEW d \in Operations, NEW written \in Rows(d), written \in pending'
               PROVE  On[d] = writer'
    BY DEF OneHolder, Rows, Length
  <1>1. written[1] = d
    BY DEF Rows
  <1>2. CASE written \in pending
    <2>1. On[d] = writer
      BY <1>2 DEF ConnectionInv, OneHolder
    <2> QED  BY <2>1, StatementAdds, ProgramType, ConnectionConstants
  <1>3. CASE written \notin pending
    <2>1. written = <<c, ran[c] + 1>> /\ pending' # pending
      BY <1>3, StatementAdds
    <2>2. d = c
      BY <1>1, <2>1
    <2>3. writer' = On[c]
      BY <2>1, StatementAdds
    <2> QED  BY <2>2, <2>3
  <1> QED  BY <1>2, <1>3

LEMMA ExecuteInv ==
    ASSUME ConnectionInv, NEW c \in Operations, Execute(c) PROVE ConnectionInv'
  <1> DEFINE i == ran[c] + 1
  <1>1. /\ TypeOK /\ i \in 1 .. Length(c)
        /\ Running(c) /\ Executed(c)
        /\ stage' = stage /\ told' = told /\ disk' = disk
        /\ ran' = [ran EXCEPT ![c] = i]
    BY ProgramType DEF Execute, Running, ConnectionInv, TypeOK
  <1>2. TypeOK'
    <2>1. ran' \in [Operations -> Nat] /\ \A d \in Operations : ran'[d] <= Length(d)
      BY <1>1, ProgramType DEF TypeOK
    <2> QED  BY <1>1, <2>1, StatementAdds DEF TypeOK, AllRows, Rows, Length
  <1>3. ASSUME NEW d \in Operations PROVE Kept(d)'
    <2>1. Kept(d) /\ Rows(d)' = Rows(d) /\ (Disturbed(d) => Disturbed(d)')
      BY DisturbedStays DEF ConnectionInv, Rows, Length, Next, Work
    <2>2. ASSUME Written(d) \subseteq pending \cup disk, NEW written \in Rows(d), written[2] <= ran'[d]
          PROVE  written \in pending' \cup disk
      <3>1. written = <<d, written[2]>> /\ written[2] \in 1 .. Length(d) /\ Program[d][written[2]] = "write"
        BY DEF Rows
      <3>2. CASE written[2] <= ran[d]
        BY <1>1, <2>2, <3>2, StatementAdds DEF Written
      <3>3. CASE ~(written[2] <= ran[d])
        <4>1. d = c /\ written[2] = i
          BY <1>1, <2>2, <3>1, <3>3, ProgramType DEF TypeOK
        <4> QED  BY <1>1, <3>1, <4>1, StatementAdds
      <3> QED  BY <3>2, <3>3
    <2>3. stage'[d] = "running" => Written(d)' \subseteq pending' \cup disk' \/ Disturbed(d)'
      BY <1>1, <2>1, <2>2 DEF Written, Kept
    <2> QED  BY <1>1, <2>1, <2>3 DEF Kept
  <1>4. ASSUME NEW d \in Operations PROVE Staged(d)'
    <2>1. Staged(d)
      BY DEF ConnectionInv
    <2> QED  BY <1>1, <2>1, ProgramType DEF Staged, Running, TypeOK, Length
  <1> QED  BY <1>1, <1>2, <1>3, <1>4, StatementHolder DEF ConnectionInv

\* A statement that raises or is cancelled has not been counted as executed.
LEMMA StopInv ==
    ASSUME ConnectionInv, NEW c \in Operations, Raise(c) \/ Cancel(c) PROVE ConnectionInv'
  <1>1. /\ TypeOK /\ Running(c)
        /\ Executed(c) \/ UNCHANGED <<writer, pending>>
        /\ stage' = [stage EXCEPT ![c] = "undoing"]
        /\ UNCHANGED <<ran, told, disk>>
    BY DEF Raise, Cancel, ConnectionInv
  <1>2. TypeOK'
    BY <1>1, StatementAdds DEF TypeOK, AllRows, Rows, Length
  <1>3. ASSUME NEW d \in Operations PROVE Kept(d)' /\ Staged(d)'
    <2>1. /\ Kept(d) /\ Staged(d) /\ Rows(d)' = Rows(d) /\ Written(d)' = Written(d)
          /\ Disturbed(d) => Disturbed(d)'
      BY <1>1, DisturbedStays DEF ConnectionInv, Rows, Length, Written, Next, Work
    <2>2. Kept(d)'
      BY <1>1, <2>1, StatementAdds DEF Kept, TypeOK
    <2>3. Staged(d)'
      BY <1>1, <2>1 DEF Staged, Running, TypeOK, Length
    <2> QED  BY <2>2, <2>3
  <1> QED  BY <1>1, <1>2, <1>3, StatementHolder DEF ConnectionInv

\* A rollback takes the rows of its own connection's operations only, and
\* tells its own caller so.
LEMMA RollbackInv ==
    ASSUME ConnectionInv, NEW c \in Operations, Rollback(c) PROVE ConnectionInv'
  <1>1. /\ TypeOK /\ Over(c, "failed") /\ RolledBack(c)
        /\ stage[c] = "undoing" /\ UNCHANGED <<ran, disk>>
        /\ ran[c] < Length(c)
    BY DEF Rollback, ConnectionInv, Staged
  <1>2. TypeOK' /\ OneHolder'
    <2>1. \A d \in Operations : Rows(d)' = Rows(d)
      BY DEF Rows, Length
    <2> QED  BY <1>1, <2>1, ProgramType DEF RolledBack, Over, ConnectionInv, TypeOK, OneHolder, AllRows, Rows, Length
  <1>3. ASSUME NEW d \in Operations PROVE Kept(d)' /\ Staged(d)'
    <2>1. /\ Kept(d) /\ Staged(d) /\ Rows(d)' = Rows(d) /\ Written(d)' = Written(d)
          /\ Disturbed(d) => Disturbed(d)'
      BY <1>1, DisturbedStays DEF ConnectionInv, Rows, Length, Written, Next, Work
    <2>2. Staged(d)'
      BY <1>1, <2>1 DEF Staged, Over, TypeOK, Length
    <2>3. CASE d = c
      BY <1>1, <2>1, <2>2, <2>3 DEF Kept, Over, TypeOK
    <2>4. CASE d # c /\ On[d] = On[c]
      <3>1. Disturbed(d)'
        BY <1>1, <2>4 DEF Disturbed, Over, TypeOK, Length
      <3> QED  BY <2>2, <3>1 DEF Kept
    <2>5. CASE d # c /\ On[d] # On[c]
      <3>1. Written(d) \subseteq pending \cup disk => Written(d) \subseteq pending' \cup disk
        BY <1>1, <2>5 DEF RolledBack, ConnectionInv, OneHolder, Written
      <3> QED  BY <1>1, <2>1, <2>2, <2>5, <3>1 DEF Kept, Over, TypeOK
    <2> QED  BY <2>2, <2>3, <2>4, <2>5
  <1> QED  BY <1>2, <1>3 DEF ConnectionInv

\* A commit, of whichever operation, puts the transaction on disk; rows the
\* committer no longer has in it were there already.
LEMMA CommitInv ==
    ASSUME ConnectionInv, NEW c \in Operations, Commit(c) PROVE ConnectionInv'
  <1>1. /\ TypeOK /\ Committed(c) /\ ran' = ran
        /\ Over(c, "done") \/ Over(c, "cancelled")
        /\ stage[c] = "running" /\ ran[c] = Length(c)
    BY DEF Commit, ConnectionInv
  <1>2. /\ disk \cup pending = disk' \cup pending'
        /\ disk \subseteq disk' /\ pending' \subseteq pending
        /\ writer' \in Connections \cup {Nobody}
        /\ writer' = Nobody => pending' = {}
        /\ writer' = writer \/ pending' = {}
        /\ On[c] # writer'
    BY <1>1, ProgramType, ConnectionConstants DEF Committed, TypeOK
  <1>3. TypeOK' /\ OneHolder'
    <2>1. \A d \in Operations : Rows(d)' = Rows(d)
      BY DEF Rows, Length
    <2>2. TypeOK'
      BY <1>1, <1>2, <2>1, ProgramType DEF Over, TypeOK, AllRows, Rows, Length
    <2>3. OneHolder'
      BY <1>2, <2>1 DEF ConnectionInv, OneHolder
    <2> QED  BY <2>2, <2>3
  <1>4. ASSUME NEW d \in Operations PROVE Kept(d)' /\ Staged(d)'
    <2>1. /\ Kept(d) /\ Staged(d) /\ Rows(d)' = Rows(d) /\ Written(d)' = Written(d)
          /\ Disturbed(d) => Disturbed(d)'
      BY <1>1, DisturbedStays DEF ConnectionInv, Rows, Length, Written, Next, Work
    <2>2. Staged(d)'
      BY <1>1, <2>1 DEF Staged, Over, TypeOK, Length
    <2>3. CASE d = c
      <3>1. Written(c) = Rows(c)
        BY <1>1, ProgramType DEF Written, Rows
      <3>2. Rows(c) \cap pending' = {}
        BY <1>2, <1>3, <2>1, <2>3 DEF OneHolder
      <3> QED  BY <1>1, <1>2, <2>1, <2>2, <2>3, <3>1, <3>2 DEF Kept, Over, TypeOK
    <2>4. CASE d # c
      BY <1>1, <1>2, <2>1, <2>2, <2>4 DEF Kept, Over, TypeOK
    <2> QED  BY <2>2, <2>3, <2>4
  <1> QED  BY <1>3, <1>4 DEF ConnectionInv

\* What only begins an operation, or ends it, leaves the rows alone.
LEMMA OtherInv ==
    ASSUME ConnectionInv, NEW c \in Operations, Begin(c) \/ CommitRaises(c) \/ Return(c)
    PROVE  ConnectionInv'
  <1>1. TypeOK /\ UNCHANGED <<ran, writer, pending, disk>>
    BY DEF ConnectionInv, Begin, CommitRaises, Return
  <1>2. TypeOK' /\ OneHolder'
    BY <1>1 DEF Begin, CommitRaises, Return, Over, ConnectionInv, TypeOK, OneHolder, AllRows, Rows, Length
  <1>3. ASSUME NEW d \in Operations PROVE Kept(d)' /\ Staged(d)'
    <2>1. /\ Kept(d) /\ Staged(d) /\ Rows(d)' = Rows(d) /\ Written(d)' = Written(d)
          /\ Disturbed(d) => Disturbed(d)'
      BY <1>1, DisturbedStays DEF ConnectionInv, Rows, Length, Written, Next, Work
    <2>2. CASE Begin(c)
      <3>1. ran[d] = 0 => Written(d) = {}
        BY DEF Written, Rows
      <3> QED  BY <1>1, <2>1, <2>2, <3>1 DEF Begin, Kept, Staged, TypeOK, Length
    <2>3. CASE CommitRaises(c)
      BY <1>1, <2>1, <2>3 DEF CommitRaises, Over, Kept, Staged, TypeOK, Length
    <2>4. CASE Return(c)
      BY <1>1, <2>1, <2>4 DEF Return, Over, Kept, Staged, TypeOK, Length
    <2> QED  BY <2>2, <2>3, <2>4
  <1> QED  BY <1>2, <1>3 DEF ConnectionInv

\* A crash takes the transaction, and every operation that had a row in it.
LEMMA CrashInv ==
    ASSUME ConnectionInv, Crash PROVE ConnectionInv'
  <1>1. TypeOK' /\ OneHolder'
    BY DEF Crash, ConnectionInv, TypeOK, OneHolder, AllRows, Rows, Length
  <1>2. ASSUME NEW d \in Operations PROVE Kept(d)' /\ Staged(d)'
    <2>1. /\ Kept(d) /\ Staged(d) /\ Rows(d)' = Rows(d)
          /\ Disturbed(d) => Disturbed(d)'
      BY DisturbedStays DEF ConnectionInv, Rows, Length, Next
    <2>2. /\ stage'[d] \notin {"running", "undoing"}
          /\ stage'[d] = "waiting" => stage[d] = "waiting"
          /\ stage[d] = "over" => stage'[d] = "over"
      BY DEF Crash
    <2> QED  BY <2>1, <2>2 DEF Crash, Kept, Staged
  <1> QED  BY <1>1, <1>2 DEF ConnectionInv

LEMMA ConnectionNext == ConnectionInv /\ [Next]_vars => ConnectionInv'
  <1> SUFFICES ASSUME ConnectionInv, [Next]_vars PROVE ConnectionInv'
    OBVIOUS
  <1>1. ASSUME NEW c \in Operations, Begin(c) \/ Work(c) PROVE ConnectionInv'
    BY <1>1, ExecuteInv, StopInv, RollbackInv, CommitInv, OtherInv DEF Work
  <1>2. CASE UNCHANGED vars
    <2>1. \A c \in Operations : /\ Written(c)' = Written(c) /\ Rows(c)' = Rows(c)
                                /\ Length(c)' = Length(c) /\ Disturbed(c)' = Disturbed(c)
      BY <1>2 DEF vars, Written, Rows, Length, Disturbed
    <2>2. AllRows' = AllRows
      BY <2>1 DEF AllRows
    <2> QED  BY <1>2, <2>1, <2>2 DEF vars, ConnectionInv, TypeOK, OneHolder, Kept, Staged
  <1> QED  BY <1>1, <1>2, CrashInv DEF Next

----------------------------------------------------------------------------

\* Whatever raises, is cancelled or crashes, wherever, and whoever commits
\* first: a row whose caller was told it is stored is on disk, or another
\* operation of the same store had a statement that failed (the rollback in
\* SqliteStore._execute is for the whole connection).
THEOREM LossNeedsARollback == Spec => []OnlyARollbackLoses
  <1>1. ConnectionInv => OnlyARollbackLoses
    BY DEF ConnectionInv, Kept, OnlyARollbackLoses
  <1> QED  BY <1>1, ConnectionInit, ConnectionNext, PTL DEF Spec

----------------------------------------------------------------------------
(* When statements do not fail.                                            *)

\* Without contention for the lock, only a fault fails a statement.
StatementsSucceed ==
    /\ Faults \subseteq {"commit"}
    /\ \A c, d \in Operations : On[c] = On[d]

NoneStopped ==
    /\ ConnectionInv
    /\ writer # Nobody => \A c \in Operations : On[c] = writer
    /\ \A c \in Operations : /\ stage[c] # "undoing"
                             /\ told[c] = "failed" => ran[c] = Length(c)

LEMMA NoneStoppedNext ==
    ASSUME StatementsSucceed PROVE NoneStopped /\ [Next]_vars => NoneStopped'
  <1> SUFFICES ASSUME NoneStopped, [Next]_vars PROVE NoneStopped'
    OBVIOUS
  <1>1. ConnectionInv' /\ TypeOK
    BY ConnectionNext DEF NoneStopped, ConnectionInv
  <1>2. ASSUME NEW c \in Operations, Begin(c) \/ Work(c) PROVE NoneStopped'
    <2>1. ~Raise(c) /\ ~Cancel(c) /\ ~Rollback(c)
      BY DEF Raise, Cancel, Rollback, NoneStopped, StatementsSucceed
    <2>2. CASE Begin(c) \/ Return(c)
      BY <1>1, <2>2 DEF Begin, Return, Over, NoneStopped, TypeOK, Length
    <2>3. CASE CommitRaises(c)
      BY <1>1, <2>3 DEF CommitRaises, Over, NoneStopped, TypeOK, Length
    <2>4. CASE Commit(c)
      BY <1>1, <2>4 DEF Commit, Committed, Over, NoneStopped, TypeOK, Length
    <2>5. CASE Execute(c)
      <3>1. writer' # Nobody => \A d \in Operations : On[d] = writer'
        BY <2>5 DEF Execute, Executed, NoneStopped, StatementsSucceed
      <3>2. \A d \in Operations : told'[d] = "failed" => ran'[d] = Length(d)
        BY <1>1, <2>5 DEF Execute, Running, NoneStopped, ConnectionInv, Staged, TypeOK
      <3> QED  BY <1>1, <2>5, <3>1, <3>2 DEF Execute, NoneStopped, Length
    <2> QED  BY <1>2, <2>1, <2>2, <2>3, <2>4, <2>5 DEF Work
  <1>3. CASE Crash
    BY <1>1, <1>3 DEF Crash, NoneStopped, Length
  <1>4. CASE UNCHANGED vars
    BY <1>1, <1>4 DEF vars, NoneStopped, Length
  <1> QED  BY <1>2, <1>3, <1>4 DEF Next

\* As long as every statement succeeds, what a caller was told is done is on
\* disk, whichever operation's commit put it there, whichever commits raise
\* and wherever the process dies (SqliteStore, one connection for all
\* coroutines).  With two connections the property fails without any fault:
\* MCSqliteConnection_contended.
THEOREM DoneStaysDone == ASSUME StatementsSucceed PROVE Spec => []DoneIsDurable
  <1>1. Init => NoneStopped
    BY ConnectionInit DEF Init, NoneStopped
  <1>2. NoneStopped => DoneIsDurable
    BY ProgramType DEF NoneStopped, ConnectionInv, Kept, Disturbed, DoneIsDurable
  <1> QED  BY <1>1, <1>2, NoneStoppedNext, PTL DEF Spec

-----------------------------------------------------------------------------
(* The connection of a stream (Listeners) *)

\* The instance has a copy of FiniteSets; the theorems are about the original.
LEMMA StreamsCount ==
    \A S : /\ Streams!Cardinality(S) = Cardinality(S)
           /\ Streams!IsFiniteSet(S) <=> IsFiniteSet(S)
BY DEF Streams!Cardinality, Cardinality, Streams!IsFiniteSet, IsFiniteSet

\* What a stream was sent and what its queue holds are, in order, what was owed
\* to it without what was dropped; and no more are registered than the cap.
ListenersInv ==
    /\ conn \in [Subscribers -> Streams!Stages]
    /\ queue \in [Subscribers -> Seq(announced)]
    /\ frames \in [Subscribers -> Seq(announced)]
    /\ owed \in [Subscribers -> Seq(announced)]
    /\ dropped \in [Subscribers -> SUBSET announced]
    /\ \A c \in Subscribers : Len(queue[c]) <= QueueDepth
    /\ \A c \in Subscribers : Streams!Faithful(frames[c] \o queue[c], owed[c], dropped[c])
    /\ Streams!WithinCap

LEMMA NothingIsFaithful ==
    ASSUME NEW missing
    PROVE  Streams!Faithful(<<>> \o <<>>, <<>>, missing)
BY DEF Streams!Faithful

\* What is appended to what is owed may be appended to the queue as well,
LEMMA HeardIsFaithful ==
    ASSUME NEW S, NEW had \in Seq(S), NEW all \in Seq(S), NEW missing \in SUBSET S,
           NEW m, m \notin S, Streams!Faithful(had, all, missing)
    PROVE  Streams!Faithful(Append(had, m), Append(all, m), missing)
<1> DEFINE grown == Append(had, m)  sum == Append(all, m)
<1>1. /\ DOMAIN grown = 1..(Len(had) + 1) /\ grown[Len(had) + 1] = m
      /\ \A i \in DOMAIN had : i \in DOMAIN grown /\ grown[i] = had[i] /\ had[i] \in S
      /\ \A i \in DOMAIN grown : i \in DOMAIN had \/ i = Len(had) + 1
      /\ \A i \in DOMAIN had : i < Len(had) + 1
  OBVIOUS
<1>2. /\ DOMAIN sum = 1..(Len(all) + 1) /\ sum[Len(all) + 1] = m
      /\ \A i \in DOMAIN all : i \in DOMAIN sum /\ sum[i] = all[i] /\ all[i] \in S /\ i < Len(all) + 1
      /\ \A i \in DOMAIN sum : i \in DOMAIN all \/ i = Len(all) + 1
  OBVIOUS
<1> HIDE DEF grown, sum
<1>3. ASSUME NEW i \in DOMAIN grown PROVE grown[i] \notin missing
  <2>1. CASE i \in DOMAIN had
    BY <1>1, <2>1 DEF Streams!Faithful
  <2>2. CASE i = Len(had) + 1
    BY <1>1, <2>2
  <2> QED
    BY <1>1, <2>1, <2>2
<1>4. ASSUME NEW k \in DOMAIN sum,
             sum[k] \notin missing PROVE \E i \in DOMAIN grown : grown[i] = sum[k]
  <2>1. CASE k \in DOMAIN all
    <3>1. PICK i \in DOMAIN had : had[i] = all[k]
      BY <1>2, <1>4, <2>1 DEF Streams!Faithful
    <3> QED
      BY <1>1, <1>2, <2>1, <3>1
  <2>2. CASE k = Len(all) + 1
    <3>1. Len(had) + 1 \in DOMAIN grown
      BY <1>1
    <3> QED
      BY <1>1, <1>2, <2>2, <3>1
  <2> QED
    BY <1>2, <2>1, <2>2
<1>5. \A i \in DOMAIN grown : \E k \in DOMAIN sum : grown[i] = sum[k]
  BY <1>1, <1>2 DEF Streams!Faithful
<1>6. ASSUME NEW i \in DOMAIN grown, NEW j \in DOMAIN grown, i < j
      PROVE  grown[i] # grown[j]
             /\ \E k, l \in DOMAIN sum : k < l /\ grown[i] = sum[k] /\ grown[j] = sum[l]
  <2>1. i \in DOMAIN had
    BY <1>1, <1>6
  <2>2. CASE j \in DOMAIN had
    <3>1. PICK k \in DOMAIN all, l \in DOMAIN all : k < l /\ had[i] = all[k] /\ had[j] = all[l]
      BY <1>6, <2>1, <2>2 DEF Streams!Faithful
    <3> QED
      BY <1>1, <1>2, <1>6, <2>1, <2>2, <3>1 DEF Streams!Faithful
  <2>3. CASE j = Len(had) + 1
    <3>1. PICK k \in DOMAIN all : had[i] = all[k]
      BY <2>1 DEF Streams!Faithful
    <3>2. Len(all) + 1 \in DOMAIN sum
      BY <1>2
    <3> QED
      BY <1>1, <1>2, <2>1, <2>3, <3>1, <3>2
  <2> QED
    BY <1>1, <2>2, <2>3
<1> QED
  BY <1>3, <1>4, <1>5, <1>6 DEF Streams!Faithful, grown, sum

\* or be dropped.
LEMMA DroppedIsFaithful ==
    ASSUME NEW S, NEW had \in Seq(S), NEW all \in Seq(S), NEW missing \in SUBSET S,
           NEW m, m \notin S, Streams!Faithful(had, all, missing)
    PROVE  Streams!Faithful(had, Append(all, m), missing \cup {m})
<1> DEFINE sum == Append(all, m)
<1>1. \A i \in DOMAIN had : had[i] \in S
  OBVIOUS
<1>2. /\ DOMAIN sum = 1..(Len(all) + 1) /\ sum[Len(all) + 1] = m
      /\ \A i \in DOMAIN all : i \in DOMAIN sum /\ sum[i] = all[i] /\ all[i] \in S
      /\ \A i \in DOMAIN sum : i \in DOMAIN all \/ i = Len(all) + 1
  OBVIOUS
<1> HIDE DEF sum
<1>3. ASSUME NEW i \in DOMAIN had, NEW j \in DOMAIN had, i < j
      PROVE  had[i] # had[j]
             /\ \E k, l \in DOMAIN sum : k < l /\ had[i] = sum[k] /\ had[j] = sum[l]
  <2>1. PICK k \in DOMAIN all, l \in DOMAIN all : k < l /\ had[i] = all[k] /\ had[j] = all[l]
    BY <1>3 DEF Streams!Faithful
  <2> QED
    BY <1>2, <1>3, <2>1 DEF Streams!Faithful
<1>4. \A k \in DOMAIN sum : sum[k] \notin missing \cup {m} => \E i \in DOMAIN had : had[i] = sum[k]
  BY <1>2 DEF Streams!Faithful
<1>5. \A i \in DOMAIN had : \E k \in DOMAIN sum : had[i] = sum[k]
  BY <1>2 DEF Streams!Faithful
<1>6. \A i \in DOMAIN had : had[i] \notin missing \cup {m}
  BY <1>1 DEF Streams!Faithful
<1> QED
  BY <1>3, <1>4, <1>5, <1>6 DEF Streams!Faithful, sum
LEMMA OfferOne ==
    ASSUME NEW S, NEW q \in Seq(S), NEW m, Len(q) <= QueueDepth, QueueDepth \in Nat
    PROVE  /\ Streams!Full(q) => Streams!Offer(q, m, 1) = q
           /\ ~ Streams!Full(q) => Streams!Offer(q, m, 1) = Append(q, m) /\ Len(Append(q, m)) <= QueueDepth
<1>1. CASE Streams!Full(q)
  <2>1. Streams!Offer(q, m, 1) = q \o [i \in 1..0 |-> m]
    BY <1>1 DEF Streams!Offer
  <2>2. [i \in 1..0 |-> m] = <<>>
    OBVIOUS
  <2> QED
    BY <1>1, <2>1, <2>2
<1>2. CASE ~ Streams!Full(q)
  <2>1. Len(q) \in Nat /\ ~ (QueueDepth - Len(q) <= 1 /\ QueueDepth - Len(q) # 1)
    BY <1>2 DEF Streams!Full
  <2>2. Streams!Offer(q, m, 1) = q \o [i \in 1..1 |-> m]
    BY <1>2, <2>1 DEF Streams!Offer
  <2>3. [i \in 1..1 |-> m] = <<m>>
    OBVIOUS
  <2> QED
    BY <1>2, <2>1, <2>2, <2>3 DEF Streams!Full
<1> QED
  BY <1>1, <1>2

LEMMA SameStream ==
    ASSUME NEW S, NEW first \in Seq(S), NEW rest \in Seq(S), rest # <<>>
    PROVE  Append(first, Head(rest)) \o Tail(rest) = first \o rest
OBVIOUS

LEMMA HeardLater ==
    ASSUME NEW S, NEW first \in Seq(S), NEW rest \in Seq(S), NEW all \in Seq(S),
           NEW missing \in SUBSET S, NEW m, m \notin S, Streams!Faithful(first \o rest, all, missing)
    PROVE  Streams!Faithful(first \o Append(rest, m), Append(all, m), missing)
<1>1. first \o rest \in Seq(S)
  OBVIOUS
<1>2. Streams!Faithful(Append(first \o rest, m), Append(all, m), missing)
  BY <1>1, HeardIsFaithful
<1>3. Append(first \o rest, m) = first \o Append(rest, m)
  BY SMTT(20)
<1> QED
  BY <1>2, <1>3

LEMMA AnnounceStep ==
    ASSUME Streams!ListenersConstants, ListenersInv, NEW m \in Messages,
           NEW r \in SUBSET Agents,
           Streams!Announce(m, r)
    PROVE  ListenersInv'
<1> DEFINE old == announced  hearers == {c \in Streams!Registered : Streams!Copies(c, r) > 0}
<1>1. /\ m \notin announced /\ announced' = announced \cup {m} /\ UNCHANGED <<conn, frames>>
      /\ queue' = [c \in Subscribers |-> IF c \in hearers THEN Streams!Offer(queue[c], m, Streams!Copies(c, r)) ELSE queue[c]]
      /\ owed' = [c \in Subscribers |-> IF c \in hearers THEN Append(owed[c], m) ELSE owed[c]]
      /\ dropped' = [c \in Subscribers |->
            IF c \in hearers /\ Streams!Full(queue[c]) THEN dropped[c] \cup {m} ELSE dropped[c]]
  BY DEF Streams!Announce
<1>2. ASSUME NEW c \in Subscribers
      PROVE  /\ queue'[c] \in Seq(announced') /\ frames'[c] \in Seq(announced')
             /\ owed'[c] \in Seq(announced') /\ dropped'[c] \in SUBSET announced'
             /\ Len(queue'[c]) <= QueueDepth
             /\ Streams!Faithful(frames'[c] \o queue'[c], owed'[c], dropped'[c])
  <2>1. /\ queue[c] \in Seq(announced) /\ frames[c] \in Seq(announced)
        /\ owed[c] \in Seq(announced) /\ dropped[c] \in SUBSET announced
        /\ Len(queue[c]) <= QueueDepth
        /\ Streams!Faithful(frames[c] \o queue[c], owed[c], dropped[c])
    BY DEF ListenersInv
  <2>2. /\ queue[c] \in Seq(announced') /\ frames[c] \in Seq(announced')
        /\ owed[c] \in Seq(announced') /\ dropped[c] \in SUBSET announced'
    BY <1>1, <2>1, SeqMonotonic
  <2>3. frames[c] \o queue[c] \in Seq(announced)
    BY <2>1, ConcatProperties
  <2>4. CASE c \notin hearers
    BY <1>1, <2>1, <2>2, <2>4
  <2>5. CASE c \in hearers
    <3>1. Streams!Copies(c, r) = 1 /\ QueueDepth \in Nat
      BY <2>5, StreamsCount DEF Streams!Copies, Streams!ListenersConstants
    <3>2. CASE Streams!Full(queue[c])
      <4>1. queue'[c] = queue[c] /\ frames'[c] = frames[c] /\ owed'[c] = Append(owed[c], m)
            /\ dropped'[c] = dropped[c] \cup {m}
        BY <1>1, <2>1, <2>5, <3>1, <3>2, OfferOne
      <4>2. Streams!Faithful(frames[c] \o queue[c], Append(owed[c], m), dropped[c] \cup {m})
        BY <1>1, <2>1, <2>3, DroppedIsFaithful
      <4> QED
        BY <1>1, <2>1, <2>2, <4>1, <4>2, AppendProperties
    <3>3. CASE ~ Streams!Full(queue[c])
      <4>0. m \in announced'
        BY <1>1
      <4>1. /\ queue'[c] = Append(queue[c], m) /\ frames'[c] = frames[c]
            /\ owed'[c] = Append(owed[c], m) /\ dropped'[c] = dropped[c]
            /\ Len(queue'[c]) <= QueueDepth
        BY <1>1, <2>1, <2>5, <3>1, <3>3, OfferOne
      <4>4. m \in announced'
        BY <4>0
      <4>5. Append(queue[c], m) \in Seq(announced') /\ Append(owed[c], m) \in Seq(announced')
        BY <2>2, <4>4, AppendProperties
      <4>6. Streams!Faithful(frames[c] \o Append(queue[c], m), Append(owed[c], m), dropped[c])
        BY <1>1, <2>1, HeardLater
      <4> QED
        BY <2>1, <2>2, <4>1, <4>5, <4>6
    <3> QED
      BY <3>2, <3>3
  <2> QED
    BY <2>4, <2>5
<1>3. Streams!WithinCap'
  BY <1>1, StreamsCount DEF ListenersInv, Streams!WithinCap, Streams!Registered
<1>4. /\ conn' \in [Subscribers -> Streams!Stages] /\ frames' \in [Subscribers -> Seq(announced')]
      /\ queue' \in [Subscribers -> Seq(announced')] /\ owed' \in [Subscribers -> Seq(announced')]
      /\ dropped' \in [Subscribers -> SUBSET announced']
  BY <1>1, <1>2 DEF ListenersInv
<1> QED
  BY <1>2, <1>3, <1>4 DEF ListenersInv

LEMMA ListenersInit == ASSUME Streams!ListenersConstants, Streams!Init PROVE ListenersInv
<1>1. Streams!Registered = {}
  BY DEF Streams!Init, Streams!Registered
<1>2. Streams!WithinCap
  BY <1>1, FS_EmptySet, StreamsCount DEF Streams!WithinCap, Streams!ListenersConstants
<1>3. <<>> \in Seq(announced) /\ Len(<<>>) = 0
  OBVIOUS
<1> QED
  BY <1>2, <1>3, NothingIsFaithful, StreamsCount DEF Streams!Init, ListenersInv,
     Streams!Stages, Streams!ListenersConstants

\* Everyone who is counted already was, so the cap holds on.
LEMMA FewerListeners ==
    ASSUME Streams!ListenersConstants, Streams!WithinCap,
           Streams!Registered' \subseteq Streams!Registered
    PROVE  Streams!WithinCap'
<1>1. IsFiniteSet(Streams!Registered)
  BY FS_Subset, StreamsCount DEF Streams!ListenersConstants, Streams!Registered
<1>2. /\ Cardinality(Streams!Registered') <= Cardinality(Streams!Registered)
      /\ Cardinality(Streams!Registered) \in Nat /\ Cardinality(Streams!Registered') \in Nat
  BY <1>1, FS_Subset, FS_CardinalityType
<1> QED
  BY <1>2, StreamsCount DEF Streams!WithinCap, Streams!ListenersConstants

LEMMA OpenStep ==
    ASSUME Streams!ListenersConstants, ListenersInv, NEW c \in Subscribers, Streams!Open(c)
    PROVE  ListenersInv'
<1>1. Streams!Registered' = Streams!Registered \cup {c}
  BY DEF Streams!Open, Streams!Register, Streams!Registered, ListenersInv
<1>2. c \notin Streams!Registered
  BY DEF Streams!Open, Streams!Registered
<1>3. IsFiniteSet(Streams!Registered)
  BY FS_Subset, StreamsCount DEF Streams!ListenersConstants, Streams!Registered
<1>4. Streams!WithinCap'
  <2>1. /\ Cardinality(Streams!Registered') = Cardinality(Streams!Registered) + 1
        /\ Cardinality(Streams!Registered) \in Nat
    BY <1>1, <1>2, <1>3, FS_AddElement, FS_CardinalityType
  <2>2. ~ (Cardinality(Streams!Registered) >= MaxListeners)
    BY StreamsCount DEF Streams!Open, Streams!AtCapacity
  <2> QED
    BY <2>1, <2>2, StreamsCount DEF Streams!WithinCap, Streams!ListenersConstants
<1>5. <<>> \in Seq(announced) /\ Len(<<>>) = 0
  OBVIOUS
<1>6. ASSUME NEW d \in Subscribers
      PROVE Streams!Faithful(frames'[d] \o queue'[d], owed'[d], dropped'[d])
  BY <1>5, NothingIsFaithful DEF Streams!Open, Streams!Register, ListenersInv
<1>7. /\ conn' \in [Subscribers -> Streams!Stages] /\ frames' \in [Subscribers -> Seq(announced')]
      /\ queue' \in [Subscribers -> Seq(announced')] /\ owed' \in [Subscribers -> Seq(announced')]
      /\ dropped' \in [Subscribers -> SUBSET announced']
      /\ \A d \in Subscribers : Len(queue'[d]) <= QueueDepth
  BY <1>5, StreamsCount DEF Streams!Open, Streams!Register, ListenersInv, Streams!Stages,
     Streams!ListenersConstants
<1> QED
  BY <1>4, <1>6, <1>7 DEF ListenersInv

\* The steps that leave the queues alone and register nobody.
LEMMA LeaveStep ==
    ASSUME Streams!ListenersConstants, ListenersInv, NEW c \in Subscribers,
           Streams!Ask(c) \/ Streams!Refuse(c) \/ Streams!Vanish(c) \/ Streams!Close(c)
    PROVE  ListenersInv'
<1>1. UNCHANGED <<queue, frames, owed, dropped, announced>>
  BY DEF Streams!Ask, Streams!Refuse, Streams!Vanish, Streams!Close
<1>2. conn' \in [Subscribers -> Streams!Stages] /\ Streams!Registered' \subseteq Streams!Registered
  BY DEF Streams!Ask, Streams!Refuse, Streams!Vanish, Streams!Close, ListenersInv,
     Streams!Stages, Streams!Registered
<1>3. Streams!WithinCap'
  BY <1>2, FewerListeners DEF ListenersInv
<1> QED
  BY <1>1, <1>2, <1>3 DEF ListenersInv

LEMMA FrameStep ==
    ASSUME Streams!ListenersConstants, ListenersInv, NEW c \in Subscribers, Streams!Frame(c)
    PROVE  ListenersInv'
<1>1. /\ conn[c] = "open" /\ queue[c] # <<>>
      /\ frames' = [frames EXCEPT ![c] = Append(frames[c], Head(queue[c]))]
      /\ queue' = [queue EXCEPT ![c] = Tail(queue[c])]
      /\ UNCHANGED <<conn, owed, dropped, announced>>
  BY DEF Streams!Frame
<1>2. /\ queue[c] \in Seq(announced) /\ frames[c] \in Seq(announced)
      /\ Len(queue[c]) <= QueueDepth
  BY DEF ListenersInv
<1>3. /\ Head(queue[c]) \in announced /\ Tail(queue[c]) \in Seq(announced)
      /\ Len(Tail(queue[c])) <= Len(queue[c]) /\ Len(Tail(queue[c])) \in Nat
      /\ Append(frames[c], Head(queue[c])) \in Seq(announced)
  BY <1>1, <1>2
<1>4. Append(frames[c], Head(queue[c])) \o Tail(queue[c]) = frames[c] \o queue[c]
  <2>1. PICK q \in Seq(announced), f \in Seq(announced) : q = queue[c] /\ f = frames[c]
    BY <1>2
  <2>2. Append(f, Head(q)) \o Tail(q) = f \o q
    BY <1>1, <2>1, SameStream
  <2> QED
    BY <2>1, <2>2
<1>5. ASSUME NEW d \in Subscribers
      PROVE  Len(queue'[d]) <= QueueDepth /\ Streams!Faithful(frames'[d] \o queue'[d], owed'[d], dropped'[d])
  <2>1. CASE d = c
    <3>1. frames'[c] \o queue'[c] = frames[c] \o queue[c]
      BY <1>1, <1>4 DEF ListenersInv
    <3>2. queue'[c] = Tail(queue[c])
      BY <1>1 DEF ListenersInv
    <3>3. Len(queue'[c]) <= QueueDepth
      BY <1>2, <1>3, <3>2, StreamsCount DEF Streams!ListenersConstants
    <3> QED
      BY <1>1, <2>1, <3>1, <3>3 DEF ListenersInv
  <2>2. CASE d # c
    <3>1. frames'[d] = frames[d] /\ queue'[d] = queue[d]
      BY <1>1, <2>2 DEF ListenersInv
    <3> QED
      BY <1>1, <3>1 DEF ListenersInv
  <2> QED
    BY <2>1, <2>2
<1>6. frames' \in [Subscribers -> Seq(announced')] /\ queue' \in [Subscribers -> Seq(announced')]
  BY <1>1, <1>3 DEF ListenersInv
<1>7. Streams!WithinCap'
  BY <1>1, FewerListeners DEF ListenersInv, Streams!Registered
<1> QED
  BY <1>1, <1>5, <1>6, <1>7 DEF ListenersInv

LEMMA ListenersNext ==
    ASSUME Streams!ListenersConstants, ListenersInv, [Streams!Next]_(Streams!vars)
    PROVE  ListenersInv'
<1>1. CASE UNCHANGED Streams!vars
  BY <1>1, FewerListeners DEF Streams!vars, ListenersInv, Streams!Registered
<1>2. CASE \E c \in Subscribers : Streams!Ask(c) \/ Streams!Refuse(c) \/ Streams!Vanish(c) \/ Streams!Close(c)
  BY <1>2, LeaveStep
<1>3. CASE \E c \in Subscribers : Streams!Open(c)
  BY <1>3, OpenStep
<1>4. CASE \E c \in Subscribers : Streams!Frame(c)
  BY <1>4, FrameStep
<1>5. CASE \E m \in Messages, r \in SUBSET Agents : Streams!Announce(m, r)
  BY <1>5, AnnounceStep
<1> QED
  BY <1>1, <1>2, <1>3, <1>4, <1>5 DEF Streams!Next

LEMMA ListenersHold ==
    ASSUME ListenersInv
    PROVE  Streams!ToldOnceInOrder /\ Streams!WithinCap
BY DEF ListenersInv, Streams!ToldOnceInOrder, Streams!Registered

-----------------------------------------------------------------------------
(* The signing key (HubSettings) *)

\* KeySettles is of single steps; it needs no more than the stages of the needs.
NeedTyped == need \in [Needs -> {"none", "minting", "served"}]

LEMMA NeedInit == ASSUME Settings!Init PROVE NeedTyped
BY DEF Settings!Init, NeedTyped

LEMMA NeedNext ==
    ASSUME NeedTyped, [Settings!Next]_(Settings!vars)
    PROVE  NeedTyped' /\ Settings!KeySettlesStep
<1>1. CASE UNCHANGED need /\ key' = key
  BY <1>1 DEF NeedTyped, Settings!KeySettlesStep, Settings!Settled
<1>2. CASE \E c \in Operators :
         Settings!HubSettings(c) \/ Settings!SettingsSave(c) \/ Settings!ScriptPut(c) \/ Settings!BlindPut(c)
           \/ Settings!SetHubSetting(c)
  BY <1>1, <1>2 DEF Settings!HubSettings, Settings!SettingsSave, Settings!ScriptPut,
     Settings!BlindPut, Settings!SetHubSetting, Settings!Begin
<1>3. ASSUME NEW n \in Needs,
             Settings!SigningKey(n) PROVE NeedTyped' /\ Settings!KeySettlesStep
  BY <1>3 DEF Settings!SigningKey, NeedTyped, Settings!KeySettlesStep, Settings!Settled
<1>4. ASSUME NEW n \in Needs, Settings!Mint(n) PROVE NeedTyped' /\ Settings!KeySettlesStep
  BY <1>4 DEF Settings!Mint, NeedTyped, Settings!KeySettlesStep, Settings!Settled
<1>5. CASE Settings!Restart
  BY <1>5 DEF Settings!Restart, NeedTyped, Settings!KeySettlesStep, Settings!Settled
<1> QED
  BY <1>1, <1>2, <1>3, <1>4, <1>5 DEF Settings!Next, Settings!vars

-----------------------------------------------------------------------------
(* Whether a peer is trusted (Trust) *)

\* The questions an exchange has behind it were each answered in its favour
\* once, and so no longer stand against it.
Questioned(e) ==
    /\ e.way = "out" /\ e.stage \in {"unblocked", "read", "done"} => "blocked" \notin e.steady
    /\ e.way = "out" /\ e.stage = "read" /\ e.fed => "off" \notin e.steady
    /\ e.way = "out" /\ e.stage = "done" => e.steady \cap {"off", "untrusted"} = {}
    /\ e.way = "in" /\ e.stage \in {"read", "signed", "done"} => "off" \notin e.steady
    /\ e.way = "in" /\ e.stage \in {"signed", "done"} => "untrusted" \notin e.steady

\* What has held since an attempt began holds now.
StillHolds(e, fed, listed, blocked) ==
    e.stage # "done" => e.steady \subseteq Peers!Against(fed, listed, blocked, e.origin)

\* An exchange that is under way, against what has been said so far.
Weighed(e, fed, listed, blocked) ==
    e # None => Questioned(e) /\ StillHolds(e, fed, listed, blocked)

\* What was said against a hub all along is what is said now (StillHolds), and
\* what was asked is not among it (Questioned): so "done" was decided anew.
TrustInv ==
    /\ Peers!TypeOK
    /\ \A x \in Exchanges : Weighed(exchange[x], federation, peers, blocks)

----------------------------------------------------------------------------
LEMMA TrustInit == Peers!Init => TrustInv
  BY DEF Peers!Init, TrustInv, Peers!TypeOK, Weighed

\* The operator's steps change the lists and, with them, what has held all along.
LEMMA TrustChange ==
    ASSUME TrustInv, NEW fed \in BOOLEAN, NEW listed \in SUBSET Origins,
           NEW blocked \in SUBSET Origins, Peers!Change(fed, listed, blocked),
           adding' \subseteq Origins
    PROVE  TrustInv'
<1> DEFINE held(e) == IF e.stage = "done" THEN e.steady
                      ELSE e.steady \cap Peers!Against(fed, listed, blocked, e.origin)
           new(e) == [e EXCEPT !.steady = held(e)]
<1>1. exchange' = [x \in Exchanges |->
          IF exchange[x] = None THEN None ELSE new(exchange[x])]
  BY DEF Peers!Change
<1>2. federation' = fed /\ peers' = listed /\ blocks' = blocked
  BY DEF Peers!Change
<1>3. ASSUME NEW e \in Peers!Exchange, Questioned(e)
      PROVE  new(e) \in Peers!Exchange /\ Questioned(new(e)) /\ StillHolds(new(e), fed, listed, blocked)
  <2>1. /\ new(e).way = e.way /\ new(e).origin = e.origin
        /\ new(e).stage = e.stage /\ new(e).fed = e.fed
        /\ new(e).steady = held(e) /\ new(e) \in Peers!Exchange
    BY <1>3 DEF Peers!Exchange
  <2>2. held(e) \subseteq e.steady
    OBVIOUS
  <2>3. Questioned(new(e))
    BY <1>3, <2>1, <2>2 DEF Questioned
  <2>4. StillHolds(new(e), fed, listed, blocked)
    BY <2>1 DEF StillHolds
  <2> QED
    BY <2>1, <2>3, <2>4
<1> HIDE DEF new
<1>4. \A x \in Exchanges : exchange[x] # None => exchange[x] \in Peers!Exchange /\ Questioned(exchange[x])
  BY DEF TrustInv, Peers!TypeOK, Weighed
<1>5. exchange' \in [Exchanges -> Peers!Exchange \cup {None}]
  BY <1>1, <1>3, <1>4
<1>6. \A x \in Exchanges : Weighed(exchange'[x], fed, listed, blocked)
  BY <1>1, <1>3, <1>4 DEF Weighed
<1> QED
  BY <1>2, <1>5, <1>6 DEF TrustInv, Peers!TypeOK

\* The other steps write one exchange and leave the lists alone.
LEMMA ExchangeWritten ==
    ASSUME TrustInv, NEW x \in Exchanges, NEW e,
           e = None \/ (e \in Peers!Exchange /\ Questioned(e) /\ StillHolds(e, federation, peers, blocks)),
           exchange' = [exchange EXCEPT ![x] = e],
           UNCHANGED Peers!Lists
    PROVE  TrustInv'
<1>1. exchange' \in [Exchanges -> Peers!Exchange \cup {None}]
  BY DEF TrustInv, Peers!TypeOK
<1>2. \A y \in Exchanges : Weighed(exchange'[y], federation, peers, blocks)
  BY DEF TrustInv, Peers!TypeOK, Weighed
<1> QED
  BY <1>1, <1>2 DEF TrustInv, Peers!TypeOK, Peers!Lists

LEMMA ExchangeRefused ==
    ASSUME TrustInv, NEW x \in Exchanges, Peers!Refused(x), UNCHANGED Peers!Lists
    PROVE  TrustInv'
  BY ExchangeWritten DEF Peers!Refused

\* An exchange goes on to a stage whose questions it has had answered.
LEMMA ExchangeMoves ==
    ASSUME TrustInv, NEW x \in Exchanges, exchange[x] # None,
           NEW next \in {"unblocked", "read", "signed", "done"},
           NEW fed \in BOOLEAN,
           exchange' = [exchange EXCEPT ![x].stage = next, ![x].fed = fed],
           exchange[x].stage # "done",
           Questioned([exchange[x] EXCEPT !.stage = next, !.fed = fed]),
           UNCHANGED Peers!Lists
    PROVE  TrustInv'
<1> DEFINE e == exchange[x]
           n == [e EXCEPT !.stage = next, !.fed = fed]
<1>1. e \in Peers!Exchange /\ StillHolds(e, federation, peers, blocks)
  BY DEF TrustInv, Peers!TypeOK, Weighed
<1>2. n \in Peers!Exchange /\ n.steady = e.steady /\ n.origin = e.origin
  BY <1>1 DEF Peers!Exchange
<1>3. StillHolds(n, federation, peers, blocks)
  BY <1>1, <1>2 DEF StillHolds
<1>4. exchange' = [exchange EXCEPT ![x] = n]
  BY DEF TrustInv, Peers!TypeOK
<1> QED
  BY <1>2, <1>3, <1>4, ExchangeWritten

----------------------------------------------------------------------------
LEMMA TrustNext == TrustInv /\ [Peers!Next]_(Peers!vars) => TrustInv'
<1> SUFFICES ASSUME TrustInv, [Peers!Next]_(Peers!vars) PROVE TrustInv'
  OBVIOUS
<1> USE DEF Peers!Objections
<1>1. CASE Peers!SwitchFederation
  BY <1>1, TrustChange DEF Peers!SwitchFederation, TrustInv, Peers!TypeOK
<1>2. ASSUME NEW o \in Origins,
             Peers!AddPeer(o) \/ Peers!RemovePeer(o) \/ Peers!AddBlock(o) \/ Peers!RemoveBlock(o)
      PROVE  TrustInv'
  <2>1. /\ federation \in BOOLEAN /\ peers \subseteq Origins /\ blocks \subseteq Origins
        /\ adding' \subseteq Origins
    BY <1>2 DEF TrustInv, Peers!TypeOK, Peers!AddPeer, Peers!RemovePeer, Peers!AddBlock,
       Peers!RemoveBlock
  <2>2. \E listed, blocked \in SUBSET Origins : Peers!Change(federation, listed, blocked)
    BY <1>2, <2>1 DEF Peers!AddPeer, Peers!RemovePeer, Peers!AddBlock, Peers!RemoveBlock
  <2> QED
    BY <2>1, <2>2, TrustChange
<1>3. ASSUME NEW o \in Origins, Peers!AddPeerLook(o) PROVE TrustInv'
  BY <1>3 DEF TrustInv, Peers!TypeOK, Peers!AddPeerLook
<1>4. ASSUME NEW x \in Exchanges, NEW o \in Origins, Peers!Resolve(x, o) PROVE TrustInv'
  <2> DEFINE e == [way |-> "out", origin |-> o, stage |-> "resolved", fed |-> FALSE, steady |-> {}]
  <2>1. e \in Peers!Exchange /\ Questioned(e) /\ StillHolds(e, federation, peers, blocks)
    BY DEF Peers!Exchange, Questioned, StillHolds
  <2> QED
    BY <1>4, <2>1, ExchangeWritten DEF Peers!Resolve
<1>5. ASSUME NEW x \in Exchanges, NEW o \in Origins, Peers!Knock(x, o) PROVE TrustInv'
  <2> DEFINE e == [way |-> "in", origin |-> o, stage |-> "begun", fed |-> FALSE,
                   steady |-> Peers!Against(federation, peers, blocks, o)]
  <2>1. e \in Peers!Exchange /\ Questioned(e) /\ StillHolds(e, federation, peers, blocks)
    BY DEF Peers!Exchange, Questioned, StillHolds, Peers!Against
  <2> QED
    BY <1>5, <2>1, ExchangeWritten DEF Peers!Knock
<1>6. ASSUME NEW x \in Exchanges, Peers!Begin(x) PROVE TrustInv'
  <2> DEFINE e == exchange[x]
             n == [e EXCEPT !.stage = "begun", !.fed = FALSE,
                            !.steady = Peers!Against(federation, peers, blocks, e.origin)]
  <2>1. e \in Peers!Exchange /\ e.way = "out"
    BY <1>6 DEF Peers!Begin, TrustInv, Peers!TypeOK
  <2>2. /\ n.way = "out" /\ n.origin = e.origin /\ n.stage = "begun" /\ n.fed = FALSE
        /\ n.steady = Peers!Against(federation, peers, blocks, e.origin)
    BY <2>1 DEF Peers!Exchange
  <2>3. n \in Peers!Exchange
    BY <2>1 DEF Peers!Exchange, Peers!Against
  <2>4. Questioned(n) /\ StillHolds(n, federation, peers, blocks)
    BY <2>2 DEF Questioned, StillHolds
  <2>5. exchange' = [exchange EXCEPT ![x] = n]
    BY <1>6 DEF Peers!Begin, TrustInv, Peers!TypeOK
  <2> QED
    BY <1>6, <2>3, <2>4, <2>5, ExchangeWritten DEF Peers!Begin
<1>7. ASSUME NEW x \in Exchanges, Peers!Reject(x) \/ Peers!Finish(x) PROVE TrustInv'
  BY <1>7, ExchangeRefused DEF Peers!Reject, Peers!Finish
<1>8. ASSUME NEW x \in Exchanges,
             \/ Peers!AskBlocks(x) \/ Peers!AskSettings(x) \/ Peers!Deliver(x)
             \/ Peers!AskFederation(x) \/ Peers!AskPeers(x) \/ Peers!Accept(x)
      PROVE  TrustInv'
  <2> DEFINE e == exchange[x]
  <2>1. e # None /\ e.stage # "done"
    BY <1>8 DEF Peers!AskBlocks, Peers!AskSettings, Peers!Deliver, Peers!AskFederation,
       Peers!AskPeers, Peers!Accept, Peers!At
  <2>2. e \in Peers!Exchange /\ Questioned(e) /\ StillHolds(e, federation, peers, blocks)
    BY <2>1 DEF TrustInv, Peers!TypeOK, Weighed
  <2>3. UNCHANGED Peers!Lists
    BY <1>8 DEF Peers!AskBlocks, Peers!AskSettings, Peers!Deliver, Peers!AskFederation,
       Peers!AskPeers, Peers!Accept
  <2>4. e.steady \subseteq Peers!Against(federation, peers, blocks, e.origin)
    BY <2>1, <2>2 DEF StillHolds
  <2>5. CASE Peers!Refused(x)
    BY <2>3, <2>5, ExchangeRefused
  <2>6. CASE ~ Peers!Refused(x)
    <3>1. PICK next \in {"unblocked", "read", "signed", "done"}, fed \in BOOLEAN :
              /\ exchange' = [exchange EXCEPT ![x] = [e EXCEPT !.stage = next, !.fed = fed]]
              /\ Questioned([e EXCEPT !.stage = next, !.fed = fed])
      <4> DEFINE n(next, fed) == [e EXCEPT !.stage = next, !.fed = fed]
      <4>1. ASSUME NEW next \in {"unblocked", "read", "signed", "done"}, NEW fed \in BOOLEAN
            PROVE  /\ n(next, fed).way = e.way /\ n(next, fed).steady = e.steady
                   /\ n(next, fed).stage = next /\ n(next, fed).fed = fed
                   /\ fed = e.fed /\ Peers!Moves(x, next) =>
                         exchange' = [exchange EXCEPT ![x] = n(next, fed)]
        BY <2>2 DEF Peers!Exchange, Peers!Moves, TrustInv, Peers!TypeOK
      <4>2. CASE Peers!AskBlocks(x)
        <5>1. /\ Peers!Moves(x, "unblocked") /\ e.way = "out"
              /\ "blocked" \notin e.steady
          BY <4>2, <2>4, <2>6 DEF Peers!AskBlocks, Peers!At, Peers!MayExchange,
             Peers!Against
        <5>2. Questioned(n("unblocked", e.fed))
          BY <4>1, <5>1, <2>2 DEF Questioned, Peers!Exchange
        <5> QED
          BY <4>1, <5>1, <5>2, <2>2 DEF Peers!Exchange
      <4>3. CASE Peers!AskSettings(x)
        <5>1. exchange' = [exchange EXCEPT ![x] = n("read", federation)]
          BY <4>3, <2>2 DEF Peers!AskSettings, TrustInv, Peers!TypeOK
        <5>2. /\ e.way = "out" /\ e.stage = "unblocked" /\ federation \in BOOLEAN
              /\ federation => "off" \notin e.steady
          BY <4>3, <2>4 DEF Peers!AskSettings, Peers!At, Peers!Against, TrustInv,
             Peers!TypeOK
        <5>3. Questioned(n("read", federation))
          BY <4>1, <5>2, <2>2 DEF Questioned
        <5> QED
          BY <5>1, <5>2, <5>3
      <4>4. CASE Peers!Deliver(x)
        <5>1. /\ Peers!Moves(x, "done") /\ e.way = "out" /\ e.stage = "read" /\ e.fed
              /\ "untrusted" \notin e.steady
          BY <4>4, <2>4, <2>6 DEF Peers!Deliver, Peers!At, Peers!Against
        <5>2. Questioned(n("done", e.fed))
          <6>1. e.steady \cap {"off", "untrusted"} = {} /\ "blocked" \notin e.steady
            BY <5>1, <2>2 DEF Questioned
          <6>2. e.fed \in BOOLEAN
            BY <2>2 DEF Peers!Exchange
          <6> HIDE DEF n
          <6> QED
            BY <4>1, <5>1, <6>1, <6>2 DEF Questioned
        <5> QED
          BY <4>1, <5>1, <5>2, <2>2 DEF Peers!Exchange
      <4>5. CASE Peers!AskFederation(x)
        <5>1. /\ Peers!Moves(x, "read") /\ e.way = "in" /\ "off" \notin e.steady
          BY <4>5, <2>4, <2>6 DEF Peers!AskFederation, Peers!At, Peers!Against
        <5>2. Questioned(n("read", e.fed))
          BY <4>1, <5>1, <2>2 DEF Questioned, Peers!Exchange
        <5> QED
          BY <4>1, <5>1, <5>2, <2>2 DEF Peers!Exchange
      <4>6. CASE Peers!AskPeers(x)
        <5>1. /\ Peers!Moves(x, "signed") /\ e.way = "in" /\ e.stage = "read"
              /\ "untrusted" \notin e.steady
          BY <4>6, <2>4, <2>6 DEF Peers!AskPeers, Peers!At, Peers!Against
        <5>2. Questioned(n("signed", e.fed))
          BY <4>1, <5>1, <2>2 DEF Questioned, Peers!Exchange
        <5> QED
          BY <4>1, <5>1, <5>2, <2>2 DEF Peers!Exchange
      <4>7. CASE Peers!Accept(x)
        <5>1. /\ Peers!Moves(x, "done") /\ e.way = "in" /\ e.stage = "signed"
          BY <4>7 DEF Peers!Accept, Peers!At
        <5>2. Questioned(n("done", e.fed))
          BY <4>1, <5>1, <2>2 DEF Questioned, Peers!Exchange
        <5> QED
          BY <4>1, <5>1, <5>2, <2>2 DEF Peers!Exchange
      <4> QED
        BY <1>8, <4>2, <4>3, <4>4, <4>5, <4>6, <4>7
    <3> DEFINE n == [e EXCEPT !.stage = next, !.fed = fed]
    <3>2. n \in Peers!Exchange /\ n.steady = e.steady /\ n.origin = e.origin
      BY <2>2 DEF Peers!Exchange
    <3>3. StillHolds(n, federation, peers, blocks)
      BY <2>4, <3>2 DEF StillHolds
    <3> QED
      BY <2>3, <3>1, <3>2, <3>3, ExchangeWritten
  <2> QED
    BY <2>5, <2>6
<1>9. CASE UNCHANGED Peers!vars
  BY <1>9 DEF TrustInv, Peers!TypeOK, Peers!vars
<1> QED
  BY <1>1, <1>2, <1>3, <1>4, <1>5, <1>6, <1>7, <1>8, <1>9 DEF Peers!Next

LEMMA TrustHolds == ASSUME TrustInv PROVE Peers!DecidedAnew
<1> SUFFICES ASSUME NEW x \in Exchanges, exchange[x] # None, exchange[x].stage = "done"
             PROVE  /\ exchange[x].way = "out" => exchange[x].steady = {}
                    /\ exchange[x].way = "in" =>
                          exchange[x].steady \cap {"off", "untrusted"} = {}
  BY DEF Peers!DecidedAnew, Peers!Completed, Peers!At
<1>1. exchange[x].steady \subseteq Peers!Objections /\ Questioned(exchange[x])
  BY DEF TrustInv, Peers!TypeOK, Weighed, Peers!Exchange
<1> QED
  BY <1>1 DEF Questioned, Peers!Objections

-----------------------------------------------------------------------------
(* Device tokens (Tokens) *)

\* A pair of a token and an agent has a row, or the row's writing failed or is
\* under way.
Known(D, p) == uses[p] > 0 \/ p \in lost \cup Device(D)!Recording

\* Whom a request that is let in on a token is recorded as, if anyone.
Pairing(D, c) == <<c.token, Device(D)!Admitted(c)>>

\* What a request at each stage has behind it: its pair, when it has one, is
\* known from the moment its agent was admitted.
Recorded(D, q) ==
    /\ q.stage \in {"recording", "touching"} =>
          /\ q.bucket \in Device(D)!Bucket /\ q.with.token # None /\ q.with \in D.presented
          /\ Device(D)!Pair(q.bucket) = Pairing(D, q.with)
    /\ q.stage = "touching" => uses[Pairing(D, q.with)] > 0
    /\ q.stage = "resolved" => q.with.token # None /\ q.with \in D.presented
    /\ q.stage = "identified" /\ q.with.token # None =>
          q.with \in D.presented /\ (Device(D)!Admitted(q.with) # None => Known(D, Pairing(D, q.with)))
    /\ q.stage = "arrived" => q.with \in D.presented

\* What a page of tokens owes its reader is on it already.
Listed(D) == \A p \in sheet.owed : p \in Device(D)!Pairs /\ p[1] \in sheet.left /\ uses[p] > 0

\* Everyone who was ever admitted on a token is known.
TokensInv(D) ==
    /\ uses \in [Device(D)!Pairs -> Nat] /\ clock \in 0..Horizon
    /\ admitted \subseteq Device(D)!Bucket /\ let \subseteq Device(D)!Pairs
    /\ request \in [D.requests -> Device(D)!Request \cup {Device(D)!Free}]
    /\ \A r \in D.requests : Recorded(D, request[r])
    /\ \A b \in admitted : Known(D, Device(D)!Pair(b))
    /\ \A p \in let : Known(D, p)
    /\ \A t \in used : Device(D)!UsesFor(t) # {}
    /\ sheet \in Device(D)!Page \cup {Device(D)!NoPage}
    /\ Listed(D)

LEMMA TokensInit ==
    ASSUME NEW D, Device(D)!TokensConstants, Device(D)!Init
    PROVE  TokensInv(D)
BY DEF Device!Init, TokensInv, Listed, Device!TokensConstants, Recorded, Device!NoPage,
   Device!Free, Device!Page, Device!Request

\* A request whose row is not being written goes on to q; no row changes.
LEMMA RequestStep ==
    ASSUME NEW D, TokensInv(D), NEW r \in D.requests,
           NEW q \in Device(D)!Request \cup {Device(D)!Free}, Device(D)!Become(r, q),
           request[r].stage # "recording", UNCHANGED <<uses, used, sheet, clock, lost>>,
           Recorded(D, q)',
           admitted' \subseteq Device(D)!Bucket, \A b \in admitted' : b \in admitted \/ Known(D, Device(D)!Pair(b))',
           let' \subseteq Device(D)!Pairs, \A p \in let' : p \in let \/ Known(D, p)
    PROVE  TokensInv(D)'
<1>1. \A s \in D.requests : request'[s] = IF s = r THEN q ELSE request[s]
  BY DEF Device!Become, TokensInv
<1>2. Device(D)!Recording \subseteq Device(D)!Recording'
  <2>1. SUFFICES ASSUME NEW s \in D.requests, request[s].stage = "recording"
                 PROVE  Device(D)!Pair(request[s].bucket) \in Device(D)!Recording'
    BY DEF Device!Recording
  <2>2. request'[s] = request[s]
    BY <1>1, <2>1
  <2> QED
    BY <2>1, <2>2 DEF Device!Recording, Device!Pair
<1>3. \A p : Known(D, p) => Known(D, p)'
  BY <1>2 DEF Known
<1>4. ASSUME NEW s \in D.requests PROVE Recorded(D, request[s])'
  <2>1. CASE s = r
    BY <1>1, <2>1
  <2>2. CASE s # r
    <3>1. request'[s] = request[s] /\ Recorded(D, request[s])
      BY <1>1, <2>2 DEF TokensInv
    <3> QED
      BY <1>3, <3>1 DEF Recorded, Pairing, Device!Admitted
  <2> QED
    BY <2>1, <2>2
<1>5. (\A b \in admitted : Known(D, Device(D)!Pair(b)))'
  BY <1>3 DEF TokensInv
<1>6. (\A p \in let : Known(D, p))'
  BY <1>3 DEF TokensInv
<1>7. request' \in [D.requests -> Device(D)!Request \cup {Device(D)!Free}]
  BY DEF Device!Become, TokensInv
<1> QED
  BY <1>4, <1>5, <1>6, <1>7 DEF TokensInv, Listed, Device!UsesFor

LEMMA PairingIsPair ==
    ASSUME NEW D, Device(D)!TokensConstants, NEW c \in D.presented, c.token # None,
           Device(D)!Admitted(c) # None
    PROVE  Pairing(D, c) \in Device(D)!Pairs
BY DEF Device!TokensConstants, Pairing, Device!Admitted, Device!Pairs

\* A write adds to a row, or says that it failed.
LEMMA RowStep ==
    ASSUME NEW D, Device(D)!TokensConstants, TokensInv(D), NEW r \in D.requests,
           request[r].stage = "recording",
           NEW q \in Device(D)!Request \cup {Device(D)!Free}, Device(D)!Become(r, q),
           \/ lost' = lost /\ uses' = [uses EXCEPT ![Device(D)!Pair(request[r].bucket)] = @ + 1]
           \/ lost' = lost \cup {Device(D)!Pair(request[r].bucket)} /\ uses' = uses,
           Recorded(D, q)', UNCHANGED <<used, sheet, admitted, clock, let>>
    PROVE  TokensInv(D)'
<1>0. PICK b \in Device(D)!Bucket : b = request[r].bucket
  BY DEF TokensInv, Recorded
<1>1. \A s \in D.requests : request'[s] = IF s = r THEN q ELSE request[s]
  BY DEF Device!Become, TokensInv
<1>2. Device(D)!Pair(b) \in Device(D)!Pairs
  BY DEF Device!Bucket, Device!Pair, Device!Pairs
<1>3. /\ uses' \in [Device(D)!Pairs -> Nat]
      /\ \A p \in Device(D)!Pairs : uses[p] > 0 => uses'[p] > 0
      /\ lost \subseteq lost'
  BY <1>0, <1>2 DEF TokensInv
<1>4. Known(D, Device(D)!Pair(b))'
  <2>1. uses'[Device(D)!Pair(b)] > 0 \/ Device(D)!Pair(b) \in lost'
    BY <1>0, <1>2 DEF TokensInv
  <2> QED
    BY <2>1 DEF Known, Device!Pair
<1>5. Device(D)!Recording \subseteq Device(D)!Recording' \cup {Device(D)!Pair(b)}
  <2>1. SUFFICES ASSUME NEW s \in D.requests, s # r, request[s].stage = "recording"
                 PROVE  Device(D)!Pair(request[s].bucket) \in Device(D)!Recording'
    BY <1>0 DEF Device!Recording
  <2>2. request'[s] = request[s]
    BY <1>1, <2>1
  <2> QED
    BY <2>1, <2>2 DEF Device!Recording, Device!Pair
<1>6. \A p \in Device(D)!Pairs : Known(D, p) => Known(D, p)'
  BY <1>3, <1>4, <1>5 DEF Known
<1>8. \A d \in Device(D)!Bucket : Device(D)!Pair(d) \in Device(D)!Pairs
  BY DEF Device!Bucket, Device!Pair, Device!Pairs
<1>7. ASSUME NEW s \in D.requests PROVE Recorded(D, request[s])'
  <2>1. CASE s = r
    BY <1>1, <2>1
  <2>2. CASE s # r
    <3>1. request'[s] = request[s] /\ Recorded(D, request[s])
      BY <1>1, <2>2 DEF TokensInv
    <3> DEFINE c == request[s].with
    <3>2. request[s].stage = "touching" => Pairing(D, c) \in Device(D)!Pairs
      BY <1>8, <3>1 DEF Recorded
    <3>3. request[s].stage = "identified" /\ c.token # None /\ Device(D)!Admitted(c) # None => Pairing(D, c) \in Device(D)!Pairs
      BY <3>1, PairingIsPair DEF Recorded
    <3>4. Pairing(D, c)' = Pairing(D, c) /\ Device(D)!Admitted(c)' = Device(D)!Admitted(c)
      BY <3>1 DEF Pairing, Device!Admitted
    <3> QED
      BY <1>3, <1>6, <3>1, <3>2, <3>3, <3>4 DEF Recorded
  <2> QED
    BY <2>1, <2>2
<1>9. (\A d \in admitted : Known(D, Device(D)!Pair(d)))'
  BY <1>6, <1>8 DEF TokensInv, Device!Pair
<1>10. (\A p \in let : Known(D, p))'
  BY <1>6 DEF TokensInv
<1>11. (\A t \in used : Device(D)!UsesFor(t) # {})'
  BY <1>3 DEF TokensInv, Device!UsesFor
<1>12. request' \in [D.requests -> Device(D)!Request \cup {Device(D)!Free}] /\ Listed(D)'
  BY <1>3 DEF Device!Become, TokensInv, Listed
<1> QED
  BY <1>3, <1>7, <1>9, <1>10, <1>11, <1>12 DEF TokensInv

LEMMA TokenPageStep ==
    ASSUME NEW D, TokensInv(D),
           \/ Device(D)!ListTokens \/ Device(D)!Revoke \/ Device(D)!Close
                         \/ \E t \in Device(D)!Ids : Device(D)!MintToken(t) \/ Device(D)!RevokeToken(t) \/ Device(D)!TokenUses(t)
    PROVE  TokensInv(D)'
<1>1. UNCHANGED <<uses, used, admitted, clock, request, let, lost>>
  BY DEF Device!ListTokens, Device!Revoke, Device!Close, Device!MintToken,
     Device!RevokeToken, Device!TokenUses, Device!Ask, Device!tokens
<1>2. /\ Device(D)!Recording' = Device(D)!Recording /\ \A p : Known(D, p)' = Known(D, p)
      /\ \A t : Device(D)!UsesFor(t)' = Device(D)!UsesFor(t)
  BY <1>1 DEF Known, Device!Recording, Device!UsesFor, Device!Pair
<1>3. \A r \in D.requests : Recorded(D, request[r])'
  BY <1>1, <1>2 DEF TokensInv, Recorded, Pairing, Device!Admitted
<1>4. Listed(D)' /\ sheet' \in Device(D)!Page \cup {Device(D)!NoPage}
  <2>1. ASSUME NEW what \in {"list", "revoke"}, NEW ts \in SUBSET Device(D)!Ids,
               Device(D)!Ask(what, ts)
        PROVE  Listed(D)' /\ sheet' \in Device(D)!Page \cup {Device(D)!NoPage}
    <3>1. sheet' = [at |-> what, of |-> ts, left |-> ts, owed |-> Device(D)!Owed(ts)]
      BY <2>1 DEF Device!Ask
    <3>2. \A p \in Device(D)!Owed(ts) : p \in Device(D)!Pairs /\ p[1] \in ts /\ uses[p] > 0
      BY DEF Device!Owed, TokensInv, Known
    <3>3. sheet'.owed = Device(D)!Owed(ts) /\ sheet'.left = ts /\ sheet' \in Device(D)!Page
      BY <3>1, <3>2 DEF Device!Page
    <3>4. uses' = uses
      BY <1>1
    <3>5. Listed(D)'
      BY <3>2, <3>3, <3>4 DEF Listed
    <3> QED
      BY <3>3, <3>5
  <2>2. CASE Device(D)!ListTokens
    BY <2>1, <2>2 DEF Device!ListTokens
  <2>3. CASE \E t \in Device(D)!Ids : Device(D)!RevokeToken(t)
    BY <2>1, <2>3 DEF Device!RevokeToken
  <2>4. ASSUME NEW t \in Device(D)!Ids,
               Device(D)!TokenUses(t) PROVE Listed(D)' /\ sheet' \in Device(D)!Page \cup {Device(D)!NoPage}
    <3>1. sheet \in Device(D)!Page
      <4>1. t \in sheet.left /\ sheet \in Device(D)!Page \cup {Device(D)!NoPage}
        BY <2>4 DEF Device!TokenUses, TokensInv
      <4>2. Device(D)!NoPage.left = {}
        BY DEF Device!NoPage
      <4> QED
        BY <4>1, <4>2
    <3>2. sheet' = [sheet EXCEPT !.left = @ \ {t}, !.owed = @ \ Device(D)!UsesFor(t)]
      BY <2>4 DEF Device!TokenUses
    <3>3. /\ sheet' \in Device(D)!Page
          /\ sheet'.left = sheet.left \ {t}
          /\ sheet'.owed = sheet.owed \ Device(D)!UsesFor(t)
      BY <3>1, <3>2 DEF Device!Page
    <3> QED
      BY <1>1, <3>3 DEF Listed, TokensInv, Device!UsesFor
  <2>5. CASE Device(D)!Revoke
    BY <1>1, <2>5 DEF Device!Revoke, TokensInv, Listed, Device!Page, Device!NoPage
  <2>6. CASE Device(D)!Close
    BY <1>1, <2>6 DEF Device!Close, TokensInv, Listed, Device!Page, Device!NoPage
  <2>7. CASE \E t \in Device(D)!Ids : Device(D)!MintToken(t)
    BY <1>1, <2>7 DEF Device!MintToken, TokensInv, Listed
  <2> QED
    BY <2>2, <2>3, <2>4, <2>5, <2>6, <2>7, <1>1
<1> QED
  BY <1>1, <1>2, <1>3, <1>4 DEF TokensInv

LEMMA ArriveStep ==
    ASSUME NEW D, Device(D)!TokensConstants, TokensInv(D), NEW r \in D.requests,
           Device(D)!Arrive(r)
    PROVE  TokensInv(D)'
<1>1. PICK c \in D.presented : Device(D)!Become(r, [with |-> c, stage |-> "arrived", bucket |-> None])
  BY DEF Device!Arrive
<1> DEFINE q == [with |-> c, stage |-> "arrived", bucket |-> None]
<1>2. q \in Device(D)!Request /\ Recorded(D, q)'
  BY DEF Device!TokensConstants, Device!Request, Device!Stages, Recorded
<1>3. request[r].stage # "recording"
  BY DEF Device!Arrive, Device!Free
<1> QED
  BY <1>1, <1>2, <1>3, RequestStep DEF Device!Arrive, Device!tokens, TokensInv

LEMMA ResolveStep ==
    ASSUME NEW D, Device(D)!TokensConstants, TokensInv(D), NEW r \in D.requests,
           Device(D)!ResolveToken(r)
    PROVE  TokensInv(D)'
<1> DEFINE q == request[r]
           asNobody == [q EXCEPT !.stage = "identified", !.with.token = None]
           known == [q EXCEPT !.stage = "resolved"]
<1>1. /\ q \in Device(D)!Request /\ q.stage = "arrived" /\ q.with \in D.presented
      /\ UNCHANGED <<uses, used, sheet, admitted, clock, let, lost>>
  BY DEF Device!ResolveToken, TokensInv, Device!Free, Recorded, Device!tokens
<1>2. asNobody \in Device(D)!Request /\ asNobody.stage = "identified" /\ asNobody.with.token = None
  BY <1>1 DEF Device!Request, Device!Stages
<1>3. known \in Device(D)!Request /\ known.stage = "resolved" /\ known.with = q.with
  BY <1>1 DEF Device!Request, Device!Stages
<1>4. \/ Device(D)!Become(r, asNobody) \/ Device(D)!Become(r, Device(D)!Free)
      \/ Device(D)!Become(r, known) /\ q.with.token # None
  BY DEF Device!ResolveToken
<1>5. ASSUME NEW z \in Device(D)!Request \cup {Device(D)!Free}, Device(D)!Become(r, z),
             \/ z = Device(D)!Free
             \/ z.stage = "identified" /\ z.with.token = None
             \/ z.stage = "resolved" /\ z.with \in D.presented /\ z.with.token # None
      PROVE  TokensInv(D)'
  <2>1. Recorded(D, z)'
    BY <1>5 DEF Recorded, Device!Free
  <2> QED
    BY <1>1, <1>5, <2>1, RequestStep DEF TokensInv
<1> QED
  BY <1>1, <1>2, <1>3, <1>4, <1>5

LEMMA AdmitStep ==
    ASSUME NEW D, Device(D)!TokensConstants, TokensInv(D), NEW r \in D.requests,
           Device(D)!Admit(r)
    PROVE  TokensInv(D)'
<1>1. PICK q \in Device(D)!Request : q = request[r] /\ q.stage = "resolved" /\ q.with \in D.presented
                          /\ q.with.token # None /\ Recorded(D, q)
  BY DEF Device!Admit, TokensInv, Device!Free, Recorded
<1> DEFINE who == Device(D)!Admitted(q.with)  b == [token |-> q.with.token, actor |-> who, minute |-> clock]
<1>2. UNCHANGED <<uses, used, sheet, clock, let, lost>>
  BY DEF Device!Admit, Device!tokens
<1>3. who # None => b \in Device(D)!Bucket /\ Device(D)!Pair(b) = Pairing(D, q.with)
  BY <1>1 DEF TokensInv, Device!TokensConstants, Device!Bucket, Device!Pair, Pairing,
     Device!Admitted
<1>4. CASE who = None
  <2>1. Device(D)!Become(r, [q EXCEPT !.stage = "identified"]) /\ admitted' = admitted
    BY <1>1, <1>4 DEF Device!Admit
  <2>2. PICK z \in Device(D)!Request : z = [q EXCEPT !.stage = "identified"]
    BY <1>1 DEF Device!Request, Device!Stages
  <2>3. z.stage = "identified" /\ z.with = q.with
    BY <1>1, <2>2 DEF Device!Request
  <2>4. Recorded(D, z)'
    BY <1>1, <1>4, <2>3 DEF Recorded, Device!Admitted
  <2> QED
    BY <1>1, <1>2, <2>1, <2>2, <2>4, RequestStep DEF TokensInv
<1>5. CASE who # None /\ b \in admitted
  <2>1. Device(D)!Become(r, [q EXCEPT !.stage = "identified", !.bucket = b]) /\ admitted' = admitted
    BY <1>1, <1>5 DEF Device!Admit
  <2>2. PICK z \in Device(D)!Request : z = [q EXCEPT !.stage = "identified", !.bucket = b]
    BY <1>1, <1>3, <1>5 DEF Device!Request, Device!Stages
  <2>3. z.stage = "identified" /\ z.with = q.with
    BY <1>1, <2>2 DEF Device!Request
  <2>4. Known(D, Pairing(D, q.with))
    BY <1>3, <1>5 DEF TokensInv
  <2>5. Known(D, Pairing(D, q.with))'
    <3>1. Device(D)!Recording \subseteq Device(D)!Recording'
      BY <1>1, <2>1 DEF Device!Become, Device!Recording, TokensInv, Device!Pair
    <3> QED
      BY <1>2, <2>4, <3>1 DEF Known, Pairing, Device!Admitted
  <2>6. Recorded(D, z)'
    BY <1>1, <2>3, <2>5 DEF Recorded
  <2> QED
    BY <1>1, <1>2, <2>1, <2>2, <2>6, RequestStep DEF TokensInv
<1>6. CASE who # None /\ b \notin admitted
  <2>1. /\ Device(D)!Become(r, [q EXCEPT !.stage = "recording", !.bucket = b])
        /\ admitted' = {a \in admitted : a.minute = clock} \cup {b}
    BY <1>1, <1>6 DEF Device!Admit
  <2>2. PICK z \in Device(D)!Request : z = [q EXCEPT !.stage = "recording", !.bucket = b]
    BY <1>1, <1>3, <1>6 DEF Device!Request, Device!Stages
  <2>3. z.stage = "recording" /\ z.with = q.with /\ z.bucket = b
    BY <1>1, <2>2 DEF Device!Request
  <2>4. request'[r] = z
    BY <2>1, <2>2 DEF Device!Become, TokensInv
  <2>5. PICK d \in Device(D)!Bucket : d = b
    BY <1>3, <1>6
  <2>6. Known(D, Device(D)!Pair(d))'
    BY <2>3, <2>4, <2>5 DEF Known, Device!Recording, Device!Pair
  <2>7. Recorded(D, z)'
    BY <1>1, <1>3, <1>6, <2>3 DEF Recorded, Pairing, Device!Admitted, Device!Pair
  <2>8. admitted' \subseteq Device(D)!Bucket /\ \A a \in admitted' : a \in admitted \/ Known(D, Device(D)!Pair(a))'
    BY <2>1, <2>5, <2>6 DEF TokensInv
  <2> QED
    BY <1>1, <1>2, <2>1, <2>2, <2>7, <2>8, RequestStep DEF TokensInv
<1> QED
  BY <1>4, <1>5, <1>6

LEMMA RecordStep ==
    ASSUME NEW D, Device(D)!TokensConstants, TokensInv(D), NEW r \in D.requests,
           Device(D)!RecordUse(r)
    PROVE  TokensInv(D)'
<1>1. PICK q \in Device(D)!Request : q = request[r] /\ q.stage = "recording" /\ Recorded(D, q)
  BY DEF Device!RecordUse, TokensInv, Device!Free
<1>2. PICK z \in Device(D)!Request : z = [q EXCEPT !.stage = "touching"]
  BY <1>1 DEF Device!Request, Device!Stages
<1>3. z.stage = "touching" /\ z.with = q.with /\ z.bucket = q.bucket
  BY <1>1, <1>2 DEF Device!Request
<1>4. q.bucket \in Device(D)!Bucket /\ Device(D)!Pair(q.bucket) = Pairing(D, q.with) /\ Pairing(D, q.with) \in Device(D)!Pairs
      /\ q.with.token # None /\ q.with \in D.presented
  BY <1>1 DEF Recorded, Device!Bucket, Device!Pair, Device!Pairs
<1>5. Device(D)!Become(r, z) /\ uses' = [uses EXCEPT ![Device(D)!Pair(request[r].bucket)] = @ + 1]
      /\ UNCHANGED <<used, sheet, admitted, clock, let, lost>>
  BY <1>1, <1>2 DEF Device!RecordUse
<1>6. uses'[Pairing(D, q.with)] > 0
  BY <1>1, <1>4, <1>5 DEF TokensInv
<1>7. Recorded(D, z)'
  BY <1>1, <1>3, <1>4, <1>6 DEF Recorded, Pairing, Device!Admitted, Device!Pair
<1> QED
  BY <1>1, <1>5, <1>7, RowStep

LEMMA TouchStep ==
    ASSUME NEW D, Device(D)!TokensConstants, TokensInv(D), NEW r \in D.requests,
           Device(D)!TouchToken(r)
    PROVE  TokensInv(D)'
<1>1. PICK q \in Device(D)!Request : q = request[r] /\ q.stage = "touching" /\ Recorded(D, q)
  BY DEF Device!TouchToken, TokensInv, Device!Free
<1>2. PICK z \in Device(D)!Request : z = [q EXCEPT !.stage = "identified"]
  BY <1>1 DEF Device!Request, Device!Stages
<1>3. z.stage = "identified" /\ z.with = q.with
  BY <1>1, <1>2 DEF Device!Request
<1>4. Device(D)!Become(r, z) /\ used' = used \cup {q.bucket.token}
      /\ UNCHANGED <<uses, sheet, admitted, clock, let, lost>>
  BY <1>1, <1>2 DEF Device!TouchToken
<1>5. /\ uses[Device(D)!Pair(q.bucket)] > 0
      /\ Device(D)!Pair(q.bucket) \in Device(D)!Pairs
      /\ Device(D)!Pair(q.bucket)[1] = q.bucket.token
  BY <1>1 DEF Recorded, Device!Bucket, Device!Pair, Device!Pairs
<1>6. (\A t \in used : Device(D)!UsesFor(t) # {})'
  BY <1>4, <1>5 DEF Device!UsesFor, TokensInv
<1>7. Recorded(D, z)'
  BY <1>1, <1>3, <1>4 DEF Recorded, Pairing, Device!Admitted, Known
<1>8. \A s \in D.requests : request'[s] = IF s = r THEN z ELSE request[s]
  BY <1>4 DEF Device!Become, TokensInv
<1>9. Device(D)!Recording' = Device(D)!Recording
  BY <1>1, <1>3, <1>8 DEF Device!Recording, Device!Pair
<1>10. \A p : Known(D, p)' = Known(D, p)
  BY <1>4, <1>9 DEF Known
<1>11. ASSUME NEW s \in D.requests PROVE Recorded(D, request[s])'
  <2>1. CASE s = r
    BY <1>7, <1>8, <2>1
  <2>2. CASE s # r
    <3>1. request'[s] = request[s] /\ Recorded(D, request[s])
      BY <1>8, <2>2 DEF TokensInv
    <3> QED
      BY <1>4, <1>10, <3>1 DEF Recorded, Pairing, Device!Admitted
  <2> QED
    BY <2>1, <2>2
<1>12. request' \in [D.requests -> Device(D)!Request \cup {Device(D)!Free}] /\ Listed(D)'
  BY <1>4 DEF Device!Become, TokensInv, Listed
<1> QED
  BY <1>4, <1>6, <1>10, <1>11, <1>12 DEF TokensInv

LEMMA FailStep ==
    ASSUME NEW D, Device(D)!TokensConstants, TokensInv(D), NEW r \in D.requests,
           Device(D)!RecordFails(r)
    PROVE  TokensInv(D)'
<1>1. Recorded(D, Device(D)!Free)'
  BY DEF Recorded, Device!Free
<1>2. Device(D)!Become(r, Device(D)!Free) /\ UNCHANGED <<uses, used, sheet, admitted, clock, let>>
  BY DEF Device!RecordFails, Device!tokens
<1>3. CASE request[r].stage = "recording"
  BY <1>1, <1>2, <1>3, RowStep DEF Device!RecordFails
<1>4. CASE request[r].stage # "recording"
  BY <1>1, <1>2, <1>4, RequestStep DEF Device!RecordFails, TokensInv
<1> QED
  BY <1>3, <1>4

LEMMA ServeStep ==
    ASSUME NEW D, Device(D)!TokensConstants, TokensInv(D), NEW r \in D.requests,
           Device(D)!Serve(r)
    PROVE  TokensInv(D)'
<1>1. PICK c : c = request[r].with /\ request[r].stage = "identified"
  BY DEF Device!Serve
<1>2. Recorded(D, Device(D)!Free)'
  BY DEF Recorded, Device!Free
<1>3. Device(D)!OnToken(c) /\ Device(D)!Caller(c) \in Agents =>
          /\ c \in D.presented
          /\ Device(D)!Caller(c) = Device(D)!Admitted(c)
          /\ Device(D)!Admitted(c) # None
          /\ Known(D, <<c.token, Device(D)!Caller(c)>>)
          /\ <<c.token, Device(D)!Caller(c)>> \in Device(D)!Pairs
  <2>1. SUFFICES ASSUME Device(D)!OnToken(c), Device(D)!Caller(c) \in Agents
                 PROVE  /\ c \in D.presented
                        /\ Device(D)!Caller(c) = Device(D)!Admitted(c)
                        /\ Device(D)!Admitted(c) # None
                        /\ Known(D, <<c.token, Device(D)!Caller(c)>>)
                        /\ <<c.token, Device(D)!Caller(c)>> \in Device(D)!Pairs
    OBVIOUS
  <2>2. c \in D.presented /\ c.token # None /\ Recorded(D, request[r])
    BY <1>1, <2>1 DEF TokensInv, Recorded, Device!OnToken
  <2>3. Device(D)!Caller(c) = Device(D)!Admitted(c) /\ Device(D)!Admitted(c) # None
    BY <2>1, <2>2 DEF Device!Caller, Device!Admitted, Device!OnToken, Device!TokensConstants
  <2>4. Known(D, Pairing(D, c))
    BY <1>1, <2>2, <2>3 DEF Recorded
  <2> QED
    BY <2>2, <2>3, <2>4, PairingIsPair DEF Pairing
<1>4. let' \subseteq Device(D)!Pairs /\ \A p \in let' : p \in let \/ Known(D, p)
  BY <1>1, <1>3 DEF Device!Serve, TokensInv
<1>5. Device(D)!Become(r, Device(D)!Free) /\ UNCHANGED <<uses, used, sheet, admitted, clock, lost>>
  BY DEF Device!Serve, Device!tokens
<1> QED
  BY <1>1, <1>2, <1>4, <1>5, RequestStep DEF TokensInv

LEMMA TokensTick ==
    ASSUME NEW D, Device(D)!TokensConstants, TokensInv(D),
           Device(D)!Tick \/ UNCHANGED Device(D)!vars
    PROVE  TokensInv(D)'
<1>1. UNCHANGED <<uses, used, sheet, admitted, request, let, lost>> /\ clock' \in 0..Horizon
  BY DEF Device!Tick, Device!vars, Device!tokens, TokensInv, Device!TokensConstants
<1>2. /\ Device(D)!Recording' = Device(D)!Recording /\ \A p : Known(D, p)' = Known(D, p)
      /\ \A t : Device(D)!UsesFor(t)' = Device(D)!UsesFor(t)
  BY <1>1 DEF Known, Device!Recording, Device!UsesFor, Device!Pair
<1>3. \A r \in D.requests : Recorded(D, request[r])'
  BY <1>1, <1>2 DEF TokensInv, Recorded, Pairing, Device!Admitted
<1> QED
  BY <1>1, <1>2, <1>3 DEF TokensInv, Listed

LEMMA TokensRestart ==
    ASSUME NEW D, Device(D)!TokensConstants, TokensInv(D), Device(D)!Restart
    PROVE  TokensInv(D)'
<1>1. /\ UNCHANGED <<uses, used, clock, let>>
      /\ admitted' = {}
      /\ lost' = lost \cup Device(D)!Recording
      /\ request' = [r \in D.requests |-> Device(D)!Free] /\ (sheet' = sheet \/ sheet' = Device(D)!NoPage)
  BY DEF Device!Restart, Device!tokens
<1>2. \A p : Known(D, p) => Known(D, p)'
  BY <1>1 DEF Known
<1>3. \A r \in D.requests : Recorded(D, request[r])'
  BY <1>1 DEF Recorded, Device!Free
<1>4. Listed(D)' /\ sheet' \in Device(D)!Page \cup {Device(D)!NoPage}
  BY <1>1 DEF TokensInv, Listed, Device!NoPage
<1>5. (\A p \in let : Known(D, p))'
  BY <1>1, <1>2 DEF TokensInv
<1> QED
  BY <1>1, <1>3, <1>4, <1>5 DEF TokensInv, Device!UsesFor

LEMMA TokensNext ==
    ASSUME NEW D, Device(D)!TokensConstants, TokensInv(D), [Device(D)!Next]_(Device(D)!vars)
    PROVE  TokensInv(D)'
BY TokenPageStep, ArriveStep, ResolveStep, AdmitStep, RecordStep, TouchStep, FailStep,
   ServeStep, TokensTick, TokensRestart DEF Device!Next

LEMMA TokensHold ==
    ASSUME NEW D, Device(D)!TokensConstants, TokensInv(D)
    PROVE  Device(D)!AdmittedIsKnown
BY DEF TokensInv, Listed, Device!AdmittedIsKnown, Known, Device!Rendered, Device!Page,
   Device!NoPage

-----------------------------------------------------------------------------
(* A send (House) *)

\* Every remote recipient has a receipt;
Receipted == \A a \in to \cap Remotes : \E r \in receipts : r[1] = a
\* or was resolved, and will be delivered to.
Covered == \A a \in to \cap Remotes : a \in resolved \/ \E r \in receipts : r[1] = a

\* By where the handler is: what it has stored, answered and accounted for.
HouseInv ==
    /\ at \in {"split", "resolve", "store", "deliver"} => op = "send"
    /\ at = "look" => op # "send"
    /\ at \in {"check", "split", "resolve", "store", "look"} => ~kept
    /\ at \notin {"idle"} => answered = "nothing"
    /\ at \in {"store", "deliver"} => Covered
    /\ op = "send" /\ ((at = "record" /\ (kept \/ outcome = "ok")) \/ at = "announce") => Receipted
    /\ answered = "sent" /\ op = "send" => Receipted
    /\ answered = "error" => ~kept
    /\ at = "announce" => kept

LEMMA HouseSplit ==
    ASSUME HouseInv, Pipeline!Split
    PROVE  HouseInv'
BY DEF HouseInv, Pipeline!Split, Receipted, Covered, Pipeline!request, Pipeline!work,
   Pipeline!observers

LEMMA HouseResolve ==
    ASSUME HouseInv, Pipeline!Resolve
    PROVE  HouseInv'
<1>1. CASE Pipeline!Unresolved = {}
  BY <1>1 DEF HouseInv, Pipeline!Resolve, Receipted, Covered, Pipeline!Unresolved,
     Pipeline!request, Pipeline!observers
<1>2. CASE Pipeline!Unresolved # {}
  BY <1>2 DEF HouseInv, Pipeline!Resolve, Receipted, Covered, Pipeline!request,
     Pipeline!observers
<1> QED BY <1>1, <1>2

LEMMA HouseDeliver ==
    ASSUME HouseInv, Pipeline!Deliver
    PROVE  HouseInv'
<1>1. CASE Pipeline!Undelivered = {}
  BY <1>1 DEF HouseInv, Pipeline!Deliver, Receipted, Covered, Pipeline!Undelivered,
     Pipeline!request, Pipeline!observers
<1>2. CASE Pipeline!Undelivered # {}
  <2>1. PICK a \in Pipeline!Undelivered, s \in Pipeline!States : receipts' = receipts \cup {<<a, s>>}
    BY <1>2 DEF Pipeline!Deliver
  <2>2. /\ Covered
        /\ op = "send"
        /\ at = "deliver"
        /\ at' = at
        /\ answered' = "nothing"
        /\ to' = to
        /\ resolved' = resolved
        /\ UNCHANGED <<op, kept, outcome>>
    BY <1>2 DEF HouseInv, Pipeline!Deliver, Pipeline!request, Pipeline!observers
  <2>3. Covered'
    BY <2>1, <2>2 DEF Covered
  <2> QED
    BY <2>2, <2>3 DEF HouseInv
<1> QED BY <1>1, <1>2

LEMMA HouseOther ==
    ASSUME HouseInv,
           Pipeline!Attempt \/ Pipeline!Check \/ Pipeline!Store \/ Pipeline!Look \/ Pipeline!Record \/ Pipeline!Recorded \/ Pipeline!Announce \/ Pipeline!Cut
    PROVE  HouseInv'
<1>1. CASE Pipeline!Attempt
  BY <1>1 DEF HouseInv, Pipeline!Attempt, Pipeline!Fresh, Receipted, Covered
<1>2. CASE Pipeline!Check
  BY <1>2 DEF HouseInv, Pipeline!Check, Receipted, Covered, Pipeline!request, Pipeline!work,
     Pipeline!observers
<1>3. CASE Pipeline!Store
  <2>1. op = "send" /\ ~kept /\ answered = "nothing" /\ Covered
    BY <1>3 DEF HouseInv, Pipeline!Store
  <2>2. UNCHANGED <<op, to, resolved, receipts, answered>>
    BY <1>3 DEF Pipeline!Store, Pipeline!request, Pipeline!observers
  <2>3. Covered'
    BY <2>1, <2>2 DEF Covered
  <2>4. \/ kept' = TRUE /\ at' = "deliver"
        \/ at' = "record" /\ kept' = kept /\ outcome' # "ok"
    BY <1>3 DEF Pipeline!Store
  <2> QED
    BY <2>1, <2>2, <2>3, <2>4 DEF HouseInv
<1>4. CASE Pipeline!Look
  BY <1>4 DEF HouseInv, Pipeline!Look, Receipted, Covered, Pipeline!request, Pipeline!work,
     Pipeline!observers
<1>5. CASE Pipeline!Record
  BY <1>5 DEF HouseInv, Pipeline!Record, Receipted, Covered, Pipeline!request, Pipeline!work
<1>6. CASE Pipeline!Recorded
  BY <1>6 DEF HouseInv, Pipeline!Recorded, Receipted, Covered, Pipeline!request,
     Pipeline!work, Pipeline!observers
<1>7. CASE Pipeline!Announce
  BY <1>7 DEF HouseInv, Pipeline!Announce, Receipted, Covered, Pipeline!request,
     Pipeline!observers
<1>8. CASE Pipeline!Cut
  BY <1>8 DEF HouseInv, Pipeline!Cut, Receipted, Covered, Pipeline!request, Pipeline!work,
     Pipeline!observers
<1> QED BY <1>1, <1>2, <1>3, <1>4, <1>5, <1>6, <1>7, <1>8

LEMMA HouseInit == ASSUME Pipeline!Init PROVE HouseInv
BY DEF Pipeline!Init, HouseInv, Covered, Receipted

LEMMA HouseNext == ASSUME HouseInv, [Pipeline!Next]_(Pipeline!vars) PROVE HouseInv'
<1>1. CASE UNCHANGED Pipeline!vars
  BY <1>1 DEF Pipeline!vars, HouseInv, Covered, Receipted
<1> QED
  BY <1>1, HouseSplit, HouseResolve, HouseDeliver, HouseOther DEF Pipeline!Next

LEMMA HouseHolds ==
    ASSUME HouseInv
    PROVE  Pipeline!EveryRecipientAccounted /\ Pipeline!ErrorMeansUnsent
BY DEF HouseInv, Pipeline!EveryRecipientAccounted, Pipeline!ErrorMeansUnsent, Receipted

-----------------------------------------------------------------------------
(* What outsiders are shown (Outward) *)

\* What an outsider has asked, and what the route has read of it.
Asked == [at : Shows!Stages, route : Shows!Routes, name : Agents \cup {Shows!Quiet.name}, peer : BOOLEAN,
          federating : BOOLEAN, open : SUBSET Agents, mode : BOOLEAN]
\* Profiles, the setting and the questions of outsiders.
OutwardTyped ==
    /\ profile \in [Agents -> Shows!Written \cup {None}] /\ mode \in BOOLEAN
    /\ ask \in [Outsiders -> Asked]

\* What a route read since it began is of the time since then: who was visible
\* all along is among those it saw, and it saw the setting that held.
ShownFrom(a) ==
    a.at # "none" =>
        /\ a.name \in Agents /\ Shows!Visible(profile) \subseteq a.open
        /\ mode => a.mode
        /\ a.federating => a.mode
        /\ a.at = "federates" /\ a.route \in {"webfinger", "nodeinfo"} => a.mode
        /\ a.at = "checked" /\ a.federating => a.name \in a.open

\* What is shown was visible at some time since the question was asked.
OutwardInv ==
    /\ OutwardTyped
    /\ \A c \in Outsiders : ShownFrom(ask[c])
    /\ shown = {}

LEMMA OutwardInit == Shows!Init => OutwardInv
BY DEF Shows!Init, OutwardInv, OutwardTyped, Asked, ShownFrom, Shows!Quiet, Shows!Stages,
   Shows!Routes

LEMMA ChangesFollow ==
    ASSUME OutwardInv, ask' = Shows!Since, UNCHANGED shown,
           profile' \in [Agents -> Shows!Written \cup {None}], mode' \in BOOLEAN
    PROVE  OutwardInv'
<1>1. ASSUME NEW c \in Outsiders PROVE ask'[c] \in Asked /\ ShownFrom(ask[c])'
  <2>1. ask[c] \in Asked /\ ShownFrom(ask[c]) /\ Shows!Visible(profile') \subseteq Agents
    BY DEF OutwardInv, OutwardTyped, Shows!Visible
  <2>2. ask'[c] = IF ask[c].at = "none" THEN ask[c]
                  ELSE [ask[c] EXCEPT !.open = @ \cup Shows!Visible(profile'),
                                      !.mode = @ \/ mode']
    BY DEF Shows!Since
  <2>3. CASE ask[c].at = "none"
    BY <2>1, <2>2, <2>3 DEF ShownFrom
  <2>4. CASE ask[c].at # "none"
    <3>1. /\ ask'[c].at = ask[c].at /\ ask'[c].route = ask[c].route
          /\ ask'[c].name = ask[c].name /\ ask'[c].federating = ask[c].federating
          /\ ask'[c].open = ask[c].open \cup Shows!Visible(profile')
          /\ ask'[c].mode = (ask[c].mode \/ mode')
      BY <2>1, <2>2, <2>4, Zenon DEF Asked
    <3>2. ask'[c] \in Asked
      BY <2>1, <2>2, <2>4, ZenonT(20) DEF Asked
    <3> QED
      BY <2>1, <3>1, <3>2 DEF ShownFrom, Shows!Visible
  <2> QED
    BY <2>3, <2>4
<1>2. ask' \in [Outsiders -> Asked]
  BY <1>1 DEF Shows!Since
<1> QED
  BY <1>1, <1>2 DEF OutwardInv, OutwardTyped

\* A request is at another step.
LEMMA AskStep ==
    ASSUME OutwardInv, NEW c \in Outsiders, NEW a \in Asked, ShownFrom(a),
           ask' = [ask EXCEPT ![c] = a], UNCHANGED <<profile, mode, shown>>
    PROVE  OutwardInv'
<1>1. ask' \in [Outsiders -> Asked] /\ \A d \in Outsiders : ShownFrom(ask'[d])
  BY DEF OutwardInv, OutwardTyped
<1>2. \A d \in Outsiders : ShownFrom(ask[d])'
  BY <1>1 DEF ShownFrom, Shows!Visible
<1> QED
  BY <1>1, <1>2 DEF OutwardInv, OutwardTyped

LEMMA QuietFollows == Shows!Quiet \in Asked /\ ShownFrom(Shows!Quiet)
BY DEF Shows!Quiet, Asked, ShownFrom, Shows!Stages, Shows!Routes

LEMMA ReplyStep ==
    ASSUME OutwardInv, NEW c \in Outsiders, NEW kind, NEW names,
           Shows!Reply(c, kind, names),
           names \subseteq ask[c].open, ask[c].mode \/ names = {},
           UNCHANGED <<profile, mode>>
    PROVE  OutwardInv'
<1>1. shown' = shown /\ ask' = [ask EXCEPT ![c] = Shows!Quiet]
  BY DEF Shows!Reply
<1> QED
  BY <1>1, AskStep, QuietFollows

LEMMA RefusalStep ==
    ASSUME OutwardInv, NEW c \in Outsiders, NEW kind, Shows!Reply(c, kind, {}),
           UNCHANGED <<profile, mode>>
    PROVE  OutwardInv'
BY ReplyStep

LEMMA ReadVisible ==
    ASSUME NEW n \in Agents, profile[n] # None, Shows!Read(n) # "local"
    PROVE  n \in Shows!Visible(profile)
BY DEF Shows!Read, Shows!Visible

LEMMA OutwardNext ==
    ASSUME OutwardInv, Shows!Next
    PROVE  OutwardInv'
<1>1. CASE Shows!SetMode
  BY <1>1, ChangesFollow DEF Shows!SetMode, OutwardInv, OutwardTyped
<1>2. ASSUME NEW n \in Agents, Shows!UpdateProfile(n) PROVE OutwardInv'
  <2>1. profile' \in [Agents -> Shows!Written \cup {None}]
    BY <1>2 DEF Shows!UpdateProfile, OutwardInv, OutwardTyped, Shows!Written
  <2> QED
    BY <1>2, <2>1, ChangesFollow DEF Shows!UpdateProfile, OutwardInv, OutwardTyped
<1>3. ASSUME NEW c \in Outsiders,
             Shows!Request(c) \/ Shows!Federates(c) \/ Shows!Webfinger(c) \/ Shows!NodeInfo(c)
               \/ Shows!Directory(c) \/ Shows!Resolvable(c) \/ Shows!Actor(c)
      PROVE  OutwardInv'
  <2> DEFINE a == ask[c]
  <2>1. a \in Asked /\ ShownFrom(a) /\ mode \in BOOLEAN
    BY DEF OutwardInv, OutwardTyped
  <2>2. CASE Shows!Request(c)
    <3>1. PICK r \in Shows!Routes, n \in Agents, p \in BOOLEAN :
            ask' = [ask EXCEPT ![c] = [at |-> "asked", route |-> r, name |-> n, peer |-> p,
                      federating |-> FALSE, open |-> Shows!Visible(profile), mode |-> mode]]
      BY <2>2 DEF Shows!Request
    <3> DEFINE b == [at |-> "asked", route |-> r, name |-> n, peer |-> p,
                      federating |-> FALSE, open |-> Shows!Visible(profile), mode |-> mode]
    <3>2. b \in Asked /\ ShownFrom(b)
      BY <2>1 DEF Asked, ShownFrom, Shows!Stages, Shows!Visible
    <3> QED
      BY <2>2, <3>1, <3>2, AskStep DEF Shows!Request
  <2>3. CASE Shows!Federates(c)
    <3> DEFINE b == [a EXCEPT !.at = "federates", !.federating = mode]
    <3>1. CASE \E kind : Shows!Reply(c, kind, {})
      BY <2>3, <3>1, RefusalStep DEF Shows!Federates
    <3>2. CASE ask' = [ask EXCEPT ![c].at = "federates", ![c].federating = mode]
               /\ ~(a.route \in {"webfinger", "nodeinfo"} /\ ~mode) /\ UNCHANGED shown
      <4>1. /\ b.at = "federates" /\ b.route = a.route /\ b.name = a.name
            /\ b.federating = mode /\ b.open = a.open /\ b.mode = a.mode
        BY <2>1, Zenon DEF Asked
      <4>2. b \in Asked
        BY <2>1 DEF Asked, Shows!Stages
      <4>3. ShownFrom(b)
        BY <2>1, <2>3, <3>2, <4>1 DEF ShownFrom, Shows!Federates
      <4>4. ask' = [ask EXCEPT ![c] = b]
        BY <2>1, <3>2 DEF OutwardInv, OutwardTyped
      <4> QED
        BY <2>3, <3>2, <4>2, <4>3, <4>4, AskStep DEF Shows!Federates
    <3> QED
      BY <2>3, <3>1, <3>2 DEF Shows!Federates
  <2>4. CASE Shows!Webfinger(c)
    BY <2>1, <2>4, RefusalStep, ReplyStep, ReadVisible DEF Shows!Webfinger, ShownFrom, Asked
  <2>5. CASE Shows!NodeInfo(c)
    <3>1. {n \in Agents : profile[n] # None /\ Shows!Read(n) # "local"} \subseteq a.open
      BY <2>1, <2>5, ReadVisible DEF ShownFrom, Shows!NodeInfo
    <3>2. a.mode
      BY <2>1, <2>5 DEF ShownFrom, Shows!NodeInfo
    <3> QED
      BY <2>5, <3>1, <3>2, ReplyStep DEF Shows!NodeInfo
  <2>6. CASE Shows!Directory(c)
    <3> DEFINE ns == {n \in Agents : profile[n] # None /\ a.federating /\ Shows!Read(n) = "discoverable"}
    <3>1. ns \subseteq a.open
      BY <2>1, <2>6, ReadVisible DEF ShownFrom, Shows!Directory
    <3>2. a.mode \/ ns = {}
      BY <2>1, <2>6 DEF ShownFrom, Shows!Directory
    <3> QED
      BY <2>6, <3>1, <3>2, ReplyStep DEF Shows!Directory
  <2>7. CASE Shows!Resolvable(c)
    <3>1. CASE Shows!Reply(c, "absent", {})
      BY <2>7, <3>1, RefusalStep DEF Shows!Resolvable
    <3>2. CASE Shows!Advance(c, "checked")
               /\ ~((a.federating \/ a.peer) /\ (profile[a.name] = None \/ Shows!Read(a.name) = "local"))
      <4> DEFINE b == [a EXCEPT !.at = "checked"]
      <4>1. /\ b.at = "checked" /\ b.route = a.route /\ b.name = a.name
            /\ b.federating = a.federating /\ b.open = a.open /\ b.mode = a.mode
        BY <2>1, Zenon DEF Asked
      <4>2. b \in Asked
        BY <2>1 DEF Asked, Shows!Stages
      <4>3. a.federating => a.name \in a.open
        BY <2>1, <2>7, <3>2, ReadVisible DEF ShownFrom, Asked, Shows!Resolvable
      <4>4. ShownFrom(b)
        BY <2>1, <2>7, <4>1, <4>3 DEF ShownFrom, Shows!Resolvable
      <4>5. ask' = [ask EXCEPT ![c] = b]
        BY <2>1, <3>2 DEF OutwardInv, OutwardTyped, Shows!Advance
      <4> QED
        BY <2>7, <3>2, <4>2, <4>4, <4>5, AskStep DEF Shows!Resolvable, Shows!Advance
    <3> QED
      BY <2>7, <3>1, <3>2 DEF Shows!Resolvable
  <2>8. CASE Shows!Actor(c)
    <3>1. CASE Shows!Reply(c, "refused", {}) \/ Shows!Reply(c, "absent", {})
      BY <2>8, <3>1, RefusalStep DEF Shows!Actor
    <3>2. CASE a.federating /\ \E kind : Shows!Reply(c, kind, {a.name})
      BY <2>1, <2>8, <3>2, ReplyStep DEF Shows!Actor, ShownFrom
    <3> QED
      BY <2>8, <3>1, <3>2 DEF Shows!Actor
  <2> QED
    BY <1>3, <2>2, <2>3, <2>4, <2>5, <2>6, <2>7, <2>8
<1> QED
  BY <1>1, <1>2, <1>3 DEF Shows!Next

LEMMA OutwardStays == ASSUME OutwardInv, UNCHANGED Shows!vars PROVE OutwardInv'
BY DEF Shows!vars, OutwardInv, OutwardTyped, ShownFrom, Shows!Visible

LEMMA OutwardHolds == ASSUME OutwardInv PROVE Shows!HiddenStaysHidden
BY DEF OutwardInv, Shows!HiddenStaysHidden

-----------------------------------------------------------------------------
(* The parts, side by side *)

\* A step in a behaviour of a part is a step of the part, or leaves it alone.
LEMMA StreamsStep ==
    ASSUME [HubNext]_hubVars, part' = "streams"
    PROVE  part = "streams" /\ [Streams!Next]_(Streams!vars)
BY DEF HubNext, hubVars, streams, Streams!vars

LEMMA SettingsStep ==
    ASSUME [HubNext]_hubVars, part' = "settings"
    PROVE  part = "settings" /\ [Settings!Next]_(Settings!vars)
BY DEF HubNext, hubVars, settings, Settings!vars

LEMMA TrustStep ==
    ASSUME [HubNext]_hubVars, part' = "trust"
    PROVE  part = "trust" /\ [Peers!Next]_(Peers!vars)
BY DEF HubNext, hubVars, trust, Peers!vars

LEMMA SharedStep ==
    ASSUME [HubNext]_hubVars, part' = "shared"
    PROVE  part = "shared" /\ [Device(SharedToken)!Next]_(Device(SharedToken)!vars)
BY DEF HubNext, hubVars, devices, Device!vars, Device!tokens

LEMMA BoundStep ==
    ASSUME [HubNext]_hubVars, part' = "bound"
    PROVE  part = "bound" /\ [Device(BoundToken)!Next]_(Device(BoundToken)!vars)
BY DEF HubNext, hubVars, devices, Device!vars, Device!tokens

LEMMA PipelineStep ==
    ASSUME [HubNext]_hubVars, part' = "pipeline"
    PROVE  part = "pipeline" /\ [Pipeline!Next]_(Pipeline!vars)
BY DEF HubNext, hubVars, pipeline, Pipeline!vars

LEMMA ShowsStep ==
    ASSUME [HubNext]_hubVars, part' = "shows"
    PROVE  part = "shows" /\ [Shows!Next]_(Shows!vars)
BY DEF HubNext, hubVars, shows, Shows!vars

\* A stream is sent what was announced to it, once and in order, but for what
\* found its queue full (notify.Listeners, House._announce); for any number of
\* clients, queue depth and cap.
THEOREM StreamsAreToldInOrder == HubSpec => []ToldOnceInOrder
<1> DEFINE I == part = "streams" => ListenersInv
<1>1. HubInit => I
  BY HubConstants, ListenersInit DEF HubInit
<1>2. I /\ [HubNext]_hubVars => I'
  BY HubConstants, StreamsStep, ListenersNext
<1>3. I => ToldOnceInOrder
  BY ListenersHold DEF ToldOnceInOrder
<1> QED
  BY <1>1, <1>2, <1>3, PTL DEF HubSpec

\* However requests overlap between the cap's two questions, no more streams
\* are registered than the cap allows (Listeners.at_capacity, open).
THEOREM StreamsStayWithinCap == HubSpec => [](part = "streams" => Streams!WithinCap)
<1> DEFINE I == part = "streams" => ListenersInv
<1>1. HubInit => I
  BY HubConstants, ListenersInit DEF HubInit
<1>2. I /\ [HubNext]_hubVars => I'
  BY HubConstants, StreamsStep, ListenersNext
<1>3. I => (part = "streams" => Streams!WithinCap)
  BY ListenersHold
<1> QED
  BY <1>1, <1>2, <1>3, PTL DEF HubSpec

\* The stored signing key changes only in the hands of a first need of it that
\* another first need overlaps (delivery.hub_signing_key).
THEOREM TheKeySettles == HubSpec => KeySettles
<1> DEFINE I == part = "settings" => NeedTyped
<1>1. HubInit => I
  BY NeedInit DEF HubInit
<1>2. I /\ [HubNext]_hubVars => I'
  BY SettingsStep, NeedNext
<1>3. I /\ [HubNext]_hubVars => [part = "settings" => Settings!KeySettlesStep]_settings
  <2> SUFFICES ASSUME I, [HubNext]_hubVars, part = "settings"
               PROVE  Settings!KeySettlesStep
    OBVIOUS
  <2>1. part' = part
    BY DEF HubNext, hubVars
  <2> QED
    BY <2>1, SettingsStep, NeedNext
<1> QED
  BY <1>1, <1>2, <1>3, PTL DEF HubSpec, KeySettles

\* No mail is sent to a hub that was blocked or untrusted, or with federation
\* switched off, for as long as the attempt lasted, and none is taken from a hub
\* that was untrusted, or with federation off, for as long as that took
\* (FederatedDelivery.deliver, federation_inbox): no answer is carried over from
\* an earlier attempt.  Of a block on mail coming in it says nothing: that path
\* does not ask.
THEOREM TrustIsDecidedAnew == HubSpec => []DecidedAnew
<1> DEFINE I == part = "trust" => TrustInv
<1>1. HubInit => I
  BY TrustInit DEF HubInit
<1>2. I /\ [HubNext]_hubVars => I'
  BY TrustStep, TrustNext
<1>3. I => DecidedAnew
  BY TrustHolds DEF DecidedAnew
<1> QED
  BY <1>1, <1>2, <1>3, PTL DEF HubSpec

\* Every agent that a token let in is on the token's list and on the page the
\* token is revoked by, or the row that would have put it there failed to be
\* written (AuthService.admit, list_tokens, revoke_token): for any tokens,
\* requests at once and restarts.
THEOREM TheAdmittedAreKnown == HubSpec => []AdmittedIsKnown
<1> DEFINE I == /\ part = "shared" => TokensInv(SharedToken)
                /\ part = "bound" => TokensInv(BoundToken)
<1>1. HubInit => I
  BY HubConstants, TokensInit DEF HubInit
<1>2. I /\ [HubNext]_hubVars => I'
  BY HubConstants, SharedStep, BoundStep, TokensNext
<1>3. I => AdmittedIsKnown
  BY HubConstants, TokensHold DEF AdmittedIsKnown
<1> QED
  BY <1>1, <1>2, <1>3, PTL DEF HubSpec

\* Every remote recipient of what was reported sent has a receipt, whatever
\* was unresolved, refused or cut off (House.send).
THEOREM RecipientsAreAccounted == HubSpec => []EveryRecipientAccounted
<1> DEFINE I == part = "pipeline" => HouseInv
<1>1. HubInit => I
  BY HouseInit DEF HubInit
<1>2. I /\ [HubNext]_hubVars => I'
  BY PipelineStep, HouseNext
<1>3. I => EveryRecipientAccounted
  BY HouseHolds DEF EveryRecipientAccounted
<1> QED
  BY <1>1, <1>2, <1>3, PTL DEF HubSpec

\* A name that was hidden all the while a route worked on its answer is not in
\* the answer (visibility.read, api's WebFinger, actor, directory, NodeInfo).
THEOREM TheHiddenStayHidden == HubSpec => []HiddenStaysHidden
<1> DEFINE I == part = "shows" => OutwardInv
<1>1. HubInit => I
  BY OutwardInit DEF HubInit
<1>2. I /\ [HubNext]_hubVars => I'
  BY ShowsStep, OutwardNext, OutwardStays
<1>3. I => HiddenStaysHidden
  BY OutwardHolds DEF HiddenStaysHidden
<1> QED
  BY <1>1, <1>2, <1>3, PTL DEF HubSpec

\* Whichever part a behaviour is one of, the store that is read goes on as its
\* module says: what readers are shown of it agrees (Mailbox's thread_roots,
\* observe_thread and peek, the console's thread_tree, rules.search and
\* retract_thread_route).
THEOREM TheViewsGoOnAgreeing == HubSpec => []ViewsAgree
<1>1. HubInit => ReadingInit
  BY DEF HubInit
<1>2. [HubNext]_hubVars => [ReadingNext]_readingVars
  BY DEF HubNext, hubVars
<1>3. HubSpec => ReadingSpec
  BY <1>1, <1>2, PTL DEF HubSpec, ReadingSpec
<1> QED
  BY <1>3, TheViewsAgree

\* And the connection that all of it is written through loses only what another
\* operation of the same connection rolled back (SqliteStore._execute).
THEOREM OnlyRollbacksLose == HubSpec => []OnlyARollbackLoses
<1>1. HubInit => Init
  BY DEF HubInit
<1>2. [HubNext]_hubVars => [Next]_vars
  BY DEF HubNext, hubVars
<1>3. HubSpec => Spec
  BY <1>1, <1>2, PTL DEF HubSpec, Spec
<1> QED
  BY <1>3, LossNeedsARollback

-----------------------------------------------------------------------------
(* Mail to another hub (Delivery), of which DeliveryProofs has the proofs   *)
(*                                                                         *)
(* Theorems of an instance with a parameter cannot be cited, so there is   *)
(* one instance of the proofs for each kind of mail, and Hub's instance is *)
(* the same with the definitions written out.                              *)

Retrying == INSTANCE DeliveryProofs WITH
    Mentions <- Retried.mentions, Backoff <- Retried.backoff
Twice == INSTANCE DeliveryProofs WITH
    Mentions <- Twins.mentions, Backoff <- Twins.backoff

\* Mail that is retried: what Hub says of it is what is proved.
LEMMA RetryingAlike ==
    /\ Wire(Retried)!DeliveryConstants <=> Retrying!DeliveryConstants
    /\ Wire(Retried)!DeliveryInit <=> Retrying!DeliveryInit
    /\ Wire(Retried)!Courier!Init <=> Retrying!Courier!Init
    /\ Wire(Retried)!OneClaimant <=> Retrying!OneClaimant
BY DEF Wire!Copies, Wire!Activity, Wire!Activities, Wire!MaxTries, Wire!Free, Wire!Never,
       Wire!Serving, Wire!DeliveryConstants, Wire!DeliveryInit, Wire!Claimants,
       Wire!OneClaimant, Wire!Said, Wire!Courier!Activities, Wire!Courier!Init,
       Retrying!Copies, Retrying!Activity, Retrying!Activities, Retrying!MaxTries,
       Retrying!Free, Retrying!Never, Retrying!Serving, Retrying!DeliveryConstants,
       Retrying!DeliveryInit, Retrying!Claimants, Retrying!OneClaimant, Retrying!Said,
       Retrying!Courier!Activities, Retrying!Courier!Init

LEMMA RetryingStepsAlike ==
    [Wire(Retried)!DeliveryNext]_(Wire(Retried)!deliveryVars)
        <=> [Retrying!DeliveryNext]_(Retrying!deliveryVars)
BY DEF Wire!Copies, Wire!Activity, Wire!Activities, Wire!MaxTries, Wire!sender,
       Wire!receiver, Wire!deliveryVars, Wire!Free, Wire!Never, Wire!Serving,
       Wire!Answers, Wire!Becomes, Wire!InFlight, Wire!Inline, Wire!Timed, Wire!Held,
       Wire!Start, Wire!End, Wire!Send, Wire!Retry, Wire!Authorize, Wire!Post,
       Wire!Trickle, Wire!TryLater, Wire!NoAnswer, Wire!Verdict, Wire!Answered,
       Wire!SenderStops, Wire!SenderCrashes, Wire!ChangeTrust, Wire!Respond,
       Wire!Lose, Wire!TurnedAway, Wire!Outlived, Wire!ClaimWins, Wire!Claim,
       Wire!Store, Wire!SendRaises, Wire!Cancelled, Wire!Release, Wire!Completes,
       Wire!CompleteRaises, Wire!ReceiverCrashes, Wire!TimePasses, Wire!Sender,
       Wire!Receiver, Wire!DeliveryNext, Retrying!Copies, Retrying!Activity,
       Retrying!Activities, Retrying!MaxTries, Retrying!sender, Retrying!receiver,
       Retrying!deliveryVars, Retrying!Free, Retrying!Never, Retrying!Serving,
       Retrying!Answers, Retrying!Becomes, Retrying!InFlight, Retrying!Inline,
       Retrying!Timed, Retrying!Held, Retrying!Start, Retrying!End, Retrying!Send,
       Retrying!Retry, Retrying!Authorize, Retrying!Post, Retrying!Trickle,
       Retrying!TryLater, Retrying!NoAnswer, Retrying!Verdict, Retrying!Answered,
       Retrying!SenderStops, Retrying!SenderCrashes, Retrying!ChangeTrust,
       Retrying!Respond, Retrying!Lose, Retrying!TurnedAway, Retrying!Outlived,
       Retrying!ClaimWins, Retrying!Claim, Retrying!Store, Retrying!SendRaises,
       Retrying!Cancelled, Retrying!Release, Retrying!Completes,
       Retrying!CompleteRaises, Retrying!ReceiverCrashes, Retrying!TimePasses,
       Retrying!Sender, Retrying!Receiver, Retrying!DeliveryNext

LEMMA RetryingCourierAlike == Wire(Retried)!CourierStep <=> Retrying!CourierStep
BY DEF Wire!Copies, Wire!Activity, Wire!Said, Wire!CourierStep, Wire!Courier!Activities,
       Wire!Courier!Words, Wire!Courier!Arrive, Wire!Courier!Lapse,
       Wire!Courier!MaySay, Wire!Courier!Speak, Wire!Courier!Next, Retrying!Copies,
       Retrying!Activity, Retrying!Said, Retrying!CourierStep,
       Retrying!Courier!Activities, Retrying!Courier!Words, Retrying!Courier!Arrive,
       Retrying!Courier!Lapse, Retrying!Courier!MaySay, Retrying!Courier!Speak,
       Retrying!Courier!Next

\* Mail to a recipient named twice: what Hub says of it is what is proved.
LEMMA TwiceAlike ==
    /\ Wire(Twins)!DeliveryConstants <=> Twice!DeliveryConstants
    /\ Wire(Twins)!DeliveryInit <=> Twice!DeliveryInit
    /\ Wire(Twins)!Courier!Init <=> Twice!Courier!Init
    /\ Wire(Twins)!OneClaimant <=> Twice!OneClaimant
BY DEF Wire!Copies, Wire!Activity, Wire!Activities, Wire!MaxTries, Wire!Free, Wire!Never,
       Wire!Serving, Wire!DeliveryConstants, Wire!DeliveryInit, Wire!Claimants,
       Wire!OneClaimant, Wire!Said, Wire!Courier!Activities, Wire!Courier!Init,
       Twice!Copies, Twice!Activity, Twice!Activities, Twice!MaxTries, Twice!Free,
       Twice!Never, Twice!Serving, Twice!DeliveryConstants, Twice!DeliveryInit,
       Twice!Claimants, Twice!OneClaimant, Twice!Said, Twice!Courier!Activities,
       Twice!Courier!Init

LEMMA TwiceStepsAlike ==
    [Wire(Twins)!DeliveryNext]_(Wire(Twins)!deliveryVars)
        <=> [Twice!DeliveryNext]_(Twice!deliveryVars)
BY DEF Wire!Copies, Wire!Activity, Wire!Activities, Wire!MaxTries, Wire!sender,
       Wire!receiver, Wire!deliveryVars, Wire!Free, Wire!Never, Wire!Serving,
       Wire!Answers, Wire!Becomes, Wire!InFlight, Wire!Inline, Wire!Timed, Wire!Held,
       Wire!Start, Wire!End, Wire!Send, Wire!Retry, Wire!Authorize, Wire!Post,
       Wire!Trickle, Wire!TryLater, Wire!NoAnswer, Wire!Verdict, Wire!Answered,
       Wire!SenderStops, Wire!SenderCrashes, Wire!ChangeTrust, Wire!Respond,
       Wire!Lose, Wire!TurnedAway, Wire!Outlived, Wire!ClaimWins, Wire!Claim,
       Wire!Store, Wire!SendRaises, Wire!Cancelled, Wire!Release, Wire!Completes,
       Wire!CompleteRaises, Wire!ReceiverCrashes, Wire!TimePasses, Wire!Sender,
       Wire!Receiver, Wire!DeliveryNext, Twice!Copies, Twice!Activity,
       Twice!Activities, Twice!MaxTries, Twice!sender, Twice!receiver,
       Twice!deliveryVars, Twice!Free, Twice!Never, Twice!Serving, Twice!Answers,
       Twice!Becomes, Twice!InFlight, Twice!Inline, Twice!Timed, Twice!Held,
       Twice!Start, Twice!End, Twice!Send, Twice!Retry, Twice!Authorize, Twice!Post,
       Twice!Trickle, Twice!TryLater, Twice!NoAnswer, Twice!Verdict, Twice!Answered,
       Twice!SenderStops, Twice!SenderCrashes, Twice!ChangeTrust, Twice!Respond,
       Twice!Lose, Twice!TurnedAway, Twice!Outlived, Twice!ClaimWins, Twice!Claim,
       Twice!Store, Twice!SendRaises, Twice!Cancelled, Twice!Release, Twice!Completes,
       Twice!CompleteRaises, Twice!ReceiverCrashes, Twice!TimePasses, Twice!Sender,
       Twice!Receiver, Twice!DeliveryNext

LEMMA TwiceCourierAlike == Wire(Twins)!CourierStep <=> Twice!CourierStep
BY DEF Wire!Copies, Wire!Activity, Wire!Said, Wire!CourierStep, Wire!Courier!Activities,
       Wire!Courier!Words, Wire!Courier!Arrive, Wire!Courier!Lapse,
       Wire!Courier!MaySay, Wire!Courier!Speak, Wire!Courier!Next, Twice!Copies,
       Twice!Activity, Twice!Said, Twice!CourierStep, Twice!Courier!Activities,
       Twice!Courier!Words, Twice!Courier!Arrive, Twice!Courier!Lapse,
       Twice!Courier!MaySay, Twice!Courier!Speak, Twice!Courier!Next

\* The mail in the hub's behaviours, of either kind.
LEMMA MailBegins ==
    ASSUME HubInit
    PROVE  /\ part = "wire" => Retrying!IInv
           /\ part = "twice" => Twice!IInv
<1>1. part = "wire" => Wire(Retried)!DeliveryInit
  BY DEF HubInit
<1>2. part = "twice" => Wire(Twins)!DeliveryInit
  BY DEF HubInit
<1>3. Retrying!DeliveryConstants /\ Twice!DeliveryConstants
  BY HubConstants, RetryingAlike, TwiceAlike
<1> QED
  BY <1>1, <1>2, <1>3, RetryingAlike, TwiceAlike, Retrying!InitInv, Twice!InitInv

LEMMA MailStep ==
    ASSUME [HubNext]_hubVars
    PROVE  /\ part' = part
           /\ part = "wire" => [Wire(Retried)!DeliveryNext]_(Wire(Retried)!deliveryVars)
           /\ part = "twice" => [Wire(Twins)!DeliveryNext]_(Wire(Twins)!deliveryVars)
<1>1. /\ wire' = wire => UNCHANGED Wire(Retried)!deliveryVars
      /\ wire' = wire => UNCHANGED Wire(Twins)!deliveryVars
  BY DEF wire, Wire!deliveryVars, Wire!sender, Wire!receiver
<1> QED
  BY <1>1 DEF HubNext, hubVars

LEMMA MailGoesOn ==
    ASSUME [HubNext]_hubVars,
           /\ part = "wire" => Retrying!IInv
           /\ part = "twice" => Twice!IInv
    PROVE  /\ part' = "wire" => Retrying!IInv'
           /\ part' = "twice" => Twice!IInv'
<1>1. part = "wire" => [Retrying!DeliveryNext]_(Retrying!deliveryVars)
  BY MailStep, RetryingStepsAlike
<1>2. part = "twice" => [Twice!DeliveryNext]_(Twice!deliveryVars)
  BY MailStep, TwiceStepsAlike
<1> QED
  BY <1>1, <1>2, MailStep, Retrying!NextInv, Twice!NextInv

\* One delivery of an activity is under way at a time, until a claim of it lapses
\* (Mailbox.claim_activity, api.federation_inbox): of mail that is retried and of
\* mail that names its recipient twice.
THEOREM MailIsClaimedOnce == HubSpec => []OneClaimant
<1> DEFINE I == (part = "wire" => Retrying!IInv) /\ (part = "twice" => Twice!IInv)
<1>1. HubInit => I
  BY MailBegins
<1>2. I /\ [HubNext]_hubVars => I'
  BY MailGoesOn
<1>3. I => OneClaimant
  BY RetryingAlike, TwiceAlike, Retrying!ClaimantsAreOne, Twice!ClaimantsAreOne
     DEF OneClaimant
<1> QED
  BY <1>1, <1>2, <1>3, PTL DEF HubSpec

\* The sending and the receiving hub implement the courier: at most one arrival
\* until a claim lapses, and never a word to the sender that is not so
\* (retry.RetryingDelivery, api.federation_inbox).
THEOREM MailKeepsItsPromise == HubSpec => KeepsItsPromise
<1> DEFINE I == (part = "wire" => Retrying!IInv) /\ (part = "twice" => Twice!IInv)
<1> DEFINE Good == /\ part = "wire" => Wire(Retried)!CourierStep
                   /\ part = "twice" => Wire(Twins)!CourierStep
<1>1. HubInit => I
  BY MailBegins
<1>2. I /\ [HubNext]_hubVars => I'
  BY MailGoesOn
<1>3. HubInit => /\ part = "wire" => Wire(Retried)!Courier!Init
                 /\ part = "twice" => Wire(Twins)!Courier!Init
  BY RetryingAlike, TwiceAlike, Retrying!CourierBegins, Twice!CourierBegins DEF HubInit
<1>4. I /\ I' /\ [HubNext]_hubVars => Good
  <2> SUFFICES ASSUME I, I', [HubNext]_hubVars PROVE Good
    OBVIOUS
  <2>1. part = "wire" => Retrying!CourierStep
    BY MailStep, RetryingStepsAlike, Retrying!StepsAreCouriers
  <2>2. part = "twice" => Twice!CourierStep
    BY MailStep, TwiceStepsAlike, Twice!StepsAreCouriers
  <2> QED  BY <2>1, <2>2, RetryingCourierAlike, TwiceCourierAlike
<1> QED
  BY <1>1, <1>2, <1>3, <1>4, PTL DEF HubSpec, KeepsItsPromise
=============================================================================
