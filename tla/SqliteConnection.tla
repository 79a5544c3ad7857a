-------------------------- MODULE SqliteConnection --------------------------
(***************************************************************************)
(* How the hub's coroutines share its database: SqliteStore and            *)
(* SqliteAuthStore each hold one aiosqlite connection to the same file,    *)
(* and every coroutine uses the connection of its store.                   *)
(*                                                                         *)
(* A connection has one transaction.  The first write opens it and takes   *)
(* the file's only write lock; whatever any coroutine writes through the   *)
(* connection joins it; and whichever coroutine commits or rolls back      *)
(* first does so for all of them.  An operation awaits each of its         *)
(* statements and then its commit, so others run in between; the handler   *)
(* that undoes a failed statement awaits its rollback likewise.            *)
(*                                                                         *)
(* An operation runs once.  What it writes is a row <<operation, index of  *)
(* the statement>>; what a statement says is left out.                     *)
(***************************************************************************)
EXTENDS Integers, Sequences

CONSTANTS
    Nobody,
    Connections,
    Operations,     \* calls of the stores' methods
    On,             \* operation -> the connection of its store
    Program,        \* operation -> its statements, each a "read" or a "write"
    Faults          \* what goes wrong, besides contention

ASSUME ConnectionConstants ==
    /\ Nobody \notin Connections
    /\ On \in [Operations -> Connections]
    /\ Program \in [Operations -> Seq({"read", "write"})]
    /\ Faults \subseteq {"raise", "cancel", "commit"}

VARIABLES
    stage,      \* operation -> where its coroutine is
    ran,        \* operation -> statements executed
    told,       \* operation -> what its caller was told
    writer,     \* the connection whose transaction is open, and has the lock
    pending,    \* rows of the open transaction
    disk        \* committed rows

vars == <<stage, ran, told, writer, pending, disk>>

Length(c) == Len(Program[c])
Rows(c) == {<<c, i>> : i \in {j \in 1 .. Length(c) : Program[c][j] = "write"}}
AllRows == UNION {Rows(c) : c \in Operations}

TypeOK ==
    /\ stage \in [Operations -> {"waiting", "running", "undoing", "over"}]
    /\ ran \in [Operations -> Nat]
    /\ \A c \in Operations : ran[c] <= Length(c)
    /\ told \in [Operations -> {"nothing", "done", "failed", "cancelled"}]
    /\ writer \in Connections \cup {Nobody}
    /\ pending \subseteq AllRows
    /\ disk \subseteq AllRows
    /\ writer = Nobody => pending = {}

Init ==
    /\ stage = [c \in Operations |-> "waiting"]
    /\ ran = [c \in Operations |-> 0]
    /\ told = [c \in Operations |-> "nothing"]
    /\ writer = Nobody
    /\ pending = {}
    /\ disk = {}

----------------------------------------------------------------------------
(* The transaction of a connection.                                        *)

\* Mutant: a commit that is forgotten.
Uncommitted(c) == UNCHANGED <<writer, pending, disk>>

\* With no transaction open a commit succeeds and does nothing.
Committed(c) ==
    IF writer = On[c]
    THEN disk' = disk \cup pending /\ pending' = {} /\ writer' = Nobody
    ELSE UNCHANGED <<writer, pending, disk>>

\* Mutant: the failed statement's transaction stays open.
LeftOpen(c) == UNCHANGED <<writer, pending>>

RolledBack(c) ==
    IF writer = On[c] THEN pending' = {} /\ writer' = Nobody
    ELSE UNCHANGED <<writer, pending>>

\* One statement at SQLite.
Executed(c) ==
    IF Program[c][ran[c] + 1] = "read" THEN UNCHANGED <<writer, pending>>
    ELSE /\ writer \in {Nobody, On[c]}
         /\ writer' = On[c]
         /\ pending' = pending \cup {<<c, ran[c] + 1>>}

----------------------------------------------------------------------------
(* One operation.                                                          *)

Running(c) == stage[c] = "running" /\ ran[c] < Length(c)

Over(c, outcome) ==
    /\ stage' = [stage EXCEPT ![c] = "over"]
    /\ told' = [told EXCEPT ![c] = outcome]

Begin(c) ==
    /\ stage[c] = "waiting"
    /\ stage' = [stage EXCEPT ![c] = "running"]
    /\ UNCHANGED <<ran, told, writer, pending, disk>>

Execute(c) ==
    /\ Running(c)
    /\ Executed(c)
    /\ ran' = [ran EXCEPT ![c] = @ + 1]
    /\ UNCHANGED <<stage, told, disk>>

\* The statement raises: the write lock stayed with the other connection for
\* longer than busy_timeout, or SQLite refuses it.
Raise(c) ==
    /\ Running(c)
    /\ \/ "raise" \in Faults
       \/ Program[c][ran[c] + 1] = "write" /\ writer \notin {Nobody, On[c]}
    /\ stage' = [stage EXCEPT ![c] = "undoing"]
    /\ UNCHANGED <<ran, told, writer, pending, disk>>

\* The coroutine is cancelled at the statement, which is executed all the
\* same if it was already handed to the connection's thread.
Cancel(c) ==
    /\ "cancel" \in Faults
    /\ Running(c)
    /\ Executed(c) \/ UNCHANGED <<writer, pending>>
    /\ stage' = [stage EXCEPT ![c] = "undoing"]
    /\ UNCHANGED <<ran, told, disk>>

\* `except BaseException' around every statement; what stopped it is raised
\* again.
Rollback(c) ==
    /\ stage[c] = "undoing"
    /\ RolledBack(c)
    /\ Over(c, "failed")
    /\ UNCHANGED <<ran, disk>>

\* An operation that writes ends with a commit, which is not so guarded: one
\* that is cancelled happens all the same, one that raises leaves the
\* transaction as it is.
Commit(c) ==
    /\ stage[c] = "running" /\ ran[c] = Length(c) /\ Rows(c) # {}
    /\ Committed(c)
    /\ Over(c, "done") \/ ("cancel" \in Faults /\ Over(c, "cancelled"))
    /\ UNCHANGED ran

CommitRaises(c) ==
    /\ "commit" \in Faults
    /\ stage[c] = "running" /\ ran[c] = Length(c) /\ Rows(c) # {}
    /\ Over(c, "failed")
    /\ UNCHANGED <<ran, writer, pending, disk>>

\* An operation that only reads commits nothing.
Return(c) ==
    /\ stage[c] = "running" /\ ran[c] = Length(c) /\ Rows(c) = {}
    /\ Over(c, "done")
    /\ UNCHANGED <<ran, writer, pending, disk>>

\* The process dies; SQLite discards what was not committed.
Crash ==
    /\ stage' = [c \in Operations |->
                   IF stage[c] \in {"running", "undoing"} THEN "over" ELSE stage[c]]
    /\ writer' = Nobody
    /\ pending' = {}
    /\ UNCHANGED <<ran, told, disk>>

Work(c) ==
    \/ Execute(c) \/ Raise(c) \/ Cancel(c) \/ Rollback(c)
    \/ Commit(c) \/ CommitRaises(c) \/ Return(c)

Next == Crash \/ \E c \in Operations : Begin(c) \/ Work(c)

Spec == Init /\ [][Next]_vars

----------------------------------------------------------------------------
(* What must be true of it.                                                *)

\* What a caller was told is stored is on disk, whatever the operations that
\* share the connection do: "From here nothing can lose the sender's own
\* copy" (house.send).
DoneIsDurable ==
    \A c \in Operations : told[c] = "done" => Rows(c) \subseteq disk

\* Another operation of the same connection had a statement that failed.
Disturbed(c) ==
    \E d \in Operations \ {c} :
        On[d] = On[c] /\ told[d] = "failed" /\ ran[d] < Length(d)

\* Nothing else loses what a caller was told is stored: no other store, no
\* commit that raises or is cancelled, no crash, in whatever order the
\* operations that share the transaction commit (SqliteStore._execute).
OnlyARollbackLoses ==
    \A c \in Operations :
        told[c] = "done" => Rows(c) \subseteq disk \/ Disturbed(c)

\* Every operation runs on as the event loop schedules it, and the thread of
\* the connection answers it; none has to begin.
FairSpec == Spec /\ \A c \in Operations : WF_vars(Work(c))

\* A transaction that a commit did not end, because it raised.
Stranded(s) ==
    \E c \in Operations : On[c] = s /\ told[c] = "failed" /\ ran[c] = Length(c)

\* No failed or cancelled statement leaves the write lock behind: a lock that
\* is taken is handed back, also if nobody ever uses the connection again,
\* unless a commit raised (SqliteStore._execute, the outage of 2026-07-26).
LockHandedBack ==
    \A s \in Connections : writer = s ~> writer # s \/ Stranded(s)
=============================================================================
