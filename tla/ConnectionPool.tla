--------------------------- MODULE ConnectionPool ---------------------------
(***************************************************************************)
(* What NerveMQ's calls hold while they wait (src/src/service.rs; the two  *)
(* rules of "Concurrency notes" in docs/architecture/message-lifecycle.md).*)
(* A call is the sequence of steps it takes on the database: it takes a    *)
(* connection from the pool, reads and writes on it, and gives it back.    *)
(* SQLite lets one transaction write at a time, and refuses at once a      *)
(* write in a transaction that has read a snapshot another call's commit   *)
(* has since overtaken (SQLITE_BUSY_SNAPSHOT).                             *)
(*                                                                         *)
(* The pool and SQLite each give up waiting after a timeout.  They do not  *)
(* here: what is checked is that no call needs them to.                    *)
(*                                                                         *)
(* A loop of statements is two of them.  A call that skips its first       *)
(* queries (a cached answer) is where one that made them ends up, so each  *)
(* path has them.                                                          *)
(***************************************************************************)
EXTENDS Naturals, Sequences, FiniteSets

CONSTANTS
    Request,    \* the calls in flight at once
    Nobody,     \* no request
    Slots,      \* the connections of the pool
    Operation   \* the calls requests make

ASSUME ConstantsAssumption ==
    /\ IsFiniteSet(Request)
    /\ Nobody \notin Request
    /\ Slots \in Nat \ {0}

VARIABLES
    path,     \* per request, the steps its call still has to take
    holding,  \* per request, the connections it holds
    snapshot, \* per request, what its transaction has read
    writer    \* the request whose transaction has written

vars == <<path, holding, snapshot, writer>>

-----------------------------------------------------------------------------

Step == {"acquire", "begin", "read", "write", "commit", "release"}

\* One statement on the pool, and a transaction.
Query == <<"acquire", "read", "release">>
Statement == <<"acquire", "write", "release">>
Transaction(body) == <<"acquire", "begin">> \o body \o <<"commit", "release">>
\* Reads on one connection, without a transaction.
Reads(body) == <<"acquire">> \o body \o <<"release">>

Resolve == Query
RequireManager == Query \o Query

Send == Resolve \o Transaction(<<"write", "write">>)
\* Deviation: the queue is looked up inside the transaction.
SendBatchReadsFirst == Resolve \o Transaction(<<"read", "write", "write">>)
SendBatch == Resolve \o Query \o Transaction(<<"write", "write">>)
\* Deviation: the claimed messages' attributes are read on the pool.
ReceiveOnThePool ==
    Resolve \o Query \o <<"acquire", "begin", "write">> \o Query \o <<"commit", "release">>
Receive == Resolve \o Query \o Transaction(<<"write", "read", "read">>)
DeleteMessages == Resolve \o Statement
ChangeVisibility == Resolve \o Statement \o Statement \o Query
Purge == RequireManager \o Resolve \o Statement
AdminWrite == RequireManager \o Query \o Statement
SetPaused == RequireManager \o Statement

CreateQueue == Query \o RequireManager \o Transaction(<<"write", "write", "read">>)
DeleteQueue == RequireManager \o Query \o Transaction(<<"write">>)
SetAttributes == RequireManager \o Query \o Transaction(<<"write", "write">>)
TagQueue == RequireManager \o Reads(<<"read", "write", "write">>)
CreateNamespace == Query \o Transaction(<<"write", "write">>)
DeleteNamespace == RequireManager \o Transaction(<<"write">>)

CreateToken == RequireManager \o Query \o Query \o Transaction(<<"write">>)
CreateUser == Query \o Query \o Statement \o Transaction(<<"write", "write">>) \o Statement
DeleteUser == Statement \o Statement
Grant == Query \o Query \o Transaction(<<"write", "write">>)
SetOwner == Query \o Query \o Statement

\* Deviation: each message's attributes are read on a connection of their
\* own, while the list holds one.
ListMessagesInTasks == Reads(<<"read", "read">> \o Query)
ListMessages == RequireManager \o Reads(<<"read", "read", "read">>)
QueueDepth == Reads(<<"read", "read", "read", "read">>)
ListQueues == Reads(<<"read", "read">> \o Query)
ListAllQueues == Query
Sweep == Statement \o Query \o Statement

Path(op) ==
    CASE op = "send" -> Send [] op = "sendBatch" -> SendBatch [] op = "receive" -> Receive
      [] op = "deleteMessages" -> DeleteMessages [] op = "changeVisibility" -> ChangeVisibility
      [] op = "purge" -> Purge [] op = "adminWrite" -> AdminWrite [] op = "setPaused" -> SetPaused
      [] op = "createQueue" -> CreateQueue [] op = "deleteQueue" -> DeleteQueue
      [] op = "setAttributes" -> SetAttributes [] op = "tagQueue" -> TagQueue
      [] op = "createNamespace" -> CreateNamespace [] op = "deleteNamespace" -> DeleteNamespace
      [] op = "createToken" -> CreateToken [] op = "createUser" -> CreateUser
      [] op = "deleteUser" -> DeleteUser [] op = "grant" -> Grant [] op = "setOwner" -> SetOwner
      [] op = "listMessages" -> ListMessages [] op = "queueDepth" -> QueueDepth
      [] op = "listQueues" -> ListQueues [] op = "listAllQueues" -> ListAllQueues
      [] op = "sweep" -> Sweep

-----------------------------------------------------------------------------

Busy(r) == path[r] # <<>>
At(r, step) == Busy(r) /\ Head(path[r]) = step
Taken == {place \in Request \X (1 .. Slots) : place[2] <= holding[place[1]]}
Free == Cardinality(Taken) < Slots
InTransaction(r) == snapshot[r] # "none"

\* Whether r's next step need not wait for another request.
Ready(r) ==
    /\ At(r, "acquire") => Free
    /\ At(r, "write") => writer \in {Nobody, r}

Init ==
    /\ path = [r \in Request |-> <<>>]
    /\ holding = [r \in Request |-> 0]
    /\ snapshot = [r \in Request |-> "none"]
    /\ writer = Nobody

Start(r, op) ==
    /\ ~Busy(r)
    /\ path' = [path EXCEPT ![r] = Path(op)]
    /\ UNCHANGED <<holding, snapshot, writer>>

Go(r) == path' = [path EXCEPT ![r] = Tail(@)]

Acquire(r) ==
    /\ At(r, "acquire") /\ Ready(r)
    /\ holding' = [holding EXCEPT ![r] = @ + 1]
    /\ Go(r)
    /\ UNCHANGED <<snapshot, writer>>

Release(r) ==
    /\ At(r, "release")
    /\ holding' = [holding EXCEPT ![r] = @ - 1]
    /\ Go(r)
    /\ UNCHANGED <<snapshot, writer>>

(* A transaction begins deferred: it reads nothing and locks nothing.      *)
Begin(r) ==
    /\ At(r, "begin")
    /\ snapshot' = [snapshot EXCEPT ![r] = "open"]
    /\ Go(r)
    /\ UNCHANGED <<holding, writer>>

Read(r) ==
    /\ At(r, "read")
    /\ snapshot' = [snapshot EXCEPT ![r] = IF @ = "open" THEN "fresh" ELSE @]
    /\ Go(r)
    /\ UNCHANGED <<holding, writer>>

(* What a commit does to the snapshots of the others.                      *)
Overtake(r, own) ==
    snapshot' = [s \in Request |->
        IF s = r THEN own ELSE IF snapshot[s] = "fresh" THEN "stale" ELSE snapshot[s]]

(* Outside a transaction a write commits as it runs.  In one, it locks the *)
(* database until the transaction ends.                                    *)
Write(r) ==
    /\ At(r, "write") /\ Ready(r)
    /\ snapshot[r] # "stale"
    /\ IF InTransaction(r)
       THEN /\ writer' = r
            /\ snapshot' = [snapshot EXCEPT ![r] = "fresh"]
       ELSE /\ Overtake(r, "none")
            /\ writer' = writer
    /\ Go(r)
    /\ UNCHANGED holding

Commit(r) ==
    /\ At(r, "commit")
    /\ IF writer = r
       THEN Overtake(r, "none") /\ writer' = Nobody
       ELSE snapshot' = [snapshot EXCEPT ![r] = "none"] /\ writer' = writer
    /\ Go(r)
    /\ UNCHANGED holding

(* A call fails, or its client goes away: its transaction rolls back and   *)
(* its connections return.                                                 *)
Abort(r) ==
    /\ Busy(r)
    /\ path' = [path EXCEPT ![r] = <<>>]
    /\ holding' = [holding EXCEPT ![r] = 0]
    /\ snapshot' = [snapshot EXCEPT ![r] = "none"]
    /\ writer' = IF writer = r THEN Nobody ELSE writer

Run(r) == Acquire(r) \/ Release(r) \/ Begin(r) \/ Read(r) \/ Write(r) \/ Commit(r)
Next == \E r \in Request : (\E op \in Operation : Start(r, op)) \/ Run(r) \/ Abort(r)

Spec == Init /\ [][Next]_vars

-----------------------------------------------------------------------------

(* The type invariant: no more connections are held than the pool has, and *)
(* a request between calls holds none and writes nothing.                  *)
TypeOK ==
    /\ path \in [Request -> Seq(Step)]
    /\ holding \in [Request -> 0 .. Slots]
    /\ Cardinality(Taken) <= Slots
    /\ snapshot \in [Request -> {"none", "open", "fresh", "stale"}]
    /\ writer \in Request \cup {Nobody}
    /\ \A r \in Request : ~Busy(r) => holding[r] = 0 /\ snapshot[r] = "none" /\ writer # r

(* The one transaction that has written never waits for anything another   *)
(* request has: neither for a connection, all of which may be held by      *)
(* requests waiting for it to end, nor for a lock.                         *)
WriterNeverWaits == writer # Nobody => Ready(writer)

(* The calls in flight never all wait for each other, to "deadlock the     *)
(* pool until PoolTimedOut fails them all" (message-lifecycle.md,          *)
(* Concurrency notes): whatever they hold, one of them can go on, without  *)
(* a timeout or a failure to break the tie.                                *)
SomeoneRuns == (\E r \in Request : Busy(r)) => \E r \in Request : Busy(r) /\ Ready(r)

(* No transaction writes on a snapshot that others' commits have made      *)
(* stale, so no call is refused with SQLITE_BUSY_SNAPSHOT, whoever commits *)
(* between its steps.                                                      *)
NoStaleWrite == \A r \in Request : At(r, "write") => snapshot[r] # "stale"
=============================================================================
