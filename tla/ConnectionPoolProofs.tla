------------------------ MODULE ConnectionPoolProofs ------------------------
(***************************************************************************)
(* Why the calls of ConnectionPool never wait for each other, however many *)
(* are in flight and however few the connections: each takes them one at a *)
(* time, and writes first in its transactions.  That is a property of each *)
(* path on its own (Leads); the theorems say what it does for all of them  *)
(* together.                                                               *)
(***************************************************************************)
EXTENDS ConnectionPool, FiniteSetTheorems, TLAPS

USE ConstantsAssumption

(* Every call but list_queues, which takes a second connection.            *)
OneAtATime ==
    {"send", "sendBatch", "receive", "deleteMessages", "changeVisibility", "purge",
     "adminWrite", "setPaused", "createQueue", "deleteQueue", "setAttributes", "tagQueue",
     "createNamespace", "deleteNamespace", "createToken", "createUser", "deleteUser",
     "grant", "setOwner", "listMessages", "queueDepth", "listAllQueues", "sweep"}

(* Where a call is between two steps, and the steps that take it on.       *)
Stage == {"idle", "held", "open", "wrote"}
Moves ==
    {<<"idle", "acquire", "held">>, <<"held", "release", "idle">>,
     <<"held", "read", "held">>, <<"held", "write", "held">>,
     <<"held", "begin", "open">>, <<"open", "write", "wrote">>,
     <<"wrote", "read", "wrote">>, <<"wrote", "write", "wrote">>,
     <<"wrote", "commit", "held">>}

(* The steps p take a call from stage a to stage b.                        *)
Follows(p, stages) == \A i \in 1 .. Len(p) : <<stages[i], p[i], stages[i + 1]>> \in Moves
Leads(p, a, b) ==
    /\ p \in Seq(Step)
    /\ \E stages \in [1 .. Len(p) + 1 -> Stage] :
         stages[1] = a /\ stages[Len(p) + 1] = b /\ Follows(p, stages)

(* What a request has of the pool and of SQLite is its stage.              *)
StageOf(r) ==
    IF writer = r THEN "wrote"
    ELSE IF snapshot[r] = "open" THEN "open"
    ELSE IF holding[r] = 1 THEN "held" ELSE "idle"

(* A request has at most one connection, and what it has read is fresh for *)
(* as long as it writes: only others' commits would change that.           *)
Holdings(r) ==
    /\ holding[r] \in {0, 1}
    /\ snapshot[r] \in {"none", "open", "fresh"}
    /\ snapshot[r] = "fresh" <=> writer = r
    /\ holding[r] = 0 => snapshot[r] = "none"

Inv ==
    /\ path \in [Request -> Seq(Step)]
    /\ holding \in [Request -> 0 .. Slots]
    /\ snapshot \in [Request -> {"none", "open", "fresh", "stale"}]
    /\ writer \in Request \cup {Nobody}
    /\ Cardinality(Taken) <= Slots
    /\ \A r \in Request : Holdings(r) /\ Leads(path[r], StageOf(r), "idle")

-----------------------------------------------------------------------------
(* Paths.                                                                  *)

LEMMA LeadsNowhere ==
    /\ \A a \in Stage : Leads(<<>>, a, a)
    /\ \A a, b : Leads(<<>>, a, b) => a = b
  <1>1. ASSUME NEW a \in Stage PROVE Leads(<<>>, a, a)
    <2> DEFINE stages == [i \in 1 .. 1 |-> a]
    <2>1. stages \in [1 .. 1 -> Stage] /\ stages[1] = a
      OBVIOUS
    <2> HIDE DEF stages
    <2> QED
      BY <2>1 DEF Leads, Follows
  <1>2. \A a, b : Leads(<<>>, a, b) => a = b
    BY DEF Leads
  <1> QED
    BY <1>1, <1>2

LEMMA LeadsByOne ==
    ASSUME NEW step \in Step, NEW a \in Stage, NEW b \in Stage, <<a, step, b>> \in Moves
    PROVE  Leads(<<step>>, a, b)
  <1> DEFINE stages == [i \in 1 .. 2 |-> IF i = 1 THEN a ELSE b]
  <1>1. stages \in [1 .. 2 -> Stage] /\ stages[1] = a /\ stages[2] = b
    OBVIOUS
  <1> HIDE DEF stages
  <1>2. /\ <<step>> \in Seq(Step) /\ Len(<<step>>) = 1 /\ <<step>>[1] = step
    OBVIOUS
  <1>3. Follows(<<step>>, stages)
    BY <1>1, <1>2 DEF Follows
  <1> QED
    BY <1>1, <1>2, <1>3 DEF Leads

(* One path after another.                                                 *)
LEMMA LeadsOn ==
    ASSUME NEW p, NEW q, NEW a, NEW b, NEW c, Leads(p, a, b), Leads(q, b, c)
    PROVE  Leads(p \o q, a, c)
  <1>1. /\ p \in Seq(Step) /\ q \in Seq(Step) /\ p \o q \in Seq(Step)
        /\ Len(p) \in Nat /\ Len(q) \in Nat /\ Len(p \o q) = Len(p) + Len(q)
        /\ \A i \in 1 .. Len(p) : (p \o q)[i] = p[i]
        /\ \A i \in Len(p) + 1 .. Len(p) + Len(q) : (p \o q)[i] = q[i - Len(p)]
    BY DEF Leads
  <1>2. PICK s \in [1 .. Len(p) + 1 -> Stage] :
          s[1] = a /\ s[Len(p) + 1] = b /\ Follows(p, s)
    BY DEF Leads
  <1>3. PICK t \in [1 .. Len(q) + 1 -> Stage] :
          t[1] = b /\ t[Len(q) + 1] = c /\ Follows(q, t)
    BY DEF Leads
  <1> DEFINE m == Len(p)
             n == Len(q)
             u == [i \in 1 .. m + n + 1 |-> IF i <= m THEN s[i] ELSE t[i - m]]
  <1>4. u \in [1 .. m + n + 1 -> Stage]
    BY <1>1
  <1>5. /\ \A i \in 1 .. m : u[i] = s[i]
        /\ \A i \in m + 1 .. m + n + 1 : u[i] = t[i - m]
        /\ u[m + 1] = s[m + 1]
    BY <1>1, <1>2, <1>3
  <1>6. u[1] = a /\ u[m + n + 1] = c
    BY <1>1, <1>2, <1>3, <1>5
  <1> HIDE DEF u
  <1>7. ASSUME NEW i \in 1 .. m + n
        PROVE  <<u[i], (p \o q)[i], u[i + 1]>> \in Moves
    <2>1. CASE i \in 1 .. m
      <3>1. u[i] = s[i] /\ (p \o q)[i] = p[i]
        BY <1>1, <1>5, <2>1
      <3>2. u[i + 1] = s[i + 1]
        <4>1. CASE i = m
          BY <1>5, <4>1
        <4>2. CASE i # m
          <5>1. i + 1 \in 1 .. m
            BY <1>1, <2>1, <4>2
          <5> QED
            BY <1>5, <5>1
        <4> QED
          BY <4>1, <4>2
      <3> QED
        BY <1>2, <2>1, <3>1, <3>2 DEF Follows
    <2>2. CASE i \in m + 1 .. m + n
      <3>1. u[i] = t[i - m] /\ (p \o q)[i] = q[i - m] /\ u[i + 1] = t[(i - m) + 1]
        BY <1>1, <1>5, <2>2
      <3>2. i - m \in 1 .. n
        BY <1>1, <2>2
      <3> QED
        BY <1>3, <3>1, <3>2 DEF Follows
    <2>3. i \in 1 .. m \/ i \in m + 1 .. m + n
      BY <1>1
    <2> QED
      BY <2>1, <2>2, <2>3
  <1>8. Follows(p \o q, u)
    BY <1>1, <1>7 DEF Follows
  <1> QED
    BY <1>1, <1>4, <1>6, <1>8 DEF Leads

(* The rest of a path, from the stage its first step leads to.             *)
LEMMA LeadsFromNext ==
    ASSUME NEW p, NEW a, NEW b, Leads(p, a, b), p # <<>>
    PROVE  \E next \in Stage : <<a, Head(p), next>> \in Moves /\ Leads(Tail(p), next, b)
  <1>1. /\ p \in Seq(Step) /\ Len(p) \in Nat \ {0} /\ Head(p) = p[1]
        /\ Tail(p) \in Seq(Step) /\ Len(Tail(p)) = Len(p) - 1
        /\ \A i \in 1 .. Len(p) - 1 : Tail(p)[i] = p[i + 1]
    BY DEF Leads
  <1>2. PICK s \in [1 .. Len(p) + 1 -> Stage] :
          s[1] = a /\ s[Len(p) + 1] = b /\ Follows(p, s)
    BY DEF Leads
  <1> DEFINE n == Len(p)
             t == [i \in 1 .. n |-> s[i + 1]]
  <1>3. t \in [1 .. n -> Stage] /\ \A i \in 1 .. n : t[i] = s[i + 1]
    BY <1>1
  <1> HIDE DEF t
  <1>4. t[1] = s[2] /\ t[n] = b /\ s[2] \in Stage
    BY <1>1, <1>2, <1>3
  <1>5. <<a, Head(p), s[2]>> \in Moves
    <2>1. 1 \in 1 .. Len(p) /\ 1 + 1 = 2
      BY <1>1
    <2>2. <<s[1], p[1], s[1 + 1]>> \in Moves
      BY <1>2, <2>1 DEF Follows
    <2> QED
      BY <1>1, <1>2, <2>2
  <1>6. ASSUME NEW i \in 1 .. n - 1 PROVE <<t[i], Tail(p)[i], t[i + 1]>> \in Moves
    <2>1. i + 1 \in 1 .. n /\ i \in 1 .. n
      BY <1>1
    <2>2. <<s[i + 1], p[i + 1], s[(i + 1) + 1]>> \in Moves
      BY <1>2, <2>1 DEF Follows
    <2> QED
      BY <1>1, <1>3, <2>1, <2>2
  <1>7. Follows(Tail(p), t)
    BY <1>1, <1>6 DEF Follows
  <1>8. Leads(Tail(p), s[2], b)
    BY <1>1, <1>3, <1>4, <1>7 DEF Leads
  <1> QED
    BY <1>4, <1>5, <1>8

-----------------------------------------------------------------------------
(* The calls.                                                              *)

(* The bodies of transactions and reads, and the four shapes of a use of   *)
(* the pool.                                                               *)
LEMMA Bodies ==
    /\ Leads(<<"write">>, "open", "wrote")
    /\ Leads(<<"write", "write">>, "open", "wrote")
    /\ Leads(<<"write", "write", "read">>, "open", "wrote")
    /\ Leads(<<"write", "read", "read">>, "open", "wrote")
    /\ Leads(<<"read", "write", "write">>, "held", "held")
    /\ Leads(<<"read", "read", "read">>, "held", "held")
    /\ Leads(<<"read", "read", "read", "read">>, "held", "held")
  <1>1. Leads(<<"write">>, "open", "wrote") /\ Leads(<<"write">>, "wrote", "wrote")
        /\ Leads(<<"read">>, "wrote", "wrote")
    BY LeadsByOne DEF Step, Stage, Moves
  <1>2. Leads(<<"write">>, "held", "held") /\ Leads(<<"read">>, "held", "held")
    BY LeadsByOne DEF Step, Stage, Moves
  <1>3. /\ <<"write", "write">> = <<"write">> \o <<"write">>
        /\ <<"write", "write", "read">> = <<"write", "write">> \o <<"read">>
        /\ <<"write", "read">> = <<"write">> \o <<"read">>
        /\ <<"write", "read", "read">> = <<"write", "read">> \o <<"read">>
        /\ <<"read", "write">> = <<"read">> \o <<"write">>
        /\ <<"read", "write", "write">> = <<"read", "write">> \o <<"write">>
        /\ <<"read", "read">> = <<"read">> \o <<"read">>
        /\ <<"read", "read", "read">> = <<"read", "read">> \o <<"read">>
        /\ <<"read", "read", "read", "read">> = <<"read", "read", "read">> \o <<"read">>
    OBVIOUS
  <1>4. Leads(<<"write", "write">>, "open", "wrote")
        /\ Leads(<<"write", "read">>, "open", "wrote")
        /\ Leads(<<"read", "write">>, "held", "held")
        /\ Leads(<<"read", "read">>, "held", "held")
    BY <1>1, <1>2, <1>3, LeadsOn
  <1>5. Leads(<<"write", "write", "read">>, "open", "wrote")
        /\ Leads(<<"write", "read", "read">>, "open", "wrote")
    BY <1>1, <1>3, <1>4, LeadsOn
  <1>6. Leads(<<"read", "write", "write">>, "held", "held")
        /\ Leads(<<"read", "read", "read">>, "held", "held")
    BY <1>2, <1>3, <1>4, LeadsOn
  <1>7. Leads(<<"read", "read", "read", "read">>, "held", "held")
    BY <1>2, <1>3, <1>6, LeadsOn
  <1> QED
    BY <1>1, <1>4, <1>5, <1>6, <1>7

LEMMA Uses ==
    /\ Leads(Query, "idle", "idle")
    /\ Leads(Statement, "idle", "idle")
    /\ \A body : Leads(body, "open", "wrote") => Leads(Transaction(body), "idle", "idle")
    /\ \A body : Leads(body, "held", "held") => Leads(Reads(body), "idle", "idle")
  <1>1. /\ Leads(<<"acquire">>, "idle", "held") /\ Leads(<<"release">>, "held", "idle")
        /\ Leads(<<"read">>, "held", "held") /\ Leads(<<"write">>, "held", "held")
        /\ Leads(<<"begin">>, "held", "open") /\ Leads(<<"commit">>, "wrote", "held")
    BY LeadsByOne DEF Step, Stage, Moves
  <1>2. /\ <<"acquire", "begin">> = <<"acquire">> \o <<"begin">>
        /\ <<"commit", "release">> = <<"commit">> \o <<"release">>
    OBVIOUS
  <1>3. /\ Leads(<<"acquire", "begin">>, "idle", "open")
        /\ Leads(<<"commit", "release">>, "wrote", "idle")
    BY <1>1, <1>2, LeadsOn
  <1>4. ASSUME NEW body, Leads(body, "open", "wrote")
        PROVE  Leads(Transaction(body), "idle", "idle")
    <2>1. Leads(<<"acquire", "begin">> \o body, "idle", "wrote")
      BY <1>3, <1>4, LeadsOn
    <2> QED
      BY <1>3, <2>1, LeadsOn DEF Transaction
  <1>5. ASSUME NEW body, Leads(body, "held", "held")
        PROVE  Leads(Reads(body), "idle", "idle")
    <2>1. Leads(<<"acquire">> \o body, "idle", "held")
      BY <1>1, <1>5, LeadsOn
    <2> QED
      BY <1>1, <2>1, LeadsOn DEF Reads
  <1>6. Query = Reads(<<"read">>) /\ Statement = Reads(<<"write">>)
    BY DEF Query, Statement, Reads
  <1> QED
    BY <1>1, <1>4, <1>5, <1>6

(* Every such call starts and ends with nothing.                           *)
LEMMA EveryPath ==
    ASSUME NEW op \in OneAtATime
    PROVE  Leads(Path(op), "idle", "idle")
  <1> DEFINE Round(p) == Leads(p, "idle", "idle")
  <1>1. \A p, q : Round(p) /\ Round(q) => Round(p \o q)
    BY LeadsOn
  <1>2. Round(Query) /\ Round(Statement)
    BY Uses
  <1>3. /\ Round(Transaction(<<"write">>)) /\ Round(Transaction(<<"write", "write">>))
        /\ Round(Transaction(<<"write", "write", "read">>))
        /\ Round(Transaction(<<"write", "read", "read">>))
        /\ Round(Reads(<<"read", "write", "write">>))
        /\ Round(Reads(<<"read", "read", "read">>))
        /\ Round(Reads(<<"read", "read", "read", "read">>))
    BY Bodies, Uses
  <1> HIDE DEF Round
  <1>4. Round(Resolve) /\ Round(RequireManager)
    BY <1>1, <1>2 DEF Resolve, RequireManager
  <1>5. /\ Round(Send) /\ Round(SendBatch) /\ Round(Receive) /\ Round(DeleteMessages)
        /\ Round(ChangeVisibility)
    BY <1>1, <1>2, <1>3, <1>4 DEF Send, SendBatch, Receive, DeleteMessages, ChangeVisibility
  <1>6. /\ Round(Purge) /\ Round(AdminWrite) /\ Round(SetPaused) /\ Round(TagQueue)
        /\ Round(ListMessages) /\ Round(QueueDepth) /\ Round(ListAllQueues) /\ Round(Sweep)
    BY <1>1, <1>2, <1>3, <1>4
    DEF Purge, AdminWrite, SetPaused, TagQueue, ListMessages, QueueDepth, ListAllQueues, Sweep
  <1>7. /\ Round(CreateQueue) /\ Round(DeleteQueue) /\ Round(SetAttributes)
        /\ Round(CreateNamespace) /\ Round(DeleteNamespace)
    BY <1>1, <1>2, <1>3, <1>4
    DEF CreateQueue, DeleteQueue, SetAttributes, CreateNamespace, DeleteNamespace
  <1>8. /\ Round(CreateToken) /\ Round(CreateUser) /\ Round(DeleteUser) /\ Round(Grant)
        /\ Round(SetOwner)
    BY <1>1, <1>2, <1>3, <1>4 DEF CreateToken, CreateUser, DeleteUser, Grant, SetOwner
  <1>9. Round(Path(op))
    BY <1>5, <1>6, <1>7, <1>8 DEF Path, OneAtATime
  <1> QED
    BY <1>9 DEF Round

-----------------------------------------------------------------------------
(* Connections.                                                            *)

LEMMA TakenFinite == IsFiniteSet(Taken)
  <1>1. IsFiniteSet(Request \X (1 .. Slots))
    <2>1. IsFiniteSet(1 .. Slots)
      BY FS_Interval
    <2> QED
      BY <2>1, FS_Product
  <1> QED
    BY <1>1, FS_Subset DEF Taken

(* Requests that hold a connection are among those Taken counts.           *)
LEMMA Holders ==
    ASSUME Inv, NEW r \in Request
    PROVE  <<r, 1>> \in Taken <=> holding[r] = 1
  BY DEF Inv, Holdings, Taken

LEMMA NobodyHolds ==
    ASSUME Inv, \A r \in Request : holding[r] = 0
    PROVE  Free
  <1>1. Taken = {}
    BY DEF Taken, Inv
  <1> QED
    BY <1>1, FS_EmptySet DEF Free

(* A connection taken by a request that had none is one more.              *)
LEMMA OneMore ==
    ASSUME Inv, NEW r \in Request, holding[r] = 0, Free,
           holding' = [holding EXCEPT ![r] = 1]
    PROVE  Cardinality(Taken') <= Slots
  <1>1. Taken' = Taken \cup {<<r, 1>>}
    <2>1. ASSUME NEW place \in Request \X (1 .. Slots)
          PROVE  place \in Taken' <=> place \in Taken \/ place = <<r, 1>>
      BY DEF Taken, Inv, Holdings
    <2>2. <<r, 1>> \in Request \X (1 .. Slots)
      OBVIOUS
    <2>3. Taken \subseteq Request \X (1 .. Slots) /\ Taken' \subseteq Request \X (1 .. Slots)
      BY DEF Taken
    <2> QED
      BY <2>1, <2>2, <2>3
  <1>2. Cardinality(Taken') <= Cardinality(Taken) + 1
    <2>1. Cardinality(Taken) \in Nat
      BY TakenFinite, FS_CardinalityType
    <2>2. Cardinality(Taken \cup {<<r, 1>>}) =
            IF <<r, 1>> \in Taken THEN Cardinality(Taken) ELSE Cardinality(Taken) + 1
      BY TakenFinite, FS_AddElement
    <2> QED
      BY <1>1, <2>1, <2>2
  <1>3. Cardinality(Taken) < Slots /\ Cardinality(Taken) \in Nat
    BY TakenFinite, FS_CardinalityType DEF Free
  <1>4. Cardinality(Taken') \in Nat
    BY <1>1, TakenFinite, FS_AddElement, FS_CardinalityType
  <1> QED
    BY <1>2, <1>3, <1>4

LEMMA NoMore ==
    ASSUME Inv, NEW held \in [Request -> 0 .. Slots], holding' = held,
           \A r \in Request : held[r] <= holding[r]
    PROVE  Cardinality(Taken') <= Slots
  <1>1. Taken' \subseteq Taken
    BY DEF Taken, Inv
  <1>2. /\ Cardinality(Taken') \in Nat /\ Cardinality(Taken) \in Nat
        /\ Cardinality(Taken') <= Cardinality(Taken)
    BY <1>1, TakenFinite, FS_Subset, FS_CardinalityType
  <1> QED
    BY <1>2 DEF Inv

-----------------------------------------------------------------------------
(* Steps.                                                                  *)

LEMMA InitInv == Init => Inv
  <1> SUFFICES ASSUME Init PROVE Inv
    OBVIOUS
  <1>1. Taken = {}
    BY DEF Init, Taken
  <1>2. Cardinality(Taken) <= Slots
    BY <1>1, FS_EmptySet
  <1>3. ASSUME NEW r \in Request PROVE Holdings(r) /\ Leads(path[r], StageOf(r), "idle")
    BY LeadsNowhere DEF Init, Holdings, StageOf, Stage
  <1> QED
    BY <1>2, <1>3 DEF Init, Inv, Step

(* A step takes its request on to its next stage, and leaves the others.   *)
LEMMA Progress ==
    ASSUME Inv, NEW r \in Request, NEW step \in Step, At(r, step), Go(r),
           \A s \in Request \ {r} : StageOf(s)' = StageOf(s),
           \A next \in Stage : <<StageOf(r), step, next>> \in Moves => next = StageOf(r)'
    PROVE  /\ path' \in [Request -> Seq(Step)]
           /\ \A s \in Request : Leads(path'[s], StageOf(s)', "idle")
  <1>1. /\ path[r] \in Seq(Step) /\ path[r] # <<>> /\ Head(path[r]) = step
        /\ Leads(path[r], StageOf(r), "idle")
    BY DEF Inv, At, Busy
  <1>2. PICK next \in Stage :
          <<StageOf(r), Head(path[r]), next>> \in Moves /\ Leads(Tail(path[r]), next, "idle")
    BY <1>1, LeadsFromNext
  <1>3. /\ path' \in [Request -> Seq(Step)] /\ path'[r] = Tail(path[r])
        /\ \A s \in Request \ {r} : path'[s] = path[s]
    BY <1>1 DEF Go, Inv
  <1>4. Leads(path'[r], StageOf(r)', "idle")
    BY <1>1, <1>2, <1>3
  <1>5. \A s \in Request \ {r} : Leads(path'[s], StageOf(s)', "idle")
    BY <1>3 DEF Inv
  <1> QED
    BY <1>3, <1>4, <1>5

(* The stage a request's next step is taken from.                          *)
LEMMA Before ==
    ASSUME Inv, NEW r \in Request, NEW step \in Step, At(r, step)
    PROVE  \E next \in Stage : <<StageOf(r), step, next>> \in Moves
  BY LeadsFromNext DEF Inv, At, Busy

LEMMA StartStep ==
    ASSUME Inv, NEW r \in Request, NEW op \in OneAtATime, Start(r, op)
    PROVE  Inv'
  <1>1. Leads(path[r], StageOf(r), "idle") /\ path[r] = <<>>
    BY DEF Inv, Start, Busy
  <1>2. StageOf(r) = "idle"
    BY <1>1, LeadsNowhere
  <1>3. /\ path' = [path EXCEPT ![r] = Path(op)] /\ Path(op) \in Seq(Step)
        /\ Leads(Path(op), "idle", "idle")
    BY EveryPath DEF Start, Leads
  <1>4. UNCHANGED <<holding, snapshot, writer>>
    BY DEF Start
  <1>5. \A s \in Request : StageOf(s)' = StageOf(s) /\ (Holdings(s) => Holdings(s)')
    BY <1>4 DEF StageOf, Holdings
  <1>6. \A s \in Request : path'[s] = IF s = r THEN Path(op) ELSE path[s]
    BY <1>3 DEF Inv
  <1>7. \A s \in Request : Leads(path'[s], StageOf(s)', "idle")
    BY <1>2, <1>3, <1>5, <1>6 DEF Inv
  <1> QED
    BY <1>3, <1>4, <1>5, <1>7 DEF Inv, Taken

LEMMA AcquireStep ==
    ASSUME Inv, NEW r \in Request, Acquire(r)
    PROVE  Inv'
  <1>1. StageOf(r) = "idle" /\ Free
    BY Before DEF Acquire, Ready, Step, Moves
  <1>2. holding[r] = 0 /\ snapshot[r] = "none" /\ writer # r
    BY <1>1 DEF StageOf, Inv, Holdings
  <1>3. /\ holding' = [holding EXCEPT ![r] = 1] /\ UNCHANGED <<snapshot, writer>>
    BY <1>2 DEF Acquire
  <1>4. Cardinality(Taken') <= Slots
    BY <1>1, <1>2, <1>3, OneMore
  <1>5. /\ StageOf(r)' = "held" /\ Holdings(r)'
        /\ holding' \in [Request -> 0 .. Slots]
        /\ \A s \in Request \ {r} : StageOf(s)' = StageOf(s) /\ Holdings(s)'
    BY <1>2, <1>3 DEF StageOf, Inv, Holdings
  <1>6. /\ path' \in [Request -> Seq(Step)]
        /\ \A s \in Request : Leads(path'[s], StageOf(s)', "idle")
    BY <1>1, <1>5, Progress DEF Acquire, Step, Moves
  <1> QED
    BY <1>3, <1>4, <1>5, <1>6 DEF Inv

LEMMA ReleaseStep ==
    ASSUME Inv, NEW r \in Request, Release(r)
    PROVE  Inv'
  <1>1. StageOf(r) = "held"
    BY Before DEF Release, Step, Moves
  <1>2. holding[r] = 1 /\ snapshot[r] = "none" /\ writer # r
    BY <1>1 DEF StageOf, Inv, Holdings
  <1>3. /\ holding' = [holding EXCEPT ![r] = 0] /\ UNCHANGED <<snapshot, writer>>
    BY <1>2 DEF Release
  <1>4. /\ StageOf(r)' = "idle" /\ Holdings(r)'
        /\ holding' \in [Request -> 0 .. Slots]
        /\ \A s \in Request : holding'[s] <= holding[s]
        /\ \A s \in Request \ {r} : StageOf(s)' = StageOf(s) /\ Holdings(s)'
    BY <1>2, <1>3 DEF StageOf, Inv, Holdings
  <1>5. Cardinality(Taken') <= Slots
    BY <1>4, NoMore
  <1>6. /\ path' \in [Request -> Seq(Step)]
        /\ \A s \in Request : Leads(path'[s], StageOf(s)', "idle")
    BY <1>1, <1>4, Progress DEF Release, Step, Moves
  <1> QED
    BY <1>3, <1>4, <1>5, <1>6 DEF Inv

LEMMA BeginStep ==
    ASSUME Inv, NEW r \in Request, Begin(r)
    PROVE  Inv'
  <1>1. StageOf(r) = "held"
    BY Before DEF Begin, Step, Moves
  <1>2. holding[r] = 1 /\ snapshot[r] = "none" /\ writer # r
    BY <1>1 DEF StageOf, Inv, Holdings
  <1>3. /\ snapshot' = [snapshot EXCEPT ![r] = "open"] /\ UNCHANGED <<holding, writer>>
    BY DEF Begin
  <1>4. /\ StageOf(r)' = "open" /\ Holdings(r)'
        /\ snapshot' \in [Request -> {"none", "open", "fresh", "stale"}]
        /\ \A s \in Request \ {r} : StageOf(s)' = StageOf(s) /\ Holdings(s)'
    BY <1>2, <1>3 DEF StageOf, Inv, Holdings
  <1>5. /\ path' \in [Request -> Seq(Step)]
        /\ \A s \in Request : Leads(path'[s], StageOf(s)', "idle")
    BY <1>1, <1>4, Progress DEF Begin, Step, Moves
  <1> QED
    BY <1>3, <1>4, <1>5 DEF Inv, Taken

(* A transaction reads only once it has written.                           *)
LEMMA ReadStep ==
    ASSUME Inv, NEW r \in Request, Read(r)
    PROVE  Inv'
  <1>1. StageOf(r) \in {"held", "wrote"}
    BY Before DEF Read, Step, Moves
  <1>2. snapshot[r] # "open"
    BY <1>1 DEF StageOf, Inv, Holdings
  <1>3. UNCHANGED <<holding, snapshot, writer>>
    BY <1>2 DEF Read, Inv
  <1>4. \A s \in Request : StageOf(s)' = StageOf(s) /\ Holdings(s)'
    BY <1>3 DEF StageOf, Inv, Holdings
  <1>5. /\ path' \in [Request -> Seq(Step)]
        /\ \A s \in Request : Leads(path'[s], StageOf(s)', "idle")
    BY <1>1, <1>4, Progress DEF Read, Step, Moves
  <1> QED
    BY <1>3, <1>4, <1>5 DEF Inv, Taken

(* What a commit overtakes: nothing, since only the writer has read.       *)
LEMMA NothingOvertaken ==
    ASSUME Inv, NEW r \in Request, writer \in {r, Nobody}, Overtake(r, "none")
    PROVE  snapshot' = [snapshot EXCEPT ![r] = "none"]
  BY DEF Overtake, Inv, Holdings

LEMMA WriteStep ==
    ASSUME Inv, NEW r \in Request, Write(r)
    PROVE  Inv'
  <1>1. StageOf(r) \in {"held", "open", "wrote"}
    BY Before DEF Write, Step, Moves
  <1>2. writer \in {Nobody, r} /\ UNCHANGED holding
    BY DEF Write, Ready
  <1>3. CASE StageOf(r) = "held"
    <2>1. holding[r] = 1 /\ snapshot[r] = "none" /\ writer # r
      BY <1>3 DEF StageOf, Inv, Holdings
    <2>2. UNCHANGED <<holding, snapshot, writer>>
      BY <1>2, <2>1, NothingOvertaken DEF Write, InTransaction, Inv
    <2>3. \A s \in Request : StageOf(s)' = StageOf(s) /\ Holdings(s)'
      BY <2>2 DEF StageOf, Inv, Holdings
    <2>4. /\ path' \in [Request -> Seq(Step)]
          /\ \A s \in Request : Leads(path'[s], StageOf(s)', "idle")
      BY <1>3, <2>3, Progress DEF Write, Step, Moves
    <2> QED
      BY <2>2, <2>3, <2>4 DEF Inv, Taken
  <1>4. CASE StageOf(r) \in {"open", "wrote"}
    <2>1. holding[r] = 1 /\ snapshot[r] \in {"open", "fresh"}
      BY <1>4 DEF StageOf, Inv, Holdings
    <2>2. writer' = r /\ snapshot' = [snapshot EXCEPT ![r] = "fresh"]
      BY <2>1 DEF Write, InTransaction
    <2>3. /\ StageOf(r)' = "wrote" /\ Holdings(r)'
          /\ snapshot' \in [Request -> {"none", "open", "fresh", "stale"}]
          /\ \A s \in Request \ {r} : StageOf(s)' = StageOf(s) /\ Holdings(s)'
      BY <1>2, <2>1, <2>2 DEF StageOf, Inv, Holdings
    <2>4. /\ path' \in [Request -> Seq(Step)]
          /\ \A s \in Request : Leads(path'[s], StageOf(s)', "idle")
      BY <1>4, <2>3, Progress DEF Write, Step, Moves
    <2> QED
      BY <1>2, <2>2, <2>3, <2>4 DEF Inv, Taken
  <1> QED
    BY <1>1, <1>3, <1>4

LEMMA CommitStep ==
    ASSUME Inv, NEW r \in Request, Commit(r)
    PROVE  Inv'
  <1>1. StageOf(r) = "wrote"
    BY Before DEF Commit, Step, Moves
  <1>2. writer = r /\ holding[r] = 1 /\ snapshot[r] = "fresh"
    BY <1>1 DEF StageOf, Inv, Holdings
  <1>3. /\ writer' = Nobody /\ UNCHANGED holding
        /\ snapshot' = [snapshot EXCEPT ![r] = "none"]
    BY <1>2, NothingOvertaken DEF Commit
  <1>4. /\ StageOf(r)' = "held" /\ Holdings(r)'
        /\ snapshot' \in [Request -> {"none", "open", "fresh", "stale"}]
        /\ \A s \in Request \ {r} : StageOf(s)' = StageOf(s) /\ Holdings(s)'
    BY <1>2, <1>3 DEF StageOf, Inv, Holdings
  <1>5. /\ path' \in [Request -> Seq(Step)]
        /\ \A s \in Request : Leads(path'[s], StageOf(s)', "idle")
    BY <1>1, <1>4, Progress DEF Commit, Step, Moves
  <1> QED
    BY <1>3, <1>4, <1>5 DEF Inv, Taken

LEMMA AbortStep ==
    ASSUME Inv, NEW r \in Request, Abort(r)
    PROVE  Inv'
  <1>1. /\ path' = [path EXCEPT ![r] = <<>>] /\ holding' = [holding EXCEPT ![r] = 0]
        /\ snapshot' = [snapshot EXCEPT ![r] = "none"]
        /\ writer' = IF writer = r THEN Nobody ELSE writer
    BY DEF Abort
  <1>2. /\ StageOf(r)' = "idle" /\ Holdings(r)'
        /\ holding' \in [Request -> 0 .. Slots]
        /\ snapshot' \in [Request -> {"none", "open", "fresh", "stale"}]
        /\ writer' \in Request \cup {Nobody}
        /\ \A s \in Request : holding'[s] <= holding[s]
        /\ \A s \in Request \ {r} : StageOf(s)' = StageOf(s) /\ Holdings(s)'
    BY <1>1 DEF StageOf, Inv, Holdings
  <1>3. Cardinality(Taken') <= Slots
    BY <1>2, NoMore
  <1>4. /\ path' \in [Request -> Seq(Step)] /\ path'[r] = <<>>
        /\ \A s \in Request \ {r} : path'[s] = path[s]
    BY <1>1 DEF Inv
  <1>5. \A s \in Request : Leads(path'[s], StageOf(s)', "idle")
    <2>1. Leads(path'[r], StageOf(r)', "idle")
      BY <1>2, <1>4, LeadsNowhere DEF Stage
    <2>2. \A s \in Request \ {r} : Leads(path'[s], StageOf(s)', "idle")
      BY <1>2, <1>4 DEF Inv
    <2> QED
      BY <2>1, <2>2
  <1> QED
    BY <1>2, <1>3, <1>4, <1>5 DEF Inv

LEMMA NextInv == Operation \subseteq OneAtATime /\ Inv /\ [Next]_vars => Inv'
  <1> SUFFICES ASSUME Operation \subseteq OneAtATime, Inv, [Next]_vars PROVE Inv'
    OBVIOUS
  <1>1. CASE UNCHANGED vars
    <2>1. \A s \in Request : StageOf(s)' = StageOf(s) /\ Holdings(s)'
      BY <1>1 DEF vars, StageOf, Inv, Holdings
    <2> QED
      BY <1>1, <2>1 DEF vars, Inv, Taken
  <1>2. CASE Next
    BY <1>2, StartStep, AcquireStep, ReleaseStep, BeginStep, ReadStep, WriteStep, CommitStep,
       AbortStep DEF Next, Run
  <1> QED
    BY <1>1, <1>2

-----------------------------------------------------------------------------
(* The theorems, for any calls but list_queues: the run list_queues shows  *)
(* what that one does.                                                     *)

(* Every request's steps lead from what it holds to holding nothing.       *)
THEOREM Invariance == Operation \subseteq OneAtATime => (Spec => []Inv)
  <1> SUFFICES ASSUME Operation \subseteq OneAtATime PROVE Spec => []Inv
    OBVIOUS
  <1>1. Inv /\ [Next]_vars => Inv'
    BY NextInv
  <1> QED
    BY <1>1, InitInv, PTL DEF Spec

(* The variables have the values TypeOK names; no more connections are     *)
(* taken than the pool of `connect_to` has, and every call returns its.    *)
THEOREM TypeCorrect == Operation \subseteq OneAtATime => (Spec => []TypeOK)
  <1>1. Inv => TypeOK
    <2> SUFFICES ASSUME Inv PROVE TypeOK
      OBVIOUS
    <2>1. ASSUME NEW r \in Request, ~ Busy(r)
          PROVE  holding[r] = 0 /\ snapshot[r] = "none" /\ writer # r
      <3>1. StageOf(r) = "idle"
        BY <2>1, LeadsNowhere DEF Inv, Busy
      <3> QED
        BY <3>1 DEF StageOf, Inv, Holdings
    <2> QED
      BY <2>1 DEF Inv, TypeOK
  <1> QED
    BY <1>1, Invariance, PTL

(* The stages in which a request's next step takes a connection, or waits  *)
(* for the lock.                                                           *)
LEMMA Waiting ==
    ASSUME Inv, NEW r \in Request, ~ Ready(r)
    PROVE  \/ At(r, "acquire") /\ StageOf(r) = "idle" /\ ~ Free
           \/ At(r, "write") /\ writer \notin {Nobody, r}
  BY Before DEF Ready, Step, Moves

(* A request that holds something has steps left, to give it back.         *)
LEMMA HoldersBusy ==
    ASSUME Inv, NEW r \in Request, StageOf(r) # "idle"
    PROVE  Busy(r)
  BY LeadsNowhere DEF Inv, Busy

(* The transaction that writes needs nothing anyone else holds: it has its *)
(* connection, and SQLite's only write lock.                               *)
THEOREM WriterRuns == Operation \subseteq OneAtATime => (Spec => []WriterNeverWaits)
  <1>1. Inv => WriterNeverWaits
    BY Waiting DEF Inv, WriterNeverWaits, StageOf
  <1> QED
    BY <1>1, Invariance, PTL

(* The calls in flight never all wait for each other, for any number of    *)
(* them and any size of the pool: the writer runs, or, if there is none, a *)
(* request that holds a connection does, or a connection is free.          *)
THEOREM NoDeadlock == Operation \subseteq OneAtATime => (Spec => []SomeoneRuns)
  <1>1. Inv => SomeoneRuns
    <2> SUFFICES ASSUME Inv, NEW b \in Request, Busy(b)
                 PROVE  \E r \in Request : Busy(r) /\ Ready(r)
      BY DEF SomeoneRuns
    <2>1. CASE writer # Nobody
      <3>1. writer \in Request /\ StageOf(writer) = "wrote"
        BY <2>1 DEF Inv, StageOf
      <3>2. Busy(writer) /\ Ready(writer)
        BY <3>1, HoldersBusy, Waiting
      <3> QED
        BY <3>1, <3>2
    <2>2. CASE writer = Nobody /\ \E h \in Request : holding[h] # 0
      <3>1. PICK h \in Request : holding[h] # 0
        BY <2>2
      <3>2. StageOf(h) # "idle"
        BY <3>1 DEF Inv, Holdings, StageOf
      <3>3. Busy(h) /\ Ready(h)
        BY <2>2, <3>2, HoldersBusy, Waiting
      <3> QED
        BY <3>3
    <2>3. CASE writer = Nobody /\ \A h \in Request : holding[h] = 0
      <3>1. Free
        BY <2>3, NobodyHolds
      <3>2. Ready(b)
        BY <2>3, <3>1, Waiting
      <3> QED
        BY <3>2
    <2> QED
      BY <2>1, <2>2, <2>3
  <1> QED
    BY <1>1, Invariance, PTL

(* No call writes on a stale snapshot: a transaction writes before it      *)
(* reads, and from then on is the only one that commits.                   *)
THEOREM FreshWrites == Operation \subseteq OneAtATime => (Spec => []NoStaleWrite)
  <1>1. Inv => NoStaleWrite
    BY DEF Inv, Holdings, NoStaleWrite
  <1> QED
    BY <1>1, Invariance, PTL
=============================================================================
