-------------------------- MODULE AuthorizedQueues --------------------------
(***************************************************************************)
(* How a request reaches its queue: names resolved to ids, a caller's      *)
(* access checked, and both remembered for a minute (src/src/service.rs,   *)
(* resolve_authorized_queue and every call that can make a remembered      *)
(* answer wrong).  Each database statement, and each lock of the cache, is *)
(* a step; other requests run between the steps of one.                    *)
(*                                                                         *)
(* A failed request is one that goes back to Idle; what it answers is left *)
(* out.                                                                    *)
(***************************************************************************)
EXTENDS Integers

CONSTANTS
    User,          \* users, by email
    Namespace,     \* namespaces, by name
    QueueName,
    Request,       \* the requests in flight at once
    Idle,          \* a request slot with no request
    Nothing,       \* where the cache has no entry
    TTL,           \* AUTHORIZED_QUEUE_TTL, in ticks of the clock
    Operation,     \* the operations that requests ask for
    KmsOutcome,    \* what deleting a KMS key can do: a subset of {"ok", "failed"}
    MaxQueueId,    \* bound: the queues ever created
    MaxRowId       \* bound: the ids of users and namespaces

ASSUME ConstantsAssumption ==
    /\ TTL \in Nat \ {0}
    /\ Operation \subseteq
         {"send", "sendBatch", "receive", "purge", "createQueue", "deleteQueue",
          "createNamespace", "deleteNamespace", "grant", "setNamespaces", "setOwner", "revoke",
          "promote", "demote", "deleteUser"}
    /\ KmsOutcome \subseteq {"ok", "failed"}
    /\ MaxQueueId \in Nat /\ MaxRowId \in Nat

VARIABLES
    userId,      \* users: each existing user's id, 0 for the others
    admins,      \* those with the role "admin"
    nsId,        \* namespaces: each existing one's id, 0 for the others
    permissions, \* user_permissions
    queues,      \* queues
    lastQueueId, \* the AUTOINCREMENT counter of queues
    cache,       \* authorized_queues
    call         \* each request's progress

accounts == <<userId, admins>>
database == <<userId, admins, nsId, permissions, queues, lastQueueId>>
vars == <<database, cache, call>>

-----------------------------------------------------------------------------

Key == [user : User, ns : Namespace, queue : QueueName]
Permission == [user : Nat, ns : Nat, owner : BOOLEAN]
QueueRow == [id : Nat, ns : Nat, name : QueueName]

(* `overtaken`, history: the answer was read before a change committed and *)
(* stored after it.                                                        *)
Entry == [id : Nat, age : 0 .. TTL, overtaken : BOOLEAN]

(* What a request names: a change of accounts no queue, one of a user no   *)
(* namespace either.                                                       *)
Names(op) ==
    CASE op \in {"promote", "demote", "deleteUser"} ->
           [user : User, ns : {Nothing}, queue : {Nothing}]
      [] op \in {"createNamespace", "deleteNamespace", "grant", "setNamespaces", "setOwner", "revoke"} ->
           [user : User, ns : Namespace, queue : {Nothing}]
      [] OTHER -> Key
Named == UNION {Names(op) : op \in Operation}

(* The steps of a call, those that commit named for their operation.       *)
Step == {"namespace", "access", "user", "find", "lookup", "read", "store", "use",
         "createQueue", "deleteQueue", "createNamespace", "deleteNamespace", "grant",
         "setNamespaces", "setOwner", "revoke", "promote", "demote", "deleteUser", "deleteKey",
         "invalidate", "clear"}

(* `at`: the step that is next; `id`: the queue id in hand; `nsId` and     *)
(* `userId`: the ids read so far; `key`: what the request names.           *)
Call == [op : Operation, at : Step, key : Named, id : Nat, nsId : Nat, userId : Nat,
         overtaken : BOOLEAN]

ASSUME MarkersAssumption == Idle \notin Call

Existing(ids) == {x \in DOMAIN ids : ids[x] # 0}

(* Without AUTOINCREMENT SQLite gives a row one more than the largest id   *)
(* in its table: the id of a deleted newest row is used again.             *)
NewRowIds(ids) ==
    {id \in {1} \cup {ids[x] + 1 : x \in DOMAIN ids} : \A x \in DOMAIN ids : ids[x] < id}
\* Deviation: queue ids without AUTOINCREMENT (before migration 0018).
ReusedQueueId ==
    1 + CHOOSE id \in {0} \cup {row.id : row \in queues} : \A row \in queues : row.id <= id
NewQueueId == 1 + lastQueueId

QueueNamed(ns, name) == {row \in queues : nsId[ns] # 0 /\ row.ns = nsId[ns] /\ row.name = name}
QueueWith(id) == {row \in queues : row.id = id}

Granted(u, n) == {p \in permissions : p.user = u /\ p.ns = n}
MayUse(user, ns) ==
    /\ userId[user] # 0
    /\ nsId[ns] # 0
    /\ user \in admins \/ Granted(userId[user], nsId[ns]) # {}
MayManage(user, id) ==
    /\ userId[user] # 0
    /\ user \in admins \/ \E p \in Granted(userId[user], id) : p.owner

(* A cached answer is served for TTL ticks.                                *)
\* Deviation: a cached answer never expires.
HitsForever(key) == cache[key] # Nothing
Hits(key) == cache[key] # Nothing /\ cache[key].age < TTL

-----------------------------------------------------------------------------

Init ==
    /\ \E first \in User :
         /\ userId = [u \in User |-> IF u = first THEN 1 ELSE 0]
         /\ admins = {first}
    /\ nsId = [n \in Namespace |-> 0]
    /\ permissions = {}
    /\ queues = {}
    /\ lastQueueId = 0
    /\ cache = [k \in Key |-> Nothing]
    /\ call = [r \in Request |-> Idle]

Tick ==
    /\ \E k \in Key : Hits(k)
    /\ cache' = [k \in Key |->
         IF Hits(k) THEN [cache[k] EXCEPT !.age = @ + 1] ELSE cache[k]]
    /\ UNCHANGED <<database, call>>

At(r, step) == call[r] # Idle /\ call[r].at = step
Goto(r, step) == call' = [call EXCEPT ![r] = [call[r] EXCEPT !.at = step]]
Finish(r) == call' = [call EXCEPT ![r] = Idle]

FirstStep(op) ==
    CASE op \in {"send", "sendBatch", "receive"} -> "lookup"
      [] op \in {"purge", "createQueue", "deleteQueue", "deleteNamespace", "setOwner"} -> "namespace"
      [] op \in {"createNamespace", "grant", "setNamespaces"} -> "user"
      [] OTHER -> op
Start(r, op, key) ==
    /\ call[r] = Idle
    /\ call' = [call EXCEPT ![r] = [op |-> op, at |-> FirstStep(op), key |-> key, id |-> 0,
                                    nsId |-> 0, userId |-> 0, overtaken |-> FALSE]]
    /\ UNCHANGED <<database, cache>>

(* A statement of r that can make answers wrong commits: r goes on to      *)
(* `step`, and the answers that others have read and not yet stored are    *)
(* overtaken.                                                              *)
Commit(r, step) ==
    call' = [s \in Request |->
        IF s = r THEN [call[r] EXCEPT !.at = step]
        ELSE IF At(s, "store") THEN [call[s] EXCEPT !.overtaken = TRUE]
        ELSE call[s]]

-----------------------------------------------------------------------------
(* resolve_authorized_queue: the cache, else one SELECT, else nothing.     *)

(* A batch of sends, once authorized, finds its queue by name again.       *)
OnceResolved(op) == IF op = "sendBatch" THEN "find" ELSE "use"

\* Deviation: a hit renews the answer.
LookupRenews(r) ==
    /\ At(r, "lookup")
    /\ LET key == call[r].key
       IN  IF Hits(key)
           THEN /\ call' = [call EXCEPT ![r] = [call[r] EXCEPT !.at = OnceResolved(call[r].op),
                                                              !.id = cache[key].id]]
                /\ cache' = [cache EXCEPT ![key].age = 0]
           ELSE Goto(r, "read") /\ cache' = cache
    /\ UNCHANGED database
Lookup(r) ==
    /\ At(r, "lookup")
    /\ LET key == call[r].key
       IN  call' = [call EXCEPT ![r] =
             IF Hits(key) THEN [call[r] EXCEPT !.at = OnceResolved(call[r].op), !.id = cache[key].id]
                          ELSE [call[r] EXCEPT !.at = "read"]]
    /\ UNCHANGED <<database, cache>>

Read(r) ==
    /\ At(r, "read")
    /\ LET key == call[r].key
           found == QueueNamed(key.ns, key.queue)
       IN  IF MayUse(key.user, key.ns) /\ found # {}
           THEN \E row \in found :
                  call' = [call EXCEPT ![r] = [call[r] EXCEPT !.at = "store", !.id = row.id]]
           ELSE Finish(r)
    /\ UNCHANGED <<database, cache>>

Store(r) ==
    /\ At(r, "store")
    /\ cache' = [cache EXCEPT ![call[r].key] =
         [id |-> call[r].id, age |-> 0, overtaken |-> call[r].overtaken]]
    /\ Goto(r, OnceResolved(call[r].op))
    /\ UNCHANGED database

Forget(ns, queue) ==
    cache' = [k \in Key |-> IF k.ns = ns /\ k.queue = queue THEN Nothing ELSE cache[k]]

(* The resolved queue is used, by id.  A receive that finds its queue gone *)
(* forgets the answer; a long poll that finds it empty looks again, and    *)
(* changes nothing here.                                                   *)
Use(r) ==
    /\ At(r, "use")
    /\ IF call[r].op = "receive" /\ QueueWith(call[r].id) = {}
       THEN Forget(call[r].key.ns, call[r].key.queue)
       ELSE cache' = cache
    /\ Finish(r)
    /\ UNCHANGED database

-----------------------------------------------------------------------------
(* What calls read before they write: namespace id, access, user id, queue *)
(* id, each a statement of its own.                                        *)

FindNamespace(r) ==
    /\ At(r, "namespace")
    /\ LET id == nsId[call[r].key.ns]
           next == IF call[r].op = "setOwner" THEN "user" ELSE "access"
       IN  IF id = 0 THEN Finish(r)
           ELSE call' = [call EXCEPT ![r] = [call[r] EXCEPT !.at = next, !.nsId = id]]
    /\ UNCHANGED <<database, cache>>

\* Each operation's step once its caller may manage the namespace.
OnceAllowed(op) == CASE op = "purge" -> "lookup"
               [] op = "deleteQueue" -> "find"
               [] OTHER -> op
CheckAccess(r) ==
    /\ At(r, "access")
    /\ LET user == call[r].key.user
       IN  IF MayManage(user, call[r].nsId)
           THEN call' = [call EXCEPT ![r] =
                  [call[r] EXCEPT !.at = OnceAllowed(call[r].op), !.userId = userId[user]]]
           ELSE Finish(r)
    /\ UNCHANGED <<database, cache>>

FindUser(r) ==
    /\ At(r, "user")
    /\ LET user == call[r].key.user
           known == /\ userId[user] # 0
                    /\ call[r].op = "createNamespace" => user \in admins
       IN  IF known
           THEN call' = [call EXCEPT ![r] =
                  [call[r] EXCEPT !.at = call[r].op, !.userId = userId[user]]]
           ELSE Finish(r)
    /\ UNCHANGED <<database, cache>>

FindQueue(r) ==
    /\ At(r, "find")
    /\ LET found == QueueNamed(call[r].key.ns, call[r].key.queue)
           next == IF call[r].op = "sendBatch" THEN "use" ELSE "deleteQueue"
       IN  IF found = {} THEN Finish(r)
           ELSE \E row \in found :
                  call' = [call EXCEPT ![r] = [call[r] EXCEPT !.at = next, !.id = row.id]]
    /\ UNCHANGED <<database, cache>>
-----------------------------------------------------------------------------
(* What requests commit, and the forgetting that follows.                  *)

Fails(r) == Finish(r) /\ UNCHANGED <<database, cache>>

(* A foreign key refuses a namespace or a user that has gone; a queue that *)
(* exists is left as it is.                                                *)
CreateQueue(r) ==
    /\ At(r, "createQueue")
    /\ LET c == call[r]
           orphaned == (\A n \in Namespace : nsId[n] # c.nsId)
                         \/ (\A u \in User : userId[u] # c.userId)
           taken == \E row \in queues : row.ns = c.nsId /\ row.name = c.key.queue
       IN  IF orphaned \/ taken THEN Fails(r)
           ELSE /\ NewQueueId <= MaxQueueId
                /\ queues' = queues \cup {[id |-> NewQueueId, ns |-> c.nsId, name |-> c.key.queue]}
                /\ lastQueueId' = lastQueueId + 1
                /\ Goto(r, "invalidate")
                /\ UNCHANGED <<accounts, nsId, permissions, cache>>

DeleteQueue(r) ==
    /\ At(r, "deleteQueue")
    /\ queues' = queues \ QueueWith(call[r].id)
    /\ Commit(r, "invalidate")
    /\ UNCHANGED <<accounts, nsId, permissions, lastQueueId, cache>>

(* The creator owns the namespace.                                         *)
CreateNamespace(r) ==
    /\ At(r, "createNamespace")
    /\ LET c == call[r]
       IN  IF nsId[c.key.ns] # 0 \/ (\A u \in User : userId[u] # c.userId) THEN Fails(r)
           ELSE /\ \E id \in NewRowIds(nsId) :
                     /\ id <= MaxRowId
                     /\ nsId' = [nsId EXCEPT ![c.key.ns] = id]
                     /\ permissions' = permissions
                                         \cup {[user |-> c.userId, ns |-> id, owner |-> TRUE]}
                /\ Finish(r)
                /\ UNCHANGED <<accounts, queues, lastQueueId, cache>>

(* By name, whichever namespace has it now; the queues and permissions go  *)
(* with it.                                                                *)
DeleteNamespace(r) ==
    /\ At(r, "deleteNamespace")
    /\ LET id == nsId[call[r].key.ns]
       IN  /\ nsId' = [nsId EXCEPT ![call[r].key.ns] = 0]
           /\ queues' = {row \in queues : row.ns # id}
           /\ permissions' = {p \in permissions : p.ns # id}
    /\ Commit(r, "clear")
    /\ UNCHANGED <<accounts, lastQueueId, cache>>

(* revoke_user_namespaces.                                                 *)
Revoke(r) ==
    /\ At(r, "revoke")
    /\ LET key == call[r].key
       IN  permissions' = permissions \ Granted(userId[key.user], nsId[key.ns])
    /\ Commit(r, "clear")
    /\ UNCHANGED <<accounts, nsId, queues, lastQueueId, cache>>

(* Grants name their user by the id read before, and skip what is granted. *)
GrantTo(granted, user, ns) ==
    IF \E p \in granted : p.user = user /\ p.ns = ns THEN granted
    ELSE granted \cup {[user |-> user, ns |-> ns, owner |-> FALSE]}
Grant(r) ==
    /\ At(r, "grant")
    /\ LET c == call[r]
           ns == nsId[c.key.ns]
       IN  IF ns = 0 \/ (\A u \in User : userId[u] # c.userId) THEN Fails(r)
           ELSE /\ permissions' = GrantTo(permissions, c.userId, ns)
                /\ Finish(r)
                /\ UNCHANGED <<accounts, nsId, queues, lastQueueId, cache>>

(* set_user_namespaces: exactly the one named, or none.                    *)
SetNamespaces(r) ==
    /\ At(r, "setNamespaces")
    /\ \E keep \in SUBSET {nsId[call[r].key.ns]} :
         LET c == call[r]
             kept == {p \in permissions : p.user # c.userId \/ p.ns \in keep}
         IN  IF keep # {} /\ (0 \in keep \/ \A u \in User : userId[u] # c.userId) THEN Fails(r)
             ELSE /\ permissions' = IF keep = {} THEN kept
                                    ELSE GrantTo(kept, c.userId, nsId[c.key.ns])
                  /\ Commit(r, "clear")
                  /\ UNCHANGED <<accounts, nsId, queues, lastQueueId, cache>>

(* set_namespace_owner: both ids were read before.                         *)
SetOwner(r) ==
    /\ At(r, "setOwner")
    /\ LET c == call[r]
           row(owner) == [user |-> c.userId, ns |-> c.nsId, owner |-> owner]
           orphaned == (\A n \in Namespace : nsId[n] # c.nsId)
                         \/ (\A u \in User : userId[u] # c.userId)
       IN  \/ IF orphaned THEN Fails(r)
              ELSE /\ permissions' = (permissions \ {row(FALSE)}) \cup {row(TRUE)}
                   /\ Finish(r)
                   /\ UNCHANGED <<accounts, nsId, queues, lastQueueId, cache>>
           \/ /\ permissions' = {IF p = row(TRUE) THEN row(FALSE) ELSE p : p \in permissions}
              /\ Finish(r)
              /\ UNCHANGED <<accounts, nsId, queues, lastQueueId, cache>>

(* The last admin stays one.                                               *)
LastAdmin(user) == admins = {user}

Promote(r) ==
    /\ At(r, "promote")
    /\ LET user == call[r].key.user
       IN  IF userId[user] = 0 THEN Fails(r)
           ELSE /\ admins' = admins \cup {user}
                /\ Commit(r, "clear")
                /\ UNCHANGED <<userId, nsId, permissions, queues, lastQueueId, cache>>
\* Deviation: a demotion leaves the remembered answers.
DemoteQuietly(r) ==
    /\ At(r, "demote")
    /\ LET user == call[r].key.user
       IN  IF userId[user] = 0 \/ LastAdmin(user) THEN Fails(r)
           ELSE /\ admins' = admins \ {user}
                /\ Finish(r)
                /\ UNCHANGED <<userId, nsId, permissions, queues, lastQueueId, cache>>
Demote(r) ==
    /\ At(r, "demote")
    /\ LET user == call[r].key.user
       IN  IF userId[user] = 0 \/ LastAdmin(user) THEN Fails(r)
           ELSE /\ admins' = admins \ {user}
                /\ Commit(r, "clear")
                /\ UNCHANGED <<userId, nsId, permissions, queues, lastQueueId, cache>>

CreateUser(user, isAdmin, grants) ==
    /\ userId[user] = 0
    /\ \A n \in grants : nsId[n] # 0
    /\ \E id \in NewRowIds(userId) :
         /\ id <= MaxRowId
         /\ userId' = [userId EXCEPT ![user] = id]
         /\ permissions' = permissions
                             \cup {[user |-> id, ns |-> nsId[n], owner |-> FALSE] : n \in grants}
    /\ admins' = IF isAdmin THEN admins \cup {user} ELSE admins
    /\ UNCHANGED <<nsId, queues, lastQueueId, cache, call>>

(* The user's KMS key is deleted before the cache is cleared, and when     *)
(* that fails it is not.                                                   *)
DeleteUser(r) ==
    /\ At(r, "deleteUser")
    /\ LET user == call[r].key.user
       IN  IF userId[user] = 0 \/ LastAdmin(user) THEN Fails(r)
           ELSE /\ userId' = [userId EXCEPT ![user] = 0]
                /\ admins' = admins \ {user}
                /\ permissions' = {p \in permissions : p.user # userId[user]}
                /\ Commit(r, "deleteKey")
                /\ UNCHANGED <<nsId, queues, lastQueueId, cache>>
DeleteKey(r) ==
    /\ At(r, "deleteKey")
    /\ \E outcome \in KmsOutcome :
         IF outcome = "ok" THEN Goto(r, "clear") ELSE Finish(r)
    /\ UNCHANGED <<database, cache>>

Invalidate(r) ==
    /\ At(r, "invalidate")
    /\ Forget(call[r].key.ns, call[r].key.queue)
    /\ Finish(r)
    /\ UNCHANGED database

Clear(r) ==
    /\ At(r, "clear")
    /\ cache' = [k \in Key |-> Nothing]
    /\ Finish(r)
    /\ UNCHANGED database

(* The server dies: the cache and the requests are gone.                   *)
Restart ==
    /\ cache' = [k \in Key |-> Nothing]
    /\ call' = [r \in Request |-> Idle]
    /\ UNCHANGED database

-----------------------------------------------------------------------------

Resolve(r) == Lookup(r) \/ Read(r) \/ Store(r) \/ Use(r)
Prepare(r) == FindNamespace(r) \/ CheckAccess(r) \/ FindUser(r) \/ FindQueue(r)
ChangeQueues(r) == CreateQueue(r) \/ DeleteQueue(r) \/ CreateNamespace(r) \/ DeleteNamespace(r)
ChangeAccess(r) == \/ Revoke(r) \/ Grant(r) \/ SetNamespaces(r) \/ SetOwner(r)
                   \/ Promote(r) \/ Demote(r) \/ DeleteUser(r) \/ DeleteKey(r)

Next ==
    \/ Tick \/ Restart
    \/ \E r \in Request :
         \/ \E op \in Operation : \E key \in Names(op) : Start(r, op, key)
         \/ Resolve(r) \/ Prepare(r) \/ ChangeQueues(r) \/ ChangeAccess(r)
         \/ Invalidate(r) \/ Clear(r)
    \/ \E user \in User, isAdmin \in BOOLEAN, grants \in SUBSET Namespace :
         CreateUser(user, isAdmin, grants)

(* Time passes.                                                            *)
Spec == Init /\ [][Next]_vars /\ WF_vars(Tick)

-----------------------------------------------------------------------------

(* The type invariant.                                                     *)
TypeOK ==
    /\ userId \in [User -> Nat]
    /\ admins \subseteq Existing(userId)
    /\ nsId \in [Namespace -> Nat]
    /\ permissions \subseteq Permission
    /\ queues \subseteq QueueRow
    /\ lastQueueId \in Nat
    /\ cache \in [Key -> Entry \cup {Nothing}]
    /\ call \in [Request -> Call \cup {Idle}]

(* What the cache remembers is still what the database would answer.       *)
Backed(k) ==
    /\ MayUse(k.user, k.ns)
    /\ \E row \in QueueNamed(k.ns, k.queue) : row.id = cache[k].id

Forgetting(r, k) ==
    \/ At(r, "clear") \/ At(r, "deleteKey")
    \/ At(r, "invalidate") /\ call[r].key.ns = k.ns /\ call[r].key.queue = k.queue

(* Every change that makes a remembered answer wrong is followed by its    *)
(* forgetting: a wrong answer is served only while the change that made it *)
(* wrong is on its way to forget it, or if the answer was read before that *)
(* change and stored after it.                                             *)
WrongAnswersForgotten ==
    \A k \in Key : Hits(k) /\ ~Backed(k) =>
        cache[k].overtaken \/ \E r \in Request : Forgetting(r, k)

(* A request that acts on a queue by id acts on the queue it names,        *)
(* however long it held the id and whatever was deleted and created under  *)
(* the same names since; so does one that finds the id remembered.         *)
NamesIts(id, key) == QueueWith(id) \subseteq QueueNamed(key.ns, key.queue)
ActsOnTheQueueNamed ==
    /\ \A r \in Request : At(r, "use") \/ At(r, "deleteQueue") => NamesIts(call[r].id, call[r].key)
    /\ \A k \in Key : cache[k] # Nothing => NamesIts(cache[k].id, k)

(* Even an answer stored too late is not served for ever: the TTL bounds   *)
(* it.                                                                     *)
WrongAnswersEnd == \A k \in Key : (Hits(k) /\ ~Backed(k)) ~> ~(Hits(k) /\ ~Backed(k))

(* "Revoked access must stop authorizing immediately, not at the cache     *)
(* TTL" (src/src/service.rs, revoke_user_namespaces): once no call is      *)
(* still forgetting, nobody without access is served from the cache.       *)
RevocationIsImmediate ==
    (\A r \in Request, k \in Key : ~Forgetting(r, k)) =>
        \A k \in Key : Hits(k) => MayUse(k.user, k.ns)

(* A queue is created in the namespace the request names.                  *)
CreatesWhereAsked ==
    [][\A r \in Request : CreateQueue(r) =>
         \A row \in queues' \ queues : row.ns = nsId[call[r].key.ns]]_vars
=============================================================================
