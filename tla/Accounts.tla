------------------------------ MODULE Accounts ------------------------------
(***************************************************************************)
(* Users, their KMS keys, their API keys, and the signing keys the server  *)
(* remembers for a minute (src/src/service.rs, src/src/kms).  The server   *)
(* and the command line (src/src/cli.rs) are two processes on one          *)
(* database, and each call of either is a few statements with the KMS and  *)
(* the cache in between.  What the command line changes it cannot make the *)
(* server forget: its own cache is another one.                            *)
(*                                                                         *)
(* Who may use which namespace is AuthorizedQueues' subject; here a caller *)
(* may or may not, and a namespace is what API keys belong to.             *)
(***************************************************************************)
EXTENDS Integers

CONSTANTS
    Email,      \* the e-mail addresses users have
    Root,       \* config.root_email()
    Namespace,  \* the names namespaces have
    AccessKey,  \* the access key ids drawn for API keys, each once
    KmsKey,     \* the ids the KMS draws for its keys, each once
    Task,       \* the calls in flight at once
    Absent,     \* where no row is stored, or nothing is remembered
    Idle,       \* a call that is over
    TTL,        \* SIGNING_KEY_TTL, in ticks of the clock
    MaxRowId    \* bound: the ids of namespaces

ASSUME ConstantsAssumption ==
    /\ Root \in Email
    /\ TTL \in Nat \ {0}
    /\ MaxRowId \in Nat

VARIABLES
    users,      \* users: a row per e-mail
    nsId,       \* namespaces: each one's id, 0 for the others
    apiKeys,    \* api_keys: a row per access key id
    kmsKeys,    \* the keys the KMS holds
    serving,    \* the server has started
    cache,      \* signing_keys, the server's
    task,       \* each call's progress
    (***********************************************************************)
    (* History:                                                            *)
    (***********************************************************************)
    drawn,      \* the KMS and access key ids used so far
    lost,       \* KMS keys a crash or a failing KMS left behind
    slipped     \* access keys revoked on a path that does not forget them

database == <<users, nsId, apiKeys, kmsKeys>>
history == <<drawn, lost, slipped>>
vars == <<database, serving, cache, task, history>>

-----------------------------------------------------------------------------

Role == {"user", "admin"}
Process == {"server", "cli"}

User == [role : Role, active : BOOLEAN, kms : KmsKey]

(* The secret is stored encrypted with a KMS key, `kms`.  History: the     *)
(* namespace the key was asked for, and whether its owner or that          *)
(* namespace was deleted while it was being made.                          *)
ApiKey == [owner : Email, ns : Nat, kms : KmsKey, asked : Namespace,
           crossed : BOOLEAN]

(* What a signing key resolves to.  The secret is its KMS key's to tell.   *)
Answer == [owner : Email, role : Role, kms : KmsKey, ns : Nat]

(* History: the answer was changed after it was read.                      *)
Entry == [answer : Answer, age : 0 .. TTL, overtaken : BOOLEAN]

Calls ==
    [op : {"lookup"}, via : {"server"}, key : AccessKey, answer : Answer, overtaken : BOOLEAN]
    \cup [op : {"createUser"}, via : Process, email : Email, role : Role, kms : KmsKey]
    \cup [op : {"discard"}, via : Process, kms : KmsKey]
    \cup [op : {"deleteUser"}, via : Process, kms : KmsKey, keys : SUBSET AccessKey]
    \cup [op : {"forget"}, via : {"server"}, keys : SUBSET AccessKey]
    \cup [op : {"readKey"}, via : Process, email : Email, ns : Nat, asked : Namespace,
          crossed : BOOLEAN]
    \cup [op : {"storeKey"}, via : Process, email : Email, ns : Nat, asked : Namespace,
          kms : KmsKey, crossed : BOOLEAN]

ASSUME MarkersAssumption ==
    /\ Absent \notin User \cup ApiKey \cup Answer \cup Entry
    /\ Idle \notin Calls

Stored(e) == users[e] # Absent
Minted == {k \in AccessKey : apiKeys[k] # Absent}
KeysOf(e) == {k \in Minted : apiKeys[k].owner = e}
KeysIn(id) == {k \in Minted : apiKeys[k].ns = id}

Doing(t, op) == task[t] # Idle /\ task[t].op = op
Finish(t) == task' = [task EXCEPT ![t] = Idle]
Become(t, call) == task' = [task EXCEPT ![t] = call]

ActiveAdmin(e) == Stored(e) /\ users[e].role = "admin" /\ users[e].active
\* Deviation: the guard counts the disabled admins too.
LastOfAllAdmins(e) ==
    ActiveAdmin(e) /\ \A d \in Email \ {e} : Stored(d) => users[d].role # "admin"
LastActiveAdmin(e) == ActiveAdmin(e) /\ \A d \in Email \ {e} : ~ActiveAdmin(d)

(* The SELECT behind a signing key: the key, its active owner, its         *)
(* namespace.                                                              *)
Resolution(k) ==
    LET key == apiKeys[k]
    IN  IF key = Absent THEN Absent
        ELSE IF ~Stored(key.owner) \/ ~users[key.owner].active THEN Absent
        ELSE [owner |-> key.owner, role |-> users[key.owner].role,
              kms |-> users[key.owner].kms, ns |-> key.ns]

\* Deviation: what is remembered never expires.
FreshForever(k) == cache[k] # Absent
Fresh(k) == cache[k] # Absent /\ cache[k].age < TTL

(* What calls in flight have read and a change makes wrong is overtaken;   *)
(* so is a key being made for a user or in a namespace that is deleted.    *)
Overtaken(call, keys, emails, namespaces) ==
    IF call = Idle THEN Idle
    ELSE IF call.op = "lookup" /\ call.key \in keys THEN [call EXCEPT !.overtaken = TRUE]
    ELSE IF /\ call.op \in {"readKey", "storeKey"}
            /\ call.email \in emails \/ call.asked \in namespaces
    THEN [call EXCEPT !.crossed = TRUE]
    ELSE call

(* A statement of t commits, of the keys in `keys` at most, and t goes on. *)
Commit(t, keys, emails, namespaces, next) ==
    task' = [s \in Task |-> IF s = t THEN next ELSE Overtaken(task[s], keys, emails, namespaces)]

(* The server forgets what it remembers of `keys`; the command line has    *)
(* nothing to forget.                                                      *)
Forgetting(via, keys) ==
    IF via = "server" THEN [op |-> "forget", via |-> via, keys |-> keys] ELSE Idle
Slip(via, keys) == slipped' = IF via = "cli" THEN slipped \cup keys ELSE slipped

(* Calls are made by requests to a server that has started, and by         *)
(* commands.                                                               *)
Open(t, via) == task[t] = Idle /\ (via = "server" => serving)

-----------------------------------------------------------------------------

(* A server and a root user that its first start created.                  *)
Init ==
    \E d \in KmsKey :
        /\ users = [e \in Email |->
             IF e = Root THEN [role |-> "admin", active |-> TRUE, kms |-> d] ELSE Absent]
        /\ nsId = [n \in Namespace |-> 0]
        /\ apiKeys = [k \in AccessKey |-> Absent]
        /\ kmsKeys = {d}
        /\ serving = TRUE
        /\ cache = [k \in AccessKey |-> Absent]
        /\ task = [t \in Task |-> Idle]
        /\ drawn = {d}
        /\ lost = {}
        /\ slipped = {}

Tick ==
    /\ \E k \in AccessKey : Fresh(k)
    /\ cache' = [k \in AccessKey |->
         IF Fresh(k) THEN [cache[k] EXCEPT !.age = @ + 1] ELSE cache[k]]
    /\ UNCHANGED <<database, serving, task, history>>

(* A request signed with a key that is not remembered: the SELECT, then    *)
(* the KMS decrypts the secret, if it was encrypted with the owner's KMS   *)
(* key, then the answer is remembered.                                     *)
Lookup(t, k) ==
    /\ Open(t, "server")
    /\ ~Fresh(k)
    /\ Resolution(k) # Absent
    /\ apiKeys[k].kms = Resolution(k).kms
    /\ Become(t, [op |-> "lookup", via |-> "server", key |-> k,
                  answer |-> Resolution(k), overtaken |-> FALSE])
    /\ UNCHANGED <<database, serving, cache, history>>

(* Decrypting fails when the KMS key is gone, or when the KMS does.        *)
Remember(t) ==
    /\ Doing(t, "lookup")
    /\ \/ /\ task[t].answer.kms \in kmsKeys
          /\ cache' = [cache EXCEPT ![task[t].key] =
               [answer |-> task[t].answer, age |-> 0, overtaken |-> task[t].overtaken]]
       \/ cache' = cache
    /\ Finish(t)
    /\ UNCHANGED <<database, serving, history>>

Forget(t) ==
    /\ Doing(t, "forget")
    /\ cache' = [k \in AccessKey |-> IF k \in task[t].keys THEN Absent ELSE cache[k]]
    /\ Finish(t)
    /\ UNCHANGED <<database, serving, history>>

-----------------------------------------------------------------------------
(* Users.  Each guard on the last admin is part of its statement.          *)

(* A new user's KMS key is made first, outside any transaction.            *)
CreateUser(t, via, e, role) ==
    /\ \E d \in KmsKey \ drawn :
         /\ kmsKeys' = kmsKeys \cup {d}
         /\ drawn' = drawn \cup {d}
         /\ Become(t, [op |-> "createUser", via |-> via, email |-> e, role |-> role, kms |-> d])
    /\ UNCHANGED <<users, nsId, apiKeys, serving, cache, lost, slipped>>

(* The row is inserted, unless the e-mail is taken or a namespace to grant *)
(* is gone: then the KMS key is of no use.                                 *)
\* Deviation: a key made in vain is kept.
InsertUserKeepsKey(t) ==
    /\ Doing(t, "createUser")
    /\ LET c == task[t]
       IN  \/ /\ ~Stored(c.email)
              /\ users' = [users EXCEPT ![c.email] =
                   [role |-> c.role, active |-> TRUE, kms |-> c.kms]]
           \/ users' = users
    /\ Finish(t)
    /\ UNCHANGED <<nsId, apiKeys, kmsKeys, serving, cache, history>>
InsertUser(t) ==
    /\ Doing(t, "createUser")
    /\ LET c == task[t]
       IN  \/ /\ ~Stored(c.email)
              /\ users' = [users EXCEPT ![c.email] =
                   [role |-> c.role, active |-> TRUE, kms |-> c.kms]]
              /\ Finish(t)
           \/ /\ Become(t, [op |-> "discard", via |-> c.via, kms |-> c.kms])
              /\ users' = users
    /\ UNCHANGED <<nsId, apiKeys, kmsKeys, serving, cache, history>>

DeleteKmsKey(d) == kmsKeys' = kmsKeys \ {d} /\ lost' = lost
LoseKmsKey(d) == kmsKeys' = kmsKeys /\ lost' = lost \cup {d}

Discard(t) ==
    /\ Doing(t, "discard")
    /\ DeleteKmsKey(task[t].kms) \/ LoseKmsKey(task[t].kms)
    /\ Finish(t)
    /\ UNCHANGED <<users, nsId, apiKeys, serving, cache, drawn, slipped>>

(* A start, of the server or of a command, makes sure of the root user; a  *)
(* server serves once it has one.                                          *)
EnsureRoot(t, via) ==
    /\ task[t] = Idle
    /\ via = "server" => ~serving
    /\ ~Stored(Root)
    /\ CreateUser(t, via, Root, "admin")
Serve ==
    /\ ~serving
    /\ Stored(Root)
    /\ serving' = TRUE
    /\ UNCHANGED <<database, cache, task, history>>

(* The row goes, and the user's API keys with it; then the KMS key; then   *)
(* the server forgets.  The command line does not delete the root user.    *)
\* Deviation: the API keys stay.
DeleteUserOnly(t, via, e) ==
    /\ Open(t, via)
    /\ via = "cli" => e # Root
    /\ Stored(e) /\ ~LastActiveAdmin(e)
    /\ users' = [users EXCEPT ![e] = Absent]
    /\ Commit(t, KeysOf(e), {e}, {},
              [op |-> "deleteUser", via |-> via, kms |-> users[e].kms, keys |-> KeysOf(e)])
    /\ Slip(via, KeysOf(e))
    /\ UNCHANGED <<nsId, apiKeys, kmsKeys, serving, cache, drawn, lost>>
DeleteUser(t, via, e) ==
    /\ Open(t, via)
    /\ via = "cli" => e # Root
    /\ Stored(e) /\ ~LastActiveAdmin(e)
    /\ users' = [users EXCEPT ![e] = Absent]
    /\ apiKeys' = [k \in AccessKey |-> IF k \in KeysOf(e) THEN Absent ELSE apiKeys[k]]
    /\ Commit(t, KeysOf(e), {e}, {},
              [op |-> "deleteUser", via |-> via, kms |-> users[e].kms, keys |-> KeysOf(e)])
    /\ Slip(via, KeysOf(e))
    /\ UNCHANGED <<nsId, kmsKeys, serving, cache, drawn, lost>>

(* A KMS that fails ends the call before it forgets.                       *)
DeleteUsersKey(t) ==
    /\ Doing(t, "deleteUser")
    /\ \/ /\ DeleteKmsKey(task[t].kms)
          /\ Become(t, Forgetting(task[t].via, AccessKey))
          /\ slipped' = slipped
       \/ /\ LoseKmsKey(task[t].kms)
          /\ Finish(t)
          /\ slipped' = slipped \cup task[t].keys
    /\ UNCHANGED <<users, nsId, apiKeys, serving, cache, drawn>>

(* Demoting and disabling.                                                 *)
SetRole(t, via, e, role) ==
    /\ Open(t, via)
    /\ Stored(e) /\ (role = "admin" \/ ~LastActiveAdmin(e))
    /\ users' = [users EXCEPT ![e].role = role]
    /\ Commit(t, KeysOf(e), {}, {}, Forgetting(via, AccessKey))
    /\ Slip(via, KeysOf(e))
    /\ UNCHANGED <<nsId, apiKeys, kmsKeys, serving, cache, drawn, lost>>

\* Deviation: the keys of a disabled user stay remembered.
SetDisabledQuietly(t, via, e, disabled) ==
    /\ Open(t, via)
    /\ Stored(e) /\ (disabled => ~LastActiveAdmin(e))
    /\ users' = [users EXCEPT ![e].active = ~disabled]
    /\ Commit(t, KeysOf(e), {}, {}, Idle)
    /\ Slip(via, KeysOf(e))
    /\ UNCHANGED <<nsId, apiKeys, kmsKeys, serving, cache, drawn, lost>>
SetDisabled(t, via, e, disabled) ==
    /\ Open(t, via)
    /\ Stored(e) /\ (disabled => ~LastActiveAdmin(e))
    /\ users' = [users EXCEPT ![e].active = ~disabled]
    /\ Commit(t, KeysOf(e), {}, {}, Forgetting(via, AccessKey))
    /\ Slip(via, KeysOf(e))
    /\ UNCHANGED <<nsId, apiKeys, kmsKeys, serving, cache, drawn, lost>>

-----------------------------------------------------------------------------
(* Namespaces and API keys.                                                *)

(* Without AUTOINCREMENT: the id of a deleted newest row is used again.    *)
IsNextNamespaceId(id) ==
    /\ \A n \in Namespace : nsId[n] < id
    /\ id = 1 \/ \E n \in Namespace : nsId[n] = id - 1

CreateNamespace(n) ==
    /\ nsId[n] = 0
    /\ \E id \in 1 .. MaxRowId :
         /\ IsNextNamespaceId(id)
         /\ nsId' = [nsId EXCEPT ![n] = id]
    /\ UNCHANGED <<users, apiKeys, kmsKeys, serving, cache, task, history>>

DeleteNamespace(t, via, n) ==
    /\ Open(t, via)
    /\ nsId[n] # 0
    /\ nsId' = [nsId EXCEPT ![n] = 0]
    /\ apiKeys' = [k \in AccessKey |-> IF k \in KeysIn(nsId[n]) THEN Absent ELSE apiKeys[k]]
    /\ Commit(t, KeysIn(nsId[n]), {}, {n}, Forgetting(via, AccessKey))
    /\ Slip(via, KeysIn(nsId[n]))
    /\ UNCHANGED <<users, kmsKeys, serving, cache, drawn, lost>>

(* A new API key: the namespace's id and the caller's access to it, then   *)
(* the caller's KMS key, which encrypts the secret, then the row.          *)
CreateToken(t, via, e, n) ==
    /\ Open(t, via)
    /\ Stored(e)
    /\ nsId[n] # 0
    /\ Become(t, [op |-> "readKey", via |-> via, email |-> e, ns |-> nsId[n],
                  asked |-> n, crossed |-> FALSE])
    /\ UNCHANGED <<database, serving, cache, history>>
ReadKey(t) ==
    /\ Doing(t, "readKey")
    /\ IF Stored(task[t].email)
       THEN Become(t, [op |-> "storeKey", via |-> task[t].via, email |-> task[t].email,
                       ns |-> task[t].ns, asked |-> task[t].asked,
                       kms |-> users[task[t].email].kms, crossed |-> task[t].crossed])
       ELSE Finish(t)
    /\ UNCHANGED <<database, serving, cache, history>>

(* The row names its owner by e-mail and its namespace by the id read      *)
(* before; it is refused when either is gone, and so is a KMS key that is. *)
InsertToken(t) ==
    /\ Doing(t, "storeKey")
    /\ LET c == task[t]
       IN  \/ \E k \in AccessKey \ drawn :
                /\ Stored(c.email)
                /\ \E n \in Namespace : nsId[n] = c.ns
                /\ apiKeys' = [apiKeys EXCEPT ![k] =
                     [owner |-> c.email, ns |-> c.ns, kms |-> c.kms, asked |-> c.asked,
                      crossed |-> c.crossed]]
                /\ drawn' = drawn \cup {k}
           \/ UNCHANGED <<apiKeys, drawn>>
    /\ Finish(t)
    /\ UNCHANGED <<users, nsId, kmsKeys, serving, cache, lost, slipped>>

DeleteToken(t, via, k) ==
    /\ Open(t, via)
    /\ k \in Minted
    /\ apiKeys' = [apiKeys EXCEPT ![k] = Absent]
    /\ Commit(t, {k}, {}, {}, Forgetting(via, {k}))
    /\ Slip(via, {k})
    /\ UNCHANGED <<users, nsId, kmsKeys, serving, cache, drawn, lost>>

-----------------------------------------------------------------------------

(* The KMS keys calls hold and no user has.                                *)
Held(calls) ==
    {c.kms : c \in {d \in calls : d # Idle /\ d.op \in {"createUser", "discard", "deleteUser"}}}

(* The server dies, with its cache and its calls; a command may too.       *)
Crash ==
    /\ serving' = FALSE
    /\ cache' = [k \in AccessKey |-> Absent]
    /\ task' = [t \in Task |->
         IF task[t] # Idle /\ task[t].via = "server" THEN Idle ELSE task[t]]
    /\ lost' = lost \cup Held({task[t] : t \in {s \in Task : task'[s] = Idle}})
    /\ UNCHANGED <<database, drawn, slipped>>
Interrupt(t) ==
    /\ task[t] # Idle
    /\ task[t].via = "cli"
    /\ Finish(t)
    /\ lost' = lost \cup Held({task[t]})
    /\ UNCHANGED <<database, serving, cache, drawn, slipped>>

Proceed(t) ==
    \/ Remember(t) \/ Forget(t)
    \/ InsertUser(t) \/ Discard(t) \/ DeleteUsersKey(t)
    \/ ReadKey(t) \/ InsertToken(t)

(* Who makes the calls: requests to the server, and commands.  An admin    *)
(* deletes any API key, as its owner does.                                 *)
ManageUsers(t) ==
    \E e \in Email :
        \/ \E role \in Role : Open(t, "server") /\ CreateUser(t, "server", e, role)
        \/ DeleteUser(t, "server", e)

ManageAccounts(t) ==
    \E e \in Email :
        \/ \E role \in Role : SetRole(t, "server", e, role)
        \/ \E disabled \in BOOLEAN : SetDisabled(t, "server", e, disabled)

ManageTokens(t) ==
    \/ \E e \in Email, n \in Namespace : CreateToken(t, "server", e, n)
    \/ \E k \in AccessKey : DeleteToken(t, "server", k)

ManageNamespaces(t) ==
    \E n \in Namespace :
        \/ serving /\ CreateNamespace(n)
        \/ DeleteNamespace(t, "server", n)

ExecuteUser(t) ==
    \E e \in Email :
        \/ \E role \in Role : \/ Open(t, "cli") /\ CreateUser(t, "cli", e, role)
                              \/ SetRole(t, "cli", e, role)
        \/ \E disabled \in BOOLEAN : SetDisabled(t, "cli", e, disabled)
        \/ DeleteUser(t, "cli", e)

ExecuteApiKey(t) ==
    \/ \E e \in Email, n \in Namespace : CreateToken(t, "cli", e, n)
    \/ \E k \in AccessKey : DeleteToken(t, "cli", k)

ExecuteNamespace(t) ==
    \E n \in Namespace :
        \/ CreateNamespace(n)
        \/ DeleteNamespace(t, "cli", n)

Execute(t) == ExecuteUser(t) \/ ExecuteApiKey(t) \/ ExecuteNamespace(t)

Next ==
    \/ Tick \/ Serve \/ Crash
    \/ \E t \in Task :
         \/ Proceed(t) \/ Interrupt(t)
         \/ \E k \in AccessKey : Lookup(t, k)
         \/ \E via \in Process : EnsureRoot(t, via)
         \/ ManageUsers(t) \/ ManageAccounts(t) \/ ManageTokens(t) \/ ManageNamespaces(t)
         \/ Execute(t)

Spec == Init /\ [][Next]_vars

-----------------------------------------------------------------------------

(* The type invariant.                                                     *)
TypeOK ==
    /\ users \in [Email -> User \cup {Absent}]
    /\ nsId \in [Namespace -> Nat]
    /\ apiKeys \in [AccessKey -> ApiKey \cup {Absent}]
    /\ kmsKeys \subseteq KmsKey
    /\ serving \in BOOLEAN
    /\ cache \in [AccessKey -> Entry \cup {Absent}]
    /\ task \in [Task -> Calls \cup {Idle}]
    /\ drawn \subseteq KmsKey \cup AccessKey
    /\ lost \subseteq kmsKeys
    /\ slipped \subseteq AccessKey

(* Somebody is always left to administer the server, however many admins   *)
(* delete, demote or disable each other at once.                           *)
SomeActiveAdmin == \E e \in Email : ActiveAdmin(e)

(* Every user's KMS key exists, and no KMS key is left without a user, but *)
(* for those in the hands of a call, or left by a crash or a failing KMS.  *)
InUse == {users[e].kms : e \in {d \in Email : Stored(d)}}
KmsKeysAccountedFor ==
    /\ InUse \subseteq kmsKeys
    /\ kmsKeys \subseteq InUse \cup Held({task[t] : t \in Task}) \cup lost

(* An API key belongs to a user and a namespace that exist, is in the      *)
(* namespace it was asked for, and its secret can be decrypted: only a     *)
(* user or a namespace deleted, and perhaps created again, while the key   *)
(* was being made could make it otherwise.                                 *)
KeysAreTheirOwners ==
    \A k \in Minted :
        LET key == apiKeys[k]
        IN  /\ Stored(key.owner)
            /\ \E n \in Namespace : nsId[n] = key.ns
            /\ ~key.crossed => nsId[key.asked] = key.ns /\ users[key.owner].kms = key.kms

(* A remembered signing key that is no longer what the database would      *)
(* answer is being forgotten, unless it was read before it became wrong    *)
(* and remembered after, or revoked where nothing forgets it: by the       *)
(* command line, or before a KMS failed.                                   *)
RevokedKeysForgotten ==
    \A k \in AccessKey : Fresh(k) /\ cache[k].answer # Resolution(k) =>
        \/ cache[k].overtaken
        \/ k \in slipped
        \/ \E t \in Task : Doing(t, "deleteUser")
        \/ \E t \in Task : Doing(t, "forget") /\ k \in task[t].keys
=============================================================================
