----------------------- MODULE AuthorizedQueuesProofs -----------------------
(***************************************************************************)
(* What the remembered answers of AuthorizedQueues hold to, for every      *)
(* number of users, namespaces, queues and requests and every TTL.         *)
(*                                                                         *)
(* Two judgements carry the proofs.  An id is Held for a key when no queue *)
(* but the one the key names has it, now or later: every step keeps that,  *)
(* for queue ids are never drawn again.  It is Answered when the database  *)
(* would give it: only the steps that Commit can end that.                 *)
(***************************************************************************)
EXTENDS AuthorizedQueues, TLAPS

USE ConstantsAssumption, MarkersAssumption

Held(id, key) == id <= lastQueueId /\ NamesIts(id, key)
Answered(id, key) ==
    /\ MayUse(key.user, key.ns)
    /\ \E row \in QueueNamed(key.ns, key.queue) : row.id = id

(* Of a step, that it ends no answer.                                      *)
Growing == \A id \in Nat, key \in Key : Answered(id, key) => Answered(id, key)'

(* The operations that take a step.                                        *)
OpsAt(step) ==
    CASE step \in {"lookup", "read", "store", "use"} ->
           {"send", "sendBatch", "receive", "purge"}
      [] step = "find" -> {"sendBatch", "deleteQueue"}
      [] step = "invalidate" -> {"createQueue", "deleteQueue"}
      [] step = "namespace" ->
           {"purge", "createQueue", "deleteQueue", "deleteNamespace", "setOwner"}
      [] step = "access" -> {"purge", "createQueue", "deleteQueue", "deleteNamespace"}
      [] step = "user" -> {"createNamespace", "grant", "setNamespaces", "setOwner"}
      [] step = "deleteKey" -> {"deleteUser"}
      [] step = "clear" -> {"deleteNamespace", "setNamespaces", "revoke", "promote", "demote",
                            "deleteUser"}
      [] OTHER -> {step}

Fits(c) ==
    /\ c.op \in OpsAt(c.at)
    /\ c.key \in Names(c.op)
    /\ c.at \in {"store", "use", "deleteQueue"} => Held(c.id, c.key)
    /\ c.at = "store" /\ ~ c.overtaken => Answered(c.id, c.key)

(* No two namespaces have an id in common, no two queues have, and the     *)
(* counter has passed every queue's.                                       *)
NsIdsDiffer ==
    \A m, n \in Namespace : nsId[m] # 0 /\ nsId[m] = nsId[n] => m = n
QueueIdsDiffer ==
    /\ \A row \in queues : row.id <= lastQueueId
    /\ \A row, other \in queues : row.id = other.id => row = other

Tables ==
    /\ userId \in [User -> Nat]
    /\ admins \subseteq Existing(userId)
    /\ nsId \in [Namespace -> Nat]
    /\ permissions \subseteq Permission
    /\ queues \subseteq QueueRow
    /\ lastQueueId \in Nat
    /\ NsIdsDiffer
    /\ QueueIdsDiffer

CacheFits ==
    /\ cache \in [Key -> Entry \cup {Nothing}]
    /\ \A k \in Key : cache[k] # Nothing => Held(cache[k].id, k)

CallsFit ==
    /\ call \in [Request -> Call \cup {Idle}]
    /\ \A r \in Request : call[r] # Idle => Fits(call[r])

Inv == Tables /\ CacheFits /\ CallsFit

-----------------------------------------------------------------------------

(* A request at a step is a call whose key names what the step needs.      *)
LEMMA CallAt ==
    ASSUME Inv, NEW r \in Request, NEW step, At(r, step)
    PROVE  /\ call[r] \in Call /\ Fits(call[r]) /\ call[r].at = step
           /\ call[r].key.user \in User
           /\ step \in {"lookup", "read", "store", "use", "find", "invalidate",
                        "createQueue", "deleteQueue"} => call[r].key \in Key
           /\ step \in {"namespace", "access", "createNamespace", "deleteNamespace", "revoke",
                        "grant", "setNamespaces", "setOwner"} => call[r].key.ns \in Namespace
  <1> DEFINE c == call[r]
  <1>1. c \in Call /\ Fits(c) /\ c.at = step
    BY DEF Inv, CallsFit, At
  <1> HIDE DEF c
  <1>2. c.op \in OpsAt(step) /\ c.key \in Names(c.op) /\ c.op \in Operation
    BY <1>1 DEF Fits, Call
  <1>3. c.key.user \in User
    BY <1>2 DEF Names, Key
  <1>4. step \in {"lookup", "read", "store", "use", "find", "invalidate",
                  "createQueue", "deleteQueue"} => c.key \in Key
    BY <1>2 DEF Names, OpsAt
  <1>5. step \in {"namespace", "access", "createNamespace", "deleteNamespace", "revoke",
                  "grant", "setNamespaces", "setOwner"} => c.key.ns \in Namespace
    BY <1>2 DEF Names, OpsAt, Key
  <1> QED
    BY <1>1, <1>3, <1>4, <1>5 DEF c

(* While the tables stand still, so do the judgements.                     *)
LEMMA SameTables ==
    ASSUME UNCHANGED database
    PROVE  /\ Tables <=> Tables'
           /\ \A id, key : Held(id, key) <=> Held(id, key)'
           /\ \A id, key : Answered(id, key) <=> Answered(id, key)'
           /\ \A c : Fits(c) <=> Fits(c)'
  <1>1. Tables <=> Tables'
    BY DEF database, Tables, Existing, NsIdsDiffer, QueueIdsDiffer
  <1>2. ASSUME NEW id, NEW key
        PROVE  /\ Held(id, key) <=> Held(id, key)'
               /\ Answered(id, key) <=> Answered(id, key)'
    BY DEF database, Held, Answered, NamesIts, QueueWith, QueueNamed, MayUse, Granted
  <1>3. ASSUME NEW c PROVE Fits(c) <=> Fits(c)'
    BY <1>2 DEF Fits
  <1> QED
    BY <1>1, <1>2, <1>3

(* A step of one request that changes its own progress only.               *)
LEMMA OneCall ==
    ASSUME Inv, UNCHANGED <<database, cache>>,
           NEW r \in Request, NEW next \in Call \cup {Idle},
           next # Idle => Fits(next),
           call' = [call EXCEPT ![r] = next]
    PROVE  Inv'
  <1>1. Tables'
    BY SameTables DEF Inv
  <1>2. CacheFits'
    BY SameTables DEF Inv, CacheFits
  <1>3. CallsFit'
    <2>1. call' \in [Request -> Call \cup {Idle}]
      BY DEF Inv, CallsFit
    <2>2. ASSUME NEW s \in Request, call'[s] # Idle PROVE Fits(call'[s])
      BY <2>2 DEF Inv, CallsFit
    <2>3. ASSUME NEW s \in Request, call'[s] # Idle PROVE Fits(call[s])'
      BY <2>2, <2>3, SameTables
    <2> QED
      BY <2>1, <2>3 DEF CallsFit
  <1> QED
    BY <1>1, <1>2, <1>3 DEF Inv

(* A call goes on fitting when the tables change and what it holds stays   *)
(* held, provided that an answer it may still store is given or overtaken. *)
LEMMA StillFits ==
    ASSUME NEW c \in Call, Fits(c),
           c.key \in Key /\ Held(c.id, c.key) => Held(c.id, c.key)',
           c.at \in {"store", "use", "deleteQueue"} => c.key \in Key,
           c.at = "store" /\ ~ c.overtaken /\ Answered(c.id, c.key) => Answered(c.id, c.key)'
    PROVE  Fits(c)'
  BY DEF Fits

-----------------------------------------------------------------------------
(* Steps that change no table.                                             *)

LEMMA InitInv == Init => Inv
  <1> SUFFICES ASSUME Init PROVE Inv
    OBVIOUS
  <1>1. Tables
    BY DEF Init, Tables, Existing, NsIdsDiffer, QueueIdsDiffer
  <1>2. CacheFits
    BY DEF Init, CacheFits
  <1>3. CallsFit
    BY DEF Init, CallsFit
  <1> QED
    BY <1>1, <1>2, <1>3 DEF Inv

LEMMA FinishInv ==
    ASSUME Inv, NEW r \in Request, Finish(r), UNCHANGED <<database, cache>>
    PROVE  Inv'
  BY OneCall DEF Finish

LEMMA FailsInv ==
    ASSUME Inv, NEW r \in Request, Fails(r)
    PROVE  Inv' /\ Growing
  BY FinishInv, SameTables DEF Fails, Growing

LEMMA StartInv ==
    ASSUME Inv, NEW r \in Request, NEW op \in Operation, NEW key \in Names(op),
           Start(r, op, key)
    PROVE  Inv'
  <1> DEFINE next == [op |-> op, at |-> FirstStep(op), key |-> key, id |-> 0,
                      nsId |-> 0, userId |-> 0, overtaken |-> FALSE]
  <1>1. op \in OpsAt(FirstStep(op))
    BY DEF OpsAt, FirstStep
  <1>2. FirstStep(op) \notin {"store", "use", "deleteQueue"}
    BY DEF FirstStep
  <1>3. next \in Call
    <2>1. FirstStep(op) \in Step
      BY DEF FirstStep, Step
    <2>2. key \in Named
      BY DEF Named
    <2> QED
      BY <2>1, <2>2 DEF Call
  <1>4. Fits(next)
    BY <1>1, <1>2 DEF Fits
  <1>5. call' = [call EXCEPT ![r] = next] /\ UNCHANGED <<database, cache>>
    BY DEF Start
  <1> QED
    BY <1>3, <1>4, <1>5, OneCall

(* What the cache remembers for a call's key is held for it.               *)
LEMMA LookupInv ==
    ASSUME Inv, NEW r \in Request, Lookup(r)
    PROVE  Inv'
  <1> DEFINE c == call[r]
             step == OnceResolved(c.op)
             next == IF Hits(c.key) THEN [c EXCEPT !.at = step, !.id = cache[c.key].id]
                                    ELSE [c EXCEPT !.at = "read"]
  <1>1. c \in Call /\ Fits(c) /\ c.at = "lookup" /\ c.key \in Key
    BY CallAt DEF Lookup
  <1>2. c.op \in {"send", "sendBatch", "receive", "purge"}
    BY <1>1 DEF Fits, OpsAt
  <1>3. call' = [call EXCEPT ![r] = next] /\ UNCHANGED <<database, cache>>
    BY DEF Lookup
  <1>4. Hits(c.key) => cache[c.key].id \in Nat /\ Held(cache[c.key].id, c.key)
    BY <1>1 DEF Inv, CacheFits, Hits, Entry
  <1>5. c.op \in OpsAt(step) /\ step \in {"use", "find"} /\ c.op \in OpsAt("read")
    BY <1>2 DEF OnceResolved, OpsAt
  <1> HIDE DEF c, step
  <1>6. next \in Call /\ next.op = c.op /\ next.key = c.key
    BY <1>1, <1>4, <1>5 DEF Call, Step
  <1>7. /\ Hits(c.key) => next.at = step /\ next.id = cache[c.key].id
        /\ ~ Hits(c.key) => next.at = "read"
    BY <1>1 DEF Call
  <1>8. Fits(next)
    <2> HIDE DEF next
    <2> QED
      BY <1>1, <1>4, <1>5, <1>6, <1>7 DEF Fits
  <1> HIDE DEF next
  <1> QED
    BY <1>3, <1>6, <1>8, OneCall

(* A queue found by name has an id that no other queue has.                *)
LEMMA FoundIsHeld ==
    ASSUME Tables, NEW key \in Key, NEW row \in QueueNamed(key.ns, key.queue)
    PROVE  row.id \in Nat /\ Held(row.id, key)
  <1>1. row \in queues /\ row.id \in Nat /\ row.id <= lastQueueId
    BY DEF QueueNamed, Tables, QueueRow, QueueIdsDiffer
  <1>2. QueueWith(row.id) \subseteq {row}
    BY <1>1 DEF QueueWith, Tables, QueueIdsDiffer
  <1> QED
    BY <1>1, <1>2 DEF Held, NamesIts

LEMMA ReadInv ==
    ASSUME Inv, NEW r \in Request, Read(r)
    PROVE  Inv'
  <1> DEFINE c == call[r]
             found == QueueNamed(c.key.ns, c.key.queue)
  <1>1. c \in Call /\ Fits(c) /\ c.at = "read" /\ c.key \in Key
    BY CallAt DEF Read
  <1>2. UNCHANGED <<database, cache>>
    BY DEF Read
  <1>3. CASE Finish(r)
    BY <1>2, <1>3, FinishInv
  <1>4. CASE /\ MayUse(c.key.user, c.key.ns)
             /\ \E row \in found : call' = [call EXCEPT ![r] = [c EXCEPT !.at = "store", !.id = row.id]]
    <2>1. PICK row \in found : call' = [call EXCEPT ![r] = [c EXCEPT !.at = "store", !.id = row.id]]
      BY <1>4
    <2>2. row.id \in Nat /\ Held(row.id, c.key) /\ Answered(row.id, c.key)
      BY <1>1, <1>4, FoundIsHeld DEF Inv, Answered
    <2> DEFINE next == [c EXCEPT !.at = "store", !.id = row.id]
    <2> HIDE DEF c
    <2>3. /\ next \in Call /\ next.op = c.op /\ next.key = c.key
          /\ next.at = "store" /\ next.id = row.id
      BY <1>1, <2>2 DEF Call, Step
    <2> HIDE DEF next
    <2>4. Fits(next)
      BY <1>1, <2>2, <2>3 DEF Fits, OpsAt
    <2>5. call' = [call EXCEPT ![r] = next]
      BY <2>1 DEF next
    <2> QED
      BY <1>2, <2>3, <2>4, <2>5, OneCall
  <1> QED
    BY <1>3, <1>4 DEF Read

LEMMA FindQueueInv ==
    ASSUME Inv, NEW r \in Request, FindQueue(r)
    PROVE  Inv'
  <1> DEFINE c == call[r]
             found == QueueNamed(c.key.ns, c.key.queue)
             step == IF c.op = "sendBatch" THEN "use" ELSE "deleteQueue"
  <1>1. c \in Call /\ Fits(c) /\ c.at = "find" /\ c.key \in Key
    BY CallAt DEF FindQueue
  <1>2. UNCHANGED <<database, cache>>
    BY DEF FindQueue
  <1>3. CASE Finish(r)
    BY <1>2, <1>3, FinishInv
  <1>4. CASE \E row \in found : call' = [call EXCEPT ![r] = [c EXCEPT !.at = step, !.id = row.id]]
    <2>1. PICK row \in found : call' = [call EXCEPT ![r] = [c EXCEPT !.at = step, !.id = row.id]]
      BY <1>4
    <2>2. row.id \in Nat /\ Held(row.id, c.key)
      BY <1>1, FoundIsHeld DEF Inv
    <2>3. c.op \in OpsAt(step) /\ step \in {"use", "deleteQueue"}
      BY <1>1 DEF Fits, OpsAt
    <2> DEFINE next == [c EXCEPT !.at = step, !.id = row.id]
    <2> HIDE DEF c, step
    <2>4. /\ next \in Call /\ next.op = c.op /\ next.key = c.key
          /\ next.at = step /\ next.id = row.id
      BY <1>1, <2>2, <2>3 DEF Call, Step
    <2> HIDE DEF next
    <2>5. Fits(next)
      BY <1>1, <2>2, <2>3, <2>4 DEF Fits
    <2>6. call' = [call EXCEPT ![r] = next]
      BY <2>1 DEF next
    <2> QED
      BY <1>2, <2>4, <2>5, <2>6, OneCall
  <1> QED
    BY <1>3, <1>4 DEF FindQueue

(* Steps that go on to one where nothing is held yet.                      *)
LEMMA GoesOn ==
    ASSUME Inv, UNCHANGED <<database, cache>>, NEW r \in Request, call[r] # Idle,
           NEW next \in Call, next.op = call[r].op, next.key = call[r].key,
           next.at \notin {"store", "use", "deleteQueue"}, next.op \in OpsAt(next.at),
           call' = [call EXCEPT ![r] = next]
    PROVE  Inv'
  <1>1. Fits(call[r])
    BY DEF Inv, CallsFit
  <1>2. Fits(next)
    BY <1>1 DEF Fits
  <1> QED
    BY <1>2, OneCall

LEMMA FindNamespaceInv ==
    ASSUME Inv, NEW r \in Request, FindNamespace(r)
    PROVE  Inv'
  <1> DEFINE c == call[r]
             ns == nsId[c.key.ns]
             step == IF c.op = "setOwner" THEN "user" ELSE "access"
             next == [c EXCEPT !.at = step, !.nsId = ns]
  <1>1. c \in Call /\ Fits(c) /\ c.at = "namespace" /\ c.key.ns \in Namespace /\ c # Idle
    BY CallAt DEF FindNamespace, At
  <1>2. UNCHANGED <<database, cache>>
    BY DEF FindNamespace
  <1>3. CASE Finish(r)
    BY <1>2, <1>3, FinishInv
  <1>4. CASE call' = [call EXCEPT ![r] = next]
    <2>1. c.op \in OpsAt(step) /\ step \in {"user", "access"}
      BY <1>1 DEF Fits, OpsAt
    <2>2. ns \in Nat
      BY <1>1 DEF Inv, Tables
    <2> HIDE DEF step, ns
    <2>3. next \in Call /\ next.op = c.op /\ next.key = c.key /\ next.at = step
      <3> HIDE DEF c
      <3> QED
        BY <1>1, <2>1, <2>2 DEF Call, Step
    <2> HIDE DEF next
    <2> QED
      BY <1>1, <1>2, <1>4, <2>1, <2>3, GoesOn
  <1> QED
    BY <1>3, <1>4 DEF FindNamespace

LEMMA CheckAccessInv ==
    ASSUME Inv, NEW r \in Request, CheckAccess(r)
    PROVE  Inv'
  <1> DEFINE c == call[r]
             user == userId[c.key.user]
             step == OnceAllowed(c.op)
             next == [c EXCEPT !.at = step, !.userId = user]
  <1>1. c \in Call /\ Fits(c) /\ c.at = "access" /\ c.key.user \in User /\ c # Idle
    BY CallAt DEF CheckAccess, At
  <1>2. UNCHANGED <<database, cache>>
    BY DEF CheckAccess
  <1>3. CASE Finish(r)
    BY <1>2, <1>3, FinishInv
  <1>4. CASE call' = [call EXCEPT ![r] = next]
    <2>1. c.op \in {"purge", "createQueue", "deleteQueue", "deleteNamespace"}
      BY <1>1 DEF Fits, OpsAt
    <2>2. c.op \in OpsAt(step) /\ step \in {"lookup", "find", "createQueue", "deleteNamespace"}
      BY <2>1 DEF OnceAllowed, OpsAt
    <2>3. user \in Nat
      BY <1>1 DEF Inv, Tables
    <2> HIDE DEF step, user
    <2>4. next \in Call /\ next.op = c.op /\ next.key = c.key /\ next.at = step
      <3> HIDE DEF c
      <3> QED
        BY <1>1, <2>2, <2>3 DEF Call, Step
    <2> HIDE DEF next
    <2> QED
      BY <1>1, <1>2, <1>4, <2>2, <2>4, GoesOn
  <1> QED
    BY <1>3, <1>4 DEF CheckAccess

LEMMA FindUserInv ==
    ASSUME Inv, NEW r \in Request, FindUser(r)
    PROVE  Inv'
  <1> DEFINE c == call[r]
             user == userId[c.key.user]
             next == [c EXCEPT !.at = c.op, !.userId = user]
  <1>1. c \in Call /\ Fits(c) /\ c.at = "user" /\ c.key.user \in User /\ c # Idle
    BY CallAt DEF FindUser, At
  <1>2. UNCHANGED <<database, cache>>
    BY DEF FindUser
  <1>3. CASE Finish(r)
    BY <1>2, <1>3, FinishInv
  <1>4. CASE call' = [call EXCEPT ![r] = next]
    <2>1. c.op \in {"createNamespace", "grant", "setNamespaces", "setOwner"}
      BY <1>1 DEF Fits, OpsAt
    <2>2. c.op \in OpsAt(c.op)
      BY <2>1 DEF OpsAt
    <2>3. user \in Nat
      BY <1>1 DEF Inv, Tables
    <2> HIDE DEF user
    <2>4. next \in Call /\ next.op = c.op /\ next.key = c.key /\ next.at = c.op
      <3> HIDE DEF c
      <3> QED
        BY <1>1, <2>1, <2>3 DEF Call, Step
    <2> HIDE DEF next
    <2> QED
      BY <1>1, <1>2, <1>4, <2>1, <2>2, <2>4, GoesOn
  <1> QED
    BY <1>3, <1>4 DEF FindUser

LEMMA DeleteKeyInv ==
    ASSUME Inv, NEW r \in Request, DeleteKey(r)
    PROVE  Inv'
  <1> DEFINE c == call[r]
             next == [c EXCEPT !.at = "clear"]
  <1>1. c \in Call /\ Fits(c) /\ c.at = "deleteKey" /\ c # Idle
    BY CallAt DEF DeleteKey, At
  <1>2. UNCHANGED <<database, cache>>
    BY DEF DeleteKey
  <1>3. CASE Finish(r)
    BY <1>2, <1>3, FinishInv
  <1>4. CASE Goto(r, "clear")
    <2>1. c.op \in OpsAt("clear")
      BY <1>1 DEF Fits, OpsAt
    <2>2. next \in Call /\ next.op = c.op /\ next.key = c.key /\ next.at = "clear"
      <3> HIDE DEF c
      <3> QED
        BY <1>1 DEF Call, Step
    <2>3. call' = [call EXCEPT ![r] = next]
      BY <1>4 DEF Goto
    <2> HIDE DEF next
    <2> QED
      BY <1>1, <1>2, <2>1, <2>2, <2>3, GoesOn
  <1> QED
    BY <1>3, <1>4 DEF DeleteKey

-----------------------------------------------------------------------------
(* Steps that change the cache.                                            *)

(* The cache forgets, or renews an answer, at most; no request gains one.  *)
LEMMA Forgets ==
    ASSUME Inv, UNCHANGED database,
           call' \in [Request -> Call \cup {Idle}],
           \A s \in Request : call'[s] \in {call[s], Idle},
           cache' \in [Key -> Entry \cup {Nothing}],
           \A k \in Key : cache'[k] # Nothing => cache[k] # Nothing /\ cache'[k].id = cache[k].id
    PROVE  Inv'
  <1>1. Tables'
    BY SameTables DEF Inv
  <1>2. CacheFits'
    BY SameTables DEF Inv, CacheFits
  <1>3. CallsFit'
    BY SameTables DEF Inv, CallsFit
  <1> QED
    BY <1>1, <1>2, <1>3 DEF Inv

LEMMA TickInv == Inv /\ Tick => Inv'
  <1> SUFFICES ASSUME Inv, Tick PROVE Inv'
    OBVIOUS
  <1>1. UNCHANGED <<database, call>>
    BY DEF Tick
  <1>2. ASSUME NEW k \in Key
        PROVE  /\ cache'[k] \in Entry \cup {Nothing}
               /\ cache'[k] # Nothing => cache[k] # Nothing /\ cache'[k].id = cache[k].id
    <2>1. CASE Hits(k)
      <3>1. cache[k] \in Entry /\ cache[k].age < TTL /\ cache[k] # Nothing
        BY <2>1 DEF Hits, Inv, CacheFits
      <3>2. cache'[k] = [cache[k] EXCEPT !.age = cache[k].age + 1]
        BY <2>1 DEF Tick
      <3>3. cache[k].age + 1 \in 0 .. TTL
        BY <3>1 DEF Entry
      <3> QED
        BY <3>1, <3>2, <3>3 DEF Entry
    <2>2. CASE ~ Hits(k)
      BY <2>2 DEF Tick, Inv, CacheFits
    <2> QED
      BY <2>1, <2>2
  <1>3. cache' \in [Key -> Entry \cup {Nothing}]
    BY <1>2 DEF Tick
  <1> QED
    BY <1>1, <1>2, <1>3, Forgets DEF Inv, CallsFit

LEMMA StoreInv ==
    ASSUME Inv, NEW r \in Request, Store(r)
    PROVE  Inv'
  <1> DEFINE c == call[r]
             entry == [id |-> c.id, age |-> 0, overtaken |-> c.overtaken]
             step == OnceResolved(c.op)
             next == [c EXCEPT !.at = step]
  <1>1. c \in Call /\ Fits(c) /\ c.at = "store" /\ c.key \in Key
    BY CallAt DEF Store
  <1>2. /\ UNCHANGED database /\ cache' = [cache EXCEPT ![c.key] = entry]
        /\ call' = [call EXCEPT ![r] = next]
    BY DEF Store, Goto
  <1>3. Held(c.id, c.key) /\ c.op \in {"send", "sendBatch", "receive", "purge"}
    BY <1>1 DEF Fits, OpsAt
  <1>4. c.op \in OpsAt(step) /\ step \in {"use", "find"}
    BY <1>3 DEF OnceResolved, OpsAt
  <1> HIDE DEF step
  <1>5. next \in Call /\ Fits(next)
    <2>1. /\ next \in Call /\ next.op = c.op /\ next.key = c.key /\ next.at = step
          /\ next.id = c.id
      <3> HIDE DEF c
      <3> QED
        BY <1>1, <1>4 DEF Call, Step
    <2> HIDE DEF next
    <2> QED
      BY <1>1, <1>3, <1>4, <2>1 DEF Fits
  <1>6. entry \in Entry
    BY <1>1 DEF Call, Entry
  <1> HIDE DEF next
  <1>7. Tables'
    BY <1>2, SameTables DEF Inv
  <1>8. CallsFit'
    BY <1>2, <1>5, SameTables DEF Inv, CallsFit
  <1>9. CacheFits'
    <2>1. cache' \in [Key -> Entry \cup {Nothing}]
      BY <1>2, <1>6 DEF Inv, CacheFits
    <2>2. ASSUME NEW k \in Key, cache'[k] # Nothing PROVE Held(cache'[k].id, k)
      BY <1>2, <1>3, <2>2 DEF Inv, CacheFits
    <2>3. ASSUME NEW k \in Key, cache'[k] # Nothing PROVE Held(cache[k].id, k)'
      BY <1>2, <2>2, <2>3, SameTables
    <2> QED
      BY <2>1, <2>3 DEF CacheFits
  <1> QED
    BY <1>7, <1>8, <1>9 DEF Inv

(* Of the steps that forget: all of them only forget.                      *)
LEMMA ForgetInv ==
    ASSUME Inv, UNCHANGED database,
           call' \in [Request -> Call \cup {Idle}],
           \A s \in Request : call'[s] \in {call[s], Idle},
           cache' \in [Key -> Entry \cup {Nothing}],
           \A k \in Key : cache'[k] \in {cache[k], Nothing}
    PROVE  Inv'
  <1>1. ASSUME NEW k \in Key, cache'[k] # Nothing
        PROVE  cache[k] # Nothing /\ cache'[k].id = cache[k].id
    <2>1. cache'[k] = cache[k]
      BY <1>1
    <2> QED
      BY <1>1, <2>1
  <1> QED
    BY <1>1, Forgets

LEMMA UseInv ==
    ASSUME Inv, NEW r \in Request, Use(r)
    PROVE  Inv'
  <1>1. /\ cache' \in [Key -> Entry \cup {Nothing}]
        /\ \A k \in Key : cache'[k] \in {cache[k], Nothing}
    BY DEF Use, Forget, Inv, CacheFits
  <1>2. /\ UNCHANGED database /\ call' \in [Request -> Call \cup {Idle}]
        /\ \A s \in Request : call'[s] \in {call[s], Idle}
    BY DEF Use, Finish, Inv, CallsFit
  <1> QED
    BY <1>1, <1>2, ForgetInv

LEMMA InvalidateInv ==
    ASSUME Inv, NEW r \in Request, Invalidate(r)
    PROVE  Inv'
  <1>1. /\ cache' \in [Key -> Entry \cup {Nothing}]
        /\ \A k \in Key : cache'[k] \in {cache[k], Nothing}
    BY DEF Invalidate, Forget, Inv, CacheFits
  <1>2. /\ UNCHANGED database /\ call' \in [Request -> Call \cup {Idle}]
        /\ \A s \in Request : call'[s] \in {call[s], Idle}
    BY DEF Invalidate, Finish, Inv, CallsFit
  <1> QED
    BY <1>1, <1>2, ForgetInv

LEMMA ClearInv ==
    ASSUME Inv, NEW r \in Request, Clear(r)
    PROVE  Inv'
  <1>1. /\ cache' \in [Key -> Entry \cup {Nothing}]
        /\ \A k \in Key : cache'[k] \in {cache[k], Nothing}
    BY DEF Clear
  <1>2. /\ UNCHANGED database /\ call' \in [Request -> Call \cup {Idle}]
        /\ \A s \in Request : call'[s] \in {call[s], Idle}
    BY DEF Clear, Finish, Inv, CallsFit
  <1> QED
    BY <1>1, <1>2, ForgetInv

LEMMA RestartInv == Inv /\ Restart => Inv'
  <1> SUFFICES ASSUME Inv, Restart PROVE Inv'
    OBVIOUS
  <1>1. /\ cache' \in [Key -> Entry \cup {Nothing}]
        /\ \A k \in Key : cache'[k] \in {cache[k], Nothing}
    BY DEF Restart
  <1>2. /\ UNCHANGED database /\ call' \in [Request -> Call \cup {Idle}]
        /\ \A s \in Request : call'[s] \in {call[s], Idle}
    BY DEF Restart
  <1> QED
    BY <1>1, <1>2, ForgetInv

-----------------------------------------------------------------------------
(* Steps that change the tables.                                           *)

(* Access changes leave what is held as it is.                             *)
LEMMA HeldThrough ==
    ASSUME UNCHANGED <<nsId, lastQueueId>>, queues' \subseteq queues
    PROVE  \A id \in Nat, key \in Key : Held(id, key) => Held(id, key)'
  BY DEF Held, NamesIts, QueueWith, QueueNamed

(* A growing step keeps what the cache and the calls in flight rely on.     *)
LEMMA Grows ==
    ASSUME Inv, Tables', UNCHANGED cache,
           call' \in [Request -> Call \cup {Idle}],
           \A s \in Request : call'[s] \in {call[s], Idle} \/ Fits(call[s])',
           \A id \in Nat, key \in Key : Held(id, key) => Held(id, key)',
           Growing
    PROVE  Inv'
  <1>1. CacheFits'
    BY DEF Inv, CacheFits, Entry
  <1>2. ASSUME NEW s \in Request, call'[s] # Idle PROVE Fits(call[s])'
    <2>1. CASE Fits(call[s])'
      BY <2>1
    <2>2. CASE call'[s] = call[s]
      <3>1. PICK c : c = call[s]
        OBVIOUS
      <3>2. c \in Call /\ Fits(c)
        BY <1>2, <2>2, <3>1 DEF Inv, CallsFit
      <3>3. c.at \in {"store", "use", "deleteQueue"} => c.key \in Key
        BY <1>2, <2>2, <3>1, CallAt DEF At
      <3>4. c.id \in Nat
        BY <3>2 DEF Call
      <3>5. Fits(c)'
        BY <3>2, <3>3, <3>4, StillFits DEF Growing
      <3> QED
        BY <2>2, <3>1, <3>5
    <2> QED
      BY <1>2, <2>1, <2>2
  <1>3. CallsFit'
    BY <1>2 DEF CallsFit
  <1> QED
    BY <1>1, <1>3 DEF Inv

(* A commit: the answers in hand are overtaken.                            *)
LEMMA CommitInv ==
    ASSUME Inv, Tables', UNCHANGED cache, NEW r \in Request, call[r] # Idle,
           NEW step \in {"clear", "deleteKey", "invalidate"}, call[r].op \in OpsAt(step),
           Commit(r, step),
           \A id \in Nat, key \in Key : Held(id, key) => Held(id, key)'
    PROVE  Inv'
  <1>1. CacheFits'
    BY DEF Inv, CacheFits, Entry
  <1>2. ASSUME NEW s \in Request
        PROVE  /\ call'[s] \in Call \cup {Idle}
               /\ call'[s] # Idle => Fits(call[s])'
    <2>0. PICK c : c = call[s]
      OBVIOUS
    <2>1. CASE s = r
      <3> DEFINE next == [c EXCEPT !.at = step]
      <3>1. c \in Call /\ Fits(c) /\ call'[s] = next /\ c.op \in OpsAt(step)
        BY <2>0, <2>1 DEF Inv, CallsFit, Commit
      <3>2. next \in Call /\ next.op = c.op /\ next.key = c.key /\ next.at = step
        BY <3>1 DEF Call, Step
      <3> HIDE DEF next
      <3>3. Fits(next)'
        BY <3>1, <3>2 DEF Fits
      <3> QED
        BY <3>1, <3>2, <3>3
    <2>2. CASE s # r /\ At(s, "store")
      <3> DEFINE next == [c EXCEPT !.overtaken = TRUE]
      <3>1. c \in Call /\ Fits(c) /\ call'[s] = next /\ c.at = "store" /\ c.key \in Key
        BY <2>0, <2>2, CallAt DEF Commit
      <3>2. /\ next \in Call /\ next.op = c.op /\ next.key = c.key /\ next.at = "store"
            /\ next.id = c.id /\ c.id \in Nat
        BY <3>1 DEF Call
      <3>3. next.overtaken
        BY <3>1 DEF Call
      <3> HIDE DEF next
      <3>4. Held(c.id, c.key)'
        BY <3>1, <3>2 DEF Fits
      <3>5. Fits(next)'
        BY <3>1, <3>2, <3>3, <3>4 DEF Fits
      <3> QED
        BY <3>1, <3>2, <3>5
    <2>3. CASE s # r /\ ~ At(s, "store")
      <3>1. call'[s] = c
        BY <2>0, <2>3 DEF Commit
      <3>2. CASE c = Idle
        BY <3>1, <3>2
      <3>3. CASE c # Idle
        <4>1. c \in Call /\ Fits(c) /\ c.at # "store"
          BY <2>0, <2>3, <3>3 DEF Inv, CallsFit, At
        <4>2. c.at \in {"store", "use", "deleteQueue"} => c.key \in Key
          BY <2>0, <3>3, CallAt DEF At
        <4>3. c.id \in Nat
          BY <4>1 DEF Call
        <4>4. Fits(c)'
          BY <4>1, <4>2, <4>3, StillFits
        <4> QED
          BY <3>1, <4>1, <4>4
      <3> QED
        BY <3>2, <3>3
    <2> QED
      BY <2>1, <2>2, <2>3
  <1>3. call' \in [Request -> Call \cup {Idle}]
    BY <1>2 DEF Commit
  <1>4. CallsFit'
    BY <1>2, <1>3 DEF CallsFit
  <1> QED
    BY <1>1, <1>4 DEF Inv

(* A change of accounts and permissions that takes nobody's access away    *)
(* ends no answer.                                                         *)
LEMMA AccessGrows ==
    ASSUME Tables, UNCHANGED <<nsId, queues>>, admins \subseteq admins',
           \A u \in User : userId[u] # 0 => userId'[u] = userId[u],
           \A u, n \in Nat : Granted(u, n) # {} => Granted(u, n)' # {}
    PROVE  Growing
  <1> SUFFICES ASSUME NEW id \in Nat, NEW key \in Key, Answered(id, key)
               PROVE  Answered(id, key)'
    BY DEF Growing
  <1>1. key.user \in User /\ key.ns \in Namespace
    BY DEF Key
  <1>2. MayUse(key.user, key.ns)'
    <2>1. /\ userId[key.user] # 0 /\ nsId[key.ns] # 0
          /\ userId[key.user] \in Nat /\ nsId[key.ns] \in Nat
          /\ key.user \in admins \/ Granted(userId[key.user], nsId[key.ns]) # {}
      BY <1>1 DEF Answered, MayUse, Tables
    <2>2. userId'[key.user] = userId[key.user] /\ nsId' = nsId
      BY <1>1, <2>1
    <2>3. CASE key.user \in admins
      BY <2>1, <2>2, <2>3 DEF MayUse
    <2>4. CASE Granted(userId[key.user], nsId[key.ns]) # {}
      <3>1. PICK u \in Nat, n \in Nat : u = userId[key.user] /\ n = nsId[key.ns]
        BY <2>1
      <3>2. Granted(u, n)' # {}
        BY <2>4, <3>1
      <3> QED
        BY <2>1, <2>2, <3>1, <3>2 DEF MayUse, Granted
    <2> QED
      BY <2>1, <2>3, <2>4
  <1>3. \E row \in QueueNamed(key.ns, key.queue)' : row.id = id
    BY DEF Answered, QueueNamed
  <1> QED
    BY <1>2, <1>3 DEF Answered

LEMMA CreateQueueInv ==
    ASSUME Inv, NEW r \in Request, CreateQueue(r)
    PROVE  Inv' /\ Growing
  <1>1. PICK c : c = call[r]
    OBVIOUS
  <1>2. c \in Call /\ Fits(c) /\ c.at = "createQueue" /\ c.key \in Key /\ call[r] # Idle
    BY <1>1, CallAt DEF CreateQueue, At
  <1>3. CASE Fails(r)
    BY <1>3, FailsInv
  <1> DEFINE new == [id |-> NewQueueId, ns |-> c.nsId, name |-> c.key.queue]
  <1>4. CASE /\ queues' = queues \cup {new}
             /\ lastQueueId' = lastQueueId + 1
             /\ Goto(r, "invalidate")
             /\ UNCHANGED <<accounts, nsId, permissions, cache>>
    <2>1. new \in QueueRow /\ new.id = lastQueueId + 1 /\ lastQueueId \in Nat
      BY <1>2 DEF Inv, Tables, Call, Key, QueueRow, NewQueueId
    <2> HIDE DEF new
    <2>2. \A row \in queues : row.id \in Nat /\ row.id <= lastQueueId
      BY DEF Inv, Tables, QueueRow, QueueIdsDiffer
    <2>3. QueueIdsDiffer'
      BY <1>4, <2>1, <2>2 DEF Inv, Tables, QueueIdsDiffer
    <2>4. Tables'
      BY <1>4, <2>1, <2>3 DEF Inv, Tables, accounts, Existing, NsIdsDiffer
    <2>5. \A id \in Nat, key \in Key : Held(id, key) => Held(id, key)'
      BY <1>4, <2>1, <2>2 DEF Held, NamesIts, QueueWith, QueueNamed
    <2>6. Growing
      BY <1>4 DEF accounts, Answered, MayUse, Granted, QueueNamed, Growing
    <2> DEFINE next == [c EXCEPT !.at = "invalidate"]
    <2>7. /\ next \in Call /\ next.op = c.op /\ next.key = c.key
          /\ next.at = "invalidate"
      BY <1>2 DEF Call, Step
    <2>8. call' = [call EXCEPT ![r] = next]
      BY <1>1, <1>4 DEF Goto
    <2> HIDE DEF next
    <2>9. Fits(next)'
      BY <1>2, <2>7 DEF Fits, OpsAt
    <2>10. call' \in [Request -> Call \cup {Idle}]
      BY <2>7, <2>8 DEF Inv, CallsFit
    <2>11. \A s \in Request : call'[s] \in {call[s], Idle} \/ Fits(call[s])'
      BY <2>8, <2>9 DEF Inv, CallsFit
    <2> QED
      BY <1>4, <2>4, <2>5, <2>6, <2>10, <2>11, Grows
  <1> QED
    BY <1>1, <1>3, <1>4 DEF CreateQueue

(* A new row has an id that no row has.                                    *)
LEMMA NewRowIdIsNew ==
    ASSUME NEW S, NEW ids \in [S -> Nat], NEW id \in NewRowIds(ids)
    PROVE  /\ id \in Nat \ {0}
           /\ \A x \in S : ids[x] < id
  BY DEF NewRowIds

(* A finished call, and the others left alone.                             *)
LEMMA Finished ==
    ASSUME Inv, NEW r \in Request, Finish(r)
    PROVE  /\ call' \in [Request -> Call \cup {Idle}]
           /\ \A s \in Request : call'[s] \in {call[s], Idle}
  BY DEF Inv, CallsFit, Finish

LEMMA CreateNamespaceTables ==
    ASSUME Inv, UNCHANGED <<accounts, queues, lastQueueId>>, permissions' \subseteq Permission,
           permissions \subseteq permissions',
           NEW ns \in Namespace, nsId[ns] = 0, NEW id \in NewRowIds(nsId),
           nsId' = [nsId EXCEPT ![ns] = id]
    PROVE  /\ Tables'
           /\ \A i \in Nat, key \in Key : Held(i, key) => Held(i, key)'
           /\ Growing
  <1>1. /\ id \in Nat \ {0} /\ \A n \in Namespace : nsId[n] < id
        /\ nsId \in [Namespace -> Nat]
    BY NewRowIdIsNew DEF Inv, Tables
  <1>2. NsIdsDiffer'
    BY <1>1 DEF Inv, Tables, NsIdsDiffer
  <1>3. Tables'
    BY <1>1, <1>2 DEF Inv, Tables, accounts, Existing, QueueIdsDiffer
  <1>4. \A n \in Namespace : nsId[n] # 0 => nsId'[n] = nsId[n]
    BY <1>1
  <1>5. \A n \in Namespace, name \in QueueName : QueueNamed(n, name) \subseteq QueueNamed(n, name)'
    BY <1>4 DEF QueueNamed
  <1>6. ASSUME NEW i \in Nat, NEW key \in Key, Held(i, key) PROVE Held(i, key)'
    <2>1. key.ns \in Namespace /\ key.queue \in QueueName
      BY DEF Key
    <2> QED
      BY <1>5, <1>6, <2>1 DEF Held, NamesIts, QueueWith
  <1>7. ASSUME NEW i \in Nat, NEW key \in Key, Answered(i, key) PROVE Answered(i, key)'
    <2>1. key.ns \in Namespace /\ key.queue \in QueueName
      BY DEF Key
    <2>2. MayUse(key.user, key.ns)'
      BY <1>4, <1>7, <2>1 DEF Answered, MayUse, Granted, accounts
    <2> QED
      BY <1>5, <1>7, <2>1, <2>2 DEF Answered
  <1> QED
    BY <1>3, <1>6, <1>7 DEF Growing

LEMMA CreateNamespaceInv ==
    ASSUME Inv, NEW r \in Request, CreateNamespace(r)
    PROVE  Inv' /\ Growing
  <1>1. PICK c : c = call[r]
    OBVIOUS
  <1>2. c \in Call /\ c.key.ns \in Namespace
    BY <1>1, CallAt DEF CreateNamespace
  <1>3. CASE Fails(r)
    BY <1>3, FailsInv
  <1>4. CASE /\ nsId[c.key.ns] = 0
             /\ \E id \in NewRowIds(nsId) :
                  /\ nsId' = [nsId EXCEPT ![c.key.ns] = id]
                  /\ permissions' = permissions
                                      \cup {[user |-> c.userId, ns |-> id, owner |-> TRUE]}
             /\ Finish(r)
             /\ UNCHANGED <<accounts, queues, lastQueueId, cache>>
    <2>1. PICK id \in NewRowIds(nsId) :
                  /\ nsId' = [nsId EXCEPT ![c.key.ns] = id]
                  /\ permissions' = permissions
                                      \cup {[user |-> c.userId, ns |-> id, owner |-> TRUE]}
      BY <1>4
    <2>2. id \in Nat
      BY NewRowIdIsNew DEF Inv, Tables
    <2>3. permissions' \subseteq Permission /\ permissions \subseteq permissions'
      <3>1. [user |-> c.userId, ns |-> id, owner |-> TRUE] \in Permission
        BY <1>2, <2>2 DEF Permission, Call
      <3> QED
        BY <2>1, <3>1 DEF Inv, Tables
    <2>4. /\ Tables'
          /\ \A i \in Nat, key \in Key : Held(i, key) => Held(i, key)'
          /\ Growing
      BY <1>2, <1>4, <2>1, <2>3, CreateNamespaceTables
    <2> QED
      BY <1>4, <2>4, Finished, Grows
  <1> QED
    BY <1>1, <1>3, <1>4 DEF CreateNamespace

(* A change of permissions alone.                                          *)
LEMMA PermissionsOnly ==
    ASSUME Inv, UNCHANGED <<accounts, nsId, queues, lastQueueId>>,
           permissions' \subseteq Permission
    PROVE  /\ Tables'
           /\ \A id \in Nat, key \in Key : Held(id, key) => Held(id, key)'
  <1>1. Tables'
    BY DEF Inv, Tables, accounts, Existing, NsIdsDiffer, QueueIdsDiffer
  <1> QED
    BY <1>1, HeldThrough

LEMMA PermissionsGrow ==
    ASSUME Inv, UNCHANGED <<accounts, nsId, queues, lastQueueId, cache>>,
           permissions' \subseteq Permission,
           \A p \in permissions : \E q \in permissions' : q.user = p.user /\ q.ns = p.ns,
           NEW r \in Request, Finish(r)
    PROVE  Inv' /\ Growing
  <1>1. \A u, n \in Nat : Granted(u, n) # {} => Granted(u, n)' # {}
    BY DEF Granted
  <1>2. Growing
    BY <1>1, AccessGrows DEF Inv, accounts
  <1> QED
    BY <1>2, PermissionsOnly, Finished, Grows

LEMMA GrantToGrows ==
    ASSUME NEW granted \in SUBSET Permission, NEW user \in Nat, NEW ns \in Nat
    PROVE  /\ GrantTo(granted, user, ns) \subseteq Permission
           /\ granted \subseteq GrantTo(granted, user, ns)
  <1>1. [user |-> user, ns |-> ns, owner |-> FALSE] \in Permission
    BY DEF Permission
  <1> QED
    BY <1>1 DEF GrantTo

LEMMA GrantInv ==
    ASSUME Inv, NEW r \in Request, Grant(r)
    PROVE  Inv' /\ Growing
  <1>1. PICK c : c = call[r]
    OBVIOUS
  <1>2. c.userId \in Nat /\ nsId[c.key.ns] \in Nat /\ permissions \in SUBSET Permission
    BY <1>1, CallAt DEF Grant, Call, Inv, Tables
  <1>3. CASE Fails(r)
    BY <1>3, FailsInv
  <1>4. CASE /\ permissions' = GrantTo(permissions, c.userId, nsId[c.key.ns])
             /\ Finish(r)
             /\ UNCHANGED <<accounts, nsId, queues, lastQueueId, cache>>
    <2>1. permissions' \subseteq Permission /\ permissions \subseteq permissions'
      BY <1>2, <1>4, GrantToGrows
    <2> QED
      BY <1>4, <2>1, PermissionsGrow
  <1> QED
    BY <1>1, <1>3, <1>4 DEF Grant

LEMMA SetOwnerInv ==
    ASSUME Inv, NEW r \in Request, SetOwner(r)
    PROVE  Inv' /\ Growing
  <1>1. PICK c : c = call[r]
    OBVIOUS
  <1>2. c.userId \in Nat /\ c.nsId \in Nat /\ permissions \subseteq Permission
    BY <1>1, CallAt DEF SetOwner, Call, Inv, Tables
  <1> DEFINE row(owner) == [user |-> c.userId, ns |-> c.nsId, owner |-> owner]
  <1>3. /\ row(TRUE) \in Permission /\ row(FALSE) \in Permission
        /\ row(TRUE).user = c.userId /\ row(TRUE).ns = c.nsId
        /\ row(FALSE).user = c.userId /\ row(FALSE).ns = c.nsId
    BY <1>2 DEF Permission
  <1>4. CASE Fails(r)
    BY <1>4, FailsInv
  <1>5. CASE /\ permissions' = (permissions \ {row(FALSE)}) \cup {row(TRUE)}
             /\ Finish(r)
             /\ UNCHANGED <<accounts, nsId, queues, lastQueueId, cache>>
    <2> HIDE DEF row
    <2>1. permissions' \subseteq Permission
      BY <1>2, <1>3, <1>5
    <2>2. \A p \in permissions : \E q \in permissions' : q.user = p.user /\ q.ns = p.ns
      BY <1>3, <1>5
    <2> QED
      BY <1>5, <2>1, <2>2, PermissionsGrow
  <1>6. CASE /\ permissions' = {IF p = row(TRUE) THEN row(FALSE) ELSE p : p \in permissions}
             /\ Finish(r)
             /\ UNCHANGED <<accounts, nsId, queues, lastQueueId, cache>>
    <2> HIDE DEF row
    <2>1. permissions' \subseteq Permission
      BY <1>2, <1>3, <1>6
    <2>2. \A p \in permissions : \E q \in permissions' : q.user = p.user /\ q.ns = p.ns
      BY <1>3, <1>6
    <2> QED
      BY <1>6, <2>1, <2>2, PermissionsGrow
  <1> QED
    BY <1>1, <1>4, <1>5, <1>6 DEF SetOwner

LEMMA CreateUserInv ==
    ASSUME Inv, NEW user \in User, NEW isAdmin \in BOOLEAN, NEW grants \in SUBSET Namespace,
           CreateUser(user, isAdmin, grants)
    PROVE  Inv' /\ Growing
  <1>1. PICK id \in NewRowIds(userId) :
          /\ userId' = [userId EXCEPT ![user] = id]
          /\ permissions' = permissions
                              \cup {[user |-> id, ns |-> nsId[n], owner |-> FALSE] : n \in grants}
    BY DEF CreateUser
  <1>2. /\ userId[user] = 0
        /\ admins' = IF isAdmin THEN admins \cup {user} ELSE admins
        /\ UNCHANGED <<nsId, queues, lastQueueId, cache, call>>
    BY DEF CreateUser
  <1>3. id \in Nat \ {0}
    BY NewRowIdIsNew DEF Inv, Tables
  <1>4. permissions' \subseteq Permission /\ permissions \subseteq permissions'
    <2>1. \A n \in grants : nsId[n] \in Nat
      BY DEF Inv, Tables
    <2>2. \A n \in grants : [user |-> id, ns |-> nsId[n], owner |-> FALSE] \in Permission
      BY <1>3, <2>1 DEF Permission
    <2> QED
      BY <1>1, <2>2 DEF Inv, Tables
  <1>5. userId' \in [User -> Nat] /\ admins' \subseteq Existing(userId)'
    BY <1>1, <1>2, <1>3 DEF Inv, Tables, Existing
  <1>6. Tables'
    BY <1>2, <1>4, <1>5 DEF Inv, Tables, NsIdsDiffer, QueueIdsDiffer
  <1>7. \A i \in Nat, key \in Key : Held(i, key) => Held(i, key)'
    BY <1>2, HeldThrough
  <1>8. \A u, n \in Nat : Granted(u, n) # {} => Granted(u, n)' # {}
    BY <1>4 DEF Granted
  <1>9. Growing
    <2>1. \A u \in User : userId[u] # 0 => userId'[u] = userId[u]
      BY <1>1, <1>2 DEF Inv, Tables
    <2>2. admins \subseteq admins'
      BY <1>2
    <2> QED
      BY <1>2, <1>8, <2>1, <2>2, AccessGrows DEF Inv
  <1> QED
    BY <1>2, <1>6, <1>7, <1>9, Grows DEF Inv, CallsFit

LEMMA DeleteQueueInv ==
    ASSUME Inv, NEW r \in Request, DeleteQueue(r)
    PROVE  Inv'
  <1>1. /\ queues' \subseteq queues /\ Commit(r, "invalidate")
        /\ UNCHANGED <<accounts, nsId, permissions, lastQueueId, cache>>
    BY DEF DeleteQueue
  <1>2. Tables'
    BY <1>1 DEF Inv, Tables, accounts, Existing, NsIdsDiffer, QueueIdsDiffer
  <1>3. \A id \in Nat, key \in Key : Held(id, key) => Held(id, key)'
    BY <1>1, HeldThrough
  <1>4. call[r] # Idle /\ call[r].op \in OpsAt("invalidate")
    BY CallAt DEF DeleteQueue, At, Fits, OpsAt
  <1> QED
    BY <1>1, <1>2, <1>3, <1>4, CommitInv

(* The queues of a namespace go with its name.                             *)
LEMMA DeleteNamespaceInv ==
    ASSUME Inv, NEW r \in Request, DeleteNamespace(r)
    PROVE  Inv'
  <1>1. PICK ns \in Namespace : ns = call[r].key.ns
    BY CallAt DEF DeleteNamespace
  <1>2. /\ nsId' = [nsId EXCEPT ![ns] = 0]
        /\ queues' = {row \in queues : row.ns # nsId[ns]}
        /\ permissions' = {p \in permissions : p.ns # nsId[ns]}
        /\ Commit(r, "clear")
        /\ UNCHANGED <<accounts, lastQueueId, cache>>
    BY <1>1 DEF DeleteNamespace
  <1>3. Tables'
    <2>1. nsId' \in [Namespace -> Nat] /\ NsIdsDiffer'
      BY <1>2 DEF Inv, Tables, NsIdsDiffer
    <2> QED
      BY <1>2, <2>1 DEF Inv, Tables, accounts, Existing, QueueIdsDiffer
  <1>4. ASSUME NEW id \in Nat, NEW key \in Key, Held(id, key) PROVE Held(id, key)'
    <2>1. ASSUME NEW row \in queues', row.id = id PROVE row \in QueueNamed(key.ns, key.queue)'
      <3>1. row \in queues /\ row.ns # nsId[ns]
        BY <1>2, <2>1
      <3>2. row \in QueueNamed(key.ns, key.queue)
        BY <1>4, <2>1, <3>1 DEF Held, NamesIts, QueueWith
      <3>3. nsId'[key.ns] = nsId[key.ns]
        BY <1>2, <3>1, <3>2 DEF QueueNamed, Key, Inv, Tables
      <3> QED
        BY <2>1, <3>2, <3>3 DEF QueueNamed
    <2> QED
      BY <1>2, <1>4, <2>1 DEF Held, NamesIts, QueueWith
  <1>5. call[r] # Idle /\ call[r].op \in OpsAt("clear")
    BY CallAt DEF DeleteNamespace, At, Fits, OpsAt
  <1> QED
    BY <1>2, <1>3, <1>4, <1>5, CommitInv

LEMMA RevokeInv ==
    ASSUME Inv, NEW r \in Request, Revoke(r)
    PROVE  Inv'
  <1>1. /\ permissions' \subseteq permissions /\ Commit(r, "clear")
        /\ UNCHANGED <<accounts, nsId, queues, lastQueueId, cache>>
    BY DEF Revoke
  <1>2. permissions' \subseteq Permission
    BY <1>1 DEF Inv, Tables
  <1>3. call[r] # Idle /\ call[r].op \in OpsAt("clear")
    BY CallAt DEF Revoke, At, Fits, OpsAt
  <1> QED
    BY <1>1, <1>2, <1>3, PermissionsOnly, CommitInv

LEMMA SetNamespacesInv ==
    ASSUME Inv, NEW r \in Request, SetNamespaces(r)
    PROVE  Inv'
  <1>1. PICK c : c = call[r]
    OBVIOUS
  <1>2. /\ c.userId \in Nat /\ nsId[c.key.ns] \in Nat /\ permissions \subseteq Permission
        /\ c # Idle /\ c.op \in OpsAt("clear")
    BY <1>1, CallAt DEF SetNamespaces, At, Call, Inv, Tables, Fits, OpsAt
  <1>3. CASE Fails(r)
    BY <1>3, FailsInv
  <1>4. CASE \E keep \in SUBSET {nsId[c.key.ns]} :
               LET kept == {p \in permissions : p.user # c.userId \/ p.ns \in keep}
               IN  /\ permissions' = IF keep = {} THEN kept
                                     ELSE GrantTo(kept, c.userId, nsId[c.key.ns])
                   /\ Commit(r, "clear")
                   /\ UNCHANGED <<accounts, nsId, queues, lastQueueId, cache>>
    <2>1. PICK keep \in SUBSET {nsId[c.key.ns]} :
             /\ permissions' =
                  IF keep = {} THEN {p \in permissions : p.user # c.userId \/ p.ns \in keep}
                  ELSE GrantTo({p \in permissions : p.user # c.userId \/ p.ns \in keep},
                               c.userId, nsId[c.key.ns])
             /\ Commit(r, "clear")
             /\ UNCHANGED <<accounts, nsId, queues, lastQueueId, cache>>
      BY <1>4
    <2> DEFINE kept == {p \in permissions : p.user # c.userId \/ p.ns \in keep}
    <2>2. kept \in SUBSET Permission
      BY <1>2
    <2>3. permissions' = kept \/ permissions' = GrantTo(kept, c.userId, nsId[c.key.ns])
      BY <2>1
    <2>4. permissions' \subseteq Permission
      <3> HIDE DEF kept
      <3> QED
        BY <1>2, <2>2, <2>3, GrantToGrows
    <2> QED
      BY <1>1, <1>2, <2>1, <2>4, PermissionsOnly, CommitInv
  <1> QED
    BY <1>1, <1>3, <1>4 DEF SetNamespaces

LEMMA PromoteInv ==
    ASSUME Inv, NEW r \in Request, Promote(r)
    PROVE  Inv'
  <1>1. PICK user \in User : user = call[r].key.user
    BY CallAt DEF Promote
  <1>2. CASE Fails(r)
    BY <1>2, FailsInv
  <1>3. CASE /\ userId[user] # 0 /\ admins' = admins \cup {user} /\ Commit(r, "clear")
             /\ UNCHANGED <<userId, nsId, permissions, queues, lastQueueId, cache>>
    <2>1. Tables'
      BY <1>3 DEF Inv, Tables, Existing, NsIdsDiffer, QueueIdsDiffer
    <2>2. \A id \in Nat, key \in Key : Held(id, key) => Held(id, key)'
      BY <1>3, HeldThrough
    <2>3. call[r] # Idle /\ call[r].op \in OpsAt("clear")
      BY CallAt DEF Promote, At, Fits, OpsAt
    <2> QED
      BY <1>3, <2>1, <2>2, <2>3, CommitInv
  <1> QED
    BY <1>1, <1>2, <1>3 DEF Promote

LEMMA DemoteInv ==
    ASSUME Inv, NEW r \in Request, Demote(r)
    PROVE  Inv'
  <1>1. CASE Fails(r)
    BY <1>1, FailsInv
  <1>2. CASE /\ admins' \subseteq admins /\ Commit(r, "clear")
             /\ UNCHANGED <<userId, nsId, permissions, queues, lastQueueId, cache>>
    <2>1. Tables'
      BY <1>2 DEF Inv, Tables, Existing, NsIdsDiffer, QueueIdsDiffer
    <2>2. \A id \in Nat, key \in Key : Held(id, key) => Held(id, key)'
      BY <1>2, HeldThrough
    <2>3. call[r] # Idle /\ call[r].op \in OpsAt("clear")
      BY CallAt DEF Demote, At, Fits, OpsAt
    <2> QED
      BY <1>2, <2>1, <2>2, <2>3, CommitInv
  <1> QED
    BY <1>1, <1>2 DEF Demote

LEMMA DeleteUserInv ==
    ASSUME Inv, NEW r \in Request, DeleteUser(r)
    PROVE  Inv'
  <1>1. PICK user \in User : user = call[r].key.user
    BY CallAt DEF DeleteUser
  <1>2. CASE Fails(r)
    BY <1>2, FailsInv
  <1>3. CASE /\ userId' = [userId EXCEPT ![user] = 0]
             /\ admins' = admins \ {user}
             /\ permissions' = {p \in permissions : p.user # userId[user]}
             /\ Commit(r, "deleteKey")
             /\ UNCHANGED <<nsId, queues, lastQueueId, cache>>
    <2>1. userId' \in [User -> Nat] /\ admins' \subseteq Existing(userId)'
      BY <1>3 DEF Inv, Tables, Existing
    <2>2. Tables'
      BY <1>3, <2>1 DEF Inv, Tables, NsIdsDiffer, QueueIdsDiffer
    <2>3. \A id \in Nat, key \in Key : Held(id, key) => Held(id, key)'
      BY <1>3, HeldThrough
    <2>4. call[r] # Idle /\ call[r].op \in OpsAt("deleteKey")
      BY CallAt DEF DeleteUser, At, Fits, OpsAt
    <2> QED
      BY <1>3, <2>2, <2>3, <2>4, CommitInv
  <1> QED
    BY <1>1, <1>2, <1>3 DEF DeleteUser

-----------------------------------------------------------------------------

LEMMA NextInv == Inv /\ [Next]_vars => Inv'
  <1> SUFFICES ASSUME Inv, [Next]_vars PROVE Inv'
    OBVIOUS
  <1>1. CASE Tick
    BY <1>1, TickInv
  <1>2. CASE Restart
    BY <1>2, RestartInv
  <1>3. ASSUME NEW r \in Request, NEW op \in Operation, NEW key \in Names(op), Start(r, op, key)
        PROVE  Inv'
    BY <1>3, StartInv
  <1>4. ASSUME NEW r \in Request, Resolve(r) PROVE Inv'
    BY <1>4, LookupInv, ReadInv, StoreInv, UseInv DEF Resolve
  <1>5. ASSUME NEW r \in Request, Prepare(r) PROVE Inv'
    BY <1>5, FindNamespaceInv, CheckAccessInv, FindUserInv, FindQueueInv DEF Prepare
  <1>6. ASSUME NEW r \in Request, ChangeQueues(r) PROVE Inv'
    BY <1>6, CreateQueueInv, DeleteQueueInv, CreateNamespaceInv, DeleteNamespaceInv
       DEF ChangeQueues
  <1>7. ASSUME NEW r \in Request, ChangeAccess(r) PROVE Inv'
    BY <1>7, RevokeInv, GrantInv, SetNamespacesInv, SetOwnerInv, PromoteInv, DemoteInv,
       DeleteUserInv, DeleteKeyInv DEF ChangeAccess
  <1>8. ASSUME NEW r \in Request, Invalidate(r) \/ Clear(r) PROVE Inv'
    BY <1>8, InvalidateInv, ClearInv
  <1>9. ASSUME NEW user \in User, NEW isAdmin \in BOOLEAN, NEW grants \in SUBSET Namespace,
               CreateUser(user, isAdmin, grants)
        PROVE  Inv'
    BY <1>9, CreateUserInv
  <1>10. CASE UNCHANGED vars
    <2>1. UNCHANGED <<database, cache, call>>
      BY <1>10 DEF vars
    <2> QED
      BY <2>1, Forgets DEF Inv, CacheFits, CallsFit
  <1> QED
    BY <1>1, <1>2, <1>3, <1>4, <1>5, <1>6, <1>7, <1>8, <1>9, <1>10 DEF Next

THEOREM InvHolds == Spec => []Inv
  BY InitInv, NextInv, PTL DEF Spec

(* The tables, the cache and the calls have their types.                   *)
THEOREM TypesHold == Spec => []TypeOK
  <1>1. Inv => TypeOK
    BY DEF Inv, Tables, CacheFits, CallsFit, TypeOK
  <1> QED
    BY <1>1, InvHolds, PTL

(* A request that holds a queue id, or finds one remembered, has the id of *)
(* the queue it names: no id is ever that of another queue.                *)
THEOREM QueuesAreThoseNamed == Spec => []ActsOnTheQueueNamed
  <1>1. Inv => ActsOnTheQueueNamed
    BY DEF Inv, CacheFits, CallsFit, Fits, Held, At, ActsOnTheQueueNamed
  <1> QED
    BY <1>1, InvHolds, PTL

-----------------------------------------------------------------------------
(* Wrong answers are forgotten.  What cannot go wrong by growing goes      *)
(* wrong by a commit, which leaves its request about to forget.            *)

ForgetsNothing(r) == \A k \in Key : ~ Forgetting(r, k)

(* An answer served unchanged stays right, overtaken or on its way out.    *)
LEMMA StaysForgotten ==
    ASSUME Inv, WrongAnswersForgotten, NEW k \in Key,
           Hits(k)', Hits(k), cache'[k].id = cache[k].id,
           cache'[k].overtaken = cache[k].overtaken,
           Answered(cache[k].id, k) => Answered(cache[k].id, k)',
           \A s \in Request : Forgetting(s, k) => Forgetting(s, k)'
    PROVE  Backed(k)' \/ cache'[k].overtaken \/ \E s \in Request : Forgetting(s, k)'
  <1>1. PICK id : id = cache[k].id
    OBVIOUS
  <1>2. CASE Answered(id, k)
    <2>1. Answered(id, k)'
      BY <1>1, <1>2
    <2> QED
      BY <1>1, <2>1 DEF Answered, Backed
  <1>3. CASE ~ Answered(id, k)
    <2>1. ~ Backed(k)
      BY <1>1, <1>3 DEF Answered, Backed
    <2> QED
      BY <2>1 DEF WrongAnswersForgotten
  <1> QED
    BY <1>2, <1>3

LEMMA Forgetters ==
    ASSUME NEW r \in Request, ForgetsNothing(r),
           \A s \in Request \ {r} : call'[s] = call[s]
    PROVE  \A s \in Request, k \in Key : Forgetting(s, k) => Forgetting(s, k)'
  BY DEF ForgetsNothing, Forgetting, At

(* A step of a call that has nothing to forget, and ends no answer.        *)
LEMMA QuietStep ==
    ASSUME Inv, WrongAnswersForgotten, Growing, UNCHANGED cache,
           NEW r \in Request, ForgetsNothing(r),
           \A s \in Request \ {r} : call'[s] = call[s]
    PROVE  WrongAnswersForgotten'
  <1> SUFFICES ASSUME NEW k \in Key, Hits(k)'
               PROVE  Backed(k)' \/ cache'[k].overtaken \/ \E s \in Request : Forgetting(s, k)'
    BY DEF WrongAnswersForgotten
  <1>1. Hits(k)
    BY DEF Hits
  <1>2. PICK id \in Nat : id = cache[k].id
    BY <1>1 DEF Hits, Inv, CacheFits, Entry
  <1>3. Answered(id, k) => Answered(id, k)'
    BY DEF Growing
  <1>4. \A s \in Request : Forgetting(s, k) => Forgetting(s, k)'
    BY Forgetters
  <1> QED
    BY <1>1, <1>2, <1>3, <1>4, StaysForgotten

(* A call at a step that forgets nothing.                                  *)
LEMMA HarmlessStep ==
    ASSUME NEW r \in Request,
           call[r] = Idle \/ call[r].at \notin {"clear", "deleteKey", "invalidate"}
    PROVE  ForgetsNothing(r)
  BY DEF ForgetsNothing, Forgetting, At

LEMMA Others ==
    ASSUME Inv, NEW r \in Request, NEW next, call' = [call EXCEPT ![r] = next]
    PROVE  \A s \in Request \ {r} : call'[s] = call[s]
  BY DEF Inv, CallsFit

(* Steps that change no table and not the cache.                           *)
LEMMA ReadOnlyForgets ==
    ASSUME Inv, WrongAnswersForgotten, UNCHANGED <<database, cache>>,
           NEW r \in Request, ForgetsNothing(r),
           \A s \in Request \ {r} : call'[s] = call[s]
    PROVE  WrongAnswersForgotten'
  BY SameTables, QuietStep DEF Growing

LEMMA PrepareForgets ==
    ASSUME Inv, WrongAnswersForgotten, NEW r \in Request, Lookup(r) \/ Read(r) \/ Prepare(r)
    PROVE  WrongAnswersForgotten'
  <1>1. UNCHANGED <<database, cache>>
    BY DEF Lookup, Read, Prepare, FindNamespace, CheckAccess, FindUser, FindQueue
  <1>2. call[r].at \in {"lookup", "read", "namespace", "access", "user", "find"}
    BY DEF Lookup, Read, Prepare, FindNamespace, CheckAccess, FindUser, FindQueue, At
  <1>3. \E next : call' = [call EXCEPT ![r] = next]
    <2>1. CASE Lookup(r)
      BY <2>1 DEF Lookup
    <2>2. CASE Read(r)
      BY <2>2 DEF Read, Finish
    <2>3. CASE Prepare(r)
      BY <2>3 DEF Prepare, FindNamespace, CheckAccess, FindUser, FindQueue, Finish
    <2> QED
      BY <2>1, <2>2, <2>3
  <1>4. ForgetsNothing(r)
    BY <1>2, HarmlessStep
  <1>5. \A s \in Request \ {r} : call'[s] = call[s]
    BY <1>3, Others
  <1> QED
    BY <1>1, <1>4, <1>5, ReadOnlyForgets

LEMMA StartForgets ==
    ASSUME Inv, WrongAnswersForgotten, NEW r \in Request, NEW op, NEW key, Start(r, op, key)
    PROVE  WrongAnswersForgotten'
  <1>1. ForgetsNothing(r)
    BY HarmlessStep DEF Start
  <1>2. \A s \in Request \ {r} : call'[s] = call[s]
    BY Others DEF Start
  <1> QED
    BY <1>1, <1>2, ReadOnlyForgets DEF Start

LEMMA FailsForgets ==
    ASSUME Inv, WrongAnswersForgotten, NEW r \in Request, Fails(r),
           call[r].at \notin {"clear", "deleteKey", "invalidate"}
    PROVE  WrongAnswersForgotten'
  <1>1. \A s \in Request \ {r} : call'[s] = call[s]
    BY Others DEF Fails, Finish
  <1> QED
    BY <1>1, HarmlessStep, ReadOnlyForgets DEF Fails

(* Steps that only grow what the database would answer.                    *)
LEMMA GrowthForgets ==
    ASSUME Inv, WrongAnswersForgotten, NEW r \in Request,
           CreateQueue(r) \/ CreateNamespace(r) \/ Grant(r) \/ SetOwner(r)
    PROVE  WrongAnswersForgotten'
  <1>1. Growing
    BY CreateQueueInv, CreateNamespaceInv, GrantInv, SetOwnerInv
  <1>2. UNCHANGED cache
    BY DEF CreateQueue, CreateNamespace, Grant, SetOwner, Fails
  <1>3. call[r].at \notin {"clear", "deleteKey", "invalidate"}
    BY DEF CreateQueue, CreateNamespace, Grant, SetOwner, At
  <1>4. \E next : call' = [call EXCEPT ![r] = next]
    <2>1. CASE CreateQueue(r)
      BY <2>1 DEF CreateQueue, Fails, Finish, Goto
    <2>2. CASE CreateNamespace(r)
      BY <2>2 DEF CreateNamespace, Fails, Finish
    <2>3. CASE Grant(r)
      BY <2>3 DEF Grant, Fails, Finish
    <2>4. CASE SetOwner(r)
      BY <2>4 DEF SetOwner, Fails, Finish
    <2> QED
      BY <2>1, <2>2, <2>3, <2>4
  <1>5. \A s \in Request \ {r} : call'[s] = call[s]
    BY <1>4, Others
  <1> QED
    BY <1>1, <1>2, <1>3, <1>5, HarmlessStep, QuietStep

LEMMA CreateUserForgets ==
    ASSUME Inv, WrongAnswersForgotten,
           NEW user \in User, NEW isAdmin \in BOOLEAN, NEW grants \in SUBSET Namespace,
           CreateUser(user, isAdmin, grants)
    PROVE  WrongAnswersForgotten'
  <1>1. Growing
    BY CreateUserInv
  <1>2. UNCHANGED <<cache, call>>
    BY DEF CreateUser
  <1> SUFFICES ASSUME NEW k \in Key, Hits(k)'
               PROVE  Backed(k)' \/ cache'[k].overtaken \/ \E s \in Request : Forgetting(s, k)'
    BY DEF WrongAnswersForgotten
  <1>3. Hits(k)
    BY <1>2 DEF Hits
  <1>4. PICK id \in Nat : id = cache[k].id
    BY <1>3 DEF Hits, Inv, CacheFits, Entry
  <1>5. Answered(id, k) => Answered(id, k)'
    BY <1>1 DEF Growing
  <1>6. \A s \in Request : Forgetting(s, k) => Forgetting(s, k)'
    BY <1>2 DEF Forgetting, At
  <1> QED
    BY <1>2, <1>3, <1>4, <1>5, <1>6, StaysForgotten

(* Steps that change the cache and no table.                               *)
LEMMA CacheForgets ==
    ASSUME Inv, WrongAnswersForgotten, UNCHANGED database, NEW k \in Key,
           Hits(k)', Hits(k), cache'[k].id = cache[k].id,
           cache'[k].overtaken = cache[k].overtaken,
           \A s \in Request : Forgetting(s, k) => Forgetting(s, k)'
    PROVE  Backed(k)' \/ cache'[k].overtaken \/ \E s \in Request : Forgetting(s, k)'
  <1>1. PICK id : id = cache[k].id
    OBVIOUS
  <1>2. Answered(id, k) => Answered(id, k)'
    BY SameTables
  <1> QED
    BY <1>1, <1>2, StaysForgotten

LEMMA TickForgets ==
    ASSUME Inv, WrongAnswersForgotten, Tick
    PROVE  WrongAnswersForgotten'
  <1> SUFFICES ASSUME NEW k \in Key, Hits(k)'
               PROVE  Backed(k)' \/ cache'[k].overtaken \/ \E s \in Request : Forgetting(s, k)'
    BY DEF WrongAnswersForgotten
  <1>1. UNCHANGED <<database, call>>
    BY DEF Tick
  <1>2. Hits(k)
    BY DEF Tick, Hits
  <1>3. cache[k] \in Entry /\ cache'[k] = [cache[k] EXCEPT !.age = cache[k].age + 1]
    BY <1>2 DEF Tick, Hits, Inv, CacheFits
  <1>4. cache'[k].id = cache[k].id
    BY <1>3 DEF Entry
  <1>5. cache'[k].overtaken = cache[k].overtaken
    BY <1>3 DEF Entry
  <1>6. \A s \in Request : Forgetting(s, k) => Forgetting(s, k)'
    BY <1>1 DEF Forgetting, At
  <1> QED
    BY <1>1, <1>2, <1>4, <1>5, <1>6, CacheForgets

(* An answer is stored while it is still right, or marked as overtaken.    *)
LEMMA StoreForgets ==
    ASSUME Inv, WrongAnswersForgotten, NEW r \in Request, Store(r)
    PROVE  WrongAnswersForgotten'
  <1> SUFFICES ASSUME NEW k \in Key, Hits(k)'
               PROVE  Backed(k)' \/ cache'[k].overtaken \/ \E s \in Request : Forgetting(s, k)'
    BY DEF WrongAnswersForgotten
  <1>1. PICK c : c = call[r]
    OBVIOUS
  <1>2. c \in Call /\ Fits(c) /\ c.at = "store" /\ c.key \in Key
    BY <1>1, CallAt DEF Store
  <1>3. /\ UNCHANGED database
        /\ cache' = [cache EXCEPT ![c.key] =
                       [id |-> c.id, age |-> 0, overtaken |-> c.overtaken]]
    BY <1>1 DEF Store
  <1>4. CASE k = c.key
    <2>1. cache'[k].id = c.id /\ cache'[k].overtaken = c.overtaken
      BY <1>2, <1>3, <1>4 DEF Inv, CacheFits
    <2>2. ~ c.overtaken => Answered(c.id, k)'
      BY <1>2, <1>3, <1>4, SameTables DEF Fits
    <2> QED
      BY <2>1, <2>2 DEF Answered, Backed
  <1>5. CASE k # c.key
    <2>1. cache'[k] = cache[k] /\ Hits(k)
      BY <1>3, <1>5 DEF Hits, Inv, CacheFits
    <2>2. \A s \in Request \ {r} : call'[s] = call[s]
      BY Others DEF Store, Goto
    <2>3. ForgetsNothing(r)
      BY <1>1, <1>2, HarmlessStep
    <2>4. \A s \in Request : Forgetting(s, k) => Forgetting(s, k)'
      BY <2>2, <2>3, Forgetters
    <2> QED
      BY <1>3, <2>1, <2>4, CacheForgets
  <1> QED
    BY <1>4, <1>5

LEMMA UseForgets ==
    ASSUME Inv, WrongAnswersForgotten, NEW r \in Request, Use(r)
    PROVE  WrongAnswersForgotten'
  <1> SUFFICES ASSUME NEW k \in Key, Hits(k)'
               PROVE  Backed(k)' \/ cache'[k].overtaken \/ \E s \in Request : Forgetting(s, k)'
    BY DEF WrongAnswersForgotten
  <1>1. cache'[k] = cache[k] /\ Hits(k)
    BY DEF Use, Forget, Hits
  <1>2. \A s \in Request \ {r} : call'[s] = call[s]
    BY Others DEF Use, Finish
  <1>3. ForgetsNothing(r)
    BY HarmlessStep DEF Use, At
  <1>4. \A s \in Request : Forgetting(s, k) => Forgetting(s, k)'
    BY <1>2, <1>3, Forgetters
  <1> QED
    BY <1>1, <1>4, CacheForgets DEF Use

LEMMA InvalidateForgets ==
    ASSUME Inv, WrongAnswersForgotten, NEW r \in Request, Invalidate(r)
    PROVE  WrongAnswersForgotten'
  <1> SUFFICES ASSUME NEW k \in Key, Hits(k)'
               PROVE  Backed(k)' \/ cache'[k].overtaken \/ \E s \in Request : Forgetting(s, k)'
    BY DEF WrongAnswersForgotten
  <1>1. /\ cache'[k] = cache[k] /\ Hits(k)
        /\ ~ (k.ns = call[r].key.ns /\ k.queue = call[r].key.queue)
    BY DEF Invalidate, Forget, Hits
  <1>2. \A s \in Request \ {r} : call'[s] = call[s]
    BY Others DEF Invalidate, Finish
  <1>3. ~ Forgetting(r, k)
    BY <1>1 DEF Invalidate, Forgetting, At
  <1>4. \A s \in Request : Forgetting(s, k) => Forgetting(s, k)'
    BY <1>2, <1>3 DEF Forgetting, At
  <1> QED
    BY <1>1, <1>4, CacheForgets DEF Invalidate

LEMMA NothingRemembered ==
    ASSUME cache' = [k \in Key |-> Nothing]
    PROVE  WrongAnswersForgotten'
  BY DEF WrongAnswersForgotten, Hits

(* A call that is about to forget everything.                              *)
LEMMA ForgetsAll ==
    ASSUME NEW r \in Request, NEW step \in {"clear", "deleteKey"}, At(r, step)'
    PROVE  WrongAnswersForgotten'
  BY DEF WrongAnswersForgotten, Forgetting

LEMMA Committed ==
    ASSUME Inv, NEW r \in Request, call[r] # Idle, NEW step \in Step, Commit(r, step)
    PROVE  At(r, step)'
  <1>1. PICK c \in Call : c = call[r]
    BY DEF Inv, CallsFit
  <1>2. call'[r] = [c EXCEPT !.at = step]
    BY <1>1 DEF Commit
  <1>3. [c EXCEPT !.at = step] \in Call /\ [c EXCEPT !.at = step].at = step
    BY DEF Call
  <1> QED
    BY <1>2, <1>3 DEF At

LEMMA CommitForgets ==
    ASSUME Inv, WrongAnswersForgotten, NEW r \in Request,
           \/ DeleteNamespace(r) \/ Revoke(r) \/ SetNamespaces(r)
           \/ Promote(r) \/ Demote(r) \/ DeleteUser(r)
    PROVE  WrongAnswersForgotten'
  <1>1. call[r] # Idle /\ call[r].at \notin {"clear", "deleteKey", "invalidate"}
    BY DEF DeleteNamespace, Revoke, SetNamespaces, Promote, Demote, DeleteUser, At
  <1>2. Fails(r) \/ Commit(r, "clear") \/ Commit(r, "deleteKey")
    BY DEF DeleteNamespace, Revoke, SetNamespaces, Promote, Demote, DeleteUser
  <1>3. "clear" \in Step /\ "deleteKey" \in Step
    BY DEF Step
  <1> QED
    BY <1>1, <1>2, <1>3, FailsForgets, Committed, ForgetsAll

LEMMA DeleteKeyForgets ==
    ASSUME Inv, "failed" \notin KmsOutcome, NEW r \in Request, DeleteKey(r)
    PROVE  WrongAnswersForgotten'
  <1>1. Goto(r, "clear")
    BY DEF DeleteKey
  <1>2. PICK c \in Call : c = call[r]
    BY CallAt DEF DeleteKey
  <1>3. call'[r] = [c EXCEPT !.at = "clear"]
    BY <1>1, <1>2 DEF Goto, Inv, CallsFit
  <1>4. [c EXCEPT !.at = "clear"] \in Call /\ [c EXCEPT !.at = "clear"].at = "clear"
    BY DEF Call, Step
  <1>5. At(r, "clear")'
    BY <1>3, <1>4 DEF At
  <1> QED
    BY <1>5, ForgetsAll

(* The answers that the deletion of a queue ends are those of its name,    *)
(* for the id deleted is held for the name; its call forgets the name.     *)
LEMMA DeleteQueueForgets ==
    ASSUME Inv, WrongAnswersForgotten, NEW r \in Request, DeleteQueue(r)
    PROVE  WrongAnswersForgotten'
  <1> SUFFICES ASSUME NEW k \in Key, Hits(k)'
               PROVE  Backed(k)' \/ cache'[k].overtaken \/ \E s \in Request : Forgetting(s, k)'
    BY DEF WrongAnswersForgotten
  <1>1. PICK c \in Call : c = call[r]
    BY CallAt DEF DeleteQueue
  <1>2. Fits(c) /\ c.at = "deleteQueue" /\ c.key \in Key /\ call[r] # Idle
    BY <1>1, CallAt DEF DeleteQueue, At
  <1>3. /\ queues' = queues \ QueueWith(c.id) /\ Commit(r, "invalidate")
        /\ UNCHANGED <<accounts, nsId, permissions, lastQueueId, cache>>
    BY <1>1 DEF DeleteQueue
  <1>4. At(r, "invalidate")' /\ call'[r].key = c.key
    <2>1. "invalidate" \in Step
      BY DEF Step
    <2>2. call'[r] = [c EXCEPT !.at = "invalidate"]
      BY <1>1, <1>3 DEF Commit
    <2>3. [c EXCEPT !.at = "invalidate"].key = c.key
      BY DEF Call
    <2> QED
      BY <1>2, <1>3, <2>1, <2>2, <2>3, Committed
  <1>5. CASE k.ns = c.key.ns /\ k.queue = c.key.queue
    <2>1. Forgetting(r, k)'
      BY <1>4, <1>5 DEF Forgetting
    <2> QED
      BY <2>1
  <1>6. CASE ~ (k.ns = c.key.ns /\ k.queue = c.key.queue)
    <2>1. Hits(k)
      BY <1>3 DEF Hits
    <2>2. Answered(cache[k].id, k) => Answered(cache[k].id, k)'
      <3>1. PICK id : id = cache[k].id
        OBVIOUS
      <3>2. ASSUME Answered(id, k) PROVE Answered(id, k)'
        <4>1. PICK row \in QueueNamed(k.ns, k.queue) : row.id = id
          BY <3>2 DEF Answered
        <4>2. row \notin QueueWith(c.id)
          <5>1. SUFFICES ASSUME row \in QueueNamed(c.key.ns, c.key.queue) PROVE FALSE
            BY <1>2 DEF Fits, Held, NamesIts
          <5>2. nsId[k.ns] = nsId[c.key.ns] /\ nsId[k.ns] # 0 /\ k.queue = c.key.queue
            BY <4>1, <5>1 DEF QueueNamed
          <5> QED
            BY <1>2, <1>6, <5>2 DEF Inv, Tables, NsIdsDiffer, Key
        <4>3. row \in QueueNamed(k.ns, k.queue)'
          BY <1>3, <4>1, <4>2 DEF QueueNamed
        <4>4. MayUse(k.user, k.ns)'
          BY <1>3, <3>2 DEF Answered, MayUse, Granted, accounts
        <4> QED
          BY <4>1, <4>3, <4>4 DEF Answered
      <3> QED
        BY <1>3, <3>1, <3>2
    <2>3. ASSUME NEW s \in Request, Forgetting(s, k) PROVE Forgetting(s, k)'
      <3>1. call[s] # Idle /\ call[s].at # "store" /\ s # r
        BY <1>1, <1>2, <2>3 DEF Forgetting, At
      <3>2. call'[s] = call[s]
        BY <1>3, <3>1 DEF Commit, At
      <3> QED
        BY <2>3, <3>2 DEF Forgetting, At
    <2> QED
      BY <1>3, <2>1, <2>2, <2>3, StaysForgotten
  <1> QED
    BY <1>5, <1>6

LEMMA NextForgets ==
    ASSUME Inv, WrongAnswersForgotten, "failed" \notin KmsOutcome, [Next]_vars
    PROVE  WrongAnswersForgotten'
  <1>1. CASE Tick
    BY <1>1, TickForgets
  <1>2. CASE Restart
    BY <1>2, NothingRemembered DEF Restart
  <1>3. ASSUME NEW r \in Request, NEW op \in Operation, NEW key \in Names(op), Start(r, op, key)
        PROVE  WrongAnswersForgotten'
    BY <1>3, StartForgets
  <1>4. ASSUME NEW r \in Request, Resolve(r) \/ Prepare(r) PROVE WrongAnswersForgotten'
    BY <1>4, PrepareForgets, StoreForgets, UseForgets DEF Resolve
  <1>5. ASSUME NEW r \in Request, ChangeQueues(r) PROVE WrongAnswersForgotten'
    BY <1>5, GrowthForgets, CommitForgets, DeleteQueueForgets DEF ChangeQueues
  <1>6. ASSUME NEW r \in Request, ChangeAccess(r) PROVE WrongAnswersForgotten'
    BY <1>6, GrowthForgets, CommitForgets, DeleteKeyForgets DEF ChangeAccess
  <1>7. ASSUME NEW r \in Request, Invalidate(r) PROVE WrongAnswersForgotten'
    BY <1>7, InvalidateForgets
  <1>8. ASSUME NEW r \in Request, Clear(r) PROVE WrongAnswersForgotten'
    BY <1>8, NothingRemembered DEF Clear
  <1>9. ASSUME NEW user \in User, NEW isAdmin \in BOOLEAN, NEW grants \in SUBSET Namespace,
               CreateUser(user, isAdmin, grants)
        PROVE  WrongAnswersForgotten'
    BY <1>9, CreateUserForgets
  <1>10. CASE UNCHANGED vars
    <2>1. UNCHANGED <<userId, admins, nsId, permissions, queues, lastQueueId, cache, call>>
      BY <1>10 DEF vars, database
    <2> QED
      BY <2>1 DEF WrongAnswersForgotten, Hits, Backed, Forgetting, At, MayUse, Granted, QueueNamed
  <1> QED
    BY <1>1, <1>2, <1>3, <1>4, <1>5, <1>6, <1>7, <1>8, <1>9, <1>10 DEF Next

(* When no KMS key fails to be deleted, a wrong answer is served only      *)
(* while the change that made it wrong is on its way to forget it, or if   *)
(* it was read before that change and stored after it.                     *)
THEOREM WrongAnswersAreForgotten ==
    "failed" \notin KmsOutcome => (Spec => []WrongAnswersForgotten)
  <1> SUFFICES ASSUME "failed" \notin KmsOutcome
               PROVE  Spec => []WrongAnswersForgotten
    OBVIOUS
  <1>1. Init => WrongAnswersForgotten
    BY DEF Init, WrongAnswersForgotten, Hits
  <1>2. Inv /\ WrongAnswersForgotten /\ [Next]_vars => WrongAnswersForgotten'
    BY NextForgets
  <1> QED
    BY <1>1, <1>2, InvHolds, PTL DEF Spec

=============================================================================
