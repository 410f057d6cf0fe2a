--------------------------- MODULE AccountsProofs ---------------------------
(***************************************************************************)
(* What calls on accounts leave behind, for every number of users, keys,   *)
(* namespaces, processes' calls in flight, crashes and KMS failures.       *)
(***************************************************************************)
EXTENDS Accounts, TLAPS

USE ConstantsAssumption, MarkersAssumption

(* A call that has a KMS key of its own in its hands.                      *)
Holds(t) == task[t] # Idle /\ task[t].op \in {"createUser", "discard", "deleteUser"}
Makes(t) == task[t] # Idle /\ task[t].op \in {"readKey", "storeKey"}

(* A KMS key is one user's, or one call's, or lost.                        *)
OneOwner ==
    /\ \A e \in Email : Stored(e) => users[e].kms \in kmsKeys \ lost
    /\ \A t \in Task : Holds(t) => task[t].kms \in kmsKeys \ lost
    /\ \A d, e \in Email : Stored(d) /\ Stored(e) /\ users[d].kms = users[e].kms => d = e
    /\ \A s, t \in Task : Holds(s) /\ Holds(t) /\ task[s].kms = task[t].kms => s = t
    /\ \A e \in Email, t \in Task : Stored(e) /\ Holds(t) => users[e].kms # task[t].kms
    /\ \A d \in kmsKeys \ lost :
          \/ \E e \in Email : Stored(e) /\ users[e].kms = d
          \/ \E t \in Task : Holds(t) /\ task[t].kms = d
    /\ kmsKeys \subseteq drawn

(* An API key, stored or being made, is right unless it was crossed.       *)
RightKeys ==
    /\ \A k \in Minted :
          /\ Stored(apiKeys[k].owner)
          /\ apiKeys[k].ns # 0
          /\ \E n \in Namespace : nsId[n] = apiKeys[k].ns
          /\ ~ apiKeys[k].crossed =>
                /\ nsId[apiKeys[k].asked] = apiKeys[k].ns
                /\ users[apiKeys[k].owner].kms = apiKeys[k].kms
    /\ \A t \in Task : Makes(t) =>
          /\ task[t].ns # 0
          /\ ~ task[t].crossed =>
                /\ nsId[task[t].asked] = task[t].ns
                /\ Stored(task[t].email)
                /\ task[t].op = "storeKey" => users[task[t].email].kms = task[t].kms

(* Something will make the server forget k, or was not going to.           *)
Awaited(k) ==
    \/ k \in slipped
    \/ \E t \in Task : Doing(t, "deleteUser") /\ task[t].via = "server" /\ k \in task[t].keys
    \/ \E t \in Task : Doing(t, "forget") /\ k \in task[t].keys

(* What is remembered, and what is about to be, is right or overtaken.     *)
RightAnswers ==
    /\ Minted \subseteq drawn
    /\ \A k \in AccessKey : cache[k] # Absent =>
          /\ k \in drawn
          /\ cache[k].overtaken \/ cache[k].answer = Resolution(k) \/ Awaited(k)
    /\ \A t \in Task : Doing(t, "lookup") =>
          /\ task[t].key \in drawn
          /\ task[t].overtaken \/ task[t].answer = Resolution(task[t].key)

Inv == TypeOK /\ SomeActiveAdmin /\ OneOwner /\ RightKeys /\ RightAnswers

-----------------------------------------------------------------------------
(* Calls.                                                                  *)

Looking == [op : {"lookup"}, via : {"server"}, key : AccessKey, answer : Answer,
            overtaken : BOOLEAN]
Creating == [op : {"createUser"}, via : Process, email : Email, role : Role, kms : KmsKey]
Discarding == [op : {"discard"}, via : Process, kms : KmsKey]
Deleting == [op : {"deleteUser"}, via : Process, kms : KmsKey, keys : SUBSET AccessKey]
ToForget == [op : {"forget"}, via : {"server"}, keys : SUBSET AccessKey]
Reading == [op : {"readKey"}, via : Process, email : Email, ns : Nat, asked : Namespace,
            crossed : BOOLEAN]
Storing == [op : {"storeKey"}, via : Process, email : Email, ns : Nat, asked : Namespace,
            kms : KmsKey, crossed : BOOLEAN]

(* What a call is doing says which fields it has.                          *)
LEMMA CallFields ==
    ASSUME NEW c \in Calls
    PROVE  /\ c.op = "lookup" => c \in Looking
           /\ c.op = "createUser" => c \in Creating
           /\ c.op = "discard" => c \in Discarding
           /\ c.op = "deleteUser" => c \in Deleting
           /\ c.op = "forget" => c \in ToForget
           /\ c.op = "readKey" => c \in Reading
           /\ c.op = "storeKey" => c \in Storing
           /\ c.op \in {"lookup", "createUser", "discard", "deleteUser", "forget",
                        "readKey", "storeKey"}
           /\ c # Idle
  BY DEF Calls, Looking, Creating, Discarding, Deleting, ToForget, Reading, Storing

(* ... and conversely.                                                     *)
LEMMA FieldsMakeCalls ==
    /\ Looking \subseteq Calls /\ Creating \subseteq Calls /\ Discarding \subseteq Calls
    /\ Deleting \subseteq Calls /\ ToForget \subseteq Calls /\ Reading \subseteq Calls
    /\ Storing \subseteq Calls
  BY DEF Calls, Looking, Creating, Discarding, Deleting, ToForget, Reading, Storing

(* What a statement that others' calls are crossed by does to them.        *)
LEMMA OvertakenCall ==
    ASSUME NEW c \in Calls \cup {Idle}, NEW keys, NEW emails, NEW namespaces
    PROVE  LET o == Overtaken(c, keys, emails, namespaces) IN
           /\ o \in Calls \cup {Idle}
           /\ c = Idle => o = Idle
           /\ c # Idle => o # Idle /\ o.op = c.op
           /\ c # Idle /\ c.op \notin {"lookup", "readKey", "storeKey"} => o = c
           /\ c # Idle /\ c.op = "lookup" =>
                 /\ o.key = c.key /\ o.answer = c.answer
                 /\ ~ o.overtaken => ~ c.overtaken /\ c.key \notin keys
           /\ c # Idle /\ c.op \in {"readKey", "storeKey"} =>
                 /\ o.email = c.email /\ o.ns = c.ns /\ o.asked = c.asked
                 /\ c.op = "storeKey" => o.kms = c.kms
                 /\ ~ o.crossed =>
                       ~ c.crossed /\ c.email \notin emails /\ c.asked \notin namespaces
  <1>1. CASE c = Idle
    BY <1>1 DEF Overtaken
  <1>2. CASE c \in Calls /\ c.op = "lookup"
    <2>1. c \in Looking /\ c # Idle
      BY <1>2, CallFields
    <2>2. CASE c.key \in keys
      <3>1. Overtaken(c, keys, emails, namespaces) = [c EXCEPT !.overtaken = TRUE]
        BY <2>1, <2>2, <1>2 DEF Overtaken
      <3>2. [c EXCEPT !.overtaken = TRUE] \in Looking
        BY <2>1 DEF Looking
      <3>. QED
        BY <3>1, <3>2, <2>1, <2>2, FieldsMakeCalls, CallFields DEF Looking
    <2>3. CASE c.key \notin keys
      <3>1. Overtaken(c, keys, emails, namespaces) = c
        BY <2>1, <2>3, <1>2 DEF Overtaken
      <3>. QED
        BY <3>1, <2>1, <2>3, <1>2 DEF Looking
    <2>. QED
      BY <2>2, <2>3
  <1>3. CASE c \in Calls /\ c.op \in {"readKey", "storeKey"}
    <2>1. c \in Reading \cup Storing /\ c # Idle
      BY <1>3, CallFields
    <2>2. CASE c.email \in emails \/ c.asked \in namespaces
      <3>1. Overtaken(c, keys, emails, namespaces) = [c EXCEPT !.crossed = TRUE]
        BY <2>1, <2>2, <1>3 DEF Overtaken
      <3>2. [c EXCEPT !.crossed = TRUE] \in Reading \cup Storing
        BY <2>1 DEF Reading, Storing
      <3>. QED
        BY <3>1, <3>2, <2>1, <2>2, <1>3, FieldsMakeCalls, CallFields DEF Reading, Storing
    <2>3. CASE ~ (c.email \in emails \/ c.asked \in namespaces)
      <3>1. Overtaken(c, keys, emails, namespaces) = c
        BY <2>1, <2>3, <1>3 DEF Overtaken
      <3>. QED
        BY <3>1, <2>1, <2>3, <1>3
    <2>. QED
      BY <2>2, <2>3
  <1>4. CASE c \in Calls /\ c.op \notin {"lookup", "readKey", "storeKey"}
    <2>1. c # Idle /\ Overtaken(c, keys, emails, namespaces) = c
      BY <1>4, CallFields DEF Overtaken
    <2>. QED
      BY <2>1, <1>4
  <1>. QED
    BY <1>1, <1>2, <1>3, <1>4

-----------------------------------------------------------------------------
(* What does not concern a part of the invariant leaves it.                *)

(* A step that leaves the users leaves an admin.                           *)
LEMMA SomeActiveAdminFrame ==
    ASSUME SomeActiveAdmin, users' = users
    PROVE  SomeActiveAdmin'
  BY DEF SomeActiveAdmin, ActiveAdmin, Stored

(* One that leaves the users', the calls' and the KMS's keys.              *)
LEMMA OneOwnerFrame ==
    ASSUME OneOwner, users' = users, kmsKeys' = kmsKeys, lost' = lost, drawn \subseteq drawn',
           \A t \in Task : /\ Holds(t)' <=> Holds(t)
                           /\ Holds(t) => task'[t].kms = task[t].kms
    PROVE  OneOwner'
  BY DEF OneOwner, Stored

(* One that leaves the rows API keys are about, and makes none.            *)
LEMMA RightKeysFrame ==
    ASSUME RightKeys, users' = users, nsId' = nsId, apiKeys' = apiKeys,
           \A t \in Task : Makes(t)' =>
               /\ Makes(t)
               /\ task'[t].ns = task[t].ns
               /\ ~ task'[t].crossed => ~ task[t].crossed
               /\ task'[t].asked = task[t].asked
               /\ task'[t].email = task[t].email
               /\ task'[t].op = "storeKey" =>
                     task[t].op = "storeKey" /\ task'[t].kms = task[t].kms
    PROVE  RightKeys'
  BY DEF RightKeys, Stored, Minted

(* One that leaves those rows, what is remembered and what is read.        *)
LEMMA RightAnswersFrame ==
    ASSUME RightAnswers, users' = users, apiKeys' = apiKeys, cache' = cache,
           drawn \subseteq drawn',
           \A k \in AccessKey : Awaited(k) => Awaited(k)',
           \A t \in Task : Doing(t, "lookup")' =>
               /\ Doing(t, "lookup")
               /\ task'[t].key = task[t].key
               /\ task'[t].answer = task[t].answer
               /\ task'[t].overtaken = task[t].overtaken,
           TypeOK
    PROVE  RightAnswers'
  <1>1. \A k : Resolution(k)' = Resolution(k)
    BY DEF Resolution, Stored
  <1>2. Minted' = Minted
    BY DEF Minted
  <1>. QED
    BY <1>1, <1>2 DEF RightAnswers

(* A step of t that leaves the others' calls alone.                        *)
OnlyTask(t) == \A s \in Task \ {t} : task'[s] = task[s]

(* What one call becomes.                                                  *)
LEMMA OneTask ==
    ASSUME TypeOK, NEW t \in Task, NEW next, task' = [task EXCEPT ![t] = next]
    PROVE  task'[t] = next /\ OnlyTask(t)
  BY DEF TypeOK, OnlyTask

(* A commit of t crosses the others' calls, ...                            *)
LEMMA CommitTasks ==
    ASSUME TypeOK, NEW t \in Task, NEW keys, NEW emails, NEW namespaces,
           NEW next \in Calls \cup {Idle}, Commit(t, keys, emails, namespaces, next),
           Open(t, "cli")
    PROVE  /\ task' \in [Task -> Calls \cup {Idle}]
           /\ task'[t] = next /\ task[t] = Idle
           /\ \A s \in Task \ {t} :
                 /\ Holds(s)' <=> Holds(s)
                 /\ Holds(s) => task'[s] = task[s]
                 /\ Makes(s)' =>
                       /\ Makes(s)
                       /\ task'[s].op = task[s].op
                       /\ task'[s].email = task[s].email
                       /\ task'[s].ns = task[s].ns
                       /\ task'[s].asked = task[s].asked
                       /\ task'[s].op = "storeKey" => task'[s].kms = task[s].kms
                       /\ ~ task'[s].crossed =>
                             /\ ~ task[s].crossed
                             /\ task[s].email \notin emails
                             /\ task[s].asked \notin namespaces
                 /\ Doing(s, "lookup")' =>
                       /\ Doing(s, "lookup")
                       /\ task'[s].key = task[s].key
                       /\ task'[s].answer = task[s].answer
                       /\ ~ task'[s].overtaken => ~ task[s].overtaken /\ task[s].key \notin keys
                 /\ Doing(s, "deleteUser") \/ Doing(s, "forget") => task'[s] = task[s]
  <1>1. \A s \in Task : task[s] \in Calls \cup {Idle}
    BY DEF TypeOK
  <1>2. task'[t] = next /\ \A s \in Task \ {t} :
            task'[s] = Overtaken(task[s], keys, emails, namespaces)
    BY DEF Commit
  <1>3. task[t] = Idle
    BY DEF Open
  <1>4. task' \in [Task -> Calls \cup {Idle}]
    BY <1>1, OvertakenCall DEF Commit
  <1>5. ASSUME NEW s \in Task \ {t}
        PROVE  /\ Holds(s)' <=> Holds(s)
               /\ Holds(s) => task'[s] = task[s]
               /\ Makes(s)' =>
                     /\ Makes(s)
                     /\ task'[s].op = task[s].op
                     /\ task'[s].email = task[s].email
                     /\ task'[s].ns = task[s].ns
                     /\ task'[s].asked = task[s].asked
                     /\ task'[s].op = "storeKey" => task'[s].kms = task[s].kms
                     /\ ~ task'[s].crossed =>
                           /\ ~ task[s].crossed
                           /\ task[s].email \notin emails
                           /\ task[s].asked \notin namespaces
               /\ Doing(s, "lookup")' =>
                     /\ Doing(s, "lookup")
                     /\ task'[s].key = task[s].key
                     /\ task'[s].answer = task[s].answer
                     /\ ~ task'[s].overtaken => ~ task[s].overtaken /\ task[s].key \notin keys
               /\ Doing(s, "deleteUser") \/ Doing(s, "forget") => task'[s] = task[s]
    <2>1. task[s] \in Calls \cup {Idle} /\ task'[s] = Overtaken(task[s], keys, emails, namespaces)
      BY <1>1, <1>2
    <2>. QED
      BY <2>1, OvertakenCall DEF Holds, Makes, Doing
  <1>. QED
    BY <1>2, <1>3, <1>4, <1>5

(* ... and sees to it that what it makes wrong is forgotten.               *)
LEMMA CommitAnswers ==
    ASSUME Inv, NEW t \in Task, NEW via \in Process, NEW keys, NEW emails, NEW namespaces,
           NEW next \in Calls \cup {Idle}, Commit(t, keys, emails, namespaces, next),
           Open(t, via), Slip(via, keys), cache' = cache, drawn' = drawn,
           Minted' \subseteq Minted,
           \A k \in AccessKey \ keys : Resolution(k)' = Resolution(k),
           next # Idle => next.op \in {"forget", "deleteUser"},
           via = "server" => next # Idle /\ next.via = "server" /\ keys \subseteq next.keys
    PROVE  RightAnswers'
  <1>. DEFINE Others == \A s \in Task \ {t} :
                 /\ Doing(s, "lookup")' =>
                       /\ Doing(s, "lookup")
                       /\ task'[s].key = task[s].key
                       /\ task'[s].answer = task[s].answer
                       /\ ~ task'[s].overtaken => ~ task[s].overtaken /\ task[s].key \notin keys
                 /\ Doing(s, "deleteUser") \/ Doing(s, "forget") => task'[s] = task[s]
  <1>1. TypeOK /\ Open(t, "cli") /\ RightAnswers
    BY DEF Inv, Open
  <1>2. task'[t] = next /\ task[t] = Idle /\ Others
    BY <1>1, CommitTasks
  <1>3. \A k \in AccessKey : Awaited(k) => Awaited(k)'
    BY <1>2 DEF Awaited, Slip, Doing
  <1>4. \A k \in AccessKey : k \in keys => Awaited(k)'
    <2>1. CASE via = "cli"
      BY <2>1 DEF Awaited, Slip
    <2>2. ASSUME via = "server", NEW k \in AccessKey, k \in keys
          PROVE  Awaited(k)'
      <3>1. next # Idle /\ next.via = "server" /\ k \in next.keys
        BY <2>2
      <3>2. task'[t] = next /\ next.op \in {"forget", "deleteUser"}
        BY <1>2, <3>1
      <3>. QED
        BY <3>1, <3>2 DEF Awaited, Doing
    <2>. QED
      BY <2>1, <2>2 DEF Process
  <1>5. ASSUME NEW k \in AccessKey, cache'[k] # Absent
        PROVE  /\ k \in drawn'
               /\ cache'[k].overtaken \/ cache'[k].answer = Resolution(k)' \/ Awaited(k)'
    BY <1>1, <1>3, <1>4, <1>5 DEF RightAnswers
  <1>6. ASSUME NEW s \in Task, Doing(s, "lookup")'
        PROVE  /\ task'[s].key \in drawn'
               /\ (task[s].overtaken \/ task[s].answer = Resolution(task[s].key))'
    <2>1. s # t
      BY <1>2, <1>6 DEF Doing
    <2>2. /\ Doing(s, "lookup") /\ task'[s].key = task[s].key
          /\ task'[s].answer = task[s].answer
          /\ ~ task'[s].overtaken => ~ task[s].overtaken /\ task[s].key \notin keys
      BY <1>2, <1>6, <2>1
    <2>3. task[s].key \in AccessKey
      BY <2>2, <1>1, CallFields DEF Doing, TypeOK, Looking
    <2>. QED
      BY <1>1, <2>2, <2>3 DEF RightAnswers
  <1>. QED
    BY <1>1, <1>5, <1>6 DEF RightAnswers

-----------------------------------------------------------------------------
(* One lemma per step.                                                     *)

(* The first start leaves one admin with a KMS key and nothing else.       *)
LEMMA InitInv == Init => Inv
  <1>. SUFFICES ASSUME Init PROVE Inv
    OBVIOUS
  <1>1. PICK d \in KmsKey :
          /\ users = [e \in Email |->
               IF e = Root THEN [role |-> "admin", active |-> TRUE, kms |-> d] ELSE Absent]
          /\ kmsKeys = {d} /\ drawn = {d} /\ lost = {}
    BY DEF Init
  <1>2. /\ nsId = [n \in Namespace |-> 0] /\ apiKeys = [k \in AccessKey |-> Absent]
        /\ serving = TRUE /\ cache = [k \in AccessKey |-> Absent]
        /\ task = [t \in Task |-> Idle] /\ slipped = {}
    BY DEF Init
  <1>3. [role |-> "admin", active |-> TRUE, kms |-> d] \in User
    BY DEF User, Role
  <1>4. \A e \in Email : Stored(e) => e = Root /\ users[e].kms = d
    BY <1>1, <1>3 DEF Stored
  <1>5. Stored(Root) /\ users[Root].kms = d
    BY <1>1, <1>3 DEF Stored
  <1>6. TypeOK
    BY <1>1, <1>2, <1>3 DEF TypeOK
  <1>7. SomeActiveAdmin
    BY <1>1, <1>5 DEF SomeActiveAdmin, ActiveAdmin
  <1>8. OneOwner
    BY <1>1, <1>2, <1>4, <1>5 DEF OneOwner, Holds
  <1>9. RightKeys
    BY <1>2 DEF RightKeys, Minted, Makes
  <1>10. RightAnswers
    BY <1>2 DEF RightAnswers, Minted, Doing
  <1>. QED
    BY <1>6, <1>7, <1>8, <1>9, <1>10 DEF Inv

(* Remembered keys age.                                                    *)
LEMMA TickStep ==
    ASSUME Inv, Tick
    PROVE  Inv'
  <1>1. UNCHANGED <<users, nsId, apiKeys, kmsKeys, serving, task, drawn, lost, slipped>>
    BY DEF Tick, database, history
  <1>2. ASSUME NEW k \in AccessKey
        PROVE  /\ cache'[k] \in Entry \cup {Absent}
               /\ cache'[k] # Absent =>
                     /\ cache[k] # Absent
                     /\ cache'[k].answer = cache[k].answer
                     /\ cache'[k].overtaken = cache[k].overtaken
    <2>1. cache[k] \in Entry \cup {Absent}
      BY DEF Inv, TypeOK
    <2>2. CASE Fresh(k)
      <3>1. cache[k] \in Entry /\ cache[k].age < TTL
        BY <2>1, <2>2 DEF Fresh
      <3>2. cache'[k] = [cache[k] EXCEPT !.age = @ + 1]
        BY <2>2 DEF Tick
      <3>3. [cache[k] EXCEPT !.age = @ + 1] \in Entry
        BY <3>1 DEF Entry
      <3>. QED
        BY <3>1, <3>2, <3>3 DEF Entry
    <2>3. CASE ~ Fresh(k)
      BY <2>1, <2>3 DEF Tick
    <2>. QED
      BY <2>2, <2>3
  <1>3. TypeOK'
    <2>1. cache' \in [AccessKey -> Entry \cup {Absent}]
      BY <1>2 DEF Tick
    <2>. QED
      BY <1>1, <2>1 DEF Inv, TypeOK
  <1>4. SomeActiveAdmin'
    BY <1>1, SomeActiveAdminFrame DEF Inv
  <1>5. OneOwner'
    BY <1>1, OneOwnerFrame DEF Inv, Holds
  <1>6. RightKeys'
    BY <1>1, RightKeysFrame DEF Inv, Makes
  <1>7. RightAnswers'
    <2>1. \A k : Resolution(k)' = Resolution(k) /\ (Awaited(k)' <=> Awaited(k))
      BY <1>1 DEF Resolution, Awaited, Stored, Doing
    <2>. QED
      BY <1>1, <1>2, <2>1 DEF Inv, RightAnswers, Minted, Doing
  <1>. QED
    BY <1>3, <1>4, <1>5, <1>6, <1>7 DEF Inv

(* What is read now is what the database answers now.                      *)
LEMMA LookupStep ==
    ASSUME Inv, NEW t \in Task, NEW k \in AccessKey, Lookup(t, k)
    PROVE  Inv'
  <1>. DEFINE next == [op |-> "lookup", via |-> "server", key |-> k,
                       answer |-> Resolution(k), overtaken |-> FALSE]
  <1>1. UNCHANGED <<users, nsId, apiKeys, kmsKeys, serving, cache, drawn, lost, slipped>>
    BY DEF Lookup, database, history
  <1>2. /\ task[t] = Idle /\ Resolution(k) # Absent
        /\ task' = [task EXCEPT ![t] = next]
    BY DEF Lookup, Open, Become
  <1>3. TypeOK
    BY DEF Inv
  <1>4. k \in Minted /\ Resolution(k) \in Answer
    <2>1. apiKeys[k] # Absent /\ Stored(apiKeys[k].owner)
      BY <1>2 DEF Resolution
    <2>2. apiKeys[k] \in ApiKey
      BY <2>1, <1>3 DEF TypeOK
    <2>3. users[apiKeys[k].owner] \in User
      BY <2>1, <2>2, <1>3 DEF TypeOK, Stored, ApiKey
    <2>4. Resolution(k) = [owner |-> apiKeys[k].owner, role |-> users[apiKeys[k].owner].role,
                           kms |-> users[apiKeys[k].owner].kms, ns |-> apiKeys[k].ns]
      BY <1>2 DEF Resolution
    <2>. QED
      BY <2>1, <2>2, <2>3, <2>4 DEF Minted, Answer, ApiKey, User
  <1>5. next \in Calls /\ next # Idle
    <2>1. next \in Looking
      BY <1>4 DEF Looking
    <2>. QED
      BY <2>1, FieldsMakeCalls, CallFields
  <1>6. task'[t] = next /\ OnlyTask(t)
    BY <1>2, <1>3, OneTask
  <1>7. TypeOK'
    BY <1>1, <1>2, <1>3, <1>5 DEF TypeOK
  <1>8. SomeActiveAdmin'
    BY <1>1, SomeActiveAdminFrame DEF Inv
  <1>9. OneOwner'
    BY <1>1, <1>2, <1>6, OneOwnerFrame DEF Inv, Holds, OnlyTask
  <1>10. RightKeys'
    BY <1>1, <1>6, RightKeysFrame DEF Inv, Makes, OnlyTask
  <1>11. RightAnswers'
    <2>1. \A j : Resolution(j)' = Resolution(j)
      BY <1>1 DEF Resolution, Stored
    <2>2. \A j : Awaited(j) => Awaited(j)'
      BY <1>1, <1>2, <1>6 DEF Awaited, Doing, OnlyTask
    <2>3. Minted' = Minted
      BY <1>1 DEF Minted
    <2>4. ASSUME NEW s \in Task, Doing(s, "lookup")'
          PROVE  /\ task'[s].key \in drawn'
                 /\ (task[s].overtaken \/ task[s].answer = Resolution(task[s].key))'
      <3>1. CASE s = t
        BY <3>1, <1>1, <1>4, <1>6, <2>1 DEF Inv, RightAnswers
      <3>2. CASE s # t
        BY <3>2, <2>4, <1>1, <1>6, <2>1 DEF Inv, RightAnswers, OnlyTask, Doing
      <3>. QED
        BY <3>1, <3>2
    <2>. QED
      BY <1>1, <2>1, <2>2, <2>3, <2>4 DEF Inv, RightAnswers
  <1>. QED
    BY <1>7, <1>8, <1>9, <1>10, <1>11 DEF Inv

(* What is remembered is what was read, with what overtook it since.       *)
LEMMA RememberStep ==
    ASSUME Inv, NEW t \in Task, Remember(t)
    PROVE  Inv'
  <1>1. UNCHANGED <<users, nsId, apiKeys, kmsKeys, serving, drawn, lost, slipped>>
    BY DEF Remember, database, history
  <1>2. Doing(t, "lookup") /\ task' = [task EXCEPT ![t] = Idle]
    BY DEF Remember, Finish
  <1>3. TypeOK
    BY DEF Inv
  <1>4. task[t] \in Looking
    BY <1>2, <1>3, CallFields DEF TypeOK, Doing
  <1>5. task'[t] = Idle /\ OnlyTask(t)
    BY <1>2, <1>3, OneTask
  <1>6. ASSUME NEW k \in AccessKey
        PROVE  \/ cache'[k] = cache[k]
               \/ /\ k = task[t].key
                  /\ cache'[k] \in Entry
                  /\ cache'[k].answer = task[t].answer
                  /\ cache'[k].overtaken = task[t].overtaken
    BY <1>3, <1>4 DEF Remember, TypeOK, Entry, Looking
  <1>7. TypeOK'
    <2>1. cache' \in [AccessKey -> Entry \cup {Absent}]
      BY <1>3, <1>4 DEF Remember, TypeOK, Entry, Looking
    <2>2. task' \in [Task -> Calls \cup {Idle}]
      BY <1>2, <1>3 DEF TypeOK
    <2>. QED
      BY <1>1, <1>3, <2>1, <2>2 DEF TypeOK
  <1>8. SomeActiveAdmin'
    BY <1>1, SomeActiveAdminFrame DEF Inv
  <1>9. OneOwner'
    BY <1>1, <1>2, <1>5, OneOwnerFrame DEF Inv, Holds, OnlyTask, Doing
  <1>10. RightKeys'
    BY <1>1, <1>5, RightKeysFrame DEF Inv, Makes, OnlyTask
  <1>11. RightAnswers'
    <2>1. \A j : Resolution(j)' = Resolution(j)
      BY <1>1 DEF Resolution, Stored
    <2>2. \A j : Awaited(j) => Awaited(j)'
      BY <1>1, <1>2, <1>5 DEF Awaited, Doing, OnlyTask
    <2>3. Minted' = Minted
      BY <1>1 DEF Minted
    <2>4. \A s \in Task : Doing(s, "lookup")' => Doing(s, "lookup") /\ task'[s] = task[s]
      BY <1>5 DEF Doing, OnlyTask
    <2>5. ASSUME NEW k \in AccessKey, cache'[k] # Absent
          PROVE  /\ k \in drawn'
                 /\ (cache[k].overtaken \/ cache[k].answer = Resolution(k) \/ Awaited(k))'
      <3>1. CASE cache'[k] = cache[k]
        BY <3>1, <2>5, <1>1, <2>1, <2>2 DEF Inv, RightAnswers
      <3>2. CASE cache'[k] # cache[k]
        BY <3>2, <1>1, <1>2, <1>6, <2>1 DEF Inv, RightAnswers
      <3>. QED
        BY <3>1, <3>2
    <2>6. ASSUME NEW s \in Task, Doing(s, "lookup")'
          PROVE  /\ task'[s].key \in drawn'
                 /\ (task[s].overtaken \/ task[s].answer = Resolution(task[s].key))'
      BY <2>6, <1>1, <2>1, <2>4 DEF Inv, RightAnswers
    <2>. QED
      BY <1>1, <2>3, <2>5, <2>6 DEF Inv, RightAnswers
  <1>. QED
    BY <1>7, <1>8, <1>9, <1>10, <1>11 DEF Inv

(* What is forgotten need not be awaited.                                  *)
LEMMA ForgetStep ==
    ASSUME Inv, NEW t \in Task, Forget(t)
    PROVE  Inv'
  <1>1. UNCHANGED <<users, nsId, apiKeys, kmsKeys, serving, drawn, lost, slipped>>
    BY DEF Forget, database, history
  <1>2. Doing(t, "forget") /\ task' = [task EXCEPT ![t] = Idle]
    BY DEF Forget, Finish
  <1>3. TypeOK
    BY DEF Inv
  <1>4. task'[t] = Idle /\ OnlyTask(t)
    BY <1>2, <1>3, OneTask
  <1>5. cache' = [k \in AccessKey |-> IF k \in task[t].keys THEN Absent ELSE cache[k]]
    BY DEF Forget
  <1>6. TypeOK'
    BY <1>1, <1>2, <1>3, <1>5 DEF TypeOK
  <1>7. SomeActiveAdmin'
    BY <1>1, SomeActiveAdminFrame DEF Inv
  <1>8. OneOwner'
    BY <1>1, <1>2, <1>4, OneOwnerFrame DEF Inv, Holds, OnlyTask, Doing
  <1>9. RightKeys'
    BY <1>1, <1>4, RightKeysFrame DEF Inv, Makes, OnlyTask
  <1>10. RightAnswers'
    <2>1. \A j : Resolution(j)' = Resolution(j)
      BY <1>1 DEF Resolution, Stored
    <2>2. \A j : Awaited(j) => Awaited(j)' \/ j \in task[t].keys
      BY <1>1, <1>2, <1>4 DEF Awaited, Doing, OnlyTask
    <2>3. Minted' = Minted
      BY <1>1 DEF Minted
    <2>4. \A s \in Task : Doing(s, "lookup")' => Doing(s, "lookup") /\ task'[s] = task[s]
      BY <1>4 DEF Doing, OnlyTask
    <2>5. ASSUME NEW k \in AccessKey, cache'[k] # Absent
          PROVE  /\ k \in drawn'
                 /\ (cache[k].overtaken \/ cache[k].answer = Resolution(k) \/ Awaited(k))'
      BY <2>5, <1>1, <1>5, <2>1, <2>2 DEF Inv, RightAnswers
    <2>6. ASSUME NEW s \in Task, Doing(s, "lookup")'
          PROVE  /\ task'[s].key \in drawn'
                 /\ (task[s].overtaken \/ task[s].answer = Resolution(task[s].key))'
      BY <2>6, <1>1, <2>1, <2>4 DEF Inv, RightAnswers
    <2>. QED
      BY <1>1, <2>3, <2>5, <2>6 DEF Inv, RightAnswers
  <1>. QED
    BY <1>6, <1>7, <1>8, <1>9, <1>10 DEF Inv

(* A new user's KMS key is the call's until the row is there.              *)
LEMMA CreateUserStep ==
    ASSUME Inv, NEW t \in Task, NEW via \in Process, NEW e \in Email, NEW role \in Role,
           task[t] = Idle, CreateUser(t, via, e, role)
    PROVE  Inv'
  <1>1. PICK d \in KmsKey \ drawn :
          /\ kmsKeys' = kmsKeys \cup {d} /\ drawn' = drawn \cup {d}
          /\ task' = [task EXCEPT ![t] = [op |-> "createUser", via |-> via, email |-> e,
                                         role |-> role, kms |-> d]]
    BY DEF CreateUser, Become
  <1>. DEFINE next == [op |-> "createUser", via |-> via, email |-> e, role |-> role, kms |-> d]
  <1>2. UNCHANGED <<users, nsId, apiKeys, serving, cache, lost, slipped>>
    BY DEF CreateUser
  <1>3. TypeOK
    BY DEF Inv
  <1>4. next \in Calls /\ next # Idle
    <2>1. next \in Creating
      BY DEF Creating
    <2>. QED
      BY <2>1, FieldsMakeCalls, CallFields
  <1>5. task'[t] = next /\ OnlyTask(t)
    BY <1>1, <1>3, OneTask
  <1>6. TypeOK'
    BY <1>1, <1>2, <1>3, <1>4 DEF TypeOK
  <1>7. SomeActiveAdmin'
    BY <1>2, SomeActiveAdminFrame DEF Inv
  <1>8. OneOwner'
    <2>1. d \notin kmsKeys /\ d \notin lost
      BY <1>3 DEF Inv, OneOwner, TypeOK
    <2>2. Holds(t)' /\ ~ Holds(t) /\ task'[t].kms = d
      BY <1>4, <1>5 DEF Holds
    <2>3. \A s \in Task \ {t} : (Holds(s)' <=> Holds(s)) /\ task'[s] = task[s]
      BY <1>5 DEF Holds, OnlyTask
    <2>4. \A c \in Email : (Stored(c)' <=> Stored(c)) /\ users'[c] = users[c]
      BY <1>2 DEF Stored
    <2>. QED
      BY <1>1, <1>2, <2>1, <2>2, <2>3, <2>4 DEF Inv, OneOwner
  <1>9. RightKeys'
    BY <1>2, <1>5, RightKeysFrame DEF Inv, Makes, OnlyTask
  <1>10. RightAnswers'
    <2>1. \A k \in AccessKey : Awaited(k) => Awaited(k)'
      BY <1>2, <1>5 DEF Awaited, Doing, OnlyTask
    <2>2. \A s \in Task : Doing(s, "lookup")' => Doing(s, "lookup") /\ task'[s] = task[s]
      BY <1>5 DEF Doing, OnlyTask
    <2>. QED
      BY <1>1, <1>2, <1>3, <2>1, <2>2, RightAnswersFrame DEF Inv
  <1>. QED
    BY <1>6, <1>7, <1>8, <1>9, <1>10 DEF Inv

(* The call's KMS key becomes the user's, or is to be discarded.           *)
LEMMA InsertUserStep ==
    ASSUME Inv, NEW t \in Task, InsertUser(t)
    PROVE  Inv'
  <1>. DEFINE c == task[t]
              row == [role |-> c.role, active |-> TRUE, kms |-> c.kms]
              next == [op |-> "discard", via |-> c.via, kms |-> c.kms]
  <1>1. UNCHANGED <<nsId, apiKeys, kmsKeys, serving, cache, drawn, lost, slipped>>
    BY DEF InsertUser, history
  <1>2. Doing(t, "createUser") /\ TypeOK
    BY DEF InsertUser, Inv
  <1>3. c \in Creating
    BY <1>2, CallFields DEF TypeOK, Doing
  <1>4. row \in User /\ row # Absent
    <2>1. row \in User
      BY <1>3 DEF Creating, User
    <2>. QED
      BY <2>1
  <1>9. PICK a \in Email, d \in KmsKey : a = c.email /\ d = c.kms
    BY <1>3 DEF Creating
  <1>5. next \in Calls /\ next # Idle
    <2>1. next \in Discarding
      BY <1>3 DEF Creating, Discarding
    <2>. QED
      BY <2>1, FieldsMakeCalls, CallFields
  <1>6. Holds(t)
    BY <1>2 DEF Holds, Doing
  <1>7. CASE /\ ~ Stored(a)
             /\ users' = [users EXCEPT ![a] = row]
             /\ task' = [task EXCEPT ![t] = Idle]
    <2>1. task'[t] = Idle /\ OnlyTask(t)
      BY <1>2, <1>7, OneTask
    <2>2. /\ users'[a] = row /\ Stored(a)'
          /\ \A e \in Email \ {a} : users'[e] = users[e] /\ (Stored(e)' <=> Stored(e))
      BY <1>2, <1>4, <1>7 DEF TypeOK, Stored
    <2>3. TypeOK'
      BY <1>1, <1>2, <1>4, <1>7 DEF TypeOK
    <2>4. SomeActiveAdmin'
      BY <1>7, <2>2 DEF Inv, SomeActiveAdmin, ActiveAdmin
    <2>5. ~ Holds(t)' /\ \A s \in Task \ {t} : (Holds(s)' <=> Holds(s)) /\ task'[s] = task[s]
      BY <2>1 DEF Holds, OnlyTask
    <2>6. OneOwner'
      <3>1. users'[a].kms = d
        BY <1>9, <2>2
      <3>. QED
        BY <1>1, <1>6, <1>7, <1>9, <2>2, <2>5, <3>1 DEF Inv, OneOwner
    <2>7. RightKeys'
      <3>1. \A k \in Minted : apiKeys[k] \in ApiKey
        BY <1>2 DEF TypeOK, Minted
      <3>2. \A k \in Minted : apiKeys[k].owner \in Email \ {a}
        BY <3>1, <1>7 DEF Inv, RightKeys, ApiKey
      <3>3. \A s \in Task : Makes(s)' => Makes(s) /\ task'[s] = task[s] /\ task[s].email \in Email
        <4>1. \A s \in Task : Makes(s) => task[s] \in Reading \cup Storing
          BY <1>2, CallFields DEF TypeOK, Makes
        <4>. QED
          BY <4>1, <2>1 DEF Makes, OnlyTask, Reading, Storing
      <3>4. \A s \in Task : Makes(s)' /\ ~ task[s].crossed => task[s].email # a
        BY <3>3, <1>7 DEF Inv, RightKeys
      <3>. QED
        BY <1>1, <2>2, <3>2, <3>3, <3>4 DEF Inv, RightKeys, Minted
    <2>8. RightAnswers'
      <3>1. \A k \in AccessKey : Resolution(k)' = Resolution(k)
        <4>1. \A k \in Minted : apiKeys[k] \in ApiKey
          BY <1>2 DEF TypeOK, Minted
        <4>2. \A k \in Minted : apiKeys[k].owner \in Email \ {a}
          BY <4>1, <1>7 DEF Inv, RightKeys, ApiKey
        <4>. QED
          BY <1>1, <2>2, <4>2 DEF Resolution, Minted
      <3>2. \A k \in AccessKey : Awaited(k) => Awaited(k)'
        BY <1>1, <1>2, <2>1 DEF Awaited, Doing, OnlyTask
      <3>3. \A s \in Task : Doing(s, "lookup")' =>
               Doing(s, "lookup") /\ task'[s] = task[s] /\ task[s].key \in AccessKey
        <4>1. \A s \in Task : Doing(s, "lookup") => task[s] \in Looking
          BY <1>2, CallFields DEF TypeOK, Doing
        <4>. QED
          BY <4>1, <2>1 DEF Doing, OnlyTask, Looking
      <3>4. ASSUME NEW s \in Task, Doing(s, "lookup")'
            PROVE  /\ task'[s].key \in drawn'
                   /\ (task[s].overtaken \/ task[s].answer = Resolution(task[s].key))'
        BY <3>4, <1>1, <3>1, <3>3 DEF Inv, RightAnswers
      <3>. QED
        BY <1>1, <3>1, <3>2, <3>4 DEF Inv, RightAnswers, Minted
    <2>. QED
      BY <2>3, <2>4, <2>6, <2>7, <2>8 DEF Inv
  <1>8. CASE users' = users /\ task' = [task EXCEPT ![t] = next]
    <2>1. task'[t] = next /\ OnlyTask(t)
      BY <1>2, <1>8, OneTask
    <2>2. TypeOK'
      BY <1>1, <1>2, <1>5, <1>8 DEF TypeOK
    <2>3. SomeActiveAdmin'
      BY <1>8, SomeActiveAdminFrame DEF Inv
    <2>4. OneOwner'
      BY <1>1, <1>5, <1>6, <1>8, <2>1, OneOwnerFrame DEF Inv, Holds, OnlyTask
    <2>5. RightKeys'
      BY <1>1, <1>8, <2>1, RightKeysFrame DEF Inv, Makes, OnlyTask
    <2>6. RightAnswers'
      <3>1. \A k \in AccessKey : Awaited(k) => Awaited(k)'
        BY <1>1, <1>2, <2>1 DEF Awaited, Doing, OnlyTask
      <3>2. \A s \in Task : Doing(s, "lookup")' => Doing(s, "lookup") /\ task'[s] = task[s]
        BY <2>1 DEF Doing, OnlyTask
      <3>. QED
        BY <1>1, <1>2, <1>8, <3>1, <3>2, RightAnswersFrame DEF Inv
    <2>. QED
      BY <2>2, <2>3, <2>4, <2>5, <2>6 DEF Inv
  <1>. QED
    BY <1>7, <1>8, <1>9 DEF InsertUser, Finish, Become

(* A KMS key that is let go of is gone or lost; nobody else has it.        *)
LEMMA LetGo ==
    ASSUME Inv, NEW t \in Task, Holds(t),
           DeleteKmsKey(task[t].kms) \/ LoseKmsKey(task[t].kms),
           NEW next \in Calls \cup {Idle}, task' = [task EXCEPT ![t] = next],
           next # Idle => next.op = "forget",
           users' = users, drawn' = drawn
    PROVE  OneOwner' /\ lost' \subseteq kmsKeys' /\ kmsKeys' \subseteq KmsKey
  <1>1. TypeOK /\ OneOwner
    BY DEF Inv
  <1>2. task'[t] = next /\ OnlyTask(t)
    BY <1>1, OneTask
  <1>3. ~ Holds(t)' /\ \A s \in Task \ {t} : (Holds(s)' <=> Holds(s)) /\ task'[s] = task[s]
    BY <1>2 DEF Holds, OnlyTask
  <1>4. \A c \in Email : Stored(c)' <=> Stored(c)
    BY DEF Stored
  <1>5. task[t].kms \in kmsKeys \ lost
    BY <1>1 DEF OneOwner
  <1>6. /\ kmsKeys' \ lost' = (kmsKeys \ lost) \ {task[t].kms} /\ kmsKeys' \subseteq kmsKeys
        /\ lost' \subseteq kmsKeys'
    BY <1>1, <1>5 DEF DeleteKmsKey, LoseKmsKey, TypeOK
  <1>7. OneOwner'
    <2>1. \A e \in Email : Stored(e)' => users'[e].kms \in kmsKeys' \ lost'
      BY <1>1, <1>4, <1>6 DEF OneOwner
    <2>2. \A s \in Task : Holds(s)' => task'[s].kms \in kmsKeys' \ lost'
      BY <1>1, <1>3, <1>6 DEF OneOwner
    <2>. QED
      BY <1>1, <1>3, <1>4, <1>6, <2>1, <2>2 DEF OneOwner
  <1>. QED
    BY <1>1, <1>6, <1>7 DEF TypeOK

(* It is deleted, or lost.                                                 *)
LEMMA DiscardStep ==
    ASSUME Inv, NEW t \in Task, Discard(t)
    PROVE  Inv'
  <1>1. UNCHANGED <<users, nsId, apiKeys, serving, cache, drawn, slipped>>
    BY DEF Discard
  <1>2. /\ Doing(t, "discard") /\ TypeOK /\ task' = [task EXCEPT ![t] = Idle]
        /\ DeleteKmsKey(task[t].kms) \/ LoseKmsKey(task[t].kms)
    BY DEF Discard, Inv, Finish
  <1>3. task'[t] = Idle /\ OnlyTask(t)
    BY <1>2, OneTask
  <1>4. OneOwner' /\ lost' \subseteq kmsKeys' /\ kmsKeys' \subseteq KmsKey
    <2>1. Holds(t)
      BY <1>2 DEF Holds, Doing
    <2>. QED
      BY <1>1, <1>2, <2>1, LetGo
  <1>5. TypeOK'
    BY <1>1, <1>2, <1>4 DEF TypeOK
  <1>6. SomeActiveAdmin'
    BY <1>1, SomeActiveAdminFrame DEF Inv
  <1>7. RightKeys'
    BY <1>1, <1>3, RightKeysFrame DEF Inv, Makes, OnlyTask
  <1>8. RightAnswers'
    <2>1. \A k \in AccessKey : Awaited(k) => Awaited(k)'
      BY <1>1, <1>2, <1>3 DEF Awaited, Doing, OnlyTask
    <2>2. \A s \in Task : Doing(s, "lookup")' => Doing(s, "lookup") /\ task'[s] = task[s]
      BY <1>3 DEF Doing, OnlyTask
    <2>. QED
      BY <1>1, <1>2, <2>1, <2>2, RightAnswersFrame DEF Inv
  <1>. QED
    BY <1>4, <1>5, <1>6, <1>7, <1>8 DEF Inv

(* A deleted user's key likewise; then the server forgets everything.      *)
LEMMA DeleteUsersKeyStep ==
    ASSUME Inv, NEW t \in Task, DeleteUsersKey(t)
    PROVE  Inv'
  <1>1. UNCHANGED <<users, nsId, apiKeys, serving, cache, drawn>>
    BY DEF DeleteUsersKey
  <1>2. Doing(t, "deleteUser") /\ TypeOK /\ Holds(t)
    BY DEF DeleteUsersKey, Inv, Holds, Doing
  <1>3. task[t] \in Deleting
    BY <1>2, CallFields DEF TypeOK, Doing
  <1>4. PICK next \in Calls \cup {Idle} :
          /\ task' = [task EXCEPT ![t] = next]
          /\ next # Idle => next.op = "forget"
          /\ DeleteKmsKey(task[t].kms) \/ LoseKmsKey(task[t].kms)
          /\ slipped \subseteq slipped' /\ slipped' \subseteq slipped \cup AccessKey
          /\ \/ task[t].via = "cli"
             \/ next # Idle /\ next.keys = AccessKey
             \/ task[t].keys \subseteq slipped'
    <2>1. [op |-> "forget", via |-> "server", keys |-> AccessKey] \in Calls
      <3>1. [op |-> "forget", via |-> "server", keys |-> AccessKey] \in ToForget
        BY DEF ToForget
      <3>. QED
        BY <3>1, FieldsMakeCalls
    <2>2. Forgetting(task[t].via, AccessKey) \in Calls \cup {Idle}
      BY <2>1 DEF Forgetting
    <2>3. CASE /\ DeleteKmsKey(task[t].kms)
               /\ task' = [task EXCEPT ![t] = Forgetting(task[t].via, AccessKey)]
               /\ slipped' = slipped
      <3>. DEFINE n == Forgetting(task[t].via, AccessKey)
      <3>1. n # Idle => n.op = "forget"
        BY DEF Forgetting
      <3>2. task[t].via = "cli" \/ (n # Idle /\ n.keys = AccessKey)
        BY <1>3, <2>1, CallFields DEF Forgetting, Deleting, Process
      <3>. QED
        BY <2>2, <2>3, <3>1, <3>2
    <2>4. CASE /\ LoseKmsKey(task[t].kms)
               /\ task' = [task EXCEPT ![t] = Idle]
               /\ slipped' = slipped \cup task[t].keys
      BY <1>3, <2>4 DEF Deleting
    <2>. QED
      BY <2>3, <2>4 DEF DeleteUsersKey, Become, Finish
  <1>5. task'[t] = next /\ OnlyTask(t)
    BY <1>2, <1>4, OneTask
  <1>6. OneOwner' /\ lost' \subseteq kmsKeys' /\ kmsKeys' \subseteq KmsKey
    BY <1>1, <1>2, <1>4, LetGo
  <1>7. TypeOK'
    BY <1>1, <1>2, <1>4, <1>6 DEF TypeOK
  <1>8. SomeActiveAdmin'
    BY <1>1, SomeActiveAdminFrame DEF Inv
  <1>9. RightKeys'
    BY <1>1, <1>4, <1>5, RightKeysFrame DEF Inv, Makes, OnlyTask
  <1>10. RightAnswers'
    <2>1. ASSUME NEW k \in AccessKey, Awaited(k)
          PROVE  Awaited(k)'
      <3>1. CASE k \in slipped
        BY <3>1, <1>4 DEF Awaited
      <3>2. CASE \E s \in Task \ {t} :
                   \/ Doing(s, "deleteUser") /\ task[s].via = "server" /\ k \in task[s].keys
                   \/ Doing(s, "forget") /\ k \in task[s].keys
        BY <3>2, <1>5 DEF Awaited, Doing, OnlyTask
      <3>3. CASE task[t].via = "server" /\ k \in task[t].keys
        BY <3>3, <1>4, <1>5 DEF Awaited, Doing
      <3>. QED
        BY <2>1, <1>2, <3>1, <3>2, <3>3 DEF Awaited, Doing
    <2>2. \A s \in Task : Doing(s, "lookup")' => Doing(s, "lookup") /\ task'[s] = task[s]
      BY <1>4, <1>5 DEF Doing, OnlyTask
    <2>. QED
      BY <1>1, <1>2, <2>1, <2>2, RightAnswersFrame DEF Inv
  <1>. QED
    BY <1>6, <1>7, <1>8, <1>9, <1>10 DEF Inv

(* A start changes nothing an answer depends on.                           *)
LEMMA ServeStep ==
    ASSUME Inv, Serve
    PROVE  Inv'
  <1>1. UNCHANGED <<users, nsId, apiKeys, kmsKeys, cache, task, drawn, lost, slipped>>
    BY DEF Serve, database, history
  <1>2. TypeOK'
    BY <1>1 DEF Inv, TypeOK, Serve
  <1>3. SomeActiveAdmin'
    BY <1>1, SomeActiveAdminFrame DEF Inv
  <1>4. OneOwner'
    BY <1>1, OneOwnerFrame DEF Inv, Holds
  <1>5. RightKeys'
    BY <1>1, RightKeysFrame DEF Inv, Makes
  <1>6. RightAnswers'
    BY <1>1, RightAnswersFrame DEF Inv, Awaited, Doing
  <1>. QED
    BY <1>2, <1>3, <1>4, <1>5, <1>6 DEF Inv

(* What a revocation has the server forget, if it is the server's.         *)
LEMMA ForgettingCall ==
    ASSUME NEW via \in Process, NEW keys \in SUBSET AccessKey
    PROVE  /\ Forgetting(via, keys) \in Calls \cup {Idle}
           /\ Forgetting(via, keys) # Idle =>
                 Forgetting(via, keys).op = "forget" /\ Forgetting(via, keys).via = "server"
           /\ via = "server" =>
                 Forgetting(via, keys) # Idle /\ Forgetting(via, keys).keys = keys
  <1>1. [op |-> "forget", via |-> via, keys |-> keys] \in ToForget \/ via = "cli"
    BY DEF ToForget, Process
  <1>2. CASE via = "cli"
    BY <1>2 DEF Forgetting
  <1>3. CASE via = "server"
    <2>1. [op |-> "forget", via |-> via, keys |-> keys] \in Calls
      BY <1>1, <1>3, FieldsMakeCalls
    <2>2. [op |-> "forget", via |-> via, keys |-> keys] # Idle
      BY <2>1, CallFields
    <2>. QED
      BY <1>3, <2>1, <2>2 DEF Forgetting
  <1>. QED
    BY <1>2, <1>3 DEF Process

(* The user's keys go with it, and its KMS key becomes the call's.         *)
LEMMA DeleteUserStep ==
    ASSUME Inv, NEW t \in Task, NEW via \in Process, NEW e \in Email, DeleteUser(t, via, e)
    PROVE  Inv'
  <1>1. UNCHANGED <<nsId, kmsKeys, serving, cache, drawn, lost>>
    BY DEF DeleteUser
  <1>2. TypeOK /\ Stored(e) /\ ~ LastActiveAdmin(e) /\ Open(t, via) /\ task[t] = Idle
    BY DEF DeleteUser, Inv, Open
  <1>3. users' = [users EXCEPT ![e] = Absent]
    BY DEF DeleteUser
  <1>4. users[e] \in User
    BY <1>2 DEF TypeOK, Stored
  <1>5. PICK d \in KmsKey, keys \in SUBSET AccessKey : d = users[e].kms /\ keys = KeysOf(e)
    BY <1>4 DEF User, KeysOf, Minted
  <1>. DEFINE next == [op |-> "deleteUser", via |-> via, kms |-> d, keys |-> keys]
  <1>6. /\ apiKeys' = [k \in AccessKey |-> IF k \in keys THEN Absent ELSE apiKeys[k]]
        /\ Commit(t, keys, {e}, {}, next)
        /\ Slip(via, keys)
    BY <1>5 DEF DeleteUser
  <1>7. next \in Calls /\ next # Idle
    <2>1. next \in Deleting
      BY DEF Deleting
    <2>. QED
      BY <2>1, FieldsMakeCalls, CallFields
  <1>8. /\ task' \in [Task -> Calls \cup {Idle}]
        /\ task'[t] = next
        /\ \A s \in Task \ {t} :
              /\ Holds(s)' <=> Holds(s)
              /\ Holds(s) => task'[s] = task[s]
              /\ Makes(s)' =>
                    /\ Makes(s)
                    /\ task'[s].op = task[s].op
                    /\ task'[s].email = task[s].email
                    /\ task'[s].ns = task[s].ns
                    /\ task'[s].asked = task[s].asked
                    /\ task'[s].op = "storeKey" => task'[s].kms = task[s].kms
                    /\ ~ task'[s].crossed => ~ task[s].crossed /\ task[s].email # e
    <2>1. Open(t, "cli")
      BY <1>2 DEF Open
    <2>. HIDE DEF next
    <2>. QED
      BY <1>2, <1>6, <1>7, <2>1, CommitTasks
  <1>9. /\ ~ Stored(e)'
        /\ \A c \in Email \ {e} : users'[c] = users[c] /\ (Stored(c)' <=> Stored(c))
    BY <1>2, <1>3 DEF TypeOK, Stored
  <1>10. \A k \in AccessKey :
            /\ k \in keys => apiKeys'[k] = Absent
            /\ k \notin keys => apiKeys'[k] = apiKeys[k]
    BY <1>6
  <1>11. \A k \in Minted : apiKeys[k] \in ApiKey
    BY <1>2 DEF TypeOK, Minted
  <1>12. Minted' = Minted \ keys /\ \A k \in Minted \ keys : apiKeys[k].owner \in Email \ {e}
    BY <1>5, <1>10, <1>11 DEF Minted, KeysOf, ApiKey
  <1>13. TypeOK'
    <2>1. apiKeys' \in [AccessKey -> ApiKey \cup {Absent}]
      BY <1>2, <1>6 DEF TypeOK
    <2>2. slipped' \subseteq AccessKey
      BY <1>2, <1>6 DEF TypeOK, Slip
    <2>3. users' \in [Email -> User \cup {Absent}]
      BY <1>2, <1>3 DEF TypeOK
    <2>. QED
      BY <1>1, <1>2, <1>8, <2>1, <2>2, <2>3 DEF TypeOK
  <1>14. SomeActiveAdmin'
    <2>1. PICK c \in Email \ {e} : ActiveAdmin(c)
      BY <1>2 DEF Inv, SomeActiveAdmin, LastActiveAdmin
    <2>. QED
      BY <2>1, <1>9 DEF SomeActiveAdmin, ActiveAdmin
  <1>15. OneOwner'
    <2>1. Holds(t)' /\ ~ Holds(t) /\ task'[t].kms = d
      BY <1>2, <1>7, <1>8 DEF Holds
    <2>. QED
      BY <1>1, <1>2, <1>5, <1>8, <1>9, <2>1 DEF Inv, OneOwner
  <1>16. RightKeys'
    <2>1. ~ Makes(t)'
      BY <1>8 DEF Makes
    <2>2. \A s \in Task : Makes(s) => task[s].email \in Email
      <3>1. \A s \in Task : Makes(s) => task[s] \in Reading \cup Storing
        BY <1>2, CallFields DEF TypeOK, Makes
      <3>. QED
        BY <3>1 DEF Reading, Storing
    <2>3. ASSUME NEW k \in Minted'
          PROVE  /\ Stored(apiKeys[k].owner)'
                 /\ apiKeys'[k].ns # 0
                 /\ \E n \in Namespace : nsId'[n] = apiKeys'[k].ns
                 /\ ~ apiKeys'[k].crossed =>
                      /\ nsId'[apiKeys'[k].asked] = apiKeys'[k].ns
                      /\ users'[apiKeys'[k].owner].kms = apiKeys'[k].kms
      <3>1. k \in Minted \ keys /\ apiKeys'[k] = apiKeys[k] /\ apiKeys[k].owner \in Email \ {e}
        BY <1>10, <1>12 DEF Minted
      <3>2. Stored(apiKeys[k].owner)'
        BY <3>1, <1>9 DEF Inv, RightKeys, Stored
      <3>. QED
        BY <3>1, <3>2, <1>1, <1>9 DEF Inv, RightKeys
    <2>4. ASSUME NEW s \in Task, Makes(s)'
          PROVE  /\ task'[s].ns # 0
                 /\ ~ task'[s].crossed =>
                      /\ nsId'[task'[s].asked] = task'[s].ns
                      /\ Stored(task[s].email)'
                      /\ task'[s].op = "storeKey" => users'[task'[s].email].kms = task'[s].kms
      <3>1. s # t /\ Makes(s) /\ task[s].email \in Email
        BY <2>1, <2>2, <2>4, <1>8
      <3>2. ~ task'[s].crossed => Stored(task[s].email)'
        BY <3>1, <2>4, <1>8, <1>9 DEF Inv, RightKeys, Stored
      <3>. QED
        BY <3>1, <3>2, <2>4, <1>1, <1>8, <1>9 DEF Inv, RightKeys
    <2>. QED
      BY <2>3, <2>4 DEF RightKeys
  <1>17. RightAnswers'
    <2>1. \A k \in AccessKey \ keys : Resolution(k)' = Resolution(k)
      BY <1>9, <1>10, <1>12 DEF Resolution, Minted
    <2>2. Minted' \subseteq Minted /\ cache' = cache /\ drawn' = drawn
      BY <1>1, <1>12
    <2>3. next.op \in {"forget", "deleteUser"} /\ next.via = via /\ next.keys = keys
      OBVIOUS
    <2>. HIDE DEF next
    <2>. QED
      BY <1>2, <1>6, <1>7, <2>1, <2>2, <2>3, CommitAnswers
  <1>. QED
    BY <1>13, <1>14, <1>15, <1>16, <1>17 DEF Inv

(* A change of a user's role or of whether it is disabled.                 *)
LEMMA AccountChanged ==
    ASSUME Inv, NEW t \in Task, NEW via \in Process, NEW e \in Email, NEW row \in User,
           Open(t, via), Stored(e), row.kms = users[e].kms,
           users' = [users EXCEPT ![e] = row],
           LastActiveAdmin(e) => row.role = "admin" /\ row.active,
           Commit(t, KeysOf(e), {}, {}, Forgetting(via, AccessKey)),
           Slip(via, KeysOf(e)),
           UNCHANGED <<nsId, apiKeys, kmsKeys, serving, cache, drawn, lost>>
    PROVE  Inv'
  <1>1. TypeOK /\ row # Absent /\ task[t] = Idle
    BY DEF Inv, Open
  <1>2. /\ users'[e] = row /\ Stored(e)'
        /\ \A c \in Email : users'[c].kms = users[c].kms /\ (Stored(c)' <=> Stored(c))
        /\ \A c \in Email \ {e} : users'[c] = users[c]
    BY <1>1 DEF TypeOK, Stored
  <1>3. PICK keys \in SUBSET AccessKey : keys = KeysOf(e)
    BY DEF KeysOf, Minted
  <1>4. PICK next \in Calls \cup {Idle} :
          /\ next = Forgetting(via, AccessKey)
          /\ next # Idle => next.op = "forget" /\ next.via = "server"
          /\ via = "server" => next # Idle /\ next.keys = AccessKey
    BY ForgettingCall
  <1>5. Commit(t, keys, {}, {}, next) /\ Slip(via, keys)
    BY <1>3, <1>4
  <1>6. /\ task' \in [Task -> Calls \cup {Idle}]
        /\ task'[t] = next
        /\ \A s \in Task \ {t} :
              /\ Holds(s)' <=> Holds(s)
              /\ Holds(s) => task'[s] = task[s]
              /\ Makes(s)' =>
                    /\ Makes(s)
                    /\ task'[s].op = task[s].op
                    /\ task'[s].email = task[s].email
                    /\ task'[s].ns = task[s].ns
                    /\ task'[s].asked = task[s].asked
                    /\ task'[s].op = "storeKey" => task'[s].kms = task[s].kms
                    /\ ~ task'[s].crossed => ~ task[s].crossed
    <2>1. Open(t, "cli")
      BY <1>1 DEF Open
    <2>. QED
      BY <1>1, <1>5, <2>1, CommitTasks
  <1>7. ~ Holds(t) /\ ~ Holds(t)' /\ ~ Makes(t)'
    BY <1>1, <1>4, <1>6 DEF Holds, Makes
  <1>8. TypeOK'
    <2>1. slipped' \subseteq AccessKey
      BY <1>1, <1>5 DEF TypeOK, Slip
    <2>. QED
      BY <1>1, <1>6, <2>1 DEF TypeOK
  <1>9. SomeActiveAdmin'
    <2>1. CASE LastActiveAdmin(e)
      BY <2>1, <1>2 DEF SomeActiveAdmin, ActiveAdmin, LastActiveAdmin
    <2>2. CASE ~ LastActiveAdmin(e)
      <3>1. PICK c \in Email \ {e} : ActiveAdmin(c)
        BY <2>2 DEF Inv, SomeActiveAdmin, LastActiveAdmin
      <3>. QED
        BY <3>1, <1>2 DEF SomeActiveAdmin, ActiveAdmin
    <2>. QED
      BY <2>1, <2>2
  <1>10. OneOwner'
    BY <1>2, <1>6, <1>7 DEF Inv, OneOwner
  <1>11. RightKeys'
    <2>1. \A k \in Minted : apiKeys[k].owner \in Email
      BY <1>1 DEF TypeOK, Minted, ApiKey
    <2>2. \A s \in Task : Makes(s) => task[s].email \in Email
      <3>1. \A s \in Task : Makes(s) => task[s] \in Reading \cup Storing
        BY <1>1, CallFields DEF TypeOK, Makes
      <3>. QED
        BY <3>1 DEF Reading, Storing
    <2>3. Minted' = Minted
      BY DEF Minted
    <2>4. ASSUME NEW s \in Task, Makes(s)'
          PROVE  /\ task'[s].ns # 0
                 /\ ~ task'[s].crossed =>
                      /\ nsId'[task'[s].asked] = task'[s].ns
                      /\ Stored(task[s].email)'
                      /\ task'[s].op = "storeKey" => users'[task'[s].email].kms = task'[s].kms
      <3>1. s # t /\ Makes(s) /\ task[s].email \in Email
        BY <2>2, <2>4, <1>6, <1>7
      <3>2. ~ task'[s].crossed => Stored(task[s].email)'
        BY <3>1, <2>4, <1>2, <1>6 DEF Inv, RightKeys, Stored
      <3>. QED
        BY <3>1, <3>2, <2>4, <1>2, <1>6 DEF Inv, RightKeys
    <2>5. ASSUME NEW k \in Minted
          PROVE  /\ Stored(apiKeys[k].owner)'
                 /\ users'[apiKeys'[k].owner].kms = users[apiKeys[k].owner].kms
      <3>1. apiKeys[k].owner \in Email /\ Stored(apiKeys[k].owner)
        BY <2>1 DEF Inv, RightKeys
      <3>. QED
        BY <3>1, <1>2 DEF Stored
    <2>. QED
      BY <2>3, <2>4, <2>5 DEF Inv, RightKeys
  <1>12. RightAnswers'
    <2>1. \A k \in AccessKey \ keys : Resolution(k)' = Resolution(k)
      <3>1. \A k \in AccessKey \ keys :
              apiKeys[k] = Absent \/ apiKeys[k].owner \in Email \ {e}
        BY <1>1, <1>3 DEF TypeOK, KeysOf, Minted, ApiKey
      <3>. QED
        BY <3>1, <1>2 DEF Resolution
    <2>2. Minted' \subseteq Minted
      BY DEF Minted
    <2>. QED
      BY <1>4, <1>5, <2>1, <2>2, CommitAnswers
  <1>. QED
    BY <1>8, <1>9, <1>10, <1>11, <1>12 DEF Inv

(* A role changes: of the last active admin, to admin only.                *)
LEMMA SetRoleStep ==
    ASSUME Inv, NEW t \in Task, NEW via \in Process, NEW e \in Email, NEW role \in Role,
           SetRole(t, via, e, role)
    PROVE  Inv'
  <1>1. users[e] \in User
    BY DEF SetRole, Inv, TypeOK, Stored
  <1>2. PICK row \in User : row = [users[e] EXCEPT !.role = role]
    BY <1>1 DEF User
  <1>3. /\ row.kms = users[e].kms /\ row.role = role /\ row.active = users[e].active
        /\ users' = [users EXCEPT ![e] = row]
    BY <1>1, <1>2 DEF SetRole, User, Inv, TypeOK
  <1>4. LastActiveAdmin(e) => row.role = "admin" /\ row.active
    BY <1>3 DEF SetRole, LastActiveAdmin, ActiveAdmin
  <1>. QED
    BY <1>3, <1>4, AccountChanged DEF SetRole

(* An account is disabled, unless it is the last active admin.             *)
LEMMA SetDisabledStep ==
    ASSUME Inv, NEW t \in Task, NEW via \in Process, NEW e \in Email,
           NEW disabled \in BOOLEAN, SetDisabled(t, via, e, disabled)
    PROVE  Inv'
  <1>1. users[e] \in User
    BY DEF SetDisabled, Inv, TypeOK, Stored
  <1>2. PICK row \in User : row = [users[e] EXCEPT !.active = ~ disabled]
    BY <1>1 DEF User
  <1>3. /\ row.kms = users[e].kms /\ row.role = users[e].role /\ row.active = ~ disabled
        /\ users' = [users EXCEPT ![e] = row]
    BY <1>1, <1>2 DEF SetDisabled, User, Inv, TypeOK
  <1>4. LastActiveAdmin(e) => row.role = "admin" /\ row.active
    BY <1>3 DEF SetDisabled, LastActiveAdmin, ActiveAdmin
  <1>. QED
    BY <1>3, <1>4, AccountChanged DEF SetDisabled

(* A new namespace takes an id no API key can have kept.                   *)
LEMMA CreateNamespaceStep ==
    ASSUME Inv, NEW n \in Namespace, CreateNamespace(n)
    PROVE  Inv'
  <1>1. UNCHANGED <<users, apiKeys, kmsKeys, serving, cache, task, drawn, lost, slipped>>
    BY DEF CreateNamespace, history
  <1>2. PICK id \in 1 .. MaxRowId : nsId' = [nsId EXCEPT ![n] = id]
    BY DEF CreateNamespace
  <1>3. TypeOK /\ nsId[n] = 0
    BY DEF CreateNamespace, Inv
  <1>4. TypeOK'
    BY <1>1, <1>2, <1>3 DEF TypeOK
  <1>5. SomeActiveAdmin'
    BY <1>1, SomeActiveAdminFrame DEF Inv
  <1>6. OneOwner'
    BY <1>1, OneOwnerFrame DEF Inv, Holds
  <1>7. \A m \in Namespace : nsId[m] # 0 => nsId'[m] = nsId[m]
    BY <1>2, <1>3 DEF TypeOK
  <1>8. RightKeys'
    <2>1. \A k \in Minted : apiKeys[k] \in ApiKey
      BY <1>3 DEF TypeOK, Minted
    <2>2. \A s \in Task : Makes(s) => task[s].asked \in Namespace
      <3>1. \A s \in Task : Makes(s) => task[s] \in Reading \cup Storing
        BY <1>3, CallFields DEF TypeOK, Makes
      <3>. QED
        BY <3>1 DEF Reading, Storing
    <2>3. \A k \in Minted : apiKeys[k].asked \in Namespace
      BY <2>1 DEF ApiKey
    <2>. QED
      BY <1>1, <1>7, <2>2, <2>3 DEF Inv, RightKeys, Minted, Makes, Stored
  <1>9. RightAnswers'
    BY <1>1, <1>3, RightAnswersFrame DEF Inv, Awaited, Doing
  <1>. QED
    BY <1>4, <1>5, <1>6, <1>8, <1>9 DEF Inv

(* API keys go: with their namespace, or one alone.                        *)
LEMMA KeysRevoked ==
    ASSUME Inv, NEW t \in Task, NEW via \in Process, NEW keys \in SUBSET AccessKey,
           NEW forgotten \in SUBSET AccessKey, NEW namespaces \in SUBSET Namespace,
           keys \subseteq forgotten,
           Open(t, via),
           apiKeys' = [k \in AccessKey |-> IF k \in keys THEN Absent ELSE apiKeys[k]],
           nsId' \in [Namespace -> Nat],
           \A n \in Namespace \ namespaces : nsId'[n] = nsId[n],
           \A k \in Minted \ keys, n \in namespaces : apiKeys[k].ns # nsId[n],
           Commit(t, keys, {}, namespaces, Forgetting(via, forgotten)),
           Slip(via, keys),
           UNCHANGED <<users, kmsKeys, serving, cache, drawn, lost>>
    PROVE  Inv'
  <1>1. TypeOK /\ task[t] = Idle
    BY DEF Inv, Open
  <1>2. PICK next \in Calls \cup {Idle} :
          /\ next = Forgetting(via, forgotten)
          /\ next # Idle => next.op = "forget" /\ next.via = "server"
          /\ via = "server" => next # Idle /\ next.keys = forgotten
    BY ForgettingCall
  <1>3. Commit(t, keys, {}, namespaces, next)
    BY <1>2
  <1>4. /\ task' \in [Task -> Calls \cup {Idle}]
        /\ task'[t] = next
        /\ \A s \in Task \ {t} :
              /\ Holds(s)' <=> Holds(s)
              /\ Holds(s) => task'[s] = task[s]
              /\ Makes(s)' =>
                    /\ Makes(s)
                    /\ task'[s].op = task[s].op
                    /\ task'[s].email = task[s].email
                    /\ task'[s].ns = task[s].ns
                    /\ task'[s].asked = task[s].asked
                    /\ task'[s].op = "storeKey" => task'[s].kms = task[s].kms
                    /\ ~ task'[s].crossed => ~ task[s].crossed /\ task[s].asked \notin namespaces
    <2>1. Open(t, "cli")
      BY <1>1 DEF Open
    <2>. QED
      BY <1>1, <1>3, <2>1, CommitTasks
  <1>5. ~ Holds(t) /\ ~ Holds(t)' /\ ~ Makes(t)'
    BY <1>1, <1>2, <1>4 DEF Holds, Makes
  <1>6. Minted' = Minted \ keys /\ \A k \in Minted \ keys : apiKeys'[k] = apiKeys[k]
    BY DEF Minted
  <1>7. TypeOK'
    <2>1. slipped' \subseteq AccessKey
      BY <1>1 DEF TypeOK, Slip
    <2>2. apiKeys' \in [AccessKey -> ApiKey \cup {Absent}]
      BY <1>1 DEF TypeOK
    <2>. QED
      BY <1>1, <1>4, <2>1, <2>2 DEF TypeOK
  <1>8. SomeActiveAdmin'
    BY SomeActiveAdminFrame DEF Inv
  <1>9. OneOwner'
    BY <1>4, <1>5, OneOwnerFrame DEF Inv
  <1>10. RightKeys'
    <2>1. \A k \in Minted : apiKeys[k].asked \in Namespace
      BY <1>1 DEF TypeOK, Minted, ApiKey
    <2>2. \A s \in Task : Makes(s) => task[s].asked \in Namespace
      <3>1. \A s \in Task : Makes(s) => task[s] \in Reading \cup Storing
        BY <1>1, CallFields DEF TypeOK, Makes
      <3>. QED
        BY <3>1 DEF Reading, Storing
    <2>3. ASSUME NEW k \in Minted \ keys
          PROVE  /\ \E n \in Namespace : nsId'[n] = apiKeys[k].ns
                 /\ nsId[apiKeys[k].asked] = apiKeys[k].ns =>
                       nsId'[apiKeys[k].asked] = apiKeys[k].ns
      <3>1. PICK n \in Namespace : nsId[n] = apiKeys[k].ns
        BY DEF Inv, RightKeys
      <3>2. n \notin namespaces
        BY <3>1
      <3>. QED
        BY <2>1, <3>1, <3>2
    <2>4. \A c : Stored(c)' <=> Stored(c)
      BY DEF Stored
    <2>5. ASSUME NEW k \in Minted'
          PROVE  /\ Stored(apiKeys[k].owner)'
                 /\ apiKeys'[k].ns # 0
                 /\ \E n \in Namespace : nsId'[n] = apiKeys'[k].ns
                 /\ ~ apiKeys'[k].crossed =>
                      /\ nsId'[apiKeys'[k].asked] = apiKeys'[k].ns
                      /\ users'[apiKeys'[k].owner].kms = apiKeys'[k].kms
      <3>1. k \in Minted \ keys /\ apiKeys'[k] = apiKeys[k]
        BY <1>6
      <3>. QED
        BY <3>1, <2>3 DEF Inv, RightKeys, Stored
    <2>6. ASSUME NEW s \in Task, Makes(s)'
          PROVE  /\ task'[s].ns # 0
                 /\ ~ task'[s].crossed =>
                      /\ nsId'[task'[s].asked] = task'[s].ns
                      /\ Stored(task[s].email)'
                      /\ task'[s].op = "storeKey" => users'[task'[s].email].kms = task'[s].kms
      <3>1. s # t /\ Makes(s) /\ task[s].asked \in Namespace
        BY <2>2, <2>6, <1>4, <1>5
      <3>2. ~ task'[s].crossed => Stored(task[s].email)'
        BY <3>1, <2>6, <1>4 DEF Inv, RightKeys, Stored
      <3>. QED
        BY <3>1, <3>2, <2>6, <1>4 DEF Inv, RightKeys
    <2>. QED
      BY <2>5, <2>6 DEF RightKeys
  <1>11. RightAnswers'
    <2>1. \A k \in AccessKey \ keys : Resolution(k)' = Resolution(k)
      BY DEF Resolution, Stored
    <2>2. Minted' \subseteq Minted
      BY <1>6
    <2>. QED
      BY <1>2, <1>3, <2>1, <2>2, CommitAnswers
  <1>. QED
    BY <1>7, <1>8, <1>9, <1>10, <1>11 DEF Inv

(* A namespace goes with its API keys.                                     *)
LEMMA DeleteNamespaceStep ==
    ASSUME Inv, NEW t \in Task, NEW via \in Process, NEW n \in Namespace,
           DeleteNamespace(t, via, n)
    PROVE  Inv'
  <1>1. PICK keys \in SUBSET AccessKey : keys = KeysIn(nsId[n])
    BY DEF KeysIn, Minted
  <1>2. \A k \in Minted \ keys, m \in {n} : apiKeys[k].ns # nsId[m]
    BY <1>1 DEF KeysIn
  <1>3. /\ nsId' \in [Namespace -> Nat]
        /\ \A m \in Namespace \ {n} : nsId'[m] = nsId[m]
    BY DEF DeleteNamespace, Inv, TypeOK
  <1>. QED
    BY <1>1, <1>2, <1>3, KeysRevoked DEF DeleteNamespace

(* One API key goes.                                                       *)
LEMMA DeleteTokenStep ==
    ASSUME Inv, NEW t \in Task, NEW via \in Process, NEW k \in AccessKey,
           DeleteToken(t, via, k)
    PROVE  Inv'
  <1>1. apiKeys' = [j \in AccessKey |-> IF j \in {k} THEN Absent ELSE apiKeys[j]]
    BY DEF DeleteToken, Inv, TypeOK
  <1>2. nsId' \in [Namespace -> Nat] /\ nsId' = nsId
    BY DEF DeleteToken, Inv, TypeOK
  <1>3. {k} \in SUBSET AccessKey
    OBVIOUS
  <1>4. /\ Open(t, via) /\ Commit(t, {k}, {}, {}, Forgetting(via, {k})) /\ Slip(via, {k})
        /\ UNCHANGED <<users, kmsKeys, serving, cache, drawn, lost>>
    BY DEF DeleteToken
  <1>. QED
    BY <1>1, <1>2, <1>3, <1>4, KeysRevoked

(* The steps towards an API key.                                           *)
LEMMA CreateTokenStep ==
    ASSUME Inv, NEW t \in Task, NEW via \in Process, NEW e \in Email, NEW n \in Namespace,
           CreateToken(t, via, e, n)
    PROVE  Inv'
  <1>1. UNCHANGED <<users, nsId, apiKeys, kmsKeys, serving, cache, drawn, lost, slipped>>
    BY DEF CreateToken, database, history
  <1>2. TypeOK /\ Stored(e) /\ nsId[n] # 0 /\ task[t] = Idle
    BY DEF CreateToken, Inv, Open
  <1>3. PICK id \in Nat : id = nsId[n]
    BY <1>2 DEF TypeOK
  <1>. DEFINE next == [op |-> "readKey", via |-> via, email |-> e, ns |-> id, asked |-> n,
                       crossed |-> FALSE]
  <1>4. task' = [task EXCEPT ![t] = next]
    BY <1>3 DEF CreateToken, Become
  <1>5. next \in Calls /\ next # Idle
    <2>1. next \in Reading
      BY DEF Reading
    <2>. QED
      BY <2>1, FieldsMakeCalls, CallFields
  <1>6. task'[t] = next /\ OnlyTask(t)
    BY <1>2, <1>4, OneTask
  <1>7. TypeOK'
    BY <1>1, <1>2, <1>4, <1>5 DEF TypeOK
  <1>8. SomeActiveAdmin'
    BY <1>1, SomeActiveAdminFrame DEF Inv
  <1>9. OneOwner'
    BY <1>1, <1>2, <1>6, OneOwnerFrame DEF Inv, Holds, OnlyTask
  <1>10. RightKeys'
    <2>1. \A s \in Task \ {t} : (Makes(s)' <=> Makes(s)) /\ task'[s] = task[s]
      BY <1>6 DEF Makes, OnlyTask
    <2>2. \A c : Stored(c)' <=> Stored(c)
      BY <1>1 DEF Stored
    <2>3. ASSUME NEW s \in Task, Makes(s)'
          PROVE  /\ task'[s].ns # 0
                 /\ ~ task'[s].crossed =>
                      /\ nsId'[task'[s].asked] = task'[s].ns
                      /\ Stored(task[s].email)'
                      /\ task'[s].op = "storeKey" => users'[task'[s].email].kms = task'[s].kms
      <3>1. CASE s = t
        BY <3>1, <1>1, <1>2, <1>3, <1>6 DEF Stored
      <3>2. CASE s # t
        BY <3>2, <2>1, <2>3, <1>1 DEF Inv, RightKeys, Stored
      <3>. QED
        BY <3>1, <3>2
    <2>. QED
      BY <1>1, <2>2, <2>3 DEF Inv, RightKeys, Minted, Stored
  <1>11. RightAnswers'
    <2>1. \A k \in AccessKey : Awaited(k) => Awaited(k)'
      BY <1>1, <1>2, <1>6 DEF Awaited, Doing, OnlyTask
    <2>2. \A s \in Task : Doing(s, "lookup")' => Doing(s, "lookup") /\ task'[s] = task[s]
      BY <1>6 DEF Doing, OnlyTask
    <2>. QED
      BY <1>1, <1>2, <2>1, <2>2, RightAnswersFrame DEF Inv
  <1>. QED
    BY <1>7, <1>8, <1>9, <1>10, <1>11 DEF Inv

(* The owner's KMS key is read as it is now.                               *)
LEMMA ReadKeyStep ==
    ASSUME Inv, NEW t \in Task, ReadKey(t)
    PROVE  Inv'
  <1>1. UNCHANGED <<users, nsId, apiKeys, kmsKeys, serving, cache, drawn, lost, slipped>>
    BY DEF ReadKey, database, history
  <1>2. TypeOK /\ Doing(t, "readKey") /\ Makes(t)
    BY DEF ReadKey, Inv, Doing, Makes
  <1>3. task[t] \in Reading
    BY <1>2, CallFields DEF TypeOK, Doing
  <1>4. PICK next \in Calls \cup {Idle} :
          /\ task' = [task EXCEPT ![t] = next]
          /\ next # Idle =>
                /\ next.op = "storeKey" /\ next.email = task[t].email
                /\ next.ns = task[t].ns /\ next.asked = task[t].asked
                /\ next.crossed = task[t].crossed
                /\ next.kms = users[task[t].email].kms /\ Stored(task[t].email)
    <2>1. CASE Stored(task[t].email)
      <3>. DEFINE n == [op |-> "storeKey", via |-> task[t].via, email |-> task[t].email,
                        ns |-> task[t].ns, asked |-> task[t].asked,
                        kms |-> users[task[t].email].kms, crossed |-> task[t].crossed]
      <3>1. users[task[t].email] \in User
        BY <2>1, <1>2, <1>3 DEF TypeOK, Stored, Reading
      <3>2. n \in Storing
        BY <3>1, <1>3 DEF Storing, Reading, User
      <3>3. n \in Calls
        BY <3>2, FieldsMakeCalls
      <3>4. task' = [task EXCEPT ![t] = n]
        BY <2>1 DEF ReadKey, Become
      <3>5. /\ n.op = "storeKey" /\ n.email = task[t].email
            /\ n.ns = task[t].ns /\ n.asked = task[t].asked
            /\ n.crossed = task[t].crossed /\ n.kms = users[task[t].email].kms
        OBVIOUS
      <3>. HIDE DEF n
      <3>. QED
        BY <3>3, <3>4, <3>5, <2>1
    <2>2. CASE ~ Stored(task[t].email)
      BY <2>2 DEF ReadKey, Finish
    <2>. QED
      BY <2>1, <2>2
  <1>5. task'[t] = next /\ OnlyTask(t)
    BY <1>2, <1>4, OneTask
  <1>6. TypeOK'
    BY <1>1, <1>2, <1>4 DEF TypeOK
  <1>7. SomeActiveAdmin'
    BY <1>1, SomeActiveAdminFrame DEF Inv
  <1>8. OneOwner'
    BY <1>1, <1>2, <1>4, <1>5, OneOwnerFrame DEF Inv, Holds, OnlyTask, Doing
  <1>9. RightKeys'
    <2>1. \A s \in Task \ {t} : (Makes(s)' <=> Makes(s)) /\ task'[s] = task[s]
      BY <1>5 DEF Makes, OnlyTask
    <2>2. \A c : Stored(c)' <=> Stored(c)
      BY <1>1 DEF Stored
    <2>3. ASSUME NEW s \in Task, Makes(s)'
          PROVE  /\ task'[s].ns # 0
                 /\ ~ task'[s].crossed =>
                      /\ nsId'[task'[s].asked] = task'[s].ns
                      /\ Stored(task[s].email)'
                      /\ task'[s].op = "storeKey" => users'[task'[s].email].kms = task'[s].kms
      <3>1. CASE s = t
        <4>1. next # Idle /\ task'[t] = next
          BY <3>1, <2>3, <1>5 DEF Makes
        <4>. QED
          BY <3>1, <4>1, <1>1, <1>2, <1>4 DEF Inv, RightKeys, Stored
      <3>2. CASE s # t
        BY <3>2, <2>1, <2>3, <1>1 DEF Inv, RightKeys, Stored
      <3>. QED
        BY <3>1, <3>2
    <2>. QED
      BY <1>1, <2>2, <2>3 DEF Inv, RightKeys, Minted, Stored
  <1>10. RightAnswers'
    <2>1. \A k \in AccessKey : Awaited(k) => Awaited(k)'
      BY <1>1, <1>2, <1>5 DEF Awaited, Doing, OnlyTask
    <2>2. \A s \in Task : Doing(s, "lookup")' => Doing(s, "lookup") /\ task'[s] = task[s]
      BY <1>4, <1>5 DEF Doing, OnlyTask
    <2>. QED
      BY <1>1, <1>2, <2>1, <2>2, RightAnswersFrame DEF Inv
  <1>. QED
    BY <1>6, <1>7, <1>8, <1>9, <1>10 DEF Inv

(* The row of a new API key: drawn for it alone, so that nothing            *)
(* remembered or looked up is about it.                                    *)
LEMMA InsertTokenStep ==
    ASSUME Inv, NEW t \in Task, InsertToken(t)
    PROVE  Inv'
  <1>1. UNCHANGED <<users, nsId, kmsKeys, serving, cache, lost, slipped>>
    BY DEF InsertToken
  <1>2. TypeOK /\ Doing(t, "storeKey") /\ Makes(t)
    BY DEF InsertToken, Inv, Doing, Makes
  <1>3. task[t] \in Storing /\ task[t].op = "storeKey"
    BY <1>2, CallFields DEF TypeOK, Doing
  <1>4. task' = [task EXCEPT ![t] = Idle]
    BY DEF InsertToken, Finish
  <1>5. task'[t] = Idle /\ OnlyTask(t)
    BY <1>2, <1>4, OneTask
  <1>. DEFINE row == [owner |-> task[t].email, ns |-> task[t].ns, kms |-> task[t].kms,
                      asked |-> task[t].asked, crossed |-> task[t].crossed]
  <1>6. row \in ApiKey /\ row # Absent
    BY <1>3 DEF Storing, ApiKey
  <1>7. CASE UNCHANGED <<apiKeys, drawn>>
    <2>1. TypeOK'
      BY <1>1, <1>2, <1>4, <1>7 DEF TypeOK
    <2>2. SomeActiveAdmin'
      BY <1>1, SomeActiveAdminFrame DEF Inv
    <2>3. OneOwner'
      BY <1>1, <1>2, <1>5, <1>7, OneOwnerFrame DEF Inv, Holds, OnlyTask, Doing
    <2>4. RightKeys'
      BY <1>1, <1>5, <1>7, RightKeysFrame DEF Inv, Makes, OnlyTask
    <2>5. \A j \in AccessKey : Awaited(j) => Awaited(j)'
      BY <1>1, <1>2, <1>5 DEF Awaited, Doing, OnlyTask
    <2>6. \A s \in Task : Doing(s, "lookup")' => Doing(s, "lookup") /\ task'[s] = task[s]
      BY <1>5 DEF Doing, OnlyTask
    <2>7. RightAnswers'
      BY <1>1, <1>2, <1>7, <2>5, <2>6, RightAnswersFrame DEF Inv
    <2>. QED
      BY <2>1, <2>2, <2>3, <2>4, <2>7 DEF Inv
  <1>8. ASSUME NEW k \in AccessKey \ drawn,
               Stored(task[t].email), \E n \in Namespace : nsId[n] = task[t].ns,
               apiKeys' = [apiKeys EXCEPT ![k] = row], drawn' = drawn \cup {k}
        PROVE  Inv'
    <2>1. apiKeys'[k] = row /\ \A j \in AccessKey \ {k} : apiKeys'[j] = apiKeys[j]
      BY <1>2, <1>8 DEF TypeOK
    <2>2. k \notin Minted /\ Minted' = Minted \cup {k} /\ cache[k] = Absent
      BY <1>6, <2>1 DEF Minted, Inv, RightAnswers
    <2>3. TypeOK'
      BY <1>1, <1>2, <1>4, <1>6, <1>8 DEF TypeOK
    <2>4. SomeActiveAdmin'
      BY <1>1, SomeActiveAdminFrame DEF Inv
    <2>5. OneOwner'
      BY <1>1, <1>2, <1>5, <1>8, OneOwnerFrame DEF Inv, Holds, OnlyTask, Doing
    <2>6. RightKeys'
      <3>1. \A c : Stored(c)' <=> Stored(c)
        BY <1>1 DEF Stored
      <3>2. /\ task[t].ns # 0
            /\ ~ task[t].crossed =>
                  nsId[task[t].asked] = task[t].ns /\ users[task[t].email].kms = task[t].kms
        BY <1>2, <1>3 DEF Inv, RightKeys
      <3>3. /\ Stored(row.owner) /\ row.ns # 0
            /\ \E n \in Namespace : nsId[n] = row.ns
            /\ ~ row.crossed => nsId[row.asked] = row.ns /\ users[row.owner].kms = row.kms
        BY <1>8, <3>2
      <3>. HIDE DEF row
      <3>4. ASSUME NEW j \in Minted'
            PROVE  /\ Stored(apiKeys'[j].owner)
                   /\ apiKeys'[j].ns # 0
                   /\ \E n \in Namespace : nsId[n] = apiKeys'[j].ns
                   /\ ~ apiKeys'[j].crossed =>
                        /\ nsId[apiKeys'[j].asked] = apiKeys'[j].ns
                        /\ users[apiKeys'[j].owner].kms = apiKeys'[j].kms
        <4>1. CASE j = k
          BY <4>1, <2>1, <3>3
        <4>2. CASE j # k
          <5>1. j \in Minted /\ apiKeys'[j] = apiKeys[j]
            BY <4>2, <3>4, <2>1, <2>2 DEF Minted
          <5>. QED
            BY <5>1 DEF Inv, RightKeys
        <4>. QED
          BY <4>1, <4>2
      <3>5. \A s \in Task : Makes(s)' => Makes(s) /\ task'[s] = task[s]
        BY <1>5 DEF Makes, OnlyTask
      <3>6. ASSUME NEW s \in Task, Makes(s)'
            PROVE  /\ task'[s].ns # 0
                   /\ ~ task'[s].crossed =>
                        /\ nsId[task'[s].asked] = task'[s].ns
                        /\ Stored(task'[s].email)
                        /\ task'[s].op = "storeKey" => users[task'[s].email].kms = task'[s].kms
        BY <3>5, <3>6 DEF Inv, RightKeys
      <3>. QED
        BY <1>1, <3>4, <3>6 DEF RightKeys, Stored
    <2>7. RightAnswers'
      <3>1. \A j \in AccessKey \ {k} : Resolution(j)' = Resolution(j)
        BY <1>1, <2>1 DEF Resolution, Stored
      <3>2. \A j \in AccessKey : Awaited(j) => Awaited(j)'
        BY <1>1, <1>2, <1>5 DEF Awaited, Doing, OnlyTask
      <3>3. \A s \in Task : Doing(s, "lookup")' => Doing(s, "lookup") /\ task'[s] = task[s]
        BY <1>5 DEF Doing, OnlyTask
      <3>4. Minted' \subseteq drawn'
        BY <1>8, <2>2 DEF Inv, RightAnswers
      <3>5. ASSUME NEW j \in AccessKey, cache'[j] # Absent
            PROVE  /\ j \in drawn'
                   /\ (cache[j].overtaken \/ cache[j].answer = Resolution(j) \/ Awaited(j))'
        <4>1. j # k
          BY <1>1, <2>2, <3>5
        <4>. QED
          BY <4>1, <1>1, <1>8, <3>1, <3>2, <3>5 DEF Inv, RightAnswers
      <3>6. ASSUME NEW s \in Task, Doing(s, "lookup")'
            PROVE  /\ task'[s].key \in drawn'
                   /\ (task[s].overtaken \/ task[s].answer = Resolution(task[s].key))'
        <4>1. /\ Doing(s, "lookup") /\ task'[s] = task[s] /\ task[s].key \in drawn
              /\ task[s].overtaken \/ task[s].answer = Resolution(task[s].key)
          BY <3>3, <3>6 DEF Inv, RightAnswers
        <4>2. task[s].key \in AccessKey \ {k}
          BY <4>1, <1>2, CallFields DEF Doing, TypeOK, Looking
        <4>3. Resolution(task[s].key)' = Resolution(task[s].key)
          BY <4>1, <4>2, <3>1
        <4>. QED
          BY <4>1, <4>3, <1>8
      <3>. QED
        BY <3>4, <3>5, <3>6 DEF RightAnswers
    <2>. QED
      BY <2>3, <2>4, <2>5, <2>6, <2>7 DEF Inv
  <1>9. \/ UNCHANGED <<apiKeys, drawn>>
        \/ \E k \in AccessKey \ drawn :
              /\ Stored(task[t].email) /\ \E n \in Namespace : nsId[n] = task[t].ns
              /\ apiKeys' = [apiKeys EXCEPT ![k] = row] /\ drawn' = drawn \cup {k}
    BY DEF InsertToken
  <1>. QED
    BY <1>7, <1>8, <1>9

-----------------------------------------------------------------------------
(* What dies with a process leaves its KMS keys lost.                      *)
LEMMA Abandoned ==
    ASSUME Inv, NEW gone \in SUBSET Task,
           task' = [s \in Task |-> IF s \in gone THEN Idle ELSE task[s]],
           lost' = lost \cup {task[s].kms : s \in {r \in gone : Holds(r)}},
           UNCHANGED <<users, nsId, apiKeys, kmsKeys, drawn>>
    PROVE  OneOwner' /\ RightKeys' /\ lost' \subseteq kmsKeys
  <1>1. TypeOK /\ OneOwner
    BY DEF Inv
  <1>2. \A s \in Task : s \in gone => task'[s] = Idle
    OBVIOUS
  <1>3. \A s \in Task \ gone : task'[s] = task[s]
    OBVIOUS
  <1>4. \A c : Stored(c)' <=> Stored(c)
    BY DEF Stored
  <1>5. \A s \in Task : Holds(s)' <=> Holds(s) /\ s \notin gone
    BY <1>2, <1>3 DEF Holds
  <1>. DEFINE keys == {task[s].kms : s \in {r \in gone : Holds(r)}}
  <1>6. \A d \in keys : \E s \in gone : Holds(s) /\ task[s].kms = d
    OBVIOUS
  <1>7. \A s \in gone : Holds(s) => task[s].kms \in keys
    OBVIOUS
  <1>8. lost' = lost \cup keys
    OBVIOUS
  <1>. HIDE DEF keys
  <1>9. keys \subseteq kmsKeys
    BY <1>1, <1>6 DEF OneOwner
  <1>10. OneOwner'
    <2>1. \A e \in Email : Stored(e)' => users'[e].kms \in kmsKeys' \ lost'
      BY <1>1, <1>4, <1>6, <1>8 DEF OneOwner
    <2>2. \A s \in Task : Holds(s)' => task'[s].kms \in kmsKeys' \ lost'
      BY <1>1, <1>3, <1>5, <1>6, <1>8 DEF OneOwner
    <2>3. \A d, e \in Email : Stored(d)' /\ Stored(e)' /\ users'[d].kms = users'[e].kms => d = e
      BY <1>1, <1>4 DEF OneOwner
    <2>4. \A r, s \in Task : Holds(r)' /\ Holds(s)' /\ task'[r].kms = task'[s].kms => r = s
      BY <1>1, <1>3, <1>5 DEF OneOwner
    <2>5. \A e \in Email, s \in Task : Stored(e)' /\ Holds(s)' => users'[e].kms # task'[s].kms
      BY <1>1, <1>3, <1>4, <1>5 DEF OneOwner
    <2>6. ASSUME NEW d \in kmsKeys' \ lost'
          PROVE  \/ \E e \in Email : Stored(e)' /\ users'[e].kms = d
                 \/ \E s \in Task : Holds(s)' /\ task'[s].kms = d
      <3>1. d \in kmsKeys \ lost /\ d \notin keys
        BY <2>6, <1>8
      <3>2. CASE \E e \in Email : Stored(e) /\ users[e].kms = d
        BY <3>2, <1>4
      <3>3. CASE \E s \in Task : Holds(s) /\ task[s].kms = d
        BY <3>1, <3>3, <1>3, <1>5, <1>7
      <3>. QED
        BY <3>1, <3>2, <3>3, <1>1 DEF OneOwner
    <2>7. kmsKeys' \subseteq drawn'
      BY <1>1 DEF OneOwner
    <2>. QED
      BY <2>1, <2>2, <2>3, <2>4, <2>5, <2>6, <2>7 DEF OneOwner
  <1>11. RightKeys'
    <2>1. \A s \in Task : Makes(s)' => Makes(s) /\ task'[s] = task[s]
      BY <1>2, <1>3 DEF Makes
    <2>. QED
      BY <2>1, RightKeysFrame DEF Inv
  <1>. QED
    BY <1>1, <1>8, <1>9, <1>10, <1>11 DEF TypeOK

(* A crash takes every request's call, and what the server remembers.      *)
LEMMA CrashStep ==
    ASSUME Inv, Crash
    PROVE  Inv'
  <1>1. /\ UNCHANGED <<users, nsId, apiKeys, kmsKeys, drawn, slipped>>
        /\ serving' = FALSE /\ cache' = [k \in AccessKey |-> Absent]
    BY DEF Crash, database
  <1>2. TypeOK
    BY DEF Inv
  <1>. DEFINE gone == {s \in Task : task'[s] = Idle}
  <1>3. task' = [s \in Task |-> IF s \in gone THEN Idle ELSE task[s]]
    BY DEF Crash
  <1>4. lost' = lost \cup {task[s].kms : s \in {r \in gone : Holds(r)}}
    <2>1. Held({task[s] : s \in gone}) = {task[s].kms : s \in {r \in gone : Holds(r)}}
      BY DEF Held, Holds
    <2>. QED
      BY <2>1 DEF Crash
  <1>5. OneOwner' /\ RightKeys' /\ lost' \subseteq kmsKeys'
    BY <1>1, <1>3, <1>4, Abandoned
  <1>6. TypeOK'
    BY <1>1, <1>2, <1>3, <1>5 DEF TypeOK
  <1>7. SomeActiveAdmin'
    BY <1>1, SomeActiveAdminFrame DEF Inv
  <1>8. \A s \in Task : ~ Doing(s, "lookup")'
    <2>1. \A s \in Task : Doing(s, "lookup") => task[s].via = "server"
      BY <1>2, CallFields DEF TypeOK, Doing, Looking
    <2>. QED
      BY <2>1 DEF Crash, Doing
  <1>9. RightAnswers'
    BY <1>1, <1>8 DEF Inv, RightAnswers, Minted
  <1>. QED
    BY <1>5, <1>6, <1>7, <1>9 DEF Inv

(* A command interrupted takes its own.                                    *)
LEMMA InterruptStep ==
    ASSUME Inv, NEW t \in Task, Interrupt(t)
    PROVE  Inv'
  <1>1. UNCHANGED <<users, nsId, apiKeys, kmsKeys, serving, cache, drawn, slipped>>
    BY DEF Interrupt, database
  <1>2. TypeOK /\ task[t] # Idle /\ task[t].via = "cli" /\ task' = [task EXCEPT ![t] = Idle]
    BY DEF Inv, Interrupt, Finish
  <1>3. task' = [s \in Task |-> IF s \in {t} THEN Idle ELSE task[s]]
    BY <1>2 DEF TypeOK
  <1>4. lost' = lost \cup {task[s].kms : s \in {r \in {t} : Holds(r)}}
    <2>1. Held({task[t]}) = {task[s].kms : s \in {r \in {t} : Holds(r)}}
      BY DEF Held, Holds
    <2>. QED
      BY <2>1 DEF Interrupt
  <1>5. OneOwner' /\ RightKeys' /\ lost' \subseteq kmsKeys'
    <2>1. {t} \in SUBSET Task
      OBVIOUS
    <2>. QED
      BY <1>1, <1>3, <1>4, <2>1, Abandoned
  <1>6. task'[t] = Idle /\ OnlyTask(t)
    BY <1>2, OneTask
  <1>7. TypeOK'
    BY <1>1, <1>2, <1>5 DEF TypeOK
  <1>8. SomeActiveAdmin'
    BY <1>1, SomeActiveAdminFrame DEF Inv
  <1>9. ~ Doing(t, "forget")
    BY <1>2, CallFields DEF TypeOK, Doing, ToForget
  <1>10. \A k \in AccessKey : Awaited(k) => Awaited(k)'
    BY <1>1, <1>2, <1>6, <1>9 DEF Awaited, Doing, OnlyTask
  <1>11. \A s \in Task : Doing(s, "lookup")' => Doing(s, "lookup") /\ task'[s] = task[s]
    BY <1>6 DEF Doing, OnlyTask
  <1>12. RightAnswers'
    BY <1>1, <1>2, <1>10, <1>11, RightAnswersFrame DEF Inv
  <1>. QED
    BY <1>5, <1>7, <1>8, <1>12 DEF Inv

-----------------------------------------------------------------------------

(* Whoever takes it, no step breaks the invariant.                         *)
LEMMA NextInv == Inv /\ [Next]_vars => Inv'
  <1>. SUFFICES ASSUME Inv, [Next]_vars PROVE Inv'
    OBVIOUS
  <1>1. CASE Tick
    BY <1>1, TickStep
  <1>2. CASE Serve
    BY <1>2, ServeStep
  <1>3. CASE Crash
    BY <1>3, CrashStep
  <1>4. ASSUME NEW t \in Task, Proceed(t)
        PROVE  Inv'
    BY <1>4, RememberStep, ForgetStep, InsertUserStep, DiscardStep, DeleteUsersKeyStep,
       ReadKeyStep, InsertTokenStep DEF Proceed
  <1>5. ASSUME NEW t \in Task, Interrupt(t)
        PROVE  Inv'
    BY <1>5, InterruptStep
  <1>6. ASSUME NEW t \in Task, NEW k \in AccessKey, Lookup(t, k)
        PROVE  Inv'
    BY <1>6, LookupStep
  <1>7. ASSUME NEW t \in Task, NEW via \in Process, EnsureRoot(t, via)
        PROVE  Inv'
    <2>1. "admin" \in Role /\ Root \in Email
      BY DEF Role
    <2>. QED
      BY <1>7, <2>1, CreateUserStep DEF EnsureRoot
  <1>8. "server" \in Process /\ "cli" \in Process
    BY DEF Process
  <1>9. ASSUME NEW t \in Task, ManageUsers(t)
        PROVE  Inv'
    BY <1>8, <1>9, CreateUserStep, DeleteUserStep DEF ManageUsers, Open
  <1>10. ASSUME NEW t \in Task, ManageAccounts(t)
         PROVE  Inv'
    BY <1>8, <1>10, SetRoleStep, SetDisabledStep DEF ManageAccounts
  <1>11. ASSUME NEW t \in Task, ManageTokens(t)
         PROVE  Inv'
    BY <1>8, <1>11, CreateTokenStep, DeleteTokenStep DEF ManageTokens
  <1>12. ASSUME NEW t \in Task, ManageNamespaces(t)
         PROVE  Inv'
    BY <1>8, <1>12, CreateNamespaceStep, DeleteNamespaceStep DEF ManageNamespaces
  <1>13. ASSUME NEW t \in Task, Execute(t)
         PROVE  Inv'
    <2>1. CASE ExecuteUser(t)
      BY <1>8, <2>1, CreateUserStep, SetRoleStep, SetDisabledStep, DeleteUserStep
         DEF ExecuteUser, Open
    <2>2. CASE ExecuteApiKey(t)
      BY <1>8, <2>2, CreateTokenStep, DeleteTokenStep DEF ExecuteApiKey
    <2>3. CASE ExecuteNamespace(t)
      BY <1>8, <2>3, CreateNamespaceStep, DeleteNamespaceStep DEF ExecuteNamespace
    <2>. QED
      BY <1>13, <2>1, <2>2, <2>3 DEF Execute
  <1>14. CASE UNCHANGED vars
    <2>1. UNCHANGED <<users, nsId, apiKeys, kmsKeys, serving, cache, task, drawn, lost, slipped>>
      BY <1>14 DEF vars, database, history
    <2>2. TypeOK' /\ SomeActiveAdmin'
      BY <2>1, SomeActiveAdminFrame DEF Inv, TypeOK
    <2>3. OneOwner' /\ RightKeys'
      BY <2>1, OneOwnerFrame, RightKeysFrame DEF Inv, Holds, Makes
    <2>4. RightAnswers'
      BY <2>1, RightAnswersFrame DEF Inv, Awaited, Doing
    <2>. QED
      BY <2>2, <2>3, <2>4 DEF Inv
  <1>. QED
    BY <1>1, <1>2, <1>3, <1>4, <1>5, <1>6, <1>7, <1>9, <1>10, <1>11, <1>12, <1>13, <1>14
    DEF Next

-----------------------------------------------------------------------------

(* Every call of the server and of the command line, every crash and every *)
(* failure of the KMS keeps the invariant.                                 *)
THEOREM Invariance == Spec => []Inv
  BY InitInv, NextInv, PTL DEF Spec

(* Rows, calls in flight and remembered answers have their types, and what *)
(* is lost is still in the KMS.                                            *)
THEOREM TypeCorrect == Spec => []TypeOK
  <1>1. Inv => TypeOK
    BY DEF Inv
  <1>. QED
    BY Invariance, <1>1, PTL

(* However many admins delete, demote and disable each other, from both    *)
(* processes, an active one is left.                                       *)
THEOREM SomeoneAdministers == Spec => []SomeActiveAdmin
  <1>1. Inv => SomeActiveAdmin
    BY DEF Inv
  <1>. QED
    BY Invariance, <1>1, PTL

(* A user's KMS key exists as long as the user, and one that exists is a   *)
(* user's, a call's or lost in a crash or with the KMS.                    *)
THEOREM KmsKeysOwned == Spec => []KmsKeysAccountedFor
  <1>1. ASSUME Inv
        PROVE  KmsKeysAccountedFor
    <2>1. InUse \subseteq kmsKeys
      BY <1>1 DEF Inv, OneOwner, InUse
    <2>2. ASSUME NEW d \in kmsKeys \ lost
          PROVE  d \in InUse \cup Held({task[t] : t \in Task})
      <3>1. CASE \E e \in Email : Stored(e) /\ users[e].kms = d
        BY <3>1 DEF InUse
      <3>2. CASE \E t \in Task : Holds(t) /\ task[t].kms = d
        BY <3>2 DEF Held, Holds
      <3>. QED
        BY <1>1, <3>1, <3>2 DEF Inv, OneOwner
    <2>. QED
      BY <2>1, <2>2 DEF KmsKeysAccountedFor
  <1>. QED
    BY Invariance, <1>1, PTL

(* An API key is of a user and in a namespace that exist, the ones it was  *)
(* asked for unless they were deleted while it was being made.             *)
THEOREM KeysStayWithOwners == Spec => []KeysAreTheirOwners
  <1>1. Inv => KeysAreTheirOwners
    BY DEF Inv, RightKeys, KeysAreTheirOwners
  <1>. QED
    BY Invariance, <1>1, PTL

(* The server is about to forget every signing key it remembers wrongly,   *)
(* but for those remembered after their revocation or revoked by a process *)
(* that cannot tell it.                                                    *)
THEOREM RevocationsReach == Spec => []RevokedKeysForgotten
  <1>1. Inv => RevokedKeysForgotten
    BY DEF Inv, RightAnswers, RevokedKeysForgotten, Fresh, Awaited
  <1>. QED
    BY Invariance, <1>1, PTL
=============================================================================
