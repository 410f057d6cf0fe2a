---------------------------- MODULE ServerProofs ----------------------------
(***************************************************************************)
(* What holds of servers for every number of processes, directories and    *)
(* receives.  A process's own part of the invariant follows its start; the *)
(* receives' part says why none is in flight when the grace period ends:   *)
(* once the server is stopping all of them are ready to go on, and time    *)
(* does not pass while one is.                                             *)
(***************************************************************************)
EXTENDS Server, TLAPS

USE StartupAssumption, PollAssumption, ServerAssumption
    DEF StartupAssumption, PollAssumption, ServerAssumption

-----------------------------------------------------------------------------
(* Settings.                                                               *)

(* The settings a process loads: the command line's directory, else the    *)
(* environment's, else the default; an empty password is none.             *)
LEMMA Loaded ==
    ASSUME NEW environment \in Config, NEW dir \in Directory \cup {Unset},
           Valid(LoadConfig(environment, dir))
    PROVE  /\ LoadConfig(environment, dir) \in Settled
           /\ LoadConfig(environment, dir).db_path =
                IF dir # Unset THEN dir
                ELSE IF environment.db_path # Unset THEN environment.db_path ELSE DefaultDir
           /\ LoadConfig(environment, dir).root_password =
                IF environment.root_password = Empty THEN Unset ELSE environment.root_password
  <1> DEFINE config == LoadConfig(environment, dir)
             once == Apply(Defaults, environment)
  <1>1. once = [db_path |-> IF environment.db_path # Unset THEN environment.db_path
                            ELSE DefaultDir,
                sessions_db_path |-> environment.sessions_db_path,
                default_max_retries |->
                    IF environment.default_max_retries # Unset
                    THEN environment.default_max_retries ELSE 2,
                root_password |-> IF environment.root_password = Empty THEN Unset
                                  ELSE environment.root_password]
    BY DEF Apply, Defaults, Config
  <1>2. DataDirLayer(dir) = [db_path |-> dir, sessions_db_path |-> Unset,
                             default_max_retries |-> Unset, root_password |-> Unset]
    BY DEF DataDirLayer, NoConfig
  <1>3. config = [db_path |-> IF dir # Unset THEN dir ELSE once.db_path,
                  sessions_db_path |-> once.sessions_db_path,
                  default_max_retries |-> once.default_max_retries,
                  root_password |-> once.root_password]
    BY <1>1, <1>2 DEF LoadConfig, Apply
  <1>4. config \in Config /\ config.db_path # Unset /\ config.default_max_retries \in Nat
        /\ config.root_password # Empty
    BY <1>1, <1>3 DEF Config
  <1> QED
    BY <1>1, <1>3, <1>4 DEF Settled

-----------------------------------------------------------------------------
(* Starts.                                                                 *)

(* A process that resets the root user's password was given one, and one   *)
(* that is past storing its key finds one in the database.                 *)
Good(p) ==
    /\ Reached(p, "reset") => Provided(process[p].config) # Unset
    /\ Reached(p, "read") => secret[Of(p)] # Unset
    /\ Reached(p, "ready") /\ process[p].kind = "server"
         => process[p].key # Unset /\ process[p].key = secret[Of(p)]

StartInv == StartTypeOK /\ \A p \in Process : Good(p)

(* What is true of a process's next state is enough, as long as the keys   *)
(* stored stay.                                                            *)
LEMMA OneProcess ==
    ASSUME StartInv, NEW p \in Process, NEW r \in Running \cup {Off},
           process' = [process EXCEPT ![p] = r],
           secret' \in [Directory -> Key \cup {Unset}],
           \A d \in Directory : secret[d] # Unset => secret'[d] = secret[d],
           r # Off =>
               /\ r.at = "reset" => Provided(r.config) # Unset
               /\ r.at = "read" => secret'[r.config.db_path] # Unset
               /\ r.at = "ready" /\ r.kind = "server"
                    => r.key # Unset /\ r.key = secret'[r.config.db_path]
    PROVE  /\ process' \in [Process -> Running \cup {Off}]
           /\ \A q \in Process : Good(q)'
  <1>1. process' \in [Process -> Running \cup {Off}]
    BY DEF StartInv, StartTypeOK
  <1>2. ASSUME NEW q \in Process PROVE Good(q)'
    <2>1. CASE q = p
      <3>1. process'[q] = r
        BY <2>1 DEF StartInv, StartTypeOK
      <3> QED BY <3>1 DEF Good, Reached, Of
    <2>2. CASE q # p
      <3>1. process'[q] = process[q] /\ Good(q)
        BY <2>2 DEF StartInv, StartTypeOK
      <3>2. process[q] # Off => process[q].config.db_path \in Directory
        BY DEF StartInv, StartTypeOK, Running, Settled, Config
      <3> QED BY <3>1, <3>2 DEF Good, Reached, Of
    <2> QED BY <2>1, <2>2
  <1> QED BY <1>1, <1>2

(* A process that is running has settings, and a directory.                *)
LEMMA Runs ==
    ASSUME StartInv, NEW p \in Process, process[p] # Off
    PROVE  /\ process[p] \in Running
           /\ process[p].config \in Settled
           /\ Of(p) \in Directory
  BY DEF StartInv, StartTypeOK, Running, Settled, Config, Of

(* Whatever a process is given, its start leads to a state like these.     *)
LEMMA LaunchStep ==
    ASSUME StartInv, NEW p \in Process, NEW kind \in {"server", "command"},
           NEW environment \in Environments, NEW dir \in DataDirs,
           Launch(p, kind, environment, dir)
    PROVE  StartInv'
  <1> DEFINE config == LoadConfig(environment, dir)
             r == [kind |-> kind, config |-> config, at |-> "version", seen |-> 0,
                   key |-> Unset]
  <1>1. config \in Settled
    BY Loaded DEF Launch
  <1> HIDE DEF config
  <1>2. r \in Running
    BY <1>1 DEF Running
  <1>3. process' = [process EXCEPT ![p] = r] /\ UNCHANGED <<schema, root, secret, tables>>
    BY DEF Launch, config
  <1>4. process' \in [Process -> Running \cup {Off}] /\ \A q \in Process : Good(q)'
    BY <1>2, <1>3, OneProcess DEF StartInv, StartTypeOK
  <1> QED BY <1>3, <1>4 DEF StartInv, StartTypeOK

(* A process that ends or crashes leaves the files as they are.            *)
LEMMA OffStep ==
    ASSUME StartInv, NEW p \in Process, process' = [process EXCEPT ![p] = Off],
           UNCHANGED <<schema, root, secret, tables>>
    PROVE  StartInv'
  <1>1. process' \in [Process -> Running \cup {Off}] /\ \A q \in Process : Good(q)'
    BY OneProcess DEF StartInv, StartTypeOK
  <1> QED BY <1>1 DEF StartInv, StartTypeOK

(* Every step of a start.                                                  *)
LEMMA AdvanceStep ==
    ASSUME StartInv, NEW p \in Process, Advance(p)
    PROVE  StartInv'
  <1> DEFINE d == Of(p)
  <1>0. process[p] # Off
    BY DEF Advance, ReadVersion, Migrate, CheckRoot, CreateRoot, ResetRoot, OpenSessions,
           StoreKey, ReadKey, Reached
  <1>1. process[p] \in Running /\ process[p].config \in Settled /\ d \in Directory
    BY <1>0, Runs
  <1>2. schema[d] \in 0 .. Migrations /\ process[p].seen \in 0 .. Migrations
        /\ secret[d] \in Key \cup {Unset}
    BY <1>1 DEF StartInv, StartTypeOK, Running
  <1>3. RootPassword(process[p].config) \in Password
    BY <1>1 DEF RootPassword, Provided, Settled, Config
  <1>4. Afterwards(p) \in {"sessions", "ready"}
        /\ (Afterwards(p) = "ready" => process[p].kind # "server")
    BY DEF Afterwards
  <1> HIDE DEF d
  <1>a. CASE ReadVersion(p)
    <2> DEFINE r == [process[p] EXCEPT !.seen = schema[d], !.at = "migrate"]
    <2>1. r \in Running /\ r.at = "migrate"
      BY <1>1, <1>2 DEF Running
    <2>2. process' = [process EXCEPT ![p] = r] /\ UNCHANGED <<schema, root, secret, tables>>
      BY <1>a DEF ReadVersion, d
    <2> HIDE DEF r
    <2>3. process' \in [Process -> Running \cup {Off}] /\ \A q \in Process : Good(q)'
      BY <2>1, <2>2, OneProcess DEF StartInv, StartTypeOK
    <2> QED BY <2>2, <2>3 DEF StartInv, StartTypeOK
  <1>b. CASE Migrate(p)
    <2>1. CASE process[p].seen = Migrations
      <3> DEFINE r == [process[p] EXCEPT !.at = "check"]
      <3>1. r \in Running /\ r.at = "check"
        BY <1>1 DEF Running
      <3>2. process' = [process EXCEPT ![p] = r] /\ UNCHANGED <<schema, root, secret, tables>>
        BY <1>b, <2>1, <1>2 DEF Migrate, To
      <3> HIDE DEF r
      <3>3. process' \in [Process -> Running \cup {Off}] /\ \A q \in Process : Good(q)'
        BY <3>1, <3>2, OneProcess DEF StartInv, StartTypeOK
      <3> QED BY <3>2, <3>3 DEF StartInv, StartTypeOK
    <2>2. CASE process[p].seen < Migrations /\ process[p].seen = schema[d]
      <3> DEFINE r == [process[p] EXCEPT !.seen = @ + 1]
      <3>1. r \in Running /\ r.at = "migrate"
        BY <1>b, <1>1, <1>2, <2>2 DEF Running, Migrate, Reached
      <3>2. /\ process' = [process EXCEPT ![p] = r]
            /\ schema' = [schema EXCEPT ![d] = @ + 1]
            /\ UNCHANGED <<root, secret, tables>>
        BY <1>b, <2>2, <1>2 DEF Migrate, d
      <3> HIDE DEF r
      <3>3. process' \in [Process -> Running \cup {Off}] /\ \A q \in Process : Good(q)'
        BY <3>1, <3>2, OneProcess DEF StartInv, StartTypeOK
      <3>4. schema[d] + 1 \in 0 .. Migrations
        BY <1>2, <2>2
      <3>5. schema' \in [Directory -> 0 .. Migrations]
        BY <3>2, <3>4 DEF StartInv, StartTypeOK
      <3> QED BY <3>2, <3>3, <3>5 DEF StartInv, StartTypeOK
    <2>3. CASE process[p].seen < Migrations /\ process[p].seen # schema[d]
      <3>1. process' = [process EXCEPT ![p] = Off] /\ UNCHANGED <<schema, root, secret, tables>>
        BY <1>b, <2>3, <1>2 DEF Migrate, d
      <3> QED BY <3>1, OffStep
    <2> QED BY <1>2, <2>1, <2>2, <2>3
  <1>c. CASE CheckRoot(p)
    <2> DEFINE at == IF root[d] = Unset THEN "create"
                     ELSE IF Provided(process[p].config) # Unset THEN "reset"
                     ELSE Afterwards(p)
               r == [process[p] EXCEPT !.at = at]
    <2>1. /\ at \in {"create", "reset", "sessions", "ready"}
          /\ at = "reset" => Provided(process[p].config) # Unset
          /\ at = "ready" => process[p].kind # "server"
      BY <1>4
    <2>2. process' = [process EXCEPT ![p] = r] /\ UNCHANGED <<schema, root, secret, tables>>
      BY <1>c DEF CheckRoot, To, d
    <2> HIDE DEF at
    <2>3. r \in Running /\ r.at = at /\ r.kind = process[p].kind /\ r.config = process[p].config
      BY <1>1, <2>1 DEF Running
    <2> HIDE DEF r
    <2>4. process' \in [Process -> Running \cup {Off}] /\ \A q \in Process : Good(q)'
      BY <2>1, <2>2, <2>3, OneProcess DEF StartInv, StartTypeOK
    <2> QED BY <2>2, <2>4 DEF StartInv, StartTypeOK
  <1>d. CASE CreateRoot(p) \/ ResetRoot(p)
    <2> DEFINE r == [process[p] EXCEPT !.at = Afterwards(p)]
    <2>1. r \in Running /\ r.at = Afterwards(p) /\ r.kind = process[p].kind
      BY <1>1, <1>4 DEF Running
    <2>2. process' = [process EXCEPT ![p] = r] /\ UNCHANGED <<schema, secret, tables>>
      BY <1>d DEF CreateRoot, ResetRoot, SetRoot, To
    <2> HIDE DEF r
    <2>3. process' \in [Process -> Running \cup {Off}] /\ \A q \in Process : Good(q)'
      BY <1>4, <2>1, <2>2, OneProcess DEF StartInv, StartTypeOK
    <2>4. root' \in [Directory -> Password \cup {Unset}]
      BY <1>d, <1>1, <1>3 DEF CreateRoot, ResetRoot, SetRoot, StartInv, StartTypeOK
    <2> QED BY <2>2, <2>3, <2>4 DEF StartInv, StartTypeOK
  <1>e. CASE OpenSessions(p)
    <2> DEFINE r == [process[p] EXCEPT !.at = "store"]
    <2>1. r \in Running /\ r.at = "store"
      BY <1>1 DEF Running
    <2>2. /\ process' = [process EXCEPT ![p] = r]
          /\ tables' = tables \cup {SessionsDb(process[p].config)}
          /\ UNCHANGED <<schema, root, secret>>
      BY <1>e DEF OpenSessions, To
    <2>3. SessionsDb(process[p].config) \in Directory
      BY <1>1 DEF SessionsDb, Settled, Config
    <2> HIDE DEF r
    <2>4. process' \in [Process -> Running \cup {Off}] /\ \A q \in Process : Good(q)'
      BY <2>1, <2>2, OneProcess DEF StartInv, StartTypeOK
    <2> QED BY <2>2, <2>3, <2>4 DEF StartInv, StartTypeOK
  <1>f. CASE StoreKey(p)
    <2> DEFINE r == [process[p] EXCEPT !.key = NewKey, !.at = "read"]
    <2>1. NewKey \in Key
      BY <1>f DEF StoreKey
    <2>2. /\ process' = [process EXCEPT ![p] = r]
          /\ secret' = [secret EXCEPT ![d] = IF @ = Unset THEN NewKey ELSE @]
          /\ UNCHANGED <<schema, root, tables>>
      BY <1>f DEF StoreKey, d
    <2> DEFINE k == NewKey
    <2> HIDE DEF k
    <2>3. r \in Running /\ r.at = "read" /\ r.config.db_path = d
      BY <1>1, <2>1 DEF Running, d, Of
    <2>4. /\ secret' \in [Directory -> Key \cup {Unset}]
          /\ secret'[d] # Unset
          /\ \A e \in Directory : secret[e] # Unset => secret'[e] = secret[e]
      BY <1>1, <2>1, <2>2 DEF StartInv, StartTypeOK
    <2> HIDE DEF r
    <2>5. process' \in [Process -> Running \cup {Off}] /\ \A q \in Process : Good(q)'
      BY <2>2, <2>3, <2>4, OneProcess
    <2> QED BY <2>2, <2>4, <2>5 DEF StartInv, StartTypeOK
  <1>g. CASE ReadKey(p)
    <2> DEFINE r == [process[p] EXCEPT !.key = secret[d], !.at = "ready"]
    <2>1. process' = [process EXCEPT ![p] = r] /\ UNCHANGED <<schema, root, secret, tables>>
      BY <1>g DEF ReadKey, d
    <2>2. secret[d] # Unset
      BY <1>g DEF ReadKey, StartInv, Good, d
    <2>3. r \in Running /\ r.at = "ready" /\ r.key = secret[d] /\ r.config.db_path = d
      BY <1>1, <1>2 DEF Running, d, Of
    <2> HIDE DEF r
    <2>4. process' \in [Process -> Running \cup {Off}] /\ \A q \in Process : Good(q)'
      BY <2>1, <2>2, <2>3, OneProcess DEF StartInv, StartTypeOK
    <2> QED BY <2>1, <2>4 DEF StartInv, StartTypeOK
  <1> QED
    BY <1>a, <1>b, <1>c, <1>d, <1>e, <1>f, <1>g DEF Advance

(* The root user's own password leaves the processes alone.                *)
LEMMA OwnStep ==
    ASSUME StartInv, NEW d \in Directory, ChooseOwn(d)
    PROVE  StartInv'
  <1>1. root' \in [Directory -> Password \cup {Unset}]
    BY DEF ChooseOwn, SetRoot, StartInv, StartTypeOK
  <1> QED
    BY <1>1 DEF ChooseOwn, SetRoot, StartInv, StartTypeOK, Good, Reached, Of

(* A step of the receives leaves the starts alone.                         *)
LEMMA StartStutter ==
    ASSUME StartInv, UNCHANGED startVars
    PROVE  StartInv'
  BY DEF startVars, StartInv, StartTypeOK, Good, Reached, Of

-----------------------------------------------------------------------------
(* Receives.                                                               *)

(* A receive that sleeps till its next look has time for it.               *)
Rested(p) == Is(p, "sleep") /\ poll[p].nap = 1 => poll[p].left >= 1

(* A server that is stopping has said so, and has all of its grace period  *)
(* left: time passes only when nothing is ready to go on, and all receives *)
(* are once they have been told.                                           *)
PollInv ==
    /\ PollTypeOK
    /\ \A p \in Poll : Rested(p)
    /\ server \in {"terminating", "quitting", "draining"} => stopping
    /\ server = "draining" => grace = Grace

(* What is true of a receive's next state is enough.                       *)
LEMMA OnePoll ==
    ASSUME PollInv, NEW p \in Poll, NEW r \in Waiting \cup {NoPoll},
           poll' = [poll EXCEPT ![p] = r],
           r # NoPoll /\ r.at = "sleep" /\ r.nap = 1 => r.left >= 1
    PROVE  /\ poll' \in [Poll -> Waiting \cup {NoPoll}]
           /\ \A q \in Poll : Rested(q)'
  <1>1. poll' \in [Poll -> Waiting \cup {NoPoll}]
    BY DEF PollInv, PollTypeOK
  <1>2. ASSUME NEW q \in Poll PROVE Rested(q)'
    <2>1. CASE q = p
      <3>1. poll'[q] = r
        BY <2>1 DEF PollInv, PollTypeOK
      <3> QED BY <3>1 DEF Rested, Is, Busy
    <2>2. CASE q # p
      <3>1. poll'[q] = poll[q] /\ Rested(q)
        BY <2>2 DEF PollInv, PollTypeOK
      <3> QED BY <3>1 DEF Rested, Is, Busy
    <2> QED BY <2>1, <2>2
  <1> QED BY <1>1, <1>2

(* Every step of a receive.                                                *)
LEMMA PollStepStep ==
    ASSUME PollInv, NEW p \in Poll, PollStep(p)
    PROVE  PollInv'
  <1>0. p \in Busy /\ poll[p] \in Waiting
    BY DEF PollStep, ReadWait, Look, Answer, Sleep, Wake, Is, Busy, PollInv, PollTypeOK
  <1>a. CASE \E attribute \in Waits \cup {0} : ReadWait(p, attribute)
    <2>1. PICK attribute \in Waits \cup {0} : ReadWait(p, attribute)
      BY <1>a
    <2> DEFINE left == IF queue = NoQueue THEN 0 ELSE Least(attribute, MaxWait)
               r == [poll[p] EXCEPT !.at = "look", !.left = left]
    <2>2. left \in 0 .. MaxWait
      BY DEF Least
    <2>3. poll' = [poll EXCEPT ![p] = r] /\ UNCHANGED <<queue, stored, server, stopping, grace>>
      BY <2>1 DEF ReadWait
    <2> HIDE DEF left
    <2>4. r \in Waiting /\ r.at = "look"
      BY <1>0, <2>2 DEF Waiting
    <2> HIDE DEF r
    <2>5. poll' \in [Poll -> Waiting \cup {NoPoll}] /\ \A q \in Poll : Rested(q)'
      BY <2>3, <2>4, OnePoll
    <2> QED BY <2>3, <2>5 DEF PollInv, PollTypeOK
  <1>b. CASE \E id \in QueueId : Look(p, id)
    <2>1. PICK id \in QueueId : Look(p, id)
      BY <1>b
    <2>2. UNCHANGED <<queue, server, stopping, grace>>
      BY <2>1 DEF Look
    <2>3. CASE queue = id
      <3>1. PICK n \in 0 .. stored : /\ stored' = stored - n
                                     /\ poll' = [poll EXCEPT ![p] =
                                          [@ EXCEPT !.at = "decide", !.found = n]]
        BY <2>1, <2>3 DEF Look
      <3> DEFINE r == [poll[p] EXCEPT !.at = "decide", !.found = n]
      <3>2. n \in 0 .. MaxStored /\ stored' \in 0 .. MaxStored
        BY <3>1 DEF PollInv, PollTypeOK
      <3>3. r \in Waiting /\ r.at = "decide"
        BY <1>0, <3>2 DEF Waiting
      <3>4. poll' = [poll EXCEPT ![p] = r]
        BY <3>1
      <3> HIDE DEF r
      <3>5. poll' \in [Poll -> Waiting \cup {NoPoll}] /\ \A q \in Poll : Rested(q)'
        BY <3>3, <3>4, OnePoll
      <3> QED BY <2>2, <3>2, <3>5 DEF PollInv, PollTypeOK
    <2>4. CASE queue # id
      <3>1. poll' = [poll EXCEPT ![p] = NoPoll] /\ UNCHANGED stored
        BY <2>1, <2>4 DEF Look
      <3>2. poll' \in [Poll -> Waiting \cup {NoPoll}] /\ \A q \in Poll : Rested(q)'
        BY <3>1, OnePoll
      <3> QED BY <2>2, <3>1, <3>2 DEF PollInv, PollTypeOK
    <2> QED BY <2>3, <2>4
  <1>c. CASE Answer(p)
    <2>1. /\ poll' = [poll EXCEPT ![p] = NoPoll]
          /\ UNCHANGED <<queue, stored, server, stopping, grace>>
      BY <1>c DEF Answer
    <2>2. poll' \in [Poll -> Waiting \cup {NoPoll}] /\ \A q \in Poll : Rested(q)'
      BY <2>1, OnePoll
    <2> QED BY <2>1, <2>2 DEF PollInv, PollTypeOK
  <1>d. CASE Sleep(p)
    <2> DEFINE r == [poll[p] EXCEPT !.at = "sleep", !.nap = 1]
    <2>1. poll' = [poll EXCEPT ![p] = r] /\ UNCHANGED <<queue, stored, server, stopping, grace>>
      BY <1>d DEF Sleep
    <2>2. 1 \in 0 .. 1
      OBVIOUS
    <2>3. r \in Waiting /\ r.left = poll[p].left
      BY <1>0, <2>2 DEF Waiting
    <2>4. poll[p].left >= 1
      BY <1>d, <1>0 DEF Sleep, Done, Waiting
    <2> HIDE DEF r
    <2>5. poll' \in [Poll -> Waiting \cup {NoPoll}] /\ \A q \in Poll : Rested(q)'
      BY <2>1, <2>3, <2>4, OnePoll
    <2> QED BY <2>1, <2>5 DEF PollInv, PollTypeOK
  <1>e. CASE Wake(p)
    <2> DEFINE r == [poll[p] EXCEPT !.at = "look", !.nap = 0]
    <2>1. poll' = [poll EXCEPT ![p] = r] /\ UNCHANGED <<queue, stored, server, stopping, grace>>
      BY <1>e DEF Wake
    <2>2. 0 \in 0 .. 1
      OBVIOUS
    <2>3. r \in Waiting /\ r.at = "look"
      BY <1>0, <2>2 DEF Waiting
    <2> HIDE DEF r
    <2>4. poll' \in [Poll -> Waiting \cup {NoPoll}] /\ \A q \in Poll : Rested(q)'
      BY <2>1, <2>3, OnePoll
    <2> QED BY <2>1, <2>4 DEF PollInv, PollTypeOK
  <1> QED
    BY <1>a, <1>b, <1>c, <1>d, <1>e DEF PollStep

(* A new receive, and one whose client is gone.                            *)
LEMMA RequestsStep ==
    ASSUME PollInv, Requests
    PROVE  PollInv'
  <1>a. CASE \E p \in Poll, wait \in {w \in Waits : w <= MaxWait} \cup {-1} : Receive(p, wait)
    <2>1. PICK p \in Poll, wait \in {w \in Waits : w <= MaxWait} \cup {-1} : Receive(p, wait)
      BY <1>a
    <2> DEFINE at == IF wait = -1 THEN "wait" ELSE "look"
               left == IF wait = -1 THEN 0 ELSE wait
               r == [at |-> at, queue |-> queue, left |-> left, nap |-> 0, found |-> 0]
    <2>2. /\ poll' = [poll EXCEPT ![p] = r]
          /\ UNCHANGED <<queue, stored, server, stopping, grace>>
          /\ queue \in QueueId
      BY <2>1 DEF Receive, PollInv, PollTypeOK
    <2>3. at \in {"wait", "look"} /\ left \in 0 .. MaxWait
      OBVIOUS
    <2> HIDE DEF at, left
    <2>4. 0 \in 0 .. 1 /\ 0 \in 0 .. MaxStored
      OBVIOUS
    <2>5. r \in Waiting /\ r.at # "sleep"
      BY <2>2, <2>3, <2>4 DEF Waiting
    <2> HIDE DEF r
    <2>6. p \in Poll
      BY <2>1
    <2>7. poll' \in [Poll -> Waiting \cup {NoPoll}] /\ \A q \in Poll : Rested(q)'
      BY <2>2, <2>5, <2>6, OnePoll
    <2> QED BY <2>2, <2>7 DEF PollInv, PollTypeOK
  <1>b. CASE \E p \in Poll : Disconnect(p)
    <2>1. PICK p \in Poll : Disconnect(p)
      BY <1>b
    <2>2. poll' \in [Poll -> Waiting \cup {NoPoll}] /\ \A q \in Poll : Rested(q)'
      BY <2>1, OnePoll DEF Disconnect
    <2> QED BY <2>1, <2>2 DEF Disconnect, PollInv, PollTypeOK
  <1>c. CASE Send \/ DeleteQueue \/ CreateQueue
    <2>1. stored' \in 0 .. MaxStored
      BY <1>c DEF Send, DeleteQueue, CreateQueue, PollInv, PollTypeOK
    <2>2. queue' \in QueueId \cup {NoQueue} /\ UNCHANGED <<poll, server, stopping, grace>>
      BY <1>c DEF Send, DeleteQueue, CreateQueue, PollInv, PollTypeOK
    <2> QED
      BY <2>1, <2>2 DEF PollInv, PollTypeOK, Rested, Is, Busy
  <1> QED BY <1>a, <1>b, <1>c DEF Requests

(* A server that starts to serve, is told to stop, drains and goes down.   *)
LEMMA ServingStep ==
    ASSUME PollInv,
           Listen \/ (\E graceful \in BOOLEAN : Signal(graceful)) \/ Drain \/ Down
    PROVE  PollInv'
  <1>a. CASE Listen
    BY <1>a DEF Listen, PollInv, PollTypeOK, Rested, Is, Busy
  <1>b. CASE \E graceful \in BOOLEAN : Signal(graceful)
    BY <1>b DEF Signal, PollInv, PollTypeOK, Rested, Is, Busy
  <1>c. CASE Drain
    BY <1>c DEF Drain, PollInv, PollTypeOK, Rested, Is, Busy
  <1>d. CASE Down
    <2>1. \A p \in Poll : poll'[p] = NoPoll
      BY <1>d DEF Down
    <2>2. \A p \in Poll : Rested(p)'
      BY <2>1 DEF Rested, Is, Busy
    <2>3. 0 \in 0 .. Grace
      OBVIOUS
    <2> QED
      BY <1>d, <2>2, <2>3 DEF Down, PollInv, PollTypeOK
  <1> QED BY <1>a, <1>b, <1>c, <1>d

(* Time passes for receives that sleep and have time left, and never while *)
(* the server is stopping.                                                 *)
LEMMA TickStep ==
    ASSUME PollInv, Tick
    PROVE  PollInv' /\ ~ stopping
  <1>1. PICK q \in Poll : q \in Busy
    BY DEF Tick, Busy
  <1>2. ~ stopping
    BY <1>1 DEF Tick, Ready, IsCancelled, Is, Busy
  <1>3. ASSUME NEW p \in Poll, p \in Busy
        PROVE  /\ poll'[p] = [poll[p] EXCEPT !.left = poll[p].left - 1, !.nap = 0]
               /\ poll'[p] \in Waiting
               /\ poll'[p].nap = 0
    <2>1. poll'[p] = [poll[p] EXCEPT !.left = poll[p].left - 1, !.nap = 0]
      BY <1>3 DEF Tick
    <2>2. poll[p] \in Waiting
      BY <1>3 DEF PollInv, PollTypeOK, Busy
    <2>3. Is(p, "sleep") /\ poll[p].nap = 1
      <3>1. poll[p].at = "sleep" /\ poll[p].nap # 0
        BY <1>3 DEF Tick, Ready, Is
      <3>2. poll[p].nap \in 0 .. 1
        BY <2>2 DEF Waiting
      <3> QED BY <1>3, <3>1, <3>2 DEF Is
    <2>4. poll[p].left - 1 \in 0 .. MaxWait
      BY <2>2, <2>3 DEF PollInv, Rested, Waiting
    <2>5. 0 \in 0 .. 1
      OBVIOUS
    <2>6. poll'[p] \in Waiting /\ poll'[p].nap = 0
      BY <2>1, <2>2, <2>4, <2>5 DEF Waiting
    <2> QED BY <2>1, <2>6
  <1>4. \A p \in Poll : p \notin Busy => poll'[p] = NoPoll
    BY DEF Tick
  <1>5. poll' \in [Poll -> Waiting \cup {NoPoll}]
    BY <1>3, <1>4 DEF Tick
  <1>6. \A p \in Poll : Rested(p)'
    <2> SUFFICES ASSUME NEW p \in Poll PROVE Rested(p)'
      OBVIOUS
    <2>1. CASE p \in Busy
      <3>1. poll'[p].nap = 0
        BY <1>3, <2>1
      <3>2. poll'[p].nap # 1
        BY <3>1
      <3> QED BY <3>2 DEF Rested, Is
    <2>2. CASE p \notin Busy
      BY <1>4, <2>2 DEF Rested, Is, Busy
    <2> QED BY <2>1, <2>2
  <1>7. grace' \in 0 .. Grace
    <2>1. grace \in 0 .. Grace /\ grace' = IF grace > 0 THEN grace - 1 ELSE 0
      BY DEF Tick, PollInv, PollTypeOK
    <2> QED BY <2>1
  <1> QED
    BY <1>2, <1>5, <1>6, <1>7 DEF Tick, PollInv, PollTypeOK

(* A step of the starts leaves the receives alone.                         *)
LEMMA PollStutter ==
    ASSUME PollInv, UNCHANGED pollVars
    PROVE  PollInv'
  BY DEF pollVars, PollInv, PollTypeOK, Rested, Is, Busy

-----------------------------------------------------------------------------
(* The server.                                                             *)

Inv == StartInv /\ PollInv

(* Nothing has started.                                                    *)
LEMMA InitInv == Init => Inv
  <1> SUFFICES ASSUME Init PROVE Inv
    OBVIOUS
  <1>1. StartInv
    <2>1. \A p \in Process : process[p] = Off
      BY DEF Init, StartInit
    <2>2. \A p \in Process : Good(p)
      BY <2>1 DEF Good, Reached
    <2>3. 0 \in 0 .. Migrations
      OBVIOUS
    <2> QED
      BY <2>2, <2>3 DEF Init, StartInit, StartInv, StartTypeOK
  <1>2. PollInv
    <2>1. \A p \in Poll : poll[p] = NoPoll
      BY DEF Init, PollInit
    <2>2. \A p \in Poll : Rested(p)
      BY <2>1 DEF Rested, Is, Busy
    <2>3. 0 \in 0 .. MaxStored /\ 0 \in 0 .. Grace
      OBVIOUS
    <2> QED
      BY <2>2, <2>3 DEF Init, PollInit, PollInv, PollTypeOK
  <1> QED BY <1>1, <1>2 DEF Inv

(* Every step of the server keeps both parts.                              *)
LEMMA NextInv == Inv /\ [Next]_vars => Inv'
  <1> SUFFICES ASSUME Inv, [Next]_vars PROVE Inv'
    OBVIOUS
  <1> USE DEF Inv
  <1>1. ASSUME NEW p \in Process, Start(p) PROVE Inv'
    <2>1. PICK environment \in Environments, dir \in DataDirs, kind \in {"server", "command"} :
             Launch(p, kind, environment, dir)
      BY <1>1 DEF Start
    <2> QED BY <1>1, <2>1, LaunchStep, PollStutter DEF Start
  <1>2. ASSUME NEW p \in Process, Die(p) PROVE Inv'
    <2>1. StartInv'
      BY <1>2, OffStep DEF Die, Crash
    <2>2. CASE Serving(p)
      BY <1>2, <2>1, <2>2, ServingStep DEF Die
    <2>3. CASE ~ Serving(p)
      BY <1>2, <2>1, <2>3, PollStutter DEF Die
    <2> QED BY <2>2, <2>3
  <1>3. ASSUME NEW p \in Process, StartStep(p) PROVE Inv'
    BY <1>3, AdvanceStep, PollStutter DEF StartStep
  <1>4. ASSUME NEW p \in Process, Exit(p) PROVE Inv'
    BY <1>4, OffStep, PollStutter DEF Exit, End
  <1>5. ASSUME NEW d \in Directory, ChooseOwn(d), UNCHANGED pollVars PROVE Inv'
    BY <1>5, OwnStep, PollStutter
  <1>6. CASE Serve
    BY <1>6, ServingStep, StartStutter DEF Serve
  <1>7. CASE Shutdown
    <2>1. CASE Drain /\ UNCHANGED startVars
      BY <2>1, ServingStep, StartStutter
    <2>2. CASE (Stopped \/ Quit) /\ End(Main)
      <3>1. Down
        BY <2>2 DEF Stopped, Quit
      <3> QED BY <2>2, <3>1, ServingStep, OffStep DEF End
    <2> QED BY <1>7, <2>1, <2>2 DEF Shutdown
  <1>8. CASE (Requests \/ \E graceful \in BOOLEAN : Signal(graceful)) /\ UNCHANGED startVars
    BY <1>8, RequestsStep, ServingStep, StartStutter
  <1>9. CASE (Tick \/ \E p \in Poll : PollStep(p)) /\ UNCHANGED startVars
    BY <1>9, TickStep, PollStepStep, StartStutter
  <1>10. CASE UNCHANGED vars
    BY <1>10, StartStutter, PollStutter DEF vars
  <1> QED
    BY <1>1, <1>2, <1>3, <1>4, <1>5, <1>6, <1>7, <1>8, <1>9, <1>10 DEF Next

(* The invariant of servers and processes.                                 *)
THEOREM Invariance == Spec => []Inv
  BY InitInv, NextInv, PTL DEF Spec

(* The values the variables take, among them the settings a process runs   *)
(* with and the time a receive has left (config.rs, apply and validate;    *)
(* mod.rs, receive_message).                                               *)
THEOREM TypesHold == Spec => []TypeOK
  <1>1. Inv => TypeOK
    BY DEF Inv, StartInv, PollInv, TypeOK
  <1> QED BY Invariance, <1>1, PTL

(* Servers on one database, however many and however they start, sign      *)
(* cookies with the one key it stores (session.rs,                         *)
(* load_or_generate_session_key).                                          *)
THEOREM OneKey == Spec => []OneSessionKey
  <1>1. Inv => OneSessionKey
    BY DEF Inv, StartInv, Good, OneSessionKey
  <1> QED BY Invariance, <1>1, PTL

(* No receive is cut off by a graceful stop, whatever the waits and the    *)
(* grace period (lib.rs, stop_on_signal).                                  *)
THEOREM GraceSuffices == Spec => []NoPollCutOff
  <1>1. Inv => NoPollCutOff
    BY DEF Inv, PollInv, NoPollCutOff
  <1> QED BY Invariance, <1>1, PTL

(* A start replaces a password only by the one it was given (service.rs,   *)
(* connect_with).                                                          *)
THEOREM RootKept == Spec => PasswordKept
  <1> DEFINE Kept == \A d \in Directory :
                        root[d] # Unset /\ root'[d] # root[d]
                            => \/ root'[d] = Own
                               \/ \E p \in Process :
                                     /\ Reached(p, "reset")
                                     /\ Of(p) = d
                                     /\ process[p].config.root_password = root'[d]
  <1>1. Inv /\ [Next]_vars => [Kept]_startVars
    <2> SUFFICES ASSUME Inv, [Next]_vars PROVE Kept \/ UNCHANGED startVars
      OBVIOUS
    <2>1. CASE root' = root
      BY <2>1
    <2>2. ASSUME NEW p \in Process, Advance(p) PROVE Kept
      <3>1. CASE root' = root
        BY <3>1
      <3>2. CASE CreateRoot(p)
        <4>1. \A d \in Directory : root[d] # Unset => root'[d] = root[d]
          BY <3>2 DEF CreateRoot, SetRoot, Inv, StartInv, StartTypeOK
        <4> QED BY <4>1
      <3>3. CASE ResetRoot(p)
        <4>1. Reached(p, "reset") /\ root' = [root EXCEPT ![Of(p)] = RootPassword(process[p].config)]
          BY <3>3 DEF ResetRoot, SetRoot
        <4>2. process[p].config.root_password = RootPassword(process[p].config)
          BY <4>1, Runs DEF Inv, StartInv, Good, Provided, RootPassword, Settled, Reached
        <4>3. \A d \in Directory : d # Of(p) => root'[d] = root[d]
          BY <4>1 DEF Inv, StartInv, StartTypeOK
        <4>4. Of(p) \in Directory => root'[Of(p)] = process[p].config.root_password
          BY <4>1, <4>2 DEF Inv, StartInv, StartTypeOK
        <4> QED BY <4>1, <4>3, <4>4
      <3> QED
        BY <2>2, <3>1, <3>2, <3>3 DEF Advance, ReadVersion, Migrate, CheckRoot, OpenSessions,
           StoreKey, ReadKey
    <2>3. ASSUME NEW d \in Directory, ChooseOwn(d) PROVE Kept
      <3>1. root' = [root EXCEPT ![d] = Own]
        BY <2>3 DEF ChooseOwn, SetRoot
      <3> QED BY <3>1 DEF Inv, StartInv, StartTypeOK
    <2> QED
      BY <2>1, <2>2, <2>3 DEF Next, Start, Launch, Die, Crash, StartStep, Exit, End, Serve,
         Shutdown, vars, startVars
  <1>2. Spec => [][Next]_vars
    BY PTL DEF Spec
  <1> HIDE DEF Kept
  <1>3. Spec => [][Kept]_startVars
    BY Invariance, <1>1, <1>2, PTL
  <1> QED BY <1>3 DEF PasswordKept, Kept

(* Messages go only to receives whose callers were authorized for their    *)
(* queue (mod.rs, receive_message).                                        *)
THEOREM OwnMessages == Spec => AnswersFromItsQueue
  <1> DEFINE Own1 == stored' < stored /\ queue' = queue
                        => \E p \in Poll : Is(p, "look") /\ poll[p].queue = queue
                                           /\ poll'[p] # poll[p]
  <1>1. Inv /\ [Next]_vars => [Own1]_pollVars
    <2> SUFFICES ASSUME Inv, [Next]_vars, stored' < stored, queue' = queue
                 PROVE  \E p \in Poll : Is(p, "look") /\ poll[p].queue = queue
                                        /\ poll'[p] # poll[p]
      OBVIOUS
    <2>1. stored \in Nat /\ stored' # stored
      BY DEF Inv, PollInv, PollTypeOK
    <2>2. ~ Down /\ ~ UNCHANGED pollVars
      BY <2>1 DEF Down, pollVars
    <2>3. ~ Requests
      BY <2>1 DEF Requests, Receive, Disconnect, Send, DeleteQueue, CreateQueue, Inv, PollInv,
         PollTypeOK
    <2>4. ~ Serve /\ ~ Shutdown /\ ~ Tick /\ \A graceful \in BOOLEAN : ~ Signal(graceful)
      BY <2>1, <2>2 DEF Serve, Listen, Shutdown, Drain, Stopped, Quit, Signal, Tick
    <2>5. \A p \in Process : ~ (Start(p) \/ Die(p) \/ StartStep(p) \/ Exit(p))
      BY <2>2 DEF Start, Die, StartStep, Exit
    <2>6. PICK p \in Poll : PollStep(p)
      BY <2>2, <2>3, <2>4, <2>5 DEF Next, vars
    <2>7. PICK id \in QueueId : Look(p, id)
      BY <2>1, <2>6 DEF PollStep, ReadWait, Answer, Sleep, Wake
    <2>8. /\ queue = id /\ poll[p].queue = id /\ Is(p, "look")
          /\ \E n \in 0 .. stored : poll' = [poll EXCEPT ![p] =
                                       [@ EXCEPT !.at = "decide", !.found = n]]
      BY <2>1, <2>7 DEF Look
    <2>9. poll[p] \in Waiting /\ poll[p].at = "look"
      BY <2>8 DEF Is, Busy, Inv, PollInv, PollTypeOK
    <2>10. poll'[p].at = "decide"
      BY <2>8, <2>9 DEF Waiting, Inv, PollInv, PollTypeOK
    <2> QED BY <2>8, <2>9, <2>10
  <1>2. Spec => [][Next]_vars
    BY PTL DEF Spec
  <1> HIDE DEF Own1
  <1>3. Spec => [][Own1]_pollVars
    BY Invariance, <1>1, <1>2, PTL
  <1> QED BY <1>3 DEF AnswersFromItsQueue, Own1

=============================================================================
