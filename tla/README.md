# NerveMQ in TLA+

A specification of NerveMQ, the self-hosted message queue with an SQS interface
whose source is beside this directory in `src/` (Rust on SQLite). The modules
are translated from the Rust code and the SQL statements it runs. TLC checks
small instances; TLAPS proves the main results for every value of the constants.

Paths in this file are relative to the repository (`src/service.rs` is the Rust
file of that name), modules are in this directory.

## 1. The system

| Part | State | Operations | How it meets the others |
|---|---|---|---|
| Messages and queues (`src/service.rs`, `src/message.rs`) | tables `messages`, `queues`, `queue_configurations`, `queue_attributes` | send, receive (claim), delete, change visibility, their batches, purge, requeue, mark failed, clear failed, pause, configure, create and delete queue, retention sweep | every statement is a step on the one SQLite database |
| Queue resolution and its cache (`resolve_authorized_queue`) | `authorized_queues`, a map under a lock, entries live 60 s | look up, read, store, invalidate one queue, clear | runs before every SQS call; every change of access clears it |
| Users, namespaces, permissions (`src/service.rs`, `src/api/admin.rs`, `src/api/namespace.rs`) | tables `users`, `namespaces`, `user_permissions` | create, delete, promote, demote, disable, grant, revoke, set owner | decides what resolution answers; cascades to queues and keys |
| Connections and transactions (`SqlitePool`) | the pool's connections, SQLite's write lock and read snapshots | acquire, begin, read, write, commit, return | shared by every call and by the maintenance task |
| API keys and signatures (`src/auth/`) | table `api_keys`, cache `signing_keys` | create, delete, verify | the identity of each SQS request |
| Middleware (`src/auth/middleware/`) and dispatch (`src/sqs/mod.rs`) | what each request has passed | check host, origin, credential, role, namespace | around every handler; reads accounts and keys once per gate |
| Sessions, login (`src/auth/session.rs`, `src/api/auth.rs`) | a database file of its own | save, load, update, delete, collect | the identity of each admin request |
| Key management (`src/kms/`) | wrapping keys in memory, SQLite or AWS | create, encrypt, decrypt, delete | called by users and API keys, may fail |
| SQS protocol (`src/sqs/`) | the long poll's deadline | parse, check limits, dispatch, poll | calls the operations above |
| Server (`src/lib.rs`, `src/main.rs`, `src/config.rs`) | settings, the session key, the stop signal | start, serve, stop, maintenance | long polls watch the signal; processes share files |
| Command line (`src/cli.rs`) | none | the calls on users, keys, namespaces and queues | a second process on the database, with caches of its own |
| Telemetry, web interface | none the rest reads | - | - |

What is hard here is not a single call but what happens between two statements:
a visibility change asks why it failed in a second statement; an authorization
is read in one step and remembered in another; row ids, namespace ids and names
are used again after deletions; a call holds a connection while it waits for
something else; a failed key manager stops a deletion half way; a session is loaded at a
request's start and stored at its end; two servers start on one directory; a poll
that may sleep for twenty seconds meets a server that has five left.
`PROJECT.json` lists these hazards at the lines where they bite, each with the
properties that cover it or the reason none does yet.

What must be true, per part:

* Messages: one holder at a time; receipts act on their own message only; order
  of delivery; a bounded number of attempts; the 12-hour cap; truthful answers;
  every derived status agrees with the others.
* Resolution and permissions: no access outlives its revocation beyond the
  window the code accepts; an id never reaches a queue of another name.
* Accounts: somebody can always administer the server; users, KMS keys and API
  keys stay together; what is revoked is forgotten.
* Sessions: an ended session stays ended, a session stays its user's, a disabled
  user is shut out.
* Requests: no protected handler runs for a caller no gate let in, and no key
  reaches outside its namespace and access; refusals are readable.
* Starting and stopping: one session key; no password is reset by accident;
  polls and servers end, and no poll is cut off.
* Connections: calls never all wait for each other; the writer never waits; no
  transaction is refused for a stale snapshot.

## 2. The modules

| Module | Models | Instance for TLC |
|---|---|---|
| `LeaseQueue` | what a queue promises: the abstract specification | implemented by `MessageLifecycle` |
| `MessageLifecycle` | messages and queues | `MCMessageLifecycle` |
| `MessageLifecycleProofs` | that it implements `LeaseQueue`, and theorems on it | - |
| `QueueApi` | attributes, tags, creation and batches, checks and statements | `MCQueueApi` |
| `QueueApiProofs` | theorems on it | - |
| `AuthorizedQueues` | resolution, its cache, users, namespaces, permissions | `MCAuthorizedQueues` |
| `AuthorizedQueuesProofs` | theorems on it | - |
| `Accounts` | users, KMS keys, API keys, the cache of signing keys, server and command line | `MCAccounts` |
| `AccountsProofs` | theorems on it | - |
| `Sessions` | sessions, login, logout, password changes | `MCSessions` |
| `SessionsProofs` | theorems on it | - |
| `Requests` | the middleware and the dispatcher | `MCRequests` |
| `RequestsProofs` | theorems on it | - |
| `Startup` | settings, migrations, root user, session key, of several processes | part of `Server` |
| `LongPoll` | ReceiveMessage's loop and a server that stops | part of `Server` |
| `Server` | composes the two: a process from its start to its end | `MCServer` |
| `ServerProofs` | theorems on it | - |
| `ConnectionPool` | what calls hold while they wait for connections and locks | `MCConnectionPool` |
| `ConnectionPoolProofs` | theorems on it | - |

### MessageLifecycle

A step is one SQL statement, or one transaction: SQLite lets one transaction
write at a time, so what a transaction does is seen at once. A call made of
several statements (a visibility change that must explain a refusal, a batch that
repeats a handle) is several steps, and `call` keeps what it remembers between
them. A call that changes nothing is a stuttering step.

* `messages` is the table: `id` is the row id that orders deliveries, and
  `NextRowId` gives SQLite's next one (largest plus one, so a deleted newest id
  is used again). `message_id`, the UUID the API shows, is the index of the
  table and is never reused.
* `receipt_handle` is a record of the row id and a draw. A draw stands for the 128
  random bits of `randomblob(16)`; two draws never coincide.
* `conf`, `paused`, `live` are the settings and existence of queues. A queue
  that is deleted and created again has a new id (migration 0018), so a
  queue is not created again in this module; that is `AuthorizedQueues`' subject.
* `now` is `unixepoch('now')` in whole seconds. `Tick` may be late as long as
  it likes: no property here assumes that time passes.
* `leases`, `attempts`, `sendOrder`, `sent`, `issued` and `peak` are history:
  they record what was promised, and no action reads them except `Unsent`, which
  makes message ids fresh, and `Presented`, which says that consumers present
  handles they were given.

Abstracted: bodies, attributes, message groups and deduplication ids, which the
code stores and returns without acting on; who sends; the wording of errors;
size limits, which refuse an entry before anything is stored (`QueueApi` has them).

`Phase` and `LatestReceipt` read a `LeaseQueue` off the table: a message is
unsent, free, held (hidden), lapsed (hidden no longer, its receipt still good) or
gone. `KeepsThePromise` says that every statement is one step of it, or none.
`LeaseQueue` has no clock, no rows and no settings, so a reader can see in a page
what the rest of the module is for.

### QueueApi

The operations `MessageLifecycle` takes in one step, statement by statement:
`CreateQueue` checks its attributes, inserts the queue and stores attributes and
tags one by one, or compares itself with the queue it finds; `SetQueueAttributes`
stores one attribute after another; a batch stores one entry after another, each
of which may fail alone. `queue` is what is committed, `draft` what the
transaction that holds the write lock has made of it. The checks of
`src/sqs/limits.rs` and `QueueAttributesSer` are operators (`Validate`,
`FromRequest`, `CheckTags`, `CheckMessage`, `CheckBatch`). Texts are a few values,
one of each kind the checks tell apart; numbers are themselves, because the ranges
are the point.

### AuthorizedQueues

A request is a process that goes through its statements one at a time (`at` says
which one is next): look up, read, store and use for the SQS calls; namespace,
access, user, queue, write, invalidate for the administrative ones. Others run
between any two of its steps. Row ids of users and namespaces are reused as
SQLite reuses them (`NewRowIds`), those of queues are not (`NewQueueId`). Deletions
cascade. `KmsOutcome` says whether deleting a key can fail. `Restart` empties the
cache and drops the requests. `overtaken` is history: it marks an answer
read before, and stored after, a change that makes answers wrong.

A request's `user` is the caller in calls on queues and namespaces, and the user
acted on in those on accounts, which only admins reach. `SetNamespaces` gives
exactly one namespace or none, which is every case when a run has one namespace.

### Accounts

Two processes, the server and commands, make calls of a few statements with the
KMS and the cache in between; `task` holds what a call has read. Only the
server's cache matters, because a command ends with its own. The KMS may fail
whenever it is called, and a crash drops calls wherever they are; `lost` is
history, the KMS keys left behind that way. `slipped` is history too: the keys
revoked on a path that forgets nothing (the command line, or a KMS failure).
Each guard on the last admin is part of the UPDATE or DELETE it guards, as in
`LAST_ACTIVE_ADMIN`. Whether a caller may do what it asks is left to
`AuthorizedQueues`: any caller may here, which only adds behaviours.

### Sessions

A request arrives with a cookie, loads the session's row and its state in two
queries, passes `Protect`, acts, and stores the session as the session middleware
decides: unchanged, updated, renewed under a new key, or deleted. Between any two
of those steps other requests, the collector, admins and a restart run. Row ids
are used again (`NewRowIds`), keys are drawn once. `LoginUnnamed`, `LoginInPlace`
and the like are deviations: definitions no action uses, which show that a
property would notice.

### Requests

One action per gate (`Arrive` is the host, origin and header checks, which read
nothing; `Lookup`, `Remember`, `Prove` the key and its cache; `Dispatch`;
`Protect`; `Extract`, which is the router and what handlers take from a request) while `SetAccount`, `CreateKey` and `DeleteKey` change what
the next gate will read. An input is a record of what gates look at; whether a
signature verifies is a Boolean of it. `active` is history: the users who have been
allowed in since the request arrived. A request that has reached "act" is one a
handler runs for.

Two users may be in play. `Caller` is whom the gates check: the user of the
Authorization header's key if there is one, and else of the session
(`protected_route.rs`). `Actor` is whom the handler acts for: on the SQS API that
caller, which its handler takes as `Caller`; on the managed routes (queues,
statistics, API keys, namespaces) and on logout and password changes the session's
user, which theirs take as `Identity`; on user administration whoever was checked.
`KeysKeepTheirPlace` says of the first that it was let in, and when the second is
another: only on a managed route, in a request with a key and a session. Section 5
has what the documents say of that.

Not every request has a handler: `routed` is whether its method and path are those
of one. The middleware of a scope runs before the router finds that there is none
and answers with a plain 404 (405 for the health check), so that even a signed
request below `/api/sqs` may get an answer that is not in AWS's format. A body may
be "broken": its connection fails while it is read. With a signature that is in
`Lookup`, which reads it to check its hash, and the answer is a 403; with an API key
in `ExtractSqs`, and the answer is a 500. `SignedAnswersReadable` names both
exceptions, and holds of everything else.

### Startup, LongPoll, Server

`Startup`: processes load their settings in layers, migrate, look for the root
user, create it or reset its password, open the sessions database, insert a key
unless there is one, read it back, and are ready; each is a step, and any number of
processes take them at once on the files they share (`schema`, `root`, `secret`,
`tables`). `Crash` is every way a start ends early.

`LongPoll`: a receive is authorized for a queue id, then looks, decides and sleeps
until its deadline; `left` and `nap` are measured in POLL_INTERVALs. A signal
sets `stopping`, the server drains for `Grace` and ends. `Tick` is what tokio's
timers do: time passes when no receive can go on without it.

`Server` composes them: the process `Main` serves polls while others start,
crash and end beside it.

### ConnectionPool

A call is the list of database steps it takes, written from its code (`Send`,
`Receive`, `CreateQueue`, ...): where it acquires a connection, whether it opens
a transaction, and whether the first thing the transaction does is a read or a
write. Waiting is being unable to take the next step; the pool's and SQLite's
timeouts are left out, because the question is whether a call ever needs them. A
call may fail, or its client may go away, at any step (`Abort`). The calls to
the key manager in the same database are statements of their own (`CreateUser`,
`DeleteUser`). The pool, transactions and snapshots themselves are not the
repository's code: they are modelled from how it uses sqlx and SQLite, and are
marked external in `PROJECT.json`.

## 3. The runs

| Run | Question | Instance |
|---|---|---|
| `lifecycle` | leases exclusive, 12-hour cap, under every call; the table implements `LeaseQueue` | 1 queue, 2 messages, timeouts 0 and 2, cap 2, clock to 3, 3 receives |
| `settings` | attempts, derived status and batch answers while settings move | 1 message, delays, attribute timeouts, retention, 2 limits, batches of 2 with repeated handles |
| `two_queues` | receipts, row ids, delivery order | 2 queues, 3 messages, batches of 2 |
| `authorization` | wrong cached answers are being forgotten | 2 users, 1 namespace, 1 queue, 2 requests, every change of access |
| `queue_names` | ids held or cached never reach another queue; wrong answers end | 2 queue names, 2 queue ids, 2 requests, TTL 2 |
| `pool` | no waiting in a circle, no stale write | 3 requests on 2 connections, every call but `list_queues` |
| `queue_api` | what CreateQueue, SetQueueAttributes and batches leave and answer | 2 callers, 2 queues of one name, 1 write, every statement may fail |
| `accounts` | last admin, KMS keys, API keys, the signing-key cache | root and another user, 2 namespaces, 1 API key, 3 KMS keys, 2 calls at once, crashes |
| `sessions` | ended sessions, whose session, disabled users | 2 users, 2 session keys, 2 requests, clock to 1 |
| `requests` | what gets past the gates, for whom handlers act, how refusals read | 1 request at a time of about 220 inputs, 2 accounts and 1 key that change |
| `server` | starting, polling, stopping | 2 processes, 1 directory, 3 settings of the environment, 1 poll, 2 queue ids |
| `list_queues` | the pool again, with the call that takes two connections | ends with a counterexample, see section 5 |

Why the bounds are enough to be interesting. The clock reaches three seconds
with timeouts, delays and a cap of up to two, so that windows lapse and are cut by
the cap, and a lapsed message is received again. Three receives let two
consumers alternate on one message and exhaust it (limits 1 and 2). Batches of
two are the smallest in which one handle appears twice. Three messages
let a row id be freed and taken again while another message waits. Two queues are
enough for a handle to be presented to the wrong one. Two requests are the
smallest number that race; two queue ids let one name mean two queues; a TTL of
two distinguishes an entry that is used from one that is renewed. Two connections
and three requests let requests hold every connection and still leave one
waiting.

In `accounts`, three KMS keys let the root user's, a new user's and the one of a
user created again under the same e-mail differ; `MaxRowId` 1 makes the two
namespaces take turns with one id, so ids are reused whenever a namespace is
deleted; a TTL of one tells fresh answers from expired ones. In `sessions`, two
keys let a session be renewed while its old key is still presented, and one row id
serves both. In `server`, a poll may wait for two intervals, and ask for three,
which is refused; the grace is one interval, less than a poll may wait, so a poll that did not
hear of the stop would be cut off; each of the two processes may draw a session key
of its own, and a third can be drawn after a crash. `requests` has one request at a time
because requests share nothing but what the administrative actions change, which
run between any two of its steps; the theorems hold for any number. Its two accounts
are the smallest number with which the user of a key and the user of a session differ.

The guards that bound an instance, beyond its constants: `Horizon` (the clock of
`MessageLifecycle` and `Sessions`), `MaxDraws`, `MaxQueueId`, `MaxRowId`,
`MaxStored` (messages in `LongPoll`'s queue), `MaxQueues` and `MaxWrites`
(`QueueApi`), and that something drawn at random is drawn from a finite set and
once: `Key`, `SessionKey`, `KmsKey`, `AccessKey`, `QueueId`. When a set is used up
the action that draws is off, and the others go on.

The mutants of `PROJECT.json`, one for every property of a passing run,
are plausible slips of the code, and each is found within these same bounds.

The deadlock check is off where the system comes to rest for want of anything to
draw or of time left under a bound: `MessageLifecycle`, `Accounts`, `Sessions`,
`Requests`, `QueueApi` and `Server`. It is on for `AuthorizedQueues` and
`ConnectionPool`, where waiting is the subject. Messages, users, keys and requests
are symmetric where a run declares it; `queue_names` and `server` declare none,
because they check liveness properties.

Fairness. `WrongAnswersEnd` assumes `WF_vars(Tick)`: that time passes, the clock
here being the cache's `Instant::now()`. `PollsEnd` and `ServerStops` assume that
tokio runs a receive that is ready (weak, per receive), that timers fire (`Tick` is
strongly fair, because new receives, which are ready at once, hold time up again
and again but cannot stop it), and that the shutdown `run` awaits goes on (weak).
No fairness is assumed of clients, of admins, or of anything an operator does.

## 4. What is proved

`MessageLifecycleProofs` holds, for any sets of queues, messages and callers
(messages finite), any timeouts up to the cap, any delays, periods and limits:

| Theorem | Says |
|---|---|
| `TypeCorrect` | `Spec => []TypeOK` |
| `LeasesHonoured` | `Spec => []LeaseHonoured`: a running promise is exactly what the stored row says |
| `OneLeaseAtATime` | `Spec => []LeaseExclusion` |
| `HiddenWithinTheCap` | `Spec => []HiddenAtMostTwelveHours` |
| `ReceivesBounded` | `Spec => []AttemptsBounded` |
| `TableInvariance` | `Spec => []TableInv` |
| `ImplementsThePromise` | `Spec => KeepsThePromise`, the refinement of `LeaseQueue` |
| `ReceiptsActOnTheirOwn` | `Spec => []ReceiptsNeverCross` |
| `IdsFollowSends` | `Spec => []RowIdsInSendOrder` |
| `GaugesAgree` | `Spec => []StatusMatchesGauges` |
| `ReceivesOldestFirst` | `Spec => OldestFirst`, an action property |
| `RefusalsTruthful` | `Spec => []BeyondLimitTruthful` |

`AuthorizedQueuesProofs`, for any users, namespaces, queue names and requests, any TTL,
any set of operations, and requests that a restart drops anywhere:

| Theorem | Says |
|---|---|
| `InvHolds` | `Spec => []Inv` |
| `TypesHold` | `Spec => []TypeOK` |
| `QueuesAreThoseNamed` | `Spec => []ActsOnTheQueueNamed` |
| `WrongAnswersAreForgotten` | `Spec => []WrongAnswersForgotten`, when deleting a KMS key does not fail |

The condition of the last, `"failed" \notin KmsOutcome`, is the one the run
`authorization` has, and it is needed: `KmsFailure.cfg` (section 5) drops it and ends
with a counterexample. The other three hold without it.

`QueueApiProofs`, for any callers, any requests of the shape the parser gives them,
and failures of any statement or of none:

| Theorem | Says |
|---|---|
| `InvHolds` | `Spec => []Inv` |
| `AttributesChangeWhole` | `Spec => WritesAreWhole`, an action property |
| `CreatedIsAsked` | `Spec => CreateAgrees`, an action property |
| `BatchesAreAnswered` | `Spec => BatchAnswersTell`, an action property |

`RequestsProofs`, for any set of inputs, requests, accounts, keys and namespaces,
and any clock:

| Theorem | Says |
|---|---|
| `Invariance` | `Spec => []Inv`: a request has passed every gate before the step it is at |
| `KeysStayInPlace` | `Spec => []KeysKeepTheirPlace` |
| `RefusalsReadable` | `Spec => []SignedAnswersReadable` |
| `SitesStayApart` | `Spec => []CookieWritesAreOwn` |

`AccountsProofs`, for any e-mails, namespaces, KMS and API keys, any number of
calls in flight in either process, any TTL, and crashes and KMS failures anywhere:

| Theorem | Says |
|---|---|
| `Invariance` | `Spec => []Inv` |
| `TypeCorrect` | `Spec => []TypeOK` |
| `SomeoneAdministers` | `Spec => []SomeActiveAdmin` |
| `KmsKeysOwned` | `Spec => []KmsKeysAccountedFor` |
| `KeysStayWithOwners` | `Spec => []KeysAreTheirOwners` |
| `RevocationsReach` | `Spec => []RevokedKeysForgotten` |

`ServerProofs`, for any processes, directories, passwords, settings, polls and waits,
and any grace of at least one interval:

| Theorem | Says |
|---|---|
| `Invariance` | `Spec => []Inv` |
| `TypesHold` | `Spec => []TypeOK` |
| `OneKey` | `Spec => []OneSessionKey` |
| `GraceSuffices` | `Spec => []NoPollCutOff` |
| `RootKept` | `Spec => PasswordKept` |
| `OwnMessages` | `Spec => AnswersFromItsQueue` |

`SessionsProofs`, for any users, session keys and requests, and any TTL:

| Theorem | Says |
|---|---|
| `Invariance` | `Spec => []Inv` |
| `TypeCorrect` | `Spec => []TypeOK` |
| `UsersKept` | `Spec => []SessionsKeepTheirUser` |
| `ActingUsers` | `Spec => []ActsAsItsSession` |
| `DisabledShutOut` | `Spec => []ShutOutWhileDisabled` |
| `EndedForGood` | `Spec => EndedSessionsStayEnded`, an action property |

`ConnectionPoolProofs`, for any requests and any size of the pool, and any set of
calls without `list_queues` (`Operation \subseteq OneAtATime`), the one that
section 5 shows to break it:

| Theorem | Says |
|---|---|
| `Invariance` | `Spec => []Inv` |
| `TypeCorrect` | `Spec => []TypeOK` |
| `WriterRuns` | `Spec => []WriterNeverWaits` |
| `NoDeadlock` | `Spec => []SomeoneRuns` |
| `FreshWrites` | `Spec => []NoStaleWrite` |

The arguments. In `MessageLifecycleProofs`, `MessageStep` is the lemma the rest stands on: whatever the call
and whatever the batch, a step does one of six things to a given message (keeps
it, stores it, removes it, delivers it, hides it again, or sets its status), and
says exactly what each does to the row, the promises and the count. Each
property is then a case analysis on six cases and not on twenty actions.

`LeaseExclusion` is not inductive: two promises could agree on a handle and
differ in their end. `LeaseHonoured` is what makes it so: the row carries the
handle and the end of every running promise, so there can be only one. It relies
in turn on `StoredWereSent`, which says a new message takes the place of none.

`AttemptsBounded` relies on `TriesKeepUp`: the stored count of tries is never
behind the receives it stands for (marking a message failed raises it, so it may
be ahead), and the limit never exceeds the largest there has been (`PeakStep`).

For the second half of the table every step is first shown to be one of six kinds of statement on
the table (`StatementStep`); each kind is one action of `LeaseQueue`, which
`PromiseStep` shows with the set of messages it changes as the witness. Handing out
receipts nobody has had needs two facts that are invariant: draws in use are behind
the counter, and ids of stored messages differ, because the messages of one receive
share a draw. `ReceiptsNeverCross` needs the same two, and `RowIdsInSendOrder` that
no place exceeds the number sent. A message that waits out a delay and is exhausted
would be counted as delayed and shown as failed; `UntriedUntilReceived` excludes it.
`BeyondLimitTruthful` is a claim about an answer given after other calls have run:
what a receipt can hide never grows (`HideableShrinks`), so an entry that missed
because its receipt could hide nothing is never answered with the 12 hours.

In `AuthorizedQueuesProofs` two judgements on an id and a key carry the proofs. The id
is `Held` when the counter has passed it and no queue but the one the key names has
it; every step keeps that, because `queues` never draws an id twice, and so what a
request read may go stale but cannot come to mean another queue. It is `Answered` when
the database would give it now; only the steps that `Commit` can end that. The
invariant (`Fits`, per call) says that an id in a request's hands is `Held`, and
`Answered` until a commit marks it `overtaken`. It is the first half that makes reused
namespace and user ids harmless, and it needs ids of namespaces, and of queues, to
differ at every moment. `WrongAnswersForgotten` is inductive with that: a step is
either quiet (it ends no answer and nobody stops forgetting) or a commit, and for each
of the revocations the proof shows that whatever answers it ends are
those its own request is about to forget. A request that stops forgetting without
having forgotten is the case that fails, and only a KMS failure makes one.

In `QueueApiProofs` the invariant relates a writer's draft to what is committed and to
what its request asked for. `AreOver` is the relation: the draft's attributes are the
request's for the names written so far, and the committed ones for the rest, so that a
draft with no name left is the whole request and a draft given up is none of it. For a
batch (`Sending`) it is that each outcome so far says whether the entry's message is in
the draft, and that no entry left is. Nobody touches the draft but its writer, so a
step of one caller leaves the others' parts standing (`OthersFit`). `BatchAnswersTell`
is about ids and the invariant about positions; `DistinctIds`, which the check of a
batch gives by comparing two cardinalities (`OkIsDistinct`), connects them.
`CreateAgrees` has two cases: a queue that is made is the draft with nothing left, and
of a queue that is found `AgreeingIsReported` says that comparing the attributes as the
code does, unset ones by their defaults, answers "Ok" only if a reader
would be told the values asked for.

In `RequestsProofs` the invariant says of each request what the gates before its
step have established (`Passed`), and that every user allowed in now is among its
`active`. One lemma per action shows that it keeps its own request's part; one
(`SetAccountKeeps`) that administrators only add to `active`. That the caller was
allowed in at some moment since arrival, and not that it still is, is all a chain
of separate reads can promise, and it is what the property says. `Actor` differs from
`Caller` in one case, which `KeysStayInPlace` gets from the routes that are protected.
That a signed body arrived whole (`SignedWhole`) is kept from `Lookup` to `Extract`, so
that the 500 `RefusalsReadable` allows is never an answer to a signature; and that a
request on which a handler acts was routed is what makes the health check, which is
exempt from the host check, no exception to `SitesStayApart`.

In `AccountsProofs` the invariant has three parts beside the types and the last
admin. `OneOwner`: a KMS key that is not lost is one user's or in the hands of one
call, so that the key a call deletes or loses is nobody else's. `RightKeys`: what
`KeysAreTheirOwners` says of stored API keys, and the same of calls that are making
one, with the namespace's id never zero, so that deleting a namespace cannot make a
crossed key look right. `RightAnswers`: every remembered answer is what the database
says, or overtaken, or awaited by a call that will forget it; and so is every answer
a lookup has read, without the last; access keys in either have been drawn, so that a
new key is never taken for one of them. What a commit does to the other calls is one
lemma (`CommitTasks`), and that it leaves someone to forget what it makes wrong is
another (`CommitAnswers`); the revocations are all instances of the two.

In `SessionsProofs` the invariant follows each request (`KnowsItsSession`): the id
it read is its key's row's, or that row is gone; what it then loads is that row's
user, or is stored nowhere, because an update is by key and a key is drawn once.
That is why ids may be used again without a session changing hands, and it needs
stored ids to differ (`IdsDiffer`). `KnowsItsUser` says the users active now are
among those the request has seen until its handler checks one. A step touches one
request or ends sessions and activates users, which `StillFits` shows to leave the
other requests' parts standing.

In `ConnectionPoolProofs` the discipline of the concurrency notes is a property of
each path on its own: `Leads(p, a, b)` says that the steps of `p` take a call from
stage `a` (nothing held, a connection, a transaction, a transaction that has written)
to stage `b`, each by one of nine moves, none of which takes a connection while
holding one or reads in a transaction before it writes. `EveryPath` checks the 23
calls, by composition (`LeadsOn`). The invariant is that what each request holds is
the stage its remaining steps lead on from. No deadlock follows: if a transaction
has written, it can go on; if none has, whoever holds a connection can; if nobody
holds one, one is free.

In `ServerProofs` the invariant has two halves that share no variable, so a step
of one leaves the other alone. For starts it is, per process, that what it has
read agrees with the files from the step it read them (`Good`), and that nothing
replaces a stored session key. For polls it is that a draining server has all
of its grace left: all polls are ready once `stopping` is set, and time does not
pass while one is. That is why `GraceSuffices` needs no relation between the grace
and the longest wait.

Assumptions: the named assumptions of each module (`ConstantsAssumption`,
`MarkersAssumption`, `RequestsAssumption`, `QueueApiAssumption`, `StartupAssumption`,
`PollAssumption`, `ServerAssumption`). TLC evaluates them in each of its runs. Those of
`QueueApi` give requests their shape: attributes and tags are functions, numbers
where `QueueAttributesSer` has numbers. That timeouts are at most
`MaxTotalVisibility` is what `check_range` in `src/sqs/limits.rs` and the
attributes' validation enforce.

Only model-checked: the three liveness properties (`WrongAnswersEnd`, `PollsEnd`,
`ServerStops`), which need fairness and so ENABLED, out of the proof system's reach.
Every other property of a passing run is stated by a theorem above.

## 5. Where the code and its documents disagree

`list_queues` is a run, which TLC ends with a counterexample: the call takes a second
connection while it holds one, which the concurrency notes forbid; as many listers
as connections wait for each other (`src/service.rs:2612`,
`docs/architecture/message-lifecycle.md:446`).

Six more have a configuration beside the modules, for `tlc -config X.cfg M`. They
are not among the runs, because each is a decision for the code's authors and
not a question asked again on every change.

* `HeaderAlone.cfg`, `MCRequests`: `src/auth/middleware/same_origin.rs:14` says that a
  request with an Authorization header "is authenticated by that header alone", and
  `src/auth/middleware/protected_route.rs:116` indeed checks the header's user. The
  handlers of the managed routes take `Identity` (`src/api/tokens.rs:42`, likewise
  `queue.rs`, `data.rs`, `namespace.rs`), which is the session cookie's user, header or
  none. A request that brings the key of one user and the session of another passes as
  the first and acts for the second, whom no gate has looked at. The test
  `session_only_routes_refuse_api_keys_even_admin_level` (`src/api/access_tests.rs:248`)
  sends keys without sessions, which are refused as it says. `KeysKeepTheirPlace`, in
  the run `requests`, says that the two users differ in no other case.
* `ClearFailed.cfg`, `MCMessageLifecycle`: clearing failed messages deletes a
  message in flight on its last attempt (`src/service.rs:4232`), which
  `docs/architecture/message-lifecycle.md:24` displays as delivered.
* `RevocationRace.cfg`, `MCAuthorizedQueues`: an authorization read before a
  revocation and stored after its invalidation (`src/service.rs:1860`) is served
  until the TTL, though "revoked access must stop authorizing immediately, not at
  the cache TTL" (`src/service.rs:1412`). The run `authorization` shows that this is
  the only way when key deletion succeeds, and `queue_names` that it ends with the
  TTL. The cache of signing keys has the same window (`overtaken` in `Accounts`).
* `KmsFailure.cfg`, `MCAuthorizedQueues`: when deleting a user's key fails,
  `delete_user` returns before it forgets the user's cached authorizations
  (`src/service.rs:1153`), against "every mutation that could *revoke* a cached
  answer invalidates eagerly" (`src/service.rs:1803`).
* `CreateElsewhere.cfg`, `MCAuthorizedQueues`: a queue is created in another
  namespace than the one named, when that one is deleted and its id taken between
  two statements (`src/service.rs:2032`).
* `GivenPassword.cfg`, `MCServer`: of two processes that start on a new database,
  the one that was given a root password finds the user missing, then its insert
  conflicts with the other's, and it goes on without setting the password
  (`src/service.rs:1060`), though a given one should stay "authoritative on every
  start" (`src/service.rs:1066`). The next start sets it.

## 6. Not modelled, and what is left

* `set_namespace_owner` reads two ids and writes them in a later statement, and ids of
  both kinds are reused. `AuthorizedQueues` has its steps apart, but no property
  says whose the namespace then is; `Accounts` takes it in one step.
* What list, count and statistics handlers answer (`src/api/data.rs`,
  `list_users`, `global_queue_statistics`), beyond the states of messages and the
  attributes that are compared.
* Some properties excuse a race the code has, by a history flag that marks the states it
  leads to: `overtaken` (an answer read before a revocation and remembered after, in
  `WrongAnswersForgotten` and `RevokedKeysForgotten`), `slipped` (keys revoked where
  nothing forgets), `crossed` (an API key made while its user was deleted and created
  again, a session deleted between the two queries of its load) and `lost` (KMS keys a
  crash left behind). They say that there is no other way to such a state, and nothing
  about how often that one is taken. The hazards themselves are in `PROJECT.json`, with
  these flags in their notes.
* `ShutOutWhileDisabled` is about requests without an Authorization header, the only
  ones `Sessions` has.
* Bodies of other routes than the SQS API's; that a poll finds a message that arrives
  while it sleeps.
* The text of requests: JSON, form and header syntax, the characters of names, the
  parsing of host names. Each is one good and one bad value.
* Cryptography: a signature verifies or does not; a KMS key decrypts what it
  encrypted.
* What each migration does to old rows; that migrations run once and in order is
  `Startup`.
* The differences between the three key managers but for losing keys in a crash.
* Telemetry and logging (nothing reads them back), the web interface, the examples.
  Dead-letter queues exist in the code only as a stored setting.
* `LongPoll` has one queue and `Server` one serving process; what a receive
  does to messages is `MessageLifecycle`, which has no polls. Composing the two
  would multiply their states without a property that needs both.

Left to state: an abstract specification of `Accounts`, as `LeaseQueue` is one of
messages; and who owns a namespace when its id changes hands during
`set_namespace_owner`.
