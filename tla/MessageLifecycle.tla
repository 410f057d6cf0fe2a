-------------------------- MODULE MessageLifecycle --------------------------
(***************************************************************************)
(* The messages of NerveMQ's queues (src/src/service.rs): one row of the   *)
(* table "messages" per message, and every statement that writes those     *)
(* rows.  SQLite runs one write transaction at a time, so a statement is   *)
(* one action; a call of several statements is several actions, and other  *)
(* calls run between them.  A message's lifecycle is not stored: it is     *)
(* derived from its row, its queue's settings and the time.                *)
(*                                                                         *)
(* A call that changes nothing (a stale handle, an unknown message, a      *)
(* receive that finds nothing) is a stuttering step and has no action.     *)
(***************************************************************************)
EXTENDS Integers, FiniteSets, Sequences, Functions

CONSTANTS
    Queue,              \* queue ids, never reused (migration 0018)
    MessageId,          \* the v4 UUIDs that sends draw, never reused
    Caller,             \* requests that change visibility, in flight at once
    NULL,               \* SQL's NULL
    Absent,             \* what stands where no row is stored
    Idle,               \* a caller with no request in flight
    Timeout,            \* the visibility timeouts requests carry
    QueueTimeout,       \* those queues are given as an attribute
    Delay,              \* the delivery delays sends carry
    QueueDelay,         \* those queues are given as an attribute
    Period,             \* the retention periods queues are given; 0: forever
    RetryLimit,         \* the values queues are given for max_retries
    DefaultTimeout,     \* config::defaults::VISIBILITY_TIMEOUT
    MaxTotalVisibility, \* limits::MAX_TOTAL_VISIBILITY, 12 hours
    MaxBatch,           \* limits::MAX_BATCH_ENTRIES
    Horizon,            \* bound: the last second of the clock
    MaxDraws            \* bound: the receives that hand something out

ASSUME ConstantsAssumption ==
    /\ IsFiniteSet(MessageId)
    /\ NULL \notin Nat
    /\ MaxTotalVisibility \in Nat
    /\ Timeout \cup QueueTimeout \subseteq 0 .. MaxTotalVisibility
    /\ DefaultTimeout \in 0 .. MaxTotalVisibility
    /\ Delay \cup QueueDelay \subseteq Nat
    /\ Period \subseteq Nat
    /\ RetryLimit \subseteq Nat \ {0}
    /\ MaxBatch \in Nat \ {0}
    /\ Horizon \in Nat
    /\ MaxDraws \in Nat

VARIABLES
    now,       \* unixepoch('now'), in seconds
    live,      \* the queues that exist
    paused,    \* those with paused_at set
    conf,      \* queue_configurations and queue_attributes, per queue
    messages,  \* the table: a row per stored message, by its message_id
    draws,     \* random handles minted so far
    call,      \* the visibility change each caller has in flight
    (***********************************************************************)
    (* History, read only to choose what requests carry:                   *)
    (***********************************************************************)
    sent,      \* how many messages have been sent
    sendOrder, \* each message's place in that order, 0 before it is sent
    issued,    \* every receipt ever handed out, and for which message
    leases,    \* per message, the promises to hide it that still run
    attempts,  \* per message, receives since it was sent or an admin set
               \*   its status
    peak       \* per queue, the largest max_retries it has had

tableVars == <<messages, leases, attempts>>
settingVars == <<live, paused, conf, peak>>
historyVars == <<sent, sendOrder, issued>>
vars == <<now, settingVars, messages, draws, call, historyVars, leases,
          attempts>>

-----------------------------------------------------------------------------

Time == Nat \cup {NULL}

(* `<row id>:<128 random bits>`: a draw stands for the random bits.  The   *)
(* messages of one receive share a draw; their row ids tell them apart.    *)
Handle == [id : Nat, draw : Nat]

Row == [queue : Queue, id : Nat, received_at : Nat, delivered_at : Time,
        invisible_until : Time, tries : Nat, receipt_handle : Handle \cup {NULL}]

Settings == [max_retries : RetryLimit, visibility_timeout : QueueTimeout \cup {NULL},
             delay_seconds : QueueDelay \cup {NULL},
             message_retention_period : Period \cup {NULL}]

(* One entry of a ChangeMessageVisibilityBatch; a single change has one.   *)
Entry == [receipt_handle : Handle, timeout : Timeout]

(* `repeated`: the entries still to be applied one at a time; `missed`:    *)
(* those that matched nothing; `capped`, history: those the 12 hours alone *)
(* refused.                                                                *)
Call == [queue : Queue, entries : Seq(Entry), repeated : SUBSET Nat,
         missed : SUBSET Nat, capped : SUBSET Nat]

(* What stands for "nothing" is none of the values.                        *)
ASSUME MarkersAssumption ==
    /\ NULL \notin Handle
    /\ Absent \notin Row
    /\ Idle \notin Call

Stored == {m \in MessageId : messages[m] # Absent}
Of(q) == {m \in Stored : messages[m].queue = q}
Unsent == {m \in MessageId : sendOrder[m] = 0}

Visible(m) == \/ messages[m].invisible_until = NULL
              \/ messages[m].invisible_until <= now
\* Deviation: one delivery too many.
ExhaustedLate(m) == messages[m].tries > conf[messages[m].queue].max_retries
Exhausted(m) == messages[m].tries >= conf[messages[m].queue].max_retries

(* The states the queue gauges count, and the status the message list      *)
(* shows.                                                                  *)
Available(m) == Visible(m) /\ ~Exhausted(m)
InFlight(m) == ~Visible(m) /\ messages[m].delivered_at # NULL
Delayed(m) == ~Visible(m) /\ messages[m].delivered_at = NULL
\* Deviation: the gauge forgets the window of the last attempt.
FailedAtOnce(m) == Exhausted(m)
Failed(m) == Visible(m) /\ Exhausted(m)

Status(m) ==
    CASE messages[m].delivered_at # NULL /\ ~Visible(m) -> "delivered"
      [] ~(messages[m].delivered_at # NULL /\ ~Visible(m)) /\ Exhausted(m) -> "failed"
      [] OTHER -> "pending"

Coalesce(a, b) == IF a # NULL THEN a ELSE b

-----------------------------------------------------------------------------

Init ==
    /\ now = 0
    /\ live = Queue
    /\ paused = {}
    /\ conf \in [Queue -> [max_retries : RetryLimit, visibility_timeout : {NULL},
                           delay_seconds : {NULL}, message_retention_period : {NULL}]]
    /\ messages = [m \in MessageId |-> Absent]
    /\ draws = 0
    /\ call = [c \in Caller |-> Idle]
    /\ sent = 0
    /\ sendOrder = [m \in MessageId |-> 0]
    /\ issued = {}
    /\ leases = [m \in MessageId |-> {}]
    /\ attempts = [m \in MessageId |-> 0]
    /\ peak = [q \in Queue |-> conf[q].max_retries]

(* A second passes.  A promise that has run out is no longer one.          *)
Tick ==
    /\ now < Horizon
    /\ now' = now + 1
    /\ leases' = [m \in MessageId |-> {l \in leases[m] : l.until > now + 1}]
    /\ UNCHANGED <<settingVars, messages, draws, call, historyVars, attempts>>

(* A new row's id: one more than the largest in the table, which holds     *)
(* every queue's messages, and 1 when it is empty.  Deleting the newest    *)
(* message frees its id.                                                   *)
\* Deviation: the lowest free id.
LowestFreeRowId ==
    {i \in {1} \cup {messages[m].id + 1 : m \in Stored} :
        /\ \A m \in Stored : messages[m].id # i
        /\ \A j \in 1 .. i - 1 : \E m \in Stored : messages[m].id = j}
NextRowId == {i \in {1} \cup {messages[m].id + 1 : m \in Stored} :
                \A m \in Stored : messages[m].id < i}

(* SendMessage, SendMessageBatch and an admin's send: one transaction      *)
(* stores the accepted entries in order; `place` numbers them.  A refused  *)
(* entry (its size, its delay) leaves nothing.  A delay hides the message  *)
(* without counting as a delivery.                                         *)
Send(q, place, delay) ==
    LET batch == DOMAIN place
        hidden(m) == Coalesce(delay[m], Coalesce(conf[q].delay_seconds, 0))
        hideUntil(m) == IF hidden(m) > 0 THEN now + hidden(m) ELSE NULL
    IN  \E first \in NextRowId :
          /\ q \in live
          /\ messages' = [m \in MessageId |->
               IF m \notin batch THEN messages[m]
               ELSE [queue |-> q, id |-> first + place[m] - 1, received_at |-> now,
                     delivered_at |-> NULL, invisible_until |-> hideUntil(m),
                     tries |-> 0, receipt_handle |-> NULL]]
          /\ sent' = sent + Cardinality(batch)
          /\ sendOrder' = [m \in MessageId |->
               IF m \in batch THEN sent + place[m] ELSE sendOrder[m]]
          /\ leases' = [m \in MessageId |->
               IF m \in batch /\ hidden(m) > 0
               THEN {[handle |-> NULL, until |-> now + hidden(m)]}
               ELSE leases[m]]
          /\ UNCHANGED <<now, settingVars, draws, call, issued, attempts>>

(* The first `limit` available messages in row id order.                   *)
\* Deviation: the claim forgets the visibility window.
ClaimableThoughHidden(q) == {m \in Of(q) : q \notin paused /\ ~Exhausted(m)}
Claimable(q) == {m \in Of(q) : q \notin paused /\ Available(m)}
\* Deviation: newest first.
ClaimNewest(q, limit) ==
    {m \in Claimable(q) :
        Cardinality({k \in Claimable(q) : messages[k].id > messages[m].id}) < limit}
Claim(q, limit) ==
    {m \in Claimable(q) :
        Cardinality({k \in Claimable(q) : messages[k].id < messages[m].id}) < limit}

\* Deviation: a handle without randomness, the delivery's number instead.
CountedHandle(m) == [id |-> messages[m].id, draw |-> messages[m].tries]
MintedHandle(m) == [id |-> messages[m].id, draw |-> draws + 1]

(* One claim of a ReceiveMessage: a single UPDATE, so that the messages it *)
(* hands out are hidden as they are chosen.  `timeout` is NULL when the    *)
(* request carries none.                                                   *)
Receive(q, limit, timeout) ==
    LET claimed == Claim(q, limit)
        until == now + Coalesce(timeout, Coalesce(conf[q].visibility_timeout, DefaultTimeout))
    IN  /\ draws < MaxDraws
        /\ claimed # {}
        /\ draws' = draws + 1
        /\ messages' = [m \in MessageId |->
             IF m \notin claimed THEN messages[m]
             ELSE [messages[m] EXCEPT !.delivered_at = now,
                                      !.tries = @ + 1,
                                      !.invisible_until = until,
                                      !.receipt_handle = MintedHandle(m)]]
        /\ issued' = issued \cup {[handle |-> MintedHandle(m), message |-> m] : m \in claimed}
        /\ leases' = [m \in MessageId |->
             IF m \in claimed /\ until > now
             THEN leases[m] \cup {[handle |-> MintedHandle(m), until |-> until]}
             ELSE leases[m]]
        /\ attempts' = [m \in MessageId |->
             IF m \in claimed THEN attempts[m] + 1 ELSE attempts[m]]
        /\ UNCHANGED <<now, settingVars, call, sent, sendOrder>>

(* Rows leave the table.                                                   *)
Remove(gone) ==
    /\ gone # {}
    /\ messages' = [m \in MessageId |-> IF m \in gone THEN Absent ELSE messages[m]]
    /\ leases' = [m \in MessageId |-> IF m \in gone THEN {} ELSE leases[m]]
    /\ attempts' = [m \in MessageId |-> IF m \in gone THEN 0 ELSE attempts[m]]

(* DeleteMessage and DeleteMessageBatch: one DELETE of the messages whose  *)
(* latest handle is presented, even once their window has lapsed.          *)
DeleteMessages(q, handles) ==
    /\ Remove({m \in Of(q) : messages[m].receipt_handle \in handles})
    /\ UNCHANGED <<now, settingVars, draws, call, historyVars>>

-----------------------------------------------------------------------------

(* The messages a visibility change's handle can still hide, and those of  *)
(* them that the change keeps within 12 hours of their receive.            *)
\* Deviation: a message an admin requeued is still its old holder's.
HideableRequeued(q, handle) == {m \in Of(q) : messages[m].receipt_handle = handle}
Hideable(q, handle) ==
    {m \in Of(q) : /\ messages[m].receipt_handle = handle
                   /\ messages[m].invisible_until # NULL}
\* Deviation: a change is not capped.
HidesUncapped(q, e) == Hideable(q, e.receipt_handle)
Hides(q, e) ==
    {m \in Hideable(q, e.receipt_handle) :
        now + e.timeout <= messages[m].delivered_at + MaxTotalVisibility}

(* One UPDATE for the entries in E, which have different handles.          *)
HideFromNow(q, E) ==
    LET hidden == UNION {Hides(q, e) : e \in E}
        until(m) == now + (CHOOSE e \in E : m \in Hides(q, e)).timeout
    IN  /\ messages' = [m \in MessageId |->
             IF m \in hidden THEN [messages[m] EXCEPT !.invisible_until = until(m)]
             ELSE messages[m]]
        /\ leases' = [m \in MessageId |->
             IF m \notin hidden THEN leases[m]
             ELSE {l \in leases[m] : l.handle # messages[m].receipt_handle}
                  \cup {l \in {[handle |-> messages[m].receipt_handle, until |-> until(m)]} :
                          l.until > now}]

Misses(q, entries, I) == {i \in I : Hides(q, entries[i]) = {}}
Refused(q, entries, I) ==
    {i \in Misses(q, entries, I) : Hideable(q, entries[i].receipt_handle) # {}}

Repeats(entries) ==
    {i \in DOMAIN entries : \E j \in DOMAIN entries \ {i} :
        entries[i].receipt_handle = entries[j].receipt_handle}

(* ChangeMessageVisibility and its batch, first statement: the entries     *)
(* whose handle occurs once.  A request with nothing left to do answers.   *)
ChangeVisibility(c, q, entries) ==
    LET single == DOMAIN entries \ Repeats(entries)
        missed == Misses(q, entries, single)
    IN  /\ call[c] = Idle
        /\ HideFromNow(q, {entries[i] : i \in single})
        /\ call' = [call EXCEPT ![c] =
             IF Repeats(entries) = {} /\ missed = {} THEN Idle
             ELSE [queue |-> q, entries |-> entries, repeated |-> Repeats(entries),
                   missed |-> missed, capped |-> Refused(q, entries, single)]]
        /\ UNCHANGED <<now, settingVars, draws, historyVars, attempts>>

(* The entries whose handle occurs again, one statement each, in order.    *)
ApplyRepeated(c) ==
    /\ call[c] # Idle
    /\ \E i \in call[c].repeated :
         /\ \A j \in call[c].repeated : i <= j
         /\ HideFromNow(call[c].queue, {call[c].entries[i]})
         /\ LET missed == call[c].missed \cup Misses(call[c].queue, call[c].entries, {i})
                rest == call[c].repeated \ {i}
            IN  call' = [call EXCEPT ![c] =
                  IF rest = {} /\ missed = {} THEN Idle
                  ELSE [call[c] EXCEPT
                          !.repeated = rest, !.missed = missed,
                          !.capped = @ \cup Refused(call[c].queue, call[c].entries, {i})]]
    /\ UNCHANGED <<now, settingVars, draws, historyVars, attempts>>

(* The lookup that says why the rest matched nothing: an entry whose       *)
(* handle can hide a message now is answered "beyond the 12 hours", any    *)
(* other "not available".                                                  *)
\* Deviation: the lookup forgets that a requeued message is not its
\* handle's to hide.
BeyondLimitOfAny(c) ==
    {i \in call[c].missed : \E m \in Of(call[c].queue) :
        messages[m].receipt_handle = call[c].entries[i].receipt_handle}
BeyondLimit(c) ==
    {i \in call[c].missed :
        Hideable(call[c].queue, call[c].entries[i].receipt_handle) # {}}
Answer(c) ==
    /\ call[c] # Idle
    /\ call[c].repeated = {}
    /\ call' = [call EXCEPT ![c] = Idle]
    /\ UNCHANGED <<now, settingVars, tableVars, draws, historyVars>>

(* The server dies between two statements: the requests in flight are      *)
(* gone, the table is not.                                                 *)
Restart ==
    /\ \E c \in Caller : call[c] # Idle
    /\ call' = [c \in Caller |-> Idle]
    /\ UNCHANGED <<now, settingVars, tableVars, draws, historyVars>>

-----------------------------------------------------------------------------

(* An admin deletes one message, whatever its state.                       *)
AdminDelete(m) ==
    /\ m \in Stored
    /\ Remove({m})
    /\ UNCHANGED <<now, settingVars, draws, call, historyVars>>

(* An admin clears the failed messages: those with no retries left.        *)
ClearFailed(q) ==
    /\ Remove({m \in Of(q) : Exhausted(m)})
    /\ UNCHANGED <<now, settingVars, draws, call, historyVars>>

(* An admin forces a message to "pending" or "failed".  Its handle stays;  *)
(* the promises to hide it do not.                                         *)
SetStatus(m, tries) ==
    /\ m \in Stored
    /\ messages' = [messages EXCEPT ![m] =
         [@ EXCEPT !.invisible_until = NULL, !.tries = tries]]
    /\ leases' = [leases EXCEPT ![m] = {}]
    /\ attempts' = [attempts EXCEPT ![m] = 0]
    /\ UNCHANGED <<now, settingVars, draws, call, historyVars>>
Requeue(m) == SetStatus(m, 0)
\* Deviation: a queue without a configuration row has no limit to set.
MarkFailedUnlimited(m) == SetStatus(m, NULL)
MarkFailed(m) == m \in Stored /\ SetStatus(m, conf[messages[m].queue].max_retries)

Purge(q) ==
    /\ Remove(Of(q))
    /\ UNCHANGED <<now, settingVars, draws, call, historyVars>>

(* The retention sweep: one DELETE over every queue, whatever the state of *)
(* a message.                                                              *)
Expired(m) ==
    LET period == conf[messages[m].queue].message_retention_period
    IN  period # NULL /\ period > 0 /\ messages[m].received_at + period <= now
SweepRetention ==
    /\ Remove({m \in Stored : Expired(m)})
    /\ UNCHANGED <<now, settingVars, draws, call, historyVars>>

SetPaused(q, pause) ==
    /\ q \in live
    /\ paused' = IF pause THEN paused \cup {q} ELSE paused \ {q}
    /\ paused' # paused
    /\ UNCHANGED <<now, live, conf, peak, tableVars, draws, call, historyVars>>

(* The admin's max_retries.                                                *)
Configure(q, limit) ==
    /\ q \in live
    /\ conf[q].max_retries # limit
    /\ conf' = [conf EXCEPT ![q].max_retries = limit]
    /\ peak' = [peak EXCEPT ![q] = IF limit > @ THEN limit ELSE @]
    /\ UNCHANGED <<now, live, paused, tableVars, draws, call, historyVars>>

(* SetQueueAttributes: each attribute is set, never unset.                 *)
SetAttributes(q, visibility, delay, period) ==
    /\ q \in live
    /\ conf' = [conf EXCEPT ![q] =
         [@ EXCEPT !.visibility_timeout = visibility, !.delay_seconds = delay,
                   !.message_retention_period = period]]
    /\ conf' # conf
    /\ UNCHANGED <<now, live, paused, peak, tableVars, draws, call, historyVars>>

(* Deleting the queue deletes its messages with it.                        *)
DeleteQueue(q) ==
    /\ q \in live
    /\ live' = live \ {q}
    /\ paused' = paused \ {q}
    /\ messages' = [m \in MessageId |-> IF m \in Of(q) THEN Absent ELSE messages[m]]
    /\ leases' = [m \in MessageId |-> IF m \in Of(q) THEN {} ELSE leases[m]]
    /\ attempts' = [m \in MessageId |-> IF m \in Of(q) THEN 0 ELSE attempts[m]]
    /\ UNCHANGED <<now, conf, peak, draws, call, historyVars>>

-----------------------------------------------------------------------------

(* Consumers present receipts they were once handed, of any age, to any    *)
(* queue; nobody guesses a handle.                                         *)
Presented == {r.handle : r \in issued}
Requests == UNION {[1 .. n -> [receipt_handle : Presented, timeout : Timeout]] :
                     n \in 1 .. MaxBatch}

Consume ==
    \E q \in Queue :
      \/ \E batch \in SUBSET Unsent :
           /\ Cardinality(batch) \in 1 .. MaxBatch
           /\ \E place \in Injection(batch, 1 .. Cardinality(batch)),
                 delay \in [batch -> Delay \cup {NULL}] : Send(q, place, delay)
      \/ \E limit \in 1 .. MaxBatch, timeout \in Timeout \cup {NULL} :
           Receive(q, limit, timeout)
      \/ \E handles \in SUBSET Presented :
           Cardinality(handles) \in 1 .. MaxBatch /\ DeleteMessages(q, handles)
      \/ \E c \in Caller, entries \in Requests : ChangeVisibility(c, q, entries)

InFlightCalls == (\E c \in Caller : ApplyRepeated(c) \/ Answer(c)) \/ Restart

Administer ==
    \/ \E m \in MessageId : AdminDelete(m) \/ Requeue(m) \/ MarkFailed(m)
    \/ \E q \in Queue :
         \/ ClearFailed(q) \/ Purge(q) \/ DeleteQueue(q)
         \/ \E pause \in BOOLEAN : SetPaused(q, pause)
         \/ \E limit \in RetryLimit : Configure(q, limit)
         \/ \E visibility \in QueueTimeout \cup {conf[q].visibility_timeout},
              delay \in QueueDelay \cup {conf[q].delay_seconds},
              period \in Period \cup {conf[q].message_retention_period} :
              SetAttributes(q, visibility, delay, period)

Next == Tick \/ SweepRetention \/ Consume \/ InFlightCalls \/ Administer

Spec == Init /\ [][Next]_vars

-----------------------------------------------------------------------------

(* The type invariant.                                                     *)
TypeOK ==
    /\ now \in Nat
    /\ live \subseteq Queue
    /\ paused \subseteq live
    /\ conf \in [Queue -> Settings]
    /\ messages \in [MessageId -> Row \cup {Absent}]
    /\ draws \in Nat
    /\ call \in [Caller -> Call \cup {Idle}]
    /\ \A c \in Caller : call[c] # Idle =>
         call[c].repeated \cup call[c].missed \subseteq DOMAIN call[c].entries
    /\ sent \in Nat
    /\ sendOrder \in [MessageId -> Nat]
    /\ issued \subseteq [handle : Handle, message : MessageId]
    /\ leases \in [MessageId ->
                     SUBSET [handle : Handle \cup {NULL}, until : Nat]]
    /\ attempts \in [MessageId -> Nat]
    /\ peak \in [Queue -> Nat]

(* What the queue promises, with rows, clock and settings left out: a      *)
(* message nobody may hide has no invisible_until, and one whose window    *)
(* has run out keeps it.                                                   *)
Phase ==
    [m \in MessageId |->
        CASE sendOrder[m] = 0 -> "unsent"
          [] sendOrder[m] > 0 /\ m \notin Stored -> "gone"
          [] m \in Stored /\ messages[m].invisible_until = NULL -> "free"
          [] OTHER -> IF Visible(m) THEN "lapsed" ELSE "held"]
LatestReceipt ==
    [m \in MessageId |-> IF m \in Stored THEN messages[m].receipt_handle ELSE NULL]

Promise == INSTANCE LeaseQueue WITH
    Message <- MessageId, Receipt <- Handle, None <- NULL,
    phase <- Phase, receipt <- LatestReceipt, spent <- {r.handle : r \in issued}

(* Every statement on the table is one step of the promise, or none of its *)
(* business: a message is never handed out while it is held, only its      *)
(* latest receipt hides it, an admin's status change ends that, receipts   *)
(* are never used twice, and a message that left never comes back.         *)
KeepsThePromise == Promise!Spec

(* A message is promised to one holder at a time: two of the sender who    *)
(* delayed it and the consumers who received it, or hid it again, never    *)
(* hold promises that run at once, however releases, expiries, redelivery  *)
(* and repeated visibility changes interleave.  Only an admin's status     *)
(* change breaks a promise.                                                *)
LeaseExclusion == \A m \in MessageId : \A k, l \in leases[m] : k = l

(* What makes it so: a running promise is exactly what the row says.       *)
LeaseHonoured ==
    \A m \in MessageId : \A l \in leases[m] :
        /\ m \in Stored
        /\ messages[m].receipt_handle = l.handle
        /\ messages[m].invisible_until = l.until
        /\ l.until > now

(* A receipt acts on the message it was handed out for and on no other,    *)
(* although a new message takes a deleted one's row id and the handle      *)
(* starts with it.                                                         *)
ReceiptsNeverCross ==
    \A m \in Stored : \A r \in issued :
        messages[m].receipt_handle = r.handle => r.message = m

(* Row ids give send order among the messages that exist together, across  *)
(* deletions that free ids and batches that take several.                  *)
RowIdsInSendOrder ==
    \A k, m \in Stored : sendOrder[k] < sendOrder[m] => messages[k].id < messages[m].id

(* Receives take the oldest available messages: no message is handed out   *)
(* over one of its queue that was sent earlier and is available.           *)
HandedOut(m) == attempts'[m] > attempts[m]
OldestFirst ==
    [][\A m \in Stored : HandedOut(m) =>
         \A k \in Stored :
            (/\ messages[k].queue = messages[m].queue
             /\ sendOrder[k] < sendOrder[m]
             /\ Available(k)) => HandedOut(k)]_vars

(* However max_retries moves, a message is received no more often, since   *)
(* it was sent or an admin last set its status, than the largest limit its *)
(* queue has had.                                                          *)
AttemptsBounded == \A m \in Stored : attempts[m] <= peak[messages[m].queue]

(* No sequence of visibility changes keeps a received message hidden past  *)
(* 12 hours from its latest receive.                                       *)
HiddenAtMostTwelveHours ==
    \A m \in Stored :
        messages[m].delivered_at # NULL /\ messages[m].invisible_until # NULL =>
            messages[m].invisible_until <= messages[m].delivered_at + MaxTotalVisibility

(* A visibility change answered "beyond the 12 hours" was refused for that *)
(* reason alone, although the lookup that says so runs after the update    *)
(* and others may have received, requeued or deleted the message between.  *)
BeyondLimitTruthful ==
    \A c \in Caller : call[c] # Idle => BeyondLimit(c) \subseteq call[c].capped

(* The queue gauges count each message in exactly one state, and the       *)
(* status the message list shows agrees with them: a delayed message is    *)
(* pending, and only an exhausted one that is not in flight has failed.    *)
StatusMatchesGauges ==
    \A m \in Stored :
        /\ Status(m) = "pending" <=> Available(m) \/ Delayed(m)
        /\ Status(m) = "failed" <=> Failed(m)

(* Clearing the failed messages removes only messages whose status is      *)
(* "failed" (src/src/api/queue.rs, clear_failed_messages).                 *)
ClearFailedSparesInFlight ==
    [][\A q \in Queue : ClearFailed(q) =>
         \A m \in Stored : messages'[m] = Absent => Status(m) = "failed"]_vars
=============================================================================
