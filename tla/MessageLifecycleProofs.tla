----------------------- MODULE MessageLifecycleProofs -----------------------
(***************************************************************************)
(* What MessageLifecycle promises for every value of its constants, and    *)
(* why.  First what a value of each part of the state is, then the lemmas  *)
(* on the helpers several actions share, then one theorem per property.    *)
(* Last, that the table of messages implements what a queue promises       *)
(* (LeaseQueue), and what it needs: receipts and row ids are never taken   *)
(* for another message's, and ids follow the order of sends.               *)
(***************************************************************************)
EXTENDS MessageLifecycle, FiniteSetTheorems, SequenceTheorems, TLAPS

USE ConstantsAssumption, MarkersAssumption

(* A stored message has a row.                                             *)
LEMMA StoredRow ==
    ASSUME TypeOK, NEW m \in Stored
    PROVE  /\ m \in MessageId
           /\ messages[m] \in Row
  BY DEF TypeOK, Stored

(* Removing rows keeps the table's type.                                   *)
LEMMA RemoveType ==
    ASSUME TypeOK, NEW gone, Remove(gone)
    PROVE  /\ messages' \in [MessageId -> Row \cup {Absent}]
           /\ leases' \in [MessageId -> SUBSET [handle : Handle \cup {NULL}, until : Nat]]
           /\ attempts' \in [MessageId -> Nat]
  BY DEF TypeOK, Remove

(* Hiding messages keeps the table's type.                                 *)
LEMMA HideType ==
    ASSUME TypeOK, NEW q, NEW E \in SUBSET Entry, HideFromNow(q, E)
    PROVE  /\ messages' \in [MessageId -> Row \cup {Absent}]
           /\ leases' \in [MessageId -> SUBSET [handle : Handle \cup {NULL}, until : Nat]]
  <1> DEFINE hidden == UNION {Hides(q, e) : e \in E}
             until(m) == now + (CHOOSE e \in E : m \in Hides(q, e)).timeout
  <1>1. \A m \in hidden : m \in Stored /\ until(m) \in Nat
    <2> SUFFICES ASSUME NEW m \in hidden
                 PROVE  m \in Stored /\ until(m) \in Nat
      OBVIOUS
    <2>1. PICK e \in E : m \in Hides(q, e)
      OBVIOUS
    <2>2. m \in Stored
      BY <2>1 DEF Hides, Hideable, Of
    <2>3. (CHOOSE f \in E : m \in Hides(q, f)) \in E
      BY <2>1
    <2> QED
      BY <2>2, <2>3 DEF Entry, TypeOK
  <1>2. ASSUME NEW m \in MessageId
        PROVE  /\ messages'[m] \in Row \cup {Absent}
               /\ leases'[m] \in SUBSET [handle : Handle \cup {NULL}, until : Nat]
    <2>1. CASE m \in hidden
      <3>1. /\ messages[m] \in Row
            /\ until(m) \in Nat
        BY <1>1, <2>1, StoredRow
      <3>2. messages'[m] = [messages[m] EXCEPT !.invisible_until = until(m)]
        BY <2>1 DEF HideFromNow
      <3>3. leases'[m] = {l \in leases[m] : l.handle # messages[m].receipt_handle}
                         \cup {l \in {[handle |-> messages[m].receipt_handle,
                                       until |-> until(m)]} : l.until > now}
        BY <2>1 DEF HideFromNow
      <3>4. messages[m].receipt_handle \in Handle \cup {NULL}
        BY <3>1 DEF Row
      <3>5. leases[m] \in SUBSET [handle : Handle \cup {NULL}, until : Nat]
        BY DEF TypeOK
      <3>6. leases'[m] \in SUBSET [handle : Handle \cup {NULL}, until : Nat]
        <4> HIDE DEF until
        <4> QED  BY <3>1, <3>3, <3>4, <3>5
      <3>7. messages'[m] \in Row
        <4> HIDE DEF until
        <4> QED  BY <3>1, <3>2 DEF Row, Time
      <3> QED
        BY <3>6, <3>7
    <2>2. CASE m \notin hidden
      BY <2>2 DEF HideFromNow, TypeOK
    <2> QED
      BY <2>1, <2>2
  <1>3. /\ messages' = [m \in MessageId |-> messages'[m]]
        /\ leases' = [m \in MessageId |-> leases'[m]]
    BY DEF HideFromNow
  <1> QED
    BY <1>2, <1>3

(* The requests consumers send are sequences of entries.                   *)
LEMMA RequestType ==
    ASSUME TypeOK, NEW entries \in Requests
    PROVE  /\ entries \in Seq(Entry)
           /\ DOMAIN entries \subseteq Nat
           /\ \A i \in DOMAIN entries : entries[i] \in Entry
  <1>1. Presented \subseteq Handle
    BY DEF Presented, TypeOK
  <1>2. PICK n \in 1 .. MaxBatch :
          entries \in [1 .. n -> [receipt_handle : Presented, timeout : Timeout]]
    BY DEF Requests
  <1>3. entries \in [1 .. n -> Entry]
    BY <1>1, <1>2 DEF Entry
  <1>4. entries \in Seq(Entry)
    BY <1>2, <1>3, SeqDef
  <1> QED
    BY <1>3, <1>4

-----------------------------------------------------------------------------

(* A batch's types: a message takes an id and a place after those before.  *)
LEMMA SendType ==
    ASSUME TypeOK, NEW q \in Queue, NEW batch \in SUBSET Unsent,
           NEW place \in Injection(batch, 1 .. Cardinality(batch)),
           NEW delay \in [batch -> Delay \cup {NULL}], Send(q, place, delay)
    PROVE  TypeOK'
  <1> DEFINE hidden(m) == Coalesce(delay[m], Coalesce(conf[q].delay_seconds, 0))
             hideUntil(m) == IF hidden(m) > 0 THEN now + hidden(m) ELSE NULL
  <1>1. /\ batch \subseteq MessageId
        /\ IsFiniteSet(batch)
        /\ Cardinality(batch) \in Nat
    BY FS_Subset, FS_CardinalityType DEF Unsent
  <1>2. /\ place \in [batch -> 1 .. Cardinality(batch)]
        /\ DOMAIN place = batch
    BY DEF Injection
  <1>3. NextRowId \subseteq Nat
    <2>1. \A m \in Stored : messages[m].id + 1 \in Nat
      BY StoredRow DEF Row
    <2> QED
      BY <2>1 DEF NextRowId
  <1>4. PICK first \in NextRowId :
          /\ messages' = [m \in MessageId |->
               IF m \notin batch THEN messages[m]
               ELSE [queue |-> q, id |-> first + place[m] - 1, received_at |-> now,
                     delivered_at |-> NULL, invisible_until |-> hideUntil(m),
                     tries |-> 0, receipt_handle |-> NULL]]
          /\ sent' = sent + Cardinality(batch)
          /\ sendOrder' = [m \in MessageId |->
               IF m \in batch THEN sent + place[m] ELSE sendOrder[m]]
          /\ leases' = [m \in MessageId |->
               IF m \in batch /\ hidden(m) > 0
               THEN {[handle |-> NULL, until |-> now + hidden(m)]}
               ELSE leases[m]]
          /\ UNCHANGED <<now, settingVars, draws, call, issued, attempts>>
    BY <1>2 DEF Send
  <1>5. \A m \in batch : hidden(m) \in Nat
    <2>1. conf[q].delay_seconds \in QueueDelay \cup {NULL}
      BY DEF TypeOK, Settings
    <2> QED
      BY <2>1 DEF Coalesce
  <1>6. \A m \in batch : hideUntil(m) \in Time
    <2> HIDE DEF hidden
    <2> QED
      BY <1>5 DEF Time, TypeOK
  <1>7. messages' \in [MessageId -> Row \cup {Absent}]
    <2> HIDE DEF hideUntil
    <2>1. ASSUME NEW m \in batch
          PROVE  [queue |-> q, id |-> first + place[m] - 1, received_at |-> now,
                  delivered_at |-> NULL, invisible_until |-> hideUntil(m),
                  tries |-> 0, receipt_handle |-> NULL] \in Row
      <3>1. /\ first + place[m] - 1 \in Nat
            /\ now \in Nat
        BY <1>1, <1>2, <1>3 DEF TypeOK
      <3> QED
        BY <1>6, <3>1 DEF Row, Time
    <2> QED
      BY <1>4, <2>1 DEF TypeOK
  <1>8. /\ sent' \in Nat
        /\ sendOrder' \in [MessageId -> Nat]
    BY <1>1, <1>2, <1>4 DEF TypeOK
  <1>9. leases' \in [MessageId -> SUBSET [handle : Handle \cup {NULL}, until : Nat]]
    <2> HIDE DEF hidden
    <2> QED
      BY <1>4, <1>5 DEF TypeOK
  <1> QED
    BY <1>4, <1>7, <1>8, <1>9 DEF TypeOK, settingVars

(* A receive's types.                                                      *)
LEMMA ReceiveType ==
    ASSUME TypeOK, NEW q \in Queue, NEW limit \in Nat,
           NEW timeout \in Timeout \cup {NULL}, Receive(q, limit, timeout)
    PROVE  TypeOK'
  <1> DEFINE claimed == Claim(q, limit)
             until == now + Coalesce(timeout,
                              Coalesce(conf[q].visibility_timeout, DefaultTimeout))
  <1>1. until \in Nat
    <2>1. conf[q].visibility_timeout \in QueueTimeout \cup {NULL}
      BY DEF TypeOK, Settings
    <2> QED
      BY <2>1 DEF Coalesce, TypeOK
  <1>2. claimed \subseteq Stored
    BY DEF Claim, Claimable, Of
  <1>3. \A m \in claimed : MintedHandle(m) \in Handle
    BY <1>2, StoredRow DEF MintedHandle, Handle, TypeOK, Row
  <1> HIDE DEF until
  <1>4. messages' \in [MessageId -> Row \cup {Absent}]
    <2>1. ASSUME NEW m \in claimed
          PROVE  [messages[m] EXCEPT !.delivered_at = now,
                                     !.tries = @ + 1,
                                     !.invisible_until = until,
                                     !.receipt_handle = MintedHandle(m)] \in Row
      <3>1. /\ messages[m] \in Row
            /\ now \in Nat
            /\ MintedHandle(m) \in Handle
            /\ messages[m].tries + 1 \in Nat
        BY <1>2, <1>3, StoredRow DEF TypeOK, Row
      <3> QED
        BY <1>1, <3>1 DEF Row, Time
    <2>2. messages' = [m \in MessageId |->
             IF m \notin claimed THEN messages[m]
             ELSE [messages[m] EXCEPT !.delivered_at = now,
                                      !.tries = @ + 1,
                                      !.invisible_until = until,
                                      !.receipt_handle = MintedHandle(m)]]
      BY DEF Receive, until
    <2> QED
      BY <2>1, <2>2 DEF TypeOK
  <1>5. issued' \subseteq [handle : Handle, message : MessageId]
    <2>1. claimed \subseteq MessageId
      BY <1>2 DEF Stored
    <2>2. issued' = issued \cup {[handle |-> MintedHandle(m), message |-> m] : m \in claimed}
      BY DEF Receive
    <2>3. issued \subseteq [handle : Handle, message : MessageId]
      BY DEF TypeOK
    <2> QED
      BY <1>3, <2>1, <2>2, <2>3
  <1>6. leases' \in [MessageId -> SUBSET [handle : Handle \cup {NULL}, until : Nat]]
    <2>1. leases' = [m \in MessageId |->
             IF m \in claimed /\ until > now
             THEN leases[m] \cup {[handle |-> MintedHandle(m), until |-> until]}
             ELSE leases[m]]
      BY DEF Receive, until
    <2> QED
      BY <1>1, <1>3, <2>1 DEF TypeOK
  <1>7. /\ draws' \in Nat
        /\ attempts' \in [MessageId -> Nat]
    <2>1. /\ draws' = draws + 1
          /\ attempts' = [m \in MessageId |->
               IF m \in claimed THEN attempts[m] + 1 ELSE attempts[m]]
      BY DEF Receive
    <2>2. draws \in Nat /\ attempts \in [MessageId -> Nat]
      BY DEF TypeOK
    <2> HIDE DEF claimed
    <2> QED
      BY <2>1, <2>2
  <1> QED
    BY <1>4, <1>5, <1>6, <1>7 DEF Receive, TypeOK, settingVars

(* A visibility change's types, both statements of it.                     *)
LEMMA ChangeVisibilityType ==
    ASSUME TypeOK, NEW c \in Caller, NEW q \in Queue, NEW entries \in Requests,
           ChangeVisibility(c, q, entries)
    PROVE  TypeOK'
  <1> DEFINE single == DOMAIN entries \ Repeats(entries)
             missed == Misses(q, entries, single)
  <1>1. /\ {entries[i] : i \in single} \in SUBSET Entry
        /\ entries \in Seq(Entry)
        /\ DOMAIN entries \subseteq Nat
    BY RequestType
  <1>2. /\ messages' \in [MessageId -> Row \cup {Absent}]
        /\ leases' \in [MessageId -> SUBSET [handle : Handle \cup {NULL}, until : Nat]]
    BY <1>1, HideType DEF ChangeVisibility
  <1>3. /\ Repeats(entries) \subseteq Nat
        /\ missed \subseteq Nat
        /\ Refused(q, entries, single) \subseteq Nat
        /\ Repeats(entries) \cup missed \subseteq DOMAIN entries
    BY <1>1 DEF Repeats, Misses, Refused
  <1>4. /\ call' \in [Caller -> Call \cup {Idle}]
        /\ \A d \in Caller : call'[d] # Idle =>
             call'[d].repeated \cup call'[d].missed \subseteq DOMAIN call'[d].entries
    <2>1. [queue |-> q, entries |-> entries, repeated |-> Repeats(entries),
           missed |-> missed, capped |-> Refused(q, entries, single)] \in Call
      BY <1>1, <1>3 DEF Call
    <2> QED
      BY <1>3, <2>1 DEF ChangeVisibility, TypeOK
  <1> QED
    BY <1>2, <1>4 DEF ChangeVisibility, TypeOK, settingVars, historyVars

(* A call that applies one of its repeated entries keeps the types, and    *)
(* the indices it remembers stay those of its entries.                     *)
LEMMA ApplyRepeatedType ==
    ASSUME TypeOK, NEW c \in Caller, ApplyRepeated(c)
    PROVE  TypeOK'
  <1>1. /\ call[c] \in Call
        /\ call[c].repeated \cup call[c].missed \subseteq DOMAIN call[c].entries
    BY DEF ApplyRepeated, TypeOK
  <1>2. PICK i \in call[c].repeated :
          /\ HideFromNow(call[c].queue, {call[c].entries[i]})
          /\ LET missed == call[c].missed \cup Misses(call[c].queue, call[c].entries, {i})
                 rest == call[c].repeated \ {i}
             IN  call' = [call EXCEPT ![c] =
                   IF rest = {} /\ missed = {} THEN Idle
                   ELSE [call[c] EXCEPT
                           !.repeated = rest, !.missed = missed,
                           !.capped = @ \cup Refused(call[c].queue, call[c].entries, {i})]]
    BY DEF ApplyRepeated
  <1> DEFINE missed == call[c].missed \cup Misses(call[c].queue, call[c].entries, {i})
             refused == Refused(call[c].queue, call[c].entries, {i})
             rest == call[c].repeated \ {i}
             next == [call[c] EXCEPT !.repeated = rest, !.missed = missed,
                                     !.capped = @ \cup refused]
  <1>3. /\ i \in DOMAIN call[c].entries
        /\ i \in Nat
        /\ call[c].entries[i] \in Entry
    <2>1. /\ call[c].entries \in Seq(Entry)
          /\ call[c].repeated \subseteq Nat
      BY <1>1 DEF Call
    <2> QED
      BY <1>1, <2>1
  <1>4. /\ messages' \in [MessageId -> Row \cup {Absent}]
        /\ leases' \in [MessageId -> SUBSET [handle : Handle \cup {NULL}, until : Nat]]
    BY <1>2, <1>3, HideType
  <1>5. /\ Misses(call[c].queue, call[c].entries, {i}) \subseteq {i}
        /\ refused \subseteq {i}
    BY DEF Misses, Refused
  <1>6. /\ next \in Call
        /\ next.entries = call[c].entries
        /\ next.repeated = rest
        /\ next.missed = missed
    <2> HIDE DEF refused
    <2>1. /\ missed \subseteq Nat
          /\ rest \subseteq Nat
          /\ call[c].capped \cup refused \subseteq Nat
      BY <1>1, <1>3, <1>5 DEF Call
    <2> HIDE DEF missed, rest
    <2> QED
      BY <1>1, <2>1 DEF Call
  <1>7. next.repeated \cup next.missed \subseteq DOMAIN next.entries
    BY <1>1, <1>3, <1>5, <1>6
  <1>8. call' = [call EXCEPT ![c] = IF rest = {} /\ missed = {} THEN Idle ELSE next]
    BY <1>2
  <1> HIDE DEF next, rest, missed
  <1>9. /\ call' \in [Caller -> Call \cup {Idle}]
        /\ \A d \in Caller : call'[d] # Idle =>
             call'[d].repeated \cup call'[d].missed \subseteq DOMAIN call'[d].entries
    BY <1>6, <1>7, <1>8 DEF TypeOK
  <1> QED
    BY <1>4, <1>9 DEF ApplyRepeated, TypeOK, settingVars, historyVars
-----------------------------------------------------------------------------

(* Every value stays in its type: no call, however it interleaves, leaves  *)
(* a row the next statement could not read.                                *)
THEOREM TypeCorrect == Spec => []TypeOK
  <1>1. Init => TypeOK
    <2> SUFFICES ASSUME Init PROVE TypeOK
      OBVIOUS
    <2>1. conf \in [Queue -> Settings]
      BY DEF Init, Settings
    <2>2. peak \in [Queue -> Nat]
      BY DEF Init
    <2> QED
      BY <2>1, <2>2 DEF Init, TypeOK
  <1>2. TypeOK /\ [Next]_vars => TypeOK'
    <2> SUFFICES ASSUME TypeOK, [Next]_vars PROVE TypeOK'
      OBVIOUS
    <2>1. CASE Tick
      BY <2>1 DEF Tick, TypeOK, settingVars, historyVars
    <2>2. CASE SweepRetention
      BY <2>2, RemoveType DEF SweepRetention, TypeOK, settingVars, historyVars
    <2>3. CASE Consume
      <3>1. PICK q \in Queue :
              \/ \E batch \in SUBSET Unsent :
                   /\ Cardinality(batch) \in 1 .. MaxBatch
                   /\ \E place \in Injection(batch, 1 .. Cardinality(batch)),
                         delay \in [batch -> Delay \cup {NULL}] : Send(q, place, delay)
              \/ \E limit \in 1 .. MaxBatch, timeout \in Timeout \cup {NULL} :
                   Receive(q, limit, timeout)
              \/ \E handles \in SUBSET Presented :
                   Cardinality(handles) \in 1 .. MaxBatch /\ DeleteMessages(q, handles)
              \/ \E c \in Caller, entries \in Requests : ChangeVisibility(c, q, entries)
        BY <2>3 DEF Consume
      <3>2. ASSUME NEW handles, DeleteMessages(q, handles)
            PROVE  TypeOK'
        BY <3>2, RemoveType DEF DeleteMessages, TypeOK, settingVars, historyVars
      <3> QED
        BY <3>1, <3>2, SendType, ReceiveType, ChangeVisibilityType
    <2>4. CASE InFlightCalls
      <3>1. ASSUME NEW c \in Caller, Answer(c)
            PROVE  TypeOK'
        BY <3>1 DEF Answer, TypeOK, tableVars, settingVars, historyVars
      <3>2. CASE Restart
        BY <3>2 DEF Restart, TypeOK, tableVars, settingVars, historyVars
      <3> QED
        BY <2>4, <3>1, <3>2, ApplyRepeatedType DEF InFlightCalls
    <2>5. CASE Administer
      <3>1. ASSUME NEW m \in MessageId, AdminDelete(m)
            PROVE  TypeOK'
        BY <3>1, RemoveType DEF AdminDelete, TypeOK, settingVars, historyVars
      <3>2. ASSUME NEW m \in MessageId, NEW tries \in Nat, SetStatus(m, tries)
            PROVE  TypeOK'
        <4>1. /\ messages[m] \in Row
              /\ [messages[m] EXCEPT !.invisible_until = NULL, !.tries = tries] \in Row
          <5>1. messages[m] \in Row
            BY <3>2, StoredRow DEF SetStatus
          <5> QED
            BY <3>2, <5>1 DEF Row, Time
        <4>2. messages' \in [MessageId -> Row \cup {Absent}]
          BY <3>2, <4>1 DEF SetStatus, TypeOK
        <4> QED
          BY <3>2, <4>2 DEF SetStatus, TypeOK, settingVars, historyVars
      <3>3. ASSUME NEW m \in MessageId, Requeue(m) \/ MarkFailed(m)
            PROVE  TypeOK'
        <4>1. CASE Requeue(m)
          BY <3>2, <4>1 DEF Requeue
        <4>2. CASE MarkFailed(m)
          <5>1. messages[m].queue \in Queue
            BY <4>2, StoredRow DEF MarkFailed, Row
          <5>2. conf[messages[m].queue].max_retries \in Nat
            BY <5>1 DEF TypeOK, Settings
          <5> QED
            BY <3>2, <4>2, <5>2 DEF MarkFailed
        <4> QED
          BY <3>3, <4>1, <4>2
      <3>4. ASSUME NEW q \in Queue, ClearFailed(q) \/ Purge(q)
            PROVE  TypeOK'
        BY <3>4, RemoveType DEF ClearFailed, Purge, TypeOK, settingVars, historyVars
      <3>5. ASSUME NEW q \in Queue, DeleteQueue(q)
            PROVE  TypeOK'
        BY <3>5 DEF DeleteQueue, TypeOK, historyVars
      <3>6. ASSUME NEW q \in Queue, NEW pause \in BOOLEAN, SetPaused(q, pause)
            PROVE  TypeOK'
        BY <3>6 DEF SetPaused, TypeOK, tableVars, historyVars
      <3>7. ASSUME NEW q \in Queue, NEW limit \in RetryLimit, Configure(q, limit)
            PROVE  TypeOK'
        BY <3>7 DEF Configure, TypeOK, Settings, tableVars, historyVars
      <3>8. ASSUME NEW q \in Queue,
                   NEW visibility \in QueueTimeout \cup {conf[q].visibility_timeout},
                   NEW delay \in QueueDelay \cup {conf[q].delay_seconds},
                   NEW period \in Period \cup {conf[q].message_retention_period},
                   SetAttributes(q, visibility, delay, period)
            PROVE  TypeOK'
        <4>1. [conf[q] EXCEPT !.visibility_timeout = visibility, !.delay_seconds = delay,
                              !.message_retention_period = period] \in Settings
          <5>1. conf[q] \in Settings
            BY DEF TypeOK
          <5> QED
            BY <5>1 DEF Settings
        <4>2. conf' \in [Queue -> Settings]
          BY <3>8, <4>1 DEF SetAttributes, TypeOK
        <4> QED
          BY <3>8, <4>2 DEF SetAttributes, TypeOK, tableVars, historyVars
      <3> QED
        BY <2>5, <3>1, <3>3, <3>4, <3>5, <3>6, <3>7, <3>8 DEF Administer
    <2>6. CASE UNCHANGED vars
      BY <2>6 DEF vars, TypeOK, settingVars, historyVars
    <2> QED
      BY <2>1, <2>2, <2>3, <2>4, <2>5, <2>6 DEF Next
  <1> QED
    BY <1>1, <1>2, PTL DEF Spec
-----------------------------------------------------------------------------

(* A visibility change leaves a row alone, or sets a new end to the window *)
(* of a message that has one, at most 12 hours after its latest receive.   *)
LEMMA HideEffect ==
    ASSUME TypeOK, NEW q, NEW E \in SUBSET Entry, HideFromNow(q, E), NEW m \in MessageId
    PROVE  \/ /\ messages'[m] = messages[m]
              /\ leases'[m] = leases[m]
           \/ \E u \in Nat :
                /\ m \in Stored
                /\ messages[m].invisible_until # NULL
                /\ u <= messages[m].delivered_at + MaxTotalVisibility
                /\ messages'[m] = [messages[m] EXCEPT !.invisible_until = u]
                /\ leases'[m] = {l \in leases[m] : l.handle # messages[m].receipt_handle}
                     \cup {l \in {[handle |-> messages[m].receipt_handle, until |-> u]} :
                             l.until > now}
  <1> DEFINE hidden == UNION {Hides(q, e) : e \in E}
             until(k) == now + (CHOOSE e \in E : k \in Hides(q, e)).timeout
  <1>1. CASE m \notin hidden
    BY <1>1 DEF HideFromNow
  <1>2. CASE m \in hidden
    <2>1. PICK e \in E : m \in Hides(q, e)
      BY <1>2
    <2>2. /\ (CHOOSE f \in E : m \in Hides(q, f)) \in E
          /\ m \in Hides(q, (CHOOSE f \in E : m \in Hides(q, f)))
      BY <2>1
    <2>3. /\ m \in Stored
          /\ messages[m].invisible_until # NULL
          /\ until(m) <= messages[m].delivered_at + MaxTotalVisibility
      BY <2>2 DEF Hides, Hideable, Of
    <2>4. until(m) \in Nat
      BY <2>2 DEF Entry, TypeOK
    <2>5. messages'[m] = [messages[m] EXCEPT !.invisible_until = until(m)]
      BY <1>2 DEF HideFromNow
    <2>6. leases'[m] = {l \in leases[m] : l.handle # messages[m].receipt_handle}
                       \cup {l \in {[handle |-> messages[m].receipt_handle,
                                     until |-> until(m)]} : l.until > now}
      BY <1>2 DEF HideFromNow
    <2> HIDE DEF until
    <2> QED
      BY <2>3, <2>4, <2>5, <2>6
  <1> QED
    BY <1>1, <1>2

(* Both statements of a visibility change are one HideFromNow.             *)
LEMMA ChangeHides ==
    ASSUME TypeOK,
           \/ \E c \in Caller, q \in Queue, entries \in Requests :
                ChangeVisibility(c, q, entries)
           \/ \E c \in Caller : ApplyRepeated(c)
    PROVE  \E q, E : E \in SUBSET Entry /\ HideFromNow(q, E)
  <1>1. CASE \E c \in Caller, q \in Queue, entries \in Requests :
               ChangeVisibility(c, q, entries)
    <2>1. PICK c \in Caller, q \in Queue, entries \in Requests :
            ChangeVisibility(c, q, entries)
      BY <1>1
    <2>2. HideFromNow(q, {entries[i] : i \in DOMAIN entries \ Repeats(entries)})
      BY <2>1 DEF ChangeVisibility
    <2>3. {entries[i] : i \in DOMAIN entries \ Repeats(entries)} \in SUBSET Entry
      BY RequestType
    <2> QED
      BY <2>2, <2>3
  <1>2. CASE \E c \in Caller : ApplyRepeated(c)
    <2>1. PICK c \in Caller : ApplyRepeated(c)
      BY <1>2
    <2>2. PICK i \in call[c].repeated :
            HideFromNow(call[c].queue, {call[c].entries[i]})
      BY <2>1 DEF ApplyRepeated
    <2>3. /\ i \in DOMAIN call[c].entries
          /\ call[c].entries \in Seq(Entry)
      BY <2>1, <2>2 DEF ApplyRepeated, TypeOK, Call
    <2>4. {call[c].entries[i]} \in SUBSET Entry
      BY <2>3
    <2> QED
      BY <2>2, <2>4
  <1> QED
    BY <1>1, <1>2

-----------------------------------------------------------------------------

(* What a step does to one message m: the six ways its row changes, or     *)
(* does not, with what each does to its promises, its place and its count. *)
Keeps(m) ==
    /\ sendOrder'[m] = sendOrder[m]
    /\ messages'[m] = messages[m]
    /\ \A l \in leases'[m] : l \in leases[m] /\ (now' = now \/ l.until > now')
    /\ attempts'[m] = attempts[m]

Removes(m) ==
    /\ sendOrder'[m] = sendOrder[m]
    /\ messages'[m] = Absent
    /\ leases'[m] = {}
    /\ attempts'[m] = 0

Stores(m) ==
    \E q \in live, i \in Nat, u \in Time :
        /\ m \in Unsent
        /\ sendOrder'[m] > 0
        /\ now' = now
        /\ messages'[m] = [queue |-> q, id |-> i, received_at |-> now,
                           delivered_at |-> NULL, invisible_until |-> u,
                           tries |-> 0, receipt_handle |-> NULL]
        /\ u # NULL => u > now
        /\ leases'[m] = IF u # NULL THEN {[handle |-> NULL, until |-> u]} ELSE leases[m]
        /\ attempts'[m] = attempts[m]

Delivers(m) ==
    \E u \in Nat :
        /\ m \in Stored
        /\ sendOrder'[m] = sendOrder[m]
        /\ Available(m)
        /\ now' = now
        /\ u <= now + MaxTotalVisibility
        /\ messages'[m] = [messages[m] EXCEPT !.delivered_at = now,
                                              !.tries = @ + 1,
                                              !.invisible_until = u,
                                              !.receipt_handle = MintedHandle(m)]
        /\ leases'[m] = IF u > now
                        THEN leases[m] \cup {[handle |-> MintedHandle(m), until |-> u]}
                        ELSE leases[m]
        /\ attempts'[m] = attempts[m] + 1

HidesAgain(m) ==
    \E u \in Nat :
        /\ m \in Stored
        /\ sendOrder'[m] = sendOrder[m]
        /\ now' = now
        /\ messages[m].invisible_until # NULL
        /\ u <= messages[m].delivered_at + MaxTotalVisibility
        /\ messages'[m] = [messages[m] EXCEPT !.invisible_until = u]
        /\ leases'[m] = {l \in leases[m] : l.handle # messages[m].receipt_handle}
             \cup {l \in {[handle |-> messages[m].receipt_handle, until |-> u]} : l.until > now}
        /\ attempts'[m] = attempts[m]

SetsStatus(m) ==
    \E tries \in Nat :
        /\ m \in Stored
        /\ sendOrder'[m] = sendOrder[m]
        /\ messages'[m] = [messages[m] EXCEPT !.invisible_until = NULL, !.tries = tries]
        /\ leases'[m] = {}
        /\ attempts'[m] = 0

Steps(m) == Keeps(m) \/ Removes(m) \/ Stores(m) \/ Delivers(m) \/ HidesAgain(m)
              \/ SetsStatus(m)

(* Both statements of a visibility change hide a message again or keep it. *)
LEMMA HideStep ==
    ASSUME TypeOK, NEW m \in MessageId,
           NEW q, NEW E \in SUBSET Entry, HideFromNow(q, E), UNCHANGED <<now, attempts, sendOrder>>
    PROVE  Keeps(m) \/ HidesAgain(m)
  <1>1. CASE messages'[m] = messages[m] /\ leases'[m] = leases[m]
    BY <1>1 DEF Keeps
  <1>2. CASE ~(messages'[m] = messages[m] /\ leases'[m] = leases[m])
    BY <1>2, HideEffect DEF HidesAgain
  <1> QED
    BY <1>1, <1>2

(* A send keeps every message but those it stores.                         *)
LEMMA SendStep ==
    ASSUME TypeOK, NEW m \in MessageId, NEW q \in Queue, NEW batch \in SUBSET Unsent,
           NEW place \in Injection(batch, 1 .. Cardinality(batch)),
           NEW delay \in [batch -> Delay \cup {NULL}], Send(q, place, delay)
    PROVE  Keeps(m) \/ Stores(m)
  <1> DEFINE hidden(k) == Coalesce(delay[k], Coalesce(conf[q].delay_seconds, 0))
             u(k) == IF hidden(k) > 0 THEN now + hidden(k) ELSE NULL
  <1>1. PICK first \in NextRowId :
          /\ messages' = [k \in MessageId |->
               IF k \notin DOMAIN place THEN messages[k]
               ELSE [queue |-> q, id |-> first + place[k] - 1, received_at |-> now,
                     delivered_at |-> NULL, invisible_until |-> u(k),
                     tries |-> 0, receipt_handle |-> NULL]]
          /\ leases' = [k \in MessageId |->
               IF k \in DOMAIN place /\ hidden(k) > 0
               THEN {[handle |-> NULL, until |-> now + hidden(k)]}
               ELSE leases[k]]
          /\ sendOrder' = [k \in MessageId |->
               IF k \in DOMAIN place THEN sent + place[k] ELSE sendOrder[k]]
    BY DEF Send
  <1>2. q \in live /\ now' = now /\ attempts' = attempts
    BY DEF Send
  <1>3. CASE m \notin DOMAIN place
    BY <1>1, <1>2, <1>3 DEF Keeps
  <1>4. CASE m \in DOMAIN place
    <2>1. DOMAIN place = batch
      BY DEF Injection
    <2>2. first + place[m] - 1 \in Nat
      <3>1. /\ messages'[m] \in Row \cup {Absent}
            /\ messages'[m].id = first + place[m] - 1
        BY <1>1, <1>4, SendType DEF TypeOK
      <3>2. first \in Nat
        BY StoredRow DEF NextRowId, Row
      <3>3. place[m] \in 1 .. Cardinality(batch)
        BY <1>4, <2>1 DEF Injection
      <3>4. Cardinality(batch) \in Nat
        BY FS_Subset, FS_CardinalityType DEF Unsent
      <3> QED
        BY <3>2, <3>3, <3>4
    <2>7. sendOrder'[m] > 0
      <3>1. place[m] \in Nat \ {0}
        BY <1>4, <2>1, FS_Subset, FS_CardinalityType DEF Injection, Unsent
      <3> QED
        BY <1>1, <1>4, <3>1 DEF TypeOK
    <2>3. hidden(m) \in Nat
      <3>1. conf[q].delay_seconds \in QueueDelay \cup {NULL}
        BY DEF TypeOK, Settings
      <3> QED
        BY <1>4, <2>1, <3>1 DEF Coalesce
    <2>4. now \in Nat
      BY DEF TypeOK
    <2> HIDE DEF hidden
    <2>5. CASE hidden(m) > 0
      <3>1. u(m) \in Time /\ u(m) # NULL /\ u(m) > now
        BY <2>3, <2>4, <2>5 DEF Time
      <3>2. leases'[m] = {[handle |-> NULL, until |-> u(m)]}
        BY <1>1, <1>4, <2>5
      <3> QED
        BY <1>1, <1>2, <1>4, <2>1, <2>2, <2>7, <3>1, <3>2 DEF Stores
    <2>6. CASE ~(hidden(m) > 0)
      <3>1. u(m) \in Time /\ u(m) = NULL
        BY <2>6 DEF Time
      <3>2. leases'[m] = leases[m]
        BY <1>1, <1>4, <2>6
      <3> QED
        BY <1>1, <1>2, <1>4, <2>1, <2>2, <2>7, <3>1, <3>2 DEF Stores
    <2> QED
      BY <2>5, <2>6
  <1> QED
    BY <1>3, <1>4

(* A receive keeps every message but those it delivers.                    *)
LEMMA ReceiveStep ==
    ASSUME TypeOK, NEW m \in MessageId, NEW q \in Queue, NEW limit \in Nat,
           NEW timeout \in Timeout \cup {NULL}, Receive(q, limit, timeout)
    PROVE  Keeps(m) \/ Delivers(m)
  <1> DEFINE claimed == Claim(q, limit)
             u == now + Coalesce(timeout,
                          Coalesce(conf[q].visibility_timeout, DefaultTimeout))
  <1>1. CASE m \notin claimed
    BY <1>1 DEF Receive, Keeps
  <1>2. CASE m \in claimed
    <2>1. m \in Stored /\ Available(m)
      BY <1>2 DEF Claim, Claimable, Of
    <2>2. u \in Nat /\ u <= now + MaxTotalVisibility
      <3>1. conf[q].visibility_timeout \in QueueTimeout \cup {NULL}
        BY DEF TypeOK, Settings
      <3>2. now \in Nat
        BY DEF TypeOK
      <3> QED
        BY <3>1, <3>2 DEF Coalesce
    <2>3. messages'[m] = [messages[m] EXCEPT !.delivered_at = now,
                                             !.tries = @ + 1,
                                             !.invisible_until = u,
                                             !.receipt_handle = MintedHandle(m)]
      BY <1>2 DEF Receive
    <2>4. leases'[m] = IF u > now
                       THEN leases[m] \cup {[handle |-> MintedHandle(m), until |-> u]}
                       ELSE leases[m]
      BY <1>2 DEF Receive
    <2>5. now' = now /\ sendOrder' = sendOrder /\ attempts'[m] = attempts[m] + 1
      BY <1>2 DEF Receive
    <2> HIDE DEF u
    <2> QED
      BY <2>1, <2>2, <2>3, <2>4, <2>5 DEF Delivers
  <1> QED
    BY <1>1, <1>2

(* A delivered row is a row of its queue, with one try more.               *)
LEMMA DeliveredRow ==
    ASSUME TypeOK, NEW m \in Stored, NEW u \in Nat,
           messages'[m] = [messages[m] EXCEPT !.delivered_at = now,
                                              !.tries = @ + 1,
                                              !.invisible_until = u,
                                              !.receipt_handle = MintedHandle(m)]
    PROVE  /\ messages'[m] \in Row
           /\ messages'[m].queue = messages[m].queue
           /\ messages'[m].id = messages[m].id
           /\ messages'[m].delivered_at = now
           /\ messages'[m].tries = messages[m].tries + 1
           /\ messages'[m].invisible_until = u
           /\ messages'[m].receipt_handle = MintedHandle(m)
  <1>1. messages[m] \in Row
    BY StoredRow
  <1>2. now \in Nat /\ draws \in Nat
    BY DEF TypeOK
  <1>3. /\ MintedHandle(m) \in Handle
        /\ messages[m].tries + 1 \in Nat
    BY <1>1, <1>2 DEF Row, MintedHandle, Handle
  <1>4. messages'[m] \in Row
    BY <1>1, <1>2, <1>3 DEF Row, Time
  <1> QED
    BY <1>1, <1>4 DEF Row

(* Every step is one of the six to each message.                           *)
LEMMA MessageStep ==
    ASSUME TypeOK, [Next]_vars, NEW m \in MessageId
    PROVE  Steps(m)
  <1>1. ASSUME NEW gone, Remove(gone), UNCHANGED <<now, sendOrder>>
        PROVE  Steps(m)
    BY <1>1 DEF Remove, Steps, Removes, Keeps
  <1>2. ASSUME UNCHANGED <<now, sendOrder, tableVars>>
        PROVE  Steps(m)
    BY <1>2 DEF Steps, Keeps, tableVars
  <1>3. CASE Tick
    BY <1>3 DEF Tick, Steps, Keeps, historyVars
  <1>4. CASE SweepRetention
    BY <1>1, <1>4 DEF SweepRetention, historyVars
  <1>5. CASE Consume
    <2>1. ASSUME NEW q \in Queue, NEW limit \in 1 .. MaxBatch,
                 NEW timeout \in Timeout \cup {NULL}, Receive(q, limit, timeout)
          PROVE  Steps(m)
      BY <2>1, ReceiveStep DEF Steps
    <2>2. ASSUME NEW q \in Queue, NEW handles, DeleteMessages(q, handles)
          PROVE  Steps(m)
      BY <1>1, <2>2 DEF DeleteMessages, historyVars
    <2>3. ASSUME NEW c \in Caller, NEW q \in Queue, NEW entries \in Requests,
                 ChangeVisibility(c, q, entries)
          PROVE  Steps(m)
      BY <2>3, ChangeHides, HideStep DEF ChangeVisibility, Steps, historyVars
    <2>4. ASSUME NEW q \in Queue, NEW batch \in SUBSET Unsent,
                 NEW place \in Injection(batch, 1 .. Cardinality(batch)),
                 NEW delay \in [batch -> Delay \cup {NULL}], Send(q, place, delay)
          PROVE  Steps(m)
      BY <2>4, SendStep DEF Steps
    <2> QED
      BY <1>5, <2>1, <2>2, <2>3, <2>4 DEF Consume
  <1>6. CASE InFlightCalls
    <2>1. ASSUME NEW c \in Caller, ApplyRepeated(c)
          PROVE  Steps(m)
      BY <2>1, ChangeHides, HideStep DEF ApplyRepeated, Steps, historyVars
    <2>2. CASE Restart \/ \E c \in Caller : Answer(c)
      BY <1>2, <2>2 DEF Restart, Answer, historyVars
    <2> QED
      BY <1>6, <2>1, <2>2 DEF InFlightCalls
  <1>7. CASE Administer
    <2>1. ASSUME NEW k \in MessageId, AdminDelete(k)
          PROVE  Steps(m)
      BY <1>1, <2>1 DEF AdminDelete, historyVars
    <2>2. ASSUME NEW k \in MessageId, NEW tries \in Nat, SetStatus(k, tries)
          PROVE  Steps(m)
      <3>1. CASE k = m
        BY <2>2, <3>1 DEF SetStatus, Steps, SetsStatus, TypeOK, historyVars
      <3>2. CASE k # m
        BY <2>2, <3>2 DEF SetStatus, Steps, Keeps, TypeOK, historyVars
      <3> QED
        BY <3>1, <3>2
    <2>3. ASSUME NEW k \in MessageId, Requeue(k) \/ MarkFailed(k)
          PROVE  Steps(m)
      <3>1. CASE Requeue(k)
        BY <2>2, <3>1 DEF Requeue
      <3>2. CASE MarkFailed(k)
        <4>1. messages[k].queue \in Queue
          BY <3>2, StoredRow DEF MarkFailed, Row
        <4>2. conf[messages[k].queue].max_retries \in Nat
          BY <4>1 DEF TypeOK, Settings
        <4> QED
          BY <2>2, <3>2, <4>2 DEF MarkFailed
      <3> QED
        BY <2>3, <3>1, <3>2
    <2>4. ASSUME NEW q \in Queue, ClearFailed(q) \/ Purge(q)
          PROVE  Steps(m)
      BY <1>1, <2>4 DEF ClearFailed, Purge, historyVars
    <2>5. ASSUME NEW q \in Queue, DeleteQueue(q)
          PROVE  Steps(m)
      BY <2>5 DEF DeleteQueue, Steps, Removes, Keeps, historyVars
    <2>6. CASE UNCHANGED <<now, sendOrder, tableVars>>
      BY <1>2, <2>6
    <2> QED
      BY <1>7, <2>1, <2>3, <2>4, <2>5, <2>6
         DEF Administer, SetPaused, Configure, SetAttributes, historyVars
  <1>8. CASE UNCHANGED vars
    BY <1>2, <1>8 DEF vars, tableVars, historyVars
  <1> QED
    BY <1>3, <1>4, <1>5, <1>6, <1>7, <1>8 DEF Next
-----------------------------------------------------------------------------

(* Only messages that were sent are stored.                                *)
StoredWereSent == \A m \in Stored : sendOrder[m] > 0

(* A message that is stored has been sent (sqs_send_internal alone stores  *)
(* rows).                                                                  *)
LEMMA OnlySentStored == Spec => []StoredWereSent
  <1>1. Init => StoredWereSent
    BY DEF Init, StoredWereSent, Stored
  <1>2. TypeOK /\ StoredWereSent /\ [Next]_vars => StoredWereSent'
    <2> SUFFICES ASSUME TypeOK, StoredWereSent, [Next]_vars, NEW m \in Stored'
                 PROVE  sendOrder'[m] > 0
      BY DEF StoredWereSent
    <2>1. m \in MessageId /\ messages'[m] # Absent
      BY DEF Stored
    <2>2. Steps(m)
      BY <2>1, MessageStep
    <2>3. (m \in Stored /\ sendOrder'[m] = sendOrder[m]) \/ sendOrder'[m] > 0
      BY <2>1, <2>2 DEF Steps, Keeps, Removes, Stores, Delivers, HidesAgain, SetsStatus, Stored
    <2> QED
      BY <2>3 DEF StoredWereSent
  <1> QED
    BY <1>1, <1>2, TypeCorrect, PTL DEF Spec

(* A running promise is exactly what the row says: the invariant behind    *)
(* LeaseExclusion.                                                         *)
THEOREM LeasesHonoured == Spec => []LeaseHonoured
  <1>1. Init => LeaseHonoured
    BY DEF Init, LeaseHonoured
  <1>2. TypeOK /\ StoredWereSent /\ LeaseHonoured /\ [Next]_vars => LeaseHonoured'
    <2> SUFFICES ASSUME TypeOK, StoredWereSent, LeaseHonoured, [Next]_vars,
                        NEW m \in MessageId, NEW l \in leases'[m]
                 PROVE  /\ m \in Stored'
                        /\ messages'[m].receipt_handle = l.handle
                        /\ messages'[m].invisible_until = l.until
                        /\ l.until > now'
      BY DEF LeaseHonoured
    <2> DEFINE Goal == /\ m \in Stored'
                       /\ messages'[m].receipt_handle = l.handle
                       /\ messages'[m].invisible_until = l.until
                       /\ l.until > now'
    <2>1. CASE Keeps(m)
      BY <2>1 DEF Keeps, LeaseHonoured, Stored
    <2>2. CASE Stores(m)
      <3>1. PICK q \in live, i \in Nat, u \in Time :
              /\ m \in Unsent
              /\ now' = now
              /\ messages'[m] = [queue |-> q, id |-> i, received_at |-> now,
                                 delivered_at |-> NULL, invisible_until |-> u,
                                 tries |-> 0, receipt_handle |-> NULL]
              /\ u # NULL => u > now
              /\ leases'[m] = IF u # NULL THEN {[handle |-> NULL, until |-> u]}
                              ELSE leases[m]
        BY <2>2 DEF Stores
      <3>2. leases[m] = {}
        BY <3>1 DEF Unsent, StoredWereSent, LeaseHonoured
      <3>3. messages'[m] \in Row
        BY <3>1 DEF Row, TypeOK, Time
      <3> QED
        BY <3>1, <3>2, <3>3 DEF Stored
    <2>3. CASE Delivers(m)
      <3>1. PICK u \in Nat :
              /\ m \in Stored
              /\ Available(m)
              /\ now' = now
              /\ messages'[m] = [messages[m] EXCEPT !.delivered_at = now,
                                                    !.tries = @ + 1,
                                                    !.invisible_until = u,
                                                    !.receipt_handle = MintedHandle(m)]
              /\ leases'[m] = IF u > now
                              THEN leases[m] \cup {[handle |-> MintedHandle(m), until |-> u]}
                              ELSE leases[m]
        BY <2>3 DEF Delivers
      <3>2. leases[m] = {}
        BY <3>1 DEF Available, Visible, LeaseHonoured, TypeOK
      <3>3. /\ l = [handle |-> MintedHandle(m), until |-> u]
            /\ u > now
        BY <3>1, <3>2
      <3>4. /\ messages'[m] # Absent
            /\ messages'[m].invisible_until = u
            /\ messages'[m].receipt_handle = MintedHandle(m)
        <4>1. /\ messages'[m] \in Row
              /\ messages'[m].invisible_until = u
              /\ messages'[m].receipt_handle = MintedHandle(m)
          BY <3>1, DeliveredRow
        <4> QED
          BY <4>1
      <3> QED
        BY <3>1, <3>3, <3>4 DEF Stored
    <2>4. CASE HidesAgain(m)
      <3>1. PICK u \in Nat :
              /\ m \in Stored
              /\ now' = now
              /\ messages'[m] = [messages[m] EXCEPT !.invisible_until = u]
              /\ leases'[m] = {k \in leases[m] : k.handle # messages[m].receipt_handle}
                   \cup {k \in {[handle |-> messages[m].receipt_handle, until |-> u]} :
                           k.until > now}
        BY <2>4 DEF HidesAgain
      <3>2. /\ l = [handle |-> messages[m].receipt_handle, until |-> u]
            /\ u > now
        BY <3>1 DEF LeaseHonoured
      <3>3. /\ messages[m] \in Row
            /\ messages'[m] \in Row
        BY <3>1, StoredRow DEF Row, Time
      <3> QED
        BY <3>1, <3>2, <3>3 DEF Stored, Row
    <2> QED
      BY <2>1, <2>2, <2>3, <2>4, MessageStep DEF Steps, Removes, SetsStatus
  <1> QED
    BY <1>1, <1>2, TypeCorrect, OnlySentStored, PTL DEF Spec

(* LeaseExclusion, for any number of queues, messages, consumers and       *)
(* timeouts: no two promises to hide a message run at once.                *)
THEOREM OneLeaseAtATime == Spec => []LeaseExclusion
  <1>1. TypeOK /\ LeaseHonoured => LeaseExclusion
    <2> SUFFICES ASSUME TypeOK, LeaseHonoured,
                        NEW m \in MessageId, NEW k \in leases[m], NEW l \in leases[m]
                 PROVE  k = l
      BY DEF LeaseExclusion
    <2>1. k.handle = l.handle /\ k.until = l.until
      BY DEF LeaseHonoured
    <2>2. /\ k \in [handle : Handle \cup {NULL}, until : Nat]
          /\ l \in [handle : Handle \cup {NULL}, until : Nat]
      BY DEF TypeOK
    <2> QED
      BY <2>1, <2>2
  <1> QED
    BY <1>1, TypeCorrect, LeasesHonoured, PTL
-----------------------------------------------------------------------------

(* HiddenAtMostTwelveHours, for any cap and any chain of receives and      *)
(* visibility changes: each step's own guard carries it.                   *)
THEOREM HiddenWithinTheCap == Spec => []HiddenAtMostTwelveHours
  <1>1. Init => HiddenAtMostTwelveHours
    BY DEF Init, HiddenAtMostTwelveHours, Stored
  <1>2. TypeOK /\ HiddenAtMostTwelveHours /\ [Next]_vars => HiddenAtMostTwelveHours'
    <2> SUFFICES ASSUME TypeOK, HiddenAtMostTwelveHours, [Next]_vars, NEW m \in Stored',
                        messages'[m].delivered_at # NULL,
                        messages'[m].invisible_until # NULL
                 PROVE  messages'[m].invisible_until
                          <= messages'[m].delivered_at + MaxTotalVisibility
      BY DEF HiddenAtMostTwelveHours
    <2>1. m \in MessageId /\ messages'[m] # Absent
      BY DEF Stored
    <2>2. m \in Stored => messages[m] \in Row
      BY StoredRow
    <2>3. CASE Keeps(m)
      BY <2>1, <2>3 DEF Keeps, HiddenAtMostTwelveHours, Stored
    <2>4. CASE Delivers(m)
      <3>1. PICK u \in Nat :
              /\ m \in Stored
              /\ u <= now + MaxTotalVisibility
              /\ messages'[m] = [messages[m] EXCEPT !.delivered_at = now,
                                                    !.tries = @ + 1,
                                                    !.invisible_until = u,
                                                    !.receipt_handle = MintedHandle(m)]
        BY <2>4 DEF Delivers
      <3>2. messages'[m].invisible_until = u /\ messages'[m].delivered_at = now
        BY <3>1, DeliveredRow
      <3> QED
        BY <3>1, <3>2
    <2>5. CASE HidesAgain(m)
      <3>1. PICK u \in Nat :
              /\ m \in Stored
              /\ u <= messages[m].delivered_at + MaxTotalVisibility
              /\ messages'[m] = [messages[m] EXCEPT !.invisible_until = u]
        BY <2>5 DEF HidesAgain
      <3> QED
        BY <2>2, <3>1 DEF Row
    <2>6. CASE SetsStatus(m)
      <3>1. messages'[m].invisible_until = NULL
        BY <2>2, <2>6 DEF SetsStatus, Row
      <3> QED
        BY <3>1
    <2>7. Stores(m) => messages'[m].delivered_at = NULL
      BY DEF Stores
    <2>8. ~Stores(m) /\ ~Removes(m)
      BY <2>1, <2>7 DEF Removes
    <2> QED
      BY <2>1, <2>3, <2>4, <2>5, <2>6, <2>8, MessageStep DEF Steps
  <1> QED
    BY <1>1, <1>2, TypeCorrect, PTL DEF Spec

-----------------------------------------------------------------------------

(* Why AttemptsBounded holds: the row's own count of tries, which receives *)
(* test against the limit, never falls behind the receives it counts.      *)
TriesKeepUp ==
    /\ \A q \in Queue : conf[q].max_retries <= peak[q]
    /\ \A m \in Stored : attempts[m] <= messages[m].tries
    /\ \A m \in MessageId \ Stored : attempts[m] = 0
    /\ AttemptsBounded

(* The largest limit a queue has had never falls, and covers the limit.    *)
LEMMA PeakStep ==
    ASSUME TypeOK, [Next]_vars, NEW q \in Queue, conf[q].max_retries <= peak[q]
    PROVE  /\ conf'[q].max_retries <= peak'[q]
           /\ peak[q] <= peak'[q]
           /\ peak'[q] \in Nat
  <1>0. /\ peak \in [Queue -> Nat]
        /\ conf \in [Queue -> Settings]
        /\ conf[q].max_retries \in Nat
    BY DEF TypeOK, Settings
  <1>1. CASE UNCHANGED <<conf, peak>>
    BY <1>0, <1>1
  <1>2. ASSUME NEW k \in Queue, NEW limit \in RetryLimit, Configure(k, limit)
        PROVE  /\ conf'[q].max_retries <= peak'[q]
               /\ peak[q] <= peak'[q]
               /\ peak'[q] \in Nat
    <2>1. CASE k = q
      <3>1. conf'[q].max_retries = limit
        BY <1>0, <1>2, <2>1 DEF Configure, Settings
      <3>2. peak'[q] = IF limit > peak[q] THEN limit ELSE peak[q]
        BY <1>0, <1>2, <2>1 DEF Configure
      <3>3. limit \in Nat /\ peak[q] \in Nat
        BY <1>0
      <3> QED
        BY <3>1, <3>2, <3>3
    <2>2. CASE k # q
      BY <1>0, <1>2, <2>2 DEF Configure
    <2> QED
      BY <2>1, <2>2
  <1>3. ASSUME NEW k \in Queue, NEW visibility, NEW delay, NEW period,
               SetAttributes(k, visibility, delay, period)
        PROVE  /\ conf'[q].max_retries <= peak'[q]
               /\ peak[q] <= peak'[q]
               /\ peak'[q] \in Nat
    <2>1. conf'[q].max_retries = conf[q].max_retries
      <3>1. CASE k = q
        BY <1>0, <1>3, <3>1 DEF SetAttributes, Settings
      <3>2. CASE k # q
        BY <1>0, <1>3, <3>2 DEF SetAttributes
      <3> QED
        BY <3>1, <3>2
    <2>2. peak' = peak
      BY <1>3 DEF SetAttributes
    <2> QED
      BY <1>0, <2>1, <2>2
  <1>4. CASE Administer
    <2>1. CASE \E m \in MessageId : AdminDelete(m) \/ Requeue(m) \/ MarkFailed(m)
      BY <1>1, <2>1 DEF AdminDelete, Requeue, MarkFailed, SetStatus, settingVars
    <2>2. CASE \E k \in Queue : ClearFailed(k) \/ Purge(k) \/ DeleteQueue(k)
                 \/ \E pause \in BOOLEAN : SetPaused(k, pause)
      BY <1>1, <2>2 DEF ClearFailed, Purge, DeleteQueue, SetPaused, settingVars
    <2> QED
      BY <1>2, <1>3, <1>4, <2>1, <2>2 DEF Administer
  <1>5. CASE Tick \/ SweepRetention \/ InFlightCalls \/ UNCHANGED vars
    BY <1>1, <1>5 DEF Tick, SweepRetention, InFlightCalls, ApplyRepeated, Answer, Restart,
                      vars, settingVars
  <1>6. CASE Consume
    <2>1. ASSUME NEW k, NEW place, NEW delay, Send(k, place, delay)
          PROVE  UNCHANGED <<conf, peak>>
      BY <2>1 DEF Send, settingVars
    <2>2. ASSUME NEW k, NEW limit, NEW timeout, Receive(k, limit, timeout)
          PROVE  UNCHANGED <<conf, peak>>
      BY <2>2 DEF Receive, settingVars
    <2> QED
      BY <1>1, <1>6, <2>1, <2>2 DEF Consume, DeleteMessages, ChangeVisibility, settingVars
  <1> QED
    BY <1>4, <1>5, <1>6 DEF Next

(* AttemptsBounded, for any limits and however they move.                  *)
THEOREM ReceivesBounded == Spec => []AttemptsBounded
  <1>1. Init => TriesKeepUp
    <2> SUFFICES ASSUME Init PROVE TriesKeepUp
      OBVIOUS
    <2>1. \A q \in Queue : conf[q].max_retries \in Nat /\ peak[q] = conf[q].max_retries
      BY DEF Init
    <2> QED
      BY <2>1 DEF Init, TriesKeepUp, AttemptsBounded, Stored
  <1>2. TypeOK /\ StoredWereSent /\ TriesKeepUp /\ [Next]_vars => TriesKeepUp'
    <2> SUFFICES ASSUME TypeOK, StoredWereSent, TriesKeepUp, [Next]_vars
                 PROVE  TriesKeepUp'
      OBVIOUS
    <2>1. \A q \in Queue : /\ conf'[q].max_retries <= peak'[q]
                           /\ peak[q] <= peak'[q]
                           /\ peak[q] \in Nat
                           /\ peak'[q] \in Nat
      BY PeakStep DEF TriesKeepUp, TypeOK
    <2>2. ASSUME NEW m \in MessageId
          PROVE  /\ m \in Stored' => /\ attempts'[m] <= messages'[m].tries
                                     /\ attempts'[m] <= peak'[messages'[m].queue]
                 /\ m \notin Stored' => attempts'[m] = 0
      <3> DEFINE Goal ==
                 /\ m \in Stored' => /\ attempts'[m] <= messages'[m].tries
                                     /\ attempts'[m] <= peak'[messages'[m].queue]
                 /\ m \notin Stored' => attempts'[m] = 0
      <3>1. /\ attempts[m] \in Nat
            /\ m \in Stored => /\ messages[m] \in Row
                               /\ messages[m].tries \in Nat
                               /\ messages[m].queue \in Queue
                               /\ attempts[m] <= messages[m].tries
                               /\ attempts[m] <= peak[messages[m].queue]
            /\ m \notin Stored => attempts[m] = 0
        <4>1. CASE m \in Stored
          BY <4>1, StoredRow DEF TypeOK, TriesKeepUp, AttemptsBounded, Row
        <4>2. CASE m \notin Stored
          BY <4>2 DEF TypeOK, TriesKeepUp
        <4> QED
          BY <4>1, <4>2
      <3>2. CASE Keeps(m)
        BY <2>1, <3>1, <3>2 DEF Keeps, Stored
      <3>3. CASE Removes(m)
        BY <3>3 DEF Removes, Stored
      <3>4. CASE Stores(m)
        <4>1. m \notin Stored
          BY <3>4 DEF Stores, Unsent, StoredWereSent
        <4>2. PICK q \in live, i \in Nat, u \in Time :
                /\ messages'[m] = [queue |-> q, id |-> i, received_at |-> now,
                                   delivered_at |-> NULL, invisible_until |-> u,
                                   tries |-> 0, receipt_handle |-> NULL]
                /\ attempts'[m] = attempts[m]
          BY <3>4 DEF Stores
        <4>3. /\ messages'[m].queue \in Queue
              /\ messages'[m].tries = 0
          BY <4>2 DEF TypeOK
        <4> QED
          BY <2>1, <3>1, <4>1, <4>2, <4>3 DEF Stored
      <3>5. CASE Delivers(m)
        <4>1. PICK u \in Nat :
                /\ m \in Stored
                /\ Available(m)
                /\ messages'[m] = [messages[m] EXCEPT !.delivered_at = now,
                                                      !.tries = @ + 1,
                                                      !.invisible_until = u,
                                                      !.receipt_handle = MintedHandle(m)]
                /\ attempts'[m] = attempts[m] + 1
          BY <3>5 DEF Delivers
        <4>2. /\ messages'[m].tries = messages[m].tries + 1
              /\ messages'[m].queue = messages[m].queue
              /\ messages'[m] \in Row
          BY <4>1, DeliveredRow
        <4>3. /\ messages[m].tries < conf[messages[m].queue].max_retries
              /\ conf[messages[m].queue].max_retries \in Nat
              /\ conf[messages[m].queue].max_retries <= peak[messages[m].queue]
          BY <3>1, <4>1 DEF Available, Exhausted, TypeOK, Settings, TriesKeepUp
        <4> QED
          BY <2>1, <3>1, <4>1, <4>2, <4>3 DEF Stored
      <3>6. CASE HidesAgain(m)
        <4>1. PICK u \in Nat :
                /\ m \in Stored
                /\ messages'[m] = [messages[m] EXCEPT !.invisible_until = u]
                /\ attempts'[m] = attempts[m]
          BY <3>6 DEF HidesAgain
        <4>2. /\ messages'[m].tries = messages[m].tries
              /\ messages'[m].queue = messages[m].queue
              /\ messages'[m] \in Row
          BY <3>1, <4>1 DEF Row, Time
        <4> QED
          BY <2>1, <3>1, <4>1, <4>2 DEF Stored
      <3>7. CASE SetsStatus(m)
        <4>1. PICK tries \in Nat :
                /\ m \in Stored
                /\ messages'[m] = [messages[m] EXCEPT !.invisible_until = NULL, !.tries = tries]
                /\ attempts'[m] = 0
          BY <3>7 DEF SetsStatus
        <4>2. /\ messages'[m].tries = tries
              /\ messages'[m].queue = messages[m].queue
          BY <3>1, <4>1 DEF Row
        <4> QED
          BY <2>1, <3>1, <4>1, <4>2 DEF Stored
      <3> QED
        BY <3>2, <3>3, <3>4, <3>5, <3>6, <3>7, MessageStep DEF Steps
    <2> QED
      BY <2>1, <2>2 DEF TriesKeepUp, AttemptsBounded, Stored
  <1>3. TriesKeepUp => AttemptsBounded
    BY DEF TriesKeepUp
  <1> QED
    BY <1>1, <1>2, <1>3, TypeCorrect, OnlySentStored, PTL DEF Spec

-----------------------------------------------------------------------------
(* What a step does to the table as a whole: one of six kinds of           *)
(* statement, or nothing but let a second pass.                            *)
Quiet ==
    /\ UNCHANGED <<messages, attempts, draws, sent, sendOrder, issued>>
    /\ now' \in {now, now + 1}
Leaving ==
    \E gone \in SUBSET MessageId :
        /\ messages' = [m \in MessageId |-> IF m \in gone THEN Absent ELSE messages[m]]
        /\ attempts' = [m \in MessageId |-> IF m \in gone THEN 0 ELSE attempts[m]]
        /\ UNCHANGED <<now, draws, sent, sendOrder, issued>>
Sending ==
    \E q \in Queue, batch \in SUBSET Unsent :
        \E place \in Injection(batch, 1 .. Cardinality(batch)),
           delay \in [batch -> Delay \cup {NULL}] : Send(q, place, delay)
Receiving ==
    \E q \in Queue, limit \in 1 .. MaxBatch, timeout \in Timeout \cup {NULL} :
        Receive(q, limit, timeout)
Hiding ==
    /\ \E q, E : E \in SUBSET Entry /\ HideFromNow(q, E)
    /\ UNCHANGED <<now, attempts, draws, sent, sendOrder, issued>>
Settling == \E m \in MessageId, tries \in Nat : SetStatus(m, tries)

(* Rows that leave.                                                        *)
LEMMA RemoveLeaves ==
    ASSUME NEW gone, Remove(gone), UNCHANGED <<now, draws, historyVars>>
    PROVE  Leaving
  <1>1. PICK left \in SUBSET MessageId : left = {m \in MessageId : m \in gone}
    OBVIOUS
  <1>2. /\ messages' = [m \in MessageId |-> IF m \in left THEN Absent ELSE messages[m]]
        /\ attempts' = [m \in MessageId |-> IF m \in left THEN 0 ELSE attempts[m]]
    BY <1>1 DEF Remove
  <1>. QED
    BY <1>2 DEF Leaving, historyVars

(* Every step is of one of the kinds.                                      *)
LEMMA StatementStep ==
    ASSUME TypeOK, [Next]_vars
    PROVE  Quiet \/ Leaving \/ Sending \/ Receiving \/ Hiding \/ Settling
  <1>. USE DEF historyVars, settingVars, tableVars
  <1>1. CASE Tick
    BY <1>1 DEF Tick, Quiet
  <1>2. CASE SweepRetention
    BY <1>2, RemoveLeaves DEF SweepRetention
  <1>3. CASE Consume
    <2>1. ASSUME NEW q \in Queue, NEW handles, DeleteMessages(q, handles)
          PROVE  Leaving
      BY <2>1, RemoveLeaves DEF DeleteMessages
    <2>2. ASSUME NEW c \in Caller, NEW q \in Queue, NEW entries \in Requests,
                 ChangeVisibility(c, q, entries)
          PROVE  Hiding
      <3>1. UNCHANGED <<now, attempts, draws, sent, sendOrder, issued>>
        BY <2>2 DEF ChangeVisibility
      <3>. QED
        BY <2>2, <3>1, ChangeHides DEF Hiding
    <2>. QED
      BY <1>3, <2>1, <2>2 DEF Consume, Sending, Receiving
  <1>4. CASE InFlightCalls
    <2>1. ASSUME NEW c \in Caller, ApplyRepeated(c)
          PROVE  Hiding
      <3>1. UNCHANGED <<now, attempts, draws, sent, sendOrder, issued>>
        BY <2>1 DEF ApplyRepeated
      <3>. QED
        BY <2>1, <3>1, ChangeHides DEF Hiding
    <2>2. CASE Restart \/ \E c \in Caller : Answer(c)
      BY <2>2 DEF Restart, Answer, Quiet
    <2>. QED
      BY <1>4, <2>1, <2>2 DEF InFlightCalls
  <1>5. CASE Administer
    <2>1. ASSUME NEW m \in MessageId, AdminDelete(m)
          PROVE  Leaving
      BY <2>1, RemoveLeaves DEF AdminDelete
    <2>2. ASSUME NEW m \in MessageId, Requeue(m) \/ MarkFailed(m)
          PROVE  Settling
      <3>1. CASE Requeue(m)
        BY <3>1 DEF Requeue, Settling
      <3>2. CASE MarkFailed(m)
        <4>1. messages[m].queue \in Queue
          BY <3>2, StoredRow DEF MarkFailed, Row
        <4>2. conf[messages[m].queue].max_retries \in Nat
          BY <4>1 DEF TypeOK, Settings
        <4>. QED
          BY <3>2, <4>2 DEF MarkFailed, Settling
      <3>. QED
        BY <2>2, <3>1, <3>2
    <2>3. ASSUME NEW q \in Queue, ClearFailed(q) \/ Purge(q)
          PROVE  Leaving
      BY <2>3, RemoveLeaves DEF ClearFailed, Purge
    <2>4. ASSUME NEW q \in Queue, DeleteQueue(q)
          PROVE  Leaving
      <3>1. Of(q) \in SUBSET MessageId
        BY DEF Of, Stored
      <3>. QED
        BY <2>4, <3>1 DEF DeleteQueue, Leaving
    <2>5. CASE UNCHANGED <<now, tableVars, draws, historyVars>>
      BY <2>5 DEF Quiet
    <2>. QED
      BY <1>5, <2>1, <2>2, <2>3, <2>4, <2>5
         DEF Administer, SetPaused, Configure, SetAttributes
  <1>6. CASE UNCHANGED vars
    BY <1>6 DEF vars, Quiet
  <1>. QED
    BY <1>1, <1>2, <1>3, <1>4, <1>5, <1>6 DEF Next

-----------------------------------------------------------------------------
(* What each kind does to one message.                                     *)

(* Hiding changes the end of a window that was set, of a message somebody  *)
(* has received, and nothing else.                                         *)
LEMMA HiddenRow ==
    ASSUME TypeOK, Hiding, NEW m \in MessageId, messages'[m] # messages[m]
    PROVE  /\ m \in Stored /\ messages'[m] \in Row
           /\ messages[m].invisible_until # NULL /\ messages'[m].invisible_until \in Nat
           /\ messages[m].receipt_handle # NULL
           /\ messages'[m].receipt_handle = messages[m].receipt_handle
           /\ messages'[m].id = messages[m].id
           /\ messages'[m].queue = messages[m].queue
           /\ messages'[m].delivered_at = messages[m].delivered_at
           /\ messages'[m].tries = messages[m].tries
  <1>1. PICK q, E : E \in SUBSET Entry /\ HideFromNow(q, E)
    BY DEF Hiding
  <1>2. PICK e \in E : m \in Hides(q, e)
    BY <1>1 DEF HideFromNow
  <1>3. m \in Stored /\ messages[m].receipt_handle \in Handle
    BY <1>1, <1>2 DEF Hides, Hideable, Of, Entry
  <1>4. PICK u \in Nat : /\ messages[m].invisible_until # NULL
                         /\ messages'[m] = [messages[m] EXCEPT !.invisible_until = u]
    BY <1>1, HideEffect
  <1>5. messages[m] \in Row
    BY <1>3, StoredRow
  <1>6. messages'[m] \in Row
    BY <1>4, <1>5 DEF Row, Time
  <1>. QED
    BY <1>3, <1>4, <1>5, <1>6 DEF Row

(* An admin's status change ends the window and keeps the receipt.         *)
LEMMA SettledRow ==
    ASSUME TypeOK, NEW k \in MessageId, NEW tries \in Nat, SetStatus(k, tries)
    PROVE  /\ k \in Stored /\ messages'[k] \in Row
           /\ messages'[k].invisible_until = NULL
           /\ messages'[k].receipt_handle = messages[k].receipt_handle
           /\ messages'[k].id = messages[k].id
           /\ messages'[k].queue = messages[k].queue
           /\ \A m \in MessageId \ {k} : messages'[m] = messages[m]
           /\ UNCHANGED <<now, draws, sent, sendOrder, issued>>
  <1>1. k \in Stored /\ messages[k] \in Row
    BY StoredRow DEF SetStatus
  <1>2. messages'[k] = [messages[k] EXCEPT !.invisible_until = NULL, !.tries = tries]
    BY DEF SetStatus, TypeOK
  <1>3. messages'[k] \in Row
    BY <1>1, <1>2 DEF Row, Time
  <1>. QED
    BY <1>1, <1>2, <1>3 DEF SetStatus, TypeOK, Row, historyVars

(* A receive gives each message it claims a receipt of this draw.          *)
LEMMA ReceivedRow ==
    ASSUME TypeOK, NEW q \in Queue, NEW limit \in 1 .. MaxBatch,
           NEW timeout \in Timeout \cup {NULL}, Receive(q, limit, timeout),
           NEW m \in MessageId
    PROVE  /\ m \notin Claim(q, limit) => messages'[m] = messages[m]
           /\ m \in Claim(q, limit) =>
                 /\ m \in Stored /\ Available(m) /\ messages'[m] \in Row
                 /\ messages'[m].invisible_until \in Nat
                 /\ messages'[m].receipt_handle = MintedHandle(m)
                 /\ MintedHandle(m) \in Handle
                 /\ messages'[m].id = messages[m].id
                 /\ messages'[m].queue = messages[m].queue
                 /\ messages'[m].delivered_at = now
  <1>1. CASE m \notin Claim(q, limit)
    BY <1>1 DEF Receive
  <1>2. CASE m \in Claim(q, limit)
    <2>. DEFINE u == now + Coalesce(timeout, Coalesce(conf[q].visibility_timeout,
                                                      DefaultTimeout))
    <2>1. m \in Stored /\ Available(m)
      BY <1>2 DEF Claim, Claimable, Of
    <2>2. u \in Nat
      <3>1. conf[q].visibility_timeout \in QueueTimeout \cup {NULL} /\ now \in Nat
        BY DEF TypeOK, Settings
      <3>. QED
        BY <3>1 DEF Coalesce
    <2>3. messages'[m] = [messages[m] EXCEPT !.delivered_at = now,
                                             !.tries = @ + 1,
                                             !.invisible_until = u,
                                             !.receipt_handle = MintedHandle(m)]
      BY <1>2 DEF Receive
    <2>4. MintedHandle(m) \in Handle
      BY <2>1, StoredRow DEF MintedHandle, Handle, Row, TypeOK
    <2>. HIDE DEF u
    <2>5. /\ messages'[m] \in Row
          /\ messages'[m].invisible_until = u
          /\ messages'[m].receipt_handle = MintedHandle(m)
          /\ messages'[m].id = messages[m].id
          /\ messages'[m].queue = messages[m].queue
          /\ messages'[m].delivered_at = now
      BY <2>1, <2>2, <2>3, DeliveredRow
    <2>. QED
      BY <1>2, <2>1, <2>2, <2>4, <2>5
  <1>. QED
    BY <1>1, <1>2

(* A batch takes ids above those in the table and places after those       *)
(* given, each its own, in one order.                                      *)
LEMMA SentRows ==
    ASSUME TypeOK, NEW q \in Queue, NEW batch \in SUBSET Unsent,
           NEW place \in Injection(batch, 1 .. Cardinality(batch)),
           NEW delay \in [batch -> Delay \cup {NULL}], Send(q, place, delay)
    PROVE  /\ Cardinality(batch) \in Nat /\ sent' = sent + Cardinality(batch)
           /\ UNCHANGED <<now, draws, issued, attempts>>
           /\ \A m \in MessageId \ batch :
                 messages'[m] = messages[m] /\ sendOrder'[m] = sendOrder[m]
           /\ \A m \in batch :
                 /\ m \in MessageId /\ messages'[m] \in Row
                 /\ messages'[m].receipt_handle = NULL
                 /\ messages'[m].delivered_at = NULL
                 /\ messages'[m].tries = 0
                 /\ messages'[m].invisible_until \in Nat =>
                       messages'[m].invisible_until > now
                 /\ place[m] \in 1 .. Cardinality(batch)
                 /\ sendOrder'[m] = sent + place[m]
                 /\ \A k \in Stored : messages[k].id < messages'[m].id
           /\ \A k, m \in batch :
                 /\ place[k] = place[m] => k = m
                 /\ messages'[k].id - messages'[m].id = place[k] - place[m]
  <1>. DEFINE hidden(k) == Coalesce(delay[k], Coalesce(conf[q].delay_seconds, 0))
              u(k) == IF hidden(k) > 0 THEN now + hidden(k) ELSE NULL
  <1>1. /\ DOMAIN place = batch /\ place \in [batch -> 1 .. Cardinality(batch)]
        /\ \A k, m \in batch : place[k] = place[m] => k = m
    BY DEF Injection, IsInjective
  <1>2. PICK first \in NextRowId :
          /\ messages' = [k \in MessageId |->
               IF k \notin batch THEN messages[k]
               ELSE [queue |-> q, id |-> first + place[k] - 1, received_at |-> now,
                     delivered_at |-> NULL, invisible_until |-> u(k),
                     tries |-> 0, receipt_handle |-> NULL]]
          /\ sendOrder' = [k \in MessageId |->
               IF k \in batch THEN sent + place[k] ELSE sendOrder[k]]
    BY <1>1 DEF Send
  <1>3. /\ sent' = sent + Cardinality(batch) /\ UNCHANGED <<now, draws, issued, attempts>>
    BY <1>1 DEF Send
  <1>4. Cardinality(batch) \in Nat
    BY FS_Subset, FS_CardinalityType DEF Unsent
  <1>5. first \in Nat /\ (\A k \in Stored : messages[k].id < first)
    BY StoredRow DEF NextRowId, Row
  <1>6. TypeOK'
    BY SendType
  <1>7. ASSUME NEW m \in batch
        PROVE  /\ m \in MessageId /\ messages'[m] \in Row
               /\ messages'[m].receipt_handle = NULL
               /\ messages'[m].delivered_at = NULL
               /\ messages'[m].tries = 0
               /\ messages'[m].invisible_until = u(m)
               /\ messages'[m].id = first + place[m] - 1
               /\ sendOrder'[m] = sent + place[m]
               /\ place[m] \in 1 .. Cardinality(batch)
    <2>1. m \in MessageId
      BY DEF Unsent
    <2>2. messages'[m] = [queue |-> q, id |-> first + place[m] - 1, received_at |-> now,
                     delivered_at |-> NULL, invisible_until |-> u(m),
                     tries |-> 0, receipt_handle |-> NULL]
      BY <1>2, <2>1
    <2>. HIDE DEF u
    <2>3. \/ messages'[m] \in Row
          \/ messages'[m] = Absent
      BY <2>1, <1>6 DEF TypeOK
    <2>4. place[m] \in 1 .. Cardinality(batch)
      BY <1>1
    <2>5. sendOrder'[m] = sent + place[m]
      BY <1>2, <2>1
    <2>6. messages'[m] \in Row
      <3>1. u(m) \in Time
        <4>1. hidden(m) \in Nat
          <5>1. conf[q].delay_seconds \in QueueDelay \cup {NULL}
            BY DEF TypeOK, Settings
          <5>2. delay[m] \in Delay \cup {NULL}
            OBVIOUS
          <5>. QED
            BY <5>1, <5>2 DEF Coalesce
        <4>. HIDE DEF hidden
        <4>. QED
          BY <4>1 DEF u, Time, TypeOK
      <3>2. first + place[m] - 1 \in Nat
        BY <1>4, <1>5, <2>4
      <3>. QED
        BY <2>2, <3>1, <3>2 DEF Row, Time, TypeOK
    <2>. QED
      BY <2>1, <2>2, <2>4, <2>5, <2>6
  <1>8. \A m \in batch : u(m) \in Nat => u(m) > now
    <2>1. SUFFICES ASSUME NEW m \in batch, u(m) \in Nat
                   PROVE  u(m) > now
      OBVIOUS
    <2>2. hidden(m) \in Nat /\ now \in Nat
      BY DEF TypeOK, Settings, Coalesce
    <2>. HIDE DEF hidden
    <2>. QED
      BY <2>1, <2>2
  <1>. HIDE DEF u
  <1>9. \A m \in MessageId \ batch : messages'[m] = messages[m] /\ sendOrder'[m] = sendOrder[m]
    BY <1>2
  <1>10. \A k \in Stored : messages[k].id \in Nat
    BY StoredRow DEF Row
  <1>11. \A m \in batch, k \in Stored : messages[k].id < messages'[m].id
    BY <1>4, <1>5, <1>7, <1>10
  <1>12. \A k, m \in batch : messages'[k].id - messages'[m].id = place[k] - place[m]
    BY <1>4, <1>5, <1>7
  <1>. QED
    BY <1>1, <1>3, <1>4, <1>7, <1>8, <1>9, <1>11, <1>12

-----------------------------------------------------------------------------
(* What every statement keeps.                                             *)

DistinctIds == \A k, m \in Stored : messages[k].id = messages[m].id => k = m
PlacesGiven == \A m \in MessageId : sendOrder[m] <= sent
ReceiptsDrawn ==
    /\ \A r \in issued : r.handle.draw <= draws
    /\ \A m \in Stored :
          messages[m].receipt_handle # NULL => messages[m].receipt_handle.draw <= draws
UntriedUntilReceived ==
    \A m \in Stored :
        messages[m].delivered_at = NULL /\ messages[m].invisible_until # NULL =>
            messages[m].tries = 0

TableInv ==
    /\ DistinctIds
    /\ PlacesGiven
    /\ RowIdsInSendOrder
    /\ ReceiptsDrawn
    /\ ReceiptsNeverCross
    /\ UntriedUntilReceived

(* Only a send adds rows or moves ids.                                     *)
LEMMA OldRows ==
    ASSUME TypeOK, Quiet \/ Leaving \/ Receiving \/ Hiding \/ Settling
    PROVE  /\ sent' = sent /\ sendOrder' = sendOrder
           /\ \A m \in MessageId : messages'[m] # Absent =>
                 /\ m \in Stored
                 /\ messages'[m].id = messages[m].id
                 /\ messages'[m].queue = messages[m].queue
  <1>1. CASE Quiet
    BY <1>1 DEF Quiet, Stored
  <1>2. CASE Leaving
    BY <1>2 DEF Leaving, Stored
  <1>3. CASE Receiving
    <2>1. PICK q \in Queue, limit \in 1 .. MaxBatch, timeout \in Timeout \cup {NULL} :
            Receive(q, limit, timeout)
      BY <1>3 DEF Receiving
    <2>2. sent' = sent /\ sendOrder' = sendOrder
      BY <2>1 DEF Receive
    <2>3. ASSUME NEW m \in MessageId, messages'[m] # Absent
          PROVE  /\ m \in Stored
                 /\ messages'[m].id = messages[m].id
                 /\ messages'[m].queue = messages[m].queue
      BY <2>1, <2>3, ReceivedRow DEF Stored
    <2>. QED
      BY <2>2, <2>3
  <1>4. CASE Hiding
    <2>1. sent' = sent /\ sendOrder' = sendOrder
      BY <1>4 DEF Hiding
    <2>2. ASSUME NEW m \in MessageId, messages'[m] # Absent
          PROVE  /\ m \in Stored
                 /\ messages'[m].id = messages[m].id
                 /\ messages'[m].queue = messages[m].queue
      BY <1>4, <2>2, HiddenRow DEF Stored
    <2>. QED
      BY <2>1, <2>2
  <1>5. CASE Settling
    <2>1. PICK k \in MessageId, tries \in Nat : SetStatus(k, tries)
      BY <1>5 DEF Settling
    <2>. QED
      BY <2>1, SettledRow DEF Stored
  <1>. QED
    BY <1>1, <1>2, <1>3, <1>4, <1>5

(* Ids and places.                                                         *)
LEMMA IdsStep ==
    ASSUME TypeOK, TypeOK', [Next]_vars, DistinctIds, PlacesGiven, RowIdsInSendOrder
    PROVE  DistinctIds' /\ PlacesGiven' /\ RowIdsInSendOrder'
  <1>1. CASE Sending
    <2>1. PICK q \in Queue, batch \in SUBSET Unsent :
            \E place \in Injection(batch, 1 .. Cardinality(batch)),
               delay \in [batch -> Delay \cup {NULL}] : Send(q, place, delay)
      BY <1>1 DEF Sending
    <2>2. PICK place \in Injection(batch, 1 .. Cardinality(batch)),
               delay \in [batch -> Delay \cup {NULL}] : Send(q, place, delay)
      BY <2>1
    <2>3. /\ Cardinality(batch) \in Nat /\ sent' = sent + Cardinality(batch)
          /\ \A m \in MessageId \ batch :
                messages'[m] = messages[m] /\ sendOrder'[m] = sendOrder[m]
          /\ \A m \in batch :
                /\ m \in MessageId /\ messages'[m] \in Row
                /\ place[m] \in 1 .. Cardinality(batch)
                /\ sendOrder'[m] = sent + place[m]
                /\ \A k \in Stored : messages[k].id < messages'[m].id
          /\ \A k, m \in batch :
                /\ place[k] = place[m] => k = m
                /\ messages'[k].id - messages'[m].id = place[k] - place[m]
      BY <2>2, SentRows
    <2>4. /\ sent \in Nat
          /\ \A m \in MessageId : sendOrder[m] \in Nat /\ sendOrder[m] <= sent
          /\ \A m \in Stored : messages[m].id \in Nat
      BY StoredRow DEF TypeOK, PlacesGiven, Row
    <2>5. \A m \in batch : messages'[m].id \in Nat
      BY <2>3 DEF Row
    <2>6. \A m \in Stored' \ batch : m \in Stored /\ messages'[m] = messages[m]
      BY <2>3 DEF Stored
    <2>7. PlacesGiven'
      BY <2>3, <2>4 DEF PlacesGiven
    <2>8. ASSUME NEW k \in Stored', NEW m \in Stored', messages'[k].id = messages'[m].id
          PROVE  k = m
      <3>1. CASE k \in batch /\ m \in batch
        BY <2>3, <2>5, <2>8, <3>1
      <3>2. CASE k \in batch /\ m \notin batch
        BY <2>3, <2>4, <2>5, <2>6, <2>8, <3>2
      <3>3. CASE k \notin batch /\ m \in batch
        BY <2>3, <2>4, <2>5, <2>6, <2>8, <3>3
      <3>4. CASE k \notin batch /\ m \notin batch
        BY <2>6, <2>8, <3>4 DEF DistinctIds
      <3>. QED
        BY <3>1, <3>2, <3>3, <3>4
    <2>9. ASSUME NEW k \in Stored', NEW m \in Stored', sendOrder'[k] < sendOrder'[m]
          PROVE  messages'[k].id < messages'[m].id
      <3>1. CASE k \in batch /\ m \in batch
        <4>1. /\ place[k] \in Nat /\ place[m] \in Nat
              /\ sendOrder'[k] = sent + place[k] /\ sendOrder'[m] = sent + place[m]
          BY <2>3, <3>1
        <4>2. place[k] - place[m] < 0
          BY <2>4, <2>9, <4>1
        <4>3. /\ messages'[k].id \in Nat /\ messages'[m].id \in Nat
              /\ messages'[k].id - messages'[m].id = place[k] - place[m]
          BY <2>3, <2>5, <3>1
        <4>. QED
          BY <4>1, <4>2, <4>3
      <3>2. CASE k \in batch /\ m \notin batch
        <4>1. m \in MessageId /\ sendOrder'[m] <= sent
          BY <2>3, <2>4, <3>2 DEF Stored
        <4>. QED
          BY <2>3, <2>4, <2>9, <3>2, <4>1
      <3>3. CASE k \notin batch /\ m \in batch
        BY <2>3, <2>6, <3>3
      <3>4. CASE k \notin batch /\ m \notin batch
        <4>1. k \in Stored /\ m \in Stored /\ sendOrder[k] < sendOrder[m]
          BY <2>3, <2>6, <2>9, <3>4 DEF Stored
        <4>. QED
          BY <2>6, <3>4, <4>1 DEF RowIdsInSendOrder
      <3>. QED
        BY <3>1, <3>2, <3>3, <3>4
    <2>. QED
      BY <2>7, <2>8, <2>9 DEF DistinctIds, RowIdsInSendOrder
  <1>2. CASE ~ Sending
    <2>1. /\ sent' = sent /\ sendOrder' = sendOrder
          /\ \A m \in Stored' : m \in Stored /\ messages'[m].id = messages[m].id
      BY <1>2, StatementStep, OldRows DEF Stored
    <2>. QED
      BY <2>1 DEF DistinctIds, PlacesGiven, RowIdsInSendOrder
  <1>. QED
    BY <1>1, <1>2

(* Receipts: a new draw is in no receipt yet, and ids tell the messages of *)
(* one receive apart.                                                      *)
LEMMA ReceiptsStep ==
    ASSUME TypeOK, [Next]_vars, DistinctIds, ReceiptsDrawn, ReceiptsNeverCross
    PROVE  ReceiptsDrawn' /\ ReceiptsNeverCross'
  <1>1. CASE Receiving
    <2>1. PICK q \in Queue, limit \in 1 .. MaxBatch, timeout \in Timeout \cup {NULL} :
            Receive(q, limit, timeout)
      BY <1>1 DEF Receiving
    <2>. DEFINE claimed == Claim(q, limit)
    <2>2. /\ draws' = draws + 1 /\ draws \in Nat
          /\ issued' = issued \cup {[handle |-> MintedHandle(m), message |-> m] : m \in claimed}
      BY <2>1 DEF Receive, TypeOK
    <2>3. ASSUME NEW r \in issued'
          PROVE  \/ r \in issued /\ r.handle.draw \in Nat /\ r.handle.draw <= draws
                 \/ /\ r.message \in claimed
                    /\ r.handle = MintedHandle(r.message)
      <3>1. CASE r \in issued
        <4>1. r.handle \in Handle
          BY <3>1 DEF TypeOK
        <4>. QED
          BY <3>1, <4>1 DEF ReceiptsDrawn, Handle
      <3>2. CASE r \notin issued
        BY <2>2, <3>2
      <3>. QED
        BY <3>1, <3>2
    <2>4. \A m \in claimed : /\ m \in Stored
                             /\ messages'[m].receipt_handle = MintedHandle(m)
      <3>1. \A m \in claimed : m \in MessageId
        BY DEF Claim, Claimable, Of, Stored
      <3>. QED
        BY <2>1, <3>1, ReceivedRow
    <2>5. \A m : MintedHandle(m).draw = draws + 1 /\ MintedHandle(m).id = messages[m].id
      BY DEF MintedHandle
    <2>6. ASSUME NEW m \in Stored', m \notin claimed
          PROVE  /\ m \in Stored /\ messages'[m] = messages[m]
                 /\ messages[m].receipt_handle # NULL =>
                       /\ messages[m].receipt_handle.draw \in Nat
                       /\ messages[m].receipt_handle.draw <= draws
      <3>1. m \in Stored /\ messages'[m] = messages[m]
        BY <2>1, <2>6, ReceivedRow DEF Stored
      <3>2. messages[m].receipt_handle \in Handle \cup {NULL}
        BY <3>1, StoredRow DEF Row
      <3>. QED
        BY <3>1, <3>2 DEF ReceiptsDrawn, Handle
    <2>7. ReceiptsDrawn'
      <3>1. \A r \in issued' : r.handle.draw <= draws'
        BY <2>2, <2>3, <2>5
      <3>2. \A m \in Stored' : messages'[m].receipt_handle # NULL =>
                messages'[m].receipt_handle.draw <= draws'
        BY <2>2, <2>4, <2>5, <2>6
      <3>. QED
        BY <3>1, <3>2 DEF ReceiptsDrawn
    <2>8. ASSUME NEW m \in Stored', NEW r \in issued', messages'[m].receipt_handle = r.handle
          PROVE  r.message = m
      <3>1. r.handle # NULL
        <4>1. CASE r \in issued
          <5>1. r.handle \in Handle
            BY <4>1 DEF TypeOK
          <5>. QED
            BY <5>1
        <4>2. CASE r \notin issued
          <5>1. r.handle = MintedHandle(r.message) /\ r.message \in claimed
            BY <2>3, <4>2
          <5>2. r.message \in MessageId
            BY <2>4, <5>1 DEF Stored
          <5>. QED
            BY <2>1, <5>1, <5>2, ReceivedRow
        <4>. QED
          BY <4>1, <4>2
      <3>2. CASE m \in claimed
        <4>1. r.handle.draw = draws + 1 /\ r.handle.id = messages[m].id
          BY <2>4, <2>5, <2>8, <3>2
        <4>2. r.message \in claimed /\ r.handle.id = messages[r.message].id
          BY <2>2, <2>3, <2>5, <4>1
        <4>. QED
          BY <2>4, <3>2, <4>1, <4>2 DEF DistinctIds
      <3>3. CASE m \notin claimed
        <4>1. /\ m \in Stored /\ messages[m].receipt_handle = r.handle
              /\ r.handle.draw \in Nat /\ r.handle.draw <= draws
          BY <2>6, <2>8, <3>1, <3>3
        <4>2. r \in issued
          BY <2>2, <2>3, <2>5, <4>1
        <4>. QED
          BY <4>1, <4>2 DEF ReceiptsNeverCross
      <3>. QED
        BY <3>2, <3>3
    <2>. QED
      BY <2>7, <2>8 DEF ReceiptsNeverCross
  <1>2. ASSUME draws' = draws, issued' = issued,
               \A m \in Stored' :
                  \/ messages'[m].receipt_handle = NULL
                  \/ m \in Stored /\ messages'[m].receipt_handle = messages[m].receipt_handle
        PROVE  ReceiptsDrawn' /\ ReceiptsNeverCross'
    <2>1. \A r \in issued : r.handle # NULL
      BY DEF TypeOK
    <2>. QED
      BY <1>2, <2>1 DEF ReceiptsDrawn, ReceiptsNeverCross
  <1>3. CASE Quiet
    BY <1>2, <1>3 DEF Quiet, Stored
  <1>4. CASE Leaving
    BY <1>2, <1>4 DEF Leaving, Stored
  <1>5. CASE Sending
    <2>1. PICK q \in Queue, batch \in SUBSET Unsent :
            \E place \in Injection(batch, 1 .. Cardinality(batch)),
               delay \in [batch -> Delay \cup {NULL}] : Send(q, place, delay)
      BY <1>5 DEF Sending
    <2>2. draws' = draws /\ issued' = issued
      BY <2>1, SentRows
    <2>3. \A m \in batch : messages'[m].receipt_handle = NULL
      BY <2>1, SentRows
    <2>4. \A m \in MessageId \ batch : messages'[m] = messages[m]
      BY <2>1, SentRows
    <2>. QED
      BY <1>2, <2>2, <2>3, <2>4 DEF Stored
  <1>6. CASE Hiding
    <2>1. draws' = draws /\ issued' = issued
      BY <1>6 DEF Hiding
    <2>2. ASSUME NEW m \in Stored'
          PROVE  m \in Stored /\ messages'[m].receipt_handle = messages[m].receipt_handle
      BY <1>6, HiddenRow DEF Stored
    <2>. QED
      BY <1>2, <2>1, <2>2
  <1>7. CASE Settling
    <2>1. PICK k \in MessageId, tries \in Nat : SetStatus(k, tries)
      BY <1>7 DEF Settling
    <2>2. ASSUME NEW m \in Stored'
          PROVE  m \in Stored /\ messages'[m].receipt_handle = messages[m].receipt_handle
      BY <2>1, SettledRow DEF Stored
    <2>. QED
      BY <1>2, <2>1, <2>2, SettledRow
  <1>. QED
    BY <1>1, <1>3, <1>4, <1>5, <1>6, <1>7, StatementStep

(* A message whose delay runs has not been tried.                          *)
LEMMA UntriedStep ==
    ASSUME TypeOK, [Next]_vars, UntriedUntilReceived
    PROVE  UntriedUntilReceived'
  <1>1. CASE Quiet \/ Leaving
    BY <1>1 DEF Quiet, Leaving, UntriedUntilReceived, Stored
  <1>2. CASE Sending
    <2>1. PICK q \in Queue, batch \in SUBSET Unsent :
            \E place \in Injection(batch, 1 .. Cardinality(batch)),
               delay \in [batch -> Delay \cup {NULL}] : Send(q, place, delay)
      BY <1>2 DEF Sending
    <2>2. \A m \in batch : messages'[m].tries = 0
      BY <2>1, SentRows
    <2>3. \A m \in MessageId \ batch : messages'[m] = messages[m]
      BY <2>1, SentRows
    <2>. QED
      BY <2>2, <2>3 DEF UntriedUntilReceived, Stored
  <1>3. CASE Receiving
    <2>1. PICK q \in Queue, limit \in 1 .. MaxBatch, timeout \in Timeout \cup {NULL} :
            Receive(q, limit, timeout)
      BY <1>3 DEF Receiving
    <2>2. \A m \in MessageId : m \in Claim(q, limit) => messages'[m].delivered_at = now
      BY <2>1, ReceivedRow
    <2>3. \A m \in MessageId : m \notin Claim(q, limit) => messages'[m] = messages[m]
      BY <2>1, ReceivedRow
    <2>4. now # NULL
      BY DEF TypeOK
    <2>. QED
      BY <2>2, <2>3, <2>4 DEF UntriedUntilReceived, Stored
  <1>4. CASE Hiding
    BY <1>4, HiddenRow DEF UntriedUntilReceived, Stored
  <1>5. CASE Settling
    <2>1. PICK k \in MessageId, tries \in Nat : SetStatus(k, tries)
      BY <1>5 DEF Settling
    <2>2. /\ messages'[k].invisible_until = NULL
          /\ \A m \in MessageId \ {k} : messages'[m] = messages[m]
      BY <2>1, SettledRow
    <2>. QED
      BY <2>2 DEF UntriedUntilReceived, Stored
  <1>. QED
    BY <1>1, <1>2, <1>3, <1>4, <1>5, StatementStep

(* The invariant of the table, whatever calls interleave.                  *)
THEOREM TableInvariance == Spec => []TableInv
  <1>1. Init => TableInv
    BY DEF Init, TableInv, DistinctIds, PlacesGiven, RowIdsInSendOrder, ReceiptsDrawn,
           ReceiptsNeverCross, UntriedUntilReceived, Stored
  <1>2. TypeOK /\ TypeOK' /\ TableInv /\ [Next]_vars => TableInv'
    BY IdsStep, ReceiptsStep, UntriedStep DEF TableInv
  <1>. QED
    BY <1>1, <1>2, TypeCorrect, PTL DEF Spec

(* A receipt acts on the message it was handed out for, although row ids   *)
(* are reused and handles start with them.                                 *)
THEOREM ReceiptsActOnTheirOwn == Spec => []ReceiptsNeverCross
  <1>1. TableInv => ReceiptsNeverCross
    BY DEF TableInv
  <1>. QED
    BY TableInvariance, <1>1, PTL

(* Row ids order the stored messages as they were sent.                    *)
THEOREM IdsFollowSends == Spec => []RowIdsInSendOrder
  <1>1. TableInv => RowIdsInSendOrder
    BY DEF TableInv
  <1>. QED
    BY TableInvariance, <1>1, PTL

(* The status the message list shows is the state the gauges count.        *)
THEOREM GaugesAgree == Spec => []StatusMatchesGauges
  <1>1. ASSUME TypeOK, TableInv, NEW m \in Stored
        PROVE  /\ Status(m) = "pending" <=> Available(m) \/ Delayed(m)
               /\ Status(m) = "failed" <=> Failed(m)
    <2>1. messages[m] \in Row /\ conf \in [Queue -> Settings]
      BY <1>1, StoredRow DEF TypeOK
    <2>2. conf[messages[m].queue].max_retries \in Nat \ {0}
      BY <2>1 DEF Row, Settings
    <2>3. ~ Visible(m) => messages[m].invisible_until # NULL
      BY DEF Visible
    <2>4. Delayed(m) => ~ Exhausted(m)
      BY <1>1, <2>2, <2>3 DEF Delayed, Exhausted, TableInv, UntriedUntilReceived
    <2>. QED
      BY <2>4 DEF Status, Available, Delayed, Failed
  <1>2. TypeOK /\ TableInv => StatusMatchesGauges
    BY <1>1 DEF StatusMatchesGauges
  <1>. QED
    BY TableInvariance, TypeCorrect, <1>2, PTL

-----------------------------------------------------------------------------
(* The refinement.                                                         *)

(* Where a message is, from its row, its place and the time, ...           *)
LEMMA PhaseNow ==
    ASSUME TypeOK, StoredWereSent, NEW m \in MessageId
    PROVE  /\ sendOrder[m] = 0 => Phase[m] = "unsent" /\ LatestReceipt[m] = NULL
           /\ sendOrder[m] # 0 /\ m \notin Stored =>
                 Phase[m] = "gone" /\ LatestReceipt[m] = NULL
           /\ m \in Stored =>
                 /\ LatestReceipt[m] = messages[m].receipt_handle
                 /\ messages[m].invisible_until = NULL => Phase[m] = "free"
                 /\ messages[m].invisible_until # NULL =>
                       Phase[m] = IF messages[m].invisible_until <= now THEN "lapsed" ELSE "held"
  <1>1. sendOrder[m] \in Nat
    BY DEF TypeOK
  <1>2. m \in Stored => sendOrder[m] > 0
    BY DEF StoredWereSent
  <1>. QED
    BY <1>1, <1>2 DEF Phase, LatestReceipt, Visible

(* ... and after a step.                                                   *)
LEMMA PhaseThen ==
    ASSUME TypeOK', StoredWereSent', NEW m \in MessageId
    PROVE  /\ sendOrder'[m] = 0 => Phase'[m] = "unsent" /\ LatestReceipt'[m] = NULL
           /\ sendOrder'[m] # 0 /\ m \notin Stored' =>
                 Phase'[m] = "gone" /\ LatestReceipt'[m] = NULL
           /\ m \in Stored' =>
                 /\ LatestReceipt'[m] = messages'[m].receipt_handle
                 /\ messages'[m].invisible_until = NULL => Phase'[m] = "free"
                 /\ messages'[m].invisible_until # NULL =>
                       Phase'[m] = IF messages'[m].invisible_until <= now' THEN "lapsed" ELSE "held"
  <1>1. sendOrder'[m] \in Nat
    BY DEF TypeOK
  <1>2. m \in Stored' => sendOrder'[m] > 0
    BY DEF StoredWereSent
  <1>. QED
    BY <1>1, <1>2 DEF Phase, LatestReceipt, Visible

(* A message whose row, place and clock stay is where it was.              *)
LEMMA PhaseStays ==
    ASSUME NEW m \in MessageId,
           messages'[m] = messages[m], sendOrder'[m] = sendOrder[m], now' = now
    PROVE  Phase'[m] = Phase[m] /\ LatestReceipt'[m] = LatestReceipt[m]
  BY DEF Phase, LatestReceipt, Visible, Stored

(* Each kind of statement is one action of the promise.                    *)
LEMMA PromiseStep ==
    ASSUME TypeOK, TypeOK', StoredWereSent, StoredWereSent', TableInv, [Next]_vars
    PROVE  [Promise!Next]_(Promise!vars)
  <1>1. CASE Quiet
    <2>1. PICK S \in SUBSET MessageId :
            S = {m \in MessageId : Phase[m] = "held" /\ Phase'[m] = "lapsed"}
      OBVIOUS
    <2>2. ASSUME NEW m \in MessageId
          PROVE  /\ LatestReceipt'[m] = LatestReceipt[m]
                 /\ m \notin S => Phase'[m] = Phase[m]
      <3>1. messages'[m] = messages[m] /\ sendOrder'[m] = sendOrder[m]
        BY <1>1 DEF Quiet
      <3>2. m \in Stored' <=> m \in Stored
        BY <3>1 DEF Stored
      <3>3. CASE m \notin Stored
        BY <3>1, <3>2, <3>3, PhaseNow, PhaseThen
      <3>4. CASE m \in Stored /\ messages[m].invisible_until = NULL
        BY <3>1, <3>2, <3>4, PhaseNow, PhaseThen
      <3>5. CASE m \in Stored /\ messages[m].invisible_until # NULL
        <4>1. /\ messages[m].invisible_until \in Nat /\ now \in Nat
              /\ now' \in {now, now + 1}
          BY <1>1, <3>5, StoredRow DEF Row, Time, TypeOK, Quiet
        <4>. QED
          BY <2>1, <3>1, <3>2, <3>5, <4>1, PhaseNow, PhaseThen
      <3>. QED
        BY <3>3, <3>4, <3>5
    <2>3. Promise!Lapse(S)
      BY <1>1, <2>1, <2>2 DEF Promise!Lapse, Promise!OnlyIn, Quiet
    <2>. QED
      BY <2>3 DEF Promise!Next
  <1>2. CASE Leaving
    <2>1. PICK gone \in SUBSET MessageId :
            /\ messages' = [m \in MessageId |-> IF m \in gone THEN Absent ELSE messages[m]]
            /\ UNCHANGED <<now, sendOrder, issued>>
      BY <1>2 DEF Leaving
    <2>2. PICK S \in SUBSET MessageId : S = gone \cap Stored
      OBVIOUS
    <2>3. ASSUME NEW m \in MessageId \ S
          PROVE  Phase'[m] = Phase[m] /\ LatestReceipt'[m] = LatestReceipt[m]
      <3>1. messages'[m] = messages[m]
        BY <2>1, <2>2 DEF Stored
      <3>. QED
        BY <2>1, <3>1, PhaseStays
    <2>4. ASSUME NEW m \in S
          PROVE  /\ Phase[m] \in {"free", "held", "lapsed"}
                 /\ Phase'[m] = "gone" /\ LatestReceipt'[m] = NULL
      <3>1. m \in Stored /\ m \notin Stored' /\ sendOrder'[m] # 0
        BY <2>1, <2>2 DEF Stored, StoredWereSent
      <3>. QED
        BY <3>1, PhaseNow, PhaseThen
    <2>5. Promise!Leave(S)
      BY <2>1, <2>3, <2>4 DEF Promise!Leave, Promise!OnlyIn, Promise!Here
    <2>. QED
      BY <2>5 DEF Promise!Next
  <1>3. CASE Sending
    <2>1. PICK q \in Queue, S \in SUBSET Unsent :
            \E place \in Injection(S, 1 .. Cardinality(S)),
               delay \in [S -> Delay \cup {NULL}] : Send(q, place, delay)
      BY <1>3 DEF Sending
    <2>2. PICK place \in Injection(S, 1 .. Cardinality(S)),
               delay \in [S -> Delay \cup {NULL}] : Send(q, place, delay)
      BY <2>1
    <2>3. UNCHANGED <<now, issued>>
      BY <2>2, SentRows
    <2>4. ASSUME NEW m \in MessageId \ S
          PROVE  Phase'[m] = Phase[m] /\ LatestReceipt'[m] = LatestReceipt[m]
      BY <2>2, SentRows, PhaseStays
    <2>5. ASSUME NEW m \in S
          PROVE  /\ Phase[m] = "unsent" /\ Phase'[m] \in {"free", "held"}
                 /\ LatestReceipt'[m] = NULL
      <3>1. /\ m \in MessageId /\ messages'[m] \in Row
            /\ messages'[m].receipt_handle = NULL
            /\ messages'[m].invisible_until \in Nat => messages'[m].invisible_until > now
        BY <2>2, SentRows
      <3>2. m \in Stored' /\ sendOrder[m] = 0
        BY <3>1 DEF Stored, Unsent
      <3>3. messages'[m].invisible_until \in Nat \cup {NULL} /\ now \in Nat
        BY <3>1 DEF Row, Time, TypeOK
      <3>. QED
        BY <2>3, <3>1, <3>2, <3>3, PhaseNow, PhaseThen
    <2>6. S \in SUBSET MessageId
      BY DEF Unsent
    <2>7. Promise!Send(S)
      BY <2>3, <2>4, <2>5 DEF Promise!Send, Promise!OnlyIn
    <2>. QED
      BY <2>6, <2>7 DEF Promise!Next
  <1>4. CASE Receiving
    <2>1. PICK q \in Queue, limit \in 1 .. MaxBatch, timeout \in Timeout \cup {NULL} :
            Receive(q, limit, timeout)
      BY <1>4 DEF Receiving
    <2>2. PICK S \in SUBSET MessageId : S = Claim(q, limit)
      BY DEF Claim, Claimable, Of, Stored
    <2>3. /\ issued' = issued \cup {[handle |-> MintedHandle(m), message |-> m] : m \in S}
          /\ UNCHANGED <<now, sendOrder>>
      BY <2>1, <2>2 DEF Receive
    <2>4. ASSUME NEW m \in MessageId \ S
          PROVE  Phase'[m] = Phase[m] /\ LatestReceipt'[m] = LatestReceipt[m]
      BY <2>1, <2>2, <2>3, ReceivedRow, PhaseStays
    <2>5. ASSUME NEW m \in S
          PROVE  /\ m \in Stored
                 /\ Phase[m] \in {"free", "lapsed"} /\ Phase'[m] \in {"held", "lapsed"}
                 /\ LatestReceipt'[m] = MintedHandle(m) /\ MintedHandle(m) \in Handle
      <3>1. /\ m \in Stored /\ Available(m) /\ messages'[m] \in Row
            /\ messages'[m].invisible_until \in Nat
            /\ messages'[m].receipt_handle = MintedHandle(m) /\ MintedHandle(m) \in Handle
        BY <2>1, <2>2, ReceivedRow
      <3>2. m \in Stored' /\ messages'[m].invisible_until # NULL
        BY <3>1 DEF Stored
      <3>3. Phase[m] \in {"free", "lapsed"}
        BY <3>1, PhaseNow DEF Available, Visible
      <3>. QED
        BY <3>1, <3>2, <3>3, PhaseThen
    <2>6. \A m : MintedHandle(m).draw = draws + 1 /\ MintedHandle(m).id = messages[m].id
      BY DEF MintedHandle
    <2>7. ASSUME NEW m \in S
          PROVE  MintedHandle(m) \notin {r.handle : r \in issued}
      <3>1. \A r \in issued : r.handle \in Handle /\ r.handle.draw <= draws
        BY DEF TypeOK, TableInv, ReceiptsDrawn
      <3>2. draws \in Nat
        BY DEF TypeOK
      <3>. QED
        BY <2>6, <3>1, <3>2 DEF Handle
    <2>8. ASSUME NEW k \in S, NEW m \in S, MintedHandle(k) = MintedHandle(m)
          PROVE  k = m
      BY <2>5, <2>6, <2>8 DEF TableInv, DistinctIds
    <2>9. {r.handle : r \in issued'} =
             {r.handle : r \in issued} \cup {MintedHandle(m) : m \in S}
      <3>. DEFINE new == {[handle |-> MintedHandle(m), message |-> m] : m \in S}
      <3>1. {r.handle : r \in new} = {MintedHandle(m) : m \in S}
        <4>1. \A r \in new : \E m \in S : r.handle = MintedHandle(m)
          OBVIOUS
        <4>2. \A m \in S : \E r \in new : r.handle = MintedHandle(m)
          <5>1. \A m \in S : [handle |-> MintedHandle(m), message |-> m] \in new
            OBVIOUS
          <5>. HIDE DEF new
          <5>. QED
            BY <5>1
        <4>. HIDE DEF new
        <4>. QED
          BY <4>1, <4>2
      <3>2. issued' = issued \cup new
        BY <2>3
      <3>. HIDE DEF new
      <3>3. {r.handle : r \in issued \cup new} = {r.handle : r \in issued}
                                                 \cup {r.handle : r \in new}
        OBVIOUS
      <3>. QED
        BY <3>1, <3>2, <3>3
    <2>10. {LatestReceipt'[m] : m \in S} = {MintedHandle(m) : m \in S}
      BY <2>5
    <2>11. Promise!HandOut(S)
      BY <2>4, <2>5, <2>7, <2>8, <2>9, <2>10 DEF Promise!HandOut, Promise!OnlyIn
    <2>. QED
      BY <2>11 DEF Promise!Next
  <1>5. CASE Hiding
    <2>1. PICK S \in SUBSET MessageId : S = {m \in MessageId : messages'[m] # messages[m]}
      OBVIOUS
    <2>2. UNCHANGED <<now, sendOrder, issued>>
      BY <1>5 DEF Hiding
    <2>3. ASSUME NEW m \in MessageId \ S
          PROVE  Phase'[m] = Phase[m] /\ LatestReceipt'[m] = LatestReceipt[m]
      BY <2>1, <2>2, PhaseStays
    <2>4. ASSUME NEW m \in S
          PROVE  /\ Phase[m] \in {"held", "lapsed"} /\ Phase'[m] \in {"held", "lapsed"}
                 /\ LatestReceipt[m] # NULL /\ LatestReceipt'[m] = LatestReceipt[m]
      <3>1. /\ m \in Stored /\ messages'[m] \in Row
            /\ messages[m].invisible_until # NULL /\ messages'[m].invisible_until \in Nat
            /\ messages[m].receipt_handle # NULL
            /\ messages'[m].receipt_handle = messages[m].receipt_handle
        BY <1>5, <2>1, HiddenRow
      <3>2. m \in Stored' /\ messages'[m].invisible_until # NULL
        BY <3>1 DEF Stored
      <3>. QED
        BY <3>1, <3>2, PhaseNow, PhaseThen
    <2>5. Promise!Hide(S)
      BY <2>2, <2>3, <2>4 DEF Promise!Hide, Promise!OnlyIn
    <2>. QED
      BY <2>5 DEF Promise!Next
  <1>6. CASE Settling
    <2>1. PICK k \in MessageId, tries \in Nat : SetStatus(k, tries)
      BY <1>6 DEF Settling
    <2>2. PICK S \in SUBSET MessageId : S = {k}
      OBVIOUS
    <2>3. /\ UNCHANGED <<now, sendOrder, issued>>
          /\ k \in Stored /\ messages'[k] \in Row /\ messages'[k].invisible_until = NULL
          /\ messages'[k].receipt_handle = messages[k].receipt_handle
          /\ \A m \in MessageId \ {k} : messages'[m] = messages[m]
      BY <2>1, SettledRow
    <2>4. ASSUME NEW m \in MessageId \ S
          PROVE  Phase'[m] = Phase[m] /\ LatestReceipt'[m] = LatestReceipt[m]
      BY <2>2, <2>3, PhaseStays
    <2>5. /\ Phase[k] \in {"free", "held", "lapsed"} /\ Phase'[k] = "free"
          /\ LatestReceipt'[k] = LatestReceipt[k]
      <3>1. k \in Stored'
        BY <2>3 DEF Stored
      <3>. QED
        BY <2>3, <3>1, PhaseNow, PhaseThen
    <2>6. Promise!SetFree(S)
      BY <2>2, <2>3, <2>4, <2>5 DEF Promise!SetFree, Promise!OnlyIn, Promise!Here
    <2>. QED
      BY <2>6 DEF Promise!Next
  <1>. QED
    BY <1>1, <1>2, <1>3, <1>4, <1>5, <1>6, StatementStep

(* The table, its settings and its clock implement what a queue promises.  *)
THEOREM ImplementsThePromise == Spec => KeepsThePromise
  <1>1. Init => Promise!Init
    BY DEF Init, Promise!Init, Phase, LatestReceipt, Stored
  <1>2. TypeOK /\ TypeOK' /\ StoredWereSent /\ StoredWereSent' /\ TableInv /\ [Next]_vars
            => [Promise!Next]_(Promise!vars)
    BY PromiseStep
  <1>. QED
    BY <1>1, <1>2, TypeCorrect, OnlySentStored, TableInvariance, PTL
       DEF Spec, KeepsThePromise, Promise!Spec

-----------------------------------------------------------------------------
(* Oldest first.                                                           *)

(* What is claimed has few older ones, and what is older has fewer.        *)
LEMMA OldestStep ==
    ASSUME TypeOK, TableInv, [Next]_vars, NEW m \in Stored, NEW k \in Stored,
           HandedOut(m), messages[k].queue = messages[m].queue,
           sendOrder[k] < sendOrder[m], Available(k)
    PROVE  HandedOut(k)
  <1>1. m \in MessageId /\ k \in MessageId /\ attempts \in [MessageId -> Nat]
    BY StoredRow DEF TypeOK
  <1>2. attempts[m] \in Nat /\ attempts[k] \in Nat
    BY <1>1
  <1>3. Receiving
    <2>1. ~ Quiet /\ ~ Leaving /\ ~ Hiding
      BY <1>1, <1>2 DEF HandedOut, Quiet, Leaving, Hiding
    <2>2. ~ Sending
      BY <1>2, SentRows DEF HandedOut, Sending
    <2>3. ~ Settling
      <3>1. SUFFICES ASSUME NEW j \in MessageId, NEW tries \in Nat, SetStatus(j, tries)
                     PROVE  FALSE
        BY DEF Settling
      <3>2. attempts' = [attempts EXCEPT ![j] = 0]
        BY <3>1 DEF SetStatus
      <3>. QED
        BY <1>1, <1>2, <3>2 DEF HandedOut
    <2>. QED
      BY <2>1, <2>2, <2>3, StatementStep
  <1>4. PICK q \in Queue, limit \in 1 .. MaxBatch, timeout \in Timeout \cup {NULL} :
          Receive(q, limit, timeout)
    BY <1>3 DEF Receiving
  <1>5. attempts' = [j \in MessageId |->
                       IF j \in Claim(q, limit) THEN attempts[j] + 1 ELSE attempts[j]]
    BY <1>4 DEF Receive
  <1>6. m \in Claim(q, limit)
    BY <1>1, <1>2, <1>5 DEF HandedOut
  <1>. DEFINE Older(j) == {i \in Claimable(q) : messages[i].id < messages[j].id}
  <1>7. Older(k) \subseteq Older(m)
    <2>1. messages[k].id < messages[m].id
      BY DEF TableInv, RowIdsInSendOrder
    <2>2. \A i \in Claimable(q) \cup {k, m} : messages[i].id \in Nat
      BY StoredRow DEF Claimable, Of, Row
    <2>. QED
      BY <2>1, <2>2
  <1>8. /\ IsFiniteSet(Older(m)) /\ Cardinality(Older(m)) < limit
        /\ k \in Claimable(q)
    <2>1. Older(m) \in SUBSET MessageId
      BY DEF Claimable, Of, Stored
    <2>2. IsFiniteSet(Older(m))
      BY <2>1, FS_Subset
    <2>. QED
      BY <1>6, <2>2 DEF Claim, Claimable, Of
  <1>9. k \in Claim(q, limit)
    <2>1. /\ Cardinality(Older(k)) <= Cardinality(Older(m))
          /\ Cardinality(Older(k)) \in Nat /\ Cardinality(Older(m)) \in Nat
      BY <1>7, <1>8, FS_Subset, FS_CardinalityType
    <2>2. Cardinality(Older(k)) < limit
      BY <1>8, <2>1
    <2>. QED
      BY <1>8, <2>2 DEF Claim
  <1>. QED
    BY <1>1, <1>2, <1>5, <1>9 DEF HandedOut

(* A receive hands out no message over an older one of its queue that is   *)
(* available.                                                              *)
THEOREM ReceivesOldestFirst == Spec => OldestFirst
  <1>1. TypeOK /\ TableInv /\ [Next]_vars =>
            [\A m \in Stored : HandedOut(m) =>
               \A k \in Stored :
                  (/\ messages[k].queue = messages[m].queue
                   /\ sendOrder[k] < sendOrder[m]
                   /\ Available(k)) => HandedOut(k)]_vars
    BY OldestStep
  <1>. QED
    BY <1>1, TypeCorrect, TableInvariance, PTL DEF Spec, OldestFirst

-----------------------------------------------------------------------------
(* Visibility changes that are refused.                                    *)

(* An entry carries a receipt somebody was handed; if it missed and was    *)
(* not refused for the 12 hours, its receipt hides nothing any more.       *)
CallTrue(a) ==
    /\ \A i \in DOMAIN a.entries : a.entries[i].receipt_handle.draw <= draws
    /\ \A i \in a.missed \ a.capped : Hideable(a.queue, a.entries[i].receipt_handle) = {}
CallsTrue == \A c \in Caller : call[c] # Idle => CallTrue(call[c])

(* What a receipt can hide never grows: a new delivery has a new receipt,  *)
(* and a message an admin requeued is hidden by the next one only.         *)
LEMMA HideableShrinks ==
    ASSUME TypeOK, TableInv, [Next]_vars, NEW q, NEW h \in Handle, h.draw <= draws
    PROVE  Hideable(q, h)' \subseteq Hideable(q, h)
  <1>. SUFFICES ASSUME NEW m \in Stored', messages'[m].queue = q,
                       messages'[m].receipt_handle = h, messages'[m].invisible_until # NULL
                PROVE  /\ m \in Stored /\ messages[m].queue = q
                       /\ messages[m].receipt_handle = h
                       /\ messages[m].invisible_until # NULL
    BY DEF Hideable, Of
  <1>1. m \in MessageId /\ h # NULL
    BY DEF Stored
  <1>2. CASE Quiet \/ Leaving
    BY <1>1, <1>2 DEF Quiet, Leaving, Stored
  <1>3. CASE Sending
    BY <1>1, <1>3, SentRows DEF Sending, Stored
  <1>4. CASE Receiving
    <2>1. PICK p \in Queue, limit \in 1 .. MaxBatch, timeout \in Timeout \cup {NULL} :
            Receive(p, limit, timeout)
      BY <1>4 DEF Receiving
    <2>2. m \notin Claim(p, limit)
      <3>1. MintedHandle(m).draw = draws + 1 /\ draws \in Nat /\ h.draw \in Nat
        BY DEF MintedHandle, TypeOK, Handle
      <3>2. h # MintedHandle(m)
        BY <3>1
      <3>. QED
        BY <1>1, <2>1, <3>2, ReceivedRow
    <2>. QED
      BY <1>1, <2>1, <2>2, ReceivedRow DEF Stored
  <1>5. CASE Hiding
    <2>1. CASE messages'[m] = messages[m]
      BY <1>1, <2>1 DEF Stored
    <2>2. CASE messages'[m] # messages[m]
      BY <1>1, <1>5, <2>2, HiddenRow
    <2>. QED
      BY <2>1, <2>2
  <1>6. CASE Settling
    <2>1. PICK k \in MessageId, tries \in Nat : SetStatus(k, tries)
      BY <1>6 DEF Settling
    <2>2. m # k /\ messages'[m] = messages[m]
      BY <1>1, <2>1, SettledRow
    <2>. QED
      BY <1>1, <2>2 DEF Stored
  <1>. QED
    BY <1>2, <1>3, <1>4, <1>5, <1>6, StatementStep

(* Draws are counted up.                                                   *)
LEMMA DrawsGrow ==
    ASSUME TypeOK, [Next]_vars
    PROVE  draws' \in Nat /\ draws <= draws'
  <1>1. draws \in Nat
    BY DEF TypeOK
  <1>2. CASE Receiving
    <2>1. draws' = draws + 1
      BY <1>2 DEF Receiving, Receive
    <2>. QED
      BY <1>1, <2>1
  <1>3. CASE Sending
    BY <1>1, <1>3, SentRows DEF Sending
  <1>4. CASE ~ Receiving /\ ~ Sending
    <2>1. draws' = draws
      BY <1>4, StatementStep, SettledRow DEF Quiet, Leaving, Hiding, Settling
    <2>. QED
      BY <1>1, <2>1
  <1>. QED
    BY <1>2, <1>3, <1>4

(* The entries of a call.                                                  *)
LEMMA CallEntries ==
    ASSUME NEW a \in Call, NEW i \in DOMAIN a.entries
    PROVE  a.entries[i] \in Entry /\ a.entries[i].receipt_handle \in Handle
  <1>1. a.entries \in Seq(Entry)
    BY DEF Call
  <1>2. a.entries[i] \in Entry
    BY <1>1
  <1>. QED
    BY <1>2 DEF Entry

(* A call that no step touches stays true.                                 *)
LEMMA CallStays ==
    ASSUME TypeOK, TableInv, [Next]_vars, NEW a \in Call,
           a.missed \subseteq DOMAIN a.entries, CallTrue(a)
    PROVE  CallTrue(a)'
  <1>1. draws \in Nat /\ draws' \in Nat /\ draws <= draws'
    BY DrawsGrow DEF TypeOK
  <1>2. ASSUME NEW i \in DOMAIN a.entries
        PROVE  /\ a.entries[i].receipt_handle \in Handle
               /\ a.entries[i].receipt_handle.draw <= draws
               /\ a.entries[i].receipt_handle.draw <= draws'
    <2>1. /\ a.entries[i].receipt_handle \in Handle
          /\ a.entries[i].receipt_handle.draw <= draws
      BY CallEntries DEF CallTrue
    <2>2. a.entries[i].receipt_handle.draw \in Nat
      BY <2>1 DEF Handle
    <2>. QED
      BY <1>1, <2>1, <2>2
  <1>3. ASSUME NEW i \in a.missed \ a.capped
        PROVE  Hideable(a.queue, a.entries[i].receipt_handle)' = {}
    <2>1. /\ a.entries[i].receipt_handle \in Handle
          /\ a.entries[i].receipt_handle.draw <= draws
      BY <1>2, <1>3
    <2>2. Hideable(a.queue, a.entries[i].receipt_handle) = {}
      BY <1>3 DEF CallTrue
    <2>. QED
      BY <2>1, <2>2, HideableShrinks
  <1>. QED
    BY <1>2, <1>3 DEF CallTrue

(* What the two statements of a change leave a caller with.                *)
LEMMA FirstStatement ==
    ASSUME TypeOK, TableInv, [Next]_vars, NEW c \in Caller, NEW q \in Queue,
           NEW entries \in Requests, ChangeVisibility(c, q, entries), NEW a,
           a = [queue |-> q, entries |-> entries, repeated |-> Repeats(entries),
                missed |-> Misses(q, entries, DOMAIN entries \ Repeats(entries)),
                capped |-> Refused(q, entries, DOMAIN entries \ Repeats(entries))]
    PROVE  CallTrue(a)'
  <1>1. \A i \in DOMAIN entries : entries[i].receipt_handle \in Presented
    BY DEF Requests
  <1>2. \A h \in Presented : h \in Handle /\ h.draw <= draws
    BY DEF Presented, TableInv, ReceiptsDrawn, TypeOK
  <1>3. draws' = draws
    BY DEF ChangeVisibility
  <1>4. \A i \in DOMAIN a.entries : a.entries[i].receipt_handle.draw <= draws'
    BY <1>1, <1>2, <1>3
  <1>5. ASSUME NEW i \in a.missed \ a.capped
        PROVE  Hideable(a.queue, a.entries[i].receipt_handle)' = {}
    <2>1. /\ i \in DOMAIN entries
          /\ Hideable(q, entries[i].receipt_handle) = {}
      BY <1>5 DEF Misses, Refused
    <2>2. a.queue = q /\ a.entries = entries
      OBVIOUS
    <2>3. /\ a.entries[i].receipt_handle \in Handle
          /\ a.entries[i].receipt_handle.draw <= draws
          /\ Hideable(a.queue, a.entries[i].receipt_handle) = {}
      BY <1>1, <1>2, <2>1, <2>2
    <2>. QED
      BY <2>3, HideableShrinks
  <1>. QED
    BY <1>4, <1>5 DEF CallTrue

(* The next one adds at most the entry it applies.                         *)
LEMMA NextStatement ==
    ASSUME TypeOK, TableInv, [Next]_vars, NEW c \in Caller, ApplyRepeated(c),
           CallTrue(call[c]), NEW a \in Call, a = call'[c]
    PROVE  CallTrue(a)'
  <1>1. call[c] \in Call /\ call[c].repeated \cup call[c].missed \subseteq DOMAIN call[c].entries
    BY DEF ApplyRepeated, TypeOK
  <1>2. PICK b \in Call : b = call[c] /\ b.missed \subseteq DOMAIN b.entries /\ CallTrue(b)
    BY <1>1
  <1>3. CallTrue(b)'
    BY <1>2, CallStays
  <1>4. PICK j \in b.repeated :
          call' = [call EXCEPT ![c] =
             IF b.repeated \ {j} = {} /\ b.missed \cup Misses(b.queue, b.entries, {j}) = {} THEN Idle
             ELSE [b EXCEPT !.repeated = b.repeated \ {j},
                            !.missed = b.missed \cup Misses(b.queue, b.entries, {j}),
                            !.capped = @ \cup Refused(b.queue, b.entries, {j})]]
    BY <1>2 DEF ApplyRepeated
  <1>5. /\ a.queue = b.queue /\ a.entries = b.entries
        /\ a.missed = b.missed \cup Misses(b.queue, b.entries, {j})
        /\ a.capped = b.capped \cup Refused(b.queue, b.entries, {j})
    <2>1. a # Idle
      OBVIOUS
    <2>2. a = [b EXCEPT !.repeated = b.repeated \ {j},
                        !.missed = b.missed \cup Misses(b.queue, b.entries, {j}),
                        !.capped = @ \cup Refused(b.queue, b.entries, {j})]
      BY <1>4, <2>1 DEF TypeOK
    <2>. QED
      BY <2>2 DEF Call
  <1>6. j \in DOMAIN b.entries
    BY <1>1, <1>2
  <1>7. ASSUME NEW i \in a.missed \ a.capped
        PROVE  Hideable(a.queue, a.entries[i].receipt_handle)' = {}
    <2>1. CASE i \in b.missed
      BY <1>3, <1>5, <1>7, <2>1 DEF CallTrue
    <2>2. CASE i \notin b.missed
      <3>1. i = j /\ Hideable(b.queue, b.entries[i].receipt_handle) = {}
        BY <1>5, <1>7, <2>2 DEF Misses, Refused
      <3>2. /\ b.entries[i].receipt_handle \in Handle
            /\ b.entries[i].receipt_handle.draw <= draws
        BY <1>2, <1>6, <3>1, CallEntries DEF CallTrue
      <3>3. Hideable(b.queue, b.entries[i].receipt_handle)' = {}
        BY <3>1, <3>2, HideableShrinks
      <3>. QED
        BY <1>5, <3>3
    <2>. QED
      BY <2>1, <2>2
  <1>. QED
    BY <1>3, <1>5, <1>7 DEF CallTrue

(* Every call in flight stays true to what its receipts can still hide.    *)
LEMMA CallsStep ==
    ASSUME TypeOK, TypeOK', TableInv, [Next]_vars, CallsTrue
    PROVE  CallsTrue'
  <1>. SUFFICES ASSUME NEW d \in Caller, call'[d] # Idle
                PROVE  CallTrue(call[d])'
    BY DEF CallsTrue
  <1>1. PICK a \in Call : a = call'[d]
    BY DEF TypeOK
  <1>2. CASE call'[d] = call[d]
    <2>1. CallTrue(a) /\ a.missed \subseteq DOMAIN a.entries
      BY <1>1, <1>2 DEF CallsTrue, TypeOK
    <2>2. CallTrue(a)'
      BY <2>1, CallStays
    <2>. QED
      BY <1>1, <2>2 DEF CallTrue, Hideable, Of, Stored
  <1>3. ASSUME NEW c \in Caller, NEW q \in Queue, NEW entries \in Requests,
               ChangeVisibility(c, q, entries), call'[d] # call[d]
        PROVE  CallTrue(call[d])'
    <2>1. c = d
      BY <1>3 DEF ChangeVisibility, TypeOK
    <2>2. a = [queue |-> q, entries |-> entries, repeated |-> Repeats(entries),
               missed |-> Misses(q, entries, DOMAIN entries \ Repeats(entries)),
               capped |-> Refused(q, entries, DOMAIN entries \ Repeats(entries))]
      BY <1>1, <1>3, <2>1 DEF ChangeVisibility, TypeOK
    <2>3. CallTrue(a)'
      BY <1>3, <2>2, FirstStatement
    <2>. QED
      BY <1>1, <2>3 DEF CallTrue, Hideable, Of, Stored
  <1>4. ASSUME NEW c \in Caller, ApplyRepeated(c), call'[d] # call[d]
        PROVE  CallTrue(call[d])'
    <2>1. c = d /\ call[d] # Idle
      BY <1>4 DEF ApplyRepeated, TypeOK
    <2>2. CallTrue(a)'
      BY <1>1, <1>4, <2>1, NextStatement DEF CallsTrue
    <2>. QED
      BY <1>1, <2>2 DEF CallTrue, Hideable, Of, Stored
  <1>5. CASE /\ ~ \E c \in Caller : ApplyRepeated(c)
             /\ ~ \E c \in Caller, q \in Queue, entries \in Requests :
                     ChangeVisibility(c, q, entries)
    <2>1. CASE Tick \/ SweepRetention \/ UNCHANGED vars
      BY <1>2, <2>1 DEF Tick, SweepRetention, vars
    <2>2. CASE Consume
      <3>1. ASSUME NEW q \in Queue, NEW batch \in SUBSET Unsent,
                   NEW place \in Injection(batch, 1 .. Cardinality(batch)),
                   NEW delay \in [batch -> Delay \cup {NULL}], Send(q, place, delay)
            PROVE  call' = call
        BY <3>1 DEF Send
      <3>2. ASSUME NEW q \in Queue, NEW limit \in 1 .. MaxBatch,
                   NEW timeout \in Timeout \cup {NULL}, Receive(q, limit, timeout)
            PROVE  call' = call
        BY <3>2 DEF Receive
      <3>3. ASSUME NEW q \in Queue, NEW handles, DeleteMessages(q, handles)
            PROVE  call' = call
        BY <3>3 DEF DeleteMessages
      <3>4. call' = call
        BY <1>5, <2>2, <3>1, <3>2, <3>3 DEF Consume
      <3>. QED
        BY <1>2, <3>4
    <2>3. CASE InFlightCalls
      <3>1. ASSUME NEW c \in Caller, Answer(c)
            PROVE  call' = [call EXCEPT ![c] = Idle]
        BY <3>1 DEF Answer
      <3>2. Restart => call' = [c \in Caller |-> Idle]
        BY DEF Restart
      <3>3. call \in [Caller -> Call \cup {Idle}]
        BY DEF TypeOK
      <3>4. call'[d] = call[d] \/ call'[d] = Idle
        BY <1>5, <2>3, <3>1, <3>2, <3>3 DEF InFlightCalls
      <3>. QED
        BY <1>2, <3>4
    <2>4. CASE Administer
      <3>1. call' = call
        BY <2>4 DEF Administer, AdminDelete, Requeue, MarkFailed, SetStatus, ClearFailed,
           Purge, DeleteQueue, SetPaused, Configure, SetAttributes
      <3>. QED
        BY <1>2, <3>1
    <2>. QED
      BY <2>1, <2>2, <2>3, <2>4 DEF Next
  <1>. QED
    BY <1>2, <1>3, <1>4, <1>5

(* A change answered "beyond the 12 hours" was refused for that alone,     *)
(* whatever others did to its message before the answer.                   *)
THEOREM RefusalsTruthful == Spec => []BeyondLimitTruthful
  <1>1. Init => CallsTrue
    BY DEF Init, CallsTrue
  <1>2. TypeOK /\ TypeOK' /\ TableInv /\ CallsTrue /\ [Next]_vars => CallsTrue'
    BY CallsStep
  <1>3. CallsTrue => BeyondLimitTruthful
    BY DEF CallsTrue, CallTrue, BeyondLimitTruthful, BeyondLimit
  <1>. QED
    BY <1>1, <1>2, <1>3, TypeCorrect, TableInvariance, PTL DEF Spec
=============================================================================
