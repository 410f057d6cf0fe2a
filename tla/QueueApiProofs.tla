--------------------------- MODULE QueueApiProofs ---------------------------
(***************************************************************************)
(* What QueueApi answers for, whatever the requests, the number of callers *)
(* and the statements that fail: attributes change by whole requests, a    *)
(* CreateQueue that succeeds leaves the queue it asked for, and a batch's  *)
(* answer tells what became of its entries.                                *)
(*                                                                         *)
(* The invariant says, of a call between two of its statements, what the   *)
(* draft is to what is committed.  Nobody but the writer touches either.   *)
(***************************************************************************)
EXTENDS QueueApi, FiniteSetTheorems, TLAPS

USE QueueApiAssumption, RequestsAssumption

AttributeName == Settable \cup FifoAttributes
Attributes == Maps(AttributeName, Int \cup STRING)

(* What the check of a request's attributes lets pass.                     *)
Valid(attributes) ==
    \A name \in DOMAIN attributes :
        name \in AttributeName /\ (name \in Typed => Validate(name, attributes[name]))

Verdict == {"Ok", "MissingParameter", "InvalidMessageContents", "InvalidParameterValue",
            "InternalError"}

(* A call before its first statement, and between its statements.          *)
InsertCall == [at : {"insert"}, op : {"Create"}, request : Creates]
ResolveCall ==
    [at : {"resolve"}, op : {"Set"}, request : Sets]
    \cup [at : {"resolve"}, op : {"Tag", "Untag"}, request : Tags]
    \cup [at : {"resolve"}, op : {"Send"}, request : Batches]
    \cup [at : {"resolve"}, op : {"Delete"}, request : {None}]

CreateCall == [at : {"write"}, op : {"Create"}, request : Creates, id : Nat,
               left : SUBSET AttributeName]
SetCall == [at : {"write"}, op : {"Set"}, request : Sets, id : Nat,
            left : SUBSET AttributeName, outcome : {<< >>}]
TagCall == [at : {"write"}, op : {"Tag", "Untag"}, request : Tags, id : Nat,
            left : SUBSET TagKey, outcome : {<< >>}]
SendCall == [at : {"write"}, op : {"Send"}, request : Batches, id : Nat,
             left : SUBSET Nat, outcome : Seq(Verdict)]
DeleteCall == [at : {"write"}, op : {"Delete"}, request : {None}, id : Nat,
               left : {{}}, outcome : {<< >>}]

Has(row, c, i) == row # None /\ <<c, i>> \in row.messages

DistinctIds(entries) ==
    \A i, j \in DOMAIN entries : entries[i].id = entries[j].id => i = j

(* Attributes are those of base, and over them the ones named of values.   *)
AreOver(attributes, values, names, base) ==
    /\ DOMAIN attributes = DOMAIN base \cup names
    /\ \A name \in DOMAIN attributes :
            attributes[name] = IF name \in names THEN values[name] ELSE base[name]

(* What holds of c's call between two of its statements.                   *)
Creating(c, call) ==
    /\ call \in CreateCall
    /\ Valid(call.request.attributes)
    /\ writer = c /\ queue = None
    /\ draft \in Row /\ draft.id = call.id
    /\ call.left \subseteq DOMAIN call.request.attributes
    /\ AreOver(draft.attributes, call.request.attributes,
               DOMAIN call.request.attributes \ call.left, << >>)

Setting(c, call) ==
    /\ call \in SetCall
    /\ Valid(call.request)
    /\ call.left \subseteq DOMAIN call.request
    /\ writer # c => call.left = DOMAIN call.request
    /\ writer = c =>
          /\ DOMAIN call.request # {}
          /\ queue \in Row /\ draft \in Row
          /\ draft.id = call.id /\ draft.id = queue.id /\ draft.modified = queue.modified
          /\ AreOver(draft.attributes, call.request,
                     DOMAIN call.request \ call.left, queue.attributes)

SameButMessages ==
    /\ queue = None => draft = None
    /\ queue # None =>
          draft # None /\ draft.id = queue.id /\ draft.attributes = queue.attributes

Sending(c, call) ==
    /\ call \in SendCall
    /\ call.request.batch => DistinctIds(call.request.entries)
    /\ Len(call.outcome) <= Len(call.request.entries)
    /\ call.left = (Len(call.outcome) + 1) .. Len(call.request.entries)
    /\ writer # c => \A i \in Nat : ~ Has(queue, c, i)
    /\ writer = c => SameButMessages /\ \A i \in call.left : ~ Has(draft, c, i)
    /\ \A i \in 1 .. Len(call.outcome) :
          /\ call.outcome[i] = "Ok" => writer = c /\ Has(draft, c, i)
          /\ writer = c /\ call.outcome[i] \notin {"Ok", "InternalError"} => ~ Has(draft, c, i)

Tagging(call) == call \in TagCall /\ call.left \subseteq DOMAIN call.request

Resolving(c, call) ==
    /\ call \in ResolveCall
    /\ call.op = "Set" => Valid(call.request)
    /\ call.op = "Send" =>
          /\ call.request.batch => DistinctIds(call.request.entries)
          /\ \A i \in Nat : ~ Has(queue, c, i)

CallFits(c, call) ==
    /\ call.at = "insert" => call \in InsertCall /\ Valid(call.request.attributes)
    /\ call.at = "resolve" => Resolving(c, call)
    /\ call.at = "write" =>
          \/ Creating(c, call) \/ Setting(c, call) \/ Sending(c, call)
          \/ Tagging(call) \/ call \in DeleteCall

(* The draft is its writer's, with only messages of its writer added.      *)
DraftFits ==
    /\ draft \in Row \cup {None}
    /\ writer = None => draft = None
    /\ writer # None =>
          /\ writer \in Caller /\ calls[writer].at = "write"
          /\ calls[writer].op \in {"Create", "Set", "Send"}
    /\ \A d \in Caller, i \in Nat : Has(draft, d, i) /\ d # writer => Has(queue, d, i)

Inv ==
    /\ queue \in Row \cup {None}
    /\ created \in Nat
    /\ DraftFits
    /\ calls = [c \in Caller |-> calls[c]]
    /\ \A c \in Caller : CallFits(c, calls[c])

-----------------------------------------------------------------------------

(* A step of c leaves what holds of the calls of others: nobody's draft is *)
(* touched but c's, and nobody's messages are added but c's.               *)
LEMMA OthersFit ==
    ASSUME Inv, NEW c \in Caller, NEW d \in Caller, d # c,
           \/ UNCHANGED <<queue, draft, writer>>
           \/ /\ writer \in {None, c} /\ writer' \in {None, c}
              /\ \A i \in Nat : Has(queue, d, i)' => Has(queue, d, i),
           NEW call, call = calls[d]
    PROVE  CallFits(d, call)'
  <1>1. CallFits(d, call)
    BY DEF Inv
  <1>2. CASE UNCHANGED <<queue, draft, writer>>
    BY <1>1, <1>2 DEF CallFits, Resolving, Creating, Setting, Sending, Tagging,
       SameButMessages, Has
  <1>3. CASE /\ writer \in {None, c} /\ writer' \in {None, c}
             /\ \A i \in Nat : Has(queue, d, i)' => Has(queue, d, i)
    <2>1. writer # d /\ writer' # d
      BY <1>3
    <2>2. Resolving(d, call) => Resolving(d, call)'
      BY <1>3 DEF Resolving
    <2>3. ~ Creating(d, call)
      BY <2>1 DEF Creating
    <2>4. Setting(d, call) => Setting(d, call)'
      BY <2>1 DEF Setting
    <2>5. Sending(d, call) => Sending(d, call)'
      BY <1>3, <2>1 DEF Sending
    <2> QED
      BY <1>1, <2>2, <2>3, <2>4, <2>5 DEF CallFits, Tagging
  <1> QED
    BY <1>2, <1>3

LEMMA OneCall ==
    ASSUME Inv, NEW c \in Caller, NEW next,
           calls' = [calls EXCEPT ![c] = next],
           CallFits(c, next)',
           queue' \in Row \cup {None}, created' \in Nat, DraftFits',
           \/ UNCHANGED <<queue, draft, writer>>
           \/ /\ writer \in {None, c} /\ writer' \in {None, c}
              /\ \A d \in Caller \ {c}, i \in Nat : Has(queue, d, i)' => Has(queue, d, i)
    PROVE  Inv'
  <1>1. calls' = [d \in Caller |-> IF d = c THEN next ELSE calls[d]]
    BY DEF Inv
  <1>2. calls' = [d \in Caller |-> calls'[d]]
    BY <1>1
  <1>3. ASSUME NEW d \in Caller PROVE CallFits(d, calls[d])'
    <2>1. CASE d = c
      <3>1. calls'[d] = next
        BY <1>1, <2>1
      <3> QED
        BY <2>1, <3>1
    <2>2. CASE d # c
      <3>1. PICK call : call = calls[d]
        OBVIOUS
      <3>2. calls'[d] = call
        BY <1>1, <2>2, <3>1
      <3>3. CallFits(d, call)'
        BY <2>2, <3>1, OthersFit
      <3> QED
        BY <3>2, <3>3
    <2> QED
      BY <2>1, <2>2
  <1> QED
    BY <1>2, <1>3 DEF Inv

-----------------------------------------------------------------------------
(* Maps, and the rows they are part of.                                    *)
LEMMA MapsFacts ==
    ASSUME NEW keys, NEW values, NEW map \in Maps(keys, values)
    PROVE  DOMAIN map \subseteq keys /\ map \in [DOMAIN map -> values]
  BY DEF Maps

LEMMA MapIsInMaps ==
    ASSUME NEW keys, NEW values, NEW some \in SUBSET keys, NEW map \in [some -> values]
    PROVE  map \in Maps(keys, values)
  BY DEF Maps

LEMMA EmptyMap ==
    ASSUME NEW keys, NEW values
    PROVE  << >> \in Maps(keys, values) /\ DOMAIN << >> = {}
  <1>1. << >> \in [{} -> values]
    OBVIOUS
  <1> QED
    BY <1>1, MapIsInMaps

LEMMA UpsertInMaps ==
    ASSUME NEW keys, NEW values, NEW map \in Maps(keys, values),
           NEW key \in keys, NEW value \in values
    PROVE  Upsert(map, key, value) \in Maps(keys, values)
  <1>1. DOMAIN map \subseteq keys /\ map \in [DOMAIN map -> values]
    BY MapsFacts
  <1>2. Upsert(map, key, value) \in [DOMAIN map \cup {key} -> values]
    BY <1>1 DEF Upsert
  <1> QED
    BY <1>1, <1>2, MapIsInMaps

LEMMA WithoutInMaps ==
    ASSUME NEW keys, NEW values, NEW map \in Maps(keys, values), NEW key
    PROVE  [k \in DOMAIN map \ {key} |-> map[k]] \in Maps(keys, values)
  <1>1. DOMAIN map \subseteq keys /\ map \in [DOMAIN map -> values]
    BY MapsFacts
  <1>2. [k \in DOMAIN map \ {key} |-> map[k]] \in [DOMAIN map \ {key} -> values]
    BY <1>1
  <1> QED
    BY <1>1, <1>2, MapIsInMaps

(* The values of a request, as a row takes them.                           *)
LEMMA RequestedAttribute ==
    ASSUME NEW attributes, AreAttributes(attributes), NEW name \in DOMAIN attributes
    PROVE  attributes[name] \in Int \cup STRING
  BY DEF AreAttributes

LEMMA RequestedTags ==
    /\ \A create \in Creates : create.tags \in Maps(TagKey, STRING)
    /\ \A tags \in Tags : DOMAIN tags \subseteq TagKey /\ tags \in [DOMAIN tags -> STRING]
  <1>1. ASSUME NEW create \in Creates PROVE create.tags \in Maps(TagKey, STRING)
    <2>1. DOMAIN create.tags \subseteq TagKey
      BY DEF TagKey
    <2>2. create.tags \in [DOMAIN create.tags -> STRING]
      BY DEF AreTags
    <2> QED
      BY <2>1, <2>2, MapIsInMaps
  <1>2. ASSUME NEW tags \in Tags
        PROVE  DOMAIN tags \subseteq TagKey /\ tags \in [DOMAIN tags -> STRING]
    BY DEF TagKey, AreTags
  <1> QED
    BY <1>1, <1>2

LEMMA RowFacts ==
    ASSUME NEW row \in Row
    PROVE  /\ row.id \in Nat /\ row.modified \in Nat
           /\ row.attributes \in Attributes /\ DOMAIN row.attributes \subseteq AttributeName
           /\ row.tags \in Maps(TagKey, STRING)
           /\ row.messages \in SUBSET (Caller \X Nat)
           /\ row # None
  BY MapsFacts DEF Row, Attributes, AttributeName

LEMMA RowWith ==
    ASSUME NEW row \in Row
    PROVE  /\ \A attributes \in Attributes : [row EXCEPT !.attributes = attributes] \in Row
           /\ \A modified \in Nat : [row EXCEPT !.modified = modified] \in Row
           /\ \A tags \in Maps(TagKey, STRING) : [row EXCEPT !.tags = tags] \in Row
           /\ \A messages \in SUBSET (Caller \X Nat) : [row EXCEPT !.messages = messages] \in Row
  BY DEF Row, Attributes, AttributeName

-----------------------------------------------------------------------------
LEMMA InitInv == Init => Inv
  BY DEF Init, Inv, DraftFits, CallFits, NoCall, Has

(* Steps that leave the queue, the draft and the lock alone.               *)
LEMMA Kept ==
    ASSUME Inv, NEW c \in Caller, writer # c, NEW next,
           calls' = [calls EXCEPT ![c] = next], CallFits(c, next)',
           UNCHANGED <<queue, draft, writer, created>>
    PROVE  Inv'
  <1>1. calls' = [d \in Caller |-> IF d = c THEN next ELSE calls[d]]
    BY DEF Inv
  <1>2. DraftFits'
    BY <1>1 DEF Inv, DraftFits, Has
  <1> QED
    BY <1>2, OneCall DEF Inv

(* Steps that end a transaction, or that are one by themselves.            *)
LEMMA Ends ==
    ASSUME Inv, NEW c \in Caller, writer \in {None, c}, NEW next,
           calls' = [calls EXCEPT ![c] = next], CallFits(c, next)',
           writer' = None, draft' = None, created' = created,
           queue' \in Row \cup {None},
           \A d \in Caller \ {c}, i \in Nat : Has(queue, d, i)' => Has(queue, d, i)
    PROVE  Inv'
  <1>1. DraftFits'
    BY DEF DraftFits, Has
  <1> QED
    BY <1>1, OneCall DEF Inv

(* Steps that leave c in the middle of its transaction.                    *)
LEMMA Holds ==
    ASSUME Inv, NEW c \in Caller, writer \in {None, c}, NEW next,
           calls' = [calls EXCEPT ![c] = next], CallFits(c, next)',
           next.at = "write", next.op \in {"Create", "Set", "Send"},
           writer' = c, queue' = queue, created' \in Nat, draft' \in Row \cup {None},
           \A d \in Caller \ {c}, i \in Nat : Has(draft, d, i)' => Has(queue, d, i)
    PROVE  Inv'
  <1>1. calls'[c] = next
    BY DEF Inv
  <1>2. \A d \in Caller, i \in Nat : Has(queue, d, i)' <=> Has(queue, d, i)
    BY DEF Has
  <1>3. writer' # None
    OBVIOUS
  <1>4. DraftFits'
    BY <1>1, <1>2, <1>3 DEF DraftFits
  <1> QED
    BY <1>2, <1>4, OneCall DEF Inv

-----------------------------------------------------------------------------
(* Requests.                                                               *)
LEMMA OkIsValid ==
    ASSUME NEW attributes, NEW write, "Ok" \in FromRequest(attributes, write)
    PROVE  Valid(attributes)
  <1> DEFINE Fault(name) ==
            CASE name \notin Settable \cup (IF Fifo THEN FifoAttributes ELSE {})
                    -> "InvalidAttributeName"
              [] name = "FifoQueue" /\ write = "Set" -> "InvalidAttributeValue"
              [] name \in Typed /\ ~ Validate(name, attributes[name])
                    -> "InvalidAttributeValue"
              [] OTHER -> "Ok"
             faults == {Fault(name) : name \in DOMAIN attributes} \ {"Ok"}
  <1>1. FromRequest(attributes, write) = IF faults = {} THEN {"Ok"} ELSE faults
    BY DEF FromRequest
  <1>2. faults = {}
    BY <1>1
  <1>3. ASSUME NEW name \in DOMAIN attributes
        PROVE  name \in AttributeName /\ (name \in Typed => Validate(name, attributes[name]))
    <2>1. Fault(name) = "Ok"
      BY <1>2
    <2>2. /\ name \in Settable \cup (IF Fifo THEN FifoAttributes ELSE {})
          /\ ~ (name \in Typed /\ ~ Validate(name, attributes[name]))
      BY <2>1
    <2> QED
      BY <2>2 DEF AttributeName
  <1> QED
    BY <1>3 DEF Valid

LEMMA OkIsDistinct ==
    ASSUME NEW entries \in Seq(Entry), CheckBatch(entries) = "Ok"
    PROVE  DistinctIds(entries)
  <1> DEFINE ids == {entries[i].id : i \in DOMAIN entries}
             id == [i \in DOMAIN entries |-> entries[i].id]
  <1>1. Cardinality(ids) = Len(entries)
    BY DEF CheckBatch
  <1>2. DOMAIN entries = 1 .. Len(entries) /\ Len(entries) \in Nat
    OBVIOUS
  <1>3. IsFiniteSet(DOMAIN entries) /\ Cardinality(DOMAIN entries) = Len(entries)
    BY <1>2, FS_Interval
  <1>4. id \in Surjection(DOMAIN entries, ids)
    BY DEF Surjection
  <1>5. IsFiniteSet(ids)
    BY <1>3, <1>4, FS_Surjection
  <1>6. id \in Injection(DOMAIN entries, ids)
    BY <1>1, <1>3, <1>4, <1>5, FS_SurjSameCardinalityImpliesInj
  <1> QED
    BY <1>6 DEF Injection, IsInjective, DistinctIds

LEMMA ValidStart ==
    ASSUME Inv, NEW c \in Caller, NEW op, NEW request, NEW checks,
           calls[c].at \in {"idle", "answered"},
           Start(c, op, request, checks), UNCHANGED <<queue, draft, writer, created>>,
           op \in {"Create", "Set", "Tag", "Untag", "Send", "Delete"},
           op = "Create" => request \in Creates,
           op = "Set" => request \in Sets,
           op \in {"Tag", "Untag"} => request \in Tags,
           op = "Send" => request \in Batches /\ (\A i \in Nat : ~ Has(queue, c, i)),
           op = "Delete" => request = None,
           "Ok" \in checks =>
                /\ op = "Create" => Valid(request.attributes)
                /\ op = "Set" => Valid(request)
                /\ op = "Send" /\ request.batch => DistinctIds(request.entries)
    PROVE  Inv'
  <1>1. writer # c
    BY DEF Inv, DraftFits
  <1>2. PICK check \in checks :
            calls' = [calls EXCEPT ![c] =
                IF check # "Ok" THEN [at |-> "answered", answer |-> check]
                ELSE IF op # "Send" /\ c \notin Managers
                THEN [at |-> "answered", answer |-> "Forbidden"]
                ELSE [at |-> IF op = "Create" THEN "insert" ELSE "resolve",
                      op |-> op, request |-> request]]
    BY DEF Start
  <1>3. ASSUME NEW answer, calls' = [calls EXCEPT ![c] = [at |-> "answered", answer |-> answer]]
        PROVE  Inv'
    <2>1. CallFits(c, [at |-> "answered", answer |-> answer])'
      BY DEF CallFits
    <2> QED
      BY <1>1, <1>3, <2>1, Kept
  <1>4. ASSUME "Ok" \in checks, op = "Create",
               calls' = [calls EXCEPT ![c] =
                            [at |-> "insert", op |-> op, request |-> request]]
        PROVE  Inv'
    <2>1. CallFits(c, [at |-> "insert", op |-> op, request |-> request])'
      BY <1>4 DEF CallFits, InsertCall
    <2> QED
      BY <1>1, <1>4, <2>1, Kept
  <1>5. ASSUME "Ok" \in checks, op # "Create",
               calls' = [calls EXCEPT ![c] =
                            [at |-> "resolve", op |-> op, request |-> request]]
        PROVE  Inv'
    <2> DEFINE next == [at |-> "resolve", op |-> op, request |-> request]
    <2>1. next \in ResolveCall
      BY <1>5 DEF ResolveCall
    <2>2. next.at = "resolve" /\ next.op = op /\ next.request = request
      OBVIOUS
    <2>3. calls' = [calls EXCEPT ![c] = next]
      BY <1>5
    <2> HIDE DEF next
    <2>4. Resolving(c, next)'
      BY <1>5, <2>1, <2>2 DEF Resolving, Has
    <2>5. CallFits(c, next)'
      BY <2>2, <2>4 DEF CallFits
    <2> QED
      BY <1>1, <2>3, <2>5, Kept
  <1> QED
    BY <1>2, <1>3, <1>4, <1>5

LEMMA BeginInv == ASSUME Inv, NEW c \in Caller, Begin(c) PROVE Inv'
  <1>1. calls[c].at \in {"idle", "answered"} /\ UNCHANGED <<queue, draft, writer, created>>
    BY DEF Begin
  <1>2. CASE RequestCreate(c)
    <2>1. PICK request \in Creates :
            Start(c, "Create", request,
                  IF FromRequest(request.attributes, "Create") # {"Ok"}
                  THEN FromRequest(request.attributes, "Create")
                  ELSE {CheckTags(request.tags)})
      BY <1>2 DEF RequestCreate
    <2>2. "Ok" \in (IF FromRequest(request.attributes, "Create") # {"Ok"}
                    THEN FromRequest(request.attributes, "Create")
                    ELSE {CheckTags(request.tags)}) => Valid(request.attributes)
      BY OkIsValid
    <2> QED
      BY <1>1, <2>1, <2>2, ValidStart
  <1>3. CASE RequestSet(c)
    <2>1. PICK request \in Sets : Start(c, "Set", request, FromRequest(request, "Set"))
      BY <1>3 DEF RequestSet
    <2> QED
      BY <1>1, <2>1, OkIsValid, ValidStart
  <1>4. CASE RequestTags(c)
    <2>1. PICK request \in Tags :
            \/ Start(c, "Tag", request, {CheckTags(request)})
            \/ Start(c, "Untag", request, {"Ok"})
      BY <1>4 DEF RequestTags
    <2>2. CASE Start(c, "Tag", request, {CheckTags(request)})
      BY <1>1, <2>2, ValidStart
    <2>3. CASE Start(c, "Untag", request, {"Ok"})
      BY <1>1, <2>3, ValidStart
    <2> QED
      BY <2>1, <2>2, <2>3
  <1>5. CASE RequestSend(c)
    <2>1. PICK request \in Batches :
            /\ queue # None => \A message \in queue.messages : message[1] # c
            /\ Start(c, "Send", request,
                     IF request.batch THEN {CheckBatch(request.entries)} ELSE {"Ok"})
      BY <1>5 DEF RequestSend
    <2>2. \A i \in Nat : ~ Has(queue, c, i)
      BY <2>1 DEF Has
    <2>3. "Ok" \in (IF request.batch THEN {CheckBatch(request.entries)} ELSE {"Ok"})
            => (request.batch => DistinctIds(request.entries))
      BY OkIsDistinct
    <2> QED
      BY <1>1, <2>1, <2>2, <2>3, ValidStart
  <1>6. CASE Start(c, "Delete", None, {"Ok"})
    BY <1>1, <1>6, ValidStart
  <1> QED
    BY <1>2, <1>3, <1>4, <1>5, <1>6 DEF Begin

-----------------------------------------------------------------------------
LEMMA ResolveInv == ASSUME Inv, NEW c \in Caller, Resolve(c) PROVE Inv'
  <1>1. PICK call : call = calls[c]
    OBVIOUS
  <1>2. Resolving(c, call) /\ call.at = "resolve"
    BY <1>1 DEF Inv, CallFits, Resolve
  <1>3. writer # c /\ UNCHANGED <<queue, draft, writer, created>>
    BY <1>1, <1>2 DEF Inv, DraftFits, Resolve
  <1>4. ASSUME NEW answer, Answer(c, answer) PROVE Inv'
    <2>1. CallFits(c, [at |-> "answered", answer |-> answer])'
      BY DEF CallFits
    <2> QED
      BY <1>3, <1>4, <2>1, Kept DEF Answer
  <1>5. CASE queue # None /\ \A answer : ~ Answer(c, answer)
    <2>1. PICK next : next =
            [at |-> "write", op |-> call.op, request |-> call.request, id |-> queue.id,
             left |-> CASE call.op \in {"Set", "Tag", "Untag"} -> DOMAIN call.request
                        [] call.op = "Send" -> DOMAIN call.request.entries
                        [] OTHER -> {},
             outcome |-> << >>]
      OBVIOUS
    <2>2. calls' = [calls EXCEPT ![c] = next]
      BY <1>1, <1>5, <2>1 DEF Resolve
    <2>3. queue.id \in Nat
      BY <1>5, RowFacts DEF Inv
    <2>4. /\ next.at = "write" /\ next.op = call.op /\ next.request = call.request
          /\ next.id = queue.id /\ next.outcome = << >>
          /\ call.op \in {"Set", "Tag", "Untag"} => next.left = DOMAIN call.request
          /\ call.op = "Send" => next.left = DOMAIN call.request.entries
          /\ call.op = "Delete" => next.left = {}
      BY <2>1
    <2>5. next = [at |-> next.at, op |-> next.op, request |-> next.request, id |-> next.id,
                  left |-> next.left, outcome |-> next.outcome]
      BY <2>1
    <2>6. CASE call.op = "Set"
      <3>1. call.request \in Sets /\ Valid(call.request)
        BY <1>2, <2>6 DEF Resolving, ResolveCall
      <3>2. next.left \subseteq AttributeName
        BY <2>4, <2>6, <3>1 DEF Valid
      <3>3. next \in SetCall
        BY <2>3, <2>4, <2>5, <2>6, <3>1, <3>2 DEF SetCall
      <3>4. Setting(c, next)'
        BY <1>3, <2>4, <2>6, <3>1, <3>3 DEF Setting
      <3> QED
        BY <1>3, <2>2, <2>4, <3>4, Kept DEF CallFits
    <2>7. CASE call.op \in {"Tag", "Untag"}
      <3>1. call.request \in Tags
        BY <1>2, <2>7 DEF Resolving, ResolveCall
      <3>2. next.left \subseteq TagKey
        BY <2>4, <2>7, <3>1, RequestedTags
      <3>3. next \in TagCall
        BY <2>3, <2>4, <2>5, <2>7, <3>1, <3>2 DEF TagCall
      <3> QED
        BY <1>3, <2>2, <2>4, <2>7, <3>3, Kept DEF CallFits, Tagging
    <2>8. CASE call.op = "Send"
      <3>1. /\ call.request \in Batches
            /\ call.request.batch => DistinctIds(call.request.entries)
            /\ \A i \in Nat : ~ Has(queue, c, i)
        BY <1>2, <2>8 DEF Resolving, ResolveCall
      <3>2. /\ call.request.entries \in Seq(Entry)
            /\ Len(call.request.entries) \in Nat
            /\ DOMAIN call.request.entries = 1 .. Len(call.request.entries)
        BY <3>1
      <3>3. next.left = 1 .. Len(call.request.entries) /\ next.left \subseteq Nat
        BY <2>4, <2>8, <3>2
      <3>4. next.outcome \in Seq(Verdict) /\ Len(next.outcome) = 0
        BY <2>4
      <3>5. next \in SendCall
        BY <2>3, <2>4, <2>5, <2>8, <3>1, <3>3, <3>4 DEF SendCall
      <3>6. \A i \in Nat : ~ Has(queue, c, i)'
        BY <1>3, <3>1 DEF Has
      <3>7. Sending(c, next)'
        BY <1>3, <2>4, <3>1, <3>2, <3>3, <3>4, <3>5, <3>6 DEF Sending
      <3> QED
        BY <1>3, <2>2, <2>4, <3>7, Kept DEF CallFits
    <2>9. CASE call.op = "Delete"
      <3>1. call.request = None
        BY <1>2, <2>9 DEF Resolving, ResolveCall
      <3>2. next \in DeleteCall
        BY <2>3, <2>4, <2>5, <2>9, <3>1 DEF DeleteCall
      <3> QED
        BY <1>3, <2>2, <2>4, <3>2, Kept DEF CallFits
    <2> QED
      BY <1>2, <2>6, <2>7, <2>8, <2>9 DEF Resolving, ResolveCall
  <1>6. CASE queue = None /\ \A answer : ~ Answer(c, answer)
    BY <1>6 DEF Resolve
  <1> QED
    BY <1>4, <1>5, <1>6

LEMMA InsertInv == ASSUME Inv, NEW c \in Caller, Insert(c) PROVE Inv'
  <1>1. PICK call : call = calls[c]
    OBVIOUS
  <1>2. call \in InsertCall /\ Valid(call.request.attributes) /\ call.at = "insert"
    BY <1>1 DEF Inv, CallFits, Insert
  <1>3. writer = None /\ writer # c /\ queue' = queue
    BY DEF Insert
  <1>4. ASSUME NEW answer, Answer(c, answer), UNCHANGED <<draft, writer, created>> PROVE Inv'
    <2>1. CallFits(c, [at |-> "answered", answer |-> answer])'
      BY DEF CallFits
    <2> QED
      BY <1>3, <1>4, <2>1, Kept DEF Answer
  <1>5. CASE queue # None
    BY <1>4, <1>5 DEF Insert
  <1>6. CASE queue = None
    <2>1. PICK next : next = [at |-> "write", op |-> "Create", request |-> call.request,
                        id |-> created + 1, left |-> DOMAIN call.request.attributes]
      OBVIOUS
    <2>2. PICK row : row = [id |-> created + 1, attributes |-> << >>, modified |-> 0,
                       tags |-> << >>, messages |-> {}]
      OBVIOUS
    <2>3. /\ created' = created + 1 /\ writer' = c /\ draft' = row
          /\ calls' = [calls EXCEPT ![c] = next]
      BY <1>1, <1>6, <2>1, <2>2 DEF Insert
    <2>4. created \in Nat
      BY DEF Inv
    <2>5. << >> \in Attributes /\ << >> \in Maps(TagKey, STRING) /\ DOMAIN << >> = {}
      BY EmptyMap DEF Attributes
    <2>6. row \in Row
      BY <2>4, <2>5, <2>2 DEF Row, Attributes, AttributeName
    <2>7. call.request \in Creates /\ DOMAIN call.request.attributes \subseteq AttributeName
      BY <1>2 DEF InsertCall, Valid
    <2>8. next \in CreateCall
      BY <2>4, <2>7, <2>1 DEF CreateCall
    <2>9. AreOver(row.attributes, call.request.attributes, {}, << >>)
      BY <2>5, <2>2 DEF AreOver
    <2>10. /\ next.at = "write" /\ next.op = "Create" /\ next.request = call.request
          /\ next.left = DOMAIN call.request.attributes /\ next.id = row.id
      BY <2>1, <2>2
    <2>11. \A d, i : ~ (row # None /\ <<d, i>> \in row.messages)
      BY <2>2
    <2>12. Creating(c, next)'
      <3>1. DOMAIN next.request.attributes \ next.left = {}
        BY <2>10
      <3> QED
        BY <1>2, <1>3, <1>6, <2>3, <2>6, <2>8, <2>9, <2>10, <3>1 DEF Creating
    <2>13. CallFits(c, next)'
      BY <2>10, <2>12 DEF CallFits
    <2>14. created' \in Nat
      BY <2>3, <2>4
    <2>15. \A d \in Caller \ {c}, i \in Nat : Has(draft, d, i)' => Has(queue, d, i)
      BY <2>3, <2>11 DEF Has
    <2> QED
      BY <1>3, <2>3, <2>6, <2>10, <2>13, <2>14, <2>15, Holds
  <1> QED
    BY <1>5, <1>6

-----------------------------------------------------------------------------
LEMMA WritingCall ==
    ASSUME Inv, NEW c \in Caller, CanWrite(c), NEW call, call = calls[c]
    PROVE  /\ writer \in {None, c}
           /\ call.op = "Create" => Creating(c, call)
           /\ call.op = "Set" => Setting(c, call)
           /\ call.op = "Send" => Sending(c, call)
           /\ call.op \in {"Tag", "Untag"} => Tagging(call) /\ writer = None
           /\ call.op = "Delete" => call \in DeleteCall /\ writer = None
  <1>1. CallFits(c, call) /\ call.at = "write" /\ writer \in {None, c}
    BY DEF Inv, CanWrite
  <1>2. call.op \in {"Tag", "Untag", "Delete"} => writer = None
    BY <1>1 DEF Inv, DraftFits
  <1>3. /\ Creating(c, call) => call.op = "Create"
        /\ Setting(c, call) => call.op = "Set"
        /\ Sending(c, call) => call.op = "Send"
        /\ Tagging(call) => call.op \in {"Tag", "Untag"}
        /\ call \in DeleteCall => call.op = "Delete"
    BY DEF Creating, CreateCall, Setting, SetCall, Sending, SendCall, Tagging, TagCall,
       DeleteCall
  <1> QED
    BY <1>1, <1>2, <1>3 DEF CallFits

(* One more of the attributes.                                             *)
LEMMA OverWithOneMore ==
    ASSUME NEW attributes, NEW values, NEW names, NEW base, NEW name,
           AreOver(attributes, values, names, base)
    PROVE  AreOver(Upsert(attributes, name, values[name]), values, names \cup {name}, base)
  BY DEF AreOver, Upsert

LEMMA StoreAttributeStep ==
    ASSUME Inv, NEW c \in Caller, NEW name, NEW attributes, NEW base, base = Base(c),
           StoreAttribute(c, name, attributes), base \in Row,
           AreAttributes(attributes), Valid(attributes), name \in DOMAIN attributes,
           NEW call, call = calls[c]
    PROVE  /\ writer' = c /\ queue' = queue
           /\ calls' = [calls EXCEPT ![c] = [call EXCEPT !.left = call.left \ {name}]]
           /\ draft' = [base EXCEPT !.attributes = Upsert(base.attributes, name, attributes[name])]
           /\ draft' \in Row
           /\ draft'.id = base.id /\ draft'.modified = base.modified
           /\ draft'.messages = base.messages
           /\ draft'.attributes = Upsert(base.attributes, name, attributes[name])
  <1>1. draft' = [base EXCEPT !.attributes = Upsert(base.attributes, name, attributes[name])]
    BY DEF StoreAttribute
  <1>2. name \in AttributeName /\ attributes[name] \in Int \cup STRING
    BY RequestedAttribute DEF Valid
  <1>3. base.attributes \in Attributes
    BY RowFacts
  <1>4. Upsert(base.attributes, name, attributes[name]) \in Attributes
    BY <1>2, <1>3, UpsertInMaps DEF Attributes
  <1>5. draft' \in Row
    BY <1>1, <1>4, RowWith
  <1>6. /\ draft'.id = base.id /\ draft'.modified = base.modified
        /\ draft'.messages = base.messages
        /\ draft'.attributes = Upsert(base.attributes, name, attributes[name])
    BY <1>1 DEF Row
  <1> QED
    BY <1>1, <1>5, <1>6 DEF StoreAttribute

LEMMA RollbackInv ==
    ASSUME Inv, NEW c \in Caller, writer \in {None, c}, created' = created,
           NEW answer, Rollback(c, answer)
    PROVE  Inv'
  <1>1. CallFits(c, [at |-> "answered", answer |-> answer])'
    BY DEF CallFits
  <1>2. /\ writer' = None /\ draft' = None /\ queue' = queue
        /\ calls' = [calls EXCEPT ![c] = [at |-> "answered", answer |-> answer]]
    BY DEF Rollback, Answer
  <1>3. queue' \in Row \cup {None}
    BY <1>2 DEF Inv
  <1>4. \A d \in Caller \ {c}, i \in Nat : Has(queue, d, i)' => Has(queue, d, i)
    BY <1>2 DEF Has
  <1> QED
    BY <1>1, <1>2, <1>3, <1>4, Ends

(* What c commits is a row, with no message of another caller but those    *)
(* that were there.                                                        *)
LEMMA CommitInv ==
    ASSUME Inv, NEW c \in Caller, writer \in {None, c}, created' = created,
           NEW answer, Answer(c, answer), writer' = None, draft' = None,
           queue' \in Row \cup {None},
           \A d \in Caller \ {c}, i \in Nat : Has(queue, d, i)' => Has(Base(c), d, i)
    PROVE  Inv'
  <1>1. CallFits(c, [at |-> "answered", answer |-> answer])'
    BY DEF CallFits
  <1>2. calls' = [calls EXCEPT ![c] = [at |-> "answered", answer |-> answer]]
    BY DEF Answer
  <1>3. \A d \in Caller \ {c}, i \in Nat : Has(queue, d, i)' => Has(queue, d, i)
    BY DEF Inv, DraftFits, Base
  <1> QED
    BY <1>1, <1>2, <1>3, Ends

LEMMA CreateInv == ASSUME Inv, NEW c \in Caller, Create(c) PROVE Inv'
  <1>1. PICK call : call = calls[c]
    OBVIOUS
  <1>2. call.op = "Create" /\ created' = created /\ CanWrite(c)
    BY <1>1 DEF Create
  <1>3. Creating(c, call)
    BY <1>1, <1>2, WritingCall
  <1>4. /\ writer = c /\ queue = None /\ Base(c) = draft /\ draft \in Row
        /\ call \in CreateCall /\ call.request \in Creates
        /\ Valid(call.request.attributes) /\ AreAttributes(call.request.attributes)
        /\ call.left \subseteq DOMAIN call.request.attributes
    BY <1>3 DEF Creating, Base, CreateCall
  <1>5. \A d \in Caller \ {c}, i \in Nat : ~ Has(draft, d, i)
    BY <1>4 DEF Inv, DraftFits, Has
  <1>6. ASSUME NEW name \in call.left, StoreAttribute(c, name, call.request.attributes)
        PROVE  Inv'
    <2>1. PICK row : row = draft
      OBVIOUS
    <2>2. PICK next : next = [call EXCEPT !.left = call.left \ {name}]
      OBVIOUS
    <2>3. /\ writer' = c /\ queue' = queue
          /\ calls' = [calls EXCEPT ![c] = next]
          /\ draft' \in Row
          /\ draft'.id = row.id
          /\ draft'.messages = row.messages
          /\ draft'.attributes =
                Upsert(row.attributes, name, call.request.attributes[name])
      BY <1>1, <1>4, <1>6, <2>1, <2>2, StoreAttributeStep
    <2>4. /\ next \in CreateCall /\ next.at = "write" /\ next.op = "Create"
          /\ next.request = call.request /\ next.id = call.id
          /\ next.left = call.left \ {name}
      BY <1>4, <2>2 DEF CreateCall
    <2>5. AreOver(row.attributes, call.request.attributes,
                  DOMAIN call.request.attributes \ call.left, << >>)
      BY <1>3, <2>1 DEF Creating
    <2>6. (DOMAIN call.request.attributes \ call.left) \cup {name}
            = DOMAIN next.request.attributes \ next.left
      BY <1>4, <1>6, <2>4
    <2>7. AreOver(Upsert(row.attributes, name, call.request.attributes[name]),
                  call.request.attributes,
                  (DOMAIN call.request.attributes \ call.left) \cup {name}, << >>)
      BY <2>5, OverWithOneMore
    <2>8. AreOver(draft'.attributes, next.request.attributes,
                  DOMAIN next.request.attributes \ next.left, << >>)
      BY <2>3, <2>4, <2>6, <2>7
    <2>9. row.id = call.id
      BY <1>3, <2>1 DEF Creating
    <2>10. Creating(c, next)'
      BY <1>4, <2>3, <2>4, <2>8, <2>9 DEF Creating
    <2>11. CallFits(c, next)'
      BY <2>4, <2>10 DEF CallFits
    <2>12. \A d \in Caller \ {c}, i \in Nat : Has(draft, d, i)' => Has(queue, d, i)
      BY <1>4, <1>5, <2>1, <2>3, RowFacts DEF Has
    <2>13. created' \in Nat /\ draft' \in Row \cup {None}
      BY <1>2, <2>3 DEF Inv
    <2> QED
      BY <1>4, <2>3, <2>4, <2>11, <2>12, <2>13, Holds
  <1>7. ASSUME queue' = [Base(c) EXCEPT !.tags = call.request.tags],
               writer' = None, draft' = None, Answer(c, "Ok")
        PROVE  Inv'
    <2>1. call.request.tags \in Maps(TagKey, STRING)
      BY <1>4, RequestedTags
    <2>2. queue' = [draft EXCEPT !.tags = call.request.tags]
      BY <1>4, <1>7
    <2>3. queue' \in Row /\ queue'.messages = draft.messages
      BY <1>4, <2>1, <2>2, RowWith DEF Row
    <2>4. \A d \in Caller \ {c}, i \in Nat : Has(queue, d, i)' => Has(Base(c), d, i)
      BY <1>4, <1>5, <2>3, RowFacts DEF Has
    <2> QED
      BY <1>2, <1>4, <1>7, <2>3, <2>4, CommitInv
  <1>8. CASE Rollback(c, "InternalError")
    BY <1>2, <1>4, <1>8, RollbackInv
  <1> QED
    BY <1>1, <1>6, <1>7, <1>8 DEF Create

LEMMA SetAttributesInv == ASSUME Inv, NEW c \in Caller, SetAttributes(c) PROVE Inv'
  <1>1. PICK call : call = calls[c]
    OBVIOUS
  <1>2. call.op = "Set" /\ created' = created /\ CanWrite(c)
    BY <1>1 DEF SetAttributes
  <1>3. Setting(c, call) /\ writer \in {None, c}
    BY <1>1, <1>2, WritingCall
  <1>4. PICK base : base = Base(c)
    OBVIOUS
  <1>5. base \in Row \cup {None}
    BY <1>4 DEF Inv, DraftFits, Base
  <1>6. \A d \in Caller \ {c}, i \in Nat :
            (base # None /\ <<d, i>> \in base.messages) => Has(queue, d, i)
    BY <1>4 DEF Inv, DraftFits, Base, Has
  <1>7. /\ call \in SetCall /\ call.request \in Sets
        /\ Valid(call.request) /\ AreAttributes(call.request)
        /\ call.left \subseteq DOMAIN call.request
    BY <1>3 DEF Setting, SetCall
  <1>8. ASSUME ~ Gone(c), NEW name \in call.left, StoreAttribute(c, name, call.request)
        PROVE  Inv'
    <2>1. base \in Row /\ base.id = call.id
      BY <1>1, <1>4, <1>5, <1>8 DEF Gone, Present
    <2>2. PICK next : next = [call EXCEPT !.left = call.left \ {name}]
      OBVIOUS
    <2>3. /\ writer' = c /\ queue' = queue
          /\ calls' = [calls EXCEPT ![c] = next]
          /\ draft' \in Row
          /\ draft'.id = base.id /\ draft'.modified = base.modified
          /\ draft'.messages = base.messages
          /\ draft'.attributes = Upsert(base.attributes, name, call.request[name])
      BY <1>1, <1>4, <1>7, <1>8, <2>1, <2>2, StoreAttributeStep
    <2>4. /\ next \in SetCall /\ next.at = "write" /\ next.op = "Set"
          /\ next.request = call.request /\ next.id = call.id
          /\ next.left = call.left \ {name}
      BY <1>7, <2>2 DEF SetCall
    <2>5. /\ queue \in Row
          /\ base.id = queue.id /\ base.modified = queue.modified
          /\ AreOver(base.attributes, call.request,
                     DOMAIN call.request \ call.left, queue.attributes)
      <3>1. CASE writer = c
        BY <1>3, <1>4, <3>1 DEF Setting, Base
      <3>2. CASE writer # c
        <4>1. base = queue /\ DOMAIN call.request \ call.left = {}
          BY <1>3, <1>4, <3>2 DEF Setting, Base
        <4> QED
          BY <2>1, <4>1 DEF AreOver
      <3> QED
        BY <3>1, <3>2
    <2>6. (DOMAIN call.request \ call.left) \cup {name}
            = DOMAIN next.request \ next.left
      BY <1>7, <1>8, <2>4
    <2>7. AreOver(Upsert(base.attributes, name, call.request[name]), call.request,
                  (DOMAIN call.request \ call.left) \cup {name}, queue.attributes)
      BY <2>5, OverWithOneMore
    <2>8. AreOver(draft'.attributes, next.request,
                  DOMAIN next.request \ next.left, queue'.attributes)
      BY <2>3, <2>4, <2>6, <2>7
    <2>9. Setting(c, next)'
      BY <1>7, <1>8, <2>1, <2>3, <2>4, <2>5, <2>8 DEF Setting
    <2>10. CallFits(c, next)'
      BY <2>4, <2>9 DEF CallFits
    <2>11. \A d \in Caller \ {c}, i \in Nat : Has(draft, d, i)' => Has(queue, d, i)
      BY <1>6, <2>1, <2>3, RowFacts DEF Has
    <2>12. created' \in Nat /\ draft' \in Row \cup {None}
      BY <1>2, <2>3 DEF Inv
    <2> QED
      BY <1>3, <2>3, <2>4, <2>10, <2>11, <2>12, Holds
  <1>9. CASE Rollback(c, "InternalError")
    BY <1>2, <1>3, <1>9, RollbackInv
  <1>10. CASE Commit(c, "Ok")
    <2>1. queue' = base /\ Answer(c, "Ok") /\ writer' = None /\ draft' = None
      BY <1>4, <1>10 DEF Commit
    <2>2. \A d \in Caller \ {c}, i \in Nat : Has(queue, d, i)' => Has(Base(c), d, i)
      BY <1>4, <2>1 DEF Has
    <2> QED
      BY <1>2, <1>3, <1>5, <2>1, <2>2, CommitInv
  <1>11. ASSUME ~ Gone(c), queue' = [Base(c) EXCEPT !.modified = @ + 1],
                writer' = None, draft' = None, Answer(c, "Ok")
         PROVE  Inv'
    <2>1. base \in Row /\ base.modified + 1 \in Nat
      BY <1>4, <1>5, <1>11, RowFacts DEF Gone, Present
    <2>2. queue' = [base EXCEPT !.modified = base.modified + 1]
      BY <1>4, <1>11
    <2>3. queue' \in Row /\ queue'.messages = base.messages
      BY <2>1, <2>2, RowWith DEF Row
    <2>4. \A d \in Caller \ {c}, i \in Nat : Has(queue, d, i)' => Has(Base(c), d, i)
      BY <1>4, <2>1, <2>3, RowFacts DEF Has
    <2> QED
      BY <1>2, <1>3, <1>11, <2>3, <2>4, CommitInv
  <1> QED
    BY <1>1, <1>8, <1>9, <1>10, <1>11 DEF SetAttributes

LEMMA TagInv == ASSUME Inv, NEW c \in Caller, Tag(c) PROVE Inv'
  <1>1. PICK call : call = calls[c]
    OBVIOUS
  <1>2. call.op \in {"Tag", "Untag"} /\ CanWrite(c) /\ UNCHANGED <<draft, writer, created>>
    BY <1>1 DEF Tag
  <1>3. /\ call \in TagCall /\ call.left \subseteq DOMAIN call.request /\ call.at = "write"
        /\ writer = None /\ draft = None
    BY <1>1, <1>2, WritingCall DEF Inv, DraftFits, CanWrite, Tagging
  <1>4. /\ Base(c) = queue /\ queue \in Row \cup {None}
        /\ call.request \in Tags /\ call.left \subseteq TagKey
    BY <1>3 DEF Inv, Base, TagCall
  <1>5. ASSUME NEW answer, Answer(c, answer), queue' = queue PROVE Inv'
    <2>1. \A d \in Caller \ {c}, i \in Nat : Has(queue, d, i)' => Has(Base(c), d, i)
      BY <1>4, <1>5 DEF Has
    <2> QED
      BY <1>2, <1>3, <1>4, <1>5, <2>1, CommitInv
  <1>6. ASSUME NEW key \in call.left,
               calls' = [calls EXCEPT ![c].left = @ \ {key}],
               queue' \in Row \cup {None},
               queue' # None => queue # None /\ queue'.messages = queue.messages
        PROVE  Inv'
    <2>1. PICK next : next = [call EXCEPT !.left = call.left \ {key}]
      OBVIOUS
    <2>2. calls' = [calls EXCEPT ![c] = next]
      BY <1>1, <1>6, <2>1
    <2>3. next \in TagCall /\ next.at = "write" /\ next.left \subseteq DOMAIN next.request
      BY <1>3, <2>1 DEF TagCall
    <2>4. CallFits(c, next)'
      BY <2>3 DEF CallFits, Tagging
    <2>5. \A d \in Caller \ {c}, i \in Nat : Has(queue, d, i)' => Has(queue, d, i)
      BY <1>6 DEF Has
    <2> QED
      BY <1>2, <1>3, <1>6, <2>2, <2>4, <2>5, Ends
  <1>7. ASSUME NEW key \in call.left, ~ Gone(c),
               queue' = [queue EXCEPT !.tags = Upsert(@, key, call.request[key])],
               calls' = [calls EXCEPT ![c].left = @ \ {key}]
        PROVE  Inv'
    <2>1. queue \in Row /\ queue.tags \in Maps(TagKey, STRING)
      BY <1>4, <1>7, RowFacts DEF Gone, Present
    <2>2. call.request[key] \in STRING
      BY <1>3, <1>4, <1>7, RequestedTags
    <2>3. Upsert(queue.tags, key, call.request[key]) \in Maps(TagKey, STRING)
      BY <1>4, <2>1, <2>2, UpsertInMaps
    <2>4. queue' = [queue EXCEPT !.tags = Upsert(queue.tags, key, call.request[key])]
      BY <1>7
    <2>5. queue' \in Row /\ queue'.messages = queue.messages /\ queue # None
      BY <2>1, <2>3, <2>4, RowWith, RowFacts DEF Row
    <2> QED
      BY <1>6, <1>7, <2>5
  <1>8. ASSUME NEW key \in call.left,
               queue' = IF Gone(c) THEN queue
                        ELSE [queue EXCEPT !.tags = [k \in DOMAIN @ \ {key} |-> @[k]]],
               calls' = [calls EXCEPT ![c].left = @ \ {key}]
        PROVE  Inv'
    <2>1. CASE Gone(c)
      BY <1>4, <1>6, <1>8, <2>1
    <2>2. CASE ~ Gone(c)
      <3>1. queue \in Row /\ queue.tags \in Maps(TagKey, STRING)
        BY <1>4, <2>2, RowFacts DEF Gone, Present
      <3>2. [k \in DOMAIN queue.tags \ {key} |-> queue.tags[k]] \in Maps(TagKey, STRING)
        BY <3>1, WithoutInMaps
      <3>3. queue' = [queue EXCEPT !.tags = [k \in DOMAIN queue.tags \ {key} |-> queue.tags[k]]]
        BY <1>8, <2>2
      <3>4. queue' \in Row /\ queue'.messages = queue.messages /\ queue # None
        BY <3>1, <3>2, <3>3, RowWith, RowFacts DEF Row
      <3> QED
        BY <1>6, <1>8, <3>4
    <2> QED
      BY <2>1, <2>2
  <1> QED
    BY <1>1, <1>5, <1>7, <1>8 DEF Tag

LEMMA DeleteQueueInv == ASSUME Inv, NEW c \in Caller, DeleteQueue(c) PROVE Inv'
  <1>1. PICK call : call = calls[c]
    OBVIOUS
  <1>2. call.op = "Delete" /\ CanWrite(c) /\ UNCHANGED <<draft, writer, created>>
    BY <1>1 DEF DeleteQueue
  <1>3. writer = None /\ draft = None /\ Base(c) = queue
    BY <1>1, <1>2, WritingCall DEF Inv, DraftFits, Base
  <1>4. queue' \in {queue, None} /\ Answer(c, "Ok")
    BY DEF DeleteQueue
  <1>5. queue' \in Row \cup {None}
    BY <1>4 DEF Inv
  <1>6. \A d \in Caller \ {c}, i \in Nat : Has(queue, d, i)' => Has(Base(c), d, i)
    BY <1>3, <1>4 DEF Has
  <1> QED
    BY <1>2, <1>3, <1>4, <1>5, <1>6, CommitInv

(* An entry is answered as sent when its message is in the draft, and as   *)
(* the sender's fault only when it is not.                                 *)
LEMMA OutcomeIsVerdict ==
    ASSUME Inv, NEW c \in Caller, NEW entry, NEW outcome \in Outcomes(c, entry)
    PROVE  /\ outcome \in Verdict
           /\ CheckMessage(entry) # "Ok" => outcome = CheckMessage(entry) /\ outcome # "InternalError"
           /\ outcome = "Ok" => Present(c)
  <1>1. CheckMessage(entry) \in Verdict \ {"InternalError"}
    BY DEF CheckMessage, Verdict
  <1> QED
    BY <1>1 DEF Outcomes, Gone, Verdict

LEMMA SendEntryInv == ASSUME Inv, NEW c \in Caller, SendEntry(c) PROVE Inv'
  <1>1. PICK call : call = calls[c]
    OBVIOUS
  <1>2. call.op = "Send" /\ created' = created /\ CanWrite(c) /\ call.left # {}
    BY <1>1 DEF SendEntry
  <1>3. Sending(c, call) /\ writer \in {None, c}
    BY <1>1, <1>2, WritingCall
  <1>4. PICK base : base = Base(c)
    OBVIOUS
  <1>5. base \in Row \cup {None}
    BY <1>4 DEF Inv, DraftFits, Base
  <1>6. \A d \in Caller \ {c}, i \in Nat :
            (base # None /\ <<d, i>> \in base.messages) => Has(queue, d, i)
    BY <1>4 DEF Inv, DraftFits, Base, Has
  <1>7. PICK done, last : done = Len(call.outcome) /\ last = Len(call.request.entries)
    OBVIOUS
  <1>8. /\ call \in SendCall /\ call.outcome \in Seq(Verdict)
        /\ call.request \in Batches /\ call.request.entries \in Seq(Entry)
        /\ done \in Nat /\ last \in Nat /\ done + 1 \in Nat
        /\ call.left = (done + 1) .. last
    BY <1>3, <1>7 DEF Sending, SendCall
  <1>9. PICK i : i = CHOOSE j \in calls[c].left : \A k \in calls[c].left : j <= k
    OBVIOUS
  <1>10. i = done + 1 /\ i \in call.left /\ done + 1 <= last
    <2>1. done + 1 \in call.left /\ \A k \in call.left : done + 1 <= k
      BY <1>2, <1>8
    <2>2. ASSUME NEW j \in call.left, \A k \in call.left : j <= k
          PROVE  j = done + 1
      <3>1. j <= done + 1 /\ done + 1 <= j
        BY <2>1, <2>2
      <3>2. j \in Int /\ done + 1 \in Int
        BY <1>8
      <3> QED
        BY <3>1, <3>2
    <2>3. i \in call.left /\ \A k \in call.left : i <= k
      BY <1>1, <1>9, <2>1
    <2> QED
      BY <1>8, <2>1, <2>2, <2>3
  <1>11. PICK outcome \in Outcomes(c, call.request.entries[i]) :
            IF outcome # "Ok" /\ ~ call.request.batch
            THEN Rollback(c, outcome)
            ELSE /\ calls' = [calls EXCEPT ![c].left = @ \ {i},
                                           ![c].outcome = Append(@, outcome)]
                 /\ IF CheckMessage(call.request.entries[i]) # "Ok"
                    THEN UNCHANGED <<draft, writer>>
                    ELSE /\ writer' = c
                         /\ \/ /\ outcome # "Ok"
                               /\ draft' = Base(c)
                            \/ /\ \/ outcome = "Ok"
                                  \/ outcome = "InternalError"
                                     /\ call.request.entries[i].attributes > 0
                               /\ ~ Gone(c)
                               /\ draft' = [Base(c) EXCEPT !.messages = @ \cup {<<c, i>>}]
                 /\ UNCHANGED queue
    BY <1>1, <1>9 DEF SendEntry
  <1>12. CASE outcome # "Ok" /\ ~ call.request.batch
    BY <1>2, <1>3, <1>11, <1>12, RollbackInv
  <1>13. CASE ~ (outcome # "Ok" /\ ~ call.request.batch)
    <2>1. PICK next : next = [call EXCEPT !.left = call.left \ {i},
                                          !.outcome = Append(call.outcome, outcome)]
      OBVIOUS
    <2>2. calls' = [calls EXCEPT ![c] = next] /\ queue' = queue
      BY <1>1, <1>11, <1>13, <2>1 DEF Inv
    <2>3. /\ outcome \in Verdict
          /\ CheckMessage(call.request.entries[i]) # "Ok" => outcome \notin {"Ok", "InternalError"}
          /\ outcome = "Ok" => base # None
      BY <1>4, <1>11, OutcomeIsVerdict DEF Present
    <2>4. /\ Append(call.outcome, outcome) \in Seq(Verdict)
          /\ Len(Append(call.outcome, outcome)) = done + 1
          /\ Append(call.outcome, outcome)[done + 1] = outcome
          /\ \A k \in 1 .. done : Append(call.outcome, outcome)[k] = call.outcome[k]
      BY <1>7, <1>8, <2>3
    <2>5. call.left \ {i} = (done + 2) .. last /\ done + 1 + 1 = done + 2
      BY <1>8, <1>10
    <2>6. /\ next \in SendCall /\ next.at = "write" /\ next.op = "Send"
          /\ next.request = call.request
          /\ next.left = (Len(next.outcome) + 1) .. Len(next.request.entries)
          /\ next.outcome = Append(call.outcome, outcome)
          /\ Len(next.outcome) = done + 1
      BY <1>7, <1>8, <2>1, <2>4, <2>5 DEF SendCall
    <2>7. /\ next.request.batch => DistinctIds(next.request.entries)
          /\ Len(next.outcome) <= Len(next.request.entries)
      BY <1>3, <1>7, <1>10, <2>6 DEF Sending
    <2>8. \A d \in Caller, k \in Nat : Has(queue, d, k)' <=> Has(queue, d, k)
      BY <2>2 DEF Has
    (* What is refused before the database is asked.                       *)
    <2>9. CASE CheckMessage(call.request.entries[i]) # "Ok"
      <3>1. UNCHANGED <<queue, draft, writer>>
        BY <1>11, <1>13, <2>9
      <3>2. \A k \in Nat : Has(draft, c, k)' <=> Has(draft, c, k)
        BY <3>1 DEF Has
      <3>3. SameButMessages' <=> SameButMessages
        BY <3>1 DEF SameButMessages
      <3>4. /\ writer' # c => \A k \in Nat : ~ Has(queue, c, k)'
            /\ writer' = c => SameButMessages' /\ \A k \in next.left : ~ Has(draft, c, k)'
        BY <1>3, <2>1, <2>5, <2>6, <2>8, <3>1, <3>2, <3>3 DEF Sending, SendCall
      <3>5. ASSUME NEW k \in 1 .. Len(next.outcome)
            PROVE  /\ next.outcome[k] = "Ok" => writer' = c /\ Has(draft, c, k)'
                   /\ writer' = c /\ next.outcome[k] \notin {"Ok", "InternalError"}
                        => ~ Has(draft, c, k)'
        <4>1. CASE k = done + 1
          <5>1. next.outcome[k] = outcome /\ outcome # "Ok"
            BY <2>3, <2>4, <2>6, <2>9, <4>1
          <5>2. writer' = c => ~ Has(draft, c, k)'
            BY <1>3, <1>8, <1>10, <3>1, <3>2, <4>1 DEF Sending
          <5> QED
            BY <5>1, <5>2
        <4>2. CASE k # done + 1
          <5>1. k \in 1 .. done /\ k \in Nat
            BY <1>8, <2>6, <4>2
          <5>2. next.outcome[k] = call.outcome[k]
            BY <2>4, <2>6, <5>1
          <5> QED
            BY <1>3, <1>7, <3>1, <3>2, <5>1, <5>2 DEF Sending
        <4> QED
          BY <4>1, <4>2
      <3>6. Sending(c, next)'
        BY <2>6, <2>7, <3>4, <3>5 DEF Sending
      <3>7. CallFits(c, next)'
        BY <2>6, <3>6 DEF CallFits
      <3>8. created' \in Nat /\ queue' \in Row \cup {None}
        BY <1>2, <2>2 DEF Inv
      <3>9. DraftFits'
        <4>1. calls'[c] = next
          BY <2>2 DEF Inv
        <4>2. \A d \in Caller : d # c => calls'[d] = calls[d]
          BY <2>2 DEF Inv
        <4>3. \A d \in Caller, k \in Nat : Has(draft, d, k)' <=> Has(draft, d, k)
          BY <3>1 DEF Has
        <4> QED
          BY <2>6, <2>8, <3>1, <4>1, <4>2, <4>3 DEF Inv, DraftFits
      <3> QED
        BY <2>2, <3>1, <3>7, <3>8, <3>9, OneCall
    (* What it is asked to take.                                           *)
    <2>10. CASE CheckMessage(call.request.entries[i]) = "Ok"
      <3>1. PICK row : row = draft'
        OBVIOUS
      <3>2. /\ writer' = c
            /\ \/ /\ outcome # "Ok" /\ row = base
               \/ /\ outcome \in {"Ok", "InternalError"}
                  /\ base # None
                  /\ row = [base EXCEPT !.messages = base.messages \cup {<<c, i>>}]
        BY <1>4, <1>11, <1>13, <2>10, <3>1 DEF Gone, Present
      <3>3. \/ SameButMessages /\ writer = c
            \/ base = queue /\ writer # c
        <4>1. CASE writer = c
          BY <1>3, <4>1 DEF Sending
        <4>2. CASE writer # c
          BY <1>4, <4>2 DEF Base
        <4> QED
          BY <4>1, <4>2
      <3>4. /\ row \in Row \cup {None}
            /\ base = None => row = None
            /\ base # None =>
                 /\ row # None
                 /\ row.id = base.id /\ row.attributes = base.attributes
                 /\ \/ row.messages = base.messages
                    \/ /\ row.messages = base.messages \cup {<<c, i>>}
                       /\ outcome \in {"Ok", "InternalError"}
                 /\ outcome = "Ok" => <<c, i>> \in row.messages
        <4>1. CASE row = base
          BY <1>5, <2>3, <3>2, <4>1 DEF Row
        <4>2. CASE /\ base # None /\ outcome \in {"Ok", "InternalError"}
                   /\ row = [base EXCEPT !.messages = base.messages \cup {<<c, i>>}]
          <5>1. base \in Row /\ base.messages \cup {<<c, i>>} \in SUBSET (Caller \X Nat)
            BY <1>5, <1>8, <1>10, <4>2, RowFacts
          <5>2. row \in Row /\ row # None
            BY <4>2, <5>1, RowWith, RowFacts
          <5> QED
            BY <4>2, <5>1, <5>2 DEF Row
        <4> QED
          BY <3>2, <4>1, <4>2
      <3>5. SameButMessages'
        BY <1>4, <2>2, <3>1, <3>3, <3>4 DEF SameButMessages, Base
      <3>6. PICK had : had = [k \in Nat |-> base # None /\ <<c, k>> \in base.messages]
        OBVIOUS
      <3>7. \A k \in Nat :
                had[k] <=> (base # None /\ <<c, k>> \in base.messages)
        BY <3>6
      <3>8. \A k \in Nat : k # i => (Has(draft, c, k)' <=> had[k])
        BY <3>1, <3>4, <3>7 DEF Has
      <3>9. /\ \A k \in call.left : ~ had[k]
            /\ \A k \in 1 .. done :
                 /\ call.outcome[k] = "Ok" => had[k]
                 /\ call.outcome[k] \notin {"Ok", "InternalError"} => ~ had[k]
        <4>1. CASE writer = c
          <5>1. \A k \in Nat : had[k] <=> Has(draft, c, k)
            BY <1>4, <3>7, <4>1 DEF Base, Has
          <5> QED
            BY <1>3, <1>7, <1>8, <4>1, <5>1 DEF Sending
        <4>2. CASE writer # c
          <5>1. \A k \in Nat : had[k] <=> Has(queue, c, k)
            BY <1>4, <3>7, <4>2 DEF Base, Has
          <5> QED
            BY <1>3, <1>7, <1>8, <4>2, <5>1 DEF Sending
        <4> QED
          BY <4>1, <4>2
      <3>10. \A k \in next.left : k \in Nat /\ k # i /\ k \in call.left
        BY <1>8, <1>10, <2>1, <2>5, <2>6
      <3>11. ASSUME NEW k \in 1 .. Len(next.outcome)
             PROVE  /\ next.outcome[k] = "Ok" => Has(draft, c, k)'
                    /\ next.outcome[k] \notin {"Ok", "InternalError"} => ~ Has(draft, c, k)'
        <4>1. CASE k = done + 1
          <5>1. next.outcome[k] = outcome /\ k = i
            BY <1>10, <2>4, <2>6, <4>1
          <5>2. outcome = "Ok" => Has(draft, c, i)'
            BY <2>3, <3>1, <3>4 DEF Has
          <5>3. outcome \notin {"Ok", "InternalError"} => ~ Has(draft, c, i)'
            BY <1>8, <1>10, <3>1, <3>4, <3>7, <3>9 DEF Has
          <5> QED
            BY <5>1, <5>2, <5>3
        <4>2. CASE k # done + 1
          <5>1. k \in 1 .. done /\ k \in Nat /\ k # i
            BY <1>8, <1>10, <2>6, <4>2
          <5>2. next.outcome[k] = call.outcome[k]
            BY <2>4, <2>6, <5>1
          <5> QED
            BY <3>8, <3>9, <5>1, <5>2
        <4> QED
          BY <4>1, <4>2
      <3>12. Sending(c, next)'
        BY <2>6, <2>7, <3>2, <3>5, <3>8, <3>9, <3>10, <3>11 DEF Sending
      <3>13. CallFits(c, next)'
        BY <2>6, <3>12 DEF CallFits
      <3>14. created' \in Nat
        BY <1>2 DEF Inv
      <3>15. \A d \in Caller \ {c}, k \in Nat : Has(draft, d, k)' => Has(queue, d, k)
        BY <1>6, <3>1, <3>4 DEF Has
      <3> QED
        BY <1>3, <2>2, <2>6, <3>1, <3>2, <3>4, <3>13, <3>14, <3>15, Holds
    <2> QED
      BY <2>9, <2>10
  <1> QED
    BY <1>12, <1>13

LEMMA SendInv == ASSUME Inv, NEW c \in Caller, Send(c) PROVE Inv'
  <1>1. PICK call : call = calls[c]
    OBVIOUS
  <1>2. /\ call.op = "Send" /\ created' = created /\ CanWrite(c)
        /\ queue' = Base(c) /\ writer' = None /\ draft' = None
    BY <1>1 DEF Send, Commit
  <1>3. PICK answer : Answer(c, answer)
    BY DEF Send, Commit
  <1>4. writer \in {None, c} /\ queue' \in Row \cup {None}
    BY <1>2 DEF Inv, DraftFits, Base, CanWrite
  <1>5. \A d \in Caller \ {c}, i \in Nat : Has(queue, d, i)' => Has(Base(c), d, i)
    BY <1>2 DEF Has
  <1> QED
    BY <1>2, <1>3, <1>4, <1>5, CommitInv

LEMMA ConsumeInv == ASSUME Inv, Consume PROVE Inv'
  <1>1. /\ queue \in Row /\ queue' = [queue EXCEPT !.messages = {}]
        /\ UNCHANGED <<draft, writer, created, calls>> /\ writer = None /\ draft = None
    BY DEF Consume, Inv, DraftFits
  <1>2. queue' \in Row /\ queue'.messages = {} /\ queue # None
    BY <1>1, RowWith, RowFacts DEF Row
  <1>3. \A c, i : ~ Has(queue, c, i)'
    BY <1>2 DEF Has
  <1>4. ASSUME NEW c \in Caller PROVE CallFits(c, calls[c])'
    <2>1. PICK call : call = calls[c]
      OBVIOUS
    <2>2. CallFits(c, call) /\ calls'[c] = call /\ writer # c /\ writer' # c
      BY <1>1, <2>1 DEF Inv
    <2>3. Resolving(c, call) => Resolving(c, call)'
      BY <1>3 DEF Resolving
    <2>4. ~ Creating(c, call)
      BY <2>2 DEF Creating
    <2>5. Setting(c, call) => Setting(c, call)'
      BY <2>2 DEF Setting
    <2>6. Sending(c, call) => Sending(c, call)'
      BY <1>3, <2>2 DEF Sending
    <2>7. CallFits(c, call)'
      BY <2>2, <2>3, <2>4, <2>5, <2>6 DEF CallFits, Tagging
    <2> QED
      BY <2>2, <2>7
  <1>5. DraftFits'
    BY <1>1 DEF DraftFits, Has
  <1> QED
    BY <1>1, <1>2, <1>4, <1>5 DEF Inv

LEMMA NextInv == Inv /\ [Next]_vars => Inv'
  <1> SUFFICES ASSUME Inv, [Next]_vars PROVE Inv'
    OBVIOUS
  <1>1. ASSUME NEW c \in Caller,
               \/ Begin(c) \/ Resolve(c) \/ Insert(c) \/ Create(c) \/ SetAttributes(c)
               \/ Tag(c) \/ DeleteQueue(c) \/ SendEntry(c) \/ Send(c)
        PROVE  Inv'
    BY <1>1, BeginInv, ResolveInv, InsertInv, CreateInv, SetAttributesInv, TagInv,
       DeleteQueueInv, SendEntryInv, SendInv
  <1>2. CASE Consume
    BY <1>2, ConsumeInv
  <1>3. CASE UNCHANGED vars
    <2>1. UNCHANGED <<queue, draft, writer, created, calls>>
      BY <1>3 DEF vars
    <2>2. ASSUME NEW c \in Caller PROVE CallFits(c, calls[c])'
      <3>1. PICK call : call = calls[c]
        OBVIOUS
      <3>2. CallFits(c, call) /\ calls'[c] = call
        BY <2>1, <3>1 DEF Inv
      <3>3. CallFits(c, call)'
        BY <2>1, <3>2 DEF CallFits, Creating, Setting, Tagging, Sending, Resolving,
           SameButMessages, Has
      <3> QED
        BY <3>2, <3>3
    <2>3. DraftFits'
      BY <2>1 DEF Inv, DraftFits, Has
    <2> QED
      BY <2>1, <2>2, <2>3 DEF Inv
  <1> QED
    BY <1>1, <1>2, <1>3 DEF Next

(* Between two statements of its transaction, a writer's draft is what is  *)
(* committed with what it has written so far of its request over it.       *)
THEOREM InvHolds == Spec => []Inv
  BY InitInv, NextInv, PTL DEF Spec

-----------------------------------------------------------------------------
(* Answers.                                                                *)

(* A caller is answered by a step of its own.                              *)
LEMMA AnsweredByOwnStep ==
    ASSUME Inv, [Next]_vars, NEW c \in Caller, NEW op, Answered(c, op),
           op \in {"Create", "Set", "Send"}
    PROVE  \/ op = "Create" /\ (Insert(c) \/ Create(c))
           \/ op = "Set" /\ SetAttributes(c)
           \/ op = "Send" /\ (SendEntry(c) \/ Send(c))
  <1>1. calls'[c] # calls[c] /\ calls[c].op = op /\ calls[c].at \in {"insert", "write"}
    BY DEF Answered
  <1>2. ASSUME NEW d \in Caller,
               \/ Begin(d) \/ Resolve(d) \/ Insert(d) \/ Create(d) \/ SetAttributes(d)
               \/ Tag(d) \/ DeleteQueue(d) \/ SendEntry(d) \/ Send(d)
        PROVE  d = c
    <2>1. ASSUME d # c PROVE calls'[c] = calls[c]
      BY <1>2, <2>1 DEF Inv, Begin, RequestCreate, RequestSet, RequestTags, RequestSend, Start,
         Resolve, Insert, Create, SetAttributes, Tag, DeleteQueue, SendEntry, Send, Answer,
         StoreAttribute, Rollback, Commit
    <2> QED
      BY <1>1, <2>1
  <1>3. ~ Consume /\ ~ UNCHANGED vars
    BY <1>1 DEF Consume, vars
  <1>4. \/ Begin(c) \/ Resolve(c) \/ Insert(c) \/ Create(c) \/ SetAttributes(c)
        \/ Tag(c) \/ DeleteQueue(c) \/ SendEntry(c) \/ Send(c)
    BY <1>2, <1>3 DEF Next
  <1>5. ~ Begin(c) /\ ~ Resolve(c)
    BY <1>1 DEF Begin, Resolve
  <1>6. /\ Insert(c) => op = "Create"
        /\ Create(c) => op = "Create"
        /\ SetAttributes(c) => op = "Set"
        /\ SendEntry(c) \/ Send(c) => op = "Send"
        /\ ~ Tag(c) /\ ~ DeleteQueue(c)
    <2>1. calls[c].at = "insert" => calls[c].op = "Create"
      BY DEF Inv, CallFits, InsertCall
    <2> QED
      BY <1>1, <2>1 DEF Insert, Create, SetAttributes, SendEntry, Send, Tag, DeleteQueue
  <1> QED
    BY <1>4, <1>5, <1>6

(* The answer of a step that answers.                                      *)
LEMMA AnswerIs ==
    ASSUME Inv, NEW c \in Caller, NEW answer, Answer(c, answer)
    PROVE  calls'[c].at = "answered" /\ calls'[c].answer = answer
  <1>1. calls'[c] = [at |-> "answered", answer |-> answer]
    BY DEF Inv, Answer
  <1> QED
    BY <1>1

LEMMA StoresDoNotAnswer ==
    ASSUME Inv, NEW c \in Caller, NEW name, NEW attributes, StoreAttribute(c, name, attributes),
           CanWrite(c), NEW op
    PROVE  ~ Answered(c, op)
  <1>1. calls'[c] = [calls[c] EXCEPT !.left = calls[c].left \ {name}]
    BY DEF Inv, StoreAttribute
  <1>2. calls[c].at = "write"
    BY DEF CanWrite
  <1>3. calls'[c].at = "write"
    <2>1. PICK call : call = calls[c]
      OBVIOUS
    <2>2. call \in CreateCall \cup SetCall \cup TagCall \cup SendCall \cup DeleteCall
      BY <1>2, <2>1 DEF Inv, CallFits, Creating, Setting, Sending, Tagging
    <2> QED
      BY <1>1, <1>2, <2>1, <2>2
         DEF CreateCall, SetCall, TagCall, SendCall, DeleteCall
  <1> QED
    BY <1>3 DEF Answered

-----------------------------------------------------------------------------
(* CreateQueue.                                                            *)
AgreesWithAsked ==
    \A c \in Caller : Answered(c, "Create") /\ calls'[c].answer = "Ok" =>
        LET asked == calls[c].request.attributes IN
        /\ \A name \in DOMAIN asked \cap Typed :
                Reported(queue'.attributes)[name] = asked[name]
        /\ "MaximumMessageSize" \in DOMAIN asked =>
                Limit(queue'.attributes) = asked["MaximumMessageSize"]

(* What a queue is said to have, and what its sends go by, when a request  *)
(* agrees with it as CreateQueue compares them.                            *)
LEMMA AgreeingIsReported ==
    ASSUME NEW asked, Valid(asked), NEW attributes,
           \A name \in DOMAIN asked : Agrees(name, asked[name], attributes)
    PROVE  /\ \A name \in DOMAIN asked \cap Typed : Reported(attributes)[name] = asked[name]
           /\ "MaximumMessageSize" \in DOMAIN asked =>
                    Limit(attributes) = asked["MaximumMessageSize"]
  <1>1. ASSUME NEW name \in DOMAIN asked \cap Typed
        PROVE  Reported(attributes)[name] = asked[name]
    <2> DEFINE defaults == [DelaySeconds |-> 0,
                            MaximumMessageSize |-> MAX_MESSAGE_SIZE_BYTES,
                            MessageRetentionPeriod |-> 0,
                            ReceiveMessageWaitTimeSeconds |-> 0,
                            VisibilityTimeout |-> 30]
    <2>1. Agrees(name, asked[name], attributes)
      OBVIOUS
    <2>2. DOMAIN defaults = Typed
      BY DEF Typed
    <2>4. Reported(attributes) = Over(attributes, defaults)
      BY DEF Reported
    <2> HIDE DEF defaults
    <2>5. Reported(attributes)[name] =
                IF name \in DOMAIN attributes THEN attributes[name] ELSE defaults[name]
      BY <2>2, <2>4 DEF Over
    <2>6. CASE name \in DOMAIN attributes
      BY <2>1, <2>5, <2>6 DEF Agrees
    <2>7. CASE name \notin DOMAIN attributes
      BY <2>1, <2>5, <2>7 DEF Agrees, defaults
    <2> QED
      BY <2>6, <2>7
  <1>2. ASSUME "MaximumMessageSize" \in DOMAIN asked
        PROVE  Limit(attributes) = asked["MaximumMessageSize"]
    <2>1. Agrees("MaximumMessageSize", asked["MaximumMessageSize"], attributes)
      BY <1>2
    <2>2. asked["MaximumMessageSize"] \in 1024 .. MAX_MESSAGE_SIZE_BYTES
      <3>1. Validate("MaximumMessageSize", asked["MaximumMessageSize"])
        BY <1>2 DEF Valid, Typed
      <3> QED
        BY <3>1 DEF Validate, Ranges, MAXIMUM_MESSAGE_SIZE
    <2>3. CASE "MaximumMessageSize" \in DOMAIN attributes
      <3>1. attributes.MaximumMessageSize = asked["MaximumMessageSize"]
        BY <2>1, <2>3 DEF Agrees
      <3>2. PICK size : size = attributes.MaximumMessageSize
        OBVIOUS
      <3>3. MAX_MESSAGE_SIZE_BYTES \in Nat
        BY SMT DEF MAX_MESSAGE_SIZE_BYTES
      <3>4. \A least \in {size, MAX_MESSAGE_SIZE_BYTES} :
                (least <= size /\ least <= MAX_MESSAGE_SIZE_BYTES) <=> least = size
        BY <2>2, <3>1, <3>2, <3>3
      <3>5. Limit(attributes) =
                CHOOSE least \in {size, MAX_MESSAGE_SIZE_BYTES} :
                    least <= size /\ least <= MAX_MESSAGE_SIZE_BYTES
        BY <2>3, <3>2 DEF Limit
      <3>6. Limit(attributes) = size
        BY <3>4, <3>5
      <3> QED
        BY <3>1, <3>2, <3>6
    <2>4. CASE "MaximumMessageSize" \notin DOMAIN attributes
      BY <2>1, <2>4 DEF Agrees, Limit, Typed
    <2> QED
      BY <2>3, <2>4
  <1> QED
    BY <1>1, <1>2

LEMMA CreateStepAgrees == Inv /\ [Next]_vars => AgreesWithAsked
  <1> SUFFICES ASSUME Inv, [Next]_vars, NEW c \in Caller,
                      Answered(c, "Create"), calls'[c].answer = "Ok",
                      NEW asked, asked = calls[c].request.attributes
               PROVE  /\ \A name \in DOMAIN asked \cap Typed :
                              Reported(queue'.attributes)[name] = asked[name]
                      /\ "MaximumMessageSize" \in DOMAIN asked =>
                              Limit(queue'.attributes) = asked["MaximumMessageSize"]
    BY DEF AgreesWithAsked
  <1>1. Insert(c) \/ Create(c)
    BY AnsweredByOwnStep
  <1>2. PICK attributes : attributes = queue'.attributes
    OBVIOUS
  <1>3. Valid(asked) /\ \A name \in DOMAIN asked : Agrees(name, asked[name], attributes)
    <2>1. CASE Insert(c)
      <3>1. Valid(asked)
        BY <2>1 DEF Insert, Inv, CallFits
      <3>2. queue # None
        <4>1. ASSUME queue = None PROVE calls'[c].at = "write"
          BY <2>1, <4>1 DEF Insert, Inv
        <4> QED
          BY <4>1 DEF Answered
      <3>3. /\ Answer(c, IF FirstAttributeMismatch(asked, queue.attributes)
                         THEN "QueueNameExists" ELSE "Ok")
            /\ queue' = queue
        BY <2>1, <3>2 DEF Insert
      <3>4. ~ FirstAttributeMismatch(asked, queue.attributes)
        <4>1. ASSUME FirstAttributeMismatch(asked, queue.attributes) PROVE FALSE
          <5>1. Answer(c, "QueueNameExists")
            BY <3>3, <4>1
          <5>2. calls'[c].answer = "QueueNameExists"
            BY <5>1, AnswerIs
          <5> QED
            BY <5>2
        <4> QED
          BY <4>1
      <3> QED
        BY <1>2, <3>1, <3>3, <3>4 DEF FirstAttributeMismatch
    <2>2. CASE Create(c)
      <3>1. PICK call : call = calls[c]
        OBVIOUS
      <3>2. CanWrite(c) /\ call.op = "Create"
        BY <2>2, <3>1 DEF Create
      <3>3. Creating(c, call)
        BY <3>1, <3>2, WritingCall
      <3>4. ~ Rollback(c, "InternalError")
        <4>1. ASSUME Rollback(c, "InternalError") PROVE FALSE
          <5>1. Answer(c, "InternalError")
            BY <4>1 DEF Rollback
          <5>2. calls'[c].answer = "InternalError"
            BY <5>1, AnswerIs
          <5> QED
            BY <5>2
        <4> QED
          BY <4>1
      <3>5. /\ call.left = {}
            /\ queue' = [Base(c) EXCEPT !.tags = call.request.tags]
        BY <2>2, <3>1, <3>2, <3>4, StoresDoNotAnswer DEF Create
      <3>6. attributes = draft.attributes
        BY <1>2, <3>3, <3>5 DEF Creating, Base, Row
      <3>7. AreOver(attributes, asked, DOMAIN asked, << >>) /\ Valid(asked)
        BY <3>1, <3>3, <3>5, <3>6 DEF Creating
      <3>8. DOMAIN asked \subseteq DOMAIN attributes
            /\ \A name \in DOMAIN asked : attributes[name] = asked[name]
        BY <3>7 DEF AreOver
      <3> QED
        BY <3>7, <3>8 DEF Agrees
    <2> QED
      BY <1>1, <2>1, <2>2
  <1> QED
    BY <1>2, <1>3, AgreeingIsReported

(* A CreateQueue answered "Ok" leaves the caller with the queue it asked   *)
(* for, made for it or found.                                              *)
THEOREM CreatedIsAsked == Spec => CreateAgrees
  <1>1. Inv /\ [Next]_vars => [AgreesWithAsked]_vars
    BY CreateStepAgrees
  <1> QED
    BY <1>1, InvHolds, PTL DEF Spec, CreateAgrees, AgreesWithAsked

-----------------------------------------------------------------------------
(* SendMessageBatch.                                                       *)
AnswersTell ==
    \A c \in Caller :
        Answered(c, "Send") /\ calls[c].request.batch =>
            LET entries == calls[c].request.entries
                stored == {i \in DOMAIN entries : queue' # None /\ <<c, i>> \in queue'.messages}
            IN  \A i \in DOMAIN entries :
                    \E answer \in calls'[c].answer :
                        /\ \A other \in calls'[c].answer :
                                other.id = entries[i].id => other = answer
                        /\ answer.id = entries[i].id
                        /\ answer.outcome = "Ok" => i \in stored
                        /\ answer.outcome # "Ok" /\ IsSenderFault(answer.outcome)
                                => i \notin stored

LEMMA BatchStepTells == Inv /\ [Next]_vars => AnswersTell
  <1> SUFFICES ASSUME Inv, [Next]_vars, NEW c \in Caller,
                      Answered(c, "Send"), calls[c].request.batch,
                      NEW i \in DOMAIN calls[c].request.entries
               PROVE  \E answer \in calls'[c].answer :
                        /\ \A other \in calls'[c].answer :
                                other.id = calls[c].request.entries[i].id => other = answer
                        /\ answer.id = calls[c].request.entries[i].id
                        /\ answer.outcome = "Ok" => Has(queue, c, i)'
                        /\ answer.outcome # "Ok" /\ IsSenderFault(answer.outcome)
                                => ~ Has(queue, c, i)'
    BY DEF AnswersTell, Has
  <1>1. PICK call : call = calls[c]
    OBVIOUS
  <1>2. Send(c)
    <2>1. SendEntry(c) \/ Send(c)
      BY AnsweredByOwnStep
    <2>2. ASSUME SendEntry(c) PROVE FALSE
      <3>1. Sending(c, call)
        BY <1>1, <2>2, WritingCall DEF SendEntry
      <3>2. PICK j : j = CHOOSE h \in calls[c].left : \A k \in calls[c].left : h <= k
        OBVIOUS
      <3>3. PICK outcome :
                calls' = [calls EXCEPT ![c].left = @ \ {j},
                                       ![c].outcome = Append(@, outcome)]
        BY <2>2, <3>2 DEF SendEntry
      <3>4. calls'[c].at = "write"
        <4>1. calls'[c] = [call EXCEPT !.left = call.left \ {j},
                                       !.outcome = Append(call.outcome, outcome)]
          BY <1>1, <3>3 DEF Inv
        <4>2. call \in SendCall
          BY <3>1 DEF Sending
        <4> QED
          BY <4>1, <4>2 DEF SendCall
      <3> QED
        BY <3>4 DEF Answered
    <2> QED
      BY <2>1, <2>2
  <1>3. /\ Sending(c, call) /\ call.left = {} /\ queue' = Base(c)
        /\ calls'[c].answer = {[id |-> call.request.entries[j].id, outcome |-> call.outcome[j]] :
                                  j \in DOMAIN call.outcome}
    <2> DEFINE answers == {[id |-> call.request.entries[j].id, outcome |-> call.outcome[j]] :
                              j \in DOMAIN call.outcome}
    <2>1. Sending(c, call)
      BY <1>1, <1>2, WritingCall DEF Send
    <2>2. Commit(c, answers) /\ call.left = {}
      BY <1>1, <1>2 DEF Send
    <2> HIDE DEF answers
    <2>3. queue' = Base(c) /\ Answer(c, answers)
      BY <2>2 DEF Commit
    <2>4. calls'[c].answer = answers
      BY <2>3, AnswerIs
    <2> QED
      BY <2>1, <2>2, <2>3, <2>4 DEF answers
  <1>4. /\ call \in SendCall /\ call.outcome \in Seq(Verdict)
        /\ call.request.entries \in Seq(Entry)
        /\ Len(call.outcome) = Len(call.request.entries)
        /\ DistinctIds(call.request.entries)
    <2>1. /\ call \in SendCall /\ call.outcome \in Seq(Verdict)
          /\ call.request \in Batches /\ call.request.entries \in Seq(Entry)
          /\ DistinctIds(call.request.entries)
      BY <1>1, <1>3 DEF Sending, SendCall
    <2>2. PICK done, last : done = Len(call.outcome) /\ last = Len(call.request.entries)
      OBVIOUS
    <2>3. done \in Nat /\ last \in Nat /\ done <= last /\ (done + 1) .. last = {}
      <3>1. call.left = (Len(call.outcome) + 1) .. Len(call.request.entries)
            /\ Len(call.outcome) <= Len(call.request.entries)
        BY <1>3 DEF Sending
      <3>2. Len(call.outcome) \in Nat /\ Len(call.request.entries) \in Nat
        BY <2>1
      <3> QED
        BY <1>3, <2>2, <3>1, <3>2
    <2>4. done = last
      <3>1. done < last => done + 1 \in (done + 1) .. last
        BY <2>3
      <3> QED
        BY <2>3, <3>1
    <2> QED
      BY <2>1, <2>2, <2>4
  <1>5. /\ DOMAIN call.outcome = 1 .. Len(call.outcome)
        /\ DOMAIN call.request.entries = 1 .. Len(call.outcome)
        /\ i \in 1 .. Len(call.outcome) /\ i \in Nat
    BY <1>1, <1>4
  <1>6. PICK answer : answer = [id |-> call.request.entries[i].id, outcome |-> call.outcome[i]]
    OBVIOUS
  <1>7. answer \in calls'[c].answer
    BY <1>3, <1>5, <1>6
  <1>8. ASSUME NEW other \in calls'[c].answer, other.id = call.request.entries[i].id
        PROVE  other = answer
    <2>1. PICK j \in DOMAIN call.outcome :
                other = [id |-> call.request.entries[j].id, outcome |-> call.outcome[j]]
      BY <1>3
    <2>2. call.request.entries[j].id = call.request.entries[i].id
      BY <1>8, <2>1
    <2>3. i = j
      BY <1>4, <1>5, <2>2 DEF DistinctIds
    <2> QED
      BY <1>6, <2>1, <2>3
  <1>9. /\ call.outcome[i] = "Ok" => Has(queue, c, i)'
        /\ call.outcome[i] \notin {"Ok", "InternalError"} => ~ Has(queue, c, i)'
    <2>1. CASE writer = c
      <3>1. Has(queue, c, i)' <=> Has(draft, c, i)
        BY <1>3, <2>1 DEF Base, Has
      <3> QED
        BY <1>3, <1>5, <2>1, <3>1 DEF Sending
    <2>2. CASE writer # c
      <3>1. Has(queue, c, i)' <=> Has(queue, c, i)
        BY <1>3, <2>2 DEF Base, Has
      <3> QED
        BY <1>3, <1>5, <2>2, <3>1 DEF Sending
    <2> QED
      BY <2>1, <2>2
  <1>10. answer.id = call.request.entries[i].id /\ answer.outcome = call.outcome[i]
    BY <1>6
  <1> QED
    BY <1>1, <1>7, <1>8, <1>9, <1>10 DEF IsSenderFault

(* A batch's answer tells of each entry whether its message is stored,     *)
(* unless it says that nothing is known.                                   *)
THEOREM BatchesAreAnswered == Spec => BatchAnswersTell
  <1>1. Inv /\ [Next]_vars => [AnswersTell]_vars
    BY BatchStepTells
  <1> QED
    BY <1>1, InvHolds, PTL DEF Spec, BatchAnswersTell, AnswersTell

-----------------------------------------------------------------------------
(* Attributes.                                                             *)
Whole ==
    queue' # None =>
        \/ /\ queue # None
           /\ queue'.id = queue.id
           /\ queue'.attributes = queue.attributes
        \/ /\ queue # None
           /\ queue'.id = queue.id
           /\ \E c \in Caller :
                /\ Answered(c, "Set") /\ calls'[c].answer = "Ok"
                /\ queue'.attributes = Over(calls[c].request, queue.attributes)
                /\ queue'.modified = queue.modified + 1
        \/ /\ queue = None
           /\ \E c \in Caller :
                /\ Answered(c, "Create") /\ calls'[c].answer = "Ok"
                /\ queue'.attributes = calls[c].request.attributes
                /\ queue'.tags = calls[c].request.tags

LEMMA AllOver ==
    ASSUME NEW attributes, NEW some, NEW kind, attributes \in [some -> kind],
           NEW values, NEW base, AreOver(attributes, values, DOMAIN values, base)
    PROVE  attributes = Over(values, base)
  BY DEF AreOver, Over

LEMMA AllOfRequest ==
    ASSUME NEW attributes, NEW some, NEW kind, attributes \in [some -> kind],
           NEW values, AreAttributes(values), AreOver(attributes, values, DOMAIN values, << >>)
    PROVE  attributes = values
  <1>1. DOMAIN attributes = DOMAIN values
    BY EmptyMap DEF AreOver
  <1>2. \A name \in DOMAIN values : attributes[name] = values[name]
    BY <1>1 DEF AreOver
  <1>3. values = [name \in DOMAIN values |-> values[name]]
    BY DEF AreAttributes
  <1>4. attributes = [name \in DOMAIN attributes |-> attributes[name]]
    OBVIOUS
  <1>5. [name \in DOMAIN attributes |-> attributes[name]]
            = [name \in DOMAIN values |-> values[name]]
    BY <1>1, <1>2
  <1> QED
    BY <1>3, <1>4, <1>5

LEMMA CreateStepWhole == ASSUME Inv, NEW c \in Caller, Create(c) PROVE Whole
  <1>1. PICK call : call = calls[c]
    OBVIOUS
  <1>2. CanWrite(c) /\ call.op = "Create"
    BY <1>1 DEF Create
  <1>3. Creating(c, call) /\ call.at = "write"
    BY <1>1, <1>2, WritingCall DEF CanWrite
  <1>4. CASE queue' = queue
    BY <1>4 DEF Whole
  <1>5. CASE /\ call.left = {} /\ Answer(c, "Ok")
             /\ queue' = [Base(c) EXCEPT !.tags = call.request.tags]
    <2>1. /\ draft \in Row /\ draft.attributes \in Attributes
          /\ AreAttributes(call.request.attributes) /\ call.request.tags \in Maps(TagKey, STRING)
          /\ AreOver(draft.attributes, call.request.attributes,
                     DOMAIN call.request.attributes, << >>)
      BY <1>3, <1>5, RowFacts, RequestedTags DEF Creating, CreateCall
    <2>2. draft.attributes \in [DOMAIN draft.attributes -> Int \cup STRING]
      BY <2>1, MapsFacts DEF Attributes
    <2>3. draft.attributes = call.request.attributes
      BY <2>1, <2>2, AllOfRequest
    <2>4. queue' = [draft EXCEPT !.tags = call.request.tags]
      BY <1>3, <1>5 DEF Creating, Base
    <2>5. queue'.attributes = draft.attributes /\ queue'.tags = call.request.tags
      BY <2>1, <2>4 DEF Row
    <2>6. Answered(c, "Create") /\ calls'[c].answer = "Ok" /\ queue = None
      <3>1. calls'[c].at = "answered" /\ calls'[c].answer = "Ok"
        BY <1>5, AnswerIs
      <3> QED
        BY <1>1, <1>2, <1>3, <3>1 DEF Answered, Creating
    <2> QED
      BY <1>1, <2>3, <2>5, <2>6 DEF Whole
  <1> QED
    BY <1>1, <1>4, <1>5 DEF Create, StoreAttribute, Rollback

LEMMA SetStepWhole == ASSUME Inv, NEW c \in Caller, SetAttributes(c) PROVE Whole
  <1>1. PICK call : call = calls[c]
    OBVIOUS
  <1>2. CanWrite(c) /\ call.op = "Set"
    BY <1>1 DEF SetAttributes
  <1>3. Setting(c, call) /\ call.at = "write"
    BY <1>1, <1>2, WritingCall DEF CanWrite
  <1>4. CASE queue' = queue
    BY <1>4 DEF Whole
  <1>5. CASE call.left = {} /\ DOMAIN call.request = {} /\ Commit(c, "Ok")
    <2>1. writer # c
      BY <1>3, <1>5 DEF Setting
    <2> QED
      BY <1>4, <1>5, <2>1 DEF Commit, Base
  <1>6. CASE call.left = {} /\ DOMAIN call.request # {}
    <2>1. writer = c
      BY <1>3, <1>6 DEF Setting
    <2>2. /\ draft \in Row /\ queue \in Row /\ draft.id = call.id /\ draft.id = queue.id
          /\ draft.modified = queue.modified
          /\ AreOver(draft.attributes, call.request, DOMAIN call.request, queue.attributes)
      BY <1>3, <1>6, <2>1 DEF Setting
    <2>3. Base(c) = draft /\ ~ Gone(c)
      BY <1>1, <2>1, <2>2, RowFacts DEF Base, Gone, Present
    <2>4. queue' = [draft EXCEPT !.modified = draft.modified + 1] /\ Answer(c, "Ok")
      BY <1>1, <1>6, <2>3 DEF SetAttributes
    <2>5. draft.attributes \in [DOMAIN draft.attributes -> Int \cup STRING]
      BY <2>2, RowFacts, MapsFacts DEF Attributes
    <2>6. draft.attributes = Over(call.request, queue.attributes)
      BY <2>2, <2>5, AllOver
    <2>7. /\ queue'.attributes = draft.attributes /\ queue'.id = queue.id
          /\ queue'.modified = queue.modified + 1
      BY <2>2, <2>4 DEF Row
    <2>8. Answered(c, "Set") /\ calls'[c].answer = "Ok" /\ queue # None
      <3>1. calls'[c].at = "answered" /\ calls'[c].answer = "Ok"
        BY <2>4, AnswerIs
      <3> QED
        BY <1>1, <1>2, <1>3, <2>2, <3>1, RowFacts DEF Answered
    <2> QED
      BY <1>1, <2>6, <2>7, <2>8 DEF Whole
  <1> QED
    BY <1>1, <1>4, <1>5, <1>6 DEF SetAttributes, StoreAttribute, Rollback

LEMMA OtherStepWhole ==
    ASSUME Inv, [Next]_vars, \A c \in Caller : ~ Create(c) /\ ~ SetAttributes(c)
    PROVE  Whole
  <1>1. CASE queue' = queue
    BY <1>1 DEF Whole
  <1>2. CASE queue' = None
    BY <1>2 DEF Whole
  <1>3. ASSUME queue \in Row,
               \/ \E tags : queue' = [queue EXCEPT !.tags = tags]
               \/ \E messages : queue' = [queue EXCEPT !.messages = messages]
        PROVE  Whole
    <2>1. queue # None
      BY <1>3, RowFacts
    <2>2. queue'.id = queue.id /\ queue'.attributes = queue.attributes
      BY <1>3 DEF Row
    <2> QED
      BY <2>1, <2>2 DEF Whole
  <1>4. ASSUME NEW c \in Caller, Begin(c) \/ Resolve(c) \/ Insert(c) PROVE Whole
    BY <1>1, <1>4 DEF Begin, Resolve, Insert
  <1>5. ASSUME NEW c \in Caller, SendEntry(c) PROVE Whole
    BY <1>1, <1>5 DEF SendEntry, Rollback
  <1>6. ASSUME NEW c \in Caller, DeleteQueue(c) PROVE Whole
    BY <1>1, <1>2, <1>6 DEF DeleteQueue
  <1>7. ASSUME NEW c \in Caller, Tag(c) PROVE Whole
    <2>1. writer = None /\ Base(c) = queue
      BY <1>7, WritingCall DEF Tag, Base
    <2>2. ~ Gone(c) => queue \in Row
      BY <2>1 DEF Inv, Gone, Present
    <2>3. ASSUME ~ Gone(c), NEW key,
                 queue' = [queue EXCEPT !.tags = Upsert(@, key, calls[c].request[key])]
          PROVE  Whole
      BY <1>3, <2>2, <2>3
    <2>4. ASSUME ~ Gone(c), NEW key,
                 queue' = [queue EXCEPT !.tags = [k \in DOMAIN @ \ {key} |-> @[k]]]
          PROVE  Whole
      <3>1. queue' = [queue EXCEPT !.tags = [k \in DOMAIN queue.tags \ {key} |-> queue.tags[k]]]
        BY <2>4
      <3> QED
        BY <1>3, <2>2, <2>4, <3>1
    <2> QED
      BY <1>1, <1>7, <2>3, <2>4 DEF Tag
  <1>8. ASSUME NEW c \in Caller, Send(c) PROVE Whole
    <2>1. PICK call : call = calls[c]
      OBVIOUS
    <2>2. Sending(c, call) /\ queue' = Base(c)
      BY <1>8, <2>1, WritingCall DEF Send, Commit
    <2>3. CASE writer = c
      <3>1. SameButMessages /\ queue' = draft
        BY <2>2, <2>3 DEF Sending, Base
      <3> QED
        BY <3>1 DEF SameButMessages, Whole
    <2>4. CASE writer # c
      BY <1>1, <2>2, <2>4 DEF Base
    <2> QED
      BY <2>3, <2>4
  <1>9. CASE Consume
    BY <1>3, <1>9 DEF Consume, Inv
  <1>10. CASE UNCHANGED vars
    BY <1>1, <1>10 DEF vars
  <1> QED
    BY <1>4, <1>5, <1>6, <1>7, <1>8, <1>9, <1>10 DEF Next

(* A queue's attributes change by all that a request asked for, or not at  *)
(* all.                                                                    *)
THEOREM AttributesChangeWhole == Spec => WritesAreWhole
  <1>1. Inv /\ [Next]_vars => [Whole]_vars
    BY CreateStepWhole, SetStepWhole, OtherStepWhole
  <1> QED
    BY <1>1, InvHolds, PTL DEF Spec, WritesAreWhole, Whole

=============================================================================
