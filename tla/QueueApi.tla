------------------------------ MODULE QueueApi ------------------------------
(***************************************************************************)
(* The operations on a queue as a whole and the sending of batches: their  *)
(* checks of the request (QueueAttributesSer in src/src/service.rs and     *)
(* src/src/sqs/limits.rs), then their statements one by one, under the     *)
(* write lock of a transaction where the code opens one.  Readers see what *)
(* is committed.  A statement may fail, which ends its transaction unless  *)
(* the code goes on, as a batch does.                                      *)
(*                                                                         *)
(* There is one queue name.  Values are small numbers, or names for texts. *)
(***************************************************************************)
EXTENDS Integers, Sequences, FiniteSets

CONSTANTS
    Caller,      \* requests in progress at once
    Managers,    \* the callers that may manage the queue
    Fifo,        \* whether the name ends in ".fifo"
    Creates,     \* CreateQueue requests: their attributes and tags
    Sets,        \* SetQueueAttributes requests: their attributes
    Tags,        \* TagQueue requests: their tags
    Batches,     \* SendMessageBatch and SendMessage requests: their entries
    MaxQueues,   \* queues created under the name
    MaxWrites,   \* changes of attributes, and batches sent
    Faults,      \* whether a statement may fail
    None         \* no queue, caller, value

(* An entry of a batch: an id, the size of its body and attributes, and    *)
(* what is wrong with them.                                                *)
Entry == [id : STRING, size : Nat, body : STRING, attributes : Nat, delay : Nat \cup {None}]

ASSUME QueueApiAssumption ==
    /\ Managers \subseteq Caller
    /\ None \notin Caller
    /\ Fifo \in BOOLEAN /\ Faults \in BOOLEAN
    /\ MaxQueues \in Nat /\ MaxWrites \in Nat
    /\ \A request \in Batches : request.batch \in BOOLEAN /\ request.entries \in Seq(Entry)

VARIABLES
    queue,    \* what is committed under the name
    draft,    \* what its writer has made of it
    writer,   \* who holds the write lock
    created,  \* queues created so far
    calls     \* the requests in progress

vars == <<queue, draft, writer, created, calls>>

(* INSERT ... ON CONFLICT DO UPDATE of one value.                          *)
Upsert(values, name, value) ==
    [key \in DOMAIN values \cup {name} |-> IF key = name THEN value ELSE values[key]]

Over(values, defaults) ==
    [key \in DOMAIN values \cup DOMAIN defaults |->
        IF key \in DOMAIN values THEN values[key] ELSE defaults[key]]

-----------------------------------------------------------------------------
(* Attributes.                                                             *)

MAX_MESSAGE_SIZE_BYTES == 1048576

Typed == {"DelaySeconds", "MaximumMessageSize", "MessageRetentionPeriod",
          "ReceiveMessageWaitTimeSeconds", "VisibilityTimeout"}

(* AWS's ranges for the attributes NerveMQ acts on, and 0 for keeping      *)
(* messages forever.                                                       *)
DELAY_SECONDS == 0 .. 900
MAXIMUM_MESSAGE_SIZE == 1024 .. MAX_MESSAGE_SIZE_BYTES
MESSAGE_RETENTION_PERIOD == 60 .. 1209600
RECEIVE_MESSAGE_WAIT_TIME_SECONDS == 0 .. 20
VISIBILITY_TIMEOUT == 0 .. 43200

Ranges == [DelaySeconds |-> DELAY_SECONDS,
           MaximumMessageSize |-> MAXIMUM_MESSAGE_SIZE,
           MessageRetentionPeriod |-> MESSAGE_RETENTION_PERIOD,
           ReceiveMessageWaitTimeSeconds |-> RECEIVE_MESSAGE_WAIT_TIME_SECONDS,
           VisibilityTimeout |-> VISIBILITY_TIMEOUT]

Validate(name, value) ==
    \/ value \in Ranges[name]
    \/ name = "MessageRetentionPeriod" /\ value = 0

FifoAttributes == {"FifoQueue", "ContentBasedDeduplication",
                   "DeduplicationScope", "FifoThroughputLimit"}

Settable == Typed \cup
    {"RedrivePolicy", "Policy", "RedriveAllowPolicy", "KmsMasterKeyId",
     "KmsDataKeyReusePeriodSeconds", "SqsManagedSseEnabled"}

IsUntypedAttribute(name) ==
    name \in (Settable \ (Typed \cup {"RedrivePolicy"})) \cup FifoAttributes

(* What a CreateQueue takes an untyped attribute that was never set for.   *)
UntypedAttributeDefault(name) ==
    CASE name \in {"SqsManagedSseEnabled", "FifoQueue"} -> "true"
      [] name = "KmsDataKeyReusePeriodSeconds" -> "300"
      [] name = "ContentBasedDeduplication" -> "false"
      [] name = "DeduplicationScope" -> "queue"
      [] name = "FifoThroughputLimit" -> "perQueue"
      [] name \in {"Policy", "RedriveAllowPolicy", "KmsMasterKeyId"} -> ""

(* The first fault of a request's attributes; each of its faults may be    *)
(* the first by name.  A value that is not a string, or no whole number    *)
(* where one is wanted, is in none of the ranges.                      *)
FromRequest(attributes, write) ==
    LET Fault(name) ==
            CASE name \notin Settable \cup (IF Fifo THEN FifoAttributes ELSE {})
                    -> "InvalidAttributeName"
              [] name = "FifoQueue" /\ write = "Set" -> "InvalidAttributeValue"
              [] name \in Typed /\ ~ Validate(name, attributes[name])
                    -> "InvalidAttributeValue"
              [] OTHER -> "Ok"
        faults == {Fault(name) : name \in DOMAIN attributes} \ {"Ok"}
    IN  IF faults = {} THEN {"Ok"} ELSE faults

(* Deviation: an attribute that is not set agrees with any value. *)
AgreesWhenUnset(name, value, attributes) ==
    name \in DOMAIN attributes => attributes[name] = value

(* Whether what a request asks for is what the queue has.                  *)
Agrees(name, value, attributes) ==
    IF name \in DOMAIN attributes THEN attributes[name] = value
    ELSE IF name \in Typed
    THEN value = [DelaySeconds |-> 0,
                  MaximumMessageSize |-> MAX_MESSAGE_SIZE_BYTES,
                  MessageRetentionPeriod |-> 0,
                  ReceiveMessageWaitTimeSeconds |-> 0,
                  VisibilityTimeout |-> 30][name]
    ELSE name # "RedrivePolicy" /\ value = UntypedAttributeDefault(name)

FirstAttributeMismatch(requested, attributes) ==
    \E name \in DOMAIN requested : ~ Agrees(name, requested[name], attributes)

(* GetQueueAttributes: what a queue is said to have.                       *)
Reported(attributes) ==
    Over(attributes, [DelaySeconds |-> 0,
                      MaximumMessageSize |-> MAX_MESSAGE_SIZE_BYTES,
                      MessageRetentionPeriod |-> 0,
                      ReceiveMessageWaitTimeSeconds |-> 0,
                      VisibilityTimeout |-> 30])

(* check_tags: keys and values are of the allowed characters and length,   *)
(* and not AWS's own.                                                      *)
CheckTags(tags) ==
    IF \A key \in DOMAIN tags : key \notin {"", "aws:key"} /\ tags[key] # "aws:value"
    THEN "Ok" ELSE "InvalidParameterValue"

-----------------------------------------------------------------------------
(* Messages.                                                               *)

(* check_message, then the delay.                                          *)
CheckMessage(entry) ==
    CASE entry.size = 0 -> "MissingParameter"
      [] entry.body = "odd" -> "InvalidMessageContents"
      [] entry.attributes > 10 \/ entry.body = "odd attribute" -> "InvalidParameterValue"
      [] entry.delay # None /\ entry.delay \notin DELAY_SECONDS -> "InvalidParameterValue"
      [] OTHER -> "Ok"

(* What the queue takes, as the INSERT of a message computes it.           *)
Limit(attributes) ==
    IF "MaximumMessageSize" \in DOMAIN attributes
    THEN CHOOSE least \in {attributes.MaximumMessageSize, MAX_MESSAGE_SIZE_BYTES} :
            least <= attributes.MaximumMessageSize /\ least <= MAX_MESSAGE_SIZE_BYTES
    ELSE MAX_MESSAGE_SIZE_BYTES

(* Deviation: ids may repeat. *)
CheckBatchSize(entries) ==
    CASE Len(entries) = 0 -> "EmptyBatchRequest"
      [] Len(entries) > 10 -> "TooManyEntriesInBatchRequest"
      [] \E i \in DOMAIN entries : entries[i].id = "" -> "InvalidBatchEntryId"
      [] OTHER -> "Ok"

CheckBatch(entries) ==
    CASE Len(entries) = 0 -> "EmptyBatchRequest"
      [] Len(entries) > 10 -> "TooManyEntriesInBatchRequest"
      [] \E i \in DOMAIN entries : entries[i].id = "" -> "InvalidBatchEntryId"
      [] Cardinality({entries[i].id : i \in DOMAIN entries}) # Len(entries)
            -> "BatchEntryIdsNotDistinct"
      [] OTHER -> "Ok"

TotalSize(entries) ==
    LET upTo[i \in 0 .. Len(entries)] ==
            IF i = 0 THEN 0 ELSE upTo[i - 1] + entries[i].size
    IN  upTo[Len(entries)]

IsSenderFault(error) == error # "InternalError"

-----------------------------------------------------------------------------
(* What is known of a queue: its settings, how often they changed, its     *)
(* tags, and which entries of its senders are in it.                       *)
TagKey == UNION {DOMAIN tags : tags \in Tags \cup {create.tags : create \in Creates}}
Maps(keys, values) == UNION {[some -> values] : some \in SUBSET keys}
Row == [id : Nat, attributes : Maps(Settable \cup FifoAttributes, Int \cup STRING),
        modified : Nat, tags : Maps(TagKey, STRING), messages : SUBSET (Caller \X Nat)]

(* Attributes are given as functions, those of Typed as numbers.           *)
AreAttributes(attributes) ==
    /\ attributes = [name \in DOMAIN attributes |-> attributes[name]]
    /\ \A name \in DOMAIN attributes :
            IF name \in Typed THEN attributes[name] \in Int ELSE attributes[name] \in STRING
AreTags(tags) == tags \in [DOMAIN tags -> STRING]

ASSUME RequestsAssumption ==
    /\ None \notin Row
    /\ \A create \in Creates : AreAttributes(create.attributes) /\ AreTags(create.tags)
    /\ \A attributes \in Sets : AreAttributes(attributes)
    /\ \A tags \in Tags : AreTags(tags)

NoCall == [at |-> "idle"]

Init ==
    /\ queue = None
    /\ draft = None
    /\ writer = None
    /\ created = 0
    /\ calls = [c \in Caller |-> NoCall]

Answer(c, answer) ==
    calls' = [calls EXCEPT ![c] = [at |-> "answered", answer |-> answer]]

(* The request is checked before anything is read.                         *)
Start(c, op, request, checks) ==
    \E check \in checks :
        calls' = [calls EXCEPT ![c] =
            IF check # "Ok" THEN [at |-> "answered", answer |-> check]
            ELSE IF op # "Send" /\ c \notin Managers
            THEN [at |-> "answered", answer |-> "Forbidden"]
            ELSE [at |-> IF op = "Create" THEN "insert" ELSE "resolve",
                  op |-> op, request |-> request]]

(* What the handlers of src/src/sqs/mod.rs check and hand on.              *)
RequestCreate(c) ==
    \E request \in Creates :
        Start(c, "Create", request,
              IF FromRequest(request.attributes, "Create") # {"Ok"}
              THEN FromRequest(request.attributes, "Create")
              ELSE {CheckTags(request.tags)})

RequestSet(c) ==
    \E request \in Sets : Start(c, "Set", request, FromRequest(request, "Set"))

RequestTags(c) ==
    \E request \in Tags :
        \/ Start(c, "Tag", request, {CheckTags(request)})
        \/ Start(c, "Untag", request, {"Ok"})

(* A batch waits for the messages of the caller's last one, to be told     *)
(* from them.                                                              *)
RequestSend(c) ==
    \E request \in Batches :
        /\ queue # None => \A message \in queue.messages : message[1] # c
        /\ Start(c, "Send", request,
                 IF request.batch THEN {CheckBatch(request.entries)} ELSE {"Ok"})

(* The request of a call is answered, and the next arrives.                *)
Begin(c) ==
    /\ calls[c].at \in {"idle", "answered"}
    /\ \/ RequestCreate(c)
       \/ RequestSet(c)
       \/ RequestTags(c)
       \/ RequestSend(c)
       \/ Start(c, "Delete", None, {"Ok"})
    /\ UNCHANGED <<queue, draft, writer, created>>

(* get_queue_id.  A batch that is too long is refused after it.            *)
Resolve(c) ==
    /\ calls[c].at = "resolve"
    /\ IF queue = None THEN Answer(c, "QueueDoesNotExist")
       ELSE IF calls[c].op = "Send" /\ calls[c].request.batch
               /\ TotalSize(calls[c].request.entries) > MAX_MESSAGE_SIZE_BYTES
       THEN Answer(c, "BatchRequestTooLong")
       ELSE LET op == calls[c].op
                request == calls[c].request
            IN  calls' = [calls EXCEPT ![c] =
                    [at |-> "write", op |-> op, request |-> request, id |-> queue.id,
                     left |-> CASE op \in {"Set", "Tag", "Untag"} -> DOMAIN request
                                [] op = "Send" -> DOMAIN request.entries
                                [] OTHER -> {},
                     outcome |-> << >>]]
    /\ UNCHANGED <<queue, draft, writer, created>>

(* Whether c can write: it holds the lock, or nobody does.                 *)
CanWrite(c) == calls[c].at = "write" /\ writer \in {None, c}

(* What c writes to: its own draft, or, for its first write, what is there.*)
Base(c) == IF writer = c THEN draft ELSE queue

Rollback(c, answer) ==
    /\ writer' = None
    /\ draft' = None
    /\ Answer(c, answer)
    /\ UNCHANGED queue

Commit(c, answer) ==
    /\ queue' = Base(c)
    /\ writer' = None
    /\ draft' = None
    /\ Answer(c, answer)

(* CreateQueue's first statement: INSERT ... ON CONFLICT DO NOTHING.       *)
Insert(c) ==
    /\ calls[c].at = "insert"
    /\ writer = None
    /\ LET request == calls[c].request IN
       IF queue = None
       THEN /\ created < MaxQueues
            /\ created' = created + 1
            /\ writer' = c
            /\ draft' = [id |-> created + 1, attributes |-> << >>, modified |-> 0,
                         tags |-> << >>, messages |-> {}]
            /\ calls' = [calls EXCEPT ![c] =
                    [at |-> "write", op |-> "Create", request |-> request,
                     id |-> created + 1, left |-> DOMAIN request.attributes]]
       ELSE /\ Answer(c, IF FirstAttributeMismatch(request.attributes, queue.attributes)
                         THEN "QueueNameExists" ELSE "Ok")
            /\ UNCHANGED <<draft, writer, created>>
    /\ UNCHANGED queue

(* Deviation: each attribute is committed as it is written. *)
StoreAttributeAtOnce(c, name, attributes) ==
    /\ calls' = [calls EXCEPT ![c].left = @ \ {name}]
    /\ draft' = None
    /\ queue' = [Base(c) EXCEPT !.attributes = Upsert(@, name, attributes[name])]
    /\ writer' = None

(* write_queue_attributes: one statement.                                  *)
StoreAttribute(c, name, attributes) ==
    /\ calls' = [calls EXCEPT ![c].left = @ \ {name}]
    /\ draft' = [Base(c) EXCEPT !.attributes = Upsert(@, name, attributes[name])]
    /\ writer' = c
    /\ UNCHANGED queue

Present(c) == Base(c) # None /\ Base(c).id = calls[c].id

Gone(c) == ~ Present(c)

(* The statements after CreateQueue's first, and its commit.  Tags are     *)
(* written last.                                                           *)
Create(c) ==
    /\ CanWrite(c)
    /\ calls[c].op = "Create"
    /\ \/ \E name \in calls[c].left : StoreAttribute(c, name, calls[c].request.attributes)
       \/ /\ calls[c].left = {}
          /\ queue' = [Base(c) EXCEPT !.tags = calls[c].request.tags]
          /\ writer' = None
          /\ draft' = None
          /\ Answer(c, "Ok")
       \/ Faults /\ Rollback(c, "InternalError")
    /\ UNCHANGED created

(* SetQueueAttributes: a queue deleted since has no row to refer to.       *)
SetAttributes(c) ==
    /\ CanWrite(c)
    /\ calls[c].op = "Set"
    /\ IF calls[c].left # {}
       THEN IF Gone(c) THEN Rollback(c, "InternalError")
            ELSE \/ \E name \in calls[c].left : StoreAttribute(c, name, calls[c].request)
                 \/ Faults /\ Rollback(c, "InternalError")
       ELSE IF DOMAIN calls[c].request = {} \/ Gone(c)
       THEN Commit(c, "Ok")
       ELSE /\ Base(c).modified < MaxWrites
            /\ queue' = [Base(c) EXCEPT !.modified = @ + 1]
            /\ writer' = None
            /\ draft' = None
            /\ Answer(c, "Ok")
    /\ UNCHANGED created

(* TagQueue and UntagQueue: each statement commits by itself.              *)
Tag(c) ==
    /\ CanWrite(c)
    /\ calls[c].op \in {"Tag", "Untag"}
    /\ IF calls[c].left = {}
       THEN Answer(c, "Ok") /\ UNCHANGED queue
       ELSE \E key \in calls[c].left :
            \/ /\ calls[c].op = "Tag"
               /\ Gone(c) \/ Faults
               /\ Answer(c, "InternalError")
               /\ UNCHANGED queue
            \/ /\ calls[c].op = "Tag" /\ ~ Gone(c)
               /\ queue' = [queue EXCEPT !.tags = Upsert(@, key, calls[c].request[key])]
               /\ calls' = [calls EXCEPT ![c].left = @ \ {key}]
            \/ /\ calls[c].op = "Untag"
               /\ queue' = IF Gone(c) THEN queue
                           ELSE [queue EXCEPT !.tags =
                                    [k \in DOMAIN @ \ {key} |-> @[k]]]
               /\ calls' = [calls EXCEPT ![c].left = @ \ {key}]
    /\ UNCHANGED <<draft, writer, created>>

(* DeleteQueue: one statement; everything of the queue goes with it.       *)
DeleteQueue(c) ==
    /\ CanWrite(c)
    /\ calls[c].op = "Delete"
    /\ queue' = IF Gone(c) THEN queue ELSE None
    /\ Answer(c, "Ok")
    /\ UNCHANGED <<draft, writer, created>>

(* sqs_send_internal: the ways it may end for an entry.  The size is       *)
(* compared by the INSERT.                                                 *)
Outcomes(c, entry) ==
    IF CheckMessage(entry) # "Ok" THEN {CheckMessage(entry)}
    ELSE IF entry.size > Limit(IF Gone(c) THEN << >> ELSE Base(c).attributes)
    THEN {"InvalidParameterValue"}
    ELSE IF Gone(c) THEN {"InternalError"}
    ELSE {"Ok"} \cup (IF Faults THEN {"InternalError"} ELSE {})

(* The entry is sent in its turn, the first one left.  Its message's row   *)
(* stays when an attribute of it cannot be stored after.                   *)
SendEntry(c) ==
    /\ CanWrite(c)
    /\ calls[c].op = "Send"
    /\ calls[c].left # {}
    /\ LET i == CHOOSE j \in calls[c].left : \A k \in calls[c].left : j <= k
           entry == calls[c].request.entries[i] IN
       \E outcome \in Outcomes(c, entry) :
            IF outcome # "Ok" /\ ~ calls[c].request.batch
            THEN Rollback(c, outcome)
            ELSE /\ calls' = [calls EXCEPT ![c].left = @ \ {i},
                                           ![c].outcome = Append(@, outcome)]
                 /\ IF CheckMessage(entry) # "Ok"
                    THEN UNCHANGED <<draft, writer>>
                    ELSE /\ writer' = c
                         /\ \/ /\ outcome # "Ok"
                               /\ draft' = Base(c)
                            \/ /\ \/ outcome = "Ok"
                                  \/ outcome = "InternalError" /\ entry.attributes > 0
                               /\ ~ Gone(c)
                               /\ draft' = [Base(c) EXCEPT !.messages = @ \cup {<<c, i>>}]
                 /\ UNCHANGED queue
    /\ UNCHANGED created

(* Each entry's answer, under its id.                                      *)
Send(c) ==
    /\ CanWrite(c)
    /\ calls[c].op = "Send"
    /\ calls[c].left = {}
    /\ Commit(c, {[id |-> calls[c].request.entries[i].id, outcome |-> calls[c].outcome[i]] :
                    i \in DOMAIN calls[c].outcome})
    /\ UNCHANGED created

(* A consumer takes the messages away (MessageLifecycle).                  *)
Consume ==
    /\ writer = None
    /\ queue # None
    /\ queue.messages # {}
    /\ queue' = [queue EXCEPT !.messages = {}]
    /\ UNCHANGED <<draft, writer, created, calls>>

Next ==
    \/ \E c \in Caller :
        Begin(c) \/ Resolve(c) \/ Insert(c) \/ Create(c) \/ SetAttributes(c) \/ Tag(c)
        \/ DeleteQueue(c) \/ SendEntry(c) \/ Send(c)
    \/ Consume

Spec == Init /\ [][Next]_vars

-----------------------------------------------------------------------------
Answered(c, op) ==
    /\ calls[c].at # "answered"
    /\ calls'[c].at = "answered"
    /\ calls[c].at \in {"insert", "write"}
    /\ calls[c].op = op

(* A CreateQueue that succeeds, whether it made the queue or found it,     *)
(* leaves the caller with the queue it asked for: what it asked for is     *)
(* what GetQueueAttributes reports, and what sends go by.  Two comparisons *)
(* of the code must take an attribute nobody set for the same value.       *)
CreateAgrees ==
    [][\A c \in Caller : Answered(c, "Create") /\ calls'[c].answer = "Ok" =>
        LET asked == calls[c].request.attributes IN
        /\ \A name \in DOMAIN asked \cap Typed :
                Reported(queue'.attributes)[name] = asked[name]
        /\ "MaximumMessageSize" \in DOMAIN asked =>
                Limit(queue'.attributes) = asked["MaximumMessageSize"]]_vars

(* Attributes change by whole requests: a queue appears with everything    *)
(* its creator asked for, or later changes by all a SetQueueAttributes     *)
(* asked for, together with the time of its last change, or not at all,    *)
(* wherever the request fails and whatever else goes on.                   *)
WritesAreWhole ==
    [][queue' # None =>
        \/ /\ queue # None
           /\ queue'.id = queue.id
           /\ queue'.attributes = queue.attributes
        \/ /\ queue # None
           /\ queue'.id = queue.id
           /\ \E c \in Caller :
                /\ Answered(c, "Set") /\ calls'[c].answer = "Ok"
                /\ queue'.attributes = Over(calls[c].request, queue.attributes)
                /\ queue'.modified = queue.modified + 1
        \/ /\ queue = None
           /\ \E c \in Caller :
                /\ Answered(c, "Create") /\ calls'[c].answer = "Ok"
                /\ queue'.attributes = calls[c].request.attributes
                /\ queue'.tags = calls[c].request.tags]_vars

(* A sender can act on a batch's answer: every entry has one, those        *)
(* answered as sent are stored, and those refused as the sender's fault,   *)
(* which it will correct and send again, left nothing behind.  Of the rest *)
(* nothing is known.                                                       *)
BatchAnswersTell ==
    [][\A c \in Caller :
        Answered(c, "Send") /\ calls[c].request.batch =>
            LET entries == calls[c].request.entries
                stored == {i \in DOMAIN entries : queue' # None /\ <<c, i>> \in queue'.messages}
            IN  \A i \in DOMAIN entries :
                    \E answer \in calls'[c].answer :
                        /\ \A other \in calls'[c].answer :
                                other.id = entries[i].id => other = answer
                        /\ answer.id = entries[i].id
                        /\ answer.outcome = "Ok" => i \in stored
                        /\ answer.outcome # "Ok" /\ IsSenderFault(answer.outcome)
                                => i \notin stored]_vars

=============================================================================
