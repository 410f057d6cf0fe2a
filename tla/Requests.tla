------------------------------ MODULE Requests ------------------------------
(***************************************************************************)
(* What a request passes before a handler acts on it: the middleware of    *)
(* src/src/lib.rs (build_app) in its order, and for the SQS API the        *)
(* dispatcher (src/src/sqs/mod.rs, sqs_service).  Each reads the accounts  *)
(* and API keys at a moment of its own, while administrators change them.  *)
(*                                                                         *)
(* The gates that look at nothing but the request are operators.  Answers  *)
(* are their status and whether they are in AWS's format.                  *)
(*                                                                         *)
(* Routes: "sqs" (/api/sqs and below), "managed" (queues, statistics, API  *)
(* keys, namespaces), "admin" (users), "own" (logout, password), "login"   *)
(* (login, verify) and "health".  A request is routed when its method and  *)
(* path are those of a handler.  Bodies are those of the SQS API: one that *)
(* is "broken" ends with an error of the connection.                       *)
(***************************************************************************)
EXTENDS Integers

CONSTANTS
    Slot,        \* requests in progress at once
    User,        \* accounts
    Key,         \* access key ids
    Namespace,   \* namespaces
    Inputs,      \* requests as they arrive
    Own,         \* NERVEMQ_HOST: a scheme, a name and a port
    Configured,  \* whether it was set
    Now,         \* the server's clock, in minutes
    Malformed,   \* an Authorization header that cannot be read
    Opaque,      \* the origin "null" of a sandboxed page
    None         \* no such row, header or session

(* Accounts and keys as gates see them.                                    *)
Account == [role : {"user", "admin"}, enabled : BOOLEAN]
Access == {"member", "owner", "admin"}
KeyRow == [user : User, namespace : Namespace, access : Access]

ASSUME RequestsAssumption ==
    /\ None \notin User \cup Key \cup Account \cup KeyRow
    /\ Configured \in BOOLEAN
    /\ Now \in Int
    /\ Own \in [scheme : {"http", "https"}, name : STRING, port : Nat]
    /\ Opaque # Own
    /\ Malformed # None
    /\ \A input \in Inputs :
          /\ input.session \in User \cup {None}
          /\ input.routed /\ input.route = "sqs" => input.write
          /\ input.routed /\ input.route = "health" => ~ input.write
          /\ input.authorization \notin {None, Malformed} => input.authorization.key \in Key

VARIABLES
    account,   \* users
    apiKey,    \* api_keys
    signing,   \* Service::signing_keys
    request    \* each request in progress

vars == <<account, apiKey, signing, request>>

-----------------------------------------------------------------------------
(* Which server a request is for.  A Host header is a name and a port, or  *)
(* None for the port of the scheme.                                        *)

Loopback == {"localhost", "127.0.0.1", "[::1]"}

SchemeDefaultPort(scheme) == IF scheme = "https" THEN 443 ELSE 80

PortOr(port, scheme) == IF port = None THEN SchemeDefaultPort(scheme) ELSE port

IsAllowedHost(host) ==
    /\ host # None
    /\ \/ host.name \in Loopback
       \/ host.name = Own.name /\ PortOr(host.port, Own.scheme) = Own.port

IsExempt(route) == route \in {"sqs", "health"}

(* Deviation: the SQS API answers under its configured name only. *)
HostRefusedAnywhere(input) == Configured /\ ~ IsAllowedHost(input.host)

HostRefused(input) ==
    Configured /\ ~ IsExempt(input.route) /\ ~ IsAllowedHost(input.host)

(* Deviation: ports do not count. *)
SameName(origin, host) ==
    \/ origin = Own
    \/ origin # Opaque /\ host # None /\ host.name = origin.name

(* The configured origin, or the one the request was sent to.              *)
IsOwnOrigin(origin, host) ==
    \/ origin = Own
    \/ /\ origin # Opaque
       /\ host # None
       /\ host.name = origin.name
       /\ PortOr(host.port, origin.scheme) = origin.port

IsCrossOriginCookieWrite(input) ==
    /\ input.write
    /\ input.authorization = None
    /\ input.origin # None
    /\ ~ IsOwnOrigin(input.origin, input.host)

-----------------------------------------------------------------------------
(* Who a request is from.                                                  *)

MaxClockDrift == 120
Day == 1440

(* check_request_time: the date in the credential's scope is that of the   *)
(* signature, which is no further from the clock than clocks may drift.    *)
CheckRequestTime(time, scope) ==
    IF time = None THEN "MissingHeader"
    ELSE IF time \div Day # scope THEN "InvalidHeader"
    ELSE IF time < Now - MaxClockDrift \/ time > Now + MaxClockDrift
    THEN "SignatureExpired"
    ELSE "Ok"

(* What is wrong with the proof a key's request carries, once its key is   *)
(* found.                                                                  *)
Fault(authorization) ==
    IF authorization.scheme = "NerveMqApiV1"
    THEN IF authorization.proven THEN "Ok" ELSE "Whatever"
    ELSE IF CheckRequestTime(authorization.time, authorization.scope) # "Ok"
    THEN CheckRequestTime(authorization.time, authorization.scope)
    ELSE IF authorization.proven THEN "Ok" ELSE "Unauthorized"

(* AuthMiddleware::call: how AWS names it.                                 *)
AuthFailure(fault) ==
    CASE fault = "IdentityNotFound" -> "InvalidClientTokenId"
      [] fault \in {"MissingHeader", "InvalidHeader"} -> "IncompleteSignature"
      [] fault \in {"Unauthorized", "SignatureExpired"} -> "SignatureDoesNotMatch"
      [] OTHER -> "AccessDenied"

IsProtected(route) == route \in {"sqs", "managed", "admin"}

Manages == {"CreateQueue", "DeleteQueue", "PurgeQueue", "SetQueueAttributes",
            "TagQueue", "UntagQueue"}

(* The others name a queue by its URL, namespace included.                 *)
ByName == {"CreateQueue", "GetQueueUrl", "ListQueues"}

Method == Manages \cup ByName \cup
    {"GetQueueAttributes", "ListQueueTags", "SendMessage", "SendMessageBatch",
     "ReceiveMessage", "DeleteMessage", "DeleteMessageBatch",
     "ChangeMessageVisibility", "ChangeMessageVisibilityBatch"}

ManagesQueues(method) == method \in Manages

-----------------------------------------------------------------------------
(* Answers.                                                                *)

AwsStatus(error) ==
    CASE error \in {"ReceiptHandleIsInvalid", "NotFound"} -> 404
      [] error \in {"Unauthorized", "Forbidden", "UserNotFound", "IdentityNotFound",
                    "SignatureExpired"} -> 403
      [] error = "Internal" -> 500
      [] OTHER -> 400

(* The status of an error that is not answered in AWS's format.            *)
PlainStatus(error) ==
    CASE error \in {"Unauthorized", "UserNotFound", "IdentityNotFound",
                    "SignatureExpired"} -> 401
      [] error = "Forbidden" -> 403
      [] error \in {"ReceiptHandleIsInvalid", "NotFound"} -> 404
      [] error = "Conflict" -> 409
      [] error = "PayloadTooLarge" -> 413
      [] error = "Internal" -> 500
      [] OTHER -> 400

SqsError(error) == [format |-> "aws", status |-> AwsStatus(error)]
Plain(status) == [format |-> "plain", status |-> status]

(* auth_failure: AWS's format and status on the SQS API, 401 elsewhere.    *)
Refusal(route, failure) ==
    IF route = "sqs"
    THEN [format |-> "aws", status |-> IF failure = "IncompleteSignature" THEN 400 ELSE 403]
    ELSE Plain(401)

-----------------------------------------------------------------------------
(* The requests.  `by`: the key's row that authenticated it, or None for a *)
(* session; `active`: who has been allowed in since it arrived.            *)

NoRequest == [at |-> "free"]

Is(s, at) == request[s].at = at
Input(s) == request[s].input
Step(s, r) == request' = [request EXCEPT ![s] = r]
Move(s, at) == Step(s, [request[s] EXCEPT !.at = at])
Answer(s, answer) == Step(s, [request[s] EXCEPT !.at = "answered", !.answer = answer])

Enabled(u) == account[u] # None /\ account[u].enabled
Active == {u \in User : Enabled(u)}

(* Whom the gates check: the user of the key, or else of the session.      *)
Caller(s) == IF request[s].by # None THEN request[s].by.user ELSE Input(s).session

(* Whom the handler acts for.  Those that take an `Identity` act for the   *)
(* session's user, key or no key; the SQS API takes `Caller`, and user     *)
(* administration has the authority of whom the gates checked.             *)
Actor(s) == IF Input(s).route \in {"managed", "own"} THEN Input(s).session ELSE Caller(s)

(* The row of a key whose user is not disabled.                            *)
KeyOf(k) == IF apiKey[k] # None /\ Enabled(apiKey[k].user) THEN apiKey[k] ELSE None

Init ==
    /\ account = [u \in User |-> [role |-> "user", enabled |-> TRUE]]
    /\ apiKey = [k \in Key |-> None]
    /\ signing = [k \in Key |-> None]
    /\ request = [s \in Slot |-> NoRequest]

(* The gates that need nothing but the request.                            *)
Arrive(s, input) ==
    LET new(at, answer) ==
            [at |-> at, input |-> input, by |-> None, answer |-> answer, active |-> Active]
        next == IF HostRefused(input) THEN new("answered", Plain(421))
                ELSE IF IsCrossOriginCookieWrite(input) THEN new("answered", Plain(403))
                ELSE IF input.authorization = None THEN new("dispatch", None)
                ELSE IF input.authorization = Malformed
                THEN new("answered", Refusal(input.route, "IncompleteSignature"))
                ELSE new("lookup", None)
    IN  /\ Is(s, "free")
        /\ Step(s, next)
        /\ UNCHANGED <<account, apiKey, signing>>

(* authenticate_api_key reads the key's row; authenticate_sigv4 reads the  *)
(* body, asks the cache for the key, and fills it.                         *)
Lookup(s) ==
    LET k == Input(s).authorization.key
        signed == Input(s).authorization.scheme = "AWSv4"
        cached == signed /\ signing[k] # None
        row == IF cached THEN signing[k] ELSE KeyOf(k)
    IN  /\ Is(s, "lookup")
        /\ IF signed /\ Input(s).body = "broken"
           THEN Answer(s, Refusal(Input(s).route, AuthFailure("Internal")))
           ELSE IF row = None
           THEN Answer(s, Refusal(Input(s).route, AuthFailure("IdentityNotFound")))
           ELSE Step(s, [request[s] EXCEPT !.by = row,
                           !.at = IF signed /\ ~ cached THEN "remember" ELSE "prove"])
        /\ UNCHANGED <<account, apiKey, signing>>

Remember(s) ==
    /\ Is(s, "remember")
    /\ signing' = [signing EXCEPT ![Input(s).authorization.key] = request[s].by]
    /\ Move(s, "prove")
    /\ UNCHANGED <<account, apiKey>>

(* The secret or the signature.  authenticate_api_key then reads the user  *)
(* by e-mail, who may have been deleted.                                   *)
Prove(s) ==
    LET auth == Input(s).authorization
        gone == auth.scheme = "NerveMqApiV1" /\ account[request[s].by.user] = None
        fault == IF Fault(auth) = "Ok" /\ gone THEN "Sqlx" ELSE Fault(auth)
    IN  /\ Is(s, "prove")
        /\ IF fault = "Ok" THEN Move(s, "dispatch")
           ELSE Answer(s, Refusal(Input(s).route, AuthFailure(fault)))
        /\ UNCHANGED <<account, apiKey, signing>>

(* SqsApi: which method the request asks for.  Then the scopes' own gates. *)
Dispatch(s) ==
    LET target == Input(s).target
    IN  /\ Is(s, "dispatch")
        /\ IF Input(s).route = "sqs" /\ target = None
           THEN Answer(s, SqsError("InvalidHeader"))
           ELSE IF Input(s).route = "sqs" /\ target \notin Method
           THEN Answer(s, SqsError("InvalidMethod"))
           ELSE Move(s, IF IsProtected(Input(s).route) THEN "protect" ELSE "extract")
        /\ UNCHANGED <<account, apiKey, signing>>

(* Deviation: a disabled account keeps its role. *)
HasRoleStill(u, required) ==
    account[u] # None /\ (required = "admin" => account[u].role = "admin")

(* check_user_role                                                         *)
HasRole(u, required) ==
    Enabled(u) /\ (required = "admin" => account[u].role = "admin")

(* Protected                                                               *)
Protect(s) ==
    LET route == Input(s).route
        required == IF route = "admin" THEN "admin" ELSE "user"
        by == request[s].by
    IN  /\ Is(s, "protect")
        /\ IF by # None /\ required = "admin" /\ by.access # "admin"
           THEN Answer(s, Refusal(route, "AccessDenied"))
           ELSE IF by = None /\ Input(s).session = None
           THEN Answer(s, Refusal(route, "MissingAuthenticationToken"))
           ELSE IF HasRole(Caller(s), required) THEN Move(s, "extract")
           ELSE Answer(s, Refusal(route, "AccessDenied"))
        /\ UNCHANGED <<account, apiKey, signing>>

(* What target_queue makes of the queue's URL.                             *)
Elsewhere(s) ==
    Input(s).target \notin ByName /\ Input(s).namespace # request[s].by.namespace

(* sqs_service: the key, its cap, the body, the queue's URL.               *)
ExtractSqs(s) ==
    LET input == Input(s)
        by == request[s].by
    IN  IF by = None THEN Answer(s, Plain(PlainStatus("Unauthorized")))
        ELSE IF ManagesQueues(input.target) /\ by.access = "member"
        THEN Answer(s, SqsError("Forbidden"))
        ELSE IF input.body = "broken" THEN Answer(s, SqsError("Internal"))
        ELSE IF input.body = "large" THEN Answer(s, SqsError("PayloadTooLarge"))
        ELSE IF input.body = "lacking" THEN Answer(s, SqsError("MissingParameter"))
        ELSE IF input.body = "bad" THEN Answer(s, SqsError("InvalidParameter"))
        ELSE IF Elsewhere(s) THEN Answer(s, SqsError("Unauthorized"))
        ELSE Move(s, "act")

(* The router finds the handler, or none.  What handlers take from a       *)
(* request: the SQS API the key, others the session's identity, but for    *)
(* user administration, login and the health check.                        *)
Extract(s) ==
    LET input == Input(s)
    IN  /\ Is(s, "extract")
        /\ IF ~ input.routed
           THEN Answer(s, Plain(IF input.route = "health" THEN 405 ELSE 404))
           ELSE IF input.route = "sqs" THEN ExtractSqs(s)
           ELSE IF input.route \in {"managed", "own"} /\ input.session = None
           THEN Answer(s, Plain(401))
           ELSE Move(s, "act")
        /\ UNCHANGED <<account, apiKey, signing>>

(* The handler acts, and the answer is sent.                               *)
Leave(s) ==
    /\ Is(s, "act") \/ Is(s, "answered")
    /\ Step(s, NoRequest)
    /\ UNCHANGED <<account, apiKey, signing>>

-----------------------------------------------------------------------------
(* Administrators.  What the cache remembers of keys that change is        *)
(* forgotten with the change; Accounts has the steps in between.           *)

SetAccount(u, a) ==
    /\ account[u] # a
    /\ account' = [account EXCEPT ![u] = a]
    /\ apiKey' = [k \in Key |->
         IF a = None /\ apiKey[k] # None /\ apiKey[k].user = u THEN None ELSE apiKey[k]]
    /\ signing' = [k \in Key |-> None]
    /\ request' = [s \in Slot |->
         IF Is(s, "free") THEN NoRequest
         ELSE [request[s] EXCEPT !.active =
                 IF a # None /\ a.enabled THEN @ \cup {u} ELSE @]]

CreateKey(k, row) ==
    /\ apiKey[k] = None
    /\ account[row.user] # None
    /\ apiKey' = [apiKey EXCEPT ![k] = row]
    /\ UNCHANGED <<account, signing, request>>

DeleteKey(k) ==
    /\ apiKey[k] # None
    /\ apiKey' = [apiKey EXCEPT ![k] = None]
    /\ signing' = [signing EXCEPT ![k] = None]
    /\ UNCHANGED <<account, request>>

(* SIGNING_KEY_TTL, SIGNING_KEY_CACHE_CAP                                  *)
Forget(k) ==
    /\ signing[k] # None
    /\ signing' = [signing EXCEPT ![k] = None]
    /\ UNCHANGED <<account, apiKey, request>>

Serve(s) ==
    \/ \E input \in Inputs : Arrive(s, input)
    \/ Lookup(s)
    \/ Remember(s)
    \/ Prove(s)
    \/ Dispatch(s)
    \/ Protect(s)
    \/ Extract(s)
    \/ Leave(s)

Administer ==
    \/ \E u \in User, a \in Account \cup {None} : SetAccount(u, a)
    \/ \E k \in Key, row \in KeyRow : CreateKey(k, row)
    \/ \E k \in Key : DeleteKey(k) \/ Forget(k)

Next == Administer \/ \E s \in Slot : Serve(s)

Spec == Init /\ [][Next]_vars

-----------------------------------------------------------------------------

(* The values the variables take.                                          *)
Phase == {"lookup", "remember", "prove", "dispatch", "protect", "extract", "act", "answered"}

Request ==
    [at : Phase, input : Inputs, by : KeyRow \cup {None},
     answer : [format : {"aws", "plain"}, status : Nat] \cup {None}, active : SUBSET User]

TypeOK ==
    /\ account \in [User -> Account \cup {None}]
    /\ apiKey \in [Key -> KeyRow \cup {None}]
    /\ signing \in [Key -> KeyRow \cup {None}]
    /\ request \in [Slot -> Request \cup {NoRequest}]

(* A protected handler runs only if the gates' caller has been allowed in  *)
(* since the request arrived, whatever the signing keys' cache remembers,  *)
(* and with a key only in the key's namespace and within its access        *)
(* (protected_route.rs, call; mod.rs, sqs_service and target_queue).  It   *)
(* acts for that caller, unless a request to a managed route brings both a *)
(* key and a session: then for the session's user.                         *)
KeysKeepTheirPlace ==
    \A s \in Slot : Is(s, "act") /\ IsProtected(Input(s).route) =>
        /\ Caller(s) \in request[s].active
        /\ \/ Actor(s) = Caller(s)
           \/ /\ Input(s).route = "managed" /\ request[s].by # None
              /\ Actor(s) = Input(s).session /\ Actor(s) \in User
        /\ Input(s).route = "admin" => request[s].by = None \/ request[s].by.access = "admin"
        /\ Input(s).route = "sqs" =>
              /\ request[s].by # None
              /\ Input(s).target \in ByName \/ Input(s).namespace = request[s].by.namespace
              /\ ManagesQueues(Input(s).target) => request[s].by.access # "member"

(* "A request with an `Authorization` header (an API key or a SigV4        *)
(* signature) is authenticated by that header alone" (same_origin.rs): no  *)
(* handler acts for another user than the header's.                        *)
HeaderAuthenticatesAlone ==
    \A s \in Slot :
        Is(s, "act") /\ IsProtected(Input(s).route) /\ Input(s).authorization # None
            => Actor(s) = request[s].by.user

(* With NERVEMQ_HOST set, a page another site serves makes no handler      *)
(* write on the authority of a session, whichever name it reaches the      *)
(* server by (host.rs, same_origin.rs).                                    *)
CookieWritesAreOwn ==
    \A s \in Slot :
        Is(s, "act") /\ Configured /\ Input(s).write /\ Input(s).authorization = None
            /\ Input(s).origin # None
            => Input(s).origin = Own
               \/ /\ Input(s).origin # Opaque
                  /\ \/ Input(s).origin.name \in Loopback
                     \/ Input(s).origin.name = Own.name
                  /\ Input(s).origin.port = PortOr(Input(s).host.port, Input(s).origin.scheme)

(* Clients of the SQS API that say who they are can read every refusal:    *)
(* it is in AWS's format, and not a server error (authentication.rs, call; *)
(* protected_route.rs, call; sqs/error.rs).  Two answers are left out: the *)
(* one to what is not a request of that API, a plain 404, and the 500 to a *)
(* body that broke off, which only a key without a signature can get:      *)
(* signatures cover the body, and it was read to check them.               *)
SignedAnswersReadable ==
    \A s \in Slot :
        Is(s, "answered") /\ Input(s).route = "sqs" /\ Input(s).authorization # None
            => \/ /\ request[s].answer.format = "aws"
                  /\ request[s].answer.status \in {400, 403, 404}
               \/ ~ Input(s).routed /\ request[s].answer = Plain(404)
               \/ /\ Input(s).body = "broken" /\ request[s].answer = SqsError("Internal")
                  /\ Input(s).authorization.scheme # "AWSv4"

=============================================================================
