--------------------------- MODULE RequestsProofs ---------------------------
(***************************************************************************)
(* What the gates of Requests keep out, for every number of requests,      *)
(* accounts and keys.  A request's own part of the invariant follows it    *)
(* through its steps; administrators only add to who has been allowed in.  *)
(***************************************************************************)
EXTENDS Requests, TLAPS

USE RequestsAssumption

(* What a client that said who it is can make of an answer.                *)
Readable(s, answer) ==
    Input(s).route = "sqs" /\ Input(s).authorization # None
        => \/ answer.format = "aws" /\ answer.status \in {400, 403, 404}
           \/ ~ Input(s).routed /\ answer = Plain(404)
           \/ /\ Input(s).body = "broken" /\ answer = SqsError("Internal")
              /\ Input(s).authorization.scheme # "AWSv4"

(* A signature covers a body that arrived whole.                           *)
SignedWhole(input) ==
    input.authorization # None /\ input.authorization.scheme = "AWSv4" => input.body # "broken"

(* What a request that got past each gate has.                             *)
Passed(s) ==
    /\ Is(s, "answered") => Readable(s, request[s].answer)
    /\ Is(s, "dispatch") \/ Is(s, "protect") \/ Is(s, "extract") =>
          /\ Input(s).authorization # None => request[s].by # None
          /\ SignedWhole(Input(s))
    /\ ~ Is(s, "answered") =>
          /\ ~ HostRefused(Input(s))
          /\ ~ IsCrossOriginCookieWrite(Input(s))
    /\ request[s].by # None => Input(s).authorization # None
    /\ Is(s, "lookup") => Input(s).authorization \notin {None, Malformed}
    /\ Is(s, "remember") \/ Is(s, "prove") =>
          /\ request[s].by # None
          /\ Input(s).authorization \notin {None, Malformed}
          /\ SignedWhole(Input(s))
    /\ Is(s, "protect") => IsProtected(Input(s).route)
    /\ (Is(s, "extract") \/ Is(s, "act")) /\ IsProtected(Input(s).route) =>
          /\ Caller(s) \in request[s].active
          /\ Input(s).route = "admin" => request[s].by = None \/ request[s].by.access = "admin"
    /\ Is(s, "act") =>
          /\ Input(s).routed
          /\ Input(s).route \in {"managed", "own"} => Input(s).session # None
    /\ Is(s, "act") /\ Input(s).route = "sqs" =>
          /\ request[s].by # None
          /\ Input(s).target \in ByName \/ Input(s).namespace = request[s].by.namespace
          /\ ManagesQueues(Input(s).target) => request[s].by.access # "member"

Inv ==
    /\ TypeOK
    /\ \A s \in Slot : ~ Is(s, "free") => Active \subseteq request[s].active /\ Passed(s)

-----------------------------------------------------------------------------

(* A request in progress has the fields of one.                            *)
LEMMA InProgress ==
    ASSUME TypeOK, NEW s \in Slot, ~ Is(s, "free")
    PROVE  request[s] \in Request
  BY DEF TypeOK, Is, NoRequest

(* The answers requests get are answers.                                   *)
LEMMA AnswerType ==
    /\ \A route, failure :
          Refusal(route, failure) \in [format : {"aws", "plain"}, status : Nat]
    /\ \A error : SqsError(error) \in [format : {"aws", "plain"}, status : Nat]
    /\ Plain(401) \in [format : {"aws", "plain"}, status : Nat]
    /\ Plain(403) \in [format : {"aws", "plain"}, status : Nat]
    /\ Plain(404) \in [format : {"aws", "plain"}, status : Nat]
    /\ Plain(405) \in [format : {"aws", "plain"}, status : Nat]
    /\ Plain(421) \in [format : {"aws", "plain"}, status : Nat]
    /\ Plain(PlainStatus("Unauthorized")) \in [format : {"aws", "plain"}, status : Nat]
  <1>1. \A error : AwsStatus(error) \in Nat
    BY DEF AwsStatus
  <1>2. PlainStatus("Unauthorized") \in Nat
    BY DEF PlainStatus
  <1> QED
    BY <1>1, <1>2 DEF Refusal, SqsError, Plain

(* The errors the gates answer with are the client's.                      *)
Refused ==
    {"InvalidHeader", "InvalidMethod", "Forbidden", "PayloadTooLarge",
     "MissingParameter", "InvalidParameter", "Unauthorized"}

LEMMA AnswersReadable ==
    ASSUME NEW s
    PROVE  /\ \A failure : Readable(s, Refusal(Input(s).route, failure))
           /\ \A error \in Refused : Readable(s, SqsError(error))
           /\ ~ Input(s).routed => Readable(s, Plain(404))
  <1>1. \A error \in Refused : AwsStatus(error) \in {400, 403, 404}
    BY DEF Refused, AwsStatus
  <1> QED
    BY <1>1 DEF Readable, Refusal, SqsError

(* A step of one request leaves the others where they were.                *)
LEMMA OneStep ==
    ASSUME Inv, NEW s \in Slot, NEW r \in Request, Step(s, r),
           UNCHANGED <<account, apiKey>>, signing' \in [Key -> KeyRow \cup {None}],
           Active \subseteq r.active, Passed(s)'
    PROVE  Inv'
  <1>1. /\ request' \in [Slot -> Request \cup {NoRequest}]
        /\ request'[s] = r
        /\ \A t \in Slot \ {s} : request'[t] = request[t]
    BY DEF Inv, TypeOK, Step
  <1>2. TypeOK'
    BY <1>1 DEF Inv, TypeOK
  <1>3. Active' = Active
    BY DEF Active, Enabled
  <1>4. ASSUME NEW t \in Slot, t # s, ~ Is(t, "free")'
        PROVE  Active' \subseteq request'[t].active /\ Passed(t)'
    <2>1. Active \subseteq request[t].active /\ Passed(t)
      BY <1>1, <1>4 DEF Inv, Is
    <2> QED
      BY <1>1, <1>3, <1>4, <2>1 DEF Passed, Is, Input, Caller, Readable
  <1> QED
    BY <1>1, <1>2, <1>3, <1>4 DEF Inv

-----------------------------------------------------------------------------

(* The gates before authentication.                                        *)
LEMMA ArriveKeeps ==
    ASSUME Inv, NEW s \in Slot, NEW input \in Inputs, Arrive(s, input)
    PROVE  Inv'
  <1> DEFINE new(at, answer) ==
        [at |-> at, input |-> input, by |-> None, answer |-> answer, active |-> Active]
             Passing == ~ HostRefused(input) /\ ~ IsCrossOriginCookieWrite(input)
  <1>1. PICK at \in {"answered", "dispatch", "lookup"},
             answer \in [format : {"aws", "plain"}, status : Nat] \cup {None} :
          /\ Step(s, new(at, answer))
          /\ at # "answered" => ~ HostRefused(input) /\ ~ IsCrossOriginCookieWrite(input)
          /\ at = "lookup" => input.authorization \notin {None, Malformed}
          /\ at = "dispatch" => input.authorization = None
          /\ at = "answered" /\ input.route = "sqs" /\ input.authorization # None
                => answer.format = "aws" /\ answer.status \in {400, 403, 404}
    <2> HIDE DEF new
    <2>1. \/ \E answer \in [format : {"aws", "plain"}, status : Nat] :
                /\ Step(s, new("answered", answer))
                /\ input.route = "sqs" /\ input.authorization # None
                      => answer.format = "aws" /\ answer.status \in {400, 403, 404}
          \/ Passing /\ input.authorization = None /\ Step(s, new("dispatch", None))
          \/ /\ Passing /\ Step(s, new("lookup", None))
             /\ input.authorization \notin {None, Malformed}
      <3>1. CASE HostRefused(input)
        BY <3>1, AnswerType DEF Arrive, HostRefused, IsExempt, new
      <3>2. CASE ~ HostRefused(input) /\ IsCrossOriginCookieWrite(input)
        BY <3>2, AnswerType DEF Arrive, IsCrossOriginCookieWrite, new
      <3>3. CASE Passing /\ input.authorization = Malformed
        <4>1. Refusal("sqs", "IncompleteSignature").format = "aws"
              /\ Refusal("sqs", "IncompleteSignature").status = 400
          BY DEF Refusal
        <4> QED
          BY <3>3, <4>1, AnswerType DEF Arrive, new
      <3>4. CASE Passing /\ input.authorization # Malformed
        BY <3>4 DEF Arrive, new
      <3> QED
        BY <3>1, <3>2, <3>3, <3>4
    <2> QED
      BY <2>1
  <1>2. new(at, answer) \in Request
    BY <1>1 DEF Request, Phase, Active
  <1>3. request'[s] = new(at, answer)
    BY <1>1 DEF Step, Inv, TypeOK
  <1>4. Passed(s)'
    <2>1. /\ request'[s].at = at
          /\ request'[s].by = None
          /\ request'[s].input = input
          /\ request'[s].answer = answer
      BY <1>3
    <2>2. (Is(s, "answered") => Readable(s, request[s].answer))'
      BY <1>1, <2>1 DEF Is, Input, Readable
    <2>3. at = "dispatch" => SignedWhole(input)
      BY <1>1 DEF SignedWhole
    <2> QED
      BY <1>1, <2>1, <2>2, <2>3 DEF Passed, Is, Input
  <1>5. UNCHANGED <<account, apiKey>> /\ signing' \in [Key -> KeyRow \cup {None}]
    BY DEF Arrive, Inv, TypeOK
  <1> QED
    BY <1>1, <1>2, <1>4, <1>5, OneStep

(* Any answer ends what a request could still do.                          *)
LEMMA AnswerKeeps ==
    ASSUME Inv, NEW s \in Slot, ~ Is(s, "free"),
           NEW answer \in [format : {"aws", "plain"}, status : Nat], Answer(s, answer),
           Readable(s, answer), UNCHANGED <<account, apiKey, signing>>
    PROVE  Inv'
  <1> DEFINE r == [request[s] EXCEPT !.at = "answered", !.answer = answer]
  <1>1. r \in Request /\ r.active = request[s].active
    <2>1. request[s] \in Request
      BY InProgress DEF Inv
    <2>2. "answered" \in Phase
      BY DEF Phase
    <2> QED
      BY <2>1, <2>2 DEF Request
  <1>2. request'[s] = r
    BY DEF Answer, Step, Inv, TypeOK
  <1>3. Passed(s)'
    <2>1. /\ r.at = "answered"
          /\ r.by = request[s].by
          /\ r.input = request[s].input
          /\ r.answer = answer
      BY InProgress DEF Inv, Request
    <2>2. request[s].by # None => Input(s).authorization # None
      BY DEF Inv, Passed
    <2> HIDE DEF r
    <2> QED
      BY <1>2, <2>1, <2>2 DEF Passed, Is, Input, Readable
  <1> QED
    BY <1>1, <1>3, OneStep DEF Answer, Inv, TypeOK

(* A request that moves on to a gate needs what that gate's part says.     *)
LEMMA MoveKeeps ==
    ASSUME Inv, NEW s \in Slot, ~ Is(s, "free"), NEW at \in Phase, Move(s, at),
           UNCHANGED <<account, apiKey>>, signing' \in [Key -> KeyRow \cup {None}],
           ~ Is(s, "answered"), Passed(s)'
    PROVE  Inv'
  <1> DEFINE r == [request[s] EXCEPT !.at = at]
  <1>1. r \in Request /\ r.active = request[s].active
    BY InProgress DEF Inv, Request
  <1> QED
    BY <1>1, OneStep DEF Move, Inv

(* What a move leaves alone.                                               *)
LEMMA Moved ==
    ASSUME TypeOK, NEW s \in Slot, ~ Is(s, "free"), NEW at, Move(s, at)
    PROVE  /\ request'[s].at = at
           /\ request'[s].by = request[s].by
           /\ request'[s].input = request[s].input
           /\ request'[s].active = request[s].active
  BY InProgress DEF Move, Step, TypeOK, Request

(* Authentication.                                                         *)
LEMMA LookupKeeps ==
    ASSUME Inv, NEW s \in Slot, Lookup(s)
    PROVE  Inv'
  <1> DEFINE k == Input(s).authorization.key
             cached == Input(s).authorization.scheme = "AWSv4" /\ signing[k] # None
             row == IF cached THEN signing[k] ELSE KeyOf(k)
             at == IF cached \/ Input(s).authorization.scheme # "AWSv4"
                   THEN "prove" ELSE "remember"
             r == [request[s] EXCEPT !.by = row, !.at = at]
  <1>1. /\ ~ Is(s, "free")
        /\ request[s] \in Request
        /\ Input(s).authorization \notin {None, Malformed}
        /\ UNCHANGED <<account, apiKey, signing>>
        /\ Active \subseteq request[s].active
        /\ ~ HostRefused(Input(s)) /\ ~ IsCrossOriginCookieWrite(Input(s))
    BY InProgress DEF Inv, Passed, Lookup, Is
  <1>2. CASE row = None \/ ~ SignedWhole(Input(s))
    <2>1. \E failure : Answer(s, Refusal(Input(s).route, failure))
      BY <1>1, <1>2 DEF Lookup, SignedWhole
    <2> QED
      BY <1>1, <2>1, AnswerKeeps, AnswerType, AnswersReadable
  <1>3. CASE row # None /\ SignedWhole(Input(s))
    <2>1. k \in Key
      BY <1>1 DEF Input, Request
    <2>2. row \in KeyRow
      BY <1>3, <2>1 DEF KeyOf, Inv, TypeOK
    <2>3. Step(s, r)
      BY <1>1, <1>3 DEF Lookup, SignedWhole
    <2>4. /\ r \in Request
          /\ r.by = row /\ r.at = at /\ r.input = request[s].input
          /\ r.active = request[s].active
      BY <1>1, <2>2 DEF Request, Phase
    <2>5. request'[s] = r
      BY <2>3 DEF Step, Inv, TypeOK
    <2>6. Passed(s)'
      <3>1. at \in {"prove", "remember"}
        OBVIOUS
      <3> HIDE DEF r, at, row
      <3> QED
        BY <1>1, <1>3, <2>4, <2>5, <3>1 DEF Passed, Is, Input
    <2> QED
      BY <1>1, <2>3, <2>4, <2>6, OneStep DEF Inv, TypeOK
  <1> QED
    BY <1>2, <1>3

LEMMA RememberKeeps ==
    ASSUME Inv, NEW s \in Slot, Remember(s)
    PROVE  Inv'
  <1>1. /\ ~ Is(s, "free")
        /\ request[s] \in Request
        /\ request[s].by # None
        /\ Input(s).authorization \notin {None, Malformed}
        /\ SignedWhole(Input(s))
        /\ ~ HostRefused(Input(s)) /\ ~ IsCrossOriginCookieWrite(Input(s))
    BY InProgress DEF Inv, Passed, Remember, Is
  <1>2. signing' \in [Key -> KeyRow \cup {None}]
    <2>1. request[s].by \in KeyRow
      BY <1>1 DEF Request
    <2> QED
      BY <2>1 DEF Remember, Inv, TypeOK
  <1>3. Passed(s)'
    <2>1. /\ request'[s].at = "prove"
          /\ request'[s].by = request[s].by
          /\ request'[s].input = request[s].input
      BY <1>1, Moved DEF Remember, Inv
    <2> QED
      BY <1>1, <2>1 DEF Passed, Is, Input
  <1> QED
    BY <1>1, <1>2, <1>3, MoveKeeps DEF Remember, Is, Phase

LEMMA ProveKeeps ==
    ASSUME Inv, NEW s \in Slot, Prove(s)
    PROVE  Inv'
  <1>1. /\ ~ Is(s, "free")
        /\ request[s].by # None
        /\ Input(s).authorization \notin {None, Malformed}
        /\ SignedWhole(Input(s))
        /\ UNCHANGED <<account, apiKey, signing>>
        /\ ~ HostRefused(Input(s)) /\ ~ IsCrossOriginCookieWrite(Input(s))
    BY DEF Inv, Passed, Prove, Is
  <1>2. \/ Move(s, "dispatch")
        \/ \E failure : Answer(s, Refusal(Input(s).route, failure))
    BY DEF Prove
  <1>3. CASE Move(s, "dispatch")
    <2>1. Passed(s)'
      <3>1. /\ request'[s].at = "dispatch"
            /\ request'[s].by = request[s].by
            /\ request'[s].input = request[s].input
        BY <1>1, <1>3, Moved DEF Inv
      <3> QED
        BY <1>1, <3>1 DEF Passed, Is, Input
    <2> QED
      BY <1>1, <1>3, <2>1, MoveKeeps DEF Prove, Is, Phase, Inv, TypeOK
  <1>4. CASE \E failure : Answer(s, Refusal(Input(s).route, failure))
    BY <1>1, <1>4, AnswerKeeps, AnswerType, AnswersReadable
  <1> QED
    BY <1>2, <1>3, <1>4

-----------------------------------------------------------------------------

(* The gates after authentication.                                         *)
LEMMA DispatchKeeps ==
    ASSUME Inv, NEW s \in Slot, Dispatch(s)
    PROVE  Inv'
  <1>1. /\ ~ Is(s, "free")
        /\ UNCHANGED <<account, apiKey, signing>>
        /\ request[s].by # None <=> Input(s).authorization # None
        /\ SignedWhole(Input(s))
        /\ ~ HostRefused(Input(s)) /\ ~ IsCrossOriginCookieWrite(Input(s))
    BY DEF Inv, Passed, Dispatch, Is
  <1>2. \/ \E error \in Refused : Answer(s, SqsError(error))
        \/ ~ IsProtected(Input(s).route) /\ Move(s, "extract")
        \/ IsProtected(Input(s).route) /\ Move(s, "protect")
    BY DEF Dispatch, Refused
  <1>3. CASE \E error \in Refused : Answer(s, SqsError(error))
    BY <1>1, <1>3, AnswerKeeps, AnswerType, AnswersReadable
  <1>4. ASSUME NEW at \in {"extract", "protect"}, Move(s, at),
               IsProtected(Input(s).route) <=> at = "protect"
        PROVE  Inv'
    <2>1. Passed(s)'
      <3>1. /\ request'[s].at = at
            /\ request'[s].by = request[s].by
            /\ request'[s].input = request[s].input
        BY <1>1, <1>4, Moved DEF Inv
      <3> QED
        BY <1>1, <1>4, <3>1 DEF Passed, Is, Input
    <2> QED
      BY <1>1, <1>4, <2>1, MoveKeeps DEF Dispatch, Is, Phase, Inv, TypeOK
  <1> QED
    BY <1>2, <1>3, <1>4

LEMMA ProtectKeeps ==
    ASSUME Inv, NEW s \in Slot, Protect(s)
    PROVE  Inv'
  <1>1. /\ ~ Is(s, "free")
        /\ request[s] \in Request
        /\ Active \subseteq request[s].active
        /\ UNCHANGED <<account, apiKey, signing>>
        /\ request[s].by # None <=> Input(s).authorization # None
        /\ SignedWhole(Input(s))
        /\ ~ HostRefused(Input(s)) /\ ~ IsCrossOriginCookieWrite(Input(s))
    BY InProgress DEF Inv, Passed, Protect, Is
  <1>2. \/ \E failure : Answer(s, Refusal(Input(s).route, failure))
        \/ /\ Move(s, "extract")
           /\ Input(s).route = "admin" => request[s].by = None \/ request[s].by.access = "admin"
           /\ request[s].by # None \/ Input(s).session # None
           /\ Enabled(Caller(s))
    BY DEF Protect, HasRole
  <1>3. CASE \E failure : Answer(s, Refusal(Input(s).route, failure))
    BY <1>1, <1>3, AnswerKeeps, AnswerType, AnswersReadable
  <1>4. ASSUME Move(s, "extract"),
               Input(s).route = "admin" => request[s].by = None \/ request[s].by.access = "admin",
               request[s].by # None \/ Input(s).session # None,
               Enabled(Caller(s))
        PROVE  Inv'
    <2>1. Caller(s) \in User
      BY <1>1, <1>4 DEF Caller, Input, Request, KeyRow
    <2>2. Caller(s) \in request[s].active
      BY <1>1, <1>4, <2>1 DEF Active
    <2>3. Passed(s)'
      <3>1. /\ request'[s].at = "extract"
            /\ request'[s].by = request[s].by
            /\ request'[s].input = request[s].input
            /\ request'[s].active = request[s].active
        BY <1>1, <1>4, Moved DEF Inv
      <3> QED
        BY <1>1, <1>4, <2>2, <3>1 DEF Passed, Is, Input, Caller
    <2> QED
      BY <1>1, <1>4, <2>3, MoveKeeps DEF Protect, Is, Phase, Inv, TypeOK
  <1> QED
    BY <1>2, <1>3, <1>4

LEMMA ExtractKeeps ==
    ASSUME Inv, NEW s \in Slot, Extract(s)
    PROVE  Inv'
  <1>1. /\ ~ Is(s, "free")
        /\ request[s] \in Request
        /\ UNCHANGED <<account, apiKey, signing>>
        /\ IsProtected(Input(s).route) =>
              /\ Caller(s) \in request[s].active
              /\ Input(s).route = "admin" => request[s].by = None \/ request[s].by.access = "admin"
        /\ request[s].by # None <=> Input(s).authorization # None
        /\ SignedWhole(Input(s))
        /\ ~ HostRefused(Input(s)) /\ ~ IsCrossOriginCookieWrite(Input(s))
    BY InProgress DEF Inv, Passed, Extract, Is
  <1> DEFINE Plainly == {Plain(401), Plain(404), Plain(405), Plain(PlainStatus("Unauthorized"))}
             Acts == /\ Move(s, "act")
                     /\ Input(s).routed
                     /\ Input(s).route \in {"managed", "own"} => Input(s).session # None
                     /\ Input(s).route = "sqs" =>
                          /\ request[s].by # None
                          /\ ManagesQueues(Input(s).target) => request[s].by.access # "member"
                          /\ ~ Elsewhere(s)
  <1>2. \/ \E error \in Refused \cup {"Internal"} :
             Answer(s, SqsError(error)) /\ Readable(s, SqsError(error))
        \/ \E answer \in Plainly : Answer(s, answer) /\ Readable(s, answer)
        \/ Acts
    <2>1. CASE ~ Input(s).routed
      <3>1. \/ Input(s).route # "health" /\ Answer(s, Plain(404))
            \/ Input(s).route = "health" /\ Answer(s, Plain(405))
        BY <2>1 DEF Extract
      <3> QED
        BY <2>1, <3>1, AnswersReadable DEF Readable
    <2>2. CASE Input(s).routed /\ Input(s).route = "sqs"
      <3>1. \/ request[s].by = None /\ Answer(s, Plain(PlainStatus("Unauthorized")))
            \/ Input(s).body = "broken" /\ request[s].by # None /\ Answer(s, SqsError("Internal"))
            \/ \E error \in Refused : Answer(s, SqsError(error))
            \/ Acts
        BY <2>2 DEF Extract, ExtractSqs, Refused
      <3>2. Input(s).body = "broken" /\ request[s].by # None => Readable(s, SqsError("Internal"))
        BY <1>1 DEF SignedWhole, Readable
      <3>3. request[s].by = None => Readable(s, Plain(PlainStatus("Unauthorized")))
        BY <1>1 DEF Readable
      <3> QED
        BY <3>1, <3>2, <3>3, AnswersReadable
    <2>3. CASE Input(s).routed /\ Input(s).route # "sqs"
      <3>1. Answer(s, Plain(401)) \/ Acts
        BY <2>3 DEF Extract
      <3> QED
        BY <2>3, <3>1 DEF Readable
    <2> QED
      BY <2>1, <2>2, <2>3
  <1>3. CASE \E error \in Refused \cup {"Internal"} :
               Answer(s, SqsError(error)) /\ Readable(s, SqsError(error))
    BY <1>1, <1>3, AnswerKeeps, AnswerType
  <1>4. CASE \E answer \in Plainly : Answer(s, answer) /\ Readable(s, answer)
    BY <1>1, <1>4, AnswerKeeps, AnswerType
  <1>5. CASE Acts
    <2>1. Passed(s)'
      <3>1. /\ request'[s].at = "act"
            /\ request'[s].by = request[s].by
            /\ request'[s].input = request[s].input
            /\ request'[s].active = request[s].active
        BY <1>1, <1>5, Moved DEF Inv
      <3> QED
        BY <1>1, <1>5, <3>1 DEF Passed, Is, Input, Caller, Elsewhere
    <2> QED
      BY <1>1, <1>5, <2>1, MoveKeeps DEF Extract, Is, Phase, Inv, TypeOK
  <1> QED
    BY <1>2, <1>3, <1>4, <1>5

(* A request that is over.                                                 *)
LEMMA LeaveKeeps ==
    ASSUME Inv, NEW s \in Slot, Leave(s)
    PROVE  Inv'
  <1>1. /\ request' = [request EXCEPT ![s] = NoRequest]
        /\ UNCHANGED <<account, apiKey, signing>>
    BY DEF Leave, Step
  <1>2. TypeOK' /\ Active' = Active
    BY <1>1 DEF Inv, TypeOK, Active, Enabled
  <1>3. Is(s, "free")'
    BY <1>1 DEF Is, NoRequest, Inv, TypeOK
  <1>4. ASSUME NEW t \in Slot, t # s, ~ Is(t, "free")'
        PROVE  Active' \subseteq request'[t].active /\ Passed(t)'
    <2>1. request'[t] = request[t]
      BY <1>1, <1>4 DEF Inv, TypeOK
    <2>2. Active \subseteq request[t].active /\ Passed(t)
      BY <1>4, <2>1 DEF Inv, Is
    <2> QED
      BY <1>2, <1>4, <2>1, <2>2 DEF Passed, Is, Input, Caller, Readable
  <1> QED
    BY <1>2, <1>3, <1>4 DEF Inv

-----------------------------------------------------------------------------

(* An account that is allowed in is noted by every request in progress.    *)
LEMMA SetAccountKeeps ==
    ASSUME Inv, NEW u \in User, NEW a \in Account \cup {None}, SetAccount(u, a)
    PROVE  Inv'
  <1>1. /\ account' \in [User -> Account \cup {None}]
        /\ apiKey' \in [Key -> KeyRow \cup {None}]
        /\ signing' \in [Key -> KeyRow \cup {None}]
    BY DEF SetAccount, Inv, TypeOK
  <1>2. ASSUME NEW s \in Slot, Is(s, "free")
        PROVE  request'[s] = NoRequest /\ Is(s, "free")'
    BY <1>2 DEF SetAccount, NoRequest, Is
  <1>3. ASSUME NEW s \in Slot, ~ Is(s, "free")
        PROVE  /\ request'[s] \in Request
               /\ Active' \subseteq request'[s].active
               /\ Passed(s)'
    <2> DEFINE active == IF a # None /\ a.enabled THEN request[s].active \cup {u}
                         ELSE request[s].active
    <2>1. request[s] \in Request /\ Active \subseteq request[s].active /\ Passed(s)
      BY <1>3, InProgress DEF Inv
    <2>2. request'[s] = [request[s] EXCEPT !.active = active]
      BY <1>3 DEF SetAccount
    <2>3. /\ request'[s] \in Request
          /\ request'[s].at = request[s].at
          /\ request'[s].by = request[s].by
          /\ request'[s].input = request[s].input
          /\ request'[s].answer = request[s].answer
          /\ request'[s].active = active
      BY <2>1, <2>2 DEF Request
    <2>4. Active' \subseteq active
      <3>1. account' = [account EXCEPT ![u] = a]
        BY DEF SetAccount
      <3> QED
        BY <2>1, <3>1 DEF Active, Enabled, Inv, TypeOK
    <2>5. Passed(s)'
      BY <2>1, <2>3 DEF Passed, Is, Input, Caller, Readable
    <2> QED
      BY <2>3, <2>4, <2>5
  <1>4. request' \in [Slot -> Request \cup {NoRequest}]
    <2>1. request' = [s \in Slot |-> request'[s]]
      BY DEF SetAccount
    <2> QED
      BY <1>2, <1>3, <2>1
  <1> QED
    BY <1>1, <1>2, <1>3, <1>4 DEF Inv, TypeOK

(* Other changes do not concern requests in progress.                      *)
LEMMA OthersKeep ==
    ASSUME Inv, UNCHANGED <<account, request>>,
           apiKey' \in [Key -> KeyRow \cup {None}], signing' \in [Key -> KeyRow \cup {None}]
    PROVE  Inv'
  BY DEF Inv, TypeOK, Is, Passed, Input, Caller, Active, Enabled, Readable

(* The invariant holds of every reachable state, however many requests,    *)
(* accounts and keys there are.                                            *)
THEOREM Invariance == Spec => []Inv
  <1>1. Init => Inv
    <2> SUFFICES ASSUME Init PROVE Inv
      OBVIOUS
    <2>1. TypeOK
      BY DEF Init, TypeOK, Account
    <2>2. \A s \in Slot : Is(s, "free")
      BY DEF Init, Is, NoRequest
    <2> QED
      BY <2>1, <2>2 DEF Inv
  <1>2. Inv /\ [Next]_vars => Inv'
    <2> SUFFICES ASSUME Inv, [Next]_vars PROVE Inv'
      OBVIOUS
    <2>1. ASSUME NEW s \in Slot, Serve(s) PROVE Inv'
      BY <2>1, ArriveKeeps, LookupKeeps, RememberKeeps, ProveKeeps, DispatchKeeps,
         ProtectKeeps, ExtractKeeps, LeaveKeeps DEF Serve
    <2>2. CASE Administer
      <3>1. ASSUME NEW u \in User, NEW a \in Account \cup {None}, SetAccount(u, a) PROVE Inv'
        BY <3>1, SetAccountKeeps
      <3>2. ASSUME NEW k \in Key, NEW row \in KeyRow, CreateKey(k, row) PROVE Inv'
        BY <3>2, OthersKeep DEF CreateKey, Inv, TypeOK
      <3>3. ASSUME NEW k \in Key, DeleteKey(k) \/ Forget(k) PROVE Inv'
        BY <3>3, OthersKeep DEF DeleteKey, Forget, Inv, TypeOK
      <3> QED
        BY <2>2, <3>1, <3>2, <3>3 DEF Administer
    <2>3. CASE UNCHANGED vars
      BY <2>3, OthersKeep DEF vars, Inv, TypeOK
    <2> QED
      BY <2>1, <2>2, <2>3 DEF Next
  <1> QED
    BY <1>1, <1>2, PTL DEF Spec

(* Protected handlers run only for callers allowed in, act for them or for *)
(* the session's user, and with keys stay within the keys' namespace and   *)
(* access (KeysKeepTheirPlace).                                            *)
THEOREM KeysStayInPlace == Spec => []KeysKeepTheirPlace
  <1>1. Inv => KeysKeepTheirPlace
    <2> SUFFICES ASSUME Inv, NEW s \in Slot, Is(s, "act"), IsProtected(Input(s).route)
                 PROVE  /\ Caller(s) \in request[s].active
                        /\ \/ Actor(s) = Caller(s)
                           \/ /\ Input(s).route = "managed" /\ request[s].by # None
                              /\ Actor(s) = Input(s).session /\ Actor(s) \in User
                        /\ Input(s).route = "admin" =>
                              request[s].by = None \/ request[s].by.access = "admin"
                        /\ Input(s).route = "sqs" =>
                              /\ request[s].by # None
                              /\ \/ Input(s).target \in ByName
                                 \/ Input(s).namespace = request[s].by.namespace
                              /\ ManagesQueues(Input(s).target) => request[s].by.access # "member"
      BY DEF KeysKeepTheirPlace
    <2>1. Passed(s) /\ Input(s) \in Inputs
      BY InProgress DEF Inv, Is, Input, Request
    <2>2. Actor(s) # Caller(s) =>
            /\ Input(s).route = "managed" /\ request[s].by # None
            /\ Actor(s) = Input(s).session /\ Actor(s) \in User
      BY <2>1 DEF Passed, Actor, Caller, IsProtected
    <2> QED
      BY <2>1, <2>2 DEF Passed
  <1> QED
    BY <1>1, Invariance, PTL

(* Every refusal a client of the SQS API gets that said who it is can be   *)
(* read by it, but for the plain 404 of what is not routed and the 500 to  *)
(* an unsigned body that broke off (SignedAnswersReadable).                *)
THEOREM RefusalsReadable == Spec => []SignedAnswersReadable
  <1>1. Inv => SignedAnswersReadable
    BY DEF Inv, Passed, SignedAnswersReadable, Readable, Is
  <1> QED
    BY <1>1, Invariance, PTL

(* No handler writes for a session on behalf of another site's page.       *)
THEOREM SitesStayApart == Spec => []CookieWritesAreOwn
  <1>1. Inv => CookieWritesAreOwn
    <2> SUFFICES ASSUME Inv, NEW s \in Slot, Is(s, "act"), Configured, Input(s).write,
                        Input(s).authorization = None, Input(s).origin # None,
                        Input(s).origin # Own
                 PROVE  /\ Input(s).origin # Opaque
                        /\ \/ Input(s).origin.name \in Loopback
                           \/ Input(s).origin.name = Own.name
                        /\ Input(s).origin.port = PortOr(Input(s).host.port, Input(s).origin.scheme)
      BY DEF CookieWritesAreOwn
    <2>1. Passed(s) /\ Input(s) \in Inputs
      BY InProgress DEF Inv, Is, Input, Request
    <2>2. IsOwnOrigin(Input(s).origin, Input(s).host)
      BY <2>1 DEF Passed, Is, IsCrossOriginCookieWrite
    <2>3. Input(s).route \notin {"sqs", "health"}
      BY <2>1 DEF Passed, Is
    <2>4. IsAllowedHost(Input(s).host)
      BY <2>1, <2>3 DEF Passed, Is, HostRefused, IsExempt
    <2> QED
      BY <2>2, <2>4 DEF IsOwnOrigin, IsAllowedHost
  <1> QED
    BY <1>1, Invariance, PTL

=============================================================================
