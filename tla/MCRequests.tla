---------------------------- MODULE MCRequests ----------------------------
(* Instances of Requests for TLC.                                          *)
EXTENDS Requests, TLC

CONSTANTS u1, u2, k1, n1, n2

OwnUrl == [scheme |-> "https", name |-> "mq", port |-> 443]

(* A signature made now, too early, and dated another day.                 *)
Signed == {[scheme |-> "AWSv4", key |-> k1, proven |-> p, time |-> t, scope |-> 1] :
              p \in BOOLEAN, t \in {1440, 1560, 1561, 1439, None}}

ApiKeys == {[scheme |-> "NerveMqApiV1", key |-> k1, proven |-> p] : p \in BOOLEAN}

Base == [route |-> "sqs", routed |-> TRUE, write |-> TRUE, host |-> [name |-> "elsewhere", port |-> None],
         origin |-> None, authorization |-> None, session |-> None,
         target |-> "SendMessage", namespace |-> n1, body |-> "good"]

GoodSignature == CHOOSE a \in Signed : a.proven /\ a.time = 1560
GoodKey == CHOOSE a \in ApiKeys : a.proven

(* Every way to authenticate, ...                                          *)
Authenticated == {[Base EXCEPT !.authorization = a] : a \in Signed \cup ApiKeys \cup {Malformed}}

(* ... everything that may be asked for, ...                               *)
Asking == [Base EXCEPT !.authorization = GoodSignature,
                       !.origin = [OwnUrl EXCEPT !.name = "elsewhere"]]
Asked ==
    {[Asking EXCEPT !.target = t, !.namespace = n] :
        t \in {None, "Other", "CreateQueue", "PurgeQueue", "ListQueues", "ReceiveMessage"},
        n \in {n1, n2}}
    \cup
    {[Asking EXCEPT !.target = t, !.body = b] :
        t \in {"PurgeQueue", "ReceiveMessage"}, b \in {"large", "lacking", "bad", "broken"}}
    \cup
    {[Base EXCEPT !.authorization = GoodKey, !.body = "broken"]}
    \cup
    {[Base EXCEPT !.routed = FALSE, !.write = w, !.authorization = a] :
        w \in BOOLEAN, a \in {GoodSignature, GoodKey}}

(* ... and sessions from every page, under every name.                     *)
Hosts == {[name |-> "mq", port |-> None], [name |-> "mq", port |-> 8080],
          [name |-> "localhost", port |-> 8080], [name |-> "elsewhere", port |-> None]}
Origins == {None, Opaque, OwnUrl, [OwnUrl EXCEPT !.port = 8080], [OwnUrl EXCEPT !.name = "elsewhere"],
            [scheme |-> "http", name |-> "localhost", port |-> 8080],
            [scheme |-> "http", name |-> "localhost", port |-> 3000]}
Pages ==
    {[Base EXCEPT !.route = r, !.host = h, !.origin = o, !.session = u1] :
        r \in {"sqs", "managed", "own", "login"}, h \in Hosts \cup {None}, o \in Origins}
    \cup
    {[Base EXCEPT !.route = r, !.routed = d, !.write = w, !.host = OwnUrl, !.session = u] :
        r \in {"managed", "admin", "own", "login"}, d \in BOOLEAN, w \in BOOLEAN, u \in {u1, None}}
    \cup
    {[Base EXCEPT !.route = r, !.routed = (w = (r = "sqs")), !.write = w, !.host = OwnUrl,
                  !.session = u] :
        r \in {"sqs", "health"}, w \in BOOLEAN, u \in {u1, None}}

(* Keys on the admin API, alone or beside a session, which may be another  *)
(* user's.                                                                 *)
KeysElsewhere ==
    {[Base EXCEPT !.route = r, !.host = [name |-> "mq", port |-> 443], !.session = u,
                  !.authorization = GoodKey] :
        r \in {"managed", "admin", "own"}, u \in {u1, u2, None}}

AllInputs == Authenticated \cup Asked \cup Pages \cup KeysElsewhere

=============================================================================
