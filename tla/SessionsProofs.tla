--------------------------- MODULE SessionsProofs ---------------------------
(***************************************************************************)
(* What the sessions of Sessions hold to, for every number of users, keys  *)
(* and requests and every TTL.  A request is followed from the row it      *)
(* loads to the row it stores; what it knows of that row stays true, or    *)
(* the row is gone, and gone rows' keys are never drawn again.             *)
(***************************************************************************)
EXTENDS Sessions, TLAPS

USE ConstantsAssumption, MarkersAssumption

(* No two stored rows have an id in common.                                *)
IdsDiffer == \A j, k \in Here : sessions[j].id = sessions[k].id => j = k

Loading == {"row", "state"}

(* Of a request with a cookie, what it knows of its session.               *)
KnowsItsSession(q) ==
    /\ q.cookie # None => q.cookie \in Drawn
    /\ q.at \in Loading => q.cookie # None /\ q.as = None /\ q.status = "unchanged"
    /\ q.at = "state" =>
          /\ q.cookie \in Here => sessions[q.cookie].id = q.row
          /\ ~ q.crossed => q.cookie \in Here
    /\ q.status = "changed" =>
          /\ q.as \in Email
          /\ q.cookie \in Here => q.as = issuedTo[q.cookie]
    /\ q.op # "login" /\ q.as # None /\ ~ q.crossed =>
          q.cookie # None /\ q.as = issuedTo[q.cookie]

(* Of a request, that its user was found active, or would be.              *)
KnowsItsUser(q) ==
    /\ q.at \in Loading \cup {"handler"} =>
          /\ ActiveUsers \cap Watched(q) \subseteq q.seen
          /\ q.status # "renewed"
    /\ q.at = "save" => q.status = "renewed"
    /\ q.status = "renewed" => q.op = "login" /\ q.as \in Email
    /\ q.at \in {"acting", "set"} \/ q.status = "renewed" => q.as \in q.seen

Fits(s) ==
    request[s] # Idle => KnowsItsSession(request[s]) /\ KnowsItsUser(request[s])

Inv ==
    /\ TypeOK
    /\ IdsDiffer
    /\ SessionsKeepTheirUser
    /\ \A s \in Request : Fits(s)

-----------------------------------------------------------------------------

(* A request in flight has the fields of one.                              *)
LEMMA InFlight ==
    ASSUME TypeOK, NEW s \in Request, request[s] # Idle
    PROVE  request[s] \in Req
  BY DEF TypeOK

(* A stored session is a row, of the user its key was drawn for.           *)
LEMMA StoredRow ==
    ASSUME TypeOK, NEW k \in Here
    PROVE  /\ k \in SessionKey /\ k # None
           /\ sessions[k] \in Row
           /\ k \in Drawn
  BY DEF TypeOK, Here

(* A request whose progress a step leaves alone, but for what it observes, *)
(* goes on fitting, if the step ends sessions and draws keys at most, and  *)
(* shows the request the users it activates and the end of its session.    *)
LEMMA StillFits ==
    ASSUME TypeOK, NEW s \in Request, Fits(s),
           \A k \in Drawn : k \in Drawn' /\ issuedTo'[k] = issuedTo[k],
           \A k \in Drawn : k \in Here' => k \in Here /\ sessions'[k].id = sessions[k].id,
           request[s] = Idle => request'[s] = Idle,
           request[s] # Idle =>
             \E seen \in SUBSET Email, crossed \in BOOLEAN :
               /\ request'[s] = [request[s] EXCEPT !.seen = seen, !.crossed = crossed]
               /\ request[s].seen \subseteq seen
               /\ (ActiveUsers' \ ActiveUsers) \cap Watched(request[s]) \subseteq seen
               /\ request[s].crossed => crossed
               /\ request[s].at = "state" /\ ~ crossed /\ request[s].cookie \in Here =>
                      request[s].cookie \in Here'
    PROVE  Fits(s)' /\ request'[s] \in Req \cup {Idle}
  <1>1. CASE request[s] = Idle
    BY <1>1 DEF Fits
  <1>2. CASE request[s] # Idle
    <2> DEFINE q == request[s]
    <2>1. q \in Req /\ KnowsItsSession(q) /\ KnowsItsUser(q)
      BY <1>2, InFlight DEF Fits
    <2>2. PICK seen \in SUBSET Email, crossed \in BOOLEAN :
               /\ request'[s] = [q EXCEPT !.seen = seen, !.crossed = crossed]
               /\ q.seen \subseteq seen
               /\ (ActiveUsers' \ ActiveUsers) \cap Watched(q) \subseteq seen
               /\ q.crossed => crossed
               /\ q.at = "state" /\ ~ crossed /\ q.cookie \in Here => q.cookie \in Here'
      BY <1>2
    <2> DEFINE p == request'[s]
    <2>3. /\ p \in Req
          /\ p.op = q.op /\ p.at = q.at /\ p.cookie = q.cookie /\ p.row = q.row
          /\ p.as = q.as /\ p.status = q.status /\ p.who = q.who
          /\ p.seen = seen /\ p.crossed = crossed
      <3>1. p = [q EXCEPT !.seen = seen, !.crossed = crossed]
        BY <2>2
      <3>2. q \in Req
        BY <2>1
      <3> HIDE DEF p, q
      <3>3. p \in Req
        BY <3>1, <3>2 DEF Req
      <3>4. p.op = q.op /\ p.at = q.at /\ p.cookie = q.cookie /\ p.row = q.row
        BY <3>1, <3>2 DEF Req
      <3>5. p.as = q.as /\ p.status = q.status /\ p.who = q.who /\ p.seen = seen
        BY <3>1, <3>2 DEF Req
      <3>6. p.crossed = crossed
        BY <3>1, <3>2 DEF Req
      <3> QED
        BY <3>3, <3>4, <3>5, <3>6
    <2>4. Watched(p) = Watched(q)
      BY <2>3 DEF Watched
    <2>5. KnowsItsUser(request[s])'
      BY <2>1, <2>2, <2>3, <2>4 DEF KnowsItsUser, Watched, Loading
    <2>6. KnowsItsSession(request[s])'
      <3>1. q.cookie # None => q.cookie \in Drawn' /\ issuedTo'[q.cookie] = issuedTo[q.cookie]
        BY <2>1 DEF KnowsItsSession
      <3>2. q.cookie # None /\ q.cookie \in Here' =>
              q.cookie \in Here /\ sessions'[q.cookie].id = sessions[q.cookie].id
        BY <2>1 DEF KnowsItsSession
      <3>3. q.cookie \in Here' => q.cookie # None
        BY DEF Here
      <3> HIDE DEF q
      <3>4. /\ q.cookie # None => q.cookie \in Drawn'
            /\ q.at \in Loading => q.cookie # None /\ q.as = None /\ q.status = "unchanged"
            /\ q.op # "login" /\ q.as # None /\ ~ crossed =>
                  q.cookie # None /\ q.as = issuedTo'[q.cookie]
        BY <2>1, <2>2, <3>1 DEF KnowsItsSession
      <3>5. q.at = "state" =>
              /\ q.cookie \in Here' => sessions'[q.cookie].id = q.row
              /\ ~ crossed => q.cookie \in Here'
        BY <2>1, <2>2, <3>2, <3>3 DEF KnowsItsSession
      <3>6. q.status = "changed" =>
              /\ q.as \in Email
              /\ q.cookie \in Here' => q.as = issuedTo'[q.cookie]
        BY <2>1, <3>1, <3>2, <3>3 DEF KnowsItsSession
      <3> QED
        BY <2>3, <3>4, <3>5, <3>6 DEF KnowsItsSession, Loading
    <2> QED
      BY <2>3, <2>5, <2>6 DEF Fits
  <1> QED
    BY <1>1, <1>2

(* Of a step that moves one request and leaves the tables alone, only that *)
(* request's part is left to show.                                         *)
LEMMA OneRequest ==
    ASSUME Inv, NEW r \in Request,
           UNCHANGED <<now, users, sessions, issuedTo>>,
           NEW next \in Req \cup {Idle},
           request' = [request EXCEPT ![r] = next],
           next # Idle => KnowsItsSession(next) /\ KnowsItsUser(next)
    PROVE  Inv'
  <1>1. TypeOK'
    BY DEF Inv, TypeOK, Here, Drawn
  <1>2. IdsDiffer' /\ SessionsKeepTheirUser'
    BY DEF Inv, IdsDiffer, SessionsKeepTheirUser, Here
  <1>3. ASSUME NEW s \in Request PROVE Fits(s)'
    <2>1. request'[s] \in {next, request[s]}
      BY DEF Inv, TypeOK
    <2>2. CASE request'[s] = next
      BY <2>2 DEF Fits, KnowsItsSession, KnowsItsUser, Watched, Here, Drawn, ActiveUsers
    <2>3. CASE request'[s] = request[s]
      BY <2>3 DEF Inv, Fits, KnowsItsSession, KnowsItsUser, Watched, Here, Drawn, ActiveUsers
    <2> QED
      BY <2>1, <2>2, <2>3
  <1> QED
    BY <1>1, <1>2, <1>3 DEF Inv

-----------------------------------------------------------------------------

LEMMA InitInv == Init => Inv
  <1> SUFFICES ASSUME Init PROVE Inv
    OBVIOUS
  <1>1. Here = {}
    BY DEF Init, Here
  <1>2. TypeOK
    BY <1>1 DEF Init, TypeOK
  <1> QED
    BY <1>1, <1>2 DEF Init, Inv, IdsDiffer, SessionsKeepTheirUser, Fits

(* Requests arrive with nothing loaded.                                    *)
LEMMA ArriveStep ==
    ASSUME Inv, NEW r \in Request, NEW op \in Operation, NEW cookie \in SessionKey \cup {None},
           NEW who \in Email \cup {None}, Arrive(r, op, cookie, who)
    PROVE  Inv'
  <1> DEFINE next ==
         [op |-> op, at |-> IF cookie = None THEN "handler" ELSE "row",
          cookie |-> cookie, row |-> 0, as |-> None, status |-> "unchanged",
          who |-> who, crossed |-> FALSE,
          seen |-> ActiveUsers \cap IF op = "login" THEN {who}
                                    ELSE IF cookie = None THEN {} ELSE Email]
  <1>1. /\ request' = [request EXCEPT ![r] = next]
        /\ UNCHANGED <<now, users, sessions, issuedTo>>
        /\ cookie \in Drawn \cup {None}
    BY DEF Arrive
  <1>2. next \in Req
    BY DEF Req, ActiveUsers
  <1>3. KnowsItsSession(next)
    BY <1>1 DEF KnowsItsSession, Loading, Drawn
  <1>4. KnowsItsUser(next)
    BY <1>1 DEF KnowsItsUser, Loading, Watched, ActiveUsers
  <1> HIDE DEF next
  <1> QED
    BY <1>1, <1>2, <1>3, <1>4, OneRequest

LEMMA LoadRowStep ==
    ASSUME Inv, NEW r \in Request, LoadRow(r)
    PROVE  Inv'
  <1> DEFINE q == request[r]
             key == q.cookie
             found == key \in Here /\ sessions[key].expires > now
             next == IF found
                     THEN [q EXCEPT !.at = "state", !.row = sessions[key].id]
                     ELSE [q EXCEPT !.at = "handler", !.cookie = None,
                                    !.seen = q.seen \cap {q.who}]
  <1>1. /\ q \in Req /\ q.at = "row" /\ q # Idle
        /\ KnowsItsSession(q) /\ KnowsItsUser(q)
    BY InFlight DEF LoadRow, Reaches, Inv, Fits
  <1>2. /\ request' = [request EXCEPT ![r] = next]
        /\ UNCHANGED <<now, users, sessions, issuedTo>>
    BY DEF LoadRow
  <1>3. found => sessions[key].id \in Nat /\ key \in Here
    BY StoredRow DEF Inv, Row
  <1> HIDE DEF found
  <1>4. /\ next \in Req
        /\ next.op = q.op /\ next.as = None /\ next.status = "unchanged"
        /\ next.crossed = q.crossed /\ next.who = q.who
        /\ next.at = IF found THEN "state" ELSE "handler"
        /\ next.cookie = IF found THEN key ELSE None
        /\ next.seen = IF found THEN q.seen ELSE q.seen \cap {q.who}
        /\ found => next.row = sessions[key].id
    BY <1>1, <1>3 DEF Req, KnowsItsSession, Loading
  <1> HIDE DEF next
  <1>5. KnowsItsSession(next)
    BY <1>1, <1>3, <1>4 DEF KnowsItsSession, Loading
  <1>6. ActiveUsers \cap Watched(next) \subseteq next.seen
    BY <1>1, <1>4 DEF KnowsItsUser, Loading, Watched, ActiveUsers
  <1>7. KnowsItsUser(next)
    BY <1>4, <1>6 DEF KnowsItsUser
  <1> QED
    BY <1>2, <1>4, <1>5, <1>7, OneRequest

(* The row found by id is the cookie's, or the cookie's has gone.          *)
LEMMA LoadStateStep ==
    ASSUME Inv, NEW r \in Request, LoadState(r)
    PROVE  Inv'
  <1> DEFINE q == request[r]
             found == {k \in Here : sessions[k].id = q.row}
             user == IF found = {} THEN None ELSE sessions[CHOOSE k \in found : TRUE].user
             next == [q EXCEPT !.at = "handler", !.as = user,
                       !.status = IF found = {} THEN q.status ELSE "changed",
                       !.seen = q.seen \cap {user, q.who},
                       !.crossed = q.crossed /\ user # None /\ q.op # "login"]
  <1>1. /\ q \in Req /\ q.at = "state" /\ q # Idle
        /\ KnowsItsSession(q) /\ KnowsItsUser(q)
    BY InFlight DEF LoadState, Reaches, Inv, Fits
  <1>2. /\ request' = [request EXCEPT ![r] = next]
        /\ UNCHANGED <<now, users, sessions, issuedTo>>
    BY DEF LoadState
  <1>3. found # {} => user \in Email
    <2>1. found # {} => (CHOOSE k \in found : TRUE) \in found
      OBVIOUS
    <2> QED
      BY <2>1, StoredRow DEF Inv, Row
  <1>4. q.cookie \in Here => found = {q.cookie} /\ user = issuedTo[q.cookie]
    <2> SUFFICES ASSUME q.cookie \in Here
                 PROVE  found = {q.cookie} /\ user = issuedTo[q.cookie]
      OBVIOUS
    <2>1. q.cookie \in found
      BY <1>1 DEF KnowsItsSession
    <2>2. \A k \in found : k = q.cookie
      BY <2>1 DEF Inv, IdsDiffer
    <2>3. (CHOOSE k \in found : TRUE) = q.cookie
      BY <2>1, <2>2
    <2>4. user = sessions[q.cookie].user
      BY <2>1, <2>3
    <2> QED
      BY <2>1, <2>2, <2>4 DEF Inv, SessionsKeepTheirUser
  <1>5. user \in Email \cup {None} /\ (found = {} => user = None)
    BY <1>3
  <1> HIDE DEF found, user
  <1>6. /\ next \in Req
        /\ next.op = q.op /\ next.at = "handler" /\ next.as = user /\ next.who = q.who
        /\ next.cookie = q.cookie /\ next.cookie # None
        /\ next.status = IF found = {} THEN "unchanged" ELSE "changed"
        /\ next.seen = q.seen \cap {user, q.who}
        /\ ~ next.crossed => user = None \/ q.op = "login" \/ ~ q.crossed
    BY <1>1, <1>5 DEF Req, KnowsItsSession, Loading
  <1> HIDE DEF next
  <1>7. KnowsItsSession(next)
    BY <1>1, <1>3, <1>4, <1>5, <1>6 DEF KnowsItsSession, Loading
  <1>8. ActiveUsers \cap Watched(next) \subseteq next.seen
    BY <1>1, <1>5, <1>6 DEF KnowsItsUser, Loading, Watched, ActiveUsers
  <1>9. KnowsItsUser(next)
    BY <1>6, <1>8 DEF KnowsItsUser
  <1> QED
    BY <1>2, <1>6, <1>7, <1>9, OneRequest

-----------------------------------------------------------------------------

(* A handler that goes on, past a check of its user or to the end.         *)
LEMMA GoingOn ==
    ASSUME Inv, NEW r \in Request, request[r] # Idle, request[r].at # "save",
           UNCHANGED <<now, users, sessions, issuedTo>>,
           NEW at \in {"acting", "set", "store"}, Goto(r, at),
           at # "store" => request[r].as \in request[r].seen
    PROVE  Inv'
  <1> DEFINE q == request[r]
             next == [q EXCEPT !.at = at]
  <1>1. q \in Req /\ KnowsItsSession(q) /\ KnowsItsUser(q)
    BY InFlight DEF Inv, Fits
  <1>2. request' = [request EXCEPT ![r] = next]
    BY DEF Goto
  <1>3. /\ next \in Req /\ next.at = at
        /\ next.op = q.op /\ next.cookie = q.cookie /\ next.as = q.as
        /\ next.status = q.status /\ next.seen = q.seen /\ next.crossed = q.crossed
    BY <1>1 DEF Req
  <1> HIDE DEF next
  <1>4. KnowsItsSession(next)
    BY <1>1, <1>3 DEF KnowsItsSession, Loading
  <1>5. KnowsItsUser(next)
    BY <1>1, <1>3 DEF KnowsItsUser, Loading
  <1> QED
    BY <1>2, <1>3, <1>4, <1>5, OneRequest

LEMMA Finishing ==
    ASSUME Inv, NEW r \in Request, UNCHANGED <<now, users, sessions, issuedTo>>, Finish(r)
    PROVE  Inv'
  BY OneRequest DEF Finish

(* An active user of a request at its handler is one it has seen.          *)
LEMMA ActiveIsSeen ==
    ASSUME Inv, NEW r \in Request, request[r] # Idle, request[r].at = "handler",
           request[r].op # "login", request[r].as \in ActiveUsers
    PROVE  request[r].as \in request[r].seen
  BY DEF Inv, Fits, KnowsItsUser, Watched, Loading

LEMMA ProtectStep ==
    ASSUME Inv, NEW r \in Request, Protect(r)
    PROVE  Inv'
  BY GoingOn, Finishing, ActiveIsSeen DEF Protect, At

LEMMA ActStep ==
    ASSUME Inv, NEW r \in Request, Act(r)
    PROVE  Inv'
  BY GoingOn DEF Act, At

LEMMA ReadHashStep ==
    ASSUME Inv, NEW r \in Request, NEW right \in BOOLEAN, ReadHash(r, right)
    PROVE  Inv'
  BY GoingOn, ActiveIsSeen DEF ReadHash, At

LEMMA SetPasswordStep ==
    ASSUME Inv, NEW r \in Request, SetPassword(r)
    PROVE  Inv'
  BY GoingOn DEF SetPassword, At

LEMMA LogoutStep ==
    ASSUME Inv, NEW r \in Request, Logout(r)
    PROVE  Inv'
  <1> DEFINE q == request[r]
             next == [q EXCEPT !.at = "store",
                               !.status = IF q.as # None THEN "purged" ELSE q.status]
  <1>1. /\ q \in Req /\ q # Idle /\ q.op = "logout" /\ q.at = "handler"
        /\ KnowsItsSession(q) /\ KnowsItsUser(q)
    BY InFlight DEF Inv, Fits, Logout, At
  <1>2. /\ request' = [request EXCEPT ![r] = next]
        /\ UNCHANGED <<now, users, sessions, issuedTo>>
    BY DEF Logout
  <1>3. /\ next \in Req /\ next.at = "store"
        /\ next.op = q.op /\ next.cookie = q.cookie /\ next.as = q.as
        /\ next.status \in {"purged", q.status}
        /\ next.seen = q.seen /\ next.crossed = q.crossed
    BY <1>1 DEF Req
  <1> HIDE DEF next
  <1>4. KnowsItsSession(next)
    BY <1>1, <1>3 DEF KnowsItsSession, Loading
  <1>5. KnowsItsUser(next)
    BY <1>1, <1>3 DEF KnowsItsUser, Loading
  <1> QED
    BY <1>2, <1>3, <1>4, <1>5, OneRequest

LEMMA LoginStep ==
    ASSUME Inv, NEW r \in Request, NEW right \in BOOLEAN, Login(r, right)
    PROVE  Inv'
  <1> DEFINE q == request[r]
             allowed == q.who \in ActiveUsers /\ right
             next == IF allowed
                     THEN [q EXCEPT !.at = "store", !.status = "renewed", !.as = q.who]
                     ELSE [q EXCEPT !.at = "store", !.seen = {}]
  <1>1. /\ q \in Req /\ q # Idle /\ q.op = "login" /\ q.at = "handler"
        /\ KnowsItsSession(q) /\ KnowsItsUser(q)
    BY InFlight DEF Inv, Fits, Login, At
  <1>2. /\ request' = [request EXCEPT ![r] = next]
        /\ UNCHANGED <<now, users, sessions, issuedTo>>
    BY DEF Login
  <1>3. allowed => q.who \in Email /\ q.who \in q.seen
    BY <1>1 DEF KnowsItsUser, Watched, Loading, ActiveUsers
  <1> HIDE DEF allowed
  <1>4. /\ next \in Req /\ next.at = "store"
        /\ next.op = "login" /\ next.cookie = q.cookie
        /\ next.as = IF allowed THEN q.who ELSE q.as
        /\ next.status = IF allowed THEN "renewed" ELSE q.status
        /\ allowed => next.seen = q.seen
    BY <1>1, <1>3 DEF Req
  <1> HIDE DEF next
  <1>5. KnowsItsSession(next)
    BY <1>1, <1>4 DEF KnowsItsSession, Loading
  <1>6. KnowsItsUser(next)
    BY <1>1, <1>3, <1>4 DEF KnowsItsUser, Loading
  <1> QED
    BY <1>2, <1>4, <1>5, <1>6, OneRequest

-----------------------------------------------------------------------------

(* Rows are deleted: the requests loading them are told.                   *)
LEMMA RowsRemoved ==
    ASSUME Inv, NEW keys \in SUBSET SessionKey, Remove(keys),
           UNCHANGED <<now, users, issuedTo>>
    PROVE  /\ Here' = Here \ keys
           /\ \A k \in Here' : sessions'[k] = sessions[k]
           /\ sessions' \in [SessionKey -> Row \cup {Absent}]
           /\ IdsDiffer' /\ SessionsKeepTheirUser' /\ Drawn' = Drawn
  <1>1. sessions' \in [SessionKey -> Row \cup {Absent}]
    BY DEF Inv, TypeOK, Remove
  <1>2. \A k \in SessionKey : sessions'[k] = IF k \in keys THEN Absent ELSE sessions[k]
    BY DEF Remove
  <1>3. Here' = Here \ keys
    BY <1>2 DEF Here
  <1>4. \A k \in Here' : k \in Here /\ sessions'[k] = sessions[k]
    BY <1>2, <1>3 DEF Here
  <1> QED
    BY <1>1, <1>3, <1>4 DEF Inv, IdsDiffer, SessionsKeepTheirUser, Drawn

LEMMA CollectStep ==
    ASSUME Inv, Collect
    PROVE  Inv'
  <1> DEFINE expired == {k \in Here : sessions[k].expires <= now}
  <1>1. /\ expired \in SUBSET SessionKey
        /\ Remove(expired) /\ Observe({}, expired) /\ UNCHANGED <<now, users, issuedTo>>
    BY DEF Collect, Here
  <1> HIDE DEF expired
  <1>2. /\ Here' = Here \ expired
        /\ \A k \in Here' : sessions'[k] = sessions[k]
        /\ sessions' \in [SessionKey -> Row \cup {Absent}]
        /\ IdsDiffer' /\ SessionsKeepTheirUser' /\ Drawn' = Drawn
    BY <1>1, RowsRemoved
  <1>3. ASSUME NEW s \in Request PROVE Fits(s)' /\ request'[s] \in Req \cup {Idle}
    <2> DEFINE q == request[s]
    <2>1. CASE q = Idle
      BY <1>1, <2>1 DEF Observe, Fits
    <2>2. CASE q # Idle
      <3> DEFINE seen == q.seen \cup ({} \cap Watched(q))
                 crossed == q.crossed \/ (q.at = "state" /\ q.cookie \in expired)
      <3>1. q \in Req
        BY <2>2, InFlight DEF Inv
      <3>2. request'[s] = [q EXCEPT !.seen = seen, !.crossed = crossed]
        BY <1>1, <2>2 DEF Observe
      <3>3. seen \in SUBSET Email /\ crossed \in BOOLEAN
        BY <3>1 DEF Req
      <3>4. /\ q.seen \subseteq seen
            /\ (ActiveUsers' \ ActiveUsers) \cap Watched(q) \subseteq seen
            /\ q.crossed => crossed
            /\ q.at = "state" /\ ~ crossed /\ q.cookie \in Here => q.cookie \in Here'
        BY <1>1, <1>2 DEF ActiveUsers
      <3>5. /\ \A k \in Drawn : k \in Drawn' /\ issuedTo'[k] = issuedTo[k]
            /\ \A k \in Drawn : k \in Here' => k \in Here /\ sessions'[k].id = sessions[k].id
        BY <1>1, <1>2
      <3> HIDE DEF seen, crossed
      <3> QED
        BY <2>2, <3>2, <3>3, <3>4, <3>5, StillFits DEF Inv
    <2> QED
      BY <2>1, <2>2
  <1>4. request' \in [Request -> Req \cup {Idle}]
    BY <1>1, <1>3 DEF Observe
  <1>5. TypeOK'
    BY <1>1, <1>2, <1>4 DEF Inv, TypeOK
  <1> QED
    BY <1>2, <1>3, <1>5 DEF Inv

(* A request that a step leaves as it is goes on fitting, if the step ends *)
(* no session and activates nobody.                                        *)
LEMMA LeftAlone ==
    ASSUME Inv, NEW s \in Request, request'[s] = request[s], UNCHANGED users,
           Here \subseteq Here',
           \A k \in Drawn : k \in Drawn' /\ issuedTo'[k] = issuedTo[k],
           \A k \in Drawn : k \in Here' => k \in Here /\ sessions'[k].id = sessions[k].id
    PROVE  Fits(s)' /\ request'[s] \in Req \cup {Idle}
  <1> DEFINE q == request[s]
             seen == q.seen
             crossed == q.crossed
  <1>1. CASE q = Idle
    BY <1>1 DEF Fits
  <1>2. CASE q # Idle
    <2>1. q \in Req
      BY <1>2, InFlight DEF Inv
    <2>2. request'[s] = [q EXCEPT !.seen = seen, !.crossed = crossed]
      BY <2>1 DEF Req
    <2>3. seen \in SUBSET Email /\ crossed \in BOOLEAN
      BY <2>1 DEF Req
    <2>4. /\ q.seen \subseteq seen
          /\ (ActiveUsers' \ ActiveUsers) \cap Watched(q) \subseteq seen
          /\ q.crossed => crossed
          /\ q.at = "state" /\ ~ crossed /\ q.cookie \in Here => q.cookie \in Here'
      BY DEF ActiveUsers
    <2> HIDE DEF seen, crossed
    <2> QED
      BY <1>2, <2>2, <2>3, <2>4, StillFits DEF Inv
  <1> QED
    BY <1>1, <1>2

LEMMA ChangeUserStep ==
    ASSUME Inv, NEW e \in Email, NEW state \in {Absent, "active", "disabled"},
           ChangeUser(e, state)
    PROVE  Inv'
  <1> DEFINE emails == {e} \cap {f \in Email : state = "active"}
  <1>1. /\ users' = [users EXCEPT ![e] = state]
        /\ Observe(emails, {}) /\ UNCHANGED <<now, sessions, issuedTo>>
    BY DEF ChangeUser
  <1>2. ActiveUsers' \ ActiveUsers \subseteq emails
    BY <1>1 DEF ActiveUsers, Inv, TypeOK
  <1>3. Here' = Here /\ Drawn' = Drawn
    BY <1>1 DEF Here, Drawn
  <1>4. emails \subseteq Email
    OBVIOUS
  <1> HIDE DEF emails
  <1>5. ASSUME NEW s \in Request PROVE Fits(s)' /\ request'[s] \in Req \cup {Idle}
    <2> DEFINE q == request[s]
    <2>1. CASE q = Idle
      BY <1>1, <2>1 DEF Observe, Fits
    <2>2. CASE q # Idle
      <3> DEFINE seen == q.seen \cup (emails \cap Watched(q))
                 crossed == q.crossed \/ (q.at = "state" /\ q.cookie \in {})
      <3>1. q \in Req
        BY <2>2, InFlight DEF Inv
      <3>2. request'[s] = [q EXCEPT !.seen = seen, !.crossed = crossed]
        BY <1>1, <2>2 DEF Observe
      <3>3. seen \in SUBSET Email /\ crossed \in BOOLEAN
        BY <1>4, <3>1 DEF Req
      <3>4. /\ q.seen \subseteq seen
            /\ (ActiveUsers' \ ActiveUsers) \cap Watched(q) \subseteq seen
            /\ q.crossed => crossed
            /\ q.at = "state" /\ ~ crossed /\ q.cookie \in Here => q.cookie \in Here'
        BY <1>2, <1>3
      <3>5. /\ \A k \in Drawn : k \in Drawn' /\ issuedTo'[k] = issuedTo[k]
            /\ \A k \in Drawn : k \in Here' => k \in Here /\ sessions'[k].id = sessions[k].id
        BY <1>1, <1>3
      <3> HIDE DEF seen, crossed
      <3> QED
        BY <2>2, <3>2, <3>3, <3>4, <3>5, StillFits DEF Inv
    <2> QED
      BY <2>1, <2>2
  <1>6. request' \in [Request -> Req \cup {Idle}]
    BY <1>1, <1>5 DEF Observe
  <1>7. TypeOK'
    BY <1>1, <1>3, <1>6 DEF Inv, TypeOK
  <1>8. IdsDiffer' /\ SessionsKeepTheirUser'
    BY <1>1, <1>3 DEF Inv, IdsDiffer, SessionsKeepTheirUser
  <1> QED
    BY <1>5, <1>7, <1>8 DEF Inv

LEMMA TickStep ==
    ASSUME Inv, Tick
    PROVE  Inv'
  <1>1. now' \in Nat /\ UNCHANGED <<users, sessions, request, issuedTo>>
    BY DEF Tick, Inv, TypeOK
  <1>2. Here' = Here /\ Drawn' = Drawn
    BY <1>1 DEF Here, Drawn
  <1>3. \A s \in Request : Fits(s)'
    BY <1>1, <1>2, LeftAlone
  <1> QED
    BY <1>1, <1>2, <1>3 DEF Inv, TypeOK, IdsDiffer, SessionsKeepTheirUser

LEMMA RestartStep ==
    ASSUME Inv, Restart
    PROVE  Inv'
  <1>1. Here' = Here /\ Drawn' = Drawn /\ \A s \in Request : request'[s] = Idle
    BY DEF Restart, Here, Drawn
  <1> QED
    BY <1>1 DEF Restart, Inv, TypeOK, IdsDiffer, SessionsKeepTheirUser, Fits

-----------------------------------------------------------------------------

(* A visit stores the user it loaded, which is the row's, if it is there.  *)
LEMMA UpdateStep ==
    ASSUME Inv, NEW r \in Request, Update(r)
    PROVE  Inv'
  <1> DEFINE q == request[r]
             key == q.cookie
  <1>1. /\ q \in Req /\ q # Idle /\ q.status = "changed"
        /\ q.as \in Email /\ (key \in Here => q.as = issuedTo[key])
    BY InFlight DEF Inv, Fits, Update, Reaches, KnowsItsSession
  <1>2. /\ sessions' = [k \in SessionKey |->
             IF k \in Here \cap {key}
             THEN [sessions[k] EXCEPT !.expires = now + TTL, !.user = q.as]
             ELSE sessions[k]]
        /\ request' = [request EXCEPT ![r] = Idle]
        /\ UNCHANGED <<now, users, issuedTo>>
    BY DEF Update, Updated, Finish
  <1>3. ASSUME NEW k \in Here
        PROVE  sessions'[k] \in Row /\ sessions'[k].id = sessions[k].id
               /\ sessions'[k].user = issuedTo[k] /\ sessions'[k] # Absent
    <2>1. sessions[k] \in Row /\ k \in SessionKey /\ sessions[k].user = issuedTo[k]
      BY StoredRow DEF Inv, SessionsKeepTheirUser
    <2>2. now + TTL \in Nat
      BY DEF Inv, TypeOK
    <2>3. CASE k = key
      <3>1. sessions'[k] = [sessions[k] EXCEPT !.expires = now + TTL, !.user = q.as]
        BY <1>2, <2>1, <2>3
      <3>2. q.as \in Email /\ q.as = issuedTo[k]
        BY <1>1, <2>3
      <3> HIDE DEF q
      <3>3. /\ sessions'[k] \in Row
            /\ sessions'[k].id = sessions[k].id /\ sessions'[k].user = q.as
        BY <2>1, <2>2, <3>1, <3>2 DEF Row
      <3> QED
        BY <3>2, <3>3
    <2>4. CASE k # key
      BY <1>2, <2>1, <2>4
    <2> QED
      BY <2>3, <2>4
  <1>4. \A k \in SessionKey \ Here : sessions'[k] = Absent
    BY <1>2 DEF Here
  <1>5. Here' = Here /\ Drawn' = Drawn
    BY <1>2, <1>3, <1>4 DEF Here, Drawn
  <1>6. TypeOK'
    <2>1. sessions' \in [SessionKey -> Row \cup {Absent}]
      BY <1>2, <1>3, <1>4
    <2> QED
      BY <1>2, <1>5, <2>1 DEF Inv, TypeOK
  <1>7. IdsDiffer' /\ SessionsKeepTheirUser'
    <2>1. issuedTo' = issuedTo
      BY <1>2
    <2>2. IdsDiffer'
      BY <1>3, <1>5 DEF Inv, IdsDiffer
    <2> QED
      BY <1>3, <1>5, <2>1, <2>2 DEF SessionsKeepTheirUser
  <1>8. ASSUME NEW s \in Request PROVE Fits(s)'
    <2>1. CASE s = r
      BY <1>2, <2>1 DEF Fits, Inv, TypeOK
    <2>2. CASE s # r
      <3>1. request'[s] = request[s]
        BY <1>2, <2>2 DEF Inv, TypeOK
      <3>2. \A k \in Drawn : k \in Here' => k \in Here /\ sessions'[k].id = sessions[k].id
        BY <1>3, <1>5
      <3> QED
        BY <1>2, <1>5, <3>1, <3>2, LeftAlone
    <2> QED
      BY <2>1, <2>2
  <1> QED
    BY <1>6, <1>7, <1>8 DEF Inv

LEMMA DeleteStep ==
    ASSUME Inv, NEW r \in Request, Delete(r)
    PROVE  Inv'
  <1> DEFINE q == request[r]
             keys == {q.cookie}
             next == IF q.status = "purged" THEN Idle ELSE [q EXCEPT !.at = "save"]
  <1>1. /\ q \in Req /\ q # Idle /\ q.at = "store" /\ q.cookie # None
        /\ q.status \in {"purged", "renewed"}
        /\ KnowsItsSession(q) /\ KnowsItsUser(q)
    BY InFlight DEF Inv, Fits, Delete, Reaches
  <1>2. /\ Remove(keys) /\ After(r, keys, next) /\ UNCHANGED <<now, users, issuedTo>>
        /\ keys \in SUBSET SessionKey
    BY <1>1 DEF Delete, Req
  <1> HIDE DEF keys
  <1>3. /\ Here' = Here \ keys
        /\ \A k \in Here' : sessions'[k] = sessions[k]
        /\ sessions' \in [SessionKey -> Row \cup {Absent}]
        /\ IdsDiffer' /\ SessionsKeepTheirUser' /\ Drawn' = Drawn
    BY <1>2, RowsRemoved
  <1>4. ASSUME NEW s \in Request PROVE Fits(s)' /\ request'[s] \in Req \cup {Idle}
    <2>1. CASE s = r
      <3>1. request'[r] = next
        BY <1>2 DEF After
      <3>2. CASE q.status = "purged"
        BY <2>1, <3>1, <3>2 DEF Fits
      <3>3. CASE q.status = "renewed"
        <4>1. next = [q EXCEPT !.at = "save"]
          BY <3>3
        <4>2. /\ next \in Req /\ next.at = "save"
              /\ next.op = q.op /\ next.cookie = q.cookie /\ next.as = q.as
              /\ next.status = "renewed" /\ next.seen = q.seen
          BY <1>1, <3>3, <4>1 DEF Req
        <4> HIDE DEF next, q
        <4>3. KnowsItsSession(request[r])'
          BY <1>1, <1>3, <3>1, <3>3, <4>2 DEF KnowsItsSession, KnowsItsUser, Loading
        <4>4. KnowsItsUser(request[r])'
          BY <1>1, <3>1, <3>3, <4>2 DEF KnowsItsUser, Loading
        <4> QED
          BY <2>1, <3>1, <4>2, <4>3, <4>4 DEF Fits
      <3> QED
        BY <1>1, <3>2, <3>3
    <2>2. CASE s # r /\ request[s] = Idle
      BY <1>2, <2>2 DEF After, Fits
    <2>3. CASE s # r /\ request[s] # Idle
      <3> DEFINE p == request[s]
                 seen == p.seen
                 crossed == p.crossed \/ (p.at = "state" /\ p.cookie \in keys)
      <3>1. p \in Req
        BY <2>3, InFlight DEF Inv
      <3>2. request'[s] = [p EXCEPT !.seen = seen, !.crossed = crossed]
        <4>1. request'[s] = [p EXCEPT !.crossed = crossed]
          BY <1>2, <2>3 DEF After
        <4> HIDE DEF crossed
        <4> QED
          BY <3>1, <4>1 DEF Req
      <3>3. seen \in SUBSET Email /\ crossed \in BOOLEAN
        BY <3>1 DEF Req
      <3>4. /\ p.seen \subseteq seen
            /\ (ActiveUsers' \ ActiveUsers) \cap Watched(p) \subseteq seen
            /\ p.crossed => crossed
            /\ p.at = "state" /\ ~ crossed /\ p.cookie \in Here => p.cookie \in Here'
        BY <1>2, <1>3 DEF ActiveUsers
      <3>5. /\ \A k \in Drawn : k \in Drawn' /\ issuedTo'[k] = issuedTo[k]
            /\ \A k \in Drawn : k \in Here' => k \in Here /\ sessions'[k].id = sessions[k].id
        BY <1>2, <1>3
      <3> HIDE DEF seen, crossed
      <3> QED
        BY <2>3, <3>2, <3>3, <3>4, <3>5, StillFits DEF Inv
    <2> QED
      BY <2>1, <2>2, <2>3
  <1>5. request' \in [Request -> Req \cup {Idle}]
    BY <1>2, <1>4 DEF After
  <1>6. TypeOK'
    BY <1>2, <1>3, <1>5 DEF Inv, TypeOK
  <1> QED
    BY <1>3, <1>4, <1>6 DEF Inv

(* A login stores its user under a key and an id that no stored row has.   *)
LEMMA SaveStep ==
    ASSUME Inv, NEW r \in Request, Save(r)
    PROVE  Inv'
  <1> DEFINE q == request[r]
  <1>1. q \in Req /\ q # Idle /\ q.as \in Email
    BY InFlight DEF Inv, Fits, Save, Reaches, KnowsItsUser
  <1>2. PICK key \in SessionKey \ Drawn, id \in NewRowIds :
             /\ sessions' = [sessions EXCEPT ![key] =
                  [id |-> id, expires |-> now + TTL, user |-> q.as]]
             /\ issuedTo' = [issuedTo EXCEPT ![key] = q.as]
             /\ request' = [request EXCEPT ![r] = Idle]
             /\ UNCHANGED <<now, users>>
    BY DEF Save, Finish
  <1> DEFINE row == [id |-> id, expires |-> now + TTL, user |-> q.as]
  <1>3. id \in Nat /\ \A k \in Here : sessions[k].id < id
    BY StoredRow DEF NewRowIds, Inv, Row
  <1>4. now + TTL \in Nat
    BY DEF Inv, TypeOK
  <1>5. row \in Row /\ row # Absent /\ row.id = id /\ row.user = q.as
    BY <1>1, <1>3, <1>4 DEF Row
  <1>6. /\ \A k \in SessionKey : sessions'[k] = IF k = key THEN row ELSE sessions[k]
        /\ \A k \in SessionKey : issuedTo'[k] = IF k = key THEN q.as ELSE issuedTo[k]
    BY <1>2 DEF Inv, TypeOK
  <1>7. sessions' \in [SessionKey -> Row \cup {Absent}]
    BY <1>2, <1>5 DEF Inv, TypeOK
  <1> HIDE DEF row
  <1>8. Here' = Here \cup {key} /\ Drawn' = Drawn \cup {key}
    BY <1>1, <1>5, <1>6 DEF Here, Drawn
  <1>9. key \notin Here
    BY <1>2 DEF Inv, TypeOK
  <1>10. TypeOK'
    BY <1>1, <1>2, <1>7, <1>8 DEF Inv, TypeOK
  <1>11. IdsDiffer'
    <2> SUFFICES ASSUME NEW j \in Here', NEW k \in Here', sessions'[j].id = sessions'[k].id
                 PROVE  j = k
      BY DEF IdsDiffer
    <2>1. \A i \in Here : sessions'[i].id = sessions[i].id /\ sessions[i].id \in Nat
      BY <1>6, <1>9, StoredRow DEF Inv, Row
    <2>2. sessions'[key].id = id
      BY <1>5, <1>6
    <2> QED
      BY <1>3, <1>8, <2>1, <2>2 DEF Inv, IdsDiffer
  <1>12. SessionsKeepTheirUser'
    BY <1>5, <1>6, <1>8, <1>9, StoredRow DEF Inv, SessionsKeepTheirUser
  <1>13. ASSUME NEW s \in Request PROVE Fits(s)'
    <2>1. CASE s = r
      BY <1>2, <2>1 DEF Fits, Inv, TypeOK
    <2>2. CASE s # r
      <3>1. request'[s] = request[s]
        BY <1>2, <2>2 DEF Inv, TypeOK
      <3>2. \A k \in Drawn : k \in Drawn' /\ issuedTo'[k] = issuedTo[k]
        BY <1>2, <1>6, <1>8 DEF Drawn
      <3>3. \A k \in Drawn : k \in Here' => k \in Here /\ sessions'[k].id = sessions[k].id
        BY <1>2, <1>6, <1>8 DEF Drawn
      <3> QED
        BY <1>2, <1>8, <3>1, <3>2, <3>3, LeftAlone
    <2> QED
      BY <2>1, <2>2
  <1> QED
    BY <1>10, <1>11, <1>12, <1>13 DEF Inv

LEMMA NothingStep ==
    ASSUME Inv, NEW r \in Request, Nothing(r)
    PROVE  Inv'
  BY Finishing DEF Nothing

LEMMA StutterStep ==
    ASSUME Inv, UNCHANGED vars
    PROVE  Inv'
  <1>1. Here' = Here /\ Drawn' = Drawn /\ ActiveUsers' = ActiveUsers
    BY DEF vars, Here, Drawn, ActiveUsers
  <1>2. \A s \in Request : Fits(s)'
    BY <1>1, LeftAlone DEF vars
  <1> QED
    BY <1>1, <1>2 DEF vars, Inv, TypeOK, IdsDiffer, SessionsKeepTheirUser

LEMMA NextInv == Inv /\ [Next]_vars => Inv'
  <1> SUFFICES ASSUME Inv, [Next]_vars PROVE Inv'
    OBVIOUS
  <1>1. ASSUME NEW r \in Request, Load(r) PROVE Inv'
    BY <1>1, LoadRowStep, LoadStateStep DEF Load
  <1>2. ASSUME NEW r \in Request, Handle(r) PROVE Inv'
    BY <1>2, ProtectStep, ActStep, LogoutStep, SetPasswordStep, LoginStep, ReadHashStep
    DEF Handle
  <1>3. ASSUME NEW r \in Request, Store(r) PROVE Inv'
    BY <1>3, UpdateStep, DeleteStep, SaveStep, NothingStep DEF Store
  <1> QED
    BY <1>1, <1>2, <1>3, TickStep, CollectStep, RestartStep, ArriveStep, ChangeUserStep,
       StutterStep DEF Next

(* Sessions, requests and users are as Inv describes them, always.         *)
THEOREM Invariance == Spec => []Inv
  BY InitInv, NextInv, PTL DEF Spec

(* The variables have the values TypeOK names, and stored sessions have    *)
(* keys some save drew.                                                    *)
THEOREM TypeCorrect == Spec => []TypeOK
  <1>1. Inv => TypeOK
    BY DEF Inv
  <1> QED
    BY <1>1, Invariance, PTL

(* A session stays its user's: `update` in auth/session.rs writes by key,  *)
(* and what a request loaded by row id is its key's row or a row gone.     *)
THEOREM UsersKept == Spec => []SessionsKeepTheirUser
  <1>1. Inv => SessionsKeepTheirUser
    BY DEF Inv
  <1> QED
    BY <1>1, Invariance, PTL

(* A request acts as the user its cookie was issued to, but for a session  *)
(* deleted between the two statements of a load.                           *)
THEOREM ActingUsers == Spec => []ActsAsItsSession
  <1>1. Inv => ActsAsItsSession
    BY DEF Inv, Fits, KnowsItsSession, ActsAsItsSession
  <1> QED
    BY <1>1, Invariance, PTL

(* A user disabled since before a request began gets nothing from it, when *)
(* it carries no Authorization header.                                     *)
THEOREM DisabledShutOut == Spec => []ShutOutWhileDisabled
  <1>1. Inv => ShutOutWhileDisabled
    BY DEF Inv, Fits, KnowsItsUser, ShutOutWhileDisabled
  <1> QED
    BY <1>1, Invariance, PTL

(* An ended session does not come back: only a save inserts a row, under a *)
(* key no save drew before.                                                *)
THEOREM EndedForGood == Spec => EndedSessionsStayEnded
  <1>1. Inv /\ Inv' /\ [Next]_vars => Drawn \ Here \subseteq Drawn' \ Here'
    <2> SUFFICES ASSUME Inv, [Next]_vars PROVE Drawn \ Here \subseteq Drawn' \ Here'
      OBVIOUS
    <2>1. CASE UNCHANGED <<sessions, issuedTo>>
      BY <2>1 DEF Here, Drawn
    <2>2. ASSUME NEW keys, Remove(keys), UNCHANGED issuedTo
          PROVE  Drawn \ Here \subseteq Drawn' \ Here'
      BY <2>2 DEF Remove, Here, Drawn
    <2>3. ASSUME NEW r \in Request, Update(r) PROVE Drawn \ Here \subseteq Drawn' \ Here'
      BY <2>3 DEF Update, Updated, Here, Drawn
    <2>4. ASSUME NEW r \in Request, Save(r) PROVE Drawn \ Here \subseteq Drawn' \ Here'
      BY <2>4 DEF Save, Here, Drawn, Inv, TypeOK
    <2>5. ASSUME NEW r \in Request, Store(r) PROVE Drawn \ Here \subseteq Drawn' \ Here'
      BY <2>1, <2>2, <2>3, <2>4, <2>5 DEF Store, Delete, Nothing
    <2>6. Collect => Drawn \ Here \subseteq Drawn' \ Here'
      BY <2>2 DEF Collect
    <2>7. ASSUME NEW r \in Request, Load(r) \/ Handle(r) PROVE UNCHANGED <<sessions, issuedTo>>
      BY <2>7 DEF Load, Handle, LoadRow, LoadState, Protect, Act, Logout, SetPassword, Login,
                  ReadHash
    <2> QED
      BY <2>1, <2>5, <2>6, <2>7 DEF Next, vars, Tick, Restart, Arrive, ChangeUser
  <1> QED
    BY <1>1, Invariance, PTL DEF Spec, EndedSessionsStayEnded
=============================================================================
