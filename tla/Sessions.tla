------------------------------ MODULE Sessions ------------------------------
(***************************************************************************)
(* Sessions in a browser's cookie and a database file of their own         *)
(* (src/src/auth/session.rs), and the requests that open, use and end them *)
(* (src/src/api/auth.rs, src/src/auth/middleware/protected_route.rs).  The *)
(* session is loaded at a request's start and stored at its end, by the    *)
(* middleware around the handlers; other requests, the collector and       *)
(* admins run between any two statements.                                  *)
(***************************************************************************)
EXTENDS Integers

CONSTANTS
    Email,      \* users
    SessionKey, \* the random keys saves draw, each once
    Request,    \* the requests in flight at once
    Absent,     \* where no row is stored
    Idle,       \* no request in flight
    None,       \* no cookie, no identity
    TTL,        \* SESSION_EXPIRATION, the deadline between visits too
    Operation,  \* the operations requests ask for
    Horizon     \* bound: the last tick of the clock

ASSUME ConstantsAssumption ==
    /\ None \notin SessionKey \cup Email
    /\ TTL \in Nat \ {0}
    /\ Operation \subseteq {"visit", "login", "logout", "password"}
    /\ Horizon \in Nat

VARIABLES
    now,       \* unixepoch('now')
    users,     \* the users table of the main database: deleted, disabled or active
    sessions,  \* sessions and session_state: a row per session key
    request,   \* each request's progress
    issuedTo   \* history: who logged in when each key was drawn

vars == <<now, users, sessions, request, issuedTo>>

-----------------------------------------------------------------------------

(* `user`: the session's state, the identity.  Every visit is recorded in  *)
(* the state when the row's deadline is moved, with the same TTL, so that  *)
(* the deadline between visits never passes before the row's.              *)
Row == [id : Nat, expires : Nat, user : Email]

(* `cookie`: the key of the session it came with, once loaded the one it   *)
(* has; `row`: that row's id, while it is loaded; `as`: the identity;      *)
(* `status`: what becomes of the session; `who`: whom a login names.       *)
(* Passwords are right or wrong.                                           *)
(* History: `seen`, the users it found, or could have found, active since  *)
(* it began; `crossed`, its session was deleted while it was being loaded. *)
Req == [op : Operation,
        at : {"row", "state", "handler", "set", "acting", "store", "save"},
        cookie : SessionKey \cup {None}, row : Nat,
        as : Email \cup {None},
        status : {"unchanged", "changed", "renewed", "purged"},
        who : Email \cup {None},
        seen : SUBSET Email, crossed : BOOLEAN]

ASSUME MarkersAssumption == Absent \notin Row /\ Idle \notin Req

Here == {k \in SessionKey : sessions[k] # Absent}
Drawn == {k \in SessionKey : issuedTo[k] # None}
ActiveUsers == {e \in Email : users[e] = "active"}

(* The id of a deleted newest row is used again.                           *)
NewRowIds == {id \in {1} \cup {sessions[k].id + 1 : k \in Here} :
                \A k \in Here : sessions[k].id < id}

At(r, op, at) == request[r] # Idle /\ request[r].op = op /\ request[r].at = at
Reaches(r, at) == request[r] # Idle /\ request[r].at = at
Goto(r, at) == request' = [request EXCEPT ![r] = [request[r] EXCEPT !.at = at]]
Finish(r) == request' = [request EXCEPT ![r] = Idle]

(* The users whose activity matters to a request: whom a login names, or   *)
(* whom the session is of, once that is loaded.                            *)
Watched(q) ==
    IF q.op = "login" THEN {q.who}
    ELSE IF q.at \in {"row", "state"} THEN Email ELSE {q.as}

(* What requests in flight see of a change: users that are active now, and *)
(* that the sessions in `keys` are gone.                                   *)
Observe(emails, keys) ==
    request' = [r \in Request |->
        LET q == request[r]
        IN  IF q = Idle THEN Idle
            ELSE [q EXCEPT
                    !.seen = q.seen \cup (emails \cap Watched(q)),
                    !.crossed = q.crossed \/ (q.at = "state" /\ q.cookie \in keys)]]

-----------------------------------------------------------------------------

Init ==
    /\ now = 0
    /\ users = [e \in Email |-> "active"]
    /\ sessions = [k \in SessionKey |-> Absent]
    /\ request = [r \in Request |-> Idle]
    /\ issuedTo = [k \in SessionKey |-> None]

Tick ==
    /\ now < Horizon
    /\ now' = now + 1
    /\ UNCHANGED <<users, sessions, request, issuedTo>>

(* A request carries a cookie some login set, or none, and a login whom it *)
(* is for.                                                                 *)
Arrive(r, op, cookie, who) ==
    /\ request[r] = Idle
    /\ cookie \in Drawn \cup {None}
    /\ who # None <=> op = "login"
    /\ request' = [request EXCEPT ![r] =
         [op |-> op, at |-> IF cookie = None THEN "handler" ELSE "row",
          cookie |-> cookie, row |-> 0, as |-> None, status |-> "unchanged",
          who |-> who, crossed |-> FALSE,
          seen |-> ActiveUsers \cap IF op = "login" THEN {who}
                                    ELSE IF cookie = None THEN {} ELSE Email]]
    /\ UNCHANGED <<now, users, sessions, issuedTo>>

(* SqliteSessionStore::load, two statements: the row by its key, unless it *)
(* has expired, and the state by the row's id.                             *)
LoadRow(r) ==
    /\ Reaches(r, "row")
    /\ LET q == request[r]
           key == q.cookie
       IN  request' = [request EXCEPT ![r] =
             IF key \in Here /\ sessions[key].expires > now
             THEN [q EXCEPT !.at = "state", !.row = sessions[key].id]
             ELSE [q EXCEPT !.at = "handler", !.cookie = None,
                            !.seen = q.seen \cap {q.who}]]
    /\ UNCHANGED <<now, users, sessions, issuedTo>>

(* The identity middleware notes the visit; a row that has gone leaves an  *)
(* empty state, without an identity.                                       *)
LoadState(r) ==
    /\ Reaches(r, "state")
    /\ LET q == request[r]
           found == {k \in Here : sessions[k].id = q.row}
           user == IF found = {} THEN None ELSE sessions[CHOOSE k \in found : TRUE].user
       IN  request' = [request EXCEPT ![r] =
             [q EXCEPT !.at = "handler", !.as = user,
                       !.status = IF found = {} THEN q.status ELSE "changed",
                       !.seen = q.seen \cap {user, q.who},
                       !.crossed = q.crossed /\ user # None /\ q.op # "login"]]
    /\ UNCHANGED <<now, users, sessions, issuedTo>>

-----------------------------------------------------------------------------
(* The handlers.                                                           *)

(* A protected route: its user must exist and be active; a refusal is an   *)
(* error, past which the session is not stored.                            *)
\* Deviation: the check of the role forgets disabled users.
ProtectByRole(r) ==
    /\ At(r, "visit", "handler")
    /\ LET e == request[r].as
       IN  IF e # None /\ users[e] # Absent THEN Goto(r, "acting") ELSE Finish(r)
    /\ UNCHANGED <<now, users, sessions, issuedTo>>
Protect(r) ==
    /\ At(r, "visit", "handler")
    /\ LET e == request[r].as
       IN  IF e \in ActiveUsers THEN Goto(r, "acting") ELSE Finish(r)
    /\ UNCHANGED <<now, users, sessions, issuedTo>>
Act(r) ==
    /\ At(r, "visit", "acting")
    /\ Goto(r, "store")
    /\ UNCHANGED <<now, users, sessions, issuedTo>>

Logout(r) ==
    /\ At(r, "logout", "handler")
    /\ request' = [request EXCEPT ![r] =
         [request[r] EXCEPT !.at = "store",
                            !.status = IF request[r].as # None THEN "purged"
                                       ELSE request[r].status]]
    /\ UNCHANGED <<now, users, sessions, issuedTo>>

(* Login: the user's row, then the password, on another thread; the        *)
(* session is the user's, under a new key, when it is stored.              *)
\* Deviation: the new session has no identity.
LoginUnnamed(r, right) ==
    /\ At(r, "login", "handler")
    /\ request' = [request EXCEPT ![r] =
         IF request[r].who \in ActiveUsers /\ right
         THEN [@ EXCEPT !.at = "store", !.status = "renewed", !.as = None]
         ELSE [@ EXCEPT !.at = "store"]]
    /\ UNCHANGED <<now, users, sessions, issuedTo>>
\* Deviation: a login within a session keeps the session's key.
LoginInPlace(r, right) ==
    /\ At(r, "login", "handler")
    /\ request' = [request EXCEPT ![r] =
         IF request[r].who \in ActiveUsers /\ right
         THEN [request[r] EXCEPT
                 !.at = "store", !.as = request[r].who,
                 !.status = IF request[r].status = "unchanged" THEN "renewed" ELSE "changed"]
         ELSE [@ EXCEPT !.at = "store"]]
    /\ UNCHANGED <<now, users, sessions, issuedTo>>
Login(r, right) ==
    /\ At(r, "login", "handler")
    /\ LET q == request[r]
       IN  request' = [request EXCEPT ![r] =
             IF q.who \in ActiveUsers /\ right
             THEN [q EXCEPT !.at = "store", !.status = "renewed", !.as = q.who]
             ELSE [q EXCEPT !.at = "store", !.seen = {}]]
    /\ UNCHANGED <<now, users, sessions, issuedTo>>

(* A change of one's own password: the hash, if active; the current        *)
(* password on another thread; the new one, by e-mail.                     *)
ReadHash(r, right) ==
    /\ At(r, "password", "handler")
    /\ Goto(r, IF request[r].as \in ActiveUsers /\ right THEN "set" ELSE "store")
    /\ UNCHANGED <<now, users, sessions, issuedTo>>
SetPassword(r) ==
    /\ At(r, "password", "set")
    /\ Goto(r, "store")
    /\ UNCHANGED <<now, users, sessions, issuedTo>>

-----------------------------------------------------------------------------
(* What the middleware stores at the end.                                  *)

(* A purge deletes the row; a login deletes it, and saves another; a visit *)
(* updates it, by key, and fails the request when it is gone.              *)
\* Deviation: the update writes the row it loaded, by id.
UpdatedById(r) ==
    {k \in Here : sessions[k].id = request[r].row}
Updated(r) == Here \cap {request[r].cookie}

\* Deviation: a row that is gone is inserted again.
UpdateOrInsert(r) ==
    /\ Reaches(r, "store") /\ request[r].cookie # None
    /\ request[r].status = "changed"
    /\ \E id \in NewRowIds :
         sessions' = [sessions EXCEPT ![request[r].cookie] =
           [id |-> IF @ = Absent THEN id ELSE @.id, expires |-> now + TTL,
            user |-> request[r].as]]
    /\ Finish(r)
    /\ UNCHANGED <<now, users, issuedTo>>
Update(r) ==
    /\ Reaches(r, "store") /\ request[r].cookie # None
    /\ request[r].status = "changed"
    /\ sessions' = [k \in SessionKey |->
         IF k \in Updated(r)
         THEN [sessions[k] EXCEPT !.expires = now + TTL, !.user = request[r].as]
         ELSE sessions[k]]
    /\ Finish(r)
    /\ UNCHANGED <<now, users, issuedTo>>

Remove(keys) == sessions' = [k \in SessionKey |-> IF k \in keys THEN Absent ELSE sessions[k]]
After(r, keys, next) ==
    request' = [s \in Request |->
        LET q == request[s]
        IN  IF s = r THEN next
            ELSE IF q = Idle THEN Idle
            ELSE [q EXCEPT !.crossed = q.crossed \/ (q.at = "state" /\ q.cookie \in keys)]]

Delete(r) ==
    /\ Reaches(r, "store") /\ request[r].cookie # None
    /\ request[r].status \in {"purged", "renewed"}
    /\ Remove({request[r].cookie})
    /\ After(r, {request[r].cookie},
             IF request[r].status = "purged" THEN Idle
             ELSE [request[r] EXCEPT !.at = "save"])
    /\ UNCHANGED <<now, users, issuedTo>>

Save(r) ==
    /\ \/ Reaches(r, "save")
       \/ Reaches(r, "store") /\ request[r].cookie = None /\ request[r].status = "renewed"
    /\ \E k \in SessionKey \ Drawn, id \in NewRowIds :
         /\ sessions' = [sessions EXCEPT ![k] =
              [id |-> id, expires |-> now + TTL, user |-> request[r].as]]
         /\ issuedTo' = [issuedTo EXCEPT ![k] = request[r].as]
    /\ Finish(r)
    /\ UNCHANGED <<now, users>>

(* No session to store.                                                    *)
Nothing(r) ==
    /\ Reaches(r, "store")
    /\ \/ request[r].status = "unchanged"
       \/ request[r].cookie = None /\ request[r].status # "renewed"
    /\ Finish(r)
    /\ UNCHANGED <<now, users, sessions, issuedTo>>

-----------------------------------------------------------------------------

(* The collector, every quarter of an hour.                                *)
Collect ==
    LET expired == {k \in Here : sessions[k].expires <= now}
    IN  /\ expired # {}
        /\ Remove(expired)
        /\ Observe({}, expired)
        /\ UNCHANGED <<now, users, issuedTo>>

(* Admins, and the command line: a new user, a deleted, a disabled or a    *)
(* re-enabled one.                                                         *)
ChangeUser(e, state) ==
    /\ users[e] # state
    /\ users[e] = Absent => state = "active"
    /\ users' = [users EXCEPT ![e] = state]
    /\ Observe({e} \cap {f \in Email : state = "active"}, {})
    /\ UNCHANGED <<now, sessions, issuedTo>>

(* The server dies: the requests are gone, both databases are not.         *)
Restart ==
    /\ request' = [r \in Request |-> Idle]
    /\ UNCHANGED <<now, users, sessions, issuedTo>>

Load(r) == LoadRow(r) \/ LoadState(r)
Handle(r) == \/ Protect(r) \/ Act(r) \/ Logout(r)
             \/ SetPassword(r)
             \/ \E right \in BOOLEAN : Login(r, right) \/ ReadHash(r, right)
Store(r) == Update(r) \/ Delete(r) \/ Save(r) \/ Nothing(r)

Next ==
    \/ Tick \/ Collect \/ Restart
    \/ \E r \in Request :
         \/ \E op \in Operation, cookie \in SessionKey \cup {None}, who \in Email \cup {None} :
               Arrive(r, op, cookie, who)
         \/ Load(r) \/ Handle(r) \/ Store(r)
    \/ \E e \in Email, state \in {Absent, "active", "disabled"} : ChangeUser(e, state)

Spec == Init /\ [][Next]_vars

-----------------------------------------------------------------------------

(* The type invariant.                                                     *)
TypeOK ==
    /\ now \in Nat
    /\ users \in [Email -> {Absent, "active", "disabled"}]
    /\ sessions \in [SessionKey -> Row \cup {Absent}]
    /\ request \in [Request -> Req \cup {Idle}]
    /\ issuedTo \in [SessionKey -> Email \cup {None}]
    /\ Here \subseteq Drawn

(* A session that was ended, by a logout, another login or the collector,  *)
(* does not come back: not even when a request that loaded it before       *)
(* stores it after.                                                        *)
EndedSessionsStayEnded == [][Drawn \ Here \subseteq Drawn' \ Here']_vars

(* A session stays its user's: nothing a request loaded, however late and  *)
(* whichever row has taken the id it found, is stored in another's.        *)
SessionsKeepTheirUser == \A k \in Here : sessions[k].user = issuedTo[k]

(* A request acts as the user its cookie was issued to, unless its session *)
(* ended while it was being loaded.                                        *)
ActsAsItsSession ==
    \A r \in Request :
        LET q == request[r]
        IN  q # Idle /\ q.op # "login" /\ q.as # None /\ ~q.crossed =>
                q.as = issuedTo[q.cookie]

(* A user who has been disabled since before a request began gets nothing  *)
(* from it: no visit to a protected route, no new password, no session.    *)
(* The requests of this module carry no Authorization header; Requests     *)
(* says for whom those that do are checked and act (KeysKeepTheirPlace).   *)
ShutOutWhileDisabled ==
    \A r \in Request :
        LET q == request[r]
        IN  q # Idle /\ (q.at \in {"acting", "set"} \/ q.status = "renewed") =>
                q.as \in q.seen
=============================================================================
