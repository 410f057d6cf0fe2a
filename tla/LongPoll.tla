------------------------------ MODULE LongPoll ------------------------------
(***************************************************************************)
(* ReceiveMessage waiting for messages (src/src/sqs/mod.rs), and a server  *)
(* that stops meanwhile (src/src/lib.rs, stop_on_signal).  A poll is bound *)
(* to the queue its name stood for when the caller was authorized, and     *)
(* looks at it every POLL_INTERVAL, the unit of time here.  Statements     *)
(* take less than that: time passes when no poll can go on without it.     *)
(***************************************************************************)
EXTENDS Integers, FiniteSets

CONSTANTS
    Poll,       \* receives in progress at once
    QueueId,    \* ids of the queue, which may be deleted and created anew
    Waits,      \* how long requests and queues let receives wait
    MaxWait,    \* MAX_WAIT_TIME_SECONDS
    Grace,      \* SHUTDOWN_TIMEOUT_SECS
    MaxStored,  \* bound: messages in the queue
    NoQueue,    \* the queue is deleted
    NoPoll      \* no receive in progress

ASSUME PollAssumption ==
    /\ Waits \subseteq Nat
    /\ MaxWait \in Nat
    /\ Grace \in Nat \ {0}
    /\ MaxStored \in Nat
    /\ NoQueue \notin QueueId

VARIABLES
    queue,     \* the id of the queue that has the name now
    stored,    \* how many of its messages a consumer could receive
    poll,      \* each receive
    server,    \* what the server does
    stopping,  \* the service's cancellation token
    grace      \* what is left of the time requests get to finish

pollVars == <<queue, stored, poll, server, stopping, grace>>

(* `left`: to the deadline; `nap`: until the next look.                    *)
Waiting == [at : {"wait", "look", "decide", "sleep"}, queue : QueueId,
            left : 0 .. MaxWait, nap : 0 .. 1, found : 0 .. MaxStored]

Busy == {p \in Poll : poll[p] # NoPoll}
Is(p, at) == p \in Busy /\ poll[p].at = at
Least(a, b) == IF a <= b THEN a ELSE b

(* Deviation: nobody asks whether the server is stopping. *)
StoppingUnknown == FALSE

IsCancelled == stopping

PollInit ==
    /\ queue = NoQueue
    /\ stored = 0
    /\ poll = [p \in Poll |-> NoPoll]
    /\ server = "down"
    /\ stopping = FALSE
    /\ grace = 0

Listen ==
    /\ server = "down"
    /\ server' = "up"
    /\ stopping' = FALSE
    /\ UNCHANGED <<queue, stored, poll, grace>>

-----------------------------------------------------------------------------
(* The receives.                                                           *)

(* receive_message, once the caller is authorized for the queue of that    *)
(* name; the request says how long to wait, or -1.                         *)
Receive(p, wait) ==
    /\ server \in {"up", "terminating", "quitting"}
    /\ poll[p] = NoPoll
    /\ queue # NoQueue
    /\ poll' = [poll EXCEPT ![p] =
         [at |-> IF wait = -1 THEN "wait" ELSE "look", queue |-> queue,
          left |-> IF wait = -1 THEN 0 ELSE wait, nap |-> 0, found |-> 0]]
    /\ UNCHANGED <<queue, stored, server, stopping, grace>>

(* Without a wait in the request, the attribute of the queue, which anyone *)
(* may set and which is read by name.                                      *)
ReadWait(p, attribute) ==
    /\ Is(p, "wait")
    /\ poll' = [poll EXCEPT ![p] =
         [@ EXCEPT !.at = "look",
                   !.left = IF queue = NoQueue THEN 0 ELSE Least(attribute, MaxWait)]]
    /\ UNCHANGED <<queue, stored, server, stopping, grace>>

(* Deviation: the queue is looked up by its name at every look. *)
LookByName(p, id) ==
    /\ Is(p, "look")
    /\ queue = id
    /\ \E n \in 0 .. stored :
          /\ stored > 0 => n > 0
          /\ stored' = stored - n
          /\ poll' = [poll EXCEPT ![p] = [@ EXCEPT !.at = "decide", !.found = n]]
    /\ UNCHANGED <<queue, server, stopping, grace>>

(* sqs_recv_batch, by the id the caller was authorized for.                *)
Look(p, id) ==
    /\ Is(p, "look")
    /\ poll[p].queue = id
    /\ \/ /\ queue = id
          /\ \E n \in 0 .. stored :
                /\ stored > 0 => n > 0
                /\ stored' = stored - n
                /\ poll' = [poll EXCEPT ![p] = [@ EXCEPT !.at = "decide", !.found = n]]
       \/ /\ queue # id   \* QueueDoesNotExist
          /\ poll' = [poll EXCEPT ![p] = NoPoll]
          /\ UNCHANGED stored
    /\ UNCHANGED <<queue, server, stopping, grace>>

(* A poll is done when it has messages, when the next look would be past   *)
(* the deadline, or when the server is stopping.                           *)
Done(p) == poll[p].found > 0 \/ poll[p].left < 1 \/ IsCancelled

Answer(p) ==
    /\ Is(p, "decide")
    /\ Done(p)
    /\ poll' = [poll EXCEPT ![p] = NoPoll]
    /\ UNCHANGED <<queue, stored, server, stopping, grace>>

(* Deviation: the deadline is set anew before every look. *)
SleepAnew(p) ==
    /\ Is(p, "decide")
    /\ ~ Done(p)
    /\ poll' = [poll EXCEPT ![p] = [@ EXCEPT !.at = "sleep", !.nap = 1, !.left = MaxWait]]
    /\ UNCHANGED <<queue, stored, server, stopping, grace>>

(* Until then it sleeps, ...                                               *)
Sleep(p) ==
    /\ Is(p, "decide")
    /\ ~ Done(p)
    /\ poll' = [poll EXCEPT ![p] = [@ EXCEPT !.at = "sleep", !.nap = 1]]
    /\ UNCHANGED <<queue, stored, server, stopping, grace>>

(* ... until it is time for another look, or the server stops.             *)
Wake(p) ==
    /\ Is(p, "sleep")
    /\ poll[p].nap = 0 \/ IsCancelled
    /\ poll' = [poll EXCEPT ![p] = [@ EXCEPT !.at = "look", !.nap = 0]]
    /\ UNCHANGED <<queue, stored, server, stopping, grace>>

(* The client is gone: the handler is dropped where it is.                 *)
Disconnect(p) ==
    /\ p \in Busy
    /\ poll' = [poll EXCEPT ![p] = NoPoll]
    /\ UNCHANGED <<queue, stored, server, stopping, grace>>

Ready(p) ==
    \/ p \in Busy /\ poll[p].at # "sleep"
    \/ Is(p, "sleep") /\ (poll[p].nap = 0 \/ IsCancelled)

PollStep(p) ==
    \/ \E attribute \in Waits \cup {0} : ReadWait(p, attribute)
    \/ \E id \in QueueId : Look(p, id)
    \/ Answer(p)
    \/ Sleep(p)
    \/ Wake(p)

-----------------------------------------------------------------------------
(* What others do to the queue.                                            *)

Send ==
    /\ queue # NoQueue
    /\ stored < MaxStored
    /\ stored' = stored + 1
    /\ UNCHANGED <<queue, poll, server, stopping, grace>>

DeleteQueue ==
    /\ queue # NoQueue
    /\ queue' = NoQueue
    /\ stored' = 0
    /\ UNCHANGED <<poll, server, stopping, grace>>

(* Ids are never used again: none that a poll still has (bound: while      *)
(* there are others).                                                      *)
CreateQueue ==
    /\ queue = NoQueue
    /\ queue' = CHOOSE id \in QueueId : \A p \in Busy : poll[p].queue # id
    /\ queue' \in QueueId
    /\ UNCHANGED <<stored, poll, server, stopping, grace>>

-----------------------------------------------------------------------------
(* stop_on_signal.                                                         *)

(* SIGTERM and SIGINT stop the server gracefully, SIGQUIT at once; either  *)
(* way the long polls are told first.                                      *)
Signal(graceful) ==
    /\ server = "up"
    /\ ~ stopping
    /\ stopping' = TRUE
    /\ server' = IF graceful THEN "terminating" ELSE "quitting"
    /\ UNCHANGED <<queue, stored, poll, grace>>

(* No more requests; those in flight get some time.                        *)
Drain ==
    /\ server = "terminating"
    /\ server' = "draining"
    /\ grace' = Grace
    /\ UNCHANGED <<queue, stored, poll, stopping>>

Down ==
    /\ server' = "down"
    /\ stopping' = FALSE
    /\ grace' = 0
    /\ poll' = [p \in Poll |-> NoPoll]
    /\ UNCHANGED <<queue, stored>>

(* None is left, or the time is up.                                        *)
Stopped == server = "draining" /\ (Busy # {} => grace = 0) /\ Down

(* Deviation: SIGQUIT waits for a moment without requests. *)
QuitWhenIdle == server = "quitting" /\ Busy = {} /\ Down

Quit == server = "quitting" /\ Down

(* An interval passes, when everything ready to happen has.                *)
Tick ==
    /\ \A p \in Poll : ~ Ready(p)
    /\ server \notin {"terminating", "quitting"}
    /\ server = "draining" => Busy # {} /\ grace > 0
    /\ poll' = [p \in Poll |->
         IF p \in Busy THEN [poll[p] EXCEPT !.left = @ - 1, !.nap = 0] ELSE NoPoll]
    /\ grace' = IF grace > 0 THEN grace - 1 ELSE 0
    /\ Busy # {}
    /\ UNCHANGED <<queue, stored, server, stopping>>

-----------------------------------------------------------------------------

(* The values the variables take: a receive is answered by its deadline,   *)
(* not later (mod.rs, receive_message).                                    *)
PollTypeOK ==
    /\ queue \in QueueId \cup {NoQueue}
    /\ stored \in 0 .. MaxStored
    /\ poll \in [Poll -> Waiting \cup {NoPoll}]
    /\ server \in {"down", "up", "terminating", "quitting", "draining"}
    /\ stopping \in BOOLEAN
    /\ grace \in 0 .. Grace

(* However long receives may wait, none is cut off by a graceful stop: the *)
(* time requests get to finish does not run out on one (lib.rs,            *)
(* stop_on_signal and SHUTDOWN_TIMEOUT_SECS).                              *)
NoPollCutOff ==
    ~ (server = "draining" /\ grace = 0 /\ \E p \in Busy : poll[p].found = 0)

(* Messages go to receives whose callers were authorized for their queue,  *)
(* not for an earlier one of the same name (mod.rs, receive_message).      *)
AnswersFromItsQueue ==
    [][stored' < stored /\ queue' = queue
          => \E p \in Poll : Is(p, "look") /\ poll[p].queue = queue /\ poll'[p] # poll[p]
      ]_pollVars

=============================================================================
