------------------------------- MODULE Server -------------------------------
(***************************************************************************)
(* A server process from its start to its end (src/src/main.rs): started   *)
(* beside other processes, serving receives, stopped by a signal or by a   *)
(* crash, and started again.  Startup has the starts, LongPoll what the    *)
(* process Main serves.                                                    *)
(***************************************************************************)
EXTENDS Startup, LongPoll

CONSTANTS
    Main,         \* the process that serves receives
    Environments, \* the NERVEMQ_ variables processes are started with
    DataDirs      \* what --data-dir may say, Unset among it

ASSUME ServerAssumption ==
    /\ Main \in Process
    /\ Environments \subseteq Config
    /\ DataDirs \subseteq Directory \cup {Unset}

vars == <<startVars, pollVars>>

Init == StartInit /\ PollInit

Serving(p) == p = Main /\ server # "down"

(* run serves once the start is over.                                      *)
Serve ==
    /\ Reached(Main, "ready")
    /\ process[Main].kind = "server"
    /\ Listen
    /\ UNCHANGED startVars

Start(p) ==
    /\ \E environment \in Environments, dir \in DataDirs :
          \E kind \in {"server", "command"} : Launch(p, kind, environment, dir)
    /\ UNCHANGED pollVars

(* What a server had in flight goes with it.                               *)
Die(p) ==
    /\ Crash(p)
    /\ IF Serving(p) THEN Down ELSE UNCHANGED pollVars

StartStep(p) == Advance(p) /\ UNCHANGED pollVars

(* Commands end on their own, Main when it has stopped serving.            *)
Exit(p) ==
    /\ p = Main => Reached(Main, "ready") /\ process[Main].kind = "command"
    /\ End(p)
    /\ UNCHANGED pollVars

Shutdown ==
    \/ Drain /\ UNCHANGED startVars
    \/ (Stopped \/ Quit) /\ End(Main)

Requests ==
    \/ \E p \in Poll, wait \in {w \in Waits : w <= MaxWait} \cup {-1} : Receive(p, wait)
    \/ \E p \in Poll : Disconnect(p)
    \/ Send
    \/ DeleteQueue
    \/ CreateQueue

Next ==
    \/ \E p \in Process : Start(p) \/ Die(p) \/ StartStep(p) \/ Exit(p)
    \/ \E d \in Directory : ChooseOwn(d) /\ UNCHANGED pollVars
    \/ Serve
    \/ Shutdown
    \/ (Requests \/ \E graceful \in BOOLEAN : Signal(graceful)) /\ UNCHANGED startVars
    \/ (Tick \/ \E p \in Poll : PollStep(p)) /\ UNCHANGED startVars

(* tokio runs whatever can go on, and time passes, however many receives   *)
(* come one after another; nobody has to send anything, and no process has *)
(* to crash.                                                               *)
Fairness ==
    /\ \A p \in Poll : WF_vars(PollStep(p) /\ UNCHANGED startVars)
    /\ SF_vars(Tick /\ UNCHANGED startVars)
    /\ WF_vars(Shutdown)

Spec == Init /\ [][Next]_vars /\ Fairness

-----------------------------------------------------------------------------

(* The values the variables take (Startup, LongPoll).                      *)
TypeOK == StartTypeOK /\ PollTypeOK

(* A receive ends, whatever others do to its queue and to its server       *)
(* (mod.rs, receive_message).                                              *)
PollsEnd == \A p \in Poll : poll[p] # NoPoll ~> poll[p] = NoPoll

(* A server that is told to stop ends, with receives in progress that      *)
(* could wait for long (lib.rs, stop_on_signal).                           *)
ServerStops == stopping ~> process[Main] = Off

=============================================================================
