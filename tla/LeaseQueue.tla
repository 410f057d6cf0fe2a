----------------------------- MODULE LeaseQueue -----------------------------
(***************************************************************************)
(* What a queue promises its senders, its consumers and its admins, with   *)
(* no rows, no clock and no settings: MessageLifecycle implements it.      *)
(*                                                                         *)
(* A message is sent once.  Until it leaves for good it is free, held, or  *)
(* lapsed: hidden no longer, but its latest receipt may hide it again.  It *)
(* is handed out with a receipt nobody has had before, and never while it  *)
(* is held.                                                                *)
(***************************************************************************)
EXTENDS Naturals

CONSTANTS
    Message,   \* the messages senders may send
    Receipt,   \* what consumers are handed with a message
    None       \* no receipt: nobody has received the message

VARIABLES
    phase,     \* where each message is in its life
    receipt,   \* the latest receipt of each message that is there
    spent      \* the receipts ever handed out

vars == <<phase, receipt, spent>>

Phase == {"unsent", "free", "held", "lapsed", "gone"}
Here(m) == phase[m] \in {"free", "held", "lapsed"}

(* Only the messages in S change.                                          *)
OnlyIn(S) ==
    \A m \in Message \ S : phase'[m] = phase[m] /\ receipt'[m] = receipt[m]

Init ==
    /\ phase = [m \in Message |-> "unsent"]
    /\ receipt = [m \in Message |-> None]
    /\ spent = {}

(* Messages arrive, some of them held back for a delay.                    *)
Send(S) ==
    /\ \A m \in S : /\ phase[m] = "unsent"
                    /\ phase'[m] \in {"free", "held"}
                    /\ receipt'[m] = None
    /\ OnlyIn(S)
    /\ UNCHANGED spent

(* Consumers receive messages nobody holds, each with a receipt of its own.*)
HandOut(S) ==
    /\ \A m \in S : /\ phase[m] \in {"free", "lapsed"}
                    /\ phase'[m] \in {"held", "lapsed"}
                    /\ receipt'[m] \in Receipt \ spent
    /\ \A k, m \in S : receipt'[k] = receipt'[m] => k = m
    /\ OnlyIn(S)
    /\ spent' = spent \cup {receipt'[m] : m \in S}

(* Whoever has the latest receipt of a message hides it, again or for      *)
(* longer, or lets go of it.                                               *)
Hide(S) ==
    /\ \A m \in S : /\ phase[m] \in {"held", "lapsed"}
                    /\ phase'[m] \in {"held", "lapsed"}
                    /\ receipt[m] # None
                    /\ receipt'[m] = receipt[m]
    /\ OnlyIn(S)
    /\ UNCHANGED spent

(* Time runs out.                                                          *)
Lapse(S) ==
    /\ \A m \in S : /\ phase[m] = "held"
                    /\ phase'[m] = "lapsed"
                    /\ receipt'[m] = receipt[m]
    /\ OnlyIn(S)
    /\ UNCHANGED spent

(* An admin takes messages from their holders; their receipts hide them no *)
(* more.                                                                   *)
SetFree(S) ==
    /\ \A m \in S : /\ Here(m)
                    /\ phase'[m] = "free"
                    /\ receipt'[m] = receipt[m]
    /\ OnlyIn(S)
    /\ UNCHANGED spent

(* Messages leave, and never come back.                                    *)
Leave(S) ==
    /\ \A m \in S : /\ Here(m)
                    /\ phase'[m] = "gone"
                    /\ receipt'[m] = None
    /\ OnlyIn(S)
    /\ UNCHANGED spent

Next ==
    \E S \in SUBSET Message :
        Send(S) \/ HandOut(S) \/ Hide(S) \/ Lapse(S) \/ SetFree(S) \/ Leave(S)

Spec == Init /\ [][Next]_vars
=============================================================================
