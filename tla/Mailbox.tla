------------------------------- MODULE Mailbox -------------------------------
(***************************************************************************)
(* What the scheduler promises the authors of Lua services, with none of   *)
(* the locks, queues or threads that keep the promise:                     *)
(*                                                                         *)
(*   - a service handles its messages one at a time, in the order in which *)
(*     they reached its mailbox, and each of them once;                    *)
(*   - a service exits only from inside a handler of its own, its OnExit   *)
(*     runs once, and no handler runs on it afterwards.                    *)
(*                                                                         *)
(* Messages may still reach the mailbox of a service that has exited: a    *)
(* sender can hold the service object when it leaves the service table.    *)
(***************************************************************************)
EXTENDS Sequences

CONSTANTS
  Services,     \* the services
  Messages      \* what may be sent to them

VARIABLES
  mailbox,      \* the messages a service has been sent and has not started
  busy,         \* the services with a handler (or OnExit) running
  dying,        \* those that asked to be killed
  dead          \* those whose OnExit has returned

boxVars == <<mailbox, busy, dying, dead>>

BoxInit ==
  /\ mailbox = [s \in Services |-> <<>>]
  /\ busy = {}
  /\ dying = {}
  /\ dead = {}

Deliver(s, m) ==
  /\ mailbox' = [mailbox EXCEPT ![s] = Append(@, m)]
  /\ UNCHANGED <<busy, dying, dead>>

Start(s) ==
  /\ s \notin busy \cup dead
  /\ mailbox[s] # <<>>
  /\ mailbox' = [mailbox EXCEPT ![s] = Tail(@)]
  /\ busy' = busy \cup {s}
  /\ UNCHANGED <<dying, dead>>

Kill(s) ==
  /\ s \in busy \ dying
  /\ dying' = dying \cup {s}
  /\ UNCHANGED <<mailbox, busy, dead>>

Finish(s) ==
  /\ s \in busy \ dying
  /\ busy' = busy \ {s}
  /\ UNCHANGED <<mailbox, dying, dead>>

Exit(s) ==
  /\ s \in busy \cap dying
  /\ busy' = busy \ {s}
  /\ dead' = dead \cup {s}
  /\ UNCHANGED <<mailbox, dying>>

BoxNext ==
  \E s \in Services :
    \/ \E m \in Messages : Deliver(s, m)
    \/ Start(s)
    \/ Kill(s)
    \/ Finish(s)
    \/ Exit(s)

BoxSpec == BoxInit /\ [][BoxNext]_boxVars
=============================================================================
