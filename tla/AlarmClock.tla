------------------------------ MODULE AlarmClock ------------------------------
(***************************************************************************)
(* What the timer promises a coroutine that sleeps: its alarm rings once,  *)
(* and not before its time.  No heap, no lock, no condition variable.      *)
(***************************************************************************)
EXTENDS Naturals

CONSTANTS
  Alarms,       \* the alarms that can be set
  Delays        \* the times they can be set to, in ticks

VARIABLES
  time,         \* the clock
  due,          \* alarm -> the time at which it may ring
  armed,        \* the alarms that are set and have not rung
  rung          \* those that have

alarmVars == <<time, due, armed, rung>>

AlarmInit ==
  /\ time = 0
  /\ due = [a \in Alarms |-> 0]
  /\ armed = {}
  /\ rung = {}

Advance ==
  /\ time' = time + 1
  /\ UNCHANGED <<due, armed, rung>>

Set(a, delay) ==
  /\ a \notin armed \cup rung
  /\ due' = [due EXCEPT ![a] = time + delay]
  /\ armed' = armed \cup {a}
  /\ UNCHANGED <<time, rung>>

Ring(a) ==
  /\ a \in armed
  /\ due[a] <= time
  /\ armed' = armed \ {a}
  /\ rung' = rung \cup {a}
  /\ UNCHANGED <<time, due>>

AlarmNext ==
  \/ Advance
  \/ \E a \in Alarms : Ring(a) \/ \E delay \in Delays : Set(a, delay)

AlarmSpec == AlarmInit /\ [][AlarmNext]_alarmVars
=============================================================================
