-------------------------------- MODULE Timer --------------------------------
(***************************************************************************)
(* The timer of sunnet: Sunnet::Timeout, called by a worker for a          *)
(* coroutine that goes to sleep, and the thread TimerWorker, which hands   *)
(* the timers that expire to Sunnet::Send (src/Sunnet.cpp,                 *)
(* src/TimerWorker.cpp).                                                   *)
(*                                                                         *)
(* timerMtx protects the heap timerQueue.  Timeout keeps it for one step;  *)
(* TimerWorker keeps it across the steps of its scan, in which it reads    *)
(* the clock twice, and gives it up for every Send and every wait.         *)
(*                                                                         *)
(* The steady clock counts ticks, TicksPerMs of them to a millisecond,     *)
(* because the wait is computed in whole milliseconds.                     *)
(*                                                                         *)
(* A definition whose name ends in Slip is the one after it with a         *)
(* plausible programming slip; no specification uses it.                   *)
(***************************************************************************)
EXTENDS Integers

CONSTANTS
  Calls,        \* the calls of Timeout that are made; each adds one timer
  Delays,       \* the values of its parameter ms
  TicksPerMs,   \* the resolution of the steady clock
  MaxNow,       \* bound: no timer is set to expire later than this
  NoCall        \* the timer TimerWorker has before it takes the first

ASSUME TimerAssumption ==
  /\ Delays \subseteq Nat
  /\ TicksPerMs \in Nat \ {0}
  /\ MaxNow \in Nat
  /\ NoCall \notin Calls

VARIABLES
  now,          \* the steady clock
  callPc,       \* where a call is in Sunnet::Timeout
  expire,       \* TimerNode::expire of the timer it makes
  timerQueue,   \* Sunnet::timerQueue, as the set of the timers in the heap
  pc,           \* where TimerWorker is in its loop
  node,         \* the timer it took from the top of the heap
  diff,         \* the milliseconds it found were left to that timer
  deadline,     \* the time at which its wait ends
  fired         \* the timers whose message was handed to Send

callVars == <<callPc, expire>>
workerVars == <<node, diff, deadline>>
vars == <<now, callVars, timerQueue, pc, workerVars, fired>>

Init ==
  /\ now = 0
  /\ callPc = [c \in Calls |-> "none"]
  /\ expire = [c \in Calls |-> 0]
  /\ timerQueue = {}
  /\ pc = "lock"
  /\ node = NoCall
  /\ diff = 0
  /\ deadline = 0
  /\ fired = {}

TimerHolds == pc \in {"scan", "deadline"}   \* TimerWorker has timerMtx

Waiting == pc \in {"empty", "timed"}        \* it waits on timerCond

-----------------------------------------------------------------------------
(* Time passes.  The clock may run past MaxNow while somebody waits for it. *)
Tick ==
  /\ now < MaxNow \/ (pc = "timed" /\ now < deadline)
  /\ now' = now + 1
  /\ UNCHANGED <<callVars, timerQueue, pc, workerVars, fired>>

(* Sunnet::Timeout.  The time of expiry is fixed before timerMtx is taken. *)
TimeoutBegin(c, ms) ==
  /\ callPc[c] = "none"
  /\ now + ms * TicksPerMs <= MaxNow
  /\ expire' = [expire EXCEPT ![c] = now + ms * TicksPerMs]
  /\ callPc' = [callPc EXCEPT ![c] = "push"]
  /\ UNCHANGED <<now, timerQueue, pc, workerVars, fired>>

(* Slip: only a timer that finds the heap empty wakes the thread. *)
NewTopSlip(c) == timerQueue = {}

(* The wake test of Timeout: c expires before everything in the heap. *)
NewTop(c) == \A d \in timerQueue : expire[c] < expire[d]

(* A signal that finds TimerWorker waiting sends it back for timerMtx. *)
TimeoutPush(c) ==
  /\ callPc[c] = "push"
  /\ ~TimerHolds
  /\ timerQueue' = timerQueue \cup {c}
  /\ pc' = IF NewTop(c) /\ Waiting THEN "lock" ELSE pc
  /\ callPc' = [callPc EXCEPT ![c] = "done"]
  /\ UNCHANGED <<now, expire, workerVars, fired>>

-----------------------------------------------------------------------------
(* TimerWorker::operator().                                                *)

(* timerMtx is taken; an empty heap means a wait, which gives it up.       *)
Lock ==
  /\ pc = "lock"
  /\ pc' = IF timerQueue = {} THEN "empty" ELSE "scan"
  /\ UNCHANGED <<now, callVars, timerQueue, workerVars, fired>>

(* TimerCompare turns the priority queue into a min-heap. *)
Top(c) == c \in timerQueue /\ \A d \in timerQueue : expire[c] <= expire[d]

ScanEmpty ==
  /\ pc = "scan"
  /\ timerQueue = {}
  /\ pc' = "lock"
  /\ UNCHANGED <<now, callVars, timerQueue, workerVars, fired>>

(* Slip: the timer is sent but not popped. *)
ScanExpiredSlip(c) ==
  /\ pc = "scan"
  /\ Top(c)
  /\ expire[c] <= now
  /\ node' = c
  /\ pc' = "send"
  /\ UNCHANGED <<now, callVars, timerQueue, diff, deadline, fired>>

(* The first timer has expired: it is popped and timerMtx released.        *)
ScanExpired(c) ==
  /\ pc = "scan"
  /\ Top(c)
  /\ expire[c] <= now
  /\ timerQueue' = timerQueue \ {c}
  /\ node' = c
  /\ pc' = "send"
  /\ UNCHANGED <<now, callVars, diff, deadline, fired>>

(* It has not: what is left of it is truncated to milliseconds.            *)
ScanPending(c) ==
  /\ pc = "scan"
  /\ Top(c)
  /\ now < expire[c]
  /\ node' = c
  /\ diff' = (expire[c] - now) \div TicksPerMs
  /\ pc' = "deadline"
  /\ UNCHANGED <<now, callVars, timerQueue, deadline, fired>>

(* MakeMonotonicDeadline reads the clock again; the wait releases timerMtx. *)
WaitUntil ==
  /\ pc = "deadline"
  /\ deadline' = now + diff * TicksPerMs
  /\ diff' = 0
  /\ pc' = "timed"
  /\ UNCHANGED <<now, callVars, timerQueue, node, fired>>

(* The wait ends; back to the top of the loop for timerMtx.                *)
TimedOut ==
  /\ pc = "timed"
  /\ deadline <= now
  /\ pc' = "lock"
  /\ UNCHANGED <<now, callVars, timerQueue, workerVars, fired>>

SpuriousWake ==
  /\ Waiting
  /\ pc' = "lock"
  /\ UNCHANGED <<now, callVars, timerQueue, workerVars, fired>>

(* Send, without timerMtx: timers can be added meanwhile.                  *)
Fire ==
  /\ pc = "send"
  /\ fired' = fired \cup {node}
  /\ pc' = "relock"
  /\ UNCHANGED <<now, callVars, timerQueue, workerVars>>

(* Slip: after a Send the thread waits for the next signal. *)
RelockSlip ==
  /\ pc = "relock"
  /\ pc' = "empty"
  /\ UNCHANGED <<now, callVars, timerQueue, workerVars, fired>>

Relock ==
  /\ pc = "relock"
  /\ pc' = "scan"
  /\ UNCHANGED <<now, callVars, timerQueue, workerVars, fired>>

-----------------------------------------------------------------------------
WorkerStep ==
  \/ Lock \/ ScanEmpty \/ WaitUntil \/ TimedOut \/ Fire \/ Relock
  \/ \E c \in Calls : ScanExpired(c) \/ ScanPending(c)

Next ==
  \/ Tick
  \/ \E c \in Calls :
       TimeoutPush(c) \/ \E ms \in Delays : TimeoutBegin(c, ms)
  \/ WorkerStep
  \/ SpuriousWake

Spec == Init /\ [][Next]_vars

Fairness ==
  /\ WF_vars(Tick)
  /\ WF_vars(WorkerStep)
  /\ \A c \in Calls : WF_vars(TimeoutPush(c))

FairSpec == Spec /\ Fairness

-----------------------------------------------------------------------------
(* Type invariant. *)
TypeOK ==
  /\ now \in Nat
  /\ callPc \in [Calls -> {"none", "push", "done"}]
  /\ expire \in [Calls -> Nat]
  /\ timerQueue \subseteq Calls
  /\ pc \in {"lock", "empty", "scan", "deadline", "timed", "send", "relock"}
  /\ node \in Calls \cup {NoCall}
  /\ diff \in Nat
  /\ deadline \in Nat
  /\ fired \subseteq Calls

(* While TimerWorker waits nothing in the heap is more urgent than what it *)
(* waits for: an endless wait means an empty heap, a timed wait is for the *)
(* first of the heap.  Timeout signals only when it thinks it must, and a  *)
(* signal that arrives during a Send or a scan is lost.                    *)
WaitsForTheFirst ==
  /\ pc = "empty" => timerQueue = {}
  /\ pc = "timed" => Top(node)

(* No timer is lost or doubled: once pushed it is in the heap, in the hands *)
(* of TimerWorker, or sent, and in one of them only; and what TimerWorker   *)
(* has popped has expired.                                                  *)
InHand(c) == pc = "send" /\ node = c

OnePlaceEach ==
  /\ \A c \in Calls :
       callPc[c] = "done" <=> c \in timerQueue \/ InHand(c) \/ c \in fired
  /\ timerQueue \cap fired = {}
  /\ pc = "send" => node \in Calls
  /\ \A c \in Calls :
       InHand(c) => c \notin timerQueue \cup fired /\ expire[c] <= now

(* What TimerWorker computes its deadline from is still the first. *)
DeadlineIsForTop == pc = "deadline" => Top(node)

(* The inductive invariant. *)
IInv == TypeOK /\ WaitsForTheFirst /\ OnePlaceEach /\ DeadlineIsForTop

(* The timer implements an alarm clock: a timer is handed to Send once,    *)
(* and not before its delay has passed since Timeout was called.           *)
Alarm == INSTANCE AlarmClock WITH
  Alarms <- Calls,
  Delays <- {ms * TicksPerMs : ms \in Delays},
  time <- now,
  due <- expire,
  armed <- {c \in Calls : callPc[c] = "push"} \cup timerQueue
             \cup (IF pc = "send" THEN {node} ELSE {}),
  rung <- fired

ImplementsAlarmClock == Alarm!AlarmSpec

(* Every timer that is set goes off, whatever is set before and after it   *)
(* and wherever TimerWorker is when it is pushed.                          *)
EveryTimerFires == \A c \in Calls : callPc[c] = "push" ~> c \in fired
=============================================================================
