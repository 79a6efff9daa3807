----------------------------- MODULE Timer_proofs -----------------------------
(***************************************************************************)
(* Proofs about Timer, for any set of calls, delays and any clock.         *)
(***************************************************************************)
EXTENDS Timer, TLAPS

LEMMA Arithmetic ==
  /\ \A ms \in Delays : ms * TicksPerMs \in Nat
  /\ \A n \in Nat : n * TicksPerMs \in Nat /\ n \div TicksPerMs \in Nat
  BY TimerAssumption

LEMMA InitInv == Init => IInv
  BY TimerAssumption DEF Init, IInv, TypeOK, WaitsForTheFirst, OnePlaceEach,
     InHand, DeadlineIsForTop, Top

(* One case per action.  Only two of them can make the heap more urgent    *)
(* than what TimerWorker waits for: WaitUntil, which keeps timerMtx from   *)
(* the scan on, and TimeoutPush, which then signals.                       *)
LEMMA NextInv == IInv /\ [Next]_vars => IInv'
<1> SUFFICES ASSUME IInv, [Next]_vars
             PROVE  IInv'
  OBVIOUS
<1> USE DEF IInv, TypeOK, WaitsForTheFirst, OnePlaceEach, InHand,
            DeadlineIsForTop, Top
<1>1. CASE Tick
  BY <1>1 DEF Tick, callVars, workerVars
<1>2. ASSUME NEW c \in Calls, NEW ms \in Delays, TimeoutBegin(c, ms)
      PROVE  IInv'
  BY <1>2, Arithmetic DEF TimeoutBegin, workerVars
<1>3. ASSUME NEW c \in Calls, TimeoutPush(c)
      PROVE  IInv'
  BY <1>3 DEF TimeoutPush, NewTop, TimerHolds, Waiting, workerVars
<1>4. CASE Lock
  BY <1>4 DEF Lock, callVars, workerVars
<1>5. CASE ScanEmpty
  BY <1>5 DEF ScanEmpty, callVars, workerVars
<1>6. ASSUME NEW c \in Calls, ScanExpired(c)
      PROVE  IInv'
  BY <1>6 DEF ScanExpired, callVars
<1>7. ASSUME NEW c \in Calls, ScanPending(c)
      PROVE  IInv'
  <2>1. diff' \in Nat
    BY <1>7, Arithmetic DEF ScanPending
  <2> QED
    BY <1>7, <2>1 DEF ScanPending, callVars
<1>8. CASE WaitUntil
  BY <1>8, Arithmetic DEF WaitUntil, callVars
<1>9. CASE TimedOut
  BY <1>9 DEF TimedOut, callVars, workerVars
<1>10. CASE SpuriousWake
  BY <1>10 DEF SpuriousWake, Waiting, callVars, workerVars
<1>11. CASE Fire
  BY <1>11 DEF Fire, callVars, workerVars
<1>12. CASE Relock
  BY <1>12 DEF Relock, callVars, workerVars
<1>13. CASE UNCHANGED vars
  BY <1>13 DEF vars, callVars, workerVars
<1> QED
  BY <1>1, <1>2, <1>3, <1>4, <1>5, <1>6, <1>7, <1>8, <1>9, <1>10, <1>11,
     <1>12, <1>13 DEF Next, WorkerStep

(* The invariant that carries the others. *)
THEOREM Invariance == Spec => []IInv
  BY InitInv, NextInv, PTL DEF Spec

(* The variables of Timeout and TimerWorker keep their types. *)
THEOREM TypeCorrect == Spec => []TypeOK
<1>1. IInv => TypeOK
  BY DEF IInv
<1> QED
  BY <1>1, Invariance, PTL

(* TimerWorker never sleeps on a heap whose first timer it does not wait   *)
(* for: the signal of Timeout is given whenever it is needed.              *)
THEOREM NoLostTimer == Spec => []WaitsForTheFirst
<1>1. IInv => WaitsForTheFirst
  BY DEF IInv
<1> QED
  BY <1>1, Invariance, PTL

(* A timer that was pushed is in the heap, with TimerWorker or sent, once. *)
THEOREM NoTimerTwice == Spec => []OnePlaceEach
<1>1. IInv => OnePlaceEach
  BY DEF IInv
<1> QED
  BY <1>1, Invariance, PTL

LEMMA StepRefines ==
  ASSUME IInv, IInv', [Next]_vars
  PROVE  [Alarm!AlarmNext]_(Alarm!alarmVars)
<1> USE DEF IInv, TypeOK, OnePlaceEach, InHand, Alarm!alarmVars
<1>1. CASE Tick
  BY <1>1 DEF Tick, callVars, workerVars, Alarm!AlarmNext, Alarm!Advance
<1>2. ASSUME NEW c \in Calls, NEW ms \in Delays, TimeoutBegin(c, ms)
      PROVE  Alarm!AlarmNext
  <2>1. Alarm!Set(c, ms * TicksPerMs)
    BY <1>2 DEF TimeoutBegin, workerVars, Alarm!Set
  <2> QED
    BY <2>1 DEF Alarm!AlarmNext
<1>3. ASSUME NEW c \in Calls, TimeoutPush(c)
      PROVE  UNCHANGED Alarm!alarmVars
  <2>1. UNCHANGED <<now, expire, fired, node>> /\ callPc[c] = "push"
    BY <1>3 DEF TimeoutPush, workerVars
  <2>2. timerQueue' = timerQueue \cup {c} /\ callPc' = [callPc EXCEPT ![c] = "done"]
    BY <1>3 DEF TimeoutPush
  <2>3. pc' = "send" <=> pc = "send"
    BY <1>3 DEF TimeoutPush, Waiting
  <2>4. {d \in Calls : callPc'[d] = "push"} \cup timerQueue'
          = {d \in Calls : callPc[d] = "push"} \cup timerQueue
    BY <2>1, <2>2
  <2>5. (IF pc' = "send" THEN {node'} ELSE {})
          = (IF pc = "send" THEN {node} ELSE {})
    BY <2>1, <2>3
  <2> QED
    BY <2>1, <2>4, <2>5
<1>4. ASSUME NEW c \in Calls, ScanExpired(c)
      PROVE  UNCHANGED Alarm!alarmVars
  BY <1>4 DEF ScanExpired, callVars, Top
<1>5. ASSUME NEW c \in Calls, ScanPending(c)
      PROVE  UNCHANGED Alarm!alarmVars
  BY <1>5 DEF ScanPending, callVars
<1>6. CASE Fire
  <2>1. PICK c \in Calls : c = node
    BY <1>6 DEF Fire
  <2>2. Alarm!Ring(c)
    BY <1>6, <2>1 DEF Fire, callVars, workerVars, Alarm!Ring
  <2> QED
    BY <2>2 DEF Alarm!AlarmNext
<1>7. CASE Lock \/ ScanEmpty \/ WaitUntil \/ TimedOut \/ Relock \/ SpuriousWake
  BY <1>7 DEF Lock, ScanEmpty, WaitUntil, TimedOut, Relock, SpuriousWake,
     Waiting, callVars, workerVars
<1>8. CASE UNCHANGED vars
  BY <1>8 DEF vars, callVars, workerVars
<1> QED
  BY <1>1, <1>2, <1>3, <1>4, <1>5, <1>6, <1>7, <1>8 DEF Next, WorkerStep

(* Once per timer and never early, whatever is added in between. *)
THEOREM Refinement == Spec => ImplementsAlarmClock
<1>1. Init => Alarm!AlarmInit
  BY DEF Init, Alarm!AlarmInit
<1>2. IInv /\ IInv' /\ [Next]_vars => [Alarm!AlarmNext]_(Alarm!alarmVars)
  BY StepRefines
<1> QED
  BY <1>1, <1>2, Invariance, PTL DEF Spec, ImplementsAlarmClock,
     Alarm!AlarmSpec
=============================================================================
