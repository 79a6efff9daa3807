-------------------------- MODULE Scheduler_proofs ---------------------------
(***************************************************************************)
(* IInv is an invariant of the scheduler for every number of services,     *)
(* workers and senders, and the properties that follow from it.            *)
(***************************************************************************)
EXTENDS Scheduler, TLAPS, FiniteSetTheorems, SequenceTheorems

USE SchedulerAssumption
        DEF Threads, vars, serviceVars, queueVars, sleepVars, workerVars,
       senderVars

-----------------------------------------------------------------------------
(* What the queue operations do to the type and the elements of a queue.   *)

(* Append keeps the elements of a queue and adds one at the end. *)
LEMMA AppendLemma ==
  ASSUME NEW S, NEW q \in Seq(S), NEW x \in S
  PROVE  /\ Append(q, x) \in Seq(S)
         /\ Len(Append(q, x)) = Len(q) + 1
         /\ \A i \in 1 .. Len(q) : Append(q, x)[i] = q[i]
         /\ Append(q, x)[Len(q) + 1] = x
         /\ Append(q, x) # <<>>
  OBVIOUS

(* Taking the first element shifts the others by one. *)
LEMMA TailLemma ==
  ASSUME NEW S, NEW q \in Seq(S), q # <<>>
  PROVE  /\ Head(q) \in S
         /\ Head(q) = q[1]
         /\ Tail(q) \in Seq(S)
         /\ Len(q) \in Nat \ {0}
         /\ Len(Tail(q)) = Len(q) - 1
         /\ \A i \in 1 .. Len(q) - 1 : Tail(q)[i] = q[i + 1]
  OBVIOUS

(* A message that is being sent is one of Messages. *)
LEMMA MsgLemma ==
  ASSUME SenderTypes, NEW t \in Threads, sendPc[t] # "none"
  PROVE  Msg(t) \in Messages
<1>1. sent[t] \in 1 .. MaxSends[t]
  BY DEF SenderTypes
<1>2. Msg(t) \in [from : {t}, n : 1 .. MaxSends[t]]
  BY <1>1 DEF Msg
<1> QED
  BY <1>2 DEF Messages

(* A worker at one of the steps of Serving has a service. *)
LEMMA ServingLemma ==
  ASSUME WorkerTypes, ServingHasService, NEW w \in Workers
  PROVE  pc[w] \in Serving => cur[w] \in Services
  BY DEF WorkerTypes, ServingHasService

-----------------------------------------------------------------------------
(* sleepCount. *)

(* The number of workers is a natural number. *)
LEMMA WorkersCount == Cardinality(Workers) \in Nat
  BY FS_CardinalityType

(* A set of workers is finite and no larger than the pool. *)
LEMMA SleepersCount ==
  ASSUME NEW S, S \subseteq Workers
  PROVE  IsFiniteSet(S) /\ Cardinality(S) \in 0 .. Cardinality(Workers)
  BY FS_Subset, FS_CardinalityType, WorkersCount

(* SleepCountExact: WaitEnter and WaitLeave change the count and the set of    *)
(* the workers in WorkerWait together; no other step changes either.          *)
LEMMA SleepCountStep ==
  ASSUME IInv, [Next]_vars
  PROVE  SleepCountExact' /\ sleepCount' \in 0 .. Cardinality(Workers)
<1> DEFINE S == {w \in Workers : InWait(w)}
<1> USE DEF IInv, TypeOK, WorkerTypes, SleepTypes, InWait
<1>1. /\ IsFiniteSet(S) /\ sleepCount = Cardinality(S)
      /\ Cardinality(S') \in 0 .. Cardinality(Workers)
  <2>1. S \subseteq Workers /\ S' \subseteq Workers
    OBVIOUS
  <2>2. sleepCount = Cardinality(S)
    BY DEF SleepCountExact
  <2> QED
    BY <2>1, <2>2, SleepersCount
<1>2. sleepCount' = Cardinality(S')
  <2>1. ASSUME NEW w \in Workers, WaitEnter(w) PROVE sleepCount' = Cardinality(S')
    <3>1. S' = S \cup {w} /\ w \notin S /\ sleepCount' = sleepCount + 1
      BY <2>1 DEF WaitEnter
    <3> QED
      BY <1>1, <3>1, FS_AddElement
  <2>2. ASSUME NEW w \in Workers, WaitLeave(w) PROVE sleepCount' = Cardinality(S')
    <3>1. S' = S \ {w} /\ w \in S /\ sleepCount' = sleepCount - 1
      BY <2>2 DEF WaitLeave
    <3>2. Cardinality(S \ {w}) = Cardinality(S) - 1
      BY <1>1, <3>1, FS_RemoveElement
    <3> QED
      BY <1>1, <3>1, <3>2
  <2>3. ASSUME NEW w \in Workers,
               \/ PopGlobalQueue(w) \/ WaitSleep(w) \/ SpuriousWake(w)
               \/ PopMsg(w) \/ KillService(w) \/ KillErase(w) \/ EndMsg(w)
               \/ OnExit(w) \/ DropExiting(w) \/ CheckQueue(w) \/ PutGlobal(w)
               \/ ClearInGlobal(w)
        PROVE  sleepCount' = Cardinality(S')
    <3>1. /\ sleepCount' = sleepCount
          /\ \A v \in Workers \ {w} : pc'[v] = pc[v]
          /\ InWait(w)' <=> InWait(w)
      BY <2>3 DEF PopGlobalQueue, WaitSleep, SpuriousWake, PopMsg, KillService,
                  KillErase, EndMsg, OnExit, DropExiting, CheckQueue, PutGlobal,
                  ClearInGlobal, LetGo
    <3>2. S' = S
      BY <3>1
    <3> QED
      BY <1>1, <3>1, <3>2
  <2>4. ASSUME NEW t \in Threads,
               \/ PushMsg(t) \/ SendCheck(t) \/ SendMark(t) \/ WakeCount(t)
               \/ \E s \in Services : SendLookup(t, s)
        PROVE  sleepCount' = Cardinality(S')
    <3>1. UNCHANGED <<sleepCount, pc>>
      BY <2>4 DEF PushMsg, SendCheck, SendMark, WakeCount, SendLookup
    <3> QED
      BY <1>1, <3>1
  <2>5. ASSUME NEW t \in Threads, WakeSignal(t) PROVE sleepCount' = Cardinality(S')
    <3>1. /\ sleepCount' = sleepCount
          /\ \/ pc' = pc
             \/ \E w \in Workers : pc[w] = "asleep" /\ pc' = [pc EXCEPT ![w] = "woken"]
      BY <2>5 DEF WakeSignal, CondSignal
    <3>2. S' = S
      BY <3>1
    <3> QED
      BY <1>1, <3>1, <3>2
  <2>6. CASE UNCHANGED vars
    BY <1>1, <2>6
  <2> QED
    BY <2>1, <2>2, <2>3, <2>4, <2>5, <2>6 DEF Next, SendStep, WorkerStep
<1> QED
  BY <1>1, <1>2 DEF SleepCountExact

-----------------------------------------------------------------------------
(* Types, a group of variables at a time. *)

(* Only KillService, KillErase and OnExit change the state of a service. *)
LEMMA ServiceTypesStep ==
  ASSUME IInv, [Next]_vars
  PROVE  ServiceTypes'
<1> USE DEF IInv, TypeOK, ServiceTypes
<1>1. ASSUME NEW w \in Workers, KillService(w) \/ KillErase(w) \/ OnExit(w)
      PROVE  ServiceTypes'
  <2>1. cur[w] \in Services
    BY <1>1, ServingLemma DEF KillService, KillErase, OnExit, Serving
  <2> QED
    BY <1>1, <2>1 DEF KillService, KillErase, OnExit
<1>2. CASE UNCHANGED serviceVars
  BY <1>2
<1> QED
  BY <1>1, <1>2 DEF Next, SendStep, WorkerStep, SendLookup, PushMsg, SendCheck,
     SendMark, WakeCount, WakeSignal, PopGlobalQueue, WaitEnter, WaitSleep,
     SpuriousWake, WaitLeave, PopMsg, EndMsg, DropExiting, CheckQueue,
     PutGlobal, ClearInGlobal

(* The queues hold messages and services, the locks their owners. *)
LEMMA QueueTypesStep ==
  ASSUME IInv, [Next]_vars
  PROVE  QueueTypes'
<1> USE DEF IInv, TypeOK, QueueTypes
<1>1. ASSUME NEW t \in Threads, PushMsg(t) PROVE QueueTypes'
  <2>1. to[t] \in Services /\ Msg(t) \in Messages
    BY <1>1, MsgLemma DEF PushMsg, SenderTypes
  <2>2. Append(msgQueue[to[t]], Msg(t)) \in Seq(Messages)
    BY <2>1, AppendLemma
  <2> QED
    BY <1>1, <2>1, <2>2 DEF PushMsg
<1>2. ASSUME NEW t \in Threads, SendCheck(t) PROVE QueueTypes'
  <2>1. to[t] \in Services
    BY <1>2 DEF SendCheck, SenderTypes
  <2>2. Append(globalQueue, to[t]) \in Seq(Services)
    BY <2>1, AppendLemma
  <2>3. globalQueue' \in Seq(Services)
    BY <1>2, <2>2 DEF SendCheck
  <2>4. \/ inGlobalLock' = inGlobalLock
        \/ inGlobalLock' = [inGlobalLock EXCEPT ![to[t]] = t]
    BY <1>2 DEF SendCheck
  <2>5. inGlobalLock' \in [Services -> Threads \cup {NoThread}]
    BY <2>4
  <2>6. UNCHANGED <<msgQueue, queueLock, inGlobal>>
    BY <1>2 DEF SendCheck
  <2> QED
    BY <2>3, <2>5, <2>6
<1>3. ASSUME NEW t \in Threads, SendMark(t) PROVE QueueTypes'
  BY <1>3 DEF SendMark
<1>4. ASSUME NEW w \in Workers, PopGlobalQueue(w) PROVE QueueTypes'
  <2>1. \/ globalQueue' = globalQueue
        \/ globalQueue # <<>> /\ globalQueue' = Tail(globalQueue)
    BY <1>4 DEF PopGlobalQueue
  <2>2. globalQueue' \in Seq(Services)
    <3>1. CASE globalQueue # <<>> /\ globalQueue' = Tail(globalQueue)
      <4>1. Tail(globalQueue) \in Seq(Services)
        BY <3>1, TailLemma
      <4> QED
        BY <3>1, <4>1
    <3> QED
      BY <2>1, <3>1
  <2> QED
    BY <1>4, <2>2 DEF PopGlobalQueue
<1>5. ASSUME NEW w \in Workers, PopMsg(w) PROVE QueueTypes'
  <2>1. cur[w] \in Services
    BY <1>5, ServingLemma DEF PopMsg, Serving
  <2>2. msgQueue[cur[w]] # <<>> => Tail(msgQueue[cur[w]]) \in Seq(Messages)
    BY <2>1, TailLemma
  <2>3. msgQueue' \in [Services -> Seq(Messages)]
    BY <1>5, <2>1, <2>2 DEF PopMsg
  <2> QED
    BY <1>5, <2>3 DEF PopMsg
<1>6. ASSUME NEW w \in Workers, CheckQueue(w) PROVE QueueTypes'
  BY <1>6 DEF CheckQueue
<1>7. ASSUME NEW w \in Workers, PutGlobal(w) PROVE QueueTypes'
  <2>1. cur[w] \in Services
    BY <1>7, ServingLemma DEF PutGlobal, Serving
  <2>2. globalQueue' \in Seq(Services)
    BY <1>7, <2>1, AppendLemma DEF PutGlobal
  <2> QED
    BY <1>7, <2>2 DEF PutGlobal
<1>8. ASSUME NEW w \in Workers, ClearInGlobal(w) PROVE QueueTypes'
  BY <1>8 DEF ClearInGlobal
<1>9. CASE UNCHANGED queueVars
  BY <1>9
<1> QED
  BY <1>1, <1>2, <1>3, <1>4, <1>5, <1>6, <1>7, <1>8, <1>9
     DEF Next, SendStep, WorkerStep, SendLookup, WakeCount, WakeSignal,
     WaitEnter, WaitSleep, SpuriousWake, WaitLeave, KillService, KillErase,
     EndMsg, OnExit, DropExiting

(* A worker stays at a step of its loop, with a service or none. *)
LEMMA WorkerTypesStep ==
  ASSUME IInv, [Next]_vars
  PROVE  WorkerTypes' /\ sleepMtx' \in Workers \cup {NoThread}
<1> DEFINE Goal == WorkerTypes' /\ sleepMtx' \in Workers \cup {NoThread}
<1> USE DEF IInv, TypeOK, WorkerTypes, WorkerSteps, SleepTypes
<1>1. ASSUME NEW t \in Threads, WakeSignal(t) PROVE Goal
  <2>1. pc' = pc \/ \E w \in Workers : pc' = [pc EXCEPT ![w] = "woken"]
    BY <1>1 DEF WakeSignal, CondSignal
  <2> QED
    BY <1>1, <2>1 DEF WakeSignal
<1>2. ASSUME NEW w \in Workers, PopGlobalQueue(w) PROVE Goal
  <2>1. \/ cur' = cur
        \/ /\ Head(globalQueue) \in Services
           /\ cur' = [cur EXCEPT ![w] = Head(globalQueue)]
    BY <1>2, TailLemma DEF PopGlobalQueue, QueueTypes
  <2>2. pc' = [pc EXCEPT ![w] = "lock"] \/ pc' = [pc EXCEPT ![w] = "next"]
    BY <1>2 DEF PopGlobalQueue
  <2>3. UNCHANGED <<done, sleepMtx>>
    BY <1>2 DEF PopGlobalQueue
  <2> QED
    BY <2>1, <2>2, <2>3
<1>3. ASSUME NEW w \in Workers,
             \/ WaitEnter(w) \/ WaitSleep(w) \/ SpuriousWake(w) \/ WaitLeave(w)
             \/ PopMsg(w) \/ KillService(w) \/ KillErase(w)
      PROVE  Goal
    BY <1>3 DEF WaitEnter, WaitSleep, SpuriousWake, WaitLeave, PopMsg,
     KillService,
              KillErase
<1>4. ASSUME NEW w \in Workers,
             OnExit(w) \/ DropExiting(w) \/ PutGlobal(w) \/ ClearInGlobal(w)
      PROVE  Goal
  <2>1. UNCHANGED sleepMtx
    BY <1>4 DEF OnExit, DropExiting, PutGlobal, ClearInGlobal
  <2>2. CASE LetGo(w)
    BY <2>1, <2>2 DEF LetGo
  <2>3. CASE OnExit(w)
    BY <2>3 DEF OnExit
  <2> QED
    BY <1>4, <2>2, <2>3 DEF DropExiting, PutGlobal, ClearInGlobal
<1>5. ASSUME NEW w \in Workers, CheckQueue(w) PROVE Goal
  BY <1>5 DEF CheckQueue
<1>6. ASSUME NEW w \in Workers, EndMsg(w) PROVE Goal
  <2>1. \E step \in {"exit", "next", "check"} : pc' = [pc EXCEPT ![w] = step]
    BY <1>6 DEF EndMsg
  <2>2. done' = [done EXCEPT ![w] = done[w] + 1] /\ UNCHANGED <<cur, sleepMtx>>
    BY <1>6 DEF EndMsg
  <2> QED
    BY <2>1, <2>2
<1>7. CASE UNCHANGED <<pc, cur, done, sleepMtx>>
  BY <1>7
<1> QED
  BY <1>1, <1>2, <1>3, <1>4, <1>5, <1>6, <1>7
          DEF Next, SendStep, WorkerStep, SendLookup, PushMsg, SendCheck,
        SendMark, WakeCount

(* A Send under way has a target and a number within its bound. *)
LEMMA SenderTypesStep ==
  ASSUME IInv, [Next]_vars
  PROVE  SenderTypes'
<1> USE WorkersCount DEF IInv, TypeOK, SenderTypes, SendSteps, SleepTypes
<1>1. ASSUME NEW t \in Threads, Return(t), UNCHANGED sent PROVE SenderTypes'
  BY <1>1 DEF Return
<1>2. ASSUME NEW t \in Threads, NEW s \in Services, SendLookup(t, s)
      PROVE  SenderTypes'
  <2>1. sent[t] < MaxSends[t]
    BY <1>2 DEF SendLookup, CanSend
  <2>2. sent' \in [Threads -> Nat] /\ \A u \in Threads : sent'[u] <= MaxSends[u]
    BY <1>2, <2>1 DEF SendLookup
  <2>3. sendPc' \in [Threads -> SendSteps] /\ to' \in [Threads -> Services \cup {NoService}]
    BY <1>2 DEF SendLookup
  <2>4. \A u \in Threads : sendPc'[u] # "none" => sent'[u] > 0 /\ to'[u] \in Services
    BY <1>2 DEF SendLookup, CanSend
  <2> QED
    BY <1>2, <2>2, <2>3, <2>4 DEF SendLookup
<1>3. ASSUME NEW t \in Threads, PushMsg(t) PROVE SenderTypes'
  BY <1>3 DEF PushMsg
<1>4. ASSUME NEW t \in Threads, SendCheck(t) PROVE SenderTypes'
  <2>1. \/ Return(t) /\ UNCHANGED sent
        \/ sendPc' = [sendPc EXCEPT ![t] = "mark"] /\ UNCHANGED <<to, sent, seen>>
    BY <1>4 DEF SendCheck
  <2> QED
    BY <1>1, <1>4, <2>1 DEF SendCheck
<1>5. ASSUME NEW t \in Threads, SendMark(t) PROVE SenderTypes'
  BY <1>5 DEF SendMark
<1>6. ASSUME NEW t \in Threads, WakeCount(t) PROVE SenderTypes'
  <2>1. \/ Return(t) /\ UNCHANGED sent
        \/ /\ sendPc' = [sendPc EXCEPT ![t] = "signal"]
           /\ seen' = [seen EXCEPT ![t] = sleepCount]
           /\ UNCHANGED <<to, sent>>
    BY <1>6 DEF WakeCount
  <2> QED
    BY <1>1, <1>6, <2>1 DEF WakeCount
<1>7. ASSUME NEW t \in Threads, WakeSignal(t) PROVE SenderTypes'
  BY <1>1, <1>7 DEF WakeSignal
<1>8. CASE UNCHANGED senderVars
  BY <1>8
<1> QED
  BY <1>2, <1>3, <1>4, <1>5, <1>6, <1>7, <1>8
     DEF Next, SendStep, WorkerStep, PopGlobalQueue, WaitEnter, WaitSleep,
     SpuriousWake, WaitLeave, PopMsg, KillService, KillErase, EndMsg, OnExit,
     DropExiting, CheckQueue, PutGlobal, ClearInGlobal

(* TypeOK, from its groups. *)
LEMMA TypeStep ==
  ASSUME IInv, [Next]_vars
  PROVE  TypeOK'
BY ServiceTypesStep, QueueTypesStep, WorkerTypesStep, SenderTypesStep,
   SleepCountStep DEF TypeOK, SleepTypes

-----------------------------------------------------------------------------
(* Where a service is: what each way of moving one does to Queued and Held. *)

(* Pushing a service queues it and no other. *)
LEMMA QueueGrows ==
  ASSUME globalQueue \in Seq(Services), NEW x \in Services,
         globalQueue' = Append(globalQueue, x)
  PROVE  \A s \in Services : Queued(s)' <=> Queued(s) \/ s = x
<1> TAKE s \in Services
<1>1. ASSUME Queued(s)' PROVE Queued(s) \/ s = x
  <2>1. PICK i \in 1 .. Len(globalQueue) + 1 : Append(globalQueue, x)[i] = s
    BY <1>1, AppendLemma DEF Queued
  <2>2. CASE i = Len(globalQueue) + 1
    BY <2>1, <2>2, AppendLemma
  <2>3. CASE i \in 1 .. Len(globalQueue)
    BY <2>1, <2>3, AppendLemma DEF Queued
  <2> QED
    BY <2>2, <2>3
<1>2. ASSUME Queued(s) PROVE Queued(s)'
  <2>1. PICK i \in 1 .. Len(globalQueue) : globalQueue[i] = s
    BY <1>2 DEF Queued
  <2>2. i \in 1 .. Len(globalQueue') /\ globalQueue'[i] = s
    BY <2>1, AppendLemma
  <2> QED
    BY <2>2 DEF Queued
<1>3. ASSUME s = x PROVE Queued(s)'
  <2>1. /\ Len(globalQueue) + 1 \in 1 .. Len(globalQueue')
        /\ globalQueue'[Len(globalQueue) + 1] = s
    BY <1>3, AppendLemma
  <2> QED
    BY <2>1 DEF Queued
<1> QED
  BY <1>1, <1>2, <1>3

(* Popping a service leaves the others queued. *)
LEMMA QueueShrinks ==
  ASSUME globalQueue \in Seq(Services), globalQueue # <<>>, OnePlaceAtMost,
         globalQueue' = Tail(globalQueue)
  PROVE  /\ Head(globalQueue) \in Services
         /\ Queued(Head(globalQueue))
         /\ \A s \in Services :
              Queued(s)' <=> Queued(s) /\ s # Head(globalQueue)
<1>1. Head(globalQueue) \in Services /\ Queued(Head(globalQueue))
  BY TailLemma DEF Queued
<1>2. ASSUME NEW s \in Services, Queued(s)'
      PROVE  Queued(s) /\ s # Head(globalQueue)
  <2>1. PICK i \in 1 .. Len(globalQueue) - 1 : Tail(globalQueue)[i] = s
    BY <1>2, TailLemma DEF Queued
  <2>2. i + 1 \in 2 .. Len(globalQueue) /\ globalQueue[i + 1] = s
    BY <2>1, TailLemma
  <2>3. s # Head(globalQueue)
    BY <2>2, TailLemma DEF OnePlaceAtMost
  <2> QED
    BY <2>2, <2>3 DEF Queued
<1>3. ASSUME NEW s \in Services, Queued(s), s # Head(globalQueue)
      PROVE  Queued(s)'
  <2>1. PICK i \in 1 .. Len(globalQueue) : globalQueue[i] = s
    BY <1>3 DEF Queued
  <2>2. i # 1
    BY <1>3, <2>1, TailLemma
  <2>3. i - 1 \in 1 .. Len(globalQueue') /\ globalQueue'[i - 1] = s
    BY <2>1, <2>2, TailLemma
  <2> QED
    BY <2>3 DEF Queued
<1> QED
  BY <1>1, <1>2, <1>3

(* A worker that takes a service holds it besides what was held. *)
LEMMA WorkerTakes ==
  ASSUME WorkerTypes, NEW w \in Workers, NEW x \in Services,
         cur[w] = NoService, cur' = [cur EXCEPT ![w] = x]
  PROVE  \A s \in Services : Held(s)' <=> Held(s) \/ s = x
  BY DEF WorkerTypes, Held

(* A worker that lets go of a service leaves it held by nobody. *)
LEMMA WorkerLetsGo ==
  ASSUME WorkerTypes, OnePlaceAtMost, NEW w \in Workers, cur[w] \in Services,
         cur' = [cur EXCEPT ![w] = NoService]
  PROVE  \A s \in Services : Held(s)' <=> Held(s) /\ s # cur[w]
  BY DEF WorkerTypes, OnePlaceAtMost, Held

(* A step that leaves globalQueue alone queues nothing. *)
LEMMA SameQueue ==
  ASSUME UNCHANGED globalQueue
  PROVE  \A s \in Services : Queued(s)' <=> Queued(s)
  BY DEF Queued

(* A step that leaves cur alone moves nothing from worker to worker. *)
LEMMA SameHolders ==
  ASSUME UNCHANGED cur
  PROVE  \A s \in Services : Held(s)' <=> Held(s)
  BY DEF Held

(* A worker that takes a service or puts it back changes where it is, not  *)
(* whether it is scheduled; one that lets go of it ends its schedule.      *)
LEMMA SameSchedule ==
  ASSUME UNCHANGED <<globalQueue, cur>>
  PROVE  \A s \in Services : Scheduled(s)' <=> Scheduled(s)
  BY SameQueue, SameHolders DEF Scheduled

(* PopGlobalQueue moves a service from the queue to a worker. *)
LEMMA TakeKeepsSchedule ==
  ASSUME IInv, NEW w \in Workers, PopGlobalQueue(w)
  PROVE  /\ \A s \in Services : Scheduled(s)' <=> Scheduled(s)
         /\ \A s \in Services : Queued(s)' => Queued(s)
<1> USE DEF IInv, TypeOK, QueueTypes
<1>1. CASE globalQueue = <<>>
  <2>1. UNCHANGED <<globalQueue, cur>>
    BY <1>1 DEF PopGlobalQueue
  <2> QED
    BY <2>1, SameSchedule, SameQueue
<1>2. CASE globalQueue # <<>>
  <2> DEFINE x == Head(globalQueue)
  <2>1. /\ globalQueue' = Tail(globalQueue)
        /\ cur' = [cur EXCEPT ![w] = x]
        /\ cur[w] = NoService
    BY <1>2 DEF PopGlobalQueue, ServingHasService, Serving
  <2>2. /\ x \in Services /\ Queued(x)
        /\ \A s \in Services : Queued(s)' <=> Queued(s) /\ s # x
    BY <1>2, <2>1, QueueShrinks
  <2> HIDE DEF x
  <2>3. \A s \in Services : Held(s)' <=> Held(s) \/ s = x
    BY <2>1, <2>2, WorkerTakes
  <2> QED
    BY <2>2, <2>3 DEF Scheduled
<1> QED
  BY <1>1, <1>2

(* PutGlobal moves it from the worker to the queue. *)
LEMMA PutBackKeepsSchedule ==
  ASSUME IInv, NEW w \in Workers, PutGlobal(w)
  PROVE  /\ cur[w] \in Services
         /\ \A s \in Services : Scheduled(s)' <=> Scheduled(s)
         /\ \A s \in Services : Queued(s)' <=> Queued(s) \/ s = cur[w]
<1> USE DEF IInv, TypeOK, QueueTypes
<1>1. cur[w] \in Services
  BY ServingLemma DEF PutGlobal, Serving
<1>2. \A s \in Services : Queued(s)' <=> Queued(s) \/ s = cur[w]
  BY <1>1, QueueGrows DEF PutGlobal
<1>3. \A s \in Services : Held(s)' <=> Held(s) /\ s # cur[w]
  BY <1>1, WorkerLetsGo DEF PutGlobal, LetGo
<1>4. Held(cur[w])
  BY DEF Held
<1> QED
  BY <1>1, <1>2, <1>3, <1>4 DEF Scheduled

(* DropExiting and ClearInGlobal take it off the schedule. *)
LEMMA LetGoEndsSchedule ==
  ASSUME IInv, NEW w \in Workers, pc[w] \in Serving, LetGo(w),
         UNCHANGED globalQueue
  PROVE  /\ cur[w] \in Services
         /\ \A s \in Services : Queued(s)' <=> Queued(s)
         /\ \A s \in Services : Scheduled(s)' <=> Scheduled(s) /\ s # cur[w]
<1> USE DEF IInv, TypeOK
<1>1. cur[w] \in Services
  BY ServingLemma
<1>2. \A s \in Services : Held(s)' <=> Held(s) /\ s # cur[w]
  BY <1>1, WorkerLetsGo DEF LetGo
<1>3. \A s \in Services : Queued(s)' <=> Queued(s)
  BY SameQueue
<1>4. ~Queued(cur[w])
  BY <1>1 DEF OnePlaceAtMost, Held
<1> QED
  BY <1>1, <1>2, <1>3, <1>4 DEF Scheduled

(* No way of moving a service leaves it in two places. *)

(* A queue without duplicates has none after the push of a new element. *)
LEMMA PushKeepsDistinct ==
  ASSUME NEW S, NEW q \in Seq(S), NEW x \in S,
         \A i \in 1 .. Len(q) : q[i] # x,
         \A i, j \in 1 .. Len(q) : q[i] = q[j] => i = j
  PROVE  \A i, j \in 1 .. Len(Append(q, x)) :
           Append(q, x)[i] = Append(q, x)[j] => i = j
<1> SUFFICES ASSUME NEW i \in 1 .. Len(q) + 1, NEW j \in 1 .. Len(q) + 1,
                    Append(q, x)[i] = Append(q, x)[j]
             PROVE  i = j
  BY AppendLemma
<1>1. Len(q) \in Nat
  OBVIOUS
<1>2. CASE i \in 1 .. Len(q) /\ j \in 1 .. Len(q)
  <2>1. q[i] = q[j]
    BY <1>2, AppendLemma
  <2> QED
    BY <1>2, <2>1
<1>3. CASE i \in 1 .. Len(q) /\ j = Len(q) + 1
  <2>1. q[i] = x
    BY <1>3, AppendLemma
  <2> QED
    BY <1>3, <2>1
<1>4. CASE i = Len(q) + 1 /\ j \in 1 .. Len(q)
  <2>1. q[j] = x
    BY <1>4, AppendLemma
  <2> QED
    BY <1>4, <2>1
<1> QED
  BY <1>1, <1>2, <1>3, <1>4

(* Pushing a service that is nowhere. *)
LEMMA OnePlaceAfterPush ==
  ASSUME TypeOK, OnePlaceAtMost, NEW x \in Services, ~Queued(x), ~Held(x),
         UNCHANGED cur, globalQueue' = Append(globalQueue, x)
  PROVE  OnePlaceAtMost'
<1> USE DEF TypeOK, QueueTypes
<1>1. \A i, j \in 1 .. Len(globalQueue') :
        globalQueue'[i] = globalQueue'[j] => i = j
  <2>1. \A i \in 1 .. Len(globalQueue) : globalQueue[i] # x
    BY DEF Queued
  <2>2. \A i, j \in 1 .. Len(globalQueue) :
          globalQueue[i] = globalQueue[j] => i = j
    BY DEF OnePlaceAtMost
  <2>3. globalQueue \in Seq(Services) /\ x \in Services
    OBVIOUS
  <2> DEFINE q == Append(globalQueue, x)
  <2>4. \A i, j \in 1 .. Len(q) : q[i] = q[j] => i = j
    <3> HIDE DEF TypeOK, QueueTypes
    <3> QED
      BY ONLY <2>1, <2>2, <2>3, PushKeepsDistinct, Zenon
  <2>5. globalQueue' = q
    OBVIOUS
  <2> HIDE DEF q
  <2> QED
    BY <2>4, <2>5, Zenon
<1>2. \A s \in Services : ~(Queued(s)' /\ Held(s)')
  BY QueueGrows, SameHolders DEF OnePlaceAtMost
<1> QED
  BY <1>1, <1>2 DEF OnePlaceAtMost

(* Taking the first of the queue. *)
LEMMA OnePlaceAfterTake ==
  ASSUME TypeOK, OnePlaceAtMost, NEW w \in Workers, cur[w] = NoService,
         globalQueue # <<>>, globalQueue' = Tail(globalQueue),
         cur' = [cur EXCEPT ![w] = Head(globalQueue)]
  PROVE  OnePlaceAtMost'
<1> USE DEF TypeOK, QueueTypes
<1> DEFINE x == Head(globalQueue)
<1>1. \A i, j \in 1 .. Len(globalQueue') :
        globalQueue'[i] = globalQueue'[j] => i = j
  BY TailLemma DEF OnePlaceAtMost
<1>2. /\ x \in Services /\ Queued(x)
      /\ \A s \in Services : Queued(s)' <=> Queued(s) /\ s # x
  BY QueueShrinks
<1>3. ~Held(x)
  BY <1>2 DEF OnePlaceAtMost
<1> HIDE DEF x
<1>4. \A s \in Services : Held(s)' <=> Held(s) \/ s = x
  BY <1>2, WorkerTakes DEF x
<1>5. \A u, v \in Workers : cur'[u] = cur'[v] /\ cur'[v] # NoService => u = v
  BY <1>3 DEF OnePlaceAtMost, Held, WorkerTypes, x
<1>6. \A s \in Services : ~(Queued(s)' /\ Held(s)')
  BY <1>2, <1>4 DEF OnePlaceAtMost
<1> QED
  BY <1>1, <1>5, <1>6 DEF OnePlaceAtMost

(* Putting back the service a worker has. *)
LEMMA OnePlaceAfterPutBack ==
  ASSUME TypeOK, OnePlaceAtMost, NEW w \in Workers, cur[w] \in Services,
         globalQueue' = Append(globalQueue, cur[w]),
         cur' = [cur EXCEPT ![w] = NoService]
  PROVE  OnePlaceAtMost'
<1> USE DEF TypeOK, QueueTypes
<1>1. ~Queued(cur[w])
  BY DEF OnePlaceAtMost, Held
<1>2. \A i, j \in 1 .. Len(globalQueue') :
        globalQueue'[i] = globalQueue'[j] => i = j
  <2>1. \A i \in 1 .. Len(globalQueue) : globalQueue[i] # cur[w]
    BY <1>1 DEF Queued
  <2>2. \A i, j \in 1 .. Len(globalQueue) :
          globalQueue[i] = globalQueue[j] => i = j
    BY DEF OnePlaceAtMost
  <2>3. globalQueue \in Seq(Services) /\ cur[w] \in Services
    OBVIOUS
  <2> DEFINE q == Append(globalQueue, cur[w])
  <2>4. \A i, j \in 1 .. Len(q) : q[i] = q[j] => i = j
    <3> HIDE DEF TypeOK, QueueTypes
    <3> QED
      BY ONLY <2>1, <2>2, <2>3, PushKeepsDistinct, Zenon
  <2>5. globalQueue' = q
    OBVIOUS
  <2> HIDE DEF q
  <2> QED
    BY <2>4, <2>5, Zenon
<1>3. \A u, v \in Workers : cur'[u] = cur'[v] /\ cur'[v] # NoService => u = v
  BY DEF OnePlaceAtMost, WorkerTypes
<1>4. \A s \in Services : Queued(s)' <=> Queued(s) \/ s = cur[w]
  BY QueueGrows
<1>5. \A s \in Services : Held(s)' <=> Held(s) /\ s # cur[w]
  BY WorkerLetsGo
<1>6. \A s \in Services : ~(Queued(s)' /\ Held(s)')
  BY <1>1, <1>4, <1>5 DEF OnePlaceAtMost
<1> QED
  BY <1>2, <1>3, <1>6 DEF OnePlaceAtMost

(* OnePlaceAtMost: a Send queues a service only when FlagMeansScheduled says  *)
(* that it is nowhere; a worker moves it from one place to the other.        *)
LEMMA OnePlaceStep ==
  ASSUME IInv, [Next]_vars
  PROVE  OnePlaceAtMost'
<1> USE DEF IInv, TypeOK, ServiceTypes, QueueTypes, SleepTypes, WorkerTypes,
   SenderTypes, WorkerSteps, SendSteps, OnePlaceAtMost
<1>1. ASSUME NEW t \in Threads, NEW s \in Services, SendLookup(t, s)
      PROVE OnePlaceAtMost'
  BY <1>1, SameQueue, SameHolders DEF SendLookup, CanSend
<1>2. ASSUME NEW t \in Threads, PushMsg(t) PROVE OnePlaceAtMost'
  BY <1>2, SameQueue, SameHolders DEF PushMsg
<1>3. ASSUME NEW t \in Threads, SendCheck(t) PROVE OnePlaceAtMost'
  <2>1. to[t] \in Services
    BY <1>3 DEF SendCheck, Return
  <2>2. CASE inGlobal[to[t]]
    BY <1>3, <2>2, SameQueue, SameHolders DEF SendCheck, Return
  <2>3. CASE ~inGlobal[to[t]]
    <3>1. ~Scheduled(to[t])
      BY <1>3, <2>1, <2>3 DEF SendCheck, FlagMeansScheduled, Marking
    <3>2. UNCHANGED cur /\ globalQueue' = Append(globalQueue, to[t])
      BY <1>3, <2>3 DEF SendCheck
    <3> QED
      BY <2>1, <3>1, <3>2, OnePlaceAfterPush DEF Scheduled
  <2> QED
    BY <2>2, <2>3
<1>4. ASSUME NEW t \in Threads, SendMark(t) PROVE OnePlaceAtMost'
  BY <1>4, SameQueue, SameHolders DEF SendMark
<1>5. ASSUME NEW t \in Threads, WakeCount(t) PROVE OnePlaceAtMost'
  BY <1>5, SameQueue, SameHolders DEF WakeCount, Return
<1>6. ASSUME NEW t \in Threads, WakeSignal(t) PROVE OnePlaceAtMost'
  BY <1>6, SameQueue, SameHolders DEF WakeSignal, CondSignal, Return
<1>7. ASSUME NEW w \in Workers, PopGlobalQueue(w) PROVE OnePlaceAtMost'
  <2>1. CASE globalQueue = <<>>
    BY <1>7, <2>1, SameQueue, SameHolders DEF PopGlobalQueue
  <2>2. CASE globalQueue # <<>>
        BY <1>7, <2>2, OnePlaceAfterTake DEF PopGlobalQueue,
       ServingHasService, Serving
  <2> QED
    BY <2>1, <2>2
<1>8. ASSUME NEW w \in Workers, WaitEnter(w) PROVE OnePlaceAtMost'
  BY <1>8, SameQueue, SameHolders DEF WaitEnter
<1>9. ASSUME NEW w \in Workers, WaitSleep(w) PROVE OnePlaceAtMost'
  BY <1>9, SameQueue, SameHolders DEF WaitSleep
<1>10. ASSUME NEW w \in Workers, SpuriousWake(w) PROVE OnePlaceAtMost'
  BY <1>10, SameQueue, SameHolders DEF SpuriousWake
<1>11. ASSUME NEW w \in Workers, WaitLeave(w) PROVE OnePlaceAtMost'
  BY <1>11, SameQueue, SameHolders DEF WaitLeave
<1>12. ASSUME NEW w \in Workers, PopMsg(w) PROVE OnePlaceAtMost'
  BY <1>12, SameQueue, SameHolders DEF PopMsg
<1>13. ASSUME NEW w \in Workers, KillService(w) PROVE OnePlaceAtMost'
  BY <1>13, SameQueue, SameHolders DEF KillService
<1>14. ASSUME NEW w \in Workers, KillErase(w) PROVE OnePlaceAtMost'
  BY <1>14, SameQueue, SameHolders DEF KillErase
<1>15. ASSUME NEW w \in Workers, EndMsg(w) PROVE OnePlaceAtMost'
  BY <1>15, SameQueue, SameHolders DEF EndMsg
<1>16. ASSUME NEW w \in Workers, OnExit(w) PROVE OnePlaceAtMost'
  BY <1>16, SameQueue, SameHolders DEF OnExit, OnePlaceAtMost
<1>17. ASSUME NEW w \in Workers, DropExiting(w) PROVE OnePlaceAtMost'
  <2>1. cur[w] \in Services
    BY <1>17, ServingLemma DEF DropExiting, LetGo, Serving
  <2>2. \A s \in Services : Held(s)' <=> Held(s) /\ s # cur[w]
    BY <1>17, <2>1, WorkerLetsGo DEF DropExiting, LetGo
  <2> QED
    BY <1>17, <2>1, <2>2, SameQueue DEF DropExiting, LetGo
<1>18. ASSUME NEW w \in Workers, CheckQueue(w) PROVE OnePlaceAtMost'
  BY <1>18, SameQueue, SameHolders DEF CheckQueue
<1>19. ASSUME NEW w \in Workers, PutGlobal(w) PROVE OnePlaceAtMost'
  <2>1. cur[w] \in Services
    BY <1>19, ServingLemma DEF PutGlobal, LetGo, Serving
  <2> QED
    BY <1>19, <2>1, OnePlaceAfterPutBack DEF PutGlobal, LetGo
<1>20. ASSUME NEW w \in Workers, ClearInGlobal(w) PROVE OnePlaceAtMost'
  <2>1. cur[w] \in Services
    BY <1>20, ServingLemma DEF ClearInGlobal, LetGo, Serving
  <2>2. \A s \in Services : Held(s)' <=> Held(s) /\ s # cur[w]
    BY <1>20, <2>1, WorkerLetsGo DEF ClearInGlobal, LetGo
  <2> QED
    BY <1>20, <2>1, <2>2, SameQueue DEF ClearInGlobal, LetGo
<1>21. CASE UNCHANGED vars
  BY <1>21, SameQueue, SameHolders
<1> QED
    BY <1>1, <1>2, <1>3, <1>4, <1>5, <1>6, <1>7, <1>8, <1>9, <1>10, <1>11,
     <1>12, <1>13, <1>14, <1>15, <1>16, <1>17, <1>18, <1>19, <1>20, <1>21 DEF
     Next, SendStep, WorkerStep

(* ServingHasService: a worker takes a service when it enters Serving and     *)
(* lets go of it when it leaves.                                             *)
LEMMA ServingStep ==
  ASSUME IInv, [Next]_vars
  PROVE  ServingHasService'
<1> USE DEF IInv, TypeOK, ServiceTypes, QueueTypes, SleepTypes, WorkerTypes,
   SenderTypes, WorkerSteps, SendSteps, ServingHasService, Serving
<1>1. ASSUME NEW t \in Threads, NEW s \in Services, SendLookup(t, s)
      PROVE ServingHasService'
  BY <1>1 DEF SendLookup, CanSend
<1>2. ASSUME NEW t \in Threads, PushMsg(t) PROVE ServingHasService'
  BY <1>2 DEF PushMsg
<1>3. ASSUME NEW t \in Threads, SendCheck(t) PROVE ServingHasService'
  BY <1>3 DEF SendCheck, Return
<1>4. ASSUME NEW t \in Threads, SendMark(t) PROVE ServingHasService'
  BY <1>4 DEF SendMark
<1>5. ASSUME NEW t \in Threads, WakeCount(t) PROVE ServingHasService'
  BY <1>5 DEF WakeCount, Return
<1>6. ASSUME NEW t \in Threads, WakeSignal(t) PROVE ServingHasService'
  BY <1>6 DEF WakeSignal, CondSignal, Return
<1>7. ASSUME NEW w \in Workers, PopGlobalQueue(w) PROVE ServingHasService'
  <2>1. CASE globalQueue = <<>>
    BY <1>7, <2>1 DEF PopGlobalQueue
  <2>2. CASE globalQueue # <<>>
    <3>1. Head(globalQueue) \in Services
      BY <2>2, TailLemma
    <3>2. /\ pc' = [pc EXCEPT ![w] = "next"]
          /\ cur' = [cur EXCEPT ![w] = Head(globalQueue)]
      BY <1>7, <2>2 DEF PopGlobalQueue
    <3> QED
      BY <3>1, <3>2
  <2> QED
    BY <2>1, <2>2
<1>8. ASSUME NEW w \in Workers, WaitEnter(w) PROVE ServingHasService'
  BY <1>8 DEF WaitEnter
<1>9. ASSUME NEW w \in Workers, WaitSleep(w) PROVE ServingHasService'
  BY <1>9 DEF WaitSleep
<1>10. ASSUME NEW w \in Workers, SpuriousWake(w) PROVE ServingHasService'
  BY <1>10 DEF SpuriousWake
<1>11. ASSUME NEW w \in Workers, WaitLeave(w) PROVE ServingHasService'
  BY <1>11 DEF WaitLeave
<1>12. ASSUME NEW w \in Workers, PopMsg(w) PROVE ServingHasService'
  BY <1>12, ZenonT(60) DEF PopMsg
<1>13. ASSUME NEW w \in Workers, KillService(w) PROVE ServingHasService'
  BY <1>13 DEF KillService
<1>14. ASSUME NEW w \in Workers, KillErase(w) PROVE ServingHasService'
  BY <1>14 DEF KillErase
<1>15. ASSUME NEW w \in Workers, EndMsg(w) PROVE ServingHasService'
  BY <1>15 DEF EndMsg
<1>16. ASSUME NEW w \in Workers, OnExit(w) PROVE ServingHasService'
  BY <1>16 DEF OnExit, OnePlaceAtMost
<1>17. ASSUME NEW w \in Workers, DropExiting(w) PROVE ServingHasService'
  BY <1>17 DEF DropExiting, LetGo
<1>18. ASSUME NEW w \in Workers, CheckQueue(w) PROVE ServingHasService'
  BY <1>18 DEF CheckQueue
<1>19. ASSUME NEW w \in Workers, PutGlobal(w) PROVE ServingHasService'
  BY <1>19 DEF PutGlobal, LetGo
<1>20. ASSUME NEW w \in Workers, ClearInGlobal(w) PROVE ServingHasService'
  BY <1>20 DEF ClearInGlobal, LetGo
<1>21. CASE UNCHANGED vars
  BY <1>21
<1> QED
    BY <1>1, <1>2, <1>3, <1>4, <1>5, <1>6, <1>7, <1>8, <1>9, <1>10, <1>11,
     <1>12, <1>13, <1>14, <1>15, <1>16, <1>17, <1>18, <1>19, <1>20, <1>21 DEF
     Next, SendStep, WorkerStep

(* InGlobalLockOwner: SendCheck takes the lock and SendMark releases it;      *)
(* ClearInGlobal waits for it and holds it for one step only.                *)
LEMMA InGlobalLockStep ==
  ASSUME IInv, [Next]_vars
  PROVE  InGlobalLockOwner'
<1> USE DEF IInv, TypeOK, ServiceTypes, QueueTypes, SleepTypes, WorkerTypes,
   SenderTypes, WorkerSteps, SendSteps, InGlobalLockOwner
<1>1. ASSUME NEW t \in Threads, NEW s \in Services, SendLookup(t, s)
      PROVE InGlobalLockOwner'
  BY <1>1 DEF SendLookup, CanSend
<1>2. ASSUME NEW t \in Threads, PushMsg(t) PROVE InGlobalLockOwner'
  BY <1>2 DEF PushMsg
<1>3. ASSUME NEW t \in Threads, SendCheck(t) PROVE InGlobalLockOwner'
  <2>1. to[t] \in Services
    BY <1>3 DEF SendCheck, Return
  <2>2. CASE inGlobal[to[t]]
    BY <1>3, <2>2, SMTT(30) DEF SendCheck, Return
  <2>3. CASE ~inGlobal[to[t]]
    <3>1. /\ inGlobalLock[to[t]] = NoThread
          /\ inGlobalLock' = [inGlobalLock EXCEPT ![to[t]] = t]
          /\ sendPc' = [sendPc EXCEPT ![t] = "mark"]
          /\ to' = to
      BY <1>3, <2>3 DEF SendCheck, Return
    <3> QED
      BY <1>3, <2>1, <3>1, SMTT(30) DEF SendCheck
  <2> QED
    BY <2>2, <2>3
<1>4. ASSUME NEW t \in Threads, SendMark(t) PROVE InGlobalLockOwner'
  BY <1>4 DEF SendMark
<1>5. ASSUME NEW t \in Threads, WakeCount(t) PROVE InGlobalLockOwner'
  <2>1. CASE sleepCount = 0
    BY <1>5, <2>1 DEF WakeCount, Return
  <2>2. CASE sleepCount # 0
    BY <1>5, <2>2 DEF WakeCount, Return
  <2> QED
    BY <2>1, <2>2
<1>6. ASSUME NEW t \in Threads, WakeSignal(t) PROVE InGlobalLockOwner'
  BY <1>6, SMTT(30) DEF WakeSignal, CondSignal, Return
<1>7. ASSUME NEW w \in Workers, PopGlobalQueue(w) PROVE InGlobalLockOwner'
  BY <1>7 DEF PopGlobalQueue
<1>8. ASSUME NEW w \in Workers, WaitEnter(w) PROVE InGlobalLockOwner'
  BY <1>8 DEF WaitEnter
<1>9. ASSUME NEW w \in Workers, WaitSleep(w) PROVE InGlobalLockOwner'
  BY <1>9 DEF WaitSleep
<1>10. ASSUME NEW w \in Workers, SpuriousWake(w) PROVE InGlobalLockOwner'
  BY <1>10 DEF SpuriousWake
<1>11. ASSUME NEW w \in Workers, WaitLeave(w) PROVE InGlobalLockOwner'
  BY <1>11 DEF WaitLeave
<1>12. ASSUME NEW w \in Workers, PopMsg(w) PROVE InGlobalLockOwner'
  BY <1>12 DEF PopMsg
<1>13. ASSUME NEW w \in Workers, KillService(w) PROVE InGlobalLockOwner'
  BY <1>13 DEF KillService
<1>14. ASSUME NEW w \in Workers, KillErase(w) PROVE InGlobalLockOwner'
  BY <1>14 DEF KillErase
<1>15. ASSUME NEW w \in Workers, EndMsg(w) PROVE InGlobalLockOwner'
  BY <1>15 DEF EndMsg
<1>16. ASSUME NEW w \in Workers, OnExit(w) PROVE InGlobalLockOwner'
  BY <1>16 DEF OnExit, OnePlaceAtMost
<1>17. ASSUME NEW w \in Workers, DropExiting(w) PROVE InGlobalLockOwner'
  BY <1>17 DEF DropExiting, LetGo
<1>18. ASSUME NEW w \in Workers, CheckQueue(w) PROVE InGlobalLockOwner'
  BY <1>18 DEF CheckQueue
<1>19. ASSUME NEW w \in Workers, PutGlobal(w) PROVE InGlobalLockOwner'
  BY <1>19 DEF PutGlobal, LetGo
<1>20. ASSUME NEW w \in Workers, ClearInGlobal(w) PROVE InGlobalLockOwner'
  BY <1>20 DEF ClearInGlobal, LetGo
<1>21. CASE UNCHANGED vars
  BY <1>21
<1> QED
    BY <1>1, <1>2, <1>3, <1>4, <1>5, <1>6, <1>7, <1>8, <1>9, <1>10, <1>11,
     <1>12, <1>13, <1>14, <1>15, <1>16, <1>17, <1>18, <1>19, <1>20, <1>21 DEF
     Next, SendStep, WorkerStep

(* MarkingIsUnflagged: only SendMark, which owns inGlobalLock, raises a flag. *)
LEMMA MarkingStep ==
  ASSUME IInv, [Next]_vars
  PROVE  MarkingIsUnflagged'
<1> USE DEF IInv, TypeOK, ServiceTypes, QueueTypes, SleepTypes, WorkerTypes,
   SenderTypes, WorkerSteps, SendSteps, InGlobalLockOwner, MarkingIsUnflagged,
   Marking
<1>1. ASSUME NEW t \in Threads, NEW s \in Services, SendLookup(t, s)
      PROVE MarkingIsUnflagged'
  BY <1>1 DEF SendLookup, CanSend
<1>2. ASSUME NEW t \in Threads, PushMsg(t) PROVE MarkingIsUnflagged'
  BY <1>2 DEF PushMsg
<1>3. ASSUME NEW t \in Threads, SendCheck(t) PROVE MarkingIsUnflagged'
  BY <1>3 DEF SendCheck, Return
<1>4. ASSUME NEW t \in Threads, SendMark(t) PROVE MarkingIsUnflagged'
  BY <1>4 DEF SendMark
<1>5. ASSUME NEW t \in Threads, WakeCount(t) PROVE MarkingIsUnflagged'
  BY <1>5 DEF WakeCount, Return
<1>6. ASSUME NEW t \in Threads, WakeSignal(t) PROVE MarkingIsUnflagged'
  BY <1>6 DEF WakeSignal, CondSignal, Return
<1>7. ASSUME NEW w \in Workers, PopGlobalQueue(w) PROVE MarkingIsUnflagged'
  BY <1>7 DEF PopGlobalQueue
<1>8. ASSUME NEW w \in Workers, WaitEnter(w) PROVE MarkingIsUnflagged'
  BY <1>8 DEF WaitEnter
<1>9. ASSUME NEW w \in Workers, WaitSleep(w) PROVE MarkingIsUnflagged'
  BY <1>9 DEF WaitSleep
<1>10. ASSUME NEW w \in Workers, SpuriousWake(w) PROVE MarkingIsUnflagged'
  BY <1>10 DEF SpuriousWake
<1>11. ASSUME NEW w \in Workers, WaitLeave(w) PROVE MarkingIsUnflagged'
  BY <1>11 DEF WaitLeave
<1>12. ASSUME NEW w \in Workers, PopMsg(w) PROVE MarkingIsUnflagged'
  BY <1>12 DEF PopMsg
<1>13. ASSUME NEW w \in Workers, KillService(w) PROVE MarkingIsUnflagged'
  BY <1>13 DEF KillService
<1>14. ASSUME NEW w \in Workers, KillErase(w) PROVE MarkingIsUnflagged'
  BY <1>14 DEF KillErase
<1>15. ASSUME NEW w \in Workers, EndMsg(w) PROVE MarkingIsUnflagged'
  BY <1>15 DEF EndMsg
<1>16. ASSUME NEW w \in Workers, OnExit(w) PROVE MarkingIsUnflagged'
  BY <1>16 DEF OnExit, OnePlaceAtMost
<1>17. ASSUME NEW w \in Workers, DropExiting(w) PROVE MarkingIsUnflagged'
  BY <1>17 DEF DropExiting, LetGo
<1>18. ASSUME NEW w \in Workers, CheckQueue(w) PROVE MarkingIsUnflagged'
  BY <1>18 DEF CheckQueue
<1>19. ASSUME NEW w \in Workers, PutGlobal(w) PROVE MarkingIsUnflagged'
  BY <1>19 DEF PutGlobal, LetGo
<1>20. ASSUME NEW w \in Workers, ClearInGlobal(w) PROVE MarkingIsUnflagged'
  BY <1>20 DEF ClearInGlobal, LetGo
<1>21. CASE UNCHANGED vars
  BY <1>21
<1> QED
    BY <1>1, <1>2, <1>3, <1>4, <1>5, <1>6, <1>7, <1>8, <1>9, <1>10, <1>11,
     <1>12, <1>13, <1>14, <1>15, <1>16, <1>17, <1>18, <1>19, <1>20, <1>21 DEF
     Next, SendStep, WorkerStep

(* QueueLockOwner: CheckQueue takes the lock, PutGlobal and ClearInGlobal     *)
(* release it.                                                               *)
LEMMA QueueLockStep ==
  ASSUME IInv, [Next]_vars
  PROVE  QueueLockOwner'
<1> USE DEF IInv, TypeOK, ServiceTypes, QueueTypes, SleepTypes, WorkerTypes,
   SenderTypes, WorkerSteps, SendSteps, QueueLockOwner, ServingHasService,
   Serving, OnePlaceAtMost
<1>1. ASSUME NEW t \in Threads, NEW s \in Services, SendLookup(t, s)
      PROVE QueueLockOwner'
  BY <1>1 DEF SendLookup, CanSend
<1>2. ASSUME NEW t \in Threads, PushMsg(t) PROVE QueueLockOwner'
  BY <1>2 DEF PushMsg
<1>3. ASSUME NEW t \in Threads, SendCheck(t) PROVE QueueLockOwner'
  BY <1>3 DEF SendCheck, Return
<1>4. ASSUME NEW t \in Threads, SendMark(t) PROVE QueueLockOwner'
  BY <1>4 DEF SendMark
<1>5. ASSUME NEW t \in Threads, WakeCount(t) PROVE QueueLockOwner'
  BY <1>5 DEF WakeCount, Return
<1>6. ASSUME NEW t \in Threads, WakeSignal(t) PROVE QueueLockOwner'
  BY <1>6, SMTT(30) DEF WakeSignal, CondSignal, Return
<1>7. ASSUME NEW w \in Workers, PopGlobalQueue(w) PROVE QueueLockOwner'
  BY <1>7 DEF PopGlobalQueue
<1>8. ASSUME NEW w \in Workers, WaitEnter(w) PROVE QueueLockOwner'
  BY <1>8 DEF WaitEnter
<1>9. ASSUME NEW w \in Workers, WaitSleep(w) PROVE QueueLockOwner'
  BY <1>9 DEF WaitSleep
<1>10. ASSUME NEW w \in Workers, SpuriousWake(w) PROVE QueueLockOwner'
  BY <1>10 DEF SpuriousWake
<1>11. ASSUME NEW w \in Workers, WaitLeave(w) PROVE QueueLockOwner'
  BY <1>11 DEF WaitLeave
<1>12. ASSUME NEW w \in Workers, PopMsg(w) PROVE QueueLockOwner'
  BY <1>12 DEF PopMsg
<1>13. ASSUME NEW w \in Workers, KillService(w) PROVE QueueLockOwner'
  BY <1>13 DEF KillService
<1>14. ASSUME NEW w \in Workers, KillErase(w) PROVE QueueLockOwner'
  BY <1>14 DEF KillErase
<1>15. ASSUME NEW w \in Workers, EndMsg(w) PROVE QueueLockOwner'
  BY <1>15 DEF EndMsg
<1>16. ASSUME NEW w \in Workers, OnExit(w) PROVE QueueLockOwner'
  BY <1>16 DEF OnExit, OnePlaceAtMost
<1>17. ASSUME NEW w \in Workers, DropExiting(w) PROVE QueueLockOwner'
  BY <1>17 DEF DropExiting, LetGo
<1>18. ASSUME NEW w \in Workers, CheckQueue(w) PROVE QueueLockOwner'
  BY <1>18 DEF CheckQueue
<1>19. ASSUME NEW w \in Workers, PutGlobal(w) PROVE QueueLockOwner'
  BY <1>19 DEF PutGlobal, LetGo
<1>20. ASSUME NEW w \in Workers, ClearInGlobal(w) PROVE QueueLockOwner'
  BY <1>20 DEF ClearInGlobal, LetGo
<1>21. CASE UNCHANGED vars
  BY <1>21
<1> QED
    BY <1>1, <1>2, <1>3, <1>4, <1>5, <1>6, <1>7, <1>8, <1>9, <1>10, <1>11,
     <1>12, <1>13, <1>14, <1>15, <1>16, <1>17, <1>18, <1>19, <1>20, <1>21 DEF
     Next, SendStep, WorkerStep

(* FlagMeansScheduled: the push and the flag are joined by Marking, and a     *)
(* worker clears the flag in the step that lets go of the service.           *)
LEMMA FlagStep ==
  ASSUME IInv, [Next]_vars
  PROVE  FlagMeansScheduled'
<1> USE DEF IInv, TypeOK, ServiceTypes, QueueTypes, SleepTypes, WorkerTypes,
   SenderTypes, WorkerSteps, SendSteps, FlagMeansScheduled, Marking,
   InGlobalLockOwner, ServingHasService, Serving, ExitProgress
<1>1. ASSUME NEW t \in Threads, NEW s \in Services, SendLookup(t, s)
      PROVE FlagMeansScheduled'
  BY <1>1, SameSchedule DEF SendLookup, CanSend
<1>2. ASSUME NEW t \in Threads, PushMsg(t) PROVE FlagMeansScheduled'
  BY <1>2, SameSchedule DEF PushMsg
<1>3. ASSUME NEW t \in Threads, SendCheck(t) PROVE FlagMeansScheduled'
  <2>1. CASE inGlobal[to[t]]
    BY <1>3, <2>1, SameSchedule DEF SendCheck, Return
  <2>2. CASE ~inGlobal[to[t]]
    <3>1. to[t] \in Services /\ inGlobalLock' = [inGlobalLock EXCEPT ![to[t]] = t]
      BY <1>3, <2>2 DEF SendCheck, Return
    <3>2. \A s \in Services : Scheduled(s)' <=> Scheduled(s) \/ s = to[t]
            BY <1>3, <2>2, <3>1, QueueGrows, SameHolders DEF SendCheck,
         Return, Scheduled
    <3> QED
      BY <1>3, <3>1, <3>2 DEF SendCheck, Return
  <2> QED
    BY <2>1, <2>2
<1>4. ASSUME NEW t \in Threads, SendMark(t) PROVE FlagMeansScheduled'
  BY <1>4, SameSchedule DEF SendMark
<1>5. ASSUME NEW t \in Threads, WakeCount(t) PROVE FlagMeansScheduled'
  BY <1>5, SameSchedule DEF WakeCount, Return
<1>6. ASSUME NEW t \in Threads, WakeSignal(t) PROVE FlagMeansScheduled'
  BY <1>6, SameSchedule DEF WakeSignal, CondSignal, Return
<1>7. ASSUME NEW w \in Workers, PopGlobalQueue(w) PROVE FlagMeansScheduled'
  BY <1>7, TakeKeepsSchedule DEF PopGlobalQueue
<1>8. ASSUME NEW w \in Workers, WaitEnter(w) PROVE FlagMeansScheduled'
  BY <1>8, SameSchedule DEF WaitEnter
<1>9. ASSUME NEW w \in Workers, WaitSleep(w) PROVE FlagMeansScheduled'
  BY <1>9, SameSchedule DEF WaitSleep
<1>10. ASSUME NEW w \in Workers, SpuriousWake(w) PROVE FlagMeansScheduled'
  BY <1>10, SameSchedule DEF SpuriousWake
<1>11. ASSUME NEW w \in Workers, WaitLeave(w) PROVE FlagMeansScheduled'
  BY <1>11, SameSchedule DEF WaitLeave
<1>12. ASSUME NEW w \in Workers, PopMsg(w) PROVE FlagMeansScheduled'
  BY <1>12, SameSchedule DEF PopMsg
<1>13. ASSUME NEW w \in Workers, KillService(w) PROVE FlagMeansScheduled'
  <2>1. cur[w] \in Services /\ Scheduled(cur[w])
    BY <1>13 DEF KillService, Scheduled, Held
  <2>2. \A s \in Services : Scheduled(s)' <=> Scheduled(s)
    BY <1>13, SameSchedule DEF KillService
  <2> QED
    BY <1>13, <2>1, <2>2 DEF KillService
<1>14. ASSUME NEW w \in Workers, KillErase(w) PROVE FlagMeansScheduled'
  BY <1>14, SameSchedule DEF KillErase
<1>15. ASSUME NEW w \in Workers, EndMsg(w) PROVE FlagMeansScheduled'
  BY <1>15, SameSchedule DEF EndMsg
<1>16. ASSUME NEW w \in Workers, OnExit(w) PROVE FlagMeansScheduled'
  BY <1>16, SameSchedule DEF OnExit, OnePlaceAtMost
<1>17. ASSUME NEW w \in Workers, DropExiting(w) PROVE FlagMeansScheduled'
  <2>1. /\ cur[w] \in Services
        /\ \A s \in Services : Queued(s)' <=> Queued(s)
        /\ \A s \in Services : Scheduled(s)' <=> Scheduled(s) /\ s # cur[w]
    BY <1>17, LetGoEndsSchedule DEF DropExiting, Serving
  <2> QED
    BY <1>17, <2>1 DEF DropExiting, LetGo
<1>18. ASSUME NEW w \in Workers, CheckQueue(w) PROVE FlagMeansScheduled'
  BY <1>18, SameSchedule DEF CheckQueue
<1>19. ASSUME NEW w \in Workers, PutGlobal(w) PROVE FlagMeansScheduled'
  BY <1>19, PutBackKeepsSchedule DEF PutGlobal, LetGo
<1>20. ASSUME NEW w \in Workers, ClearInGlobal(w) PROVE FlagMeansScheduled'
  <2>1. /\ cur[w] \in Services
        /\ \A s \in Services : Queued(s)' <=> Queued(s)
        /\ \A s \in Services : Scheduled(s)' <=> Scheduled(s) /\ s # cur[w]
    BY <1>20, LetGoEndsSchedule DEF ClearInGlobal, Serving
  <2> QED
    BY <1>20, <2>1 DEF ClearInGlobal, LetGo
<1>21. CASE UNCHANGED vars
  BY <1>21, SameSchedule
<1> QED
    BY <1>1, <1>2, <1>3, <1>4, <1>5, <1>6, <1>7, <1>8, <1>9, <1>10, <1>11,
     <1>12, <1>13, <1>14, <1>15, <1>16, <1>17, <1>18, <1>19, <1>20, <1>21 DEF
     Next, SendStep, WorkerStep

(* ClearingIsEmpty: PushMsg cannot run while the worker owns queueLock.       *)
LEMMA ClearingStep ==
  ASSUME IInv, [Next]_vars
  PROVE  ClearingIsEmpty'
<1> USE DEF IInv, TypeOK, ServiceTypes, QueueTypes, SleepTypes, WorkerTypes,
   SenderTypes, WorkerSteps, SendSteps, ClearingIsEmpty, QueueLockOwner,
   ServingHasService, Serving, OnePlaceAtMost
<1>1. ASSUME NEW t \in Threads, NEW s \in Services, SendLookup(t, s)
      PROVE ClearingIsEmpty'
  BY <1>1 DEF SendLookup, CanSend
<1>2. ASSUME NEW t \in Threads, PushMsg(t) PROVE ClearingIsEmpty'
  BY <1>2 DEF PushMsg
<1>3. ASSUME NEW t \in Threads, SendCheck(t) PROVE ClearingIsEmpty'
  BY <1>3 DEF SendCheck, Return
<1>4. ASSUME NEW t \in Threads, SendMark(t) PROVE ClearingIsEmpty'
  BY <1>4 DEF SendMark
<1>5. ASSUME NEW t \in Threads, WakeCount(t) PROVE ClearingIsEmpty'
  BY <1>5 DEF WakeCount, Return
<1>6. ASSUME NEW t \in Threads, WakeSignal(t) PROVE ClearingIsEmpty'
  BY <1>6 DEF WakeSignal, CondSignal, Return
<1>7. ASSUME NEW w \in Workers, PopGlobalQueue(w) PROVE ClearingIsEmpty'
  BY <1>7 DEF PopGlobalQueue
<1>8. ASSUME NEW w \in Workers, WaitEnter(w) PROVE ClearingIsEmpty'
  BY <1>8 DEF WaitEnter
<1>9. ASSUME NEW w \in Workers, WaitSleep(w) PROVE ClearingIsEmpty'
  BY <1>9 DEF WaitSleep
<1>10. ASSUME NEW w \in Workers, SpuriousWake(w) PROVE ClearingIsEmpty'
  BY <1>10 DEF SpuriousWake
<1>11. ASSUME NEW w \in Workers, WaitLeave(w) PROVE ClearingIsEmpty'
  BY <1>11 DEF WaitLeave
<1>12. ASSUME NEW w \in Workers, PopMsg(w) PROVE ClearingIsEmpty'
  BY <1>12 DEF PopMsg
<1>13. ASSUME NEW w \in Workers, KillService(w) PROVE ClearingIsEmpty'
  BY <1>13 DEF KillService
<1>14. ASSUME NEW w \in Workers, KillErase(w) PROVE ClearingIsEmpty'
  BY <1>14 DEF KillErase
<1>15. ASSUME NEW w \in Workers, EndMsg(w) PROVE ClearingIsEmpty'
  BY <1>15 DEF EndMsg
<1>16. ASSUME NEW w \in Workers, OnExit(w) PROVE ClearingIsEmpty'
  BY <1>16 DEF OnExit, OnePlaceAtMost
<1>17. ASSUME NEW w \in Workers, DropExiting(w) PROVE ClearingIsEmpty'
  BY <1>17 DEF DropExiting, LetGo
<1>18. ASSUME NEW w \in Workers, CheckQueue(w) PROVE ClearingIsEmpty'
  BY <1>18 DEF CheckQueue
<1>19. ASSUME NEW w \in Workers, PutGlobal(w) PROVE ClearingIsEmpty'
  BY <1>19 DEF PutGlobal, LetGo
<1>20. ASSUME NEW w \in Workers, ClearInGlobal(w) PROVE ClearingIsEmpty'
  BY <1>20 DEF ClearInGlobal, LetGo
<1>21. CASE UNCHANGED vars
  BY <1>21
<1> QED
    BY <1>1, <1>2, <1>3, <1>4, <1>5, <1>6, <1>7, <1>8, <1>9, <1>10, <1>11,
     <1>12, <1>13, <1>14, <1>15, <1>16, <1>17, <1>18, <1>19, <1>20, <1>21 DEF
     Next, SendStep, WorkerStep

(* NotForgotten: a Send that finds the flag up relies on FlagMeansScheduled,  *)
(* a worker that clears it on ClearingIsEmpty.                               *)
LEMMA NotForgottenStep ==
  ASSUME IInv, [Next]_vars
  PROVE  NotForgotten'
<1> USE DEF IInv, TypeOK, ServiceTypes, QueueTypes, SleepTypes, WorkerTypes,
   SenderTypes, WorkerSteps, SendSteps, NotForgotten, ClearingIsEmpty,
   FlagMeansScheduled, Marking, ServingHasService, Serving
<1>1. ASSUME NEW t \in Threads, NEW s \in Services, SendLookup(t, s)
      PROVE NotForgotten'
  <2>1. \A u \in Threads : sendPc[u] = "check" => sendPc'[u] = "check" /\ to'[u] = to[u]
    BY <1>1 DEF SendLookup, CanSend
  <2>2. \A x \in Services : Scheduled(x)' <=> Scheduled(x)
    BY <1>1, SameSchedule DEF SendLookup, CanSend
  <2> QED
    BY <1>1, <2>1, <2>2 DEF SendLookup, CanSend
<1>2. ASSUME NEW t \in Threads, PushMsg(t) PROVE NotForgotten'
  BY <1>2, SameSchedule DEF PushMsg
<1>3. ASSUME NEW t \in Threads, SendCheck(t) PROVE NotForgotten'
  <2>1. to[t] \in Services
    BY <1>3 DEF SendCheck, Return
  <2>2. \A u \in Threads \ {t} : sendPc'[u] = sendPc[u] /\ to'[u] = to[u]
    BY <1>3 DEF SendCheck, Return
  <2>3. CASE inGlobal[to[t]]
    <3>1. \A s \in Services : Scheduled(s)' <=> Scheduled(s)
      BY <1>3, <2>3, SameSchedule DEF SendCheck, Return
    <3>2. Scheduled(to[t]) \/ isExiting[to[t]]
      BY <2>1, <2>3
    <3>3. ASSUME NEW s \in Services, msgQueue[s] # <<>>, ~isExiting[s],
                 ~Scheduled(s)
          PROVE  \E u \in Threads : sendPc'[u] = "check" /\ to'[u] = s
      <4>1. PICK u \in Threads : sendPc[u] = "check" /\ to[u] = s
        BY <3>3
      <4>2. u # t
        BY <3>2, <3>3, <4>1
      <4> QED
        BY <2>2, <4>1, <4>2
    <3> QED
      BY <1>3, <3>1, <3>3 DEF SendCheck
  <2>4. CASE ~inGlobal[to[t]]
    <3>1. \A s \in Services : Scheduled(s)' <=> Scheduled(s) \/ s = to[t]
            BY <1>3, <2>4, <2>1, QueueGrows, SameHolders DEF SendCheck,
         Return, Scheduled
    <3>2. ASSUME NEW s \in Services, msgQueue[s] # <<>>, ~isExiting[s],
                 ~Scheduled(s), s # to[t]
          PROVE  \E u \in Threads : sendPc'[u] = "check" /\ to'[u] = s
      BY <2>2, <3>2, ZenonT(60)
    <3> QED
      BY <1>3, <3>1, <3>2 DEF SendCheck
  <2> QED
    BY <2>3, <2>4
<1>4. ASSUME NEW t \in Threads, SendMark(t) PROVE NotForgotten'
  BY <1>4, SameSchedule DEF SendMark
<1>5. ASSUME NEW t \in Threads, WakeCount(t) PROVE NotForgotten'
  <2>1. \A u \in Threads : sendPc[u] = "check" => sendPc'[u] = "check" /\ to'[u] = to[u]
    BY <1>5 DEF WakeCount, Return
  <2>2. \A s \in Services : Scheduled(s)' <=> Scheduled(s)
    BY <1>5, SameSchedule DEF WakeCount, Return
  <2> QED
    BY <1>5, <2>1, <2>2 DEF WakeCount, Return
<1>6. ASSUME NEW t \in Threads, WakeSignal(t) PROVE NotForgotten'
  BY <1>6, SameSchedule DEF WakeSignal, CondSignal, Return
<1>7. ASSUME NEW w \in Workers, PopGlobalQueue(w) PROVE NotForgotten'
  BY <1>7, TakeKeepsSchedule DEF PopGlobalQueue
<1>8. ASSUME NEW w \in Workers, WaitEnter(w) PROVE NotForgotten'
  BY <1>8, SameSchedule DEF WaitEnter
<1>9. ASSUME NEW w \in Workers, WaitSleep(w) PROVE NotForgotten'
  BY <1>9, SameSchedule DEF WaitSleep
<1>10. ASSUME NEW w \in Workers, SpuriousWake(w) PROVE NotForgotten'
  BY <1>10, SameSchedule DEF SpuriousWake
<1>11. ASSUME NEW w \in Workers, WaitLeave(w) PROVE NotForgotten'
  BY <1>11, SameSchedule DEF WaitLeave
<1>12. ASSUME NEW w \in Workers, PopMsg(w) PROVE NotForgotten'
  BY <1>12, SameSchedule DEF PopMsg
<1>13. ASSUME NEW w \in Workers, KillService(w) PROVE NotForgotten'
  BY <1>13, SameSchedule DEF KillService
<1>14. ASSUME NEW w \in Workers, KillErase(w) PROVE NotForgotten'
  BY <1>14, SameSchedule DEF KillErase
<1>15. ASSUME NEW w \in Workers, EndMsg(w) PROVE NotForgotten'
  BY <1>15, SameSchedule DEF EndMsg
<1>16. ASSUME NEW w \in Workers, OnExit(w) PROVE NotForgotten'
  BY <1>16, SameSchedule DEF OnExit, OnePlaceAtMost
<1>17. ASSUME NEW w \in Workers, DropExiting(w) PROVE NotForgotten'
  <2>1. /\ cur[w] \in Services
        /\ \A s \in Services : Queued(s)' <=> Queued(s)
        /\ \A s \in Services : Scheduled(s)' <=> Scheduled(s) /\ s # cur[w]
    BY <1>17, LetGoEndsSchedule DEF DropExiting, Serving
  <2> QED
    BY <1>17, <2>1 DEF DropExiting, LetGo
<1>18. ASSUME NEW w \in Workers, CheckQueue(w) PROVE NotForgotten'
  BY <1>18, SameSchedule DEF CheckQueue
<1>19. ASSUME NEW w \in Workers, PutGlobal(w) PROVE NotForgotten'
  BY <1>19, PutBackKeepsSchedule DEF PutGlobal, LetGo
<1>20. ASSUME NEW w \in Workers, ClearInGlobal(w) PROVE NotForgotten'
  <2>1. /\ cur[w] \in Services
        /\ \A s \in Services : Queued(s)' <=> Queued(s)
        /\ \A s \in Services : Scheduled(s)' <=> Scheduled(s) /\ s # cur[w]
    BY <1>20, LetGoEndsSchedule DEF ClearInGlobal, Serving
  <2> QED
    BY <1>20, <2>1, ZenonT(60) DEF ClearInGlobal, LetGo
<1>21. CASE UNCHANGED vars
  BY <1>21, SameSchedule
<1> QED
    BY <1>1, <1>2, <1>3, <1>4, <1>5, <1>6, <1>7, <1>8, <1>9, <1>10, <1>11,
     <1>12, <1>13, <1>14, <1>15, <1>16, <1>17, <1>18, <1>19, <1>20, <1>21 DEF
     Next, SendStep, WorkerStep

(* ExitProgress: a service that exits is held by the worker that runs its     *)
(* handler, and no Send can queue it because its flag stays up.              *)
LEMMA ExitStep ==
  ASSUME IInv, [Next]_vars
  PROVE  ExitProgress'
<1> USE DEF IInv, TypeOK, ServiceTypes, QueueTypes, SleepTypes, WorkerTypes,
   SenderTypes, WorkerSteps, SendSteps, ExitProgress, FlagMeansScheduled,
   Marking, InGlobalLockOwner, ServingHasService, Serving
<1>1. ASSUME NEW t \in Threads, NEW s \in Services, SendLookup(t, s)
      PROVE ExitProgress'
  BY <1>1, SameQueue DEF SendLookup, CanSend
<1>2. ASSUME NEW t \in Threads, PushMsg(t) PROVE ExitProgress'
  BY <1>2, SameQueue DEF PushMsg
<1>3. ASSUME NEW t \in Threads, SendCheck(t) PROVE ExitProgress'
  <2>1. to[t] \in Services
    BY <1>3 DEF SendCheck, Return
  <2>2. CASE inGlobal[to[t]]
    BY <1>3, <2>2, SameQueue DEF SendCheck, Return
  <2>3. CASE ~inGlobal[to[t]]
    <3>1. ~isExiting[to[t]]
      BY <1>3, <2>1, <2>3 DEF SendCheck, Return
    <3>2. \A s \in Services : Queued(s)' <=> Queued(s) \/ s = to[t]
      BY <1>3, <2>1, <2>3, QueueGrows DEF SendCheck, Return
    <3> QED
      BY <1>3, <2>1, <2>3, <3>1, <3>2 DEF SendCheck, Return
  <2> QED
    BY <2>2, <2>3
<1>4. ASSUME NEW t \in Threads, SendMark(t) PROVE ExitProgress'
  BY <1>4, SameQueue DEF SendMark
<1>5. ASSUME NEW t \in Threads, WakeCount(t) PROVE ExitProgress'
  BY <1>5, SameQueue DEF WakeCount, Return
<1>6. ASSUME NEW t \in Threads, WakeSignal(t) PROVE ExitProgress'
  BY <1>6, SameQueue, SMTT(30) DEF WakeSignal, CondSignal, Return
<1>7. ASSUME NEW w \in Workers, PopGlobalQueue(w) PROVE ExitProgress'
  <2>1. \A s \in Services : Queued(s)' => Queued(s)
    BY <1>7, TakeKeepsSchedule
  <2>2. CASE globalQueue = <<>>
    BY <1>7, <2>1, <2>2 DEF PopGlobalQueue
  <2>3. CASE globalQueue # <<>>
    <3>1. Head(globalQueue) \in Services /\ Queued(Head(globalQueue))
      BY <1>7, <2>3, TailLemma DEF Queued
    <3>2. ~isExiting[Head(globalQueue)]
      BY <3>1
    <3>3. cur[w] = NoService
      BY <1>7 DEF PopGlobalQueue
    <3>4. cur' = [cur EXCEPT ![w] = Head(globalQueue)]
      BY <1>7, <2>3 DEF PopGlobalQueue
    <3>5. /\ pc[w] = "pop"
          /\ pc' = [pc EXCEPT ![w] = "next"]
          /\ UNCHANGED <<services, isExiting, exited>>
      BY <1>7, <2>3 DEF PopGlobalQueue
    <3>6. \A v \in Workers \ {w} : pc'[v] = pc[v] /\ cur'[v] = cur[v]
      BY <3>4, <3>5
    <3>7. pc'[w] = "next" /\ cur'[w] = Head(globalQueue)
      BY <3>4, <3>5
    <3>8. ASSUME NEW s \in services, isExiting[s]
          PROVE  \E v \in Workers : cur'[v] = s /\ pc'[v] = "erase"
      <4>1. PICK v \in Workers : cur[v] = s /\ pc[v] = "erase"
        BY <3>8
      <4>2. v # w
        BY <3>5, <4>1
      <4> QED
        BY <3>6, <4>1, <4>2
    <3>9. \A s \in exited : isExiting[s] /\ s # Head(globalQueue)
      BY <3>2
    <3> QED
      BY <2>1, <3>2, <3>5, <3>6, <3>7, <3>8, <3>9, SMTT(30)
  <2> QED
    BY <2>2, <2>3
<1>8. ASSUME NEW w \in Workers, WaitEnter(w) PROVE ExitProgress'
  BY <1>8, SameQueue DEF WaitEnter
<1>9. ASSUME NEW w \in Workers, WaitSleep(w) PROVE ExitProgress'
  BY <1>9, SameQueue DEF WaitSleep
<1>10. ASSUME NEW w \in Workers, SpuriousWake(w) PROVE ExitProgress'
  BY <1>10, SameQueue DEF SpuriousWake
<1>11. ASSUME NEW w \in Workers, WaitLeave(w) PROVE ExitProgress'
  BY <1>11, SameQueue DEF WaitLeave
<1>12. ASSUME NEW w \in Workers, PopMsg(w) PROVE ExitProgress'
  BY <1>12, SameQueue DEF PopMsg
<1>13. ASSUME NEW w \in Workers, KillService(w) PROVE ExitProgress'
  <2>1. cur[w] \in Services /\ Held(cur[w]) /\ ~Queued(cur[w])
    BY <1>13 DEF KillService, Held, OnePlaceAtMost
  <2>2. \A s \in Services : Queued(s)' <=> Queued(s)
    BY <1>13, SameQueue DEF KillService
  <2> QED
    BY <1>13, <2>1, <2>2 DEF KillService, OnePlaceAtMost
<1>14. ASSUME NEW w \in Workers, KillErase(w) PROVE ExitProgress'
  BY <1>14, SameQueue DEF KillErase
<1>15. ASSUME NEW w \in Workers, EndMsg(w) PROVE ExitProgress'
  BY <1>15, SameQueue DEF EndMsg
<1>16. ASSUME NEW w \in Workers, OnExit(w) PROVE ExitProgress'
  BY <1>16, SameQueue DEF OnExit, OnePlaceAtMost
<1>17. ASSUME NEW w \in Workers, DropExiting(w) PROVE ExitProgress'
  <2>1. /\ cur[w] \in Services
        /\ \A s \in Services : Queued(s)' <=> Queued(s)
        /\ \A s \in Services : Scheduled(s)' <=> Scheduled(s) /\ s # cur[w]
    BY <1>17, LetGoEndsSchedule DEF DropExiting, Serving
  <2> QED
    BY <1>17, <2>1 DEF DropExiting, LetGo
<1>18. ASSUME NEW w \in Workers, CheckQueue(w) PROVE ExitProgress'
  BY <1>18, SameQueue DEF CheckQueue
<1>19. ASSUME NEW w \in Workers, PutGlobal(w) PROVE ExitProgress'
  <2>1. /\ cur[w] \in Services
        /\ \A s \in Services : Queued(s)' <=> Queued(s) \/ s = cur[w]
    BY <1>19, PutBackKeepsSchedule
  <2> QED
    BY <1>19, <2>1 DEF PutGlobal, LetGo
<1>20. ASSUME NEW w \in Workers, ClearInGlobal(w) PROVE ExitProgress'
  <2>1. /\ cur[w] \in Services
        /\ \A s \in Services : Queued(s)' <=> Queued(s)
        /\ \A s \in Services : Scheduled(s)' <=> Scheduled(s) /\ s # cur[w]
    BY <1>20, LetGoEndsSchedule DEF ClearInGlobal, Serving
  <2> QED
    BY <1>20, <2>1 DEF ClearInGlobal, LetGo
<1>21. CASE UNCHANGED vars
  BY <1>21, SameQueue
<1> QED
    BY <1>1, <1>2, <1>3, <1>4, <1>5, <1>6, <1>7, <1>8, <1>9, <1>10, <1>11,
     <1>12, <1>13, <1>14, <1>15, <1>16, <1>17, <1>18, <1>19, <1>20, <1>21 DEF
     Next, SendStep, WorkerStep

-----------------------------------------------------------------------------
(* IInv holds in the initial state: nothing is queued, held or locked. *)
LEMMA InitIInv == Init => IInv
<1> SUFFICES ASSUME Init PROVE IInv
  OBVIOUS
<1> USE DEF Init
<1>1. TypeOK
    BY WorkersCount DEF TypeOK, ServiceTypes, QueueTypes, SleepTypes,
     WorkerTypes,
     SenderTypes, WorkerSteps, SendSteps
<1>2. SleepCountExact
  <2>1. {w \in Workers : InWait(w)} = {}
    BY DEF InWait
  <2> QED
    BY <2>1, FS_EmptySet DEF SleepCountExact
<1>3. \A s \in Services : ~Queued(s) /\ ~Held(s)
  BY DEF Queued, Held
<1>4. OnePlaceAtMost
  BY <1>3 DEF OnePlaceAtMost
<1>5. ServingHasService /\ InGlobalLockOwner /\ MarkingIsUnflagged /\ QueueLockOwner
  BY DEF ServingHasService, Serving, InGlobalLockOwner, MarkingIsUnflagged,
     Marking, QueueLockOwner
<1>6. FlagMeansScheduled /\ ClearingIsEmpty /\ NotForgotten
    BY <1>3 DEF FlagMeansScheduled, ClearingIsEmpty, NotForgotten, Scheduled,
     Marking
<1>7. ExitProgress
  BY <1>3 DEF ExitProgress
<1> QED
  BY <1>1, <1>2, <1>4, <1>5, <1>6, <1>7 DEF IInv

(* The inductive invariant holds in every reachable state of the scheduler, *)
(* whatever the number of services, workers and senders.                    *)
THEOREM Invariance == Spec => []IInv
<1>1. IInv /\ [Next]_vars => IInv'
  BY TypeStep, SleepCountStep, OnePlaceStep, ServingStep, InGlobalLockStep,
     MarkingStep, QueueLockStep, FlagStep, ClearingStep, NotForgottenStep,
     ExitStep DEF IInv
<1> QED
  BY InitIInv, <1>1, PTL DEF Spec

(* The variables of Send, of the workers and of the queues keep their types. *)
THEOREM TypeCorrect == Spec => []TypeOK
<1>1. IInv => TypeOK
  BY DEF IInv
<1> QED
  BY Invariance, <1>1, PTL

(* No service is ever queued twice, held by two workers, or both queued and *)
(* held: no two workers run in one Lua state.                               *)
THEOREM OneWorkerPerService == Spec => []OnePlaceAtMost
<1>1. IInv => OnePlaceAtMost
  BY DEF IInv
<1> QED
  BY Invariance, <1>1, PTL

(* No message of a live service is left behind with its service unscheduled. *)
THEOREM NoMessageStranded == Spec => []NoStrandedMessage
<1>1. IInv => NoStrandedMessage
  <2> SUFFICES ASSUME IInv, NEW s \in services, msgQueue[s] # <<>>
               PROVE  \/ Scheduled(s)
                      \/ \E t \in Threads : sendPc[t] = "check" /\ to[t] = s
    BY DEF NoStrandedMessage
  <2>1. s \in Services
    BY DEF IInv, TypeOK, ServiceTypes
  <2>2. CASE isExiting[s]
    BY <2>2 DEF IInv, ExitProgress, Scheduled, Held
  <2>3. CASE ~isExiting[s]
    BY <2>1, <2>3 DEF IInv, NotForgotten
  <2> QED
    BY <2>2, <2>3
<1> QED
  BY Invariance, <1>1, PTL

(* Once OnExit has closed the Lua state of a service, nothing runs on it. *)
THEOREM ExitIsLast == Spec => []NothingRunsAfterExit
<1>1. IInv => NothingRunsAfterExit
  BY DEF IInv, ExitProgress, NothingRunsAfterExit, TypeOK, ServiceTypes
<1> QED
  BY Invariance, <1>1, PTL

(* sleepCount is the number of workers in WorkerWait. *)
THEOREM SleepersCounted == Spec => []SleepCountExact
<1>1. IInv => SleepCountExact
  BY DEF IInv
<1> QED
  BY Invariance, <1>1, PTL

-----------------------------------------------------------------------------
(* The services with a handler or OnExit running, as Mailbox sees them. *)
Busy == {s \in Services : \E w \in Workers :
           cur[w] = s /\ pc[w] \in {"handler", "erase", "exit"}}

Dying == {s \in Services : isExiting[s]}

BoxView == <<msgQueue, Busy, Dying, exited>>

(* A step that starts no handler, ends none, kills nothing and delivers    *)
(* nothing leaves what Mailbox sees unchanged.                             *)
LEMMA BusyUnchanged ==
  ASSUME NEW w \in Workers, UNCHANGED cur,
         \A v \in Workers \ {w} : pc'[v] = pc[v],
         pc[w] \in {"handler", "erase", "exit"} <=>
           pc'[w] \in {"handler", "erase", "exit"}
  PROVE  Busy' = Busy
BY DEF Busy

(* A worker that has a service is the only one with it: what it does to its *)
(* own pc decides whether the service is busy.                              *)
LEMMA BusyMeans ==
  ASSUME IInv, NEW w \in Workers, cur[w] \in Services
  PROVE  cur[w] \in Busy <=> pc[w] \in {"handler", "erase", "exit"}
BY DEF IInv, TypeOK, WorkerTypes, OnePlaceAtMost, Busy

(* A worker that enters a handler makes its service busy. *)
LEMMA BusyStarts ==
  ASSUME IInv, NEW w \in Workers, cur[w] \in Services, UNCHANGED cur,
         pc' = [pc EXCEPT ![w] = "handler"]
  PROVE  Busy' = Busy \cup {cur[w]}
BY DEF IInv, TypeOK, WorkerTypes, OnePlaceAtMost, Busy

(* A worker that leaves its handler makes its service idle. *)
LEMMA BusyEnds ==
  ASSUME IInv, NEW w \in Workers, cur[w] \in Services, UNCHANGED cur,
         pc'[w] \notin {"handler", "erase", "exit"},
         \A v \in Workers \ {w} : pc'[v] = pc[v]
  PROVE  Busy' = Busy \ {cur[w]}
BY DEF IInv, TypeOK, WorkerTypes, OnePlaceAtMost, Busy

(* Every step of the scheduler is a step of the mailboxes or invisible.    *)
LEMMA BoxStep ==
  ASSUME IInv, [Next]_vars
  PROVE  [Box!BoxNext]_(Box!boxVars)
<1> DEFINE Goal == Box!BoxNext \/ UNCHANGED BoxView
<1> USE DEF BoxView
<1>1. ASSUME NEW t \in Threads, PushMsg(t) PROVE Goal
  <2>1. to[t] \in Services /\ Msg(t) \in Messages
    BY <1>1, MsgLemma DEF PushMsg, IInv, TypeOK, SenderTypes
  <2>2. UNCHANGED <<Busy, Dying, exited>>
    BY <1>1 DEF PushMsg, Busy, Dying
  <2>3. Box!Deliver(to[t], Msg(t))
    BY <1>1, <2>2 DEF PushMsg, Box!Deliver, Busy, Dying
  <2> QED
    BY <2>1, <2>3 DEF Box!BoxNext
<1>2. ASSUME NEW w \in Workers, PopMsg(w) PROVE Goal
  <2>1. cur[w] \in Services
    BY <1>2, ServingLemma DEF PopMsg, Serving, IInv, TypeOK
  <2>2. UNCHANGED <<Dying, exited>>
    BY <1>2 DEF PopMsg, Dying
  <2>3. CASE msgQueue[cur[w]] = <<>>
    <3>1. Busy' = Busy
      BY <1>2, <2>3, BusyUnchanged DEF PopMsg, IInv, TypeOK, WorkerTypes
    <3> QED
      BY <1>2, <2>2, <2>3, <3>1 DEF PopMsg
  <2>4. CASE msgQueue[cur[w]] # <<>>
    <3>1. Busy' = Busy \cup {cur[w]}
      BY <1>2, <2>1, <2>4, BusyStarts DEF PopMsg
    <3>2. cur[w] \notin Busy
      BY <1>2, <2>1, BusyMeans DEF PopMsg
    <3>3. cur[w] \notin exited
      BY <1>2 DEF PopMsg, IInv, ExitProgress
    <3>4. Box!Start(cur[w])
      BY <1>2, <2>2, <2>4, <3>1, <3>2, <3>3 DEF PopMsg, Box!Start, Busy, Dying
    <3> QED
      BY <2>1, <3>4 DEF Box!BoxNext, Box!Start
  <2> QED
    BY <2>3, <2>4
<1>3. ASSUME NEW w \in Workers, KillService(w) PROVE Goal
  <2>1. cur[w] \in Services /\ cur[w] \in Busy
    BY <1>3, ServingLemma, BusyMeans DEF KillService, Serving, IInv, TypeOK
  <2>2. ~isExiting[cur[w]]
    <3>1. ASSUME isExiting[cur[w]] PROVE FALSE
      <4>1. PICK v \in Workers : cur[v] = cur[w] /\ pc[v] = "erase"
        BY <1>3, <3>1 DEF KillService, IInv, ExitProgress
      <4>2. v = w
        BY <2>1, <4>1 DEF IInv, OnePlaceAtMost
      <4> QED
        BY <1>3, <4>1, <4>2 DEF KillService
    <3> QED
      BY <3>1
  <2>3. Busy' = Busy
    BY <1>3, BusyUnchanged DEF KillService, IInv, TypeOK, WorkerTypes
  <2>4. Dying' = Dying \cup {cur[w]} /\ cur[w] \notin Dying
    BY <1>3, <2>1, <2>2 DEF KillService, Dying, IInv, TypeOK, ServiceTypes
  <2>5. Box!Kill(cur[w])
    BY <1>3, <2>1, <2>3, <2>4 DEF KillService, Box!Kill, Busy, Dying
  <2> QED
    BY <2>1, <2>5 DEF Box!BoxNext, Box!Kill
<1>4. ASSUME NEW w \in Workers, EndMsg(w) PROVE Goal
  <2>1. cur[w] \in Services /\ cur[w] \in Busy
    BY <1>4, ServingLemma, BusyMeans DEF EndMsg, Serving, IInv, TypeOK
  <2>2. Dying' = Dying
    BY <1>4 DEF EndMsg, Dying
  <2>3. CASE isExiting[cur[w]]
    <3>1. Busy' = Busy
      BY <1>4, <2>3, BusyUnchanged DEF EndMsg, IInv, TypeOK, WorkerTypes
    <3> QED
      BY <1>4, <2>2, <3>1 DEF EndMsg
  <2>4. CASE ~isExiting[cur[w]]
    <3>1. /\ pc'[w] \notin {"handler", "erase", "exit"}
          /\ \A v \in Workers \ {w} : pc'[v] = pc[v]
          /\ UNCHANGED <<cur, msgQueue, exited>>
      BY <1>4, <2>4 DEF EndMsg, IInv, TypeOK, WorkerTypes
    <3>2. Busy' = Busy \ {cur[w]}
      BY <2>1, <3>1, BusyEnds
    <3>3. cur[w] \notin Dying
      BY <2>4 DEF Dying
    <3>4. Box!Finish(cur[w])
      BY <2>1, <2>2, <3>1, <3>2, <3>3 DEF Box!Finish, Busy, Dying
    <3> QED
      BY <2>1, <3>4 DEF Box!BoxNext, Box!Finish
  <2> QED
    BY <2>3, <2>4
<1>5. ASSUME NEW w \in Workers, OnExit(w) PROVE Goal
  <2>1. cur[w] \in Services /\ cur[w] \in Busy
    BY <1>5, ServingLemma, BusyMeans DEF OnExit, Serving, IInv, TypeOK
  <2>2. cur[w] \in Dying /\ Dying' = Dying
    BY <1>5, <2>1 DEF OnExit, Dying, IInv, ExitProgress
  <2>3. /\ pc'[w] \notin {"handler", "erase", "exit"}
        /\ \A v \in Workers \ {w} : pc'[v] = pc[v]
        /\ UNCHANGED <<cur, msgQueue>>
        /\ exited' = exited \cup {cur[w]}
    BY <1>5 DEF OnExit, IInv, TypeOK, WorkerTypes
  <2>4. Busy' = Busy \ {cur[w]}
    BY <2>1, <2>3, BusyEnds
  <2>5. Box!Exit(cur[w])
    BY <2>1, <2>2, <2>3, <2>4 DEF Box!Exit, Busy, Dying
  <2> QED
    BY <2>1, <2>5 DEF Box!BoxNext, Box!Exit
<1>6. ASSUME NEW w \in Workers,
             \/ DropExiting(w) \/ PutGlobal(w) \/ ClearInGlobal(w)
      PROVE  Goal
  <2>1. /\ pc[w] \in {"check", "put", "clear"}
        /\ pc' = [pc EXCEPT ![w] = "pop"]
        /\ cur' = [cur EXCEPT ![w] = NoService]
        /\ UNCHANGED <<msgQueue, isExiting, exited>>
    BY <1>6 DEF DropExiting, PutGlobal, ClearInGlobal, LetGo
  <2>2. Busy' = Busy
    BY <2>1 DEF IInv, TypeOK, WorkerTypes, Busy
  <2> QED
    BY <2>1, <2>2 DEF Dying
<1>7. ASSUME NEW w \in Workers, PopGlobalQueue(w) PROVE Goal
  <2>1. /\ pc[w] = "pop" /\ cur[w] = NoService
        /\ pc'[w] \notin {"handler", "erase", "exit"}
        /\ \A v \in Workers \ {w} : pc'[v] = pc[v] /\ cur'[v] = cur[v]
        /\ UNCHANGED <<msgQueue, isExiting, exited>>
        BY <1>7 DEF PopGlobalQueue, IInv, TypeOK, WorkerTypes,
       ServingHasService, Serving
  <2>2. Busy' = Busy
    BY <2>1 DEF Busy
  <2> QED
    BY <2>1, <2>2 DEF Dying
<1>8. ASSUME NEW w \in Workers,
             \/ WaitEnter(w) \/ WaitSleep(w) \/ SpuriousWake(w) \/ WaitLeave(w)
             \/ KillErase(w) \/ CheckQueue(w)
      PROVE  Goal
  <2>1. /\ UNCHANGED <<cur, msgQueue, isExiting, exited>>
        /\ \A v \in Workers \ {w} : pc'[v] = pc[v]
        /\ pc[w] \in {"handler", "erase", "exit"} <=>
             pc'[w] \in {"handler", "erase", "exit"}
    BY <1>8 DEF WaitEnter, WaitSleep, SpuriousWake, WaitLeave, KillErase,
       CheckQueue, IInv, TypeOK, WorkerTypes
  <2> QED
    BY <2>1, BusyUnchanged DEF Dying
<1>9. ASSUME NEW t \in Threads, WakeSignal(t) PROVE Goal
  <2>1. /\ UNCHANGED <<cur, msgQueue, isExiting, exited>>
        /\ \/ pc' = pc
           \/ \E w \in Workers : pc[w] = "asleep" /\ pc' = [pc EXCEPT ![w] = "woken"]
    BY <1>9 DEF WakeSignal, CondSignal
  <2>2. Busy' = Busy
    BY <2>1 DEF Busy, IInv, TypeOK, WorkerTypes
  <2> QED
    BY <2>1, <2>2 DEF Dying
<1>10. ASSUME NEW t \in Threads,
              \/ SendCheck(t) \/ SendMark(t) \/ WakeCount(t)
              \/ \E s \in Services : SendLookup(t, s)
       PROVE  Goal
  <2>1. UNCHANGED <<pc, cur, msgQueue, isExiting, exited>>
    BY <1>10 DEF SendCheck, SendMark, WakeCount, SendLookup
  <2> QED
    BY <2>1 DEF Busy, Dying
<1>11. ASSUME UNCHANGED vars PROVE Goal
  <2>1. UNCHANGED <<pc, cur, msgQueue, isExiting, exited>>
    BY <1>11
  <2> QED
    BY <2>1 DEF Busy, Dying
<1>12. Goal
  <2> HIDE DEF Goal
  <2> QED
    BY <1>1, <1>2, <1>3, <1>4, <1>5, <1>6, <1>7, <1>8, <1>9, <1>10, <1>11
       DEF Next, SendStep, WorkerStep
<1> QED
  BY <1>12 DEF Box!boxVars, Busy, Dying

(* The scheduler implements Mailbox: one handler at a time per service, its *)
(* messages in the order of arrival and each of them once, OnExit last.     *)
THEOREM Refinement == Spec => ImplementsMailboxes
<1>1. Init => Box!BoxInit
  BY DEF Init, Box!BoxInit
<1>2. IInv /\ [Next]_vars => [Box!BoxNext]_(Box!boxVars)
  BY BoxStep
<1> QED
  BY <1>1, <1>2, Invariance, PTL DEF Spec, ImplementsMailboxes, Box!BoxSpec

=============================================================================
