------------------------------ MODULE Scheduler ------------------------------
(***************************************************************************)
(* The message scheduler of sunnet: Sunnet::Send, the global queue of      *)
(* services, the worker threads that drain it, the condition variable they *)
(* sleep on, and the exit of a service (src/Sunnet.cpp, src/Worker.cpp and *)
(* the queue half of src/Service.cpp).                                     *)
(*                                                                         *)
(* A step is a critical section, or the part of one between two points at  *)
(* which another thread can see the difference.  globalLock and            *)
(* serviceLock protect sections that take no other lock, so each of those  *)
(* sections is one step; queueLock and inGlobalLock are variables, because *)
(* a thread takes a second lock while it holds one of them.                *)
(*                                                                         *)
(* Lua handlers are arbitrary: they send to any service, may kill their    *)
(* own service, and return.                                                *)
(*                                                                         *)
(* A definition whose name ends in Slip is the one after it with a         *)
(* plausible programming slip.  No specification uses it: it stands in for *)
(* the original when we ask whether a property would notice.               *)
(***************************************************************************)
EXTENDS Integers, Sequences, FiniteSets

CONSTANTS
  Services,     \* the services that exist when the run starts
  Workers,      \* the worker threads; there are WORKER_NUM of them
  Others,       \* the threads that only send: main, SocketWorker, TimerWorker
  EachNum,      \* worker -> how many messages it handles in a row
  MaxSends,     \* thread -> bound on the calls of Send it makes
  NoThread,     \* the owner of a free lock
  NoService     \* what a worker without a service is working on

Threads == Workers \cup Others

ASSUME SchedulerAssumption ==
  /\ IsFiniteSet(Workers)
  /\ Workers \cap Others = {}
  /\ NoThread \notin Threads
  /\ NoService \notin Services
  /\ EachNum \in [Workers -> Nat \ {0}]
  /\ MaxSends \in [Threads -> Nat]

(* A message is identified by its sender and its number among the sender's *)
(* messages; nothing here depends on what it carries.                      *)
Messages == UNION {[from : {t}, n : 1 .. MaxSends[t]] : t \in Threads}

VARIABLES
  services,     \* Sunnet::services, the registered services
  isExiting,    \* Service::is_Exiting
  exited,       \* the services whose OnExit ran and whose Lua state is closed
  msgQueue,     \* Service::msgQueue
  queueLock,    \* Service::queueLock: its owner
  inGlobal,     \* Service::inGlobal
  inGlobalLock, \* Service::inGlobalLock: its owner
  globalQueue,  \* Sunnet::globalQueue
  sleepMtx,     \* Sunnet::sleepMtx: its owner
  sleepCount,   \* Sunnet::sleepCount
  pc,           \* where a worker is in Worker::operator()
  cur,          \* the service a worker took from the global queue
  done,         \* the loop counter of processMsgs
  sendPc,       \* where a thread is in Sunnet::Send
  to,           \* the service its Send is addressed to
  sent,         \* how many times it has called Send
  seen          \* the sleepCount it read in checkAndWeakUp

serviceVars == <<services, isExiting, exited>>
queueVars == <<msgQueue, queueLock, inGlobal, inGlobalLock, globalQueue>>
sleepVars == <<sleepMtx, sleepCount>>
workerVars == <<pc, cur, done>>
senderVars == <<sendPc, to, sent, seen>>
vars == <<serviceVars, queueVars, sleepVars, workerVars, senderVars>>

Init ==
  /\ services = Services
  /\ isExiting = [s \in Services |-> FALSE]
  /\ exited = {}
  /\ msgQueue = [s \in Services |-> <<>>]
  /\ queueLock = [s \in Services |-> NoThread]
  /\ inGlobal = [s \in Services |-> FALSE]
  /\ inGlobalLock = [s \in Services |-> NoThread]
  /\ globalQueue = <<>>
  /\ sleepMtx = NoThread
  /\ sleepCount = 0
  /\ pc = [w \in Workers |-> "pop"]
  /\ cur = [w \in Workers |-> NoService]
  /\ done = [w \in Workers |-> 0]
  /\ sendPc = [t \in Threads |-> "none"]
  /\ to = [t \in Threads |-> NoService]
  /\ sent = [t \in Threads |-> 0]
  /\ seen = [t \in Threads |-> 0]

-----------------------------------------------------------------------------
(* Sunnet::Send.  Any thread may call it; a worker does so from inside a   *)
(* Lua handler or OnExit.                                                  *)

InLua(w) == pc[w] \in {"handler", "exit"}

CanSend(t) ==
  /\ sendPc[t] = "none"
  /\ t \in Workers => InLua(t)
  /\ sent[t] < MaxSends[t]

Msg(t) == [from |-> t, n |-> sent[t]]

(* Send returns: its locals go out of scope. *)
Return(t) ==
  /\ sendPc' = [sendPc EXCEPT ![t] = "none"]
  /\ to' = [to EXCEPT ![t] = NoService]
  /\ seen' = [seen EXCEPT ![t] = 0]

(* GetService finds the target, or Send returns false. *)
SendLookup(t, s) ==
  /\ CanSend(t)
  /\ sent' = [sent EXCEPT ![t] = @ + 1]
  /\ IF s \in services
     THEN /\ to' = [to EXCEPT ![t] = s]
          /\ sendPc' = [sendPc EXCEPT ![t] = "push"]
     ELSE UNCHANGED <<to, sendPc>>
  /\ UNCHANGED <<serviceVars, queueVars, sleepVars, workerVars, seen>>

PushMsg(t) ==
  /\ sendPc[t] = "push"
  /\ queueLock[to[t]] = NoThread
  /\ msgQueue' = [msgQueue EXCEPT ![to[t]] = Append(@, Msg(t))]
  /\ sendPc' = [sendPc EXCEPT ![t] = "check"]
  /\ UNCHANGED <<serviceVars, queueLock, inGlobal, inGlobalLock, globalQueue,
                 sleepVars, workerVars, to, sent, seen>>

(* Under inGlobalLock: nothing to do for a service already scheduled,      *)
(* otherwise PushGlobalQueue (globalLock is taken inside inGlobalLock).    *)
SendCheck(t) ==
  /\ sendPc[t] = "check"
  /\ inGlobalLock[to[t]] = NoThread
  /\ IF inGlobal[to[t]]
     THEN /\ Return(t)
          /\ UNCHANGED <<globalQueue, inGlobalLock>>
     ELSE /\ globalQueue' = Append(globalQueue, to[t])
          /\ inGlobalLock' = [inGlobalLock EXCEPT ![to[t]] = t]
          /\ sendPc' = [sendPc EXCEPT ![t] = "mark"]
          /\ UNCHANGED <<to, seen>>
  /\ UNCHANGED <<serviceVars, msgQueue, queueLock, inGlobal, sleepVars,
                 workerVars, sent>>

(* Slip: queueLock is taken inside inGlobalLock, against ClearInGlobal.    *)
SendMarkSlip(t) ==
  /\ sendPc[t] = "mark"
  /\ queueLock[to[t]] = NoThread
  /\ inGlobal' = [inGlobal EXCEPT ![to[t]] = TRUE]
  /\ inGlobalLock' = [inGlobalLock EXCEPT ![to[t]] = NoThread]
  /\ sendPc' = [sendPc EXCEPT ![t] = "count"]
  /\ UNCHANGED <<serviceVars, msgQueue, queueLock, globalQueue, sleepVars,
                 workerVars, to, sent, seen>>

(* The flag is set only after the push: the service may be in a worker's   *)
(* hands by then.                                                          *)
SendMark(t) ==
  /\ sendPc[t] = "mark"
  /\ inGlobal' = [inGlobal EXCEPT ![to[t]] = TRUE]
  /\ inGlobalLock' = [inGlobalLock EXCEPT ![to[t]] = NoThread]
  /\ sendPc' = [sendPc EXCEPT ![t] = "count"]
  /\ UNCHANGED <<serviceVars, msgQueue, queueLock, globalQueue, sleepVars,
                 workerVars, to, sent, seen>>

(* checkAndWeakUp, first read of sleepCount, without sleepMtx. *)
WakeCount(t) ==
  /\ sendPc[t] = "count"
  /\ IF sleepCount = 0
     THEN Return(t)
     ELSE /\ seen' = [seen EXCEPT ![t] = sleepCount]
          /\ sendPc' = [sendPc EXCEPT ![t] = "signal"]
          /\ UNCHANGED to
  /\ UNCHANGED <<serviceVars, queueVars, sleepVars, workerVars, sent>>

(* pthread_cond_signal releases one waiter, any of them, if there is one.  *)
CondSignal ==
  IF \E w \in Workers : pc[w] = "asleep"
  THEN \E w \in Workers : /\ pc[w] = "asleep"
                          /\ pc' = [pc EXCEPT ![w] = "woken"]
  ELSE UNCHANGED pc

(* Slip: the comparison is turned round. *)
FewerAwakeThanQueuedSlip(asleep) ==
  Cardinality(Workers) - asleep >= Len(globalQueue)

(* The test of checkAndWeakUp, with asleep workers said to be sleeping.    *)
FewerAwakeThanQueued(asleep) ==
  Cardinality(Workers) - asleep <= Len(globalQueue)

(* checkAndWeakUp, second use of sleepCount.  The read is a data race with *)
(* WorkerWait: the compiled code loads it again or reuses the first value. *)
WakeSignal(t) ==
  /\ sendPc[t] = "signal"
  /\ Return(t)
  /\ \E asleep \in {seen[t], sleepCount} :
       IF FewerAwakeThanQueued(asleep) THEN CondSignal ELSE UNCHANGED pc
  /\ UNCHANGED <<serviceVars, queueVars, sleepVars, cur, done, sent>>

-----------------------------------------------------------------------------
(* Worker::operator(): take a service from the global queue, or sleep.     *)

PopGlobalQueue(w) ==
  /\ pc[w] = "pop"
  /\ IF globalQueue = <<>>
     THEN /\ pc' = [pc EXCEPT ![w] = "lock"]
          /\ UNCHANGED <<globalQueue, cur>>
     ELSE /\ globalQueue' = Tail(globalQueue)
          /\ cur' = [cur EXCEPT ![w] = Head(globalQueue)]
          /\ pc' = [pc EXCEPT ![w] = "next"]
  /\ UNCHANGED <<serviceVars, msgQueue, queueLock, inGlobal, inGlobalLock,
                 sleepVars, done, senderVars>>

(* WorkerWait: sleepMtx is held from the increment to the wait itself. *)
WaitEnter(w) ==
  /\ pc[w] = "lock"
  /\ sleepMtx = NoThread
  /\ sleepMtx' = w
  /\ sleepCount' = sleepCount + 1
  /\ pc' = [pc EXCEPT ![w] = "wait"]
  /\ UNCHANGED <<serviceVars, queueVars, cur, done, senderVars>>

WaitSleep(w) ==
  /\ pc[w] = "wait"
  /\ sleepMtx' = NoThread
  /\ pc' = [pc EXCEPT ![w] = "asleep"]
  /\ UNCHANGED <<serviceVars, queueVars, sleepCount, cur, done, senderVars>>

(* pthread_cond_wait may return without a signal. *)
SpuriousWake(w) ==
  /\ pc[w] = "asleep"
  /\ pc' = [pc EXCEPT ![w] = "woken"]
  /\ UNCHANGED <<serviceVars, queueVars, sleepVars, cur, done, senderVars>>

WaitLeave(w) ==
  /\ pc[w] = "woken"
  /\ sleepMtx = NoThread
  /\ sleepCount' = sleepCount - 1
  /\ pc' = [pc EXCEPT ![w] = "pop"]
  /\ UNCHANGED <<serviceVars, queueVars, sleepMtx, cur, done, senderVars>>

-----------------------------------------------------------------------------
(* Service::processMsgs: up to EachNum messages, each with its handler.    *)

PopMsg(w) ==
  /\ pc[w] = "next"
  /\ queueLock[cur[w]] = NoThread
  /\ IF msgQueue[cur[w]] = <<>>
     THEN /\ pc' = [pc EXCEPT ![w] = "check"]
          /\ UNCHANGED msgQueue
     ELSE /\ msgQueue' = [msgQueue EXCEPT ![cur[w]] = Tail(@)]
          /\ pc' = [pc EXCEPT ![w] = "handler"]
  /\ UNCHANGED <<serviceVars, queueLock, inGlobal, inGlobalLock, globalQueue,
                 sleepVars, cur, done, senderVars>>

(* The handler kills its own service: is_Exiting first, the service table  *)
(* after.  A second call finds no service and does nothing.                *)
KillService(w) ==
  /\ pc[w] = "handler"
  /\ sendPc[w] = "none"
  /\ cur[w] \in services
  /\ isExiting' = [isExiting EXCEPT ![cur[w]] = TRUE]
  /\ pc' = [pc EXCEPT ![w] = "erase"]
  /\ UNCHANGED <<services, exited, queueVars, sleepVars, cur, done, senderVars>>

KillErase(w) ==
  /\ pc[w] = "erase"
  /\ services' = services \ {cur[w]}
  /\ pc' = [pc EXCEPT ![w] = "handler"]
  /\ UNCHANGED <<isExiting, exited, queueVars, sleepVars, cur, done, senderVars>>

(* Slip: the exiting flag is looked at only when the loop is over. *)
EndMsgSlip(w) ==
  /\ pc[w] = "handler"
  /\ sendPc[w] = "none"
  /\ done' = [done EXCEPT ![w] = @ + 1]
  /\ pc' = [pc EXCEPT ![w] = IF done[w] + 1 < EachNum[w] THEN "next"
                             ELSE IF isExiting[cur[w]] THEN "exit"
                             ELSE "check"]
  /\ UNCHANGED <<serviceVars, queueVars, sleepVars, cur, senderVars>>

(* OnMsg returns: OnExit is next if the service is exiting, else the loop. *)
EndMsg(w) ==
  /\ pc[w] = "handler"
  /\ sendPc[w] = "none"
  /\ done' = [done EXCEPT ![w] = @ + 1]
  /\ pc' = [pc EXCEPT ![w] = IF isExiting[cur[w]] THEN "exit"
                             ELSE IF done[w] + 1 < EachNum[w] THEN "next"
                             ELSE "check"]
  /\ UNCHANGED <<serviceVars, queueVars, sleepVars, cur, senderVars>>

(* OnExit returns with the Lua state closed; processMsgs breaks out. *)
OnExit(w) ==
  /\ pc[w] = "exit"
  /\ sendPc[w] = "none"
  /\ exited' = exited \cup {cur[w]}
  /\ pc' = [pc EXCEPT ![w] = "check"]
  /\ UNCHANGED <<services, isExiting, queueVars, sleepVars, cur, done, senderVars>>

-----------------------------------------------------------------------------
(* Worker::CheckAndPutGlobal.                                              *)

(* The worker goes on with the next service, counting its messages anew. *)
LetGo(w) ==
  /\ pc' = [pc EXCEPT ![w] = "pop"]
  /\ cur' = [cur EXCEPT ![w] = NoService]
  /\ done' = [done EXCEPT ![w] = 0]

(* An exiting service is not put back, and its inGlobal stays TRUE. *)
DropExiting(w) ==
  /\ pc[w] = "check"
  /\ isExiting[cur[w]]
  /\ LetGo(w)
  /\ UNCHANGED <<serviceVars, queueVars, sleepVars, senderVars>>

(* Slip: the queue is examined without keeping queueLock. *)
CheckQueueUnlockedSlip(w) ==
  /\ pc[w] = "check"
  /\ ~isExiting[cur[w]]
  /\ queueLock[cur[w]] = NoThread
  /\ pc' = [pc EXCEPT ![w] = IF msgQueue[cur[w]] = <<>> THEN "clear" ELSE "put"]
  /\ UNCHANGED <<serviceVars, queueVars, sleepVars, cur, done, senderVars>>

CheckQueue(w) ==
  /\ pc[w] = "check"
  /\ ~isExiting[cur[w]]
  /\ queueLock[cur[w]] = NoThread
  /\ queueLock' = [queueLock EXCEPT ![cur[w]] = w]
  /\ pc' = [pc EXCEPT ![w] = IF msgQueue[cur[w]] = <<>> THEN "clear" ELSE "put"]
  /\ UNCHANGED <<serviceVars, msgQueue, inGlobal, inGlobalLock, globalQueue,
                 sleepVars, cur, done, senderVars>>

(* Slip: the flag is cleared although the service is queued again. *)
PutGlobalSlip(w) ==
  /\ pc[w] = "put"
  /\ globalQueue' = Append(globalQueue, cur[w])
  /\ inGlobal' = [inGlobal EXCEPT ![cur[w]] = FALSE]
  /\ queueLock' = [queueLock EXCEPT ![cur[w]] = NoThread]
  /\ LetGo(w)
  /\ UNCHANGED <<serviceVars, msgQueue, inGlobalLock, sleepVars, senderVars>>

PutGlobal(w) ==
  /\ pc[w] = "put"
  /\ globalQueue' = Append(globalQueue, cur[w])
  /\ queueLock' = [queueLock EXCEPT ![cur[w]] = NoThread]
  /\ LetGo(w)
  /\ UNCHANGED <<serviceVars, msgQueue, inGlobal, inGlobalLock, sleepVars,
                 senderVars>>

(* Slip: the idle service keeps the flag that says it is queued. *)
ClearInGlobalSlip(w) ==
  /\ pc[w] = "clear"
  /\ inGlobalLock[cur[w]] = NoThread
  /\ queueLock' = [queueLock EXCEPT ![cur[w]] = NoThread]
  /\ LetGo(w)
  /\ UNCHANGED <<serviceVars, msgQueue, inGlobal, inGlobalLock, globalQueue,
                 sleepVars, senderVars>>

(* SetInGlobal(false), with queueLock still held. *)
ClearInGlobal(w) ==
  /\ pc[w] = "clear"
  /\ inGlobalLock[cur[w]] = NoThread
  /\ inGlobal' = [inGlobal EXCEPT ![cur[w]] = FALSE]
  /\ queueLock' = [queueLock EXCEPT ![cur[w]] = NoThread]
  /\ LetGo(w)
  /\ UNCHANGED <<serviceVars, msgQueue, inGlobalLock, globalQueue, sleepVars,
                 senderVars>>

-----------------------------------------------------------------------------
(* What a thread does next inside Send, and a worker inside its loop: the  *)
(* steps the operating system eventually lets a runnable thread take, and  *)
(* the return of a handler.                                                *)
SendStep(t) ==
  PushMsg(t) \/ SendCheck(t) \/ SendMark(t) \/ WakeCount(t) \/ WakeSignal(t)

WorkerStep(w) ==
  \/ PopGlobalQueue(w) \/ WaitEnter(w) \/ WaitSleep(w) \/ WaitLeave(w)
  \/ PopMsg(w) \/ KillErase(w) \/ EndMsg(w) \/ OnExit(w)
  \/ DropExiting(w) \/ CheckQueue(w) \/ PutGlobal(w) \/ ClearInGlobal(w)

Next ==
  \/ \E t \in Threads : SendStep(t) \/ \E s \in Services : SendLookup(t, s)
  \/ \E w \in Workers : WorkerStep(w) \/ SpuriousWake(w) \/ KillService(w)

Spec == Init /\ [][Next]_vars

Fairness ==
  /\ \A t \in Threads : WF_vars(SendStep(t))
  /\ \A w \in Workers : WF_vars(WorkerStep(w))

FairSpec == Spec /\ Fairness

-----------------------------------------------------------------------------
(* Type invariant. *)
WorkerSteps == {"pop", "lock", "wait", "asleep", "woken", "next", "handler",
                "erase", "exit", "check", "put", "clear"}

SendSteps == {"none", "push", "check", "mark", "count", "signal"}

ServiceTypes ==
  /\ services \subseteq Services
  /\ isExiting \in [Services -> BOOLEAN]
  /\ exited \subseteq Services

QueueTypes ==
  /\ msgQueue \in [Services -> Seq(Messages)]
  /\ queueLock \in [Services -> Workers \cup {NoThread}]
  /\ inGlobal \in [Services -> BOOLEAN]
  /\ inGlobalLock \in [Services -> Threads \cup {NoThread}]
  /\ globalQueue \in Seq(Services)

SleepTypes ==
  /\ sleepMtx \in Workers \cup {NoThread}
  /\ sleepCount \in 0 .. Cardinality(Workers)

WorkerTypes ==
  /\ pc \in [Workers -> WorkerSteps]
  /\ cur \in [Workers -> Services \cup {NoService}]
  /\ done \in [Workers -> Nat]

SenderTypes ==
  /\ sendPc \in [Threads -> SendSteps]
  /\ to \in [Threads -> Services \cup {NoService}]
  /\ sent \in [Threads -> Nat]
  /\ seen \in [Threads -> 0 .. Cardinality(Workers)]
  /\ \A t \in Threads : sent[t] <= MaxSends[t]
  /\ \A t \in Threads : sendPc[t] # "none" => sent[t] > 0 /\ to[t] \in Services

TypeOK == ServiceTypes /\ QueueTypes /\ SleepTypes /\ WorkerTypes /\ SenderTypes

-----------------------------------------------------------------------------
(* Safety. *)
Queued(s) == \E i \in 1 .. Len(globalQueue) : globalQueue[i] = s

Held(s) == \E w \in Workers : cur[w] = s

Scheduled(s) == Queued(s) \/ Held(s)

(* A service is in one place at most: once in the global queue, or in the  *)
(* hands of one worker.  inGlobal is set after the push and cleared after  *)
(* the queue is found empty, so nothing in Send or CheckAndPutGlobal says  *)
(* so directly; two workers in one Lua state is what it prevents.          *)
OnePlaceAtMost ==
  /\ \A i, j \in 1 .. Len(globalQueue) :
       globalQueue[i] = globalQueue[j] => i = j
  /\ \A v, w \in Workers : cur[v] = cur[w] /\ cur[v] # NoService => v = w
  /\ \A s \in Services : ~(Queued(s) /\ Held(s))

(* A message in the queue of a live service has somebody to act on it: the *)
(* service is queued, or a worker has it, or the sender has still to look  *)
(* at inGlobal.  What it excludes is a worker that clears inGlobal after a *)
(* sender saw it set.                                                      *)
NoStrandedMessage ==
  \A s \in services :
    msgQueue[s] # <<>> =>
      \/ Scheduled(s)
      \/ \E t \in Threads : sendPc[t] = "check" /\ to[t] = s

(* Nothing runs on a closed Lua state: once OnExit has returned no worker  *)
(* can get the service again, although senders that looked it up before    *)
(* the kill still push messages to it and test its inGlobal.               *)
NothingRunsAfterExit ==
  \A s \in exited :
    /\ ~Queued(s)
    /\ \A w \in Workers : cur[w] = s => pc[w] = "check"

(* sleepCount is the number of workers inside WorkerWait, whatever mix of  *)
(* signals and spurious wake-ups brings them out.                          *)
InWait(w) == pc[w] \in {"wait", "asleep", "woken"}

SleepCountExact == sleepCount = Cardinality({w \in Workers : InWait(w)})

-----------------------------------------------------------------------------
(* The scheduler implements the mailboxes of the module Mailbox. *)
Box == INSTANCE Mailbox WITH
  mailbox <- msgQueue,
  busy <- {s \in Services : \E w \in Workers :
             cur[w] = s /\ pc[w] \in {"handler", "erase", "exit"}},
  dying <- {s \in Services : isExiting[s]},
  dead <- exited

(* To a service author the scheduler is a set of mailboxes: one handler at *)
(* a time per service, messages in the order of arrival, each handled      *)
(* once, OnExit once and last.                                             *)
ImplementsMailboxes == Box!BoxSpec

-----------------------------------------------------------------------------
(* Liveness. *)
AllAsleep == \A w \in Workers : pc[w] = "asleep"

(* Work is queued and nobody is awake to take it: WorkerWait tests the     *)
(* queue before it takes sleepMtx, so a push in between is not signalled.  *)
Stuck == globalQueue # <<>> /\ AllAsleep

(* A message is handled unless the pool gets stuck: each service that has  *)
(* messages loses the first of them, exits, or all the workers sleep.      *)
Drained(s) == Len(msgQueue[s]) = 0 \/ isExiting[s]

MessagesAreHandled ==
  \A s \in Services : msgQueue[s] # <<>> ~> Drained(s) \/ Stuck

(* A Send that queues a service when every worker is asleep wakes one.     *)
PushWakesPool ==
  \A t \in Threads :
    sendPc[t] = "count" /\ Stuck ~> ~Stuck

(* Send never blocks: it takes inGlobalLock and then globalLock,           *)
(* CheckAndPutGlobal queueLock and then either of them, and no thread ever *)
(* holds what another needs to release.                                    *)
SendReturns ==
  \A t \in Threads : sendPc[t] # "none" ~> sendPc[t] = "none"

(* What the comments of checkAndWeakUp and WorkerWait say of a wake-up     *)
(* that got lost: a later Send makes up for it.                            *)
LaterSendWakes ==
  \A t \in Threads : sendPc[t] = "push" /\ Stuck ~> ~Stuck

-----------------------------------------------------------------------------
(***************************************************************************)
(* The inductive invariant.  OnePlaceAtMost is not inductive: whether a    *)
(* Send may queue a service is decided by inGlobal, which lags behind the  *)
(* queue at both ends.  The heart of IInv is FlagMeansScheduled, which     *)
(* says exactly how far it lags.                                           *)
(***************************************************************************)

(* A Send has queued the service and is about to set its inGlobal.         *)
Marking(s) == inGlobalLock[s] # NoThread

Serving == {"next", "handler", "erase", "exit", "check", "put", "clear"}

(* A worker has a service exactly while it processes messages. *)
ServingHasService ==
  \A w \in Workers : cur[w] # NoService <=> pc[w] \in Serving

(* inGlobalLock is held across a step by a Send between the push and the   *)
(* flag, and by nobody else; the flag is still down then.                  *)
InGlobalLockOwner ==
  \A s \in Services, t \in Threads :
    inGlobalLock[s] = t <=> sendPc[t] = "mark" /\ to[t] = s

MarkingIsUnflagged ==
  \A s \in Services : Marking(s) => ~inGlobal[s]

(* queueLock is held across a step by the worker that decides between      *)
(* putting a service back and clearing its flag.                           *)
QueueLockOwner ==
  \A s \in Services, w \in Workers :
    queueLock[s] = w <=> cur[w] = s /\ pc[w] \in {"put", "clear"}

(* The flag is up, or about to be, exactly for the services that somebody  *)
(* will process and those that nobody will ever process again.             *)
FlagMeansScheduled ==
  \A s \in Services :
    inGlobal[s] \/ Marking(s) <=> Scheduled(s) \/ isExiting[s]

(* The queue of a service cannot fill up between the test and the clearing *)
(* of the flag.                                                            *)
ClearingIsEmpty ==
  \A w \in Workers : pc[w] = "clear" => msgQueue[cur[w]] = <<>>

(* A live service with messages is scheduled or about to be looked at. *)
NotForgotten ==
  \A s \in Services :
    msgQueue[s] # <<>> /\ ~isExiting[s] =>
      \/ Scheduled(s)
      \/ \E t \in Threads : sendPc[t] = "check" /\ to[t] = s

(* How far the kill of a service has got. *)
ExitProgress ==
  /\ \A w \in Workers :
       /\ pc[w] \in {"next", "put", "clear"} => ~isExiting[cur[w]]
       /\ pc[w] \in {"erase", "exit"} => isExiting[cur[w]]
  /\ \A s \in Services : isExiting[s] => ~Queued(s)
  /\ \A s \in services : isExiting[s] =>
       \E w \in Workers : cur[w] = s /\ pc[w] = "erase"
  /\ \A s \in exited :
       /\ isExiting[s]
       /\ \A w \in Workers : cur[w] = s => pc[w] = "check"

IInv ==
  /\ TypeOK
  /\ SleepCountExact
  /\ OnePlaceAtMost
  /\ ServingHasService
  /\ InGlobalLockOwner
  /\ MarkingIsUnflagged
  /\ QueueLockOwner
  /\ FlagMeansScheduled
  /\ ClearingIsEmpty
  /\ NotForgotten
  /\ ExitProgress
=============================================================================
