--------------------------------- MODULE Rpc ---------------------------------
(***************************************************************************)
(* Coroutines and sessions: how a handler written in Lua sleeps, calls     *)
(* another service and waits for its answer (the coroutine half of         *)
(* src/Service.cpp and the blocking half of src/LuaApi.cpp).               *)
(*                                                                         *)
(* The services are mailboxes, as the module Mailbox describes them, and   *)
(* Timer is an alarm clock.  One thread at a time is in a service, so the  *)
(* tables of a service change in steps of its own only: a step is the      *)
(* start of a handler, one call of the Lua API, or the end of a coroutine. *)
(*                                                                         *)
(* Handlers are arbitrary Lua whose coroutines are made by the service and *)
(* by sunnet.Fork and yield only through sunnet.Sleep and sunnet.Call.     *)
(* Calls of the API that raise an error and change nothing are no steps.   *)
(*                                                                         *)
(* Each time a coroutine is entered into sessionCoRefs the entry gets a    *)
(* serial number that is never used again.  The program does not have it:  *)
(* it says which suspension an answer is meant for, where the program has  *)
(* only the session.                                                       *)
(*                                                                         *)
(* Sleep and Call enter the coroutine before they yield, and lua_yield     *)
(* raises an error when there is a C call between it and the resume, as in *)
(* a comparison function of table.sort.  The entry stays, and the          *)
(* coroutine runs on or dies of the error.                                 *)
(*                                                                         *)
(* A definition whose name ends in Slip is the one after it with a         *)
(* plausible programming slip; no specification uses it.                   *)
(***************************************************************************)
EXTENDS Integers, Sequences, FiniteSets

CONSTANTS
  Services,     \* the services
  Coroutines,   \* the Lua threads a service can have at a time
  MaxSession,   \* the largest session; 2^32 - 1 in the code
  HalfRange,    \* half the range of uint32_t; 2^31 in the code
  Naps,         \* the arguments of sunnet.Sleep
  MaxYields,    \* bound on the calls and sleeps, failed calls included
  MaxSends,     \* bound on the plain messages
  MaxDepth,     \* bound on the coroutines that run inside each other
  NoService     \* the source of a message whose source does not matter

ASSUME RpcAssumption ==
  /\ IsFiniteSet(Coroutines)
  /\ MaxSession \in Nat \ {0}
  /\ HalfRange \in Nat \ {0}
  /\ Naps \subseteq Int
  /\ MaxYields \in Nat
  /\ MaxSends \in Nat
  /\ MaxDepth \in Nat \ {0}
  /\ NoService \notin Services

VARIABLES
  exiting,      \* the services that killed themselves
  mailbox,      \* the messages a service has yet to handle
  stack,        \* service -> the coroutines it runs, the outermost first
  nextSession,  \* Service::nextSession
  serial,       \* how many serial numbers were used
  sessionCoRefs,\* Service::sessionCoRefs: session -> coroutine to resume
  coRpcContexts,\* Service::coRpcContexts: coroutine -> the CALL it handles
  asleep,       \* coroutine -> the serial number it yielded under, 0 if it
                \* has not: the status LUA_YIELD of the Lua thread
  raised,       \* history: the coroutines in sessionCoRefs of which a yield
                \* raised since they are there
  timers,       \* what was handed to Sunnet::Timeout and has not expired
  dropped,      \* the calls whose handler ended without an answer
  sends         \* how many plain messages were sent

serviceVars == <<exiting, mailbox, sends>>
tableVars == <<nextSession, serial, sessionCoRefs, coRpcContexts>>
threadVars == <<stack, asleep, raised>>
vars == <<serviceVars, threadVars, tableVars, timers, dropped>>

EmptyTable == [x \in {} |-> x]

Init ==
  /\ exiting = {}
  /\ mailbox = [s \in Services |-> <<>>]
  /\ stack = [s \in Services |-> <<>>]
  /\ nextSession = [s \in Services |-> 1]
  /\ serial = 0
  /\ sessionCoRefs = [s \in Services |-> EmptyTable]
  /\ coRpcContexts = [s \in Services |-> EmptyTable]
  /\ asleep = [s \in Services |-> [co \in Coroutines |-> 0]]
  /\ raised = [s \in Services |-> {}]
  /\ timers = {}
  /\ dropped = {}
  /\ sends = 0

-----------------------------------------------------------------------------
Put(table, key, value) ==
  [k \in DOMAIN table \cup {key} |-> IF k = key THEN value ELSE table[k]]

Erase(table, key) == [k \in DOMAIN table \ {key} |-> table[k]]

Message(kind, source, session, id) ==
  [kind |-> kind, source |-> source, session |-> session, id |-> id]

(* Sunnet::Send finds its target in the service table, or fails. *)
Reachable(s) == s \notin exiting

Post(s, m) == mailbox' = [mailbox EXCEPT ![s] = Append(@, m)]

Top(s) == stack[s][Len(stack[s])]

Pop(s) == stack' = [stack EXCEPT ![s] = SubSeq(@, 1, Len(@) - 1)]

Running(s) == {stack[s][i] : i \in 1 .. Len(stack[s])}

Referred(s) ==
  {sessionCoRefs[s][n].co : n \in DOMAIN sessionCoRefs[s]}

(* lua_newthread: any that is not referred to, the memory of a dead one    *)
(* included.                                                               *)
Unused(s) == Coroutines \ (Running(s) \cup Referred(s))

(* A coroutine that starts. *)
Start(s, co, running) ==
  /\ co \in Unused(s)
  /\ stack' = [stack EXCEPT ![s] = running]
  /\ UNCHANGED <<asleep, raised>>

-----------------------------------------------------------------------------
(* Messages reach a service.                                               *)

(* A plain message: sunnet.Send of some handler, or the socket thread. *)
Send(s) ==
  /\ sends < MaxSends
  /\ Reachable(s)
  /\ sends' = sends + 1
  /\ Post(s, Message("SEND", NoService, 0, 0))
  /\ UNCHANGED <<exiting, threadVars, tableVars, timers, dropped>>

(* TimerWorker sends the message of a timer that expired; a service that   *)
(* is gone does not get it.                                                *)
TimerExpires(t) ==
  /\ t \in timers
  /\ timers' = timers \ {t}
  /\ IF Reachable(t.service)
     THEN Post(t.service, Message("TIMER", NoService, t.session, t.id))
     ELSE UNCHANGED mailbox
  /\ UNCHANGED <<exiting, sends, threadVars, tableVars, dropped>>

-----------------------------------------------------------------------------
(* Service::OnMsg.                                                         *)

Handles(s, kinds) ==
  /\ stack[s] = <<>>
  /\ s \notin exiting
  /\ mailbox[s] # <<>>
  /\ Head(mailbox[s]).kind \in kinds

TakeMessage(s) == mailbox' = [mailbox EXCEPT ![s] = Tail(@)]

(* OnServiceMsg, OnAcceptMsg: StartCallbackCoroutine without a context. *)
OnSend(s, co) ==
  /\ Handles(s, {"SEND"})
  /\ TakeMessage(s)
  /\ Start(s, co, <<co>>)
  /\ UNCHANGED <<exiting, sends, tableVars, timers, dropped>>

(* OnServiceMsg: a request, whose context the new coroutine gets. *)
OnCall(s, co) ==
  /\ Handles(s, {"CALL"})
  /\ TakeMessage(s)
  /\ Start(s, co, <<co>>)
  /\ LET m == Head(mailbox[s])
     IN coRpcContexts' = [coRpcContexts EXCEPT ![s] =
          Put(@, co, [source |-> m.source, session |-> m.session,
                      reted |-> FALSE, id |-> m.id])]
  /\ UNCHANGED <<exiting, sends, nextSession, serial, sessionCoRefs, timers,
                 dropped>>

(* ResumeCoroutineRef: the coroutine goes on, wherever it has yielded.     *)
(* One that has ended meanwhile cannot, unless it has returned a function: *)
(* lua_resume calls that.                                                  *)
Resume(s, co) ==
  /\ \/ /\ stack' = [stack EXCEPT ![s] = <<co>>]
        /\ asleep' = [asleep EXCEPT ![s][co] = 0]
        /\ UNCHANGED coRpcContexts
     \/ /\ asleep[s][co] = 0
        /\ coRpcContexts' = [coRpcContexts EXCEPT ![s] = Erase(@, co)]
        /\ UNCHANGED <<stack, asleep>>
  /\ raised' = [raised EXCEPT ![s] = @ \cap Referred(s)']

(* OnRetMsg and OnTimerMsg: the session leads to the coroutine that is     *)
(* resumed; a session that is not in the table is dropped.                 *)
OnWakeUp(s) ==
  /\ Handles(s, {"RET", "TIMER"})
  /\ TakeMessage(s)
  /\ LET n == Head(mailbox[s]).session
     IN IF n \in DOMAIN sessionCoRefs[s]
        THEN /\ sessionCoRefs' = [sessionCoRefs EXCEPT ![s] = Erase(@, n)]
             /\ Resume(s, sessionCoRefs[s][n].co)
        ELSE UNCHANGED <<sessionCoRefs, threadVars, coRpcContexts>>
  /\ UNCHANGED <<exiting, sends, nextSession, serial, timers, dropped>>

-----------------------------------------------------------------------------
(* The Lua API, called by the innermost coroutine.                         *)

(* NewSession: 0 is skipped when the counter wraps round. *)
NewSession(s) ==
  nextSession' = [nextSession EXCEPT ![s] = IF @ = MaxSession THEN 1 ELSE @ + 1]

MayYield(s) ==
  /\ stack[s] # <<>>
  /\ serial < MaxYields

NewId == serial + 1

Register(s, why) ==
  sessionCoRefs' = [sessionCoRefs EXCEPT ![s] =
    Put(@, nextSession[s], [co |-> Top(s), id |-> NewId, why |-> why])]

(* lua_yield, the last thing Call and Sleep do: it suspends the coroutine, *)
(* or raises an error in it.                                               *)
Yield(s) ==
  \/ /\ Pop(s)
     /\ asleep' = [asleep EXCEPT ![s][Top(s)] = NewId]
     /\ UNCHANGED raised
  \/ /\ raised' = [raised EXCEPT ![s] = @ \cup {Top(s)}]
     /\ UNCHANGED <<stack, asleep>>

(* Slip: the suspension is recorded although nobody got the request. *)
CallFailsSlip(s, target) ==
  /\ MayYield(s)
  /\ ~Reachable(target)
  /\ NewSession(s)
  /\ serial' = NewId
  /\ Register(s, "call")
  /\ UNCHANGED <<serviceVars, threadVars, coRpcContexts, timers, dropped>>

(* sunnet.Call of a service that is gone: the suspension is taken back and *)
(* an error raised in the coroutine, which runs on.                        *)
CallFails(s, target) ==
  /\ MayYield(s)
  /\ ~Reachable(target)
  /\ NewSession(s)
  /\ serial' = NewId
  /\ sessionCoRefs' = [sessionCoRefs EXCEPT ![s] = Erase(@, nextSession[s])]
  /\ UNCHANGED <<serviceVars, threadVars, coRpcContexts, timers, dropped>>

(* sunnet.Call: the session is entered, the request sent. *)
Call(s, target) ==
  /\ MayYield(s)
  /\ Reachable(target)
  /\ NewSession(s)
  /\ serial' = NewId
  /\ Register(s, "call")
  /\ Post(target, Message("CALL", s, nextSession[s], NewId))
  /\ Yield(s)
  /\ UNCHANGED <<exiting, sends, coRpcContexts, timers, dropped>>

(* The argument as uint32_t, and that as the int of SleepCurrentCoroutine. *)
Unsigned(ms) == ms % (2 * HalfRange)

ToInt(ms) ==
  IF Unsigned(ms) < HalfRange THEN Unsigned(ms)
  ELSE Unsigned(ms) - 2 * HalfRange

(* What a sleep is for: one of half the range of uint32_t or more is long. *)
Why(ms) == IF Unsigned(ms) < HalfRange THEN "sleep" ELSE "long sleep"

SetTimer(s) ==
  timers' = timers \cup
    {[service |-> s, session |-> nextSession[s], id |-> NewId]}

(* Slip: no timer for a sleep of 0 ms. *)
SleepSlip(s, ms) ==
  /\ MayYield(s)
  /\ NewSession(s)
  /\ serial' = NewId
  /\ Register(s, Why(ms))
  /\ IF ToInt(ms) > 0 THEN SetTimer(s) ELSE UNCHANGED timers
  /\ Yield(s)
  /\ UNCHANGED <<serviceVars, coRpcContexts, dropped>>

(* sunnet.Sleep: a timer is set unless the int is negative. *)
Sleep(s, ms) ==
  /\ MayYield(s)
  /\ NewSession(s)
  /\ serial' = NewId
  /\ Register(s, Why(ms))
  /\ IF ToInt(ms) >= 0 THEN SetTimer(s) ELSE UNCHANGED timers
  /\ Yield(s)
  /\ UNCHANGED <<serviceVars, coRpcContexts, dropped>>

(* Slip: the answer goes to the own service, not to the caller. *)
RetSlip(s) ==
  /\ stack[s] # <<>>
  /\ Top(s) \in DOMAIN coRpcContexts[s]
  /\ LET ctx == coRpcContexts[s][Top(s)]
     IN /\ ~ctx.reted
        /\ Reachable(s)
        /\ Post(s, Message("RET", s, ctx.session, ctx.id))
        /\ coRpcContexts' = [coRpcContexts EXCEPT ![s][Top(s)].reted = TRUE]
  /\ UNCHANGED <<exiting, sends, threadVars, nextSession, serial,
                 sessionCoRefs, timers, dropped>>

(* sunnet.Ret: the first answer of the coroutine that handles a request.   *)
(* When the caller is gone it raises an error and changes nothing.         *)
Ret(s) ==
  /\ stack[s] # <<>>
  /\ Top(s) \in DOMAIN coRpcContexts[s]
  /\ LET ctx == coRpcContexts[s][Top(s)]
     IN /\ ~ctx.reted
        /\ Reachable(ctx.source)
        /\ Post(ctx.source, Message("RET", s, ctx.session, ctx.id))
        /\ coRpcContexts' = [coRpcContexts EXCEPT ![s][Top(s)].reted = TRUE]
  /\ UNCHANGED <<exiting, sends, threadVars, nextSession, serial,
                 sessionCoRefs, timers, dropped>>

(* sunnet.Fork: the new coroutine runs at once, inside the one that forks. *)
Fork(s, co) ==
  /\ Len(stack[s]) \in 1 .. MaxDepth - 1
  /\ Start(s, co, Append(stack[s], co))
  /\ UNCHANGED <<serviceVars, tableVars, timers, dropped>>

(* sunnet.KillService, which works on the own service only. *)
KillService(s) ==
  /\ stack[s] # <<>>
  /\ s \notin exiting
  /\ exiting' = exiting \cup {s}
  /\ UNCHANGED <<mailbox, sends, threadVars, tableVars, timers, dropped>>

(* The coroutine of StartCallbackCoroutine or ResumeCoroutineRef returns   *)
(* or fails, and with it its context goes.                                 *)
End(s) ==
  /\ Len(stack[s]) = 1
  /\ Pop(s)
  /\ coRpcContexts' = [coRpcContexts EXCEPT ![s] = Erase(@, Top(s))]
  /\ dropped' =
       IF Top(s) \in DOMAIN coRpcContexts[s] /\ ~coRpcContexts[s][Top(s)].reted
       THEN dropped \cup {coRpcContexts[s][Top(s)].id}
       ELSE dropped
  /\ UNCHANGED <<serviceVars, asleep, raised, nextSession, serial,
                 sessionCoRefs, timers>>

(* A forked coroutine returns to Fork, which leaves the contexts alone. *)
EndForked(s) ==
  /\ Len(stack[s]) > 1
  /\ Pop(s)
  /\ UNCHANGED <<serviceVars, asleep, raised, tableVars, timers, dropped>>

-----------------------------------------------------------------------------
Handle(s) ==
  OnWakeUp(s) \/ \E co \in Coroutines : OnSend(s, co) \/ OnCall(s, co)

UseApi(s) ==
  \/ Ret(s)
  \/ KillService(s)
  \/ \E target \in Services : CallFails(s, target) \/ Call(s, target)
  \/ \E ms \in Naps : Sleep(s, ms)
  \/ \E co \in Coroutines : Fork(s, co)

Next ==
  \/ \E t \in timers : TimerExpires(t)
  \/ \E s \in Services :
       Send(s) \/ Handle(s) \/ UseApi(s) \/ End(s) \/ EndForked(s)

Spec == Init /\ [][Next]_vars

(* Workers run the services, TimerWorker sends, and handlers return: one   *)
(* that goes on to fork for ever does not.                                 *)
Fairness ==
  /\ \A s \in Services : /\ WF_vars(Handle(s))
                         /\ WF_vars(EndForked(s)) /\ SF_vars(End(s))
  /\ WF_vars(\E t \in timers : TimerExpires(t))

FairSpec == Spec /\ Fairness

-----------------------------------------------------------------------------
(* Type invariant. *)
Sessions == 1 .. MaxSession

Contexts == [source : Services, session : Sessions, reted : BOOLEAN,
             id : 1 .. MaxYields]

Reasons == {"call", "sleep", "long sleep"}

Suspensions == [co : Coroutines, id : 1 .. MaxYields, why : Reasons]

Tables(keys, values) == UNION {[some -> values] : some \in SUBSET keys}

Messages ==
  [kind : {"SEND"}, source : {NoService}, session : {0}, id : {0}]
    \cup [kind : {"TIMER"}, source : {NoService}, session : Sessions,
          id : 1 .. MaxYields]
    \cup [kind : {"CALL", "RET"}, source : Services, session : Sessions,
          id : 1 .. MaxYields]

TypeOK ==
  /\ exiting \subseteq Services
  /\ mailbox \in [Services -> Seq(Messages)]
  /\ stack \in [Services -> Seq(Coroutines)]
  /\ nextSession \in [Services -> Sessions]
  /\ serial \in 0 .. MaxYields
  /\ sessionCoRefs \in [Services -> Tables(Sessions, Suspensions)]
  /\ coRpcContexts \in [Services -> Tables(Coroutines, Contexts)]
  /\ asleep \in [Services -> [Coroutines -> 0 .. MaxYields]]
  /\ raised \in [Services -> SUBSET Coroutines]
  /\ timers \subseteq [service : Services, session : Sessions,
                       id : 1 .. MaxYields]
  /\ dropped \subseteq 1 .. MaxYields
  /\ sends \in 0 .. MaxSends

-----------------------------------------------------------------------------
(* Safety.                                                                 *)

(* The messages in the mailbox of s. *)
InBox(s) == {mailbox[s][i] : i \in 1 .. Len(mailbox[s])}

(* A wake-up that arrives, answer or timeout, finds the coroutine it is    *)
(* meant for, not another that has the same session or none, as after a    *)
(* second answer to one call; and that coroutine still waits for it, if no *)
(* yield of it has raised.                                                 *)
WakeUpsFindTheirSleeper ==
  \A s \in Services \ exiting :
    \A m \in InBox(s) :
      m.kind \in {"RET", "TIMER"} =>
        /\ m.session \in DOMAIN sessionCoRefs[s]
        /\ LET e == sessionCoRefs[s][m.session]
           IN /\ e.id = m.id
              /\ e.co \in raised[s] \/ asleep[s][e.co] = m.id

(* The messages of one kind about the suspension with serial number id. *)
About(kind, id) ==
  UNION {{<<kind, s, i>> : i \in {i \in 1 .. Len(mailbox[s]) :
            mailbox[s][i].kind = kind /\ mailbox[s][i].id = id}} :
         s \in Services}

(* The handlers that may still answer the call with that number. *)
Handlers(id) ==
  UNION {{<<"handler", s, co>> : co \in {co \in DOMAIN coRpcContexts[s] :
            coRpcContexts[s][co].id = id /\ ~coRpcContexts[s][co].reted}} :
         s \in Services}

(* Where its wake-up is now. *)
Trail(id) ==
  {<<"timer", t>> : t \in {t \in timers : t.id = id}}
    \cup About("TIMER", id) \cup About("CALL", id) \cup About("RET", id)
    \cup Handlers(id)
    \cup {<<"dropped", d>> : d \in dropped \cap {id}}

(* An entry of a live service is waited for by exactly one thing: its      *)
(* timer, its timeout, its request, the handler of the request, the        *)
(* answer, or, if that handler ended without one, nothing ever.  For a     *)
(* long sleep there is none: no timer was set.                             *)
OneTrail ==
  \A s \in Services \ exiting :
    \A n \in DOMAIN sessionCoRefs[s] :
      Cardinality(Trail(sessionCoRefs[s][n].id))
        = IF sessionCoRefs[s][n].why = "long sleep" THEN 0 ELSE 1

(* A coroutine that has yielded is not running and is in the table under   *)
(* the number it yielded under, so that it can be resumed; one of which no *)
(* yield has raised is there only so.  And a context belongs to a          *)
(* coroutine that can still answer, never to memory that lua_newthread may *)
(* give to another.                                                        *)
CoroutinesInOnePlace ==
  \A s \in Services :
    /\ \A i, j \in 1 .. Len(stack[s]) : stack[s][i] = stack[s][j] => i = j
    /\ \A co \in Running(s) : asleep[s][co] = 0
    /\ \A co \in Coroutines : asleep[s][co] # 0 =>
         \E n \in DOMAIN sessionCoRefs[s] :
           /\ sessionCoRefs[s][n].co = co
           /\ sessionCoRefs[s][n].id = asleep[s][co]
    /\ \A n \in DOMAIN sessionCoRefs[s] :
         \/ sessionCoRefs[s][n].co \in raised[s]
         \/ asleep[s][sessionCoRefs[s][n].co] = sessionCoRefs[s][n].id
    /\ \A co \in DOMAIN coRpcContexts[s] :
         co \in Running(s) \/ asleep[s][co] # 0

(* All of them: what a wake-up, a session and a coroutine may rely on.     *)
Inv == TypeOK /\ WakeUpsFindTheirSleeper /\ OneTrail /\ CoroutinesInOnePlace

-----------------------------------------------------------------------------
(* What holds besides, so that those hold after every step, as long as the *)
(* sessions of a service have not wrapped round.                           *)

(* The session that comes next is not in use.  The serial number bounds    *)
(* how far a service has counted.                                          *)
SessionsAreNew ==
  serial < MaxSession =>
    \A s \in Services :
      /\ nextSession[s] <= serial + 1
      /\ \A n \in DOMAIN sessionCoRefs[s] : n < nextSession[s]

(* A serial number stands for one suspension. *)
IdsAreUnique ==
  \A s, r \in Services :
    \A m \in DOMAIN sessionCoRefs[s], n \in DOMAIN sessionCoRefs[r] :
      /\ sessionCoRefs[s][m].id <= serial
      /\ sessionCoRefs[s][m].id = sessionCoRefs[r][n].id => s = r /\ m = n

(* Under session n of service s a suspension with that number waits.       *)
Sleeper(s, n, id) == n \in DOMAIN sessionCoRefs[s] /\ sessionCoRefs[s][n].id = id

(* Message i of s is one of a suspension with that number, and a handler   *)
(* of r may answer a call with that number.                                *)
Mail(s, i, id) ==
  i \in 1 .. Len(mailbox[s]) /\ mailbox[s][i].kind # "SEND" /\ mailbox[s][i].id = id

Handler(s, co, id) ==
  /\ co \in DOMAIN coRpcContexts[s]
  /\ ~coRpcContexts[s][co].reted /\ coRpcContexts[s][co].id = id

(* Everything that leads to a wake-up leads to its sleeper, in a service   *)
(* that has exited too.                                                    *)
WakeUpsLead ==
  /\ \A t \in timers : Sleeper(t.service, t.session, t.id)
  /\ \A s \in Services : \A i \in 1 .. Len(mailbox[s]) :
       LET m == mailbox[s][i] IN
         m.kind # "SEND" => Sleeper(IF m.kind = "CALL" THEN m.source ELSE s, m.session, m.id)
  /\ \A s \in Services : \A co \in DOMAIN coRpcContexts[s] :
       LET ctx == coRpcContexts[s][co] IN
         ~ctx.reted => Sleeper(ctx.source, ctx.session, ctx.id)
  /\ \A id \in dropped : id <= serial

(* And there is only one such thing for each suspension, in one place. *)
OneWakeUp ==
  /\ \A t, u \in timers : t.id = u.id => t = u
  /\ \A s, r \in Services : \A i \in 1 .. Len(mailbox[s]), j \in 1 .. Len(mailbox[r]) :
       \A id \in 1 .. MaxYields : Mail(s, i, id) /\ Mail(r, j, id) => s = r /\ i = j
  /\ \A s, r \in Services : \A co \in DOMAIN coRpcContexts[s], k \in DOMAIN coRpcContexts[r] :
       \A id \in 1 .. MaxYields : Handler(s, co, id) /\ Handler(r, k, id) => s = r /\ co = k
  /\ \A t \in timers : t.id \notin dropped
  /\ \A s \in Services, id \in 1 .. MaxYields :
       /\ \A i \in 1 .. Len(mailbox[s]) : Mail(s, i, id) =>
            /\ id \notin dropped /\ \A t \in timers : t.id # id
            /\ \A r \in Services : \A co \in DOMAIN coRpcContexts[r] : ~Handler(r, co, id)
       /\ \A co \in DOMAIN coRpcContexts[s] : Handler(s, co, id) =>
            id \notin dropped /\ \A t \in timers : t.id # id

(* Something leads to the wake-up with that number, or the call is dropped. *)
IsAwaited(id) ==
  \/ \E t \in timers : t.id = id
  \/ \E r \in Services : \/ \E i \in 1 .. Len(mailbox[r]) : Mail(r, i, id)
                         \/ \E co \in DOMAIN coRpcContexts[r] : Handler(r, co, id)
  \/ id \in dropped

(* An entry of a live service is waited for, one of a long sleep by none. *)
SleepersAreAwaited ==
  \A s \in Services : \A n \in DOMAIN sessionCoRefs[s] :
    IF sessionCoRefs[s][n].why = "long sleep" THEN ~IsAwaited(sessionCoRefs[s][n].id)
    ELSE s \notin exiting => IsAwaited(sessionCoRefs[s][n].id)

(* A coroutine that runs and has a context is the one that OnMsg started   *)
(* or resumed: one that is forked has none.                                *)
ContextsAreOutermost ==
  \A s \in Services : \A co \in DOMAIN coRpcContexts[s] :
    co \in Running(s) => stack[s] # <<>> /\ co = stack[s][1]

IInv ==
  /\ Inv
  /\ SessionsAreNew /\ IdsAreUnique /\ WakeUpsLead /\ OneWakeUp /\ SleepersAreAwaited
  /\ ContextsAreOutermost

-----------------------------------------------------------------------------
(* Liveness. *)
Ids == 1 .. MaxYields

(* A coroutine of s has yielded under that number. *)
Waits(s, id, why) ==
  \E n \in DOMAIN sessionCoRefs[s] :
    /\ sessionCoRefs[s][n].id = id /\ sessionCoRefs[s][n].why = why
    /\ asleep[s][sessionCoRefs[s][n].co] = id

(* What sunnet.Sleep promises, of sleeps below half the range of uint32_t: *)
(* the coroutine is resumed, unless its service exits.                     *)
SleepsEnd ==
  \A s \in Services, id \in Ids :
    Waits(s, id, "sleep") ~> ~Waits(s, id, "sleep") \/ s \in exiting

(* The request is with a service that has exited, or its handler has ended *)
(* without an answer, or waits itself for a call or in a long sleep.       *)
Hopeless(id) ==
  \/ id \in dropped
  \/ \E r \in exiting :
       \/ \E m \in InBox(r) : m.kind = "CALL" /\ m.id = id
       \/ \E co \in DOMAIN coRpcContexts[r] : coRpcContexts[r][co].id = id
  \/ \E r \in Services : \E n \in DOMAIN sessionCoRefs[r] :
       /\ sessionCoRefs[r][n].why # "sleep"
       /\ asleep[r][sessionCoRefs[r][n].co] = sessionCoRefs[r][n].id
       /\ sessionCoRefs[r][n].co \in DOMAIN coRpcContexts[r]
       /\ coRpcContexts[r][sessionCoRefs[r][n].co].id = id

(* A call ends, unless its service exits or it is hopeless: nothing else   *)
(* keeps a request or an answer.                                           *)
CallsEnd ==
  \A s \in Services, id \in Ids :
    Waits(s, id, "call")
      ~> ~Waits(s, id, "call") \/ s \in exiting \/ Hopeless(id)

-----------------------------------------------------------------------------
(* Coroutines that are not used differ in nothing but their names, so it   *)
(* is enough that the run lets lua_newthread return the first of them.     *)
FirstUnused ==
  \A s \in Services : \A co \in Running(s)' \ Running(s) :
    co \in Unused(s) => \A k \in Unused(s) : co <= k
=============================================================================
