---------------------------- MODULE Registry_proofs ----------------------------
(***************************************************************************)
(* The service table and the names agree, for any number of threads,       *)
(* services and names.                                                     *)
(***************************************************************************)
EXTENDS Registry, TLAPS

USE RegistryAssumption DEF Ids, Threads

Frames == [service : Ids, at : {"boot", "init", "failed", "handler", "exit"}]

-----------------------------------------------------------------------------
(* What a thread runs. *)

(* The innermost frame of a thread that is not idle. *)
LEMMA TopType ==
  ASSUME TypeOK, NEW t \in Threads, ~Idle(t)
  PROVE  /\ Len(frames[t]) \in Nat \ {0} /\ frames[t] \in Seq(Frames)
         /\ Top(t) \in Frames /\ Top(t).service \in Ids
         /\ Top(t).at \in {"boot", "init", "failed", "handler", "exit"}
<1>1. frames[t] \in Seq(Frames) /\ frames[t] # <<>>
  BY DEF TypeOK, Idle, Frames
<1>2. Len(frames[t]) \in 1 .. Len(frames[t])
  BY <1>1
<1>3. Top(t) \in Frames
  BY <1>1, <1>2 DEF Top
<1> QED
  BY <1>1, <1>2, <1>3 DEF Frames

(* A new frame comes on top of the others. *)
LEMMA PushFrame ==
  ASSUME TypeOK, NEW t \in Threads, NEW f \in Frames, Push(t, f)
  PROVE  /\ frames' \in [Threads -> Seq(Frames)]
         /\ \A u \in Threads \ {t} : frames'[u] = frames[u]
         /\ Len(frames'[t]) = Len(frames[t]) + 1
         /\ \A i \in 1 .. Len(frames[t]) : frames'[t][i] = frames[t][i]
         /\ frames'[t][Len(frames[t]) + 1] = f
<1>1. frames \in [Threads -> Seq(Frames)] /\ frames' = [frames EXCEPT ![t] = Append(@, f)]
  BY DEF TypeOK, Frames, Push
<1>2. frames[t] \in Seq(Frames)
  BY <1>1
<1>3. /\ Append(frames[t], f) \in Seq(Frames)
      /\ Len(Append(frames[t], f)) = Len(frames[t]) + 1
      /\ \A i \in 1 .. Len(frames[t]) : Append(frames[t], f)[i] = frames[t][i]
      /\ Append(frames[t], f)[Len(frames[t]) + 1] = f
  BY <1>2
<1> QED
  BY <1>1, <1>3

(* Without its innermost frame a thread goes on with the others. *)
LEMMA PopFrame ==
  ASSUME TypeOK, NEW t \in Threads, ~Idle(t), Pop(t)
  PROVE  /\ frames' \in [Threads -> Seq(Frames)]
         /\ \A u \in Threads \ {t} : frames'[u] = frames[u]
         /\ Len(frames'[t]) = Len(frames[t]) - 1
         /\ \A i \in 1 .. Len(frames'[t]) : frames'[t][i] = frames[t][i]
<1> DEFINE rest == SubSeq(frames[t], 1, Len(frames[t]) - 1)
<1>1. frames \in [Threads -> Seq(Frames)] /\ frames' = [frames EXCEPT ![t] = rest]
  BY DEF TypeOK, Frames, Pop
<1>2. frames[t] \in Seq(Frames) /\ Len(frames[t]) \in Nat \ {0}
  BY TopType
<1>3. /\ rest \in Seq(Frames) /\ Len(rest) = Len(frames[t]) - 1
      /\ \A i \in 1 .. Len(rest) : rest[i] = frames[t][i]
  BY <1>2
<1> QED
  BY <1>1, <1>3

(* Goto moves the innermost frame and no other. *)
LEMMA GotoFrame ==
  ASSUME TypeOK, NEW t \in Threads, ~Idle(t), NEW at, Goto(t, at),
         at \in {"boot", "init", "failed", "handler", "exit"}
  PROVE  /\ frames' \in [Threads -> Seq(Frames)]
         /\ \A u \in Threads \ {t} : frames'[u] = frames[u]
         /\ Len(frames'[t]) = Len(frames[t])
         /\ \A i \in 1 .. Len(frames[t]) - 1 : frames'[t][i] = frames[t][i]
         /\ frames'[t][Len(frames[t])] = Frame(Top(t).service, at)
<1> DEFINE n == Len(frames[t])
           moved == [frames[t] EXCEPT ![n] = [frames[t][n] EXCEPT !.at = at]]
<1>1. frames \in [Threads -> Seq(Frames)] /\ frames' = [frames EXCEPT ![t] = moved]
  BY DEF TypeOK, Frames, Goto
<1>2. frames[t] \in Seq(Frames) /\ n \in Nat \ {0} /\ Top(t) \in Frames
  BY TopType
<1>3. [frames[t][n] EXCEPT !.at = at] = Frame(Top(t).service, at)
  BY <1>2 DEF Frames, Top, Frame
<1>4. Frame(Top(t).service, at) \in Frames
  BY <1>2 DEF Frames, Frame
<1>5. /\ moved \in Seq(Frames) /\ Len(moved) = n
      /\ \A i \in 1 .. n - 1 : moved[i] = frames[t][i]
      /\ moved[n] = Frame(Top(t).service, at)
  BY <1>2, <1>3, <1>4
<1> QED
  BY <1>1, <1>5

-----------------------------------------------------------------------------
(* Types. *)

LEMMA InitInv == Init => IInv
<1> SUFFICES ASSUME Init PROVE IInv
  OBVIOUS
<1> USE DEF Init
<1>1. TypeOK
  BY DEF TypeOK, Calls
<1>2. NamedIsFound /\ KilledIsFound /\ KillersHandle /\ CreatedFirst
  BY DEF NamedIsFound, KilledIsFound, KillersHandle, CreatedFirst, InCall
<1>3. OneHandler
  BY DEF OneHandler, HandledBy
<1> QED
  BY <1>1, <1>2, <1>3 DEF IInv

(* The frames that a step leaves, one case for each way to change them. *)
LEMMA TypeStep == TypeOK /\ [Next]_vars => TypeOK'
<1> SUFFICES ASSUME TypeOK, [Next]_vars PROVE TypeOK'
  OBVIOUS
<1> USE DEF tableVars, serviceVars, At, InLua, InLuaAt, Return
<1>t. ASSUME NEW t \in Threads, ~Idle(t) PROVE Top(t).service \in Ids
  BY <1>t, TopType
<1>1. ASSUME NEW t \in Threads, NewService(t) PROVE TypeOK'
  <2>1. Frame(maxId, "boot") \in Frames
    BY <1>1 DEF NewService, TypeOK, Frame, Frames
  <2>2. frames' \in [Threads -> Seq(Frames)]
    BY <1>1, <2>1, PushFrame DEF NewService
  <2> QED
    <3>1. maxId' \in 0 .. MaxServices /\ services' \subseteq 0 .. maxId' - 1
      BY <1>1 DEF NewService, TypeOK
    <3> QED
      BY <1>1, <2>2, <3>1 DEF NewService, TypeOK, Frames
<1>2. ASSUME NEW t \in Threads, OpenLua(t) PROVE TypeOK'
  <2>1. frames' \in [Threads -> Seq(Frames)]
    BY <1>2, GotoFrame DEF OpenLua
  <2> QED
    BY <1>2, <2>1, <1>t DEF OpenLua, TypeOK, Frames, Calls
<1>3. ASSUME NEW t \in Threads, InitReturns(t) \/ EraseFailed(t) PROVE TypeOK'
  <2>1. frames' \in [Threads -> Seq(Frames)]
    BY <1>3, PopFrame DEF InitReturns, EraseFailed
  <2> QED
    BY <1>3, <2>1 DEF InitReturns, EraseFailed, TypeOK, Frames, Calls
<1>4. ASSUME NEW t \in Threads, InitFails(t) PROVE TypeOK'
  <2>1. frames' \in [Threads -> Seq(Frames)]
    BY <1>4, GotoFrame DEF InitFails
  <2> QED
    BY <1>4, <2>1, <1>t DEF InitFails, TypeOK, Frames, Calls
<1>5. ASSUME NEW t \in Threads, NEW s \in Ids, Send(t, s) PROVE TypeOK'
  BY <1>5 DEF Send, TypeOK, Calls
<1>6. ASSUME NEW t \in Threads, NEW s \in Ids, NEW n \in Names, NameLookup(t, s, n)
      PROVE  TypeOK'
  BY <1>6 DEF NameLookup, TypeOK, Calls
<1>7. ASSUME NEW t \in Threads, NameWrite(t) PROVE TypeOK'
  <2>1. call[t] \in [op : {"name"}, service : Ids, name : Names]
    BY <1>7 DEF NameWrite, InCall, TypeOK, Calls
  <2> QED
    <3>1. /\ DOMAIN names' \subseteq Names
          /\ \A n \in DOMAIN names' : names'[n] \in Ids
          /\ name' \in [Ids -> Names \cup {NoName}]
      <4>1. CASE call[t].name \in DOMAIN names
        BY <1>7, <4>1 DEF NameWrite, TypeOK
      <4>2. CASE call[t].name \notin DOMAIN names
        <5>1. /\ names' = [n \in DOMAIN names \cup {call[t].name} |->
                             IF n = call[t].name THEN call[t].service ELSE names[n]]
              /\ name' = [name EXCEPT ![call[t].service] = call[t].name]
          BY <1>7, <4>2 DEF NameWrite
        <5>2. call[t].name \in Names /\ call[t].service \in Ids
          BY <2>1
        <5> QED
          BY <5>1, <5>2 DEF TypeOK
      <4> QED
        BY <4>1, <4>2
    <3>2. call' \in [Threads -> Calls]
      BY <1>7 DEF NameWrite, TypeOK, Calls
    <3> QED
      BY <1>7, <3>1, <3>2 DEF NameWrite, TypeOK
<1>8. ASSUME NEW w \in Workers, NEW s \in Ids, Handle(w, s) PROVE TypeOK'
  <2>1. Frame(s, "handler") \in Frames
    BY DEF Frame, Frames
  <2>2. frames' \in [Threads -> Seq(Frames)]
    BY <1>8, <2>1, PushFrame DEF Handle
  <2> QED
    BY <1>8, <2>2 DEF Handle, TypeOK, Frames, Calls
<1>9. ASSUME NEW w \in Workers, HandlerReturns(w) PROVE TypeOK'
  <2>1. frames' \in [Threads -> Seq(Frames)]
    BY <1>9, PopFrame, GotoFrame DEF HandlerReturns
  <2> QED
    BY <1>9, <2>1 DEF HandlerReturns, TypeOK, Frames, Calls
<1>10. ASSUME NEW w \in Workers, OnExit(w) PROVE TypeOK'
  <2>1. frames' \in [Threads -> Seq(Frames)]
    BY <1>10, PopFrame DEF OnExit
  <2> QED
    BY <1>10, <2>1, <1>t DEF OnExit, TypeOK, Frames, Calls
<1>11. ASSUME NEW w \in Workers, KillFlag(w) PROVE TypeOK'
  BY <1>11, <1>t DEF KillFlag, TypeOK, Calls
<1>12. ASSUME NEW w \in Workers, KillErase(w) PROVE TypeOK'
  BY <1>12 DEF KillErase, TypeOK, Calls
<1>13. CASE UNCHANGED vars
  BY <1>13 DEF vars, TypeOK, Calls
<1> QED
  BY <1>1, <1>2, <1>3, <1>4, <1>5, <1>6, <1>7, <1>8, <1>9, <1>10, <1>11, <1>12,
     <1>13 DEF Next, ThreadStep, WorkerStep

-----------------------------------------------------------------------------
(* Workers and the services they handle. *)

(* A worker handles a service only from Handle on. *)
LEMMA HandlingStep ==
  ASSUME TypeOK, [Next]_vars, NEW s \in Ids, NEW v \in HandledBy(s)', v \notin HandledBy(s)
  PROVE  Handle(v, s)
<1> USE DEF tableVars, serviceVars, At, InLua, InLuaAt, HandledBy
<1>v. v \in Workers
  OBVIOUS
<1>1. PICK i \in 1 .. Len(frames'[v]) :
        frames'[v][i].service = s /\ frames'[v][i].at \in {"handler", "exit"}
  OBVIOUS
<1>2. ASSUME i \in 1 .. Len(frames[v]), frames'[v][i] = frames[v][i] PROVE FALSE
  BY <1>1, <1>2, <1>v
<1>3. ASSUME UNCHANGED frames PROVE FALSE
  BY <1>1, <1>2, <1>3
<1>4. ASSUME NEW t \in Threads, ~Idle(t), Pop(t) PROVE FALSE
  <2>1. CASE v = t
    <3>1. /\ Len(frames[t]) \in Nat /\ Len(frames'[t]) = Len(frames[t]) - 1
          /\ \A j \in 1 .. Len(frames'[t]) : frames'[t][j] = frames[t][j]
      BY <1>4, PopFrame, TopType
    <3> QED
      BY <1>1, <1>2, <2>1, <3>1
  <2>2. CASE v # t
    BY <1>2, <1>4, <1>v, <2>2, PopFrame
  <2> QED
    BY <2>1, <2>2
<1>5. ASSUME NEW t \in Threads, NEW f \in Frames, Push(t, f) PROVE v = t /\ f = frames'[v][i]
  <2>0. Len(frames[t]) \in Nat
    BY DEF TypeOK
  <2>1. /\ Len(frames'[t]) = Len(frames[t]) + 1
        /\ \A j \in 1 .. Len(frames[t]) : frames'[t][j] = frames[t][j]
        /\ frames'[t][Len(frames[t]) + 1] = f
        /\ \A u \in Threads \ {t} : frames'[u] = frames[u]
    BY <1>5, PushFrame
  <2>2. v = t
    BY <1>2, <1>v, <2>1
  <2> QED
    BY <1>1, <1>2, <2>0, <2>1, <2>2
<1>6. ASSUME NEW t \in Threads, ~Idle(t), NEW at \in {"init", "failed", "exit"}, Goto(t, at)
      PROVE  v = t /\ i = Len(frames[t]) /\ at = "exit" /\ s = Top(t).service
  <2>1. /\ \A u \in Threads \ {t} : frames'[u] = frames[u]
        /\ Len(frames'[t]) = Len(frames[t]) /\ Len(frames[t]) \in Nat
        /\ \A j \in 1 .. Len(frames[t]) - 1 : frames'[t][j] = frames[t][j]
        /\ frames'[t][Len(frames[t])] = Frame(Top(t).service, at)
    BY <1>6, GotoFrame, TopType, ZenonT(60)
  <2>2. v = t
    BY <1>2, <1>v, <2>1
  <2>3. i = Len(frames[t])
    BY <1>2, <2>1, <2>2
  <2>4. s = Top(t).service /\ at \in {"handler", "exit"}
    BY <1>1, <2>1, <2>2, <2>3 DEF Frame
  <2> QED
    BY <2>2, <2>3, <2>4
<1>7. ASSUME NEW t \in Threads, ThreadStep(t) PROVE FALSE
  <2>1. CASE NewService(t)
    <3>1. Frame(maxId, "boot") \in Frames
      BY <2>1 DEF NewService, TypeOK, Frame, Frames
    <3> QED
      BY <1>1, <1>5, <2>1, <3>1 DEF NewService, Frame
  <2>2. CASE OpenLua(t) \/ InitFails(t)
    BY <1>6, <2>2 DEF OpenLua, InitFails
  <2>3. CASE InitReturns(t) \/ EraseFailed(t)
    BY <1>4, <2>3 DEF InitReturns, EraseFailed
  <2>4. CASE \/ NameWrite(t)
             \/ \E r \in Ids : Send(t, r) \/ \E n \in Names : NameLookup(t, r, n)
    BY <1>3, <2>4 DEF NameWrite, Send, NameLookup
  <2> QED
    BY <1>7, <2>1, <2>2, <2>3, <2>4 DEF ThreadStep
<1>8. ASSUME NEW w \in Workers, NEW r \in Ids, Handle(w, r) PROVE Handle(v, s)
  <2>1. Frame(r, "handler") \in Frames
    BY DEF Frame, Frames
  <2> QED
    BY <1>1, <1>5, <1>8, <2>1 DEF Handle, Frame
<1>9. ASSUME NEW w \in Workers, HandlerReturns(w) PROVE FALSE
  <2>1. CASE Pop(w)
    BY <1>4, <1>9, <2>1 DEF HandlerReturns
  <2>2. CASE Goto(w, "exit")
    <3>1. v = w /\ i = Len(frames[w]) /\ s = Top(w).service
      BY <1>6, <1>9, <2>2 DEF HandlerReturns
    <3>2. Top(w).at = "handler" /\ i \in 1 .. Len(frames[w])
      BY <1>9, <3>1, TopType DEF HandlerReturns
    <3> QED
      BY <1>v, <3>1, <3>2 DEF Top
  <2> QED
    BY <1>9, <2>1, <2>2 DEF HandlerReturns
<1>10. ASSUME NEW w \in Workers, OnExit(w) PROVE FALSE
  BY <1>4, <1>10 DEF OnExit
<1>11. ASSUME NEW w \in Workers, KillFlag(w) \/ KillErase(w) PROVE FALSE
  BY <1>3, <1>11 DEF KillFlag, KillErase
<1> QED
  BY <1>3, <1>7, <1>8, <1>9, <1>10, <1>11 DEF Next, WorkerStep, vars

LEMMA OneHandlerStep == TypeOK /\ OneHandler /\ [Next]_vars => OneHandler'
<1> SUFFICES ASSUME TypeOK, OneHandler, [Next]_vars, NEW s \in Ids,
                    NEW v \in HandledBy(s)', NEW w \in HandledBy(s)'
             PROVE  v = w
  BY DEF OneHandler
<1>1. CASE v \in HandledBy(s) /\ w \in HandledBy(s)
  BY <1>1 DEF OneHandler
<1>2. ASSUME NEW u \in HandledBy(s)', u \notin HandledBy(s), NEW x \in HandledBy(s)' PROVE x = u
  <2>1. Handle(u, s)
    BY <1>2, HandlingStep
  <2>2. HandledBy(s) = {}
    BY <2>1 DEF Handle
  <2>3. Handle(x, s)
    BY <2>2, HandlingStep
  <2>4. u \in Workers /\ x \in Workers /\ Frame(s, "handler") \in Frames
    BY DEF HandledBy, Frame, Frames
  <2>5. ASSUME x # u PROVE FALSE
    <3>1. frames'[x] = frames[x]
      BY <2>1, <2>4, <2>5, PushFrame DEF Handle
    <3>2. Len(frames'[x]) = Len(frames[x]) + 1
      BY <2>3, <2>4, PushFrame DEF Handle
    <3>3. Len(frames[x]) \in Nat
      BY <2>4 DEF TypeOK
    <3> QED
      BY <3>1, <3>2, <3>3
  <2> QED
    BY <2>5
<1> QED
  BY <1>1, <1>2

(* Only KillFlag puts a worker into KillService, and nothing else moves a  *)
(* thread that is in a call.                                               *)
LEMMA KillersHandleStep == TypeOK /\ KillersHandle /\ [Next]_vars => KillersHandle'
<1> SUFFICES ASSUME TypeOK, KillersHandle, [Next]_vars,
                    NEW w \in Workers, InCall(w, "kill")'
             PROVE  (~Idle(w) /\ Top(w) = Frame(call[w].service, "handler"))'
  BY DEF KillersHandle
<1> USE DEF tableVars, serviceVars, At, InLua, InLuaAt, Idle, Top, Return
<1>0. call \in [Threads -> Calls] /\ frames \in [Threads -> Seq(Frames)]
  BY DEF TypeOK, Frames
<1>1. ASSUME call'[w] = call[w], frames'[w] = frames[w]
      PROVE  (~Idle(w) /\ Top(w) = Frame(call[w].service, "handler"))'
  BY <1>1 DEF KillersHandle, InCall, Frame
<1>2. call[w] = NoCall => call'[w] # NoCall
  BY DEF InCall
<1>3. ASSUME NEW t \in Threads, call[t] = NoCall, UNCHANGED call,
             \A u \in Threads \ {t} : frames'[u] = frames[u]
      PROVE  (~Idle(w) /\ Top(w) = Frame(call[w].service, "handler"))'
  BY <1>1, <1>2, <1>3
<1>4. ASSUME NEW t \in Threads, NEW f, frames' = [frames EXCEPT ![t] = f]
      PROVE  \A u \in Threads \ {t} : frames'[u] = frames[u]
  BY <1>0, <1>4
<1>5. ASSUME NEW t \in Threads, ThreadStep(t)
      PROVE  (~Idle(w) /\ Top(w) = Frame(call[w].service, "handler"))'
  <2>1. CASE InitReturns(t) \/ EraseFailed(t) \/ OpenLua(t) \/ InitFails(t)
    <3>1. call[t] = NoCall /\ UNCHANGED call
      BY <2>1 DEF InitReturns, EraseFailed, OpenLua, InitFails
    <3>2. \E f : frames' = [frames EXCEPT ![t] = f]
      BY <2>1 DEF InitReturns, EraseFailed, OpenLua, InitFails, Pop, Goto
    <3> QED
      BY <1>3, <1>4, <3>1, <3>2
  <2>2. CASE NewService(t)
    <3>1. UNCHANGED call /\ \E f : frames' = [frames EXCEPT ![t] = f]
      BY <2>2 DEF NewService, Push
    <3>2. call[t] = NoCall \/ t = Main
      BY <2>2 DEF NewService, MayCreate
    <3>3. w # Main
      OBVIOUS
    <3> QED
      BY <1>1, <1>3, <1>4, <3>1, <3>2, <3>3
  <2>3. CASE \E s \in Ids : Send(t, s)
    BY <1>1, <2>3 DEF Send
  <2>4. ASSUME NEW s \in Ids, NEW n \in Names, NameLookup(t, s, n)
        PROVE  (~Idle(w) /\ Top(w) = Frame(call[w].service, "handler"))'
    BY <1>0, <1>1, <2>4 DEF NameLookup, InCall
  <2>5. CASE NameWrite(t)
    BY <1>0, <1>1, <2>5 DEF NameWrite, InCall
  <2> QED
    BY <1>5, <2>1, <2>2, <2>3, <2>4, <2>5 DEF ThreadStep
<1>6. ASSUME NEW v \in Workers, NEW s \in Ids, Handle(v, s)
      PROVE  (~Idle(w) /\ Top(w) = Frame(call[w].service, "handler"))'
  <2>1. UNCHANGED call /\ Idle(v) /\ \E f : frames' = [frames EXCEPT ![v] = f]
    BY <1>6 DEF Handle, Push
  <2>2. w # v
    BY <2>1 DEF KillersHandle, InCall
  <2> QED
    BY <1>1, <1>4, <2>1, <2>2
<1>7. ASSUME NEW v \in Workers, HandlerReturns(v) \/ OnExit(v)
      PROVE  (~Idle(w) /\ Top(w) = Frame(call[w].service, "handler"))'
  <2>1. call[v] = NoCall /\ UNCHANGED call
    BY <1>7 DEF HandlerReturns, OnExit
  <2>2. \E f : frames' = [frames EXCEPT ![v] = f]
    BY <1>7 DEF HandlerReturns, OnExit, Pop, Goto
  <2> QED
    BY <1>3, <1>4, <2>1, <2>2
<1>8. ASSUME NEW v \in Workers, KillFlag(v)
      PROVE  (~Idle(w) /\ Top(w) = Frame(call[w].service, "handler"))'
  <2>1. CASE w # v
    BY <1>0, <1>1, <1>8, <2>1 DEF KillFlag
  <2>2. CASE w = v
    <3>1. Top(v) \in Frames /\ ~Idle(v) /\ Top(v).at = "handler"
      BY <1>8, TopType DEF KillFlag
    <3>2. Top(v) = Frame(Top(v).service, "handler")
      BY <3>1 DEF Frames, Frame
    <3>3. frames' = frames /\ call'[w].service = Top(v).service
      BY <1>0, <1>8, <2>2 DEF KillFlag
    <3> QED
      BY <2>2, <3>1, <3>2, <3>3 DEF Frame
  <2> QED
    BY <2>1, <2>2
<1>9. ASSUME NEW v \in Workers, KillErase(v)
      PROVE  (~Idle(w) /\ Top(w) = Frame(call[w].service, "handler"))'
  BY <1>0, <1>1, <1>9 DEF KillErase, InCall
<1> QED
  BY <1>1, <1>5, <1>6, <1>7, <1>8, <1>9 DEF Next, WorkerStep, vars

-----------------------------------------------------------------------------
(* Names. *)

(* Two workers are never killing the same service. *)
LEMMA OneKiller ==
  ASSUME TypeOK, KillersHandle, OneHandler, NEW v \in Workers, NEW w \in Workers,
         InCall(v, "kill"), InCall(w, "kill"), call[v].service = call[w].service
  PROVE  v = w
<1> DEFINE s == call[v].service
<1>1. ASSUME NEW u \in Workers, InCall(u, "kill"), call[u].service = s
      PROVE  s \in Ids /\ u \in HandledBy(s)
  <2>1. ~Idle(u) /\ Top(u) = Frame(s, "handler")
    BY <1>1 DEF KillersHandle
  <2>2. Len(frames[u]) \in 1 .. Len(frames[u]) /\ s \in Ids
    BY <2>1, TopType DEF Frame
  <2> QED
    BY <2>1, <2>2 DEF HandledBy, Top, Frame
<1> QED
  BY <1>1 DEF OneHandler

(* Numbers are given out once, and a service is called only if it is in    *)
(* the table.                                                              *)
LEMMA CreatedFirstStep == TypeOK /\ CreatedFirst /\ [Next]_vars => CreatedFirst'
<1> SUFFICES ASSUME TypeOK, CreatedFirst, [Next]_vars PROVE CreatedFirst'
  OBVIOUS
<1> USE DEF TypeOK, CreatedFirst, tableVars, serviceVars, Return
<1>0. \A t \in Threads : call[t] # NoCall => call[t].service \in Ids
  BY DEF Calls
<1>1. ASSUME UNCHANGED <<name, call>>, maxId' \in Nat, maxId <= maxId' PROVE CreatedFirst'
  BY <1>0, <1>1
<1>2. CASE UNCHANGED <<name, call, maxId>>
  BY <1>1, <1>2
<1>3. ASSUME NEW t \in Threads, NewService(t) PROVE CreatedFirst'
  BY <1>1, <1>3 DEF NewService
<1>4. ASSUME NEW t \in Threads, NEW s \in Ids, NEW n \in Names, NameLookup(t, s, n)
      PROVE  CreatedFirst'
  BY <1>4 DEF NameLookup
<1>5. ASSUME NEW t \in Threads, NameWrite(t) PROVE CreatedFirst'
  BY <1>5 DEF NameWrite, InCall
<1>6. ASSUME NEW w \in Workers, KillFlag(w) PROVE CreatedFirst'
  <2>1. /\ \A t \in Threads \ {w} : call'[t] = call[t]
        /\ call'[w].service = Top(w).service
        /\ UNCHANGED <<name, maxId>>
    BY <1>6 DEF KillFlag
  <2>2. Top(w).service < maxId
    <3>1. \A s \in services : s < maxId
      OBVIOUS
    <3>2. Top(w).service \in services
      BY <1>6 DEF KillFlag
    <3> QED
      BY <3>1, <3>2
  <2>3. ASSUME NEW t \in Threads, call'[t] # NoCall PROVE call'[t].service < maxId'
    BY <2>1, <2>2, <2>3
  <2> QED
    BY <2>1, <2>3
<1>7. ASSUME NEW w \in Workers, KillErase(w) PROVE CreatedFirst'
  BY <1>7 DEF KillErase
<1> QED
  BY <1>2, <1>3, <1>4, <1>5, <1>6, <1>7 DEF Next, ThreadStep, WorkerStep, vars,
     OpenLua, InitReturns, InitFails, EraseFailed, Send, Handle, HandlerReturns, OnExit

(* The services whose last name must be theirs. *)
Current(s) ==
  s \in services \/ \E w \in Workers : InCall(w, "kill") /\ call[w].service = s

NamesAgree == \A s \in Ids : Current(s) /\ name[s] # NoName => Bound(name[s], s)

LEMMA NamesAgreeIs == TypeOK => (NamesAgree <=> NamedIsFound /\ KilledIsFound)
<1> SUFFICES ASSUME TypeOK PROVE NamesAgree <=> NamedIsFound /\ KilledIsFound
  OBVIOUS
<1>1. services \subseteq Ids
  BY DEF TypeOK
<1>2. \A w \in Workers : InCall(w, "kill") => call[w].service \in Ids
  BY DEF TypeOK, InCall, Calls
<1> QED
  BY <1>1, <1>2 DEF NamesAgree, Current, NamedIsFound, KilledIsFound

(* A name that NameWrite registers was free; the one that KillErase erases *)
(* is bound to the service that is killed, hence to no other.              *)
LEMMA NamesAgreeStep ==
  ASSUME TypeOK, NamesAgree, KillersHandle, OneHandler, CreatedFirst, [Next]_vars
  PROVE  NamesAgree'
<1> SUFFICES ASSUME NEW s \in Ids, Current(s)', name'[s] # NoName
             PROVE  Bound(name[s], s)'
  BY DEF NamesAgree
<1> USE DEF TypeOK, tableVars, serviceVars, Return, Bound
<1>1. ASSUME UNCHANGED <<names, name>>, Current(s) PROVE Bound(name[s], s)'
  BY <1>1 DEF NamesAgree
<1>2. ASSUME UNCHANGED <<names, name>>, services' \subseteq services, UNCHANGED call
      PROVE  Bound(name[s], s)'
  BY <1>1, <1>2 DEF Current, InCall
<1>3. ASSUME NEW t \in Threads, NewService(t) PROVE Bound(name[s], s)'
  <2>1. Current(s) \/ s = maxId
    BY <1>3 DEF NewService, Current, InCall
  <2>2. name'[maxId] = NoName
    BY <1>3 DEF NewService, CreatedFirst
  <2> QED
    BY <1>1, <1>3, <2>1, <2>2 DEF NewService
<1>4. ASSUME NEW t \in Threads, NEW r \in Ids, NEW n \in Names, NameLookup(t, r, n)
      PROVE  Bound(name[s], s)'
  BY <1>1, <1>4 DEF NameLookup, Current, InCall
<1>5. ASSUME NEW t \in Threads, NameWrite(t) PROVE Bound(name[s], s)'
  <2>1. Current(s)
    BY <1>5 DEF NameWrite, Current, InCall
  <2>2. CASE call[t].name \in DOMAIN names
    BY <1>1, <1>5, <2>1, <2>2 DEF NameWrite
  <2>3. CASE call[t].name \notin DOMAIN names
    <3>1. /\ names' = [n \in DOMAIN names \cup {call[t].name} |->
                         IF n = call[t].name THEN call[t].service ELSE names[n]]
          /\ name' = [name EXCEPT ![call[t].service] = call[t].name]
      BY <1>5, <2>3 DEF NameWrite
    <3>2. CASE s = call[t].service
      BY <3>1, <3>2
    <3>3. CASE s # call[t].service
      BY <2>1, <2>3, <3>1, <3>3 DEF NamesAgree
    <3> QED
      BY <3>2, <3>3
  <2> QED
    BY <2>2, <2>3
<1>6. ASSUME NEW w \in Workers, KillFlag(w) PROVE Bound(name[s], s)'
  BY <1>1, <1>6 DEF KillFlag, Current, InCall
<1>7. ASSUME NEW w \in Workers, KillErase(w) PROVE Bound(name[s], s)'
  <2> DEFINE k == call[w].service
  <2>1. InCall(w, "kill") /\ k \in Ids /\ Current(k)
    BY <1>7 DEF KillErase, InCall, Calls, Current
  <2>2. Current(s) /\ s # k
    <3>1. CASE s \in services'
      BY <1>7, <3>1 DEF KillErase, Current
    <3>2. ASSUME NEW v \in Workers, InCall(v, "kill")', call'[v].service = s
          PROVE  Current(s) /\ s # k
      <4>1. v # w /\ call'[v] = call[v]
        BY <1>7, <3>2 DEF KillErase, InCall
      <4>2. InCall(v, "kill") /\ call[v].service = s
        BY <3>2, <4>1 DEF InCall
      <4> QED
        BY <2>1, <4>1, <4>2, OneKiller DEF Current
    <3> QED
      BY <3>1, <3>2 DEF Current
  <2>3. Bound(name[s], s)
    BY <1>7, <2>2 DEF NamesAgree, KillErase
  <2>4. name[s] # name[k]
    <3>1. name[k] # NoName => Bound(name[k], k)
      BY <2>1 DEF NamesAgree
    <3> QED
      BY <1>7, <2>2, <2>3, <3>1 DEF KillErase
  <2> QED
    BY <1>7, <2>3, <2>4 DEF KillErase
<1> QED
  BY <1>2, <1>3, <1>4, <1>5, <1>6, <1>7 DEF Next, ThreadStep, WorkerStep, vars,
     OpenLua, InitReturns, InitFails, EraseFailed, Send, Handle, HandlerReturns, OnExit

LEMMA NextInv == IInv /\ [Next]_vars => IInv'
<1> SUFFICES ASSUME IInv, [Next]_vars PROVE IInv'
  OBVIOUS
<1> USE DEF IInv
<1>1. TypeOK' /\ OneHandler' /\ KillersHandle' /\ CreatedFirst'
  BY TypeStep, OneHandlerStep, KillersHandleStep, CreatedFirstStep
<1>2. NamesAgree'
  BY NamesAgreeIs, NamesAgreeStep
<1>3. (TypeOK => (NamesAgree <=> NamedIsFound /\ KilledIsFound))'
  BY NamesAgreeIs, PTL
<1>4. (NamedIsFound /\ KilledIsFound)'
  BY <1>1, <1>2, <1>3
<1> QED
  BY <1>1, <1>4

-----------------------------------------------------------------------------
(* The table and the names agree in every state of every execution. *)
THEOREM Invariance == Spec => []IInv
  BY InitInv, NextInv, PTL DEF Spec

(* A live service that has a name is found under it. *)
THEOREM NamesAreFound == Spec => []NamedIsFound
<1>1. IInv => NamedIsFound
  BY DEF IInv
<1> QED
  BY <1>1, Invariance, PTL

(* No name is taken from a service in the table, whatever threads are in   *)
(* Name and KillService.                                                   *)
THEOREM StableNames == Spec => NamesAreStable
<1>1. IInv /\ [Next]_vars =>
        [\A n \in Names, s \in Ids : Bound(n, s) /\ s \in services' => Bound(n, s)']_vars
  <2> SUFFICES ASSUME IInv, Next, NEW n \in Names, NEW s \in Ids, Bound(n, s), s \in services'
               PROVE  Bound(n, s)'
    OBVIOUS
  <2> USE DEF Bound, tableVars, serviceVars
  <2>1. ASSUME NEW t \in Threads, NameWrite(t) PROVE Bound(n, s)'
    BY <2>1 DEF NameWrite
  <2>2. ASSUME NEW w \in Workers, KillErase(w) PROVE Bound(n, s)'
    <3>1. InCall(w, "kill") /\ s # call[w].service
      BY <2>2 DEF KillErase
    <3>2. n # name[call[w].service]
      BY <3>1 DEF IInv, KilledIsFound, RegistryAssumption
    <3> QED
      BY <2>2, <3>2 DEF KillErase
  <2> QED
    BY <2>1, <2>2 DEF Next, ThreadStep, WorkerStep, NewService, OpenLua, InitReturns,
       InitFails, EraseFailed, Send, NameLookup, Handle, HandlerReturns, OnExit, KillFlag
<1> QED
  BY <1>1, Invariance, PTL DEF Spec, NamesAreStable
=============================================================================
