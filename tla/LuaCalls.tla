------------------------------ MODULE LuaCalls ------------------------------
(***************************************************************************)
(* Calls, protected calls and coroutines as src/3rd/lua-5.3.5/src runs     *)
(* them: ldo.c, with lua_callk and lua_pcallk of lapi.c, the metamethods   *)
(* of ltm.c and lvm.c, lcorolib.c, and pcall, xpcall, dofile of lbaselib.c. *)
(*                                                                         *)
(* Each thread has a list of CallInfos, in L[t].ci; C is the C stack that  *)
(* all of them share, from the outermost function to the innermost.  A     *)
(* throw cuts C back to the innermost luaD_rawrunprotected of its thread:  *)
(* what a C function of a suspended coroutine, or of a protected call that *)
(* has failed, had still to do must then be done from its CallInfo alone.  *)
(* An action is one step of the Lua function at work, with everything that *)
(* happens until one is at work again.                                     *)
(*                                                                         *)
(* A definition whose name ends in Slip is the one after it with a         *)
(* plausible programming slip; no specification uses it.                   *)
(***************************************************************************)
EXTENDS Integers, Sequences, SequencesExt

CONSTANTS
    Coroutines,
    Functions,     \* the functions a program may call
    TailCalled,    \* those of them that it calls last
    Bodies,        \* those that coroutines are made of
    Operands,      \* the operators with metamethods
    Truths,        \* "true" and "false"
    MaxCCalls,     \* LUAI_MAXCCALLS
    ExtraCCalls,   \* LUAI_MAXCCALLS>>3, for the handling of overflows
    MaxFrames      \* bound: Lua functions at work or waiting before a call

VARIABLES
    L,   \* the state of each thread
    C,   \* the C stack
    got, \* history: the values that arrived last at a Lua function
    did  \* history: what the Lua function at work did last

vars == <<L, C, got, did>>

Main == "main"
Threads == {Main} \cup Coroutines
Lua == <<"lua">>
IsFalse(v) == v = "false"
Bool(b) == IF b THEN "true" ELSE "false"

\* A CallInfo: its function, what its last instruction waits for ("error" when
\* that has called a message handler), and its callstatus: fresh is CIST_FRESH, leq
\* CIST_LEQ, ypcall CIST_YPCALL; k says that it has a continuation.
CallInfo(f) ==
    [f |-> f, op |-> "none", fresh |-> FALSE, leq |-> FALSE, k |-> FALSE, ypcall |-> FALSE,
     old_errfunc |-> 0]
IsLua(ci) == ci.f = Lua

\* preinit_thread.  errorJmp is a place in C, errfunc a place in ci, 0 for none.
Thread == [status |-> "OK", ci |-> <<>>, nny |-> 1, nCcalls |-> 0, errorJmp |-> 0, errfunc |-> 0,
           body |-> <<>>]

Running(s) == Last(s.C).t
Top(s, t) == Last(s.L[t].ci)
SetTop(s, t, ci) == [s EXCEPT !.L[t].ci = Append(Front(@), ci)]
OnC(s, entry) == [s EXCEPT !.C = Append(@, entry)]
OffC(s) == [s EXCEPT !.C = Front(@)]
Execute(s, t) == OnC(SetTop(s, t, [Top(s, t) EXCEPT !.fresh = TRUE]), [at |-> "luaV_execute", t |-> t])

\* next_ci; L->ci = ci->previous, and luaF_close.
NextCI(s, t, f) == [s EXCEPT !.L[t].ci = Append(@, CallInfo(f))]
Previous(s, t) == [s EXCEPT !.L[t].ci = Front(@)]
CutTo(s, t, level) == [s EXCEPT !.L[t].ci = SubSeq(@, 1, level)]

\* luaD_rawrunprotected: its lua_longjmp, and how it ends.
RunProtected(s, t, at, level, from) ==
    [OnC(s, [at |-> at, t |-> t, previous |-> s.L[t].errorJmp, nCcalls |-> s.L[t].nCcalls,
             nny |-> s.L[t].nny, errfunc |-> s.L[t].errfunc, level |-> level, from |-> from])
        EXCEPT !.L[t].errorJmp = Len(s.C) + 1]
EndProtected(s, t) ==
    LET lj == s.C[s.L[t].errorJmp]
    IN  [s EXCEPT !.C = SubSeq(@, 1, s.L[t].errorJmp - 1),
                  !.L[t].errorJmp = lj.previous, !.L[t].nCcalls = lj.nCcalls]

\* The result of a comparison; the slip: that of "<" in place of "<=" is not negated.
ResultSlip(ci, vals) ==
    CASE ci.op \in {"lt", "le"} -> <<Bool(~IsFalse(Head(vals)))>>
      [] OTHER -> <<Head(vals)>>
Result(ci, vals) ==
    CASE ci.op \in {"lt", "le"} -> <<Bool((~IsFalse(Head(vals))) # ci.leq)>>
      [] OTHER -> <<Head(vals)>>
Done(s, t, vals) == [SetTop(s, t, [Top(s, t) EXCEPT !.op = "none", !.leq = FALSE]) EXCEPT !.got = vals]

\* The end of a call that CIST_YPCALL marks; the slip: with its message handler.
UnmarkSlip(s, t) == SetTop(s, t, [Top(s, t) EXCEPT !.ypcall = FALSE])
Unmark(s, t) ==
    [SetTop(s, t, [Top(s, t) EXCEPT !.ypcall = FALSE]) EXCEPT !.L[t].errfunc = Top(s, t).old_errfunc]

\* The slip: any coroutine may yield.
YieldableSlip(s, t) == t # Main
Yieldable(s, t) == s.L[t].nny = 0

\* nny when a coroutine recovers; the slip: it is left.
RecoverSlip(s, t, ci, level) == [CutTo(s, t, level) EXCEPT !.L[t].errfunc = ci.old_errfunc]
Recover(s, t, ci, level) == [CutTo(s, t, level) EXCEPT !.L[t].nny = 0, !.L[t].errfunc = ci.old_errfunc]
IsMarked(ci) == ci.ypcall
FindPcall(s, t) == SelectLastInSeq(s.L[t].ci, IsMarked)

RECURSIVE PreCall(_, _, _), Call(_, _, _, _), ErrorMsg(_, _, _), Throw(_, _, _, _), Resume(_, _, _),
          ResumeFails(_, _, _, _), EndResume(_, _, _, _), FinishPCall(_, _, _), PosCall(_, _, _),
          Returned(_, _, _), Called(_, _, _), Unroll(_, _, _), FinishOp(_, _, _), PCallK(_, _, _)

-----------------------------------------------------------------------------
(* Calls. *)

\* luaD_precall: a C function is executed.
PreCall(s, t, f) ==
    LET in == NextCI(s, t, f)
        yieldable == Yieldable(s, t)
    IN  CASE f[1] = "lua" -> in
          [] f[1] \in {"pcall", "xpcall"} -> PCallK(in, t, f)
          [] f[1] = "callback" -> Call(in, t, f[2], TRUE)
          [] f[1] = "dofile" ->
               Call(SetTop(in, t, [Top(in, t) EXCEPT !.k = yieldable]), t, f[2], ~yieldable)
          [] f[1] = "yield" ->
               IF yieldable THEN Throw([in EXCEPT !.L[t].status = "YIELD"], t, "YIELD", "true")
               ELSE ErrorMsg(in, t, "attempt to yield")
          [] f[1] \in {"resume", "wrap"} -> Resume(in, t, f[2])

\* luaD_call and luaD_callnoyield of f from a C function.
Call(s, t, f, noyield) ==
    LET in == [OnC(s, [at |-> "luaD_call", t |-> t, noyield |-> noyield])
                  EXCEPT !.L[t].nCcalls = @ + 1, !.L[t].nny = @ + (IF noyield THEN 1 ELSE 0)]
        called == PreCall(in, t, f)
    IN  IF in.L[t].nCcalls = MaxCCalls THEN ErrorMsg(in, t, "C stack overflow")
        ELSE IF in.L[t].nCcalls >= MaxCCalls + ExtraCCalls
        THEN Throw(in, t, "ERRERR", "error in error handling")
        ELSE IF f = Lua THEN Execute(called, t) ELSE called

\* lua_pcallk.
PCallK(s, t, f) ==
    LET level == Len(s.L[t].ci)
        handler == IF f[1] = "xpcall" THEN level ELSE 0
    IN  IF s.L[t].nny > 0
        THEN Call([RunProtected(s, t, "luaD_pcall", level, t) EXCEPT !.L[t].errfunc = handler], t, f[2], TRUE)
        ELSE LET ci == [Top(s, t) EXCEPT !.k = TRUE, !.ypcall = TRUE, !.old_errfunc = s.L[t].errfunc]
             IN  Call([SetTop(s, t, ci) EXCEPT !.L[t].errfunc = handler], t, f[2], FALSE)

\* luaT_callTM from luaV_execute or luaV_finishOp.
CallTM(s, t) == Call(s, t, Lua, FALSE)

-----------------------------------------------------------------------------
(* Returns. *)

\* OP_RETURN; luaD_poscall after a C function.
Return(s, t, vals) == PosCall(IF Top(s, t).fresh THEN OffC(s) ELSE s, t, vals)
PosCall(s, t, vals) == Returned(Previous(s, t), t, vals)

\* Where luaD_precall was called from.
Returned(s, t, vals) ==
    CASE Last(s.C).at = "luaV_execute" ->
           IF Top(s, t).op = "tailcall" THEN Return(s, t, vals) ELSE Done(s, t, vals)
      [] Last(s.C).at = "luaD_call" ->
           LET nny == s.L[t].nny - (IF Last(s.C).noyield THEN 1 ELSE 0)
           IN  Called([OffC(s) EXCEPT !.L[t].nCcalls = @ - 1, !.L[t].nny = nny], t, vals)
      [] Last(s.C).at = "lua_resume" -> Unroll(s, t, vals)

\* Where luaD_call was called from.
Called(s, t, vals) ==
    CASE Last(s.C).at = "luaD_pcall" ->
           FinishPCall([EndProtected(s, t) EXCEPT !.L[t].errfunc = Last(s.C).errfunc], t, <<"true">> \o vals)
      [] Last(s.C).at = "luaG_errormsg" -> Throw(OffC(s), t, "ERRRUN", Head(vals))
      [] OTHER ->
           IF IsLua(Top(s, t))
           THEN IF Top(s, t).op = "concat2" THEN CallTM(SetTop(s, t, [Top(s, t) EXCEPT !.op = "concat"]), t)
                ELSE LET done == Done(s, t, Result(Top(s, t), vals))
                     IN  IF Last(s.C).at = "luaV_finishOp" THEN Execute(OffC(done), t) ELSE done
           ELSE IF Top(s, t).ypcall
           THEN FinishPCall(Unmark(s, t), t, <<"true">> \o vals)
           ELSE PosCall(s, t, vals)

\* finishpcall; or the end of the lua_pcall of the server.
FinishPCall(s, t, vals) ==
    IF s.L[t].ci = <<>> THEN [s EXCEPT !.got = vals] ELSE PosCall(s, t, vals)

-----------------------------------------------------------------------------
(* Errors. *)

\* luaG_errormsg: the message handler, then a throw.
ErrorMsg(s, t, v) ==
    IF s.L[t].errfunc = 0 THEN Throw(s, t, "ERRRUN", v)
    ELSE LET failed == SetTop(s, t, [Top(s, t) EXCEPT !.op = "error"])
         IN  Call(OnC(failed, [at |-> "luaG_errormsg", t |-> t]), t, Lua, TRUE)

\* luaD_throw, and what the function that catches it does.
Throw(s, t, status, v) ==
    LET lj == s.C[s.L[t].errorJmp]
        caught == EndProtected(s, t)
    IN  IF lj.at = "luaD_pcall"
        THEN FinishPCall([CutTo(caught, t, lj.level) EXCEPT !.L[t].nny = lj.nny, !.L[t].errfunc = lj.errfunc],
                         t, <<"false", v>>)
        ELSE IF status = "YIELD" THEN EndResume(caught, t, lj, <<"true">>)
        ELSE ResumeFails(caught, t, lj, v)

-----------------------------------------------------------------------------
(* Coroutines. *)

\* auxresume and lua_resume, from thread t.
Resume(s, t, co) ==
    LET th == s.L[co]
        dead == \/ th.status = "OK" /\ th.ci = <<>> /\ th.body = <<>>
                \/ th.status = "OK" /\ th.ci # <<>>
                \/ th.status \notin {"OK", "YIELD"}
        on == [s EXCEPT !.L[co].nCcalls = s.L[t].nCcalls + 1]
        off(x, msg) == IF Top(x, t).f[1] = "wrap" THEN ErrorMsg(x, t, msg)
                       ELSE PosCall(x, t, <<"false", msg>>)
        run == [RunProtected([on EXCEPT !.L[co].nny = 0], co, "lua_resume", 0, t)
                   EXCEPT !.C[Len(s.C) + 1].nny = th.nny]
    IN  IF dead THEN off(s, "cannot resume")
        ELSE IF on.L[co].nCcalls >= MaxCCalls THEN off(on, "C stack overflow")
        ELSE IF th.status = "OK"
        THEN LET called == PreCall([run EXCEPT !.L[co].body = <<>>], co, th.body)
             IN  IF th.body = Lua THEN Execute(called, co) ELSE called
        \* lua_yield, without a continuation, ends as a call does
        ELSE Unroll(Previous([run EXCEPT !.L[co].status = "OK"], co), co, <<"true">>)

\* unroll, with finishCcall for a C function.
Unroll(s, t, vals) ==
    IF s.L[t].ci = <<>> THEN EndResume(EndProtected(s, t), t, Last(s.C), vals)
    ELSE IF IsLua(Top(s, t)) THEN FinishOp(s, t, vals)
    ELSE IF Top(s, t).ypcall
    THEN FinishPCall(Unmark(s, t), t, <<"true">> \o vals)
    ELSE PosCall(s, t, vals)

\* luaV_finishOp and luaV_execute.
FinishOp(s, t, vals) ==
    LET ci == Top(s, t)
    IN  CASE ci.op = "call" -> Execute(Done(s, t, vals), t)
          [] ci.op = "tailcall" -> Return(Execute(s, t), t, vals)
          [] ci.op = "concat2" ->
               CallTM(OnC(SetTop(s, t, [ci EXCEPT !.op = "concat"]), [at |-> "luaV_finishOp", t |-> t]), t)
          [] OTHER -> Execute(Done(s, t, Result(ci, vals)), t)

\* The end of lua_resume, without an error and with one.
EndResume(s, co, lj, vals) ==
    LET from == lj.from
        off == [s EXCEPT !.L[co].nny = lj.nny, !.L[co].nCcalls = @ - 1]
    IN  PosCall(off, from, IF Top(s, from).f[1] = "wrap" THEN vals ELSE <<"true">> \o vals)
ResumeFails(s, co, lj, v) ==
    LET level == FindPcall(s, co)
        from == lj.from
        run == [RunProtected(Recover(s, co, s.L[co].ci[level], level), co, "lua_resume", 0, from)
                   EXCEPT !.C[Len(s.C) + 1].nny = lj.nny]
        ended == [s EXCEPT !.L[co] = [Thread EXCEPT !.status = "ERRRUN"]]
    IN  IF level # 0
        THEN FinishPCall(Unmark(run, co), co, <<"false", v>>)
        ELSE IF Top(s, from).f[1] = "wrap" THEN ErrorMsg(ended, from, v)
        ELSE PosCall(ended, from, <<"false", v>>)

\* luaB_costatus, for a coroutine that is not the running one.
StatusOf(s, co) ==
    CASE s.L[co].status = "YIELD" -> "suspended"
      [] s.L[co].status = "OK" -> IF s.L[co].ci # <<>> THEN "normal"
                                ELSE IF s.L[co].body = <<>> THEN "dead" ELSE "suspended"
      [] OTHER -> "dead"

-----------------------------------------------------------------------------
(* Steps. *)

State == [L |-> L, C |-> C, got |-> got]
Become(step, s) ==
    /\ did' = step
    /\ L' = s.L
    /\ C' = s.C
    /\ got' = s.got
Frames == FoldFunctionOnSet(+, 0, [t \in Threads |-> Len(SelectSeq(L[t].ci, IsLua))], Threads)
MayRaise == C # <<>> /\ (Frames <= MaxFrames \/ L[Running(State)].errfunc = 0)
MayCall(f) == MayRaise /\ (Frames <= MaxFrames \/ f[1] \in {"yield", "resume", "wrap"})
Doing(op, leq) == LET t == Running(State)
                  IN  SetTop(State, t, [Top(State, t) EXCEPT !.op = op, !.leq = leq])

Init == /\ L = [t \in Threads |-> Thread]
        /\ C = <<>>
        /\ got = <<>>
        /\ did = <<"start">>

\* lua_pcall of the server.
Start == /\ C = <<>>
         /\ Become(<<"start">>, Call(RunProtected(State, Main, "luaD_pcall", 0, Main), Main, Lua, TRUE))

\* luaB_cocreate; a name is used again when its coroutine has died.
Create(co, f) ==
    /\ C # <<>>
    /\ StatusOf(State, co) = "dead"
    /\ Become(<<"create", co>>, [State EXCEPT !.L[co] = [Thread EXCEPT !.body = f]])

\* OP_CALL
CallFunction(f) == MayCall(f) /\ Become(<<"call", f>>, PreCall(Doing("call", FALSE), Running(State), f))

\* OP_TAILCALL: a Lua function takes the CallInfo of its caller.
TailCall(f) ==
    /\ MayCall(f)
    /\ LET t == Running(State)
       IN  Become(<<"tailcall", f>>, IF f = Lua THEN [State EXCEPT !.got = <<>>]
                  ELSE PreCall(Doing("tailcall", FALSE), t, f))

\* An operator with a metamethod; "<=" may have to use that of "<".
Operate(op) ==
    /\ MayCall(Lua)
    /\ LET s == IF op = "notlt" THEN Doing("le", TRUE) ELSE Doing(op, FALSE)
       IN  Become(<<"operate", op>>, CallTM(s, Running(State)))

\* coroutine.status of another coroutine.
Ask(co) == /\ C # <<>>
           /\ co # Running(State)
           /\ Become(<<"status", co>>, [State EXCEPT !.got = <<StatusOf(State, co)>>])

ReturnValue(v) == C # <<>> /\ Become(<<"return", v>>, Return(State, Running(State), <<v>>))
RunError == MayRaise /\ Become(<<"error">>, ErrorMsg(State, Running(State), "error"))
NoMemory == C # <<>> /\ Become(<<"no memory">>, Throw(State, Running(State), "ERRMEM", "not enough memory"))

Next == \/ Start
        \/ \E co \in Coroutines, f \in Bodies : Create(co, f)
        \/ \E f \in Functions : CallFunction(f)
        \/ \E f \in TailCalled : TailCall(f)
        \/ \E op \in Operands : Operate(op)
        \/ \E co \in Coroutines : Ask(co)
        \/ \E v \in Truths : ReturnValue(v)
        \/ RunError
        \/ NoMemory

Spec == Init /\ [][Next]_vars

-----------------------------------------------------------------------------
(* Properties. *)

\* What the abstract specification sees: the chain of coroutines and their calls.
Resumer(ts, e) == IF e.at = "lua_resume" THEN Append(ts, e.t) ELSE ts
Chain == IF C = <<>> THEN <<>> ELSE FoldLeft(Resumer, <<Main>>, C)
Framed(frames, ci) == Append(frames, [f |-> ci.f, op |-> IF ci.op = "le" /\ ci.leq THEN "notlt" ELSE ci.op])

Promised == INSTANCE LuaCoroutines WITH
    stack <- [t \in Threads |-> IF L[t].status = "ERRRUN" THEN <<>>
                                ELSE FoldLeft(Framed, <<>>, L[t].ci)],
    body <- [t \in Threads |-> L[t].body],
    chain <- Chain

\* Whatever is pending, on the C stack or only in CallInfos, calls return, errors are
\* caught and coroutines yield as Lua promises, with their values (luaV_finishOp,
\* finishCcall, unroll and recover against luaD_call and luaD_pcall).
ImplementsCoroutines == Promised!Spec

OnCStack(P(_)) == Len(SelectSeq(C, P))
ForeignCalls(t) == OnCStack(LAMBDA e : e.at = "luaD_call" /\ e.t = t /\ e.noyield)

\* The counters of a thread say what is on the C stack, also after the jumps of errors
\* and yields: nCcalls the depth of C calls, nny those that cannot be interrupted.
CountersMatch ==
    /\ C # <<>> => L[Running(State)].nCcalls = OnCStack(LAMBDA e : e.at \in {"luaD_call", "lua_resume"})
    /\ \A t \in Threads : L[t].nny = ForeignCalls(t) + (IF t # Main /\ t \in ToSet(Chain) THEN 0 ELSE 1)

CaughtOnC(t, level) == \E i \in DOMAIN C : C[i].at = "luaD_pcall" /\ C[i].t = t /\ C[i].level = level
IsPCall(ci) == ci.f[1] \in {"pcall", "xpcall"}

\* Each pcall in progress is protected once, by a jump buffer or by its mark in the
\* CallInfo, and the message handler is that of the innermost one.
ErrorsAreCaught ==
    \A t \in Threads :
        LET ci == L[t].ci
            p == SelectLastInSeq(ci, IsPCall)
        IN  /\ \A l \in DOMAIN ci : IsPCall(ci[l]) => (ci[l].ypcall # CaughtOnC(t, l))
            /\ L[t].errfunc = IF p # 0 /\ ci[p].f[1] = "xpcall" THEN p ELSE 0

\* A suspended coroutine has left nothing on the C stack that it would need: every C
\* function that called something has a continuation.
SuspendedCanContinue ==
    \A t \in Threads : L[t].status = "YIELD" =>
        /\ \A i \in DOMAIN C : C[i].t # t
        /\ Last(L[t].ci).f = <<"yield">>
        /\ \A l \in 1 .. Len(L[t].ci) - 1 : IsLua(L[t].ci[l]) \/ L[t].ci[l].k
=============================================================================
