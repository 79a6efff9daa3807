--------------------------- MODULE LuaCoroutines ---------------------------
(***************************************************************************)
(* What Lua promises about calls, protected calls and coroutines: each     *)
(* coroutine has a stack of calls of its own; an error goes to the         *)
(* innermost protected call of its coroutine, or ends the coroutine and    *)
(* goes to whoever resumed it; a coroutine may yield unless a C function   *)
(* without a continuation is in its stack; and what was returned, raised   *)
(* or yielded arrives where it was waited for.  There is no C stack here:  *)
(* only that a call from C may fail when there are too many.               *)
(*                                                                         *)
(* A function is a tuple: its name, and what it calls or resumes.          *)
(***************************************************************************)
EXTENDS Sequences, SequencesExt

CONSTANTS
    Coroutines,
    Functions,  \* the functions a program may call
    TailCalled, \* those of them that it calls last
    Bodies,     \* those that coroutines are made of
    Operands,   \* what an operator with a metamethod may wait for
    Truths      \* "true" and "false"

VARIABLES
    stack, \* of each coroutine: the calls that have not returned
    body,  \* the function of a coroutine that was not started yet, or <<>>
    chain, \* who resumed whom, the running one last; empty outside of Lua
    got,   \* the values that arrived last
    did    \* what the Lua function at work did last

vars == <<stack, body, chain, got, did>>

Main == "main"
Lua == <<"lua">>
Not(v) == IF v = "true" THEN "false" ELSE "true"
Truth(v) == IF v = "false" THEN "false" ELSE "true"

\* A call, and what its function is waiting for.
Frame(f) == [f |-> f, op |-> "none"]
Protects(frame) == frame.f[1] \in {"pcall", "xpcall"}

Mine(st) == st.stack[Last(st.chain)]
With(st, frames) == [st EXCEPT !.stack = (Last(st.chain) :> frames) @@ @]
Pushed(st, frame) == With(st, Append(Mine(st), frame))
Cut(st, n) == With(st, SubSeq(Mine(st), 1, n))
Popped(st) == With(st, Front(Mine(st)))
Doing(st, op) == Pushed(Popped(st), [Last(Mine(st)) EXCEPT !.op = op])
ToResumer(st) == [st EXCEPT !.chain = Front(@)]

\* The innermost protected call, 0 for none.
Protected(frames) == SelectLastInSeq(frames, Protects)

\* No function without a continuation, and no message handler, is at work.
Yieldable(st) ==
    /\ Last(st.chain) # Main
    /\ \A i \in DOMAIN Mine(st) : Mine(st)[i].f[1] # "callback" /\ Mine(st)[i].op # "error"

-----------------------------------------------------------------------------
(* What follows from a call, a result or an error, until a Lua function is  *)
(* at work again: the set of the states there may be.                       *)

RECURSIVE Enter(_, _), Called(_, _), Give(_, _), Raise(_, _), Unwind(_, _)

\* The limit of C calls is passed: an error, or one that no handler may see.
TooMany(st) == Raise(st, "C stack overflow") \cup Unwind(st, "error in error handling")
Called(st, f) == Enter(st, f) \cup TooMany(st)

Enter(st, f) ==
    LET in == Pushed(st, Frame(f))
    IN  CASE f[1] = "lua" -> {in}
          [] f[1] \in {"pcall", "xpcall", "callback", "dofile"} -> Called(in, f[2])
          [] f[1] = "yield" -> IF Yieldable(st) THEN Give(ToResumer(in), <<"true">>)
                               ELSE Raise(in, "attempt to yield")
          [] f[1] \in {"resume", "wrap"} ->
               LET co == f[2]
                   Refused(msg) == IF f[1] = "wrap" THEN Raise(in, msg)
                                   ELSE Give(Popped(in), <<"false", msg>>)
                   on == [in EXCEPT !.chain = Append(@, co), !.body = (co :> <<>>) @@ @]
               IN  IF co \in ToSet(st.chain) \/ (st.stack[co] = <<>> /\ st.body[co] = <<>>)
                   THEN Refused("cannot resume")
                   ELSE Refused("C stack overflow")
                          \cup IF st.stack[co] = <<>> THEN Enter(on, st.body[co])
                               ELSE Give(Popped(on), <<"true">>)

\* The values arrive at the top of the stack of the running coroutine.
Give(st, vals) ==
    IF Mine(st) = <<>>
    THEN IF Len(st.chain) = 1 THEN {[st EXCEPT !.chain = <<>>, !.got = <<"true">> \o vals]}
         ELSE Give(ToResumer(st), vals)
    ELSE LET top == Last(Mine(st))
             Arrived(v) == {[Doing(st, "none") EXCEPT !.got = v]}
         IN  CASE top.op = "error" -> Unwind(st, Head(vals))
               [] Protects(top) \/ top.f[1] = "resume" -> Give(Popped(st), <<"true">> \o vals)
               [] top.f[1] \in {"callback", "dofile", "wrap"} -> Give(Popped(st), vals)
               [] top.op = "call"     -> Arrived(vals)
               [] top.op = "tailcall" -> Give(Popped(st), vals)
               [] top.op = "concat2"  -> Called(Doing(st, "concat"), Lua)
               [] top.op \in {"arith", "concat"} -> Arrived(<<Head(vals)>>)
               [] top.op \in {"lt", "le"} -> Arrived(<<Truth(Head(vals))>>)
               [] top.op = "notlt"    -> Arrived(<<Not(Truth(Head(vals)))>>)

\* An error: the handler of an xpcall sees it where it was raised.
Raise(st, v) ==
    LET p == Protected(Mine(st))
    IN  IF p > 0 /\ Mine(st)[p].f[1] = "xpcall"
        THEN {Pushed(Doing(st, "error"), Frame(Lua))} \cup (Unwind(st, "error in error handling"))
        ELSE Unwind(st, v)

Unwind(st, v) ==
    LET p == Protected(Mine(st))
        dead == ToResumer(Cut(st, 0))
    IN  IF p > 0 THEN Give(Cut(st, p - 1), <<"false", v>>)
        ELSE IF Len(st.chain) = 1 THEN {[dead EXCEPT !.got = <<"false", v>>]}
        ELSE IF Last(Mine(dead)).f[1] = "wrap" THEN Raise(dead, v)
        ELSE Give(Popped(dead), <<"false", v>>)

-----------------------------------------------------------------------------

State == [stack |-> stack, body |-> body, chain |-> chain, got |-> got]
Become(step, states) == did' = step /\ State' \in states

Init == /\ stack = [t \in {Main} \cup Coroutines |-> <<>>]
        /\ body = [t \in {Main} \cup Coroutines |-> <<>>]
        /\ chain = <<>>
        /\ got = <<>>
        /\ did = <<"start">>

Start == chain = <<>> /\ Become(<<"start">>, Called([State EXCEPT !.chain = <<Main>>], Lua))
Create(co, f) ==
    /\ chain # <<>>
    /\ co \notin ToSet(chain)
    /\ Become(<<"create", co>>, {[State EXCEPT !.stack = (co :> <<>>) @@ @, !.body = (co :> f) @@ @]})
Call(f) == chain # <<>> /\ Become(<<"call", f>>, Enter(Doing(State, "call"), f))
TailCall(f) ==
    /\ chain # <<>>
    /\ Become(<<"tailcall", f>>, IF f = Lua THEN {[State EXCEPT !.got = <<>>]}
                                 ELSE Enter(Doing(State, "tailcall"), f))
Operate(op) == chain # <<>> /\ Become(<<"operate", op>>, Called(Doing(State, op), Lua))
Status(co) == IF co \in ToSet(chain) THEN "normal"
              ELSE IF stack[co] # <<>> \/ body[co] # <<>> THEN "suspended" ELSE "dead"
Ask(co) ==
    /\ chain # <<>>
    /\ co # Last(chain)
    /\ Become(<<"status", co>>, {[State EXCEPT !.got = <<Status(co)>>]})
Return(v) == chain # <<>> /\ Become(<<"return", v>>, Give(Popped(State), <<v>>))
Error == chain # <<>> /\ Become(<<"error">>, Raise(State, "error"))
NoMemory == chain # <<>> /\ Become(<<"no memory">>, Unwind(State, "not enough memory"))

Next == \/ Start
        \/ \E co \in Coroutines, f \in Bodies : Create(co, f)
        \/ \E f \in Functions : Call(f)
        \/ \E f \in TailCalled : TailCall(f)
        \/ \E op \in Operands : Operate(op)
        \/ \E co \in Coroutines : Ask(co)
        \/ \E v \in Truths : Return(v)
        \/ Error
        \/ NoMemory

Spec == Init /\ [][Next]_vars
=============================================================================
