------------------------------- MODULE LuaStack -------------------------------
(***************************************************************************)
(* The stack of a C function as the API of Lua shows it                    *)
(* (src/3rd/lua-5.3.5/src/lapi.c, lua.h), the buffers that lauxlib.c keeps *)
(* on it, how the services move a function and its arguments to a          *)
(* coroutine (Service.cpp, LuaApi.cpp), and the size of the stack (ldo.c). *)
(*                                                                         *)
(* s.stack holds the values above the function, s.upvalue its upvalues.    *)
(* The values are strings, which are sequences, and Box, the userdata of a *)
(* buffer.  The operations are for the calls that api_check allows.        *)
(***************************************************************************)
EXTENDS Integers, Sequences, FiniteSetsExt, SequencesExt

CONSTANTS
    RegistryIndex,
    BufferSize,       \* LUAL_BUFFERSIZE
    StackLimit,       \* LUAI_MAXSTACK
    ErrorStackSize,   \* with some space for error handling
    ExtraStack, MinStack

NilValue == <<"nil">>
Box == <<"LUABOX">>
Stack(stack) == [stack |-> stack, upvalue |-> <<>>, registry |-> NilValue]

-----------------------------------------------------------------------------
(* Indices. *)

GetTop(s) == Len(s.stack)
IsPseudo(i) == i <= RegistryIndex
NonValid == <<"none", 0>>
Index2Addr(s, idx) ==
    CASE idx > 0              -> IF idx > GetTop(s) THEN NonValid ELSE <<"stack", idx>>
      [] ~IsPseudo(idx)       -> <<"stack", GetTop(s) + idx + 1>>
      [] idx = RegistryIndex  -> <<"registry", 0>>
      [] OTHER -> IF RegistryIndex - idx > Len(s.upvalue) THEN NonValid ELSE <<"upvalue", RegistryIndex - idx>>
AbsIndex(s, idx) == IF idx > 0 \/ IsPseudo(idx) THEN idx ELSE GetTop(s) + 1 + idx

At(s, addr) == CASE addr[1] = "none"     -> NilValue
                 [] addr[1] = "registry" -> s.registry
                 [] OTHER                -> s[addr[1]][addr[2]]
SetAt(s, addr, v) == IF addr[1] = "registry" THEN [s EXCEPT !.registry = v]
                     ELSE [s EXCEPT ![addr[1]][addr[2]] = v]

-----------------------------------------------------------------------------
(* The operations. *)

Push(s, v) == [s EXCEPT !.stack = Append(@, v)]
PushValue(s, idx) == Push(s, At(s, Index2Addr(s, idx)))
SetTop(s, idx) ==
    LET n == IF idx >= 0 THEN idx ELSE GetTop(s) + idx + 1
    IN  [s EXCEPT !.stack = [i \in 1 .. n |-> IF i <= GetTop(s) THEN s.stack[i] ELSE NilValue]]
Pop(s, n) == SetTop(s, -n - 1)
Copy(s, from, to) == SetAt(s, Index2Addr(s, to), At(s, Index2Addr(s, from)))

\* reverse: the segment from .. to.
Reversed(s, from, to) ==
    [s EXCEPT !.stack = [i \in DOMAIN @ |-> IF i \in from .. to THEN @[from + to - i] ELSE @[i]]]
Rotate(s, idx, n) ==
    LET t == GetTop(s)
        p == Index2Addr(s, idx)[2]
        m == IF n >= 0 THEN t - n ELSE p - n - 1
    IN  Reversed(Reversed(Reversed(s, p, m), m + 1, t), p, t)

Insert(s, idx) == Rotate(s, idx, 1)
Removed(s, idx) == Pop(Rotate(s, idx, -1), 1)
Replace(s, idx) == Pop(Copy(s, -1, idx), 1)

XMove(from, to, n) ==
    [from |-> SetTop(from, GetTop(from) - n),
     to |-> [to EXCEPT !.stack = @ \o SubSeq(from.stack, GetTop(from) - n + 1, GetTop(from))]]

\* A new coroutine, in front of the function and its arguments, which it then gets.
StartCallbackCoroutine(s, co, nargs) ==
    LET t == Push(s, co)
    IN  XMove(Insert(t, GetTop(t) - nargs - 1), Stack(<<>>), nargs + 1)
Fork(s, co) ==
    LET num == GetTop(s)
        t == Push(s, co)
    IN  XMove(Insert(t, GetTop(t) - num), Stack(<<>>), num)

-----------------------------------------------------------------------------
(* Buffers.  b.text is what was written; b.box tells that it is in the box, whose size   *)
(* is b.bsize, and b.fault that a box was looked for where none is.                      *)

BuffInit(s) == [s |-> s, text |-> <<>>, size |-> BufferSize, box |-> FALSE, bsize |-> 0, fault |-> FALSE]
BuffOnStack(b) == b.box

\* resizebox
ResizeBox(b, idx, newsize) ==
    [b EXCEPT !.bsize = newsize, !.fault = @ \/ At(b.s, Index2Addr(b.s, idx)) # Box]
NewBox(b, newsize) == ResizeBox([b EXCEPT !.s = Push(@, Box)], -1, newsize)

\* luaL_prepbuffsize
PrepBuffSize(b, sz) ==
    LET n == Len(b.text)
        newsize == IF 2 * b.size - n < sz THEN n + sz ELSE 2 * b.size
        grown == IF BuffOnStack(b) THEN ResizeBox(b, -1, newsize) ELSE NewBox(b, newsize)
    IN  IF b.size - n >= sz THEN b ELSE [grown EXCEPT !.box = TRUE, !.size = newsize]

AddLString(b, str) ==
    IF str = <<>> THEN b ELSE [PrepBuffSize(b, Len(str)) EXCEPT !.text = @ \o str]
AddChar(b, ch) ==
    [(IF Len(b.text) < b.size THEN b ELSE PrepBuffSize(b, 1)) EXCEPT !.text = Append(@, ch)]
AddValue(b) ==
    LET str == At(b.s, Index2Addr(b.s, -1))
        below == IF BuffOnStack(b) THEN [b EXCEPT !.s = Insert(@, -2)] ELSE b
        added == AddLString(below, str)
    IN  [added EXCEPT !.s = Removed(@, IF BuffOnStack(added) THEN -2 ELSE -1)]
PushResult(b) ==
    LET p == [b EXCEPT !.s = Push(@, b.text)]
    IN  IF BuffOnStack(b) THEN [ResizeBox(p, -2, 0) EXCEPT !.s = Removed(@, -2)] ELSE p
\* luaL_buffinitsize, and luaL_pushresultsize after the bytes were written there.
BuffInitSize(s, sz) == PrepBuffSize(BuffInit(s), sz)
PushResultSize(b, str) == PushResult([b EXCEPT !.text = @ \o str])

-----------------------------------------------------------------------------
(* How the stack of a Lua thread grows and shrinks (ldo.c, lua_checkstack).  t.size is    *)
(* the size of the array, t.top the first free slot, t.calls the CallInfos with the       *)
(* innermost last: where the function is, the top of its frame and whether it is a Lua    *)
(* function.  t.error is the error that the last operation raised, or "".  Memory is      *)
(* always found.                                                                          *)

StackLast(t) == t.size - ExtraStack
Ci(t) == Last(t.calls)

\* stack_init
StackInit == [size |-> 2 * MinStack, top |-> 1, calls |-> <<[func |-> 0, top |-> 1 + MinStack, lua |-> FALSE]>>, error |-> ""]

\* luaD_growstack
GrowStack(t, n) ==
    LET needed == t.top + n + ExtraStack
        doubled == IF 2 * t.size > StackLimit THEN StackLimit ELSE 2 * t.size
        newsize == IF doubled < needed THEN needed ELSE doubled
    IN  CASE t.size > StackLimit  -> [t EXCEPT !.error = "error in error handling"]
          [] newsize > StackLimit -> [t EXCEPT !.size = ErrorStackSize, !.error = "stack overflow"]
          [] OTHER                -> [t EXCEPT !.size = newsize, !.error = ""]

\* luaD_checkstack
CheckRoom(t, n) == IF StackLast(t) - t.top <= n THEN GrowStack(t, n) ELSE [t EXCEPT !.error = ""]

\* luaD_shrinkstack, and stackinuse.
InUse(t) == Max({t.top} \union {t.calls[k].top : k \in DOMAIN t.calls}) + 1
ShrinkStack(t) ==
    LET good == InUse(t) + InUse(t) \div 8 + 2 * ExtraStack
        goodsize == IF good > StackLimit THEN StackLimit ELSE good
    IN  IF InUse(t) <= StackLimit - ExtraStack /\ goodsize < t.size THEN [t EXCEPT !.size = goodsize] ELSE t

\* lua_checkstack: its result in error, "" for true.
CheckStack(t, n) ==
    LET grown == GrowStack(t, n)
        r == CASE StackLast(t) - t.top > n                -> [t EXCEPT !.error = ""]
               [] t.top + ExtraStack > StackLimit - n     -> [t EXCEPT !.error = "no"]
               [] grown.error # ""                        -> [grown EXCEPT !.error = "no"]
               [] OTHER                                   -> grown
    IN  IF r.error = "" /\ Ci(r).top < r.top + n THEN [r EXCEPT !.calls[Len(r.calls)].top = r.top + n] ELSE r

\* luaD_precall of a C function that was pushed with its arguments.
PrecallC(t, nargs) ==
    LET r == CheckRoom(t, MinStack)
    IN  IF r.error # "" THEN r
        ELSE [r EXCEPT !.calls = Append(@, [func |-> r.top - nargs - 1, top |-> r.top + MinStack, lua |-> FALSE])]
\* luaD_precall of a Lua function; the arguments of one with a variable number of them stay
\* below its base (adjust_varargs).
PrecallLua(t, nargs, is_vararg, fsize) ==
    LET r == CheckRoom(t, fsize)
        base == IF is_vararg THEN r.top ELSE r.top - nargs
    IN  IF r.error # "" THEN r
        ELSE [r EXCEPT !.top = base + fsize,
                       !.calls = Append(@, [func |-> r.top - nargs - 1, top |-> base + fsize, lua |-> TRUE])]
\* luaD_poscall.  A C function wants all of the n results (adjustresults), a Lua function
\* as many as it has slots for, and goes on with its whole frame.
Poscall(t, n) ==
    LET calls == Front(t.calls)
        top == IF Last(calls).lua THEN Last(calls).top ELSE Ci(t).func + n
    IN  [t EXCEPT !.top = top, !.error = "",
                  !.calls = IF Last(calls).top < top THEN [calls EXCEPT ![Len(calls)].top = top] ELSE calls]
\* luaD_pcall after an error: the message is left where the function was.
Recover(t, k) ==
    ShrinkStack([t EXCEPT !.top = t.calls[k + 1].func + 1, !.calls = SubSeq(@, 1, k), !.error = ""])
=============================================================================
