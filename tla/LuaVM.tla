------------------------------- MODULE LuaVM -------------------------------
(***************************************************************************)
(* The interpreter of Lua (luaV_execute of src/3rd/lua-5.3.5/src/lvm.c),    *)
(* with the frames of calls (ldo.c) and the upvalues of closures (lfunc.c). *)
(*                                                                         *)
(* A value is <<"nil">>, <<"bool", b>>, <<"int", n>>, <<"str", s>>,         *)
(* <<"table", id>> or <<"function", id>>.  There are no metatables; a       *)
(* string is never a numeral and strings are not ordered.  The state:       *)
(*   stack, top  the stack (from 1 on) and L->top                           *)
(*   ci          the frames: func, base, top, pc, cl, nresults              *)
(*   tables      from a value to a value, for each table                    *)
(*   closures    a prototype and upvalues, for each closure                 *)
(*   upvals      an upvalue is open, at a place of the stack, or has a value *)
(*   open        the open upvalues                                          *)
(*   cache       the last closure of each prototype                         *)
(*   error, results, fuel  how it ended; instructions it may still execute  *)
(***************************************************************************)
EXTENDS LuaCode

CONSTANT StackSize  \* LUAI_MAXSTACK

Nil == <<"nil">>
Bool(b) == <<"bool", b>>
Num(n) == <<"int", n>>
IsInt(v) == v[1] = "int"
IsFalse(v) == v = Nil \/ v = Bool(FALSE)

Fails(vm, why) == [vm EXCEPT !.error = why]
Frame(vm) == Last(vm.ci)
Closure(vm) == vm.closures[Frame(vm).cl]
Reg(vm, r) == vm.stack[Frame(vm).base + r]
SetReg(vm, r, v) == [vm EXCEPT !.stack[Frame(vm).base + r] = v]
SetPc(vm, pc) == [vm EXCEPT !.ci[Len(vm.ci)].pc = pc]
Operand(vm, rk) == IF IsK(rk) THEN Closure(vm).p.k[rk - BitRK + 1] ELSE Reg(vm, rk)

\* n values of the stack from place from on, put at place to.
Moved(stack, from, to, n) ==
    SubSeq(stack, 1, to - 1) \o SubSeq(stack, from, from + n - 1) \o SubSeq(stack, to + n, Len(stack))
Cleared(stack, from, n) ==
    SubSeq(stack, 1, from - 1) \o [i \in 1 .. n |-> Nil] \o SubSeq(stack, from + n, Len(stack))

-----------------------------------------------------------------------------
(* Upvalues and closures. *)

UpValue(vm, u) == IF vm.upvals[u].open THEN vm.stack[vm.upvals[u].at] ELSE vm.upvals[u].value
SetUpValue(vm, u, v) ==
    IF vm.upvals[u].open THEN [vm EXCEPT !.stack[vm.upvals[u].at] = v] ELSE [vm EXCEPT !.upvals[u].value = v]

OpenAt(vm, level) == {u \in vm.open : vm.upvals[u].at = level}

\* luaF_findupval: the state with an upvalue open at level.
FindUpval(vm, level) ==
    IF OpenAt(vm, level) # {} THEN vm
    ELSE [vm EXCEPT !.upvals = Append(@, [open |-> TRUE, at |-> level, value |-> Nil]),
                    !.open = @ \cup {Len(vm.upvals) + 1}]

\* luaF_close: the upvalues from level on keep the value they had in the stack.
CloseOne(vm, u) ==
    [vm EXCEPT !.open = @ \ {u}, !.upvals[u] = [open |-> FALSE, at |-> 0, value |-> UpValue(vm, u)]]
CloseUpvals(vm, level) ==
    FoldSet(LAMBDA u, v : CloseOne(v, u), vm, {u \in vm.open : vm.upvals[u].at >= level})

\* The place of an upvalue: of the stack, or its own.
Place(vm, u) == IF vm.upvals[u].open THEN <<"stack", vm.upvals[u].at>> ELSE <<"own", u>>
Wanted(vm, desc) ==
    IF desc.instack THEN <<"stack", Frame(vm).base + desc.idx>> ELSE Place(vm, Closure(vm).ups[desc.idx + 1])

\* getcached: the last closure of the prototype will do if its upvalues are the same.
Reusable(vm, p) ==
    /\ p.id \in DOMAIN vm.cache
    /\ \A i \in DOMAIN p.ups : Place(vm, vm.closures[vm.cache[p.id]].ups[i]) = Wanted(vm, p.ups[i])

\* pushclosure: the prototype is never black here.
RECURSIVE Capture(_, _, _)
Capture(vm, descs, i) ==
    IF i > Len(descs) THEN vm
    ELSE Capture(IF descs[i].instack THEN FindUpval(vm, Frame(vm).base + descs[i].idx) ELSE vm, descs, i + 1)
UpvalFor(vm, desc) ==
    IF desc.instack THEN CHOOSE u \in OpenAt(vm, Frame(vm).base + desc.idx) : TRUE
    ELSE Closure(vm).ups[desc.idx + 1]
NewClosure(vm, p, a) ==
    LET id == Len(vm.closures) + 1
    IN  [SetReg(vm, a, <<"function", id>>) EXCEPT
            !.closures = Append(@, [p |-> p, ups |-> [i \in DOMAIN p.ups |-> UpvalFor(vm, p.ups[i])]]),
            !.cache = (p.id :> id) @@ @]
MakeClosure(vm, p, a) ==
    IF Reusable(vm, p) THEN SetReg(vm, a, <<"function", vm.cache[p.id]>>)
    ELSE NewClosure(Capture(vm, p.ups, 1), p, a)

-----------------------------------------------------------------------------
(* Calls and returns. *)

\* adjust_varargs: the parameters are copied above the arguments.
AdjustVarargs(vm, p, actual) ==
    LET fixed == IF actual < p.numparams THEN actual ELSE p.numparams
        args == vm.top - actual
        moved == Cleared(Moved(vm.stack, args, vm.top, fixed), args, fixed)
    IN  [vm EXCEPT !.stack = Cleared(moved, vm.top + fixed, p.numparams - fixed)]
FixedArgs(vm, p, actual) ==
    IF actual >= p.numparams THEN vm
    ELSE [vm EXCEPT !.stack = Cleared(@, vm.top, p.numparams - actual)]

Enter(vm, func, base, nresults, p) ==
    [vm EXCEPT !.top = base + p.maxstacksize,
               !.ci = Append(@, [func |-> func, base |-> base, top |-> base + p.maxstacksize, pc |-> 0,
                                 cl |-> vm.stack[func][2], nresults |-> nresults])]
\* luaD_precall of a Lua function; without __call anything else is an error.
PreCall(vm, func, nresults) ==
    LET p == vm.closures[vm.stack[func][2]].p
        actual == vm.top - func - 1
    IN  CASE vm.stack[func][1] # "function" -> Fails(vm, "attempt to call")
          [] vm.stack[func][1] = "function" /\ vm.top + p.maxstacksize + p.numparams > StackSize ->
               Fails(vm, "stack overflow")
          [] OTHER -> IF p.vararg THEN Enter(AdjustVarargs(vm, p, actual), func, vm.top, nresults, p)
                      ELSE Enter(FixedArgs(vm, p, actual), func, func + 1, nresults, p)

\* moveresults
MoveResults(vm, first, res, nres, wanted) ==
    IF wanted = MultRet
    THEN [vm EXCEPT !.stack = Moved(@, first, res, nres), !.top = res + nres]
    ELSE LET n == IF wanted <= nres THEN wanted ELSE nres
         IN  [vm EXCEPT !.stack = Cleared(Moved(@, first, res, n), res + n, wanted - n), !.top = res + wanted]
\* luaD_poscall, and OP_RETURN after it.
Resumed(vm, nresults) == IF nresults = MultRet THEN vm ELSE [vm EXCEPT !.top = Frame(vm).top]
PosCall(vm, first, nres) ==
    LET f == Frame(vm)
    IN  IF Len(vm.ci) = 1
        THEN [vm EXCEPT !.ci = <<>>, !.results = SubSeq(vm.stack, first, first + nres - 1)]
        ELSE Resumed(MoveResults([vm EXCEPT !.ci = Front(@)], first, f.func, nres, f.nresults), f.nresults)
CloseFrame(vm) == IF Closure(vm).p.p # <<>> THEN CloseUpvals(vm, Frame(vm).base) ELSE vm

\* The new frame is put in the place of the one under it.
Replaced(vm) ==
    LET new == Frame(vm)
        old == vm.ci[Len(vm.ci) - 1]
        lim == new.base + vm.closures[new.cl].p.numparams
        base == old.func + (new.base - new.func)
        size == new.top - new.base
    IN  [vm EXCEPT !.stack = Moved(@, new.func, old.func, lim - new.func),
                   !.top = base + size,
                   !.ci = Append(Front(Front(@)), [old EXCEPT !.base = base, !.top = base + size,
                                                              !.pc = new.pc, !.cl = new.cl])]
Called(vm) == IF vm.error # "" THEN vm ELSE Replaced(vm)
CloseUnder(vm, vm0) ==
    IF vm.error # "" \/ Closure(vm0).p.p = <<>> THEN vm ELSE CloseUpvals(vm, Frame(vm0).base)
TailCalled(vm, func) == Called(CloseUnder(PreCall(vm, func, MultRet), vm))

-----------------------------------------------------------------------------
(* Tables, arithmetic and conditions. *)

GetTable(vm, t, k, a) ==
    IF t[1] # "table" THEN Fails(vm, "attempt to index")
    ELSE SetReg(vm, a, IF k \in DOMAIN vm.tables[t[2]] THEN vm.tables[t[2]][k] ELSE Nil)
Put(vm, id, k, v) == [vm EXCEPT !.tables[id] = (k :> v) @@ @]
SetTable(vm, t, k, v) ==
    CASE t[1] # "table" -> Fails(vm, "attempt to index")
      [] t[1] = "table" /\ k = Nil -> Fails(vm, "index is nil")
      [] OTHER -> Put(vm, t[2], k, v)
\* luaH_getn of a table that is a sequence.
Border(table) ==
    CHOOSE n \in 0 .. Cardinality(DOMAIN table) :
        /\ \A i \in 1 .. n : Num(i) \in DOMAIN table /\ table[Num(i)] # Nil
        /\ Num(n + 1) \notin DOMAIN table \/ table[Num(n + 1)] = Nil

LenTo(vm, a, v) ==
    CASE v[1] = "table" -> SetReg(vm, a, Num(Border(vm.tables[v[2]])))
      [] v[1] = "str"   -> SetReg(vm, a, Num(Len(v[2])))
      [] OTHER          -> Fails(vm, "attempt to get length")

Operator == [i \in {"ADD", "SUB", "MUL", "IDIV", "MOD"} |-> CHOOSE op \in Arithmetic : Opcode[op] = i]
ArithTo(vm, a, op, x, y) ==
    CASE ~IsInt(x) \/ ~IsInt(y) -> Fails(vm, "attempt to perform arithmetic")
      [] IsInt(x) /\ IsInt(y) /\ ~ValidOp(op, y[2]) -> Fails(vm, "attempt to perform 'n//0'")
      [] OTHER -> SetReg(vm, a, Num(Arith(op, x[2], y[2])))

\* luaV_concat of the registers from b to c.
Text(v) == IF IsInt(v) THEN ToString(v[2]) ELSE v[2]
RECURSIVE ConcatText(_, _, _)
ConcatText(vm, b, c) == IF b > c THEN "" ELSE Text(Reg(vm, b)) \o ConcatText(vm, b + 1, c)
Concat(vm, a, b, c) ==
    IF \E r \in b .. c : Reg(vm, r)[1] \notin {"int", "str"} THEN Fails(vm, "attempt to concatenate")
    ELSE SetReg(vm, a, <<"str", ConcatText(vm, b, c)>>)

\* dojump and donextjump
DoJump(vm, i, pc) ==
    SetPc(IF i.a # 0 THEN CloseUpvals(vm, Frame(vm).base + i.a - 1) ELSE vm, pc + i.b)
Skip(vm) == SetPc(vm, Frame(vm).pc + 1)
NextJump(vm) == DoJump(vm, Closure(vm).p.code[Frame(vm).pc + 1], Frame(vm).pc + 1)
Branch(vm, jumps) == IF jumps THEN NextJump(vm) ELSE Skip(vm)
Compare(vm, i, x, y) ==
    IF ~IsInt(x) \/ ~IsInt(y) THEN Fails(vm, "attempt to compare")
    ELSE Branch(vm, (IF i.op = "LT" THEN x[2] < y[2] ELSE x[2] <= y[2]) = (i.a = 1))

\* Loops over integers.
ForPrep(vm, i) ==
    IF \E r \in 0 .. 2 : ~IsInt(Reg(vm, i.a + r)) THEN Fails(vm, "'for' value must be a number")
    ELSE SetPc(SetReg(vm, i.a, Num(Reg(vm, i.a)[2] - Reg(vm, i.a + 2)[2])), Frame(vm).pc + i.b)
ForLoop(vm, i) ==
    LET step == Reg(vm, i.a + 2)[2]
        idx == Reg(vm, i.a)[2] + step
        limit == Reg(vm, i.a + 1)[2]
    IN  IF IF 0 < step THEN idx <= limit ELSE limit <= idx
        THEN SetPc(SetReg(SetReg(vm, i.a, Num(idx)), i.a + 3, Num(idx)), Frame(vm).pc + i.b)
        ELSE vm
TForCall(vm, i) ==
    LET ra == Frame(vm).base + i.a
    IN  PreCall([vm EXCEPT !.stack = Moved(@, ra, ra + 3, 3), !.top = ra + 6], ra + 3, i.c)
TForLoop(vm, i) ==
    IF Reg(vm, i.a + 1) = Nil THEN vm
    ELSE SetPc(SetReg(vm, i.a, Reg(vm, i.a + 1)), Frame(vm).pc + i.b)

SetItems(vm, i) ==
    LET ra == Frame(vm).base + i.a
        n == IF i.b = 0 THEN vm.top - ra - 1 ELSE i.b
        before == (i.c - 1) * FieldsPerFlush
        items == [k \in {Num(before + j) : j \in 1 .. n} |-> vm.stack[ra + k[2] - before]]
    IN  [vm EXCEPT !.tables[vm.stack[ra][2]] = items @@ @, !.top = Frame(vm).top]

VarArgs(vm, i) ==
    LET f == Frame(vm)
        n == f.base - f.func - Closure(vm).p.numparams - 1
        have == IF n < 0 THEN 0 ELSE n
        b == IF i.b = 0 THEN have ELSE i.b - 1
        ra == f.base + i.a
        copied == IF b < have THEN b ELSE have
    IN  IF ra + b > StackSize THEN Fails(vm, "stack overflow")
        ELSE [vm EXCEPT !.stack = Cleared(Moved(@, f.base - have, ra, copied), ra + copied, b - copied),
                        !.top = IF i.b = 0 THEN ra + have ELSE @]

-----------------------------------------------------------------------------
(* luaV_execute *)

\* OP_CALL, OP_TAILCALL: b - 1 arguments, or all up to the top.
WithArgs(vm, i) == IF i.b = 0 THEN vm ELSE [vm EXCEPT !.top = Frame(vm).base + i.a + i.b]
Returned(vm, i) ==
    LET ra == Frame(vm).base + i.a
    IN  PosCall(vm, ra, IF i.b = 0 THEN vm.top - ra ELSE i.b - 1)

\* Moves between registers, constants, upvalues and tables.
MoveOp(vm, i) ==
    CASE i.op = "MOVE"     -> SetReg(vm, i.a, Reg(vm, i.b))
      [] i.op = "LOADK"    -> SetReg(vm, i.a, Closure(vm).p.k[i.b + 1])
      [] i.op = "LOADBOOL" -> LET v == SetReg(vm, i.a, Bool(i.b = 1)) IN IF i.c = 1 THEN Skip(v) ELSE v
      [] i.op = "LOADNIL"  -> [vm EXCEPT !.stack = Cleared(@, Frame(vm).base + i.a, i.b + 1)]
      [] i.op = "GETUPVAL" -> SetReg(vm, i.a, UpValue(vm, Closure(vm).ups[i.b + 1]))
      [] i.op = "GETTABUP" -> GetTable(vm, UpValue(vm, Closure(vm).ups[i.b + 1]), Operand(vm, i.c), i.a)
      [] i.op = "GETTABLE" -> GetTable(vm, Reg(vm, i.b), Operand(vm, i.c), i.a)
      [] i.op = "SETTABUP" -> SetTable(vm, UpValue(vm, Closure(vm).ups[i.a + 1]), Operand(vm, i.b), Operand(vm, i.c))
      [] i.op = "SETUPVAL" -> SetUpValue(vm, Closure(vm).ups[i.b + 1], Reg(vm, i.a))
      [] i.op = "SETTABLE" -> SetTable(vm, Reg(vm, i.a), Operand(vm, i.b), Operand(vm, i.c))

\* New tables and methods.
ObjectOp(vm, i) ==
    CASE i.op = "NEWTABLE" -> [SetReg(vm, i.a, <<"table", Len(vm.tables) + 1>>) EXCEPT !.tables = Append(@, <<>>)]
      [] i.op = "SELF"     -> GetTable(SetReg(vm, i.a + 1, Reg(vm, i.b)), Reg(vm, i.b), Operand(vm, i.c), i.a)

\* Operators on two numbers.
ArithOp(vm, i) == ArithTo(vm, i.a, Operator[i.op], Operand(vm, i.b), Operand(vm, i.c))

\* Operators on registers.
UnaryOp(vm, i) ==
    CASE i.op = "UNM"      -> ArithTo(vm, i.a, "-", IF IsInt(Reg(vm, i.b)) THEN Num(0) ELSE Nil, Reg(vm, i.b))
      [] i.op = "NOT"      -> SetReg(vm, i.a, Bool(IsFalse(Reg(vm, i.b))))
      [] i.op = "LEN"      -> LenTo(vm, i.a, Reg(vm, i.b))
      [] i.op = "CONCAT"   -> Concat(vm, i.a, i.b, i.c)

\* Jumps and tests.
JumpOp(vm, i) ==
    CASE i.op = "JMP"      -> DoJump(vm, i, Frame(vm).pc)
      [] i.op = "EQ"       -> Branch(vm, (Operand(vm, i.b) = Operand(vm, i.c)) = (i.a = 1))
      [] i.op \in {"LT", "LE"} -> Compare(vm, i, Operand(vm, i.b), Operand(vm, i.c))
      [] i.op = "TEST"     -> Branch(vm, IsFalse(Reg(vm, i.a)) = (i.c = 0))
      [] i.op = "TESTSET"  -> IF IsFalse(Reg(vm, i.b)) = (i.c = 0) THEN NextJump(SetReg(vm, i.a, Reg(vm, i.b)))
                              ELSE Skip(vm)

\* Calls and returns.
CallOp(vm, i) ==
    CASE i.op = "CALL"     -> PreCall(WithArgs(vm, i), Frame(vm).base + i.a, i.c - 1)
      [] i.op = "TAILCALL" -> TailCalled(WithArgs(vm, i), Frame(vm).base + i.a)
      [] i.op = "RETURN"   -> Returned(CloseFrame(vm), i)

\* Loops.
LoopOp(vm, i) ==
    CASE i.op = "FORLOOP"  -> ForLoop(vm, i)
      [] i.op = "FORPREP"  -> ForPrep(vm, i)
      [] i.op = "TFORCALL" -> TForCall(vm, i)
      [] i.op = "TFORLOOP" -> TForLoop(vm, i)

\* Lists of values and closures.
ListOp(vm, i) ==
    CASE i.op = "SETLIST"  -> SetItems(vm, i)
      [] i.op = "CLOSURE"  -> MakeClosure(vm, Closure(vm).p.p[i.b + 1], i.a)
      [] i.op = "VARARG"   -> VarArgs(vm, i)

Execute(vm, i) ==
    CASE i.op \in {"MOVE", "LOADK", "LOADBOOL", "LOADNIL", "GETUPVAL", "GETTABUP", "GETTABLE",
                   "SETTABUP", "SETUPVAL", "SETTABLE"}           -> MoveOp(vm, i)
      [] i.op \in {"NEWTABLE", "SELF"}                           -> ObjectOp(vm, i)
      [] i.op \in DOMAIN Operator                                -> ArithOp(vm, i)
      [] i.op \in {"UNM", "NOT", "LEN", "CONCAT"}                -> UnaryOp(vm, i)
      [] i.op \in {"JMP", "EQ", "LT", "LE", "TEST", "TESTSET"}   -> JumpOp(vm, i)
      [] i.op \in {"CALL", "TAILCALL", "RETURN"}                 -> CallOp(vm, i)
      [] i.op \in {"FORLOOP", "FORPREP", "TFORCALL", "TFORLOOP"} -> LoopOp(vm, i)
      [] i.op \in {"SETLIST", "CLOSURE", "VARARG"}               -> ListOp(vm, i)

RECURSIVE Run(_)
Fetch(vm) == Execute([SetPc(vm, Frame(vm).pc + 1) EXCEPT !.fuel = @ - 1], Closure(vm).p.code[Frame(vm).pc + 1])
Run(vm) == IF vm.error # "" \/ vm.ci = <<>> \/ vm.fuel = 0 THEN vm ELSE Run(Fetch(vm))

\* lua_load puts the globals in the upvalue of the main function; lua_pcall calls it.
Main(p, fuel) ==
    Run(PreCall([stack |-> [i \in 1 .. StackSize |-> IF i = 1 THEN <<"function", 1>> ELSE Nil], top |-> 2,
                 ci |-> <<>>, tables |-> << <<>> >>, closures |-> <<[p |-> p, ups |-> <<1>>]>>,
                 upvals |-> <<[open |-> FALSE, at |-> 0, value |-> <<"table", 1>>]>>, open |-> {},
                 cache |-> <<>>, error |-> "", results |-> <<>>, fuel |-> fuel], 1, MultRet))
=============================================================================
