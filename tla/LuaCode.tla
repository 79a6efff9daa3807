------------------------------ MODULE LuaCode ------------------------------
(***************************************************************************)
(* The code generator of Lua (src/3rd/lua-5.3.5/src/lcode.c): instructions, *)
(* lists of jumps that wait for their target, constants, registers, and    *)
(* expressions on their way to a register.                                 *)
(*                                                                         *)
(* ls is the state of the compiler: ls.f is the function being compiled    *)
(* (FuncState with its Proto), ls.es holds the expression descriptors in   *)
(* use, the last one on top, ls.h is the scanner's table of constants,     *)
(* ls.error the first error message and ls.asserts whether every lua_assert *)
(* so far has held.  pc counts from 0; the instruction at pc is            *)
(* code[pc + 1].  An instruction has its sBx, Bx or Ax in b.               *)
(*                                                                         *)
(* Numbers are integers without a width and line information is left out.  *)
(* A definition whose name ends in Slip is a plausible mistake in the      *)
(* definition after it; no specification uses it.                           *)
(***************************************************************************)
EXTENDS Integers, Sequences, FiniteSets, SequencesExt, TLC

CONSTANTS
    MaxRegs,        \* MAXREGS
    MaxIndexRK,     \* MAXINDEXRK: the last constant an instruction can name
    FieldsPerFlush  \* LFIELDS_PER_FLUSH

NoJump == -1
NoReg == 255
MultRet == -1
BitRK == 256

Inst(op, a, b, c) == [op |-> op, a |-> a, b |-> b, c |-> c]
Test == {"EQ", "LT", "LE", "TEST", "TESTSET"}  \* testTMode
IsK(rk) == rk >= BitRK

Pc(ls) == Len(ls.f.code)
Ins(ls, pc) == ls.f.code[pc + 1]

\* luaX_syntaxerror: nothing more is read, and what happens to ls no longer counts.
Raise(ls, why) == [ls EXCEPT !.error = IF @ = "" THEN why ELSE @, !.pos = Len(ls.tokens) + 1]
Claim(ls, claim) == [ls EXCEPT !.asserts = @ /\ (ls.error # "" \/ claim)]

-----------------------------------------------------------------------------
(* Expression descriptors.  info is the number, register, constant, pc or   *)
(* upvalue; tab, idx and vt belong to VINDEXED.                             *)

Exp(k, info) ==
    [k |-> k, info |-> info, tab |-> 0, idx |-> 0, vt |-> "", t |-> NoJump, f |-> NoJump]

Top(ls) == Last(ls.es)
Under(ls) == ls.es[Len(ls.es) - 1]
Push(ls, e) == [ls EXCEPT !.es = Append(@, e)]
Pop(ls) == [ls EXCEPT !.es = Front(@)]
SetTop(ls, e) == Push(Pop(ls), e)
SetKind(ls, k, info) == SetTop(ls, [Top(ls) EXCEPT !.k = k, !.info = info])
Swap(ls) == Push(Push(Pop(Pop(ls)), Top(ls)), Under(ls))

HasJumps(e) == e.t # e.f
HasMultRet(e) == e.k \in {"VCALL", "VVARARG"}
IsNumeral(e) == ~HasJumps(e) /\ e.k = "VKINT"
Constant == {"VK", "VKINT", "VTRUE"}  \* the constants that are true

-----------------------------------------------------------------------------
(* Lists of jumps, linked through the jumps themselves.                     *)

GetJump(code, pc) == IF code[pc + 1].b = NoJump THEN NoJump ELSE pc + 1 + code[pc + 1].b
FixJump(code, pc, dest) == [code EXCEPT ![pc + 1].b = dest - (pc + 1)]

RECURSIVE Jumps(_, _)
Jumps(code, list) == IF list = NoJump THEN <<>> ELSE <<list>> \o Jumps(code, GetJump(code, list))

\* luaK_concat: the code after it, and the list.
Linked(code, l1, l2) ==
    IF l1 = NoJump \/ l2 = NoJump THEN code ELSE FixJump(code, Last(Jumps(code, l1)), l2)
Joined(l1, l2) == IF l1 = NoJump THEN l2 ELSE l1

\* getjumpcontrol, as an index of the code.
Control(code, pc) == IF pc >= 1 /\ code[pc].op \in Test THEN pc ELSE pc + 1
ProducesValue(code, pc) == code[Control(code, pc)].op = "TESTSET"

PatchTestReg(code, node, reg) ==
    LET i == Control(code, node)
    IN  IF ~ProducesValue(code, node) THEN code
        ELSE IF reg # NoReg /\ reg # code[i].b THEN [code EXCEPT ![i].a = reg]
        ELSE [code EXCEPT ![i] = Inst("TEST", code[i].b, 0, code[i].c)]

RECURSIVE RemoveValues(_, _)
RemoveValues(code, list) ==
    IF list = NoJump THEN code
    ELSE RemoveValues(PatchTestReg(code, list, NoReg), GetJump(code, list))

RECURSIVE PatchListAux(_, _, _, _, _)
PatchListAux(code, list, vtarget, reg, dtarget) ==
    IF list = NoJump THEN code
    ELSE PatchListAux(
            FixJump(PatchTestReg(code, list, reg), list,
                    IF ProducesValue(code, list) THEN vtarget ELSE dtarget),
            GetJump(code, list), vtarget, reg, dtarget)

NeedValue(code, list) == \E i \in DOMAIN Jumps(code, list) : ~ProducesValue(code, Jumps(code, list)[i])

DischargeJpc(f) ==
    [f EXCEPT !.code = PatchListAux(@, f.jpc, Len(@), NoReg, Len(@)), !.jpc = NoJump]

-----------------------------------------------------------------------------
(* Emitting. *)

Emit(ls, op, a, b, c) ==
    [ls EXCEPT !.f = [DischargeJpc(ls.f) EXCEPT !.code = Append(@, Inst(op, a, b, c))]]

GetLabel(ls) == [ls EXCEPT !.f.lasttarget = Pc(ls)]

\* luaK_jump: jumps to the jump go with it.  It is the instruction at Pc - 1.
Jump(ls) ==
    [ls EXCEPT !.f.code = Linked(Append(@, Inst("JMP", 0, NoJump, 0)), Len(@), ls.f.jpc),
               !.f.jpc = NoJump]
CondJump(ls, op, a, b, c) == Jump(Emit(ls, op, a, b, c))

PatchToHere(ls, list) ==
    [ls EXCEPT !.f.lasttarget = Pc(ls),
               !.f.code = Linked(@, ls.f.jpc, list), !.f.jpc = Joined(@, list)]

PatchList(ls, list, target) ==
    IF target = Pc(ls) THEN PatchToHere(ls, list)
    ELSE Claim([ls EXCEPT !.f.code = PatchListAux(@, list, target, NoReg, target)], target < Pc(ls))

\* luaK_patchclose: the jumps close the upvalues from level on.
RECURSIVE Closing(_, _, _)
Closing(code, list, level) ==
    IF list = NoJump THEN code
    ELSE Closing([code EXCEPT ![list + 1].a = level + 1], GetJump(code, list), level)
PatchClose(ls, list, level) ==
    Claim([ls EXCEPT !.f.code = Closing(@, list, level)],
          \A pc \in ToSet(Jumps(ls.f.code, list)) :
              LET i == Ins(ls, pc) IN i.op = "JMP" /\ (i.a = 0 \/ i.a >= level + 1))

\* luaK_nil: joined with the LOADNIL before it, unless something jumps here.
LoadNil(ls, from, n) ==
    LET prev == Last(ls.f.code)
        l == from + n - 1
        pl == prev.a + prev.b
        lo == IF prev.a < from THEN prev.a ELSE from
        hi == IF pl > l THEN pl ELSE l
    IN  IF /\ Pc(ls) > ls.f.lasttarget
           /\ prev.op = "LOADNIL"
           /\ \/ prev.a <= from /\ from <= pl + 1
              \/ from <= prev.a /\ prev.a <= l + 1
        THEN [ls EXCEPT !.f.code[Pc(ls)] = Inst("LOADNIL", lo, hi - lo, 0)]
        ELSE Emit(ls, "LOADNIL", from, n - 1, 0)

Ret(ls, first, nret) == Emit(ls, "RETURN", first, nret + 1, 0)

SetList(ls, base, nelems, tostore) ==
    [Emit(ls, "SETLIST", base, IF tostore = MultRet THEN 0 ELSE tostore,
          (nelems - 1) \div FieldsPerFlush + 1) EXCEPT !.f.freereg = base + 1]

-----------------------------------------------------------------------------
(* Registers and constants. *)

CheckStack(ls, n) ==
    LET newstack == ls.f.freereg + n
    IN  IF newstack <= ls.f.maxstacksize THEN ls
        ELSE IF newstack >= MaxRegs THEN Raise(ls, "too many registers")
        ELSE [ls EXCEPT !.f.maxstacksize = newstack]
ReserveRegs(ls, n) == [CheckStack(ls, n) EXCEPT !.f.freereg = @ + n]

FreeReg(ls, reg) ==
    IF IsK(reg) \/ reg < ls.f.nactvar THEN ls
    ELSE Claim([ls EXCEPT !.f.freereg = @ - 1], reg = ls.f.freereg - 1)
FreeExp(ls, e) == IF e.k = "VNONRELOC" THEN FreeReg(ls, e.info) ELSE ls
\* The slip: in the order of the operands.
FreeExpsSlip(ls, e1, e2) == FreeExp(FreeExp(ls, e1), e2)
FreeExps(ls, e1, e2) ==
    IF e1.k = "VNONRELOC" /\ e2.k = "VNONRELOC" /\ e1.info > e2.info
    THEN FreeExp(FreeExp(ls, e1), e2)
    ELSE FreeExp(FreeExp(ls, e2), e1)

\* addk: the scanner's table remembers an index for all functions, so the constant
\* found there is compared.
AddK(ls, v) ==
    LET k == ls.h[v]
        known == v \in DOMAIN ls.h /\ k < Len(ls.f.k) /\ ls.f.k[k + 1] = v
        new == Len(ls.f.k)
    IN  IF known THEN [ls |-> ls, k |-> k]
        ELSE [ls |-> [ls EXCEPT !.h = (v :> new) @@ @, !.f.k = Append(@, v)], k |-> new]

\* The expression on top becomes a constant of the function.
Value(e) == CASE e.k = "VKINT"  -> <<"int", e.info>>
              [] e.k = "VTRUE"  -> <<"bool", TRUE>>
              [] e.k = "VFALSE" -> <<"bool", FALSE>>
              [] e.k = "VNIL"   -> <<"nil">>
InK(r) == SetKind(r.ls, "VK", r.k)
ToConstant(ls) == IF Top(ls).k = "VK" THEN ls ELSE InK(AddK(ls, Value(Top(ls))))

-----------------------------------------------------------------------------
(* From an expression to a register; the expression is on top. *)

RECURSIVE Discharge2Reg(_, _), Exp2Reg(_, _), Exp2NextReg(_), Exp2AnyReg(_), Exp2RK(_)

SetReturns(ls, nresults) ==
    LET e == Top(ls)
    IN  CASE e.k = "VCALL" -> [ls EXCEPT !.f.code[e.info + 1].c = nresults + 1]
          [] e.k = "VVARARG" -> ReserveRegs([ls EXCEPT !.f.code[e.info + 1].b = nresults + 1,
                                                       !.f.code[e.info + 1].a = ls.f.freereg], 1)
          [] OTHER -> Claim(ls, nresults = MultRet)

SetOneRet(ls) ==
    LET e == Top(ls)
    IN  CASE e.k = "VCALL" -> SetKind(ls, "VNONRELOC", Ins(ls, e.info).a)
          [] e.k = "VVARARG" -> SetKind([ls EXCEPT !.f.code[e.info + 1].b = 2], "VRELOCABLE", e.info)
          [] OTHER -> ls

\* The value will be where the last instruction puts it.
Relocable(ls) == SetKind(ls, "VRELOCABLE", Pc(ls) - 1)

DischargeVars(ls) ==
    LET e == Top(ls)
    IN  CASE e.k = "VLOCAL" -> SetKind(ls, "VNONRELOC", e.info)
          [] e.k = "VUPVAL" -> Relocable(Emit(ls, "GETUPVAL", 0, e.info, 0))
          [] e.k = "VINDEXED" /\ e.vt = "VLOCAL" ->
               Relocable(Emit(FreeReg(FreeReg(ls, e.idx), e.tab), "GETTABLE", 0, e.tab, e.idx))
          [] e.k = "VINDEXED" /\ e.vt = "VUPVAL" ->
               Relocable(Emit(FreeReg(ls, e.idx), "GETTABUP", 0, e.tab, e.idx))
          [] OTHER -> SetOneRet(ls)

\* The instruction that puts the value of the expression in reg.
Load(ls, reg) ==
    LET e == Top(ls)
    IN  CASE e.k = "VNIL" -> LoadNil(ls, reg, 1)
          [] e.k \in {"VFALSE", "VTRUE"} -> Emit(ls, "LOADBOOL", reg, IF e.k = "VTRUE" THEN 1 ELSE 0, 0)
          [] e.k \in {"VK", "VKINT"} -> LET l == ToConstant(ls) IN Emit(l, "LOADK", reg, Top(l).info, 0)
          [] e.k = "VRELOCABLE" -> [ls EXCEPT !.f.code[e.info + 1].a = reg]
          [] e.k = "VNONRELOC" /\ e.info # reg -> Emit(ls, "MOVE", reg, e.info, 0)
          [] OTHER -> ls
InReg(ls, reg) == IF Top(ls).k = "VJMP" THEN ls ELSE SetKind(ls, "VNONRELOC", reg)
Discharge2Reg(ls, reg) == InReg(Load(DischargeVars(ls), reg), reg)

ToFreeReg(ls) == Discharge2Reg(ls, ls.f.freereg - 1)
Discharge2AnyReg(ls) == IF Top(ls).k = "VNONRELOC" THEN ls ELSE ToFreeReg(ReserveRegs(ls, 1))

\* A jump joins the list of exits of the expression.
ExitIfTrue(ls, pc) ==
    LET e == Top(ls)
    IN  SetTop([ls EXCEPT !.f.code = Linked(@, e.t, pc)], [e EXCEPT !.t = Joined(@, pc)])
ExitIfFalse(ls, pc) ==
    LET e == Top(ls)
    IN  SetTop([ls EXCEPT !.f.code = Linked(@, e.f, pc)], [e EXCEPT !.f = Joined(@, pc)])

\* The end of exp2reg: exits with a value go to the end, the others to the
\* instructions that load false and true.
Exits(ls, reg, p_f, p_t) ==
    LET e == Top(ls)
    IN  [GetLabel(ls) EXCEPT !.f.code =
            PatchListAux(PatchListAux(@, e.f, Pc(ls), reg, p_f), e.t, Pc(ls), reg, p_t)]
LoadBools(ls, reg) ==
    Emit(GetLabel(Emit(GetLabel(ls), "LOADBOOL", reg, 0, 1)), "LOADBOOL", reg, 1, 0)
WithBools(ls, reg, fj) == Exits(PatchToHere(ls, fj), reg, Pc(ls) - 2, Pc(ls) - 1)
Settle(ls, reg) ==
    LET e == Top(ls)
    IN  IF ~HasJumps(e) THEN ls
        ELSE IF ~NeedValue(ls.f.code, e.t) /\ ~NeedValue(ls.f.code, e.f)
        THEN Exits(ls, reg, NoJump, NoJump)
        ELSE IF e.k = "VJMP" THEN WithBools(LoadBools(ls, reg), reg, NoJump)
        ELSE WithBools(LoadBools(Jump(ls), reg), reg, Pc(ls))
OwnJump(ls) == IF Top(ls).k = "VJMP" THEN ExitIfTrue(ls, Top(ls).info) ELSE ls
Exp2Reg(ls, reg) == SetTop(Settle(OwnJump(Discharge2Reg(ls, reg)), reg), Exp("VNONRELOC", reg))

Discharged(ls) == FreeExp(ls, Top(ls))
LastReg(ls) == Exp2Reg(ls, ls.f.freereg - 1)
Exp2NextReg(ls) == LastReg(ReserveRegs(Discharged(DischargeVars(ls)), 1))

AnyReg(ls) ==
    LET e == Top(ls)
    IN  IF e.k # "VNONRELOC" \/ (HasJumps(e) /\ e.info < ls.f.nactvar) THEN Exp2NextReg(ls)
        ELSE IF HasJumps(e) THEN Exp2Reg(ls, e.info)
        ELSE ls
Exp2AnyReg(ls) == AnyReg(DischargeVars(ls))
Exp2AnyRegUp(ls) == IF Top(ls).k # "VUPVAL" \/ HasJumps(Top(ls)) THEN Exp2AnyReg(ls) ELSE ls
Exp2Val(ls) == IF HasJumps(Top(ls)) THEN Exp2AnyReg(ls) ELSE DischargeVars(ls)

\* luaK_exp2RK, and the operand it returns.
RK(e) == IF e.k = "VK" THEN e.info + BitRK ELSE e.info
SmallK(ls) == IF Top(ls).info <= MaxIndexRK THEN ls ELSE Exp2AnyReg(ls)
ConstantRK(ls) ==
    IF Top(ls).k \in Constant \cup {"VFALSE", "VNIL"} THEN SmallK(ToConstant(ls)) ELSE Exp2AnyReg(ls)
Exp2RK(ls) == ConstantRK(Exp2Val(ls))

-----------------------------------------------------------------------------
(* Variables, tables and conditions. *)

\* luaK_storevar: the expression on top goes to var and is popped.
StoreFrom(ls, op, a, b, c) == Pop(Discharged(Emit(ls, op, a, b, c)))
StoreVar(ls, var) ==
    CASE var.k = "VLOCAL" -> Pop(Exp2Reg(Discharged(ls), var.info))
      [] var.k = "VUPVAL" -> LET l == Exp2AnyReg(ls) IN StoreFrom(l, "SETUPVAL", Top(l).info, var.info, 0)
      [] var.k = "VINDEXED" ->
           LET l == Exp2RK(ls)
           IN  StoreFrom(l, IF var.vt = "VLOCAL" THEN "SETTABLE" ELSE "SETTABUP", var.tab, var.idx, RK(Top(l)))
      [] OTHER -> Raise(Pop(ls), "syntax error")

\* luaK_indexed: the key is on top of the table.
Indexed(ls) ==
    LET l == Exp2RK(ls)
        t == Under(l)
    IN  Claim(Push(Pop(Pop(l)), [t EXCEPT !.k = "VINDEXED", !.tab = t.info, !.idx = RK(Top(l)),
                                           !.vt = IF t.k = "VUPVAL" THEN "VUPVAL" ELSE "VLOCAL"]),
               ~HasJumps(t) /\ t.k \in {"VNONRELOC", "VLOCAL", "VUPVAL"})

\* luaK_self: the key is on top of the object.
SelfCode(ls, base, ereg) == Pop(Discharged(Emit(ls, "SELF", base, ereg, RK(Top(ls)))))
SelfRegs(ls, base, ereg, key) ==
    SelfCode(Exp2RK(Push(ReserveRegs(SetKind(ls, "VNONRELOC", base), 2), key)), base, ereg)
SelfBase(ls, ereg, key) == SelfRegs(ls, ls.f.freereg, ereg, key)
SelfOf(ls, key) == SelfBase(Discharged(ls), Top(ls).info, key)
Self(ls) == SelfOf(Exp2AnyReg(Pop(ls)), Top(ls))

NegateCondition(ls) ==
    LET i == Control(ls.f.code, Top(ls).info)
    IN  Claim([ls EXCEPT !.f.code[i].a = 1 - @], ls.f.code[i].op \in Test \ {"TEST", "TESTSET"})

\* jumponcond: the jump is the instruction at Pc - 1.
OnValue(ls, cond) == CondJump(Discharged(ls), "TESTSET", NoReg, Top(ls).info, cond)
JumpOnCond(ls, cond) ==
    LET e == Top(ls)
    IN  IF e.k = "VRELOCABLE" /\ Ins(ls, e.info).op = "NOT"
        THEN CondJump([ls EXCEPT !.f.code = Front(@)], "TEST", Ins(ls, e.info).b, 0, 1 - cond)
        ELSE OnValue(Discharge2AnyReg(ls), cond)

NoExits(ls, which) == SetTop(ls, IF which THEN [Top(ls) EXCEPT !.t = NoJump] ELSE [Top(ls) EXCEPT !.f = NoJump])
ThroughIfTrue(ls, pc) == LET l == ExitIfFalse(ls, pc) IN NoExits(PatchToHere(l, Top(l).t), TRUE)
ThroughIfFalse(ls, pc) == LET l == ExitIfTrue(ls, pc) IN NoExits(PatchToHere(l, Top(l).f), FALSE)
JumpIfFalse(ls) == ThroughIfTrue(ls, Pc(ls) - 1)
JumpIfTrue(ls) == ThroughIfFalse(ls, Pc(ls) - 1)
IfTrue(ls) ==
    CASE Top(ls).k = "VJMP"     -> ThroughIfTrue(NegateCondition(ls), Top(ls).info)
      [] Top(ls).k \in Constant -> ThroughIfTrue(ls, NoJump)
      [] OTHER                  -> JumpIfFalse(JumpOnCond(ls, 0))
IfFalse(ls) ==
    CASE Top(ls).k = "VJMP"               -> ThroughIfFalse(ls, Top(ls).info)
      [] Top(ls).k \in {"VNIL", "VFALSE"} -> ThroughIfFalse(ls, NoJump)
      [] OTHER                            -> JumpIfTrue(JumpOnCond(ls, 1))
GoIfTrue(ls) == IfTrue(DischargeVars(ls))
GoIfFalse(ls) == IfFalse(DischargeVars(ls))

-----------------------------------------------------------------------------
(* Operators. *)

Opcode == [op \in {"+", "-", "*", "//", "%"} |->
             CASE op = "+" -> "ADD" [] op = "-" -> "SUB" [] op = "*" -> "MUL"
               [] op = "//" -> "IDIV" [] op = "%" -> "MOD"]
Arithmetic == DOMAIN Opcode
Comparison == {"==", "~=", "<", "<=", ">", ">="}

\* validop, and luaO_arith on integers.
ValidOp(op, v2) == op \in {"//", "%"} => v2 # 0
Floor(a, b) == IF b > 0 THEN a \div b ELSE (-a) \div (-b)
Arith(op, a, b) ==
    CASE op = "+" -> a + b [] op = "-" -> a - b [] op = "*" -> a * b
      [] op = "//" -> Floor(a, b) [] op = "%" -> a - b * Floor(a, b)

InterchangeLists(ls) ==
    LET e == Top(ls)
    IN  SetTop([ls EXCEPT !.f.code = RemoveValues(RemoveValues(@, e.t), e.f)], [e EXCEPT !.t = e.f, !.f = e.t])
NotReg(ls) == Relocable(Emit(Discharged(ls), "NOT", 0, Top(ls).info, 0))
NotValue(ls) ==
    CASE Top(ls).k \in {"VNIL", "VFALSE"} -> SetKind(ls, "VTRUE", 0)
      [] Top(ls).k \in Constant           -> SetKind(ls, "VFALSE", 0)
      [] Top(ls).k = "VJMP"               -> NegateCondition(ls)
      [] OTHER                            -> NotReg(Discharge2AnyReg(ls))
CodeNot(ls) == InterchangeLists(NotValue(DischargeVars(ls)))

UnReg(ls, op) == Relocable(Emit(Discharged(ls), op, 0, Top(ls).info, 0))
CodeUnExpVal(ls, op) == UnReg(Exp2AnyReg(ls), op)

Prefix(ls, op) ==
    CASE op = "not" -> CodeNot(ls)
      [] op = "#" -> CodeUnExpVal(ls, "LEN")
      [] op = "-" -> IF IsNumeral(Top(ls)) THEN SetKind(ls, "VKINT", -Top(ls).info)
                     ELSE CodeUnExpVal(ls, "UNM")

Infix(ls, op) ==
    CASE op = "and" -> GoIfTrue(ls)
      [] op = "or"  -> GoIfFalse(ls)
      [] op = ".."  -> Exp2NextReg(ls)
      [] OTHER      -> IF op \in Arithmetic /\ IsNumeral(Top(ls)) THEN ls ELSE Exp2RK(ls)

\* The operands are the two expressions on top; the result takes their place.
BinRegs(ls, op) ==
    LET e1 == Under(ls)
        e2 == Top(ls)
    IN  Relocable(Pop(Emit(FreeExps(ls, e1, e2), op, 0, RK(e1), RK(e2))))
CodeBinExpVal(ls, op) == BinRegs(Swap(Exp2RK(Swap(Exp2RK(ls)))), op)

CompRegs(ls, op) ==
    LET e1 == Under(ls)
        e2 == Top(ls)
        l == Claim(Pop(FreeExps(ls, e1, e2)), e1.k \in {"VK", "VNONRELOC"})
        Cond(test, a, b, c) == CondJump(l, test, a, b, c)
    IN  CASE op = "~=" -> Cond("EQ", 0, RK(e1), RK(e2))
          [] op = "==" -> Cond("EQ", 1, RK(e1), RK(e2))
          [] op = "<"  -> Cond("LT", 1, RK(e1), RK(e2))
          [] op = "<=" -> Cond("LE", 1, RK(e1), RK(e2))
          [] op = ">"  -> Cond("LT", 1, RK(e2), RK(e1))
          [] op = ">=" -> Cond("LE", 1, RK(e2), RK(e1))
LastJump(ls) == SetKind(ls, "VJMP", Pc(ls) - 1)
CodeComp(ls, op) == LastJump(CompRegs(Exp2RK(ls), op))

\* and, or: e2 takes the exits of e1.
TakeExits(ls, e1, op) ==
    IF op = "and" THEN Claim(ExitIfFalse(ls, e1.f), e1.t = NoJump) ELSE Claim(ExitIfTrue(ls, e1.t), e1.f = NoJump)
Logical(ls, op) == TakeExits(Push(Pop(Pop(ls)), Top(ls)), Under(ls), op)

\* a .. (b .. c) is one instruction.
Concatenated(ls) ==
    LET e1 == Under(ls)
        e2 == Top(ls)
    IN  IF e2.k = "VRELOCABLE" /\ Ins(ls, e2.info).op = "CONCAT"
        THEN Claim(SetKind(Pop([FreeExp(ls, e1) EXCEPT !.f.code[e2.info + 1].b = e1.info]), "VRELOCABLE", e2.info),
                    e1.info = Ins(ls, e2.info).b - 1)
        ELSE CodeBinExpVal(Exp2NextReg(ls), "CONCAT")

Foldable(ls, op) == IsNumeral(Under(ls)) /\ IsNumeral(Top(ls)) /\ ValidOp(op, Top(ls).info)
Posfix(ls, op) ==
    CASE op \in {"and", "or"}  -> Logical(DischargeVars(ls), op)
      [] op = ".."             -> Concatenated(Exp2Val(ls))
      [] op \in Arithmetic     -> IF Foldable(ls, op)
                                  THEN SetKind(Pop(ls), "VKINT", Arith(op, Under(ls).info, Top(ls).info))
                                  ELSE CodeBinExpVal(ls, Opcode[op])
      [] op \in Comparison     -> CodeComp(ls, op)
=============================================================================
