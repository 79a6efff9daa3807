----------------------------- MODULE LuaParser -----------------------------
(***************************************************************************)
(* The parser of Lua (src/3rd/lua-5.3.5/src/lparser.c): from the tokens of  *)
(* a chunk to the prototype of its main function, in one pass.              *)
(*                                                                         *)
(* A token is <<kind>> or, for a name, an integer or a string,              *)
(* <<kind, value>>; a keyword or a mark is its own kind.  An operator here  *)
(* takes the state ls of the compiler (see LuaCode) and gives the state     *)
(* after it; an expression that was read is on top of ls.es.                *)
(*   ls.tokens, ls.pos  what is read, and the current token                 *)
(*   ls.f, ls.prev      the function being compiled, those around it        *)
(*   ls.label, ls.gt    active labels and pending gotos, of all functions   *)
(*   ls.n               how many expressions the last list had              *)
(*   ls.protos          how many prototypes there are                       *)
(* A block of a function (BlockCnt) is an element of f.bl.                  *)
(*                                                                         *)
(* A definition whose name ends in Slip is the one after it with a         *)
(* plausible programming slip; no specification uses it.                   *)
(***************************************************************************)
EXTENDS LuaCode

CONSTANT MaxVars  \* MAXVARS: local variables of a function

Kind(ls) == IF ls.pos > Len(ls.tokens) THEN "EOS" ELSE ls.tokens[ls.pos][1]
LookAhead(ls) == IF ls.pos >= Len(ls.tokens) THEN "EOS" ELSE ls.tokens[ls.pos + 1][1]
SemInfo(ls) == ls.tokens[ls.pos][2]
NextToken(ls) == [ls EXCEPT !.pos = @ + 1]
TestNext(ls, what) == IF Kind(ls) = what THEN NextToken(ls) ELSE ls
CheckNext(ls, what) == IF Kind(ls) = what THEN NextToken(ls) ELSE Raise(ls, "syntax error")

\* str_checkname: the name, and the state after it.
Name(ls) == IF Kind(ls) = "name" THEN SemInfo(ls) ELSE "?"
NextName(ls) == CheckNext(ls, "name")

StringK(r) == Push(r.ls, Exp("VK", r.k))
CodeString(ls, s) == StringK(AddK(ls, <<"str", s>>))
CheckName(ls) == NextName(CodeString(ls, Name(ls)))

-----------------------------------------------------------------------------
(* Variables: local, upvalue or field of _ENV. *)

NewLocalVar(ls, name) ==
    IF Len(ls.f.actvar) + 1 > MaxVars THEN Raise(ls, "too many local variables")
    ELSE [ls EXCEPT !.f.actvar = Append(@, name)]
AdjustLocalVars(ls, n) == [ls EXCEPT !.f.nactvar = @ + n]
NewNamed(ls) == NextName(NewLocalVar(ls, Name(ls)))

\* The last place of a name in a sequence, or -1, counted from 0.
LastPlace(names, n, name) ==
    LET at == {i \in 1 .. n : names[i] = name}
    IN  IF at = {} THEN -1 ELSE (CHOOSE i \in at : \A j \in at : j <= i) - 1
SearchVar(fs, name) == LastPlace(fs.actvar, fs.nactvar, name)
SearchUpvalue(fs, name) == LastPlace([i \in DOMAIN fs.ups |-> fs.ups[i].name], Len(fs.ups), name)
NewUpvalue(fs, name, v) ==
    [fs EXCEPT !.ups = Append(@, [name |-> name, instack |-> v.k = "VLOCAL", idx |-> v.info])]
\* The slip: the innermost block is marked.
MarkUpvalSlip(fs, level) == [fs EXCEPT !.bl[Len(fs.bl)].upval = TRUE]
MarkUpval(fs, level) ==
    LET defining == CHOOSE i \in DOMAIN fs.bl :
                      /\ fs.bl[i].nactvar <= level
                      /\ \A j \in i + 1 .. Len(fs.bl) : fs.bl[j].nactvar > level
    IN  [fs EXCEPT !.bl[defining].upval = TRUE]

\* singlevaraux over the functions from the outermost to the current one.
RECURSIVE SingleVarAux(_, _, _)
Found(fss, k, info) == [fss |-> fss, k |-> k, info |-> info]
AsUpvalue(r, fs, name) ==
    IF r.k = "VVOID" THEN Found(Append(r.fss, fs), "VVOID", 0)
    ELSE Found(Append(r.fss, NewUpvalue(fs, name, r)), "VUPVAL", Len(fs.ups))
SingleVarAux(fss, name, base) ==
    IF fss = <<>> THEN Found(fss, "VVOID", 0)
    ELSE LET fs == Last(fss)
             v == SearchVar(fs, name)
             up == SearchUpvalue(fs, name)
         IN  IF v >= 0 THEN Found(IF base THEN fss ELSE Append(Front(fss), MarkUpval(fs, v)), "VLOCAL", v)
             ELSE IF up >= 0 THEN Found(fss, "VUPVAL", up)
             ELSE AsUpvalue(SingleVarAux(Front(fss), name, FALSE), fs, name)

Resolved(ls, r) == Push([ls EXCEPT !.prev = Front(r.fss), !.f = Last(r.fss)], Exp(r.k, r.info))
Resolve(ls, name) == Resolved(ls, SingleVarAux(Append(ls.prev, ls.f), name, TRUE))
Global(ls, name) == Indexed(CodeString(Resolve(ls, "_ENV"), name))
Variable(ls, name) == IF Top(ls).k = "VVOID" THEN Global(Pop(ls), name) ELSE ls
SingleVar(ls) == Variable(NextName(Resolve(ls, Name(ls))), Name(ls))

-----------------------------------------------------------------------------
(* Blocks, labels and gotos. *)

Block(ls) == Last(ls.f.bl)

EnterBlock(ls, isloop) ==
    Claim([ls EXCEPT !.f.bl = Append(@, [isloop |-> isloop, nactvar |-> ls.f.nactvar, upval |-> FALSE,
                                         firstlabel |-> Len(ls.label), firstgoto |-> Len(ls.gt)])],
          ls.f.freereg = ls.f.nactvar)

LabelEntry(ls, name, pc) == [name |-> name, nactvar |-> ls.f.nactvar, pc |-> pc]

CloseGoto(ls, g, lb) ==
    LET gt == ls.gt[g]
        closed == [PatchList(ls, gt.pc, lb.pc) EXCEPT !.gt = RemoveAt(@, g)]
    IN  IF gt.nactvar < lb.nactvar THEN Raise(closed, "jumps into the scope of a local") ELSE closed

\* findlabel: a goto goes to a label of the current block that it can see.
FindLabel(ls, g) ==
    LET gt == ls.gt[g]
        at == {i \in Block(ls).firstlabel + 1 .. Len(ls.label) : ls.label[i].name = gt.name}
        lb == ls.label[CHOOSE i \in at : \A j \in at : i <= j]
        leaves == gt.nactvar > lb.nactvar /\ (Block(ls).upval \/ Len(ls.label) > Block(ls).firstlabel)
    IN  IF at = {} THEN ls
        ELSE CloseGoto(IF leaves THEN PatchClose(ls, gt.pc, lb.nactvar) ELSE ls, g, lb)

RECURSIVE FindGotos(_, _, _)
FindGotos(ls, i, lb) ==
    IF i > Len(ls.gt) THEN ls
    ELSE IF ls.gt[i].name = lb.name THEN FindGotos(CloseGoto(ls, i, lb), i, lb)
    ELSE FindGotos(ls, i + 1, lb)

LeaveScope(ls, bl, i) ==
    IF ls.gt[i].nactvar <= bl.nactvar THEN ls
    ELSE [(IF bl.upval THEN PatchClose(ls, ls.gt[i].pc, bl.nactvar) ELSE ls)
            EXCEPT !.gt[i].nactvar = bl.nactvar]
RECURSIVE MoveGotosOut(_, _, _)
MovedOut(ls, bl, i, pending) == MoveGotosOut(ls, bl, IF Len(ls.gt) < pending THEN i ELSE i + 1)
MoveGotosOut(ls, bl, i) ==
    IF i > Len(ls.gt) THEN ls
    ELSE MovedOut(FindLabel(LeaveScope(ls, bl, i), i), bl, i, Len(ls.gt))

BreakLabel(ls) ==
    LET lb == LabelEntry(ls, "break", Pc(ls))
    IN  FindGotos([ls EXCEPT !.label = Append(@, lb)], Block(ls).firstgoto + 1, lb)

\* leaveblock
CloseUpvalues(ls) ==
    IF Len(ls.f.bl) > 1 /\ Block(ls).upval
    THEN PatchToHere(PatchClose(Jump(ls), Pc(ls), Block(ls).nactvar), Pc(ls))
    ELSE ls
ClosePendingBreaks(ls) == IF Block(ls).isloop THEN BreakLabel(ls) ELSE ls
RemoveVars(ls, bl) ==
    [ls EXCEPT !.f.bl = Front(@), !.f.actvar = SubSeq(@, 1, bl.nactvar), !.f.nactvar = bl.nactvar,
               !.f.freereg = bl.nactvar, !.label = SubSeq(@, 1, bl.firstlabel)]
Left(ls, bl) ==
    IF ls.f.bl # <<>> THEN MoveGotosOut(ls, bl, bl.firstgoto + 1)
    ELSE IF bl.firstgoto < Len(ls.gt)
    THEN Raise([ls EXCEPT !.gt = SubSeq(@, 1, bl.firstgoto)], "no visible label") ELSE ls
OutOf(ls) == Left(RemoveVars(ls, Block(ls)), Block(ls))
LeaveBlock(ls) == OutOf(ClosePendingBreaks(CloseUpvalues(ls)))

-----------------------------------------------------------------------------
(* Functions. *)

RECURSIVE StatList(_), Statement(_), SubExpr(_, _), BinaryOps(_, _), SuffixOps(_), MoreExps(_, _),
          Fields(_, _), MoreFields(_, _), Assignment(_, _), Labels(_), TestThenBlock(_), ElseIfs(_)

FuncState(id) ==
    [code |-> <<>>, k |-> <<>>, p |-> <<>>, ups |-> <<>>, actvar |-> <<>>, bl |-> <<>>,
     nactvar |-> 0, freereg |-> 0, lasttarget |-> 0, jpc |-> NoJump,
     numparams |-> 0, vararg |-> FALSE, maxstacksize |-> 2, id |-> id]
OpenFunc(ls) ==
    EnterBlock([ls EXCEPT !.prev = Append(@, ls.f), !.f = FuncState(ls.protos), !.protos = @ + 1], FALSE)
Proto(f) ==
    [code |-> f.code, k |-> f.k, p |-> f.p, ups |-> f.ups, numparams |-> f.numparams,
     vararg |-> f.vararg, maxstacksize |-> f.maxstacksize, id |-> f.id]
EndFunc(ls) == LeaveBlock(Ret(ls, 0, 0))
CloseFunc(ls) == [ls EXCEPT !.f = [Last(ls.prev) EXCEPT !.p = Append(@, Proto(ls.f))], !.prev = Front(@)]
CodeClosure(ls) == Exp2NextReg(Push(Emit(ls, "CLOSURE", 0, Len(ls.f.p) - 1, 0), Exp("VRELOCABLE", Pc(ls))))

RECURSIVE Params(_)
Params(ls) ==
    CASE Kind(ls) = "name" -> LET l == NewNamed(ls) IN IF Kind(l) = "," THEN Params(NextToken(l)) ELSE l
      [] Kind(ls) = "..."  -> [NextToken(ls) EXCEPT !.f.vararg = TRUE]
      [] OTHER             -> Raise(ls, "syntax error")
Declared(ls) == AdjustLocalVars(ls, Len(ls.f.actvar) - ls.f.nactvar)
Parameters(ls) == ReserveRegs([ls EXCEPT !.f.numparams = ls.f.nactvar], ls.f.nactvar)
ParList(ls) == Parameters(Declared(IF Kind(ls) = ")" THEN ls ELSE Params(ls)))

SelfParam(ls, ismethod) == IF ismethod THEN AdjustLocalVars(NewLocalVar(ls, "self"), 1) ELSE ls
Body(ls, ismethod) ==
    CodeClosure(CloseFunc(EndFunc(CheckNext(StatList(CheckNext(ParList(
        SelfParam(CheckNext(OpenFunc(ls), "("), ismethod)), ")")), "end"))))

-----------------------------------------------------------------------------
(* Expressions. *)

Expr(ls) == SubExpr(ls, 0)

FieldSel(ls) == Indexed(CheckName(NextToken(Exp2AnyRegUp(ls))))
YIndex(ls) == CheckNext(Exp2Val(Expr(NextToken(ls))), "]")

\* Table constructors; cc is the ConsControl without the last item read, which is
\* on top, VVOID when there is none.
ListDone(ls) == SetTop(ls, Exp("VVOID", 0))
Flush(ls, cc) == IF cc.tostore = FieldsPerFlush THEN SetList(ls, cc.t, cc.na, cc.tostore) ELSE ls
CloseListField(ls, cc) == IF Top(ls).k = "VVOID" THEN ls ELSE ListDone(Flush(Exp2NextReg(ls), cc))
Stored(ls, cc) ==
    IF Top(ls).k # "VVOID" /\ cc.tostore = FieldsPerFlush THEN [cc EXCEPT !.tostore = 0] ELSE cc

StoreField(ls, t, key, reg) == [Pop(Pop(Emit(ls, "SETTABLE", t, RK(key), RK(Top(ls))))) EXCEPT !.f.freereg = reg]
FieldKey(ls) == Exp2RK(CheckNext(IF Kind(ls) = "name" THEN CheckName(ls) ELSE YIndex(ls), "="))
FieldValue(ls, t, reg) == LET l == Exp2RK(Expr(ls)) IN StoreField(l, t, Under(l), reg)
RecField(ls, t) == FieldValue(FieldKey(ls), t, ls.f.freereg)

LastListField(ls, cc) ==
    IF cc.tostore = 0 THEN ls
    ELSE IF HasMultRet(Top(ls)) THEN SetList(SetReturns(ls, MultRet), cc.t, cc.na, MultRet)
    ELSE SetList(IF Top(ls).k = "VVOID" THEN ls ELSE Exp2NextReg(ls), cc.t, cc.na, cc.tostore)

MoreFields(ls, cc) ==
    IF Kind(ls) \in {",", ";"} THEN Fields(NextToken(ls), cc)
    ELSE Pop(LastListField(CheckNext(ls, "}"), cc))
Field(ls, cc) ==
    IF Kind(ls) = "[" \/ (Kind(ls) = "name" /\ LookAhead(ls) = "=")
    THEN MoreFields(RecField(ls, cc.t), cc)
    ELSE MoreFields(Expr(Pop(ls)), [cc EXCEPT !.na = @ + 1, !.tostore = @ + 1])
Fields(ls, cc) ==
    IF Kind(ls) = "}" THEN MoreFields(ls, cc) ELSE Field(CloseListField(ls, cc), Stored(ls, cc))
TableAt(ls) == Exp2NextReg(Push(Emit(ls, "NEWTABLE", 0, 0, 0), Exp("VRELOCABLE", Pc(ls))))
Items(ls) == Fields(Push(CheckNext(ls, "{"), Exp("VVOID", 0)), [t |-> Top(ls).info, na |-> 0, tostore |-> 0])
Constructor(ls) == Items(TableAt(ls))

\* explist; the number of expressions is in n.
MoreExps(ls, n) ==
    IF Kind(ls) = "," THEN MoreExps(Expr(Pop(Exp2NextReg(NextToken(ls)))), n + 1) ELSE [ls EXCEPT !.n = n]
ExpList(ls) == MoreExps(Expr(ls), 1)

\* funcargs: the function is on top, in its register.
CallCode(ls, base, nparams) ==
    [SetKind(Pop(Emit(ls, "CALL", base, nparams + 1, 2)), "VCALL", Pc(ls)) EXCEPT !.f.freereg = base + 1]
ClosedCall(ls, base) == CallCode(ls, base, ls.f.freereg - (base + 1))
Call(ls) ==
    LET base == Under(ls).info
    IN  CASE HasMultRet(Top(ls))  -> CallCode(ls, base, MultRet)
          [] Top(ls).k = "VVOID"  -> ClosedCall(ls, base)
          [] OTHER                -> ClosedCall(Exp2NextReg(ls), base)
Args(ls) == IF Kind(ls) = ")" THEN Push(ls, Exp("VVOID", 0)) ELSE SetReturns(ExpList(ls), MultRet)
FuncArgs(ls) ==
    CASE Kind(ls) = "("      -> Call(CheckNext(Args(NextToken(ls)), ")"))
      [] Kind(ls) = "{"      -> Call(Constructor(ls))
      [] Kind(ls) = "string" -> Call(NextToken(CodeString(ls, SemInfo(ls))))
      [] OTHER               -> Raise(ls, "function arguments expected")

PrimaryExp(ls) ==
    CASE Kind(ls) = "("    -> DischargeVars(CheckNext(Expr(NextToken(ls)), ")"))
      [] Kind(ls) = "name" -> SingleVar(ls)
      [] OTHER             -> Raise(Push(ls, Exp("VNIL", 0)), "unexpected symbol")
SuffixOps(ls) ==
    CASE Kind(ls) = "." -> SuffixOps(FieldSel(ls))
      [] Kind(ls) = "[" -> SuffixOps(Indexed(YIndex(Exp2AnyRegUp(ls))))
      [] Kind(ls) = ":" -> SuffixOps(FuncArgs(Self(CheckName(NextToken(ls)))))
      [] Kind(ls) \in {"(", "string", "{"} -> SuffixOps(FuncArgs(Exp2NextReg(ls)))
      [] OTHER -> ls
SuffixedExp(ls) == SuffixOps(PrimaryExp(ls))

VarArgs(ls) ==
    IF ls.f.vararg THEN Push(Emit(ls, "VARARG", 0, 1, 0), Exp("VVARARG", Pc(ls)))
    ELSE Raise(Push(ls, Exp("VNIL", 0)), "cannot use '...' outside a vararg function")
SimpleExp(ls) ==
    CASE Kind(ls) = "int"      -> NextToken(Push(ls, Exp("VKINT", SemInfo(ls))))
      [] Kind(ls) = "string"   -> NextToken(CodeString(ls, SemInfo(ls)))
      [] Kind(ls) = "nil"      -> NextToken(Push(ls, Exp("VNIL", 0)))
      [] Kind(ls) = "true"     -> NextToken(Push(ls, Exp("VTRUE", 0)))
      [] Kind(ls) = "false"    -> NextToken(Push(ls, Exp("VFALSE", 0)))
      [] Kind(ls) = "..."      -> NextToken(VarArgs(ls))
      [] Kind(ls) = "{"        -> Constructor(ls)
      [] Kind(ls) = "function" -> Body(NextToken(ls), FALSE)
      [] OTHER                 -> SuffixedExp(ls)

LeftPriority ==
    "or" :> 1 @@ "and" :> 2 @@ "<" :> 3 @@ ">" :> 3 @@ "<=" :> 3 @@ ">=" :> 3 @@ "~=" :> 3 @@ "==" :> 3
      @@ ".." :> 9 @@ "+" :> 10 @@ "-" :> 10 @@ "*" :> 11 @@ "//" :> 11 @@ "%" :> 11
RightPriority(op) == IF op = ".." THEN 8 ELSE LeftPriority[op]
UnaryPriority == 12

BinaryOps(ls, limit) ==
    LET op == Kind(ls)
    IN  IF op \in DOMAIN LeftPriority /\ LeftPriority[op] > limit
        THEN BinaryOps(Posfix(SubExpr(Infix(NextToken(ls), op), RightPriority(op)), op), limit)
        ELSE ls
SubExpr(ls, limit) ==
    IF Kind(ls) \in {"not", "-", "#"}
    THEN BinaryOps(Prefix(SubExpr(NextToken(ls), UnaryPriority), Kind(ls)), limit)
    ELSE BinaryOps(SimpleExp(ls), limit)

-----------------------------------------------------------------------------
(* Assignments: the variables are the last expressions, the values follow.  *)

\* adjust_assign: the last of nexps expressions is on top and is popped.
OpenAdjust(ls, extra) == IF extra > 1 THEN ReserveRegs(SetReturns(ls, extra), extra - 1) ELSE SetReturns(ls, extra)
NilAdjust(ls, extra) == IF extra > 0 THEN LoadNil(ReserveRegs(ls, extra), ls.f.freereg, extra) ELSE ls
Adjusted(ls, extra) ==
    CASE HasMultRet(Top(ls)) -> OpenAdjust(ls, IF extra + 1 < 0 THEN 0 ELSE extra + 1)
      [] Top(ls).k = "VVOID" -> NilAdjust(ls, extra)
      [] OTHER               -> NilAdjust(Exp2NextReg(ls), extra)
AdjustAssign(ls, nvars, nexps) ==
    [Pop(Adjusted(ls, nvars - nexps)) EXCEPT !.f.freereg = IF nexps > nvars THEN @ - (nexps - nvars) ELSE @]

\* check_conflict: an upvalue or a local that is assigned, the expression on top, is
\* the table or the key of one of the nvars assignments before it.
Uses(e, v) ==
    /\ e.k = "VINDEXED"
    /\ \/ e.vt = v.k /\ e.tab = v.info
       \/ v.k = "VLOCAL" /\ e.idx = v.info
Safe(e, v, extra) ==
    LET t == e.vt = v.k /\ e.tab = v.info
    IN  [e EXCEPT !.vt = IF t THEN "VLOCAL" ELSE @, !.tab = IF t THEN extra ELSE @,
                  !.idx = IF v.k = "VLOCAL" /\ @ = v.info THEN extra ELSE @]
CheckConflict(ls, nvars) ==
    LET v == Top(ls)
        extra == ls.f.freereg
        hit == {i \in Len(ls.es) - nvars .. Len(ls.es) - 1 : Uses(ls.es[i], v)}
        safe == [i \in DOMAIN ls.es |-> IF i \in hit THEN Safe(ls.es[i], v, extra) ELSE ls.es[i]]
    IN  IF v.k = "VINDEXED" \/ hit = {} THEN ls
        ELSE ReserveRegs(Emit([ls EXCEPT !.es = safe],
                              IF v.k = "VLOCAL" THEN "MOVE" ELSE "GETUPVAL", extra, v.info, 0), 1)

StoreTop(ls) == StoreVar(Push(Pop(Pop(ls)), Top(ls)), Under(ls))
StoreDefault(ls) == StoreTop(Push(ls, Exp("VNONRELOC", ls.f.freereg - 1)))
Assign(ls, nvars) ==
    IF ls.n = nvars THEN StoreTop(SetOneRet(ls)) ELSE StoreDefault(AdjustAssign(ls, nvars, ls.n))
Assignment(ls, nvars) ==
    CASE Top(ls).k \notin {"VLOCAL", "VUPVAL", "VINDEXED"} -> Pop(Raise(ls, "syntax error"))
      [] Kind(ls) = "," -> StoreDefault(Assignment(CheckConflict(SuffixedExp(NextToken(ls)), nvars), nvars + 1))
      [] OTHER          -> Assign(ExpList(CheckNext(ls, "=")), nvars)

CallStat(ls) ==
    IF Top(ls).k = "VCALL" THEN Pop([ls EXCEPT !.f.code[Top(ls).info + 1].c = 1]) ELSE Pop(Raise(ls, "syntax error"))
AfterSuffixed(ls) == IF Kind(ls) \in {"=", ","} THEN Assignment(ls, 1) ELSE CallStat(ls)
ExprStat(ls) == AfterSuffixed(SuffixedExp(ls))

RECURSIVE Locals(_)
Locals(ls) == LET l == NewNamed(ls) IN IF Kind(l) = "," THEN Locals(NextToken(l)) ELSE l
LocalValues(ls) ==
    IF Kind(ls) = "=" THEN ExpList(NextToken(ls)) ELSE [Push(ls, Exp("VVOID", 0)) EXCEPT !.n = 0]
EndLocals(ls) == Declared(AdjustAssign(ls, Len(ls.f.actvar) - ls.f.nactvar, ls.n))
LocalStat(ls) == EndLocals(LocalValues(Locals(ls)))
LocalFunc(ls) == Pop(Body(AdjustLocalVars(NewNamed(ls), 1), FALSE))

RECURSIVE FuncFields(_)
FuncFields(ls) == IF Kind(ls) = "." THEN FuncFields(FieldSel(ls)) ELSE ls
FuncBody(ls) == IF Kind(ls) = ":" THEN Body(FieldSel(ls), TRUE) ELSE Body(ls, FALSE)
FuncStat(ls) == StoreTop(FuncBody(FuncFields(SingleVar(NextToken(ls)))))

-----------------------------------------------------------------------------
(* Control structures. *)

BlockFollow(ls, withuntil) ==
    Kind(ls) \in {"else", "elseif", "end", "EOS"} \/ (withuntil /\ Kind(ls) = "until")

BlockOf(ls) == LeaveBlock(StatList(EnterBlock(ls, FALSE)))

\* cond: the condition stays on top, its list of exits is in f.
Condition(ls) == GoIfTrue(IF Top(ls).k = "VNIL" THEN SetKind(ls, "VFALSE", 0) ELSE ls)
Cond(ls) == Condition(Expr(ls))
ExitHere(ls) == Pop(PatchToHere(ls, Top(ls).f))
JumpTo(ls, target) == PatchList(Jump(ls), Pc(ls), target)

WhileBody(ls, init) ==
    ExitHere(LeaveBlock(CheckNext(JumpTo(BlockOf(CheckNext(EnterBlock(ls, TRUE), "do")), init), "end")))
WhileStat(ls) == WhileBody(Cond(NextToken(GetLabel(ls))), Pc(ls))

RepeatScope(ls) == CheckNext(StatList(NextToken(EnterBlock(EnterBlock(GetLabel(ls), TRUE), FALSE))), "until")
RepeatExit(ls) == IF Block(ls).upval THEN PatchClose(ls, Top(ls).f, Block(ls).nactvar) ELSE ls
RepeatLoop(ls, init) == LeaveBlock(Pop(PatchList(LeaveBlock(ls), Top(ls).f, init)))
RepeatStat(ls) == RepeatLoop(RepeatExit(Cond(RepeatScope(ls))), Pc(ls))

Exp1(ls) == Pop(Exp2NextReg(Expr(ls)))
LoopVars(ls, nvars) == ReserveRegs(AdjustLocalVars(EnterBlock(ls, FALSE), nvars), nvars)
ForBlock(ls, nvars) == LeaveBlock(BlockOf(LoopVars(ls, nvars)))
ForLoop(ls, base, prep) == PatchList(Emit(PatchToHere(ls, prep), "FORLOOP", base, NoJump, 0), Pc(ls), prep + 1)
TForLoop(ls, base, prep, nvars) ==
    PatchList(Emit(Emit(PatchToHere(ls, prep), "TFORCALL", base, 0, nvars), "TFORLOOP", base + 2, NoJump, 0),
              Pc(ls) + 1, prep + 1)
NumBody(ls, base) == ForLoop(ForBlock(Emit(ls, "FORPREP", base, NoJump, 0), 1), base, Pc(ls))
ListBody(ls, base, nvars) == TForLoop(ForBlock(Jump(ls), nvars), base, Pc(ls), nvars)

Control3(ls) == NewLocalVar(NewLocalVar(NewLocalVar(ls, "(for)"), "(for)"), "(for)")
IntK(r) == ReserveRegs(Emit(r.ls, "LOADK", r.ls.f.freereg, r.k, 0), 1)
ForStep(ls) == IF Kind(ls) = "," THEN Exp1(NextToken(ls)) ELSE IntK(AddK(ls, <<"int", 1>>))
NumHead(ls, name) ==
    ForStep(Exp1(CheckNext(Exp1(CheckNext(NewLocalVar(Control3(ls), name), "=")), ",")))
ForNum(ls, name) ==
    NumBody(CheckNext(AdjustLocalVars(NumHead(ls, name), 3), "do"), ls.f.freereg)

ListVars(ls, name) == LET l == NewLocalVar(Control3(ls), name) IN IF Kind(l) = "," THEN Locals(NextToken(l)) ELSE l
ListHead(ls) == LET l == ExpList(CheckNext(ls, "in")) IN CheckStack(AdjustAssign(l, 3, l.n), 3)
ForList(ls, name) ==
    LET l == ListHead(ListVars(ls, name))
    IN  ListBody(CheckNext(AdjustLocalVars(l, 3), "do"), ls.f.freereg, Len(l.f.actvar) - l.f.nactvar - 3)

ForClauses(ls, name) == IF Kind(ls) = "=" THEN ForNum(ls, name) ELSE ForList(ls, name)
ForHead(ls) == ForClauses(NextName(ls), Name(ls))
ForStat(ls) == LeaveBlock(CheckNext(ForHead(NextToken(EnterBlock(ls, TRUE))), "end"))

\* gotostat for the jumps in the list pc.
PendingGoto(ls, name, pc) == [ls EXCEPT !.gt = Append(@, LabelEntry(ls, name, pc))]
SeekLabel(ls) == FindLabel(ls, Len(ls.gt))
GotoStat(ls, pc) ==
    SeekLabel(IF Kind(ls) = "goto" THEN NextName(PendingGoto(NextToken(ls), Name(NextToken(ls)), pc))
              ELSE PendingGoto(NextToken(ls), "break", pc))

\* if: the list of jumps to the end is in f of the expression under the condition.
RECURSIVE Semicolons(_)
Semicolons(ls) == IF Kind(ls) = ";" THEN Semicolons(NextToken(ls)) ELSE ls
ToEnd(ls) ==
    LET e == Under(ls)
        l == Jump(ls)
    IN  [l EXCEPT !.f.code = Linked(@, e.f, Pc(ls)), !.es[Len(ls.es) - 1].f = Joined(@, Pc(ls))]
ThenPart(ls) == ExitHere(IF Kind(ls) \in {"else", "elseif"} THEN ToEnd(ls) ELSE ls)
ThenBlock(ls) == ThenPart(LeaveBlock(StatList(ls)))
SkipThen(ls) == ThenBlock([Jump(ls) EXCEPT !.es[Len(ls.es)].f = Pc(ls)])
AfterGoto(ls) == IF BlockFollow(ls, FALSE) THEN Pop(LeaveBlock(ls)) ELSE SkipThen(ls)
ThenGoto(ls) == AfterGoto(Semicolons(GotoStat(EnterBlock(ls, FALSE), Top(ls).t)))
Then(ls) ==
    IF Kind(ls) \in {"goto", "break"} THEN ThenGoto(GoIfFalse(ls)) ELSE ThenBlock(EnterBlock(GoIfTrue(ls), FALSE))
TestThenBlock(ls) == Then(CheckNext(Expr(NextToken(ls)), "then"))
ElseIfs(ls) == IF Kind(ls) = "elseif" THEN ElseIfs(TestThenBlock(ls)) ELSE ls
ElsePart(ls) == IF Kind(ls) = "else" THEN BlockOf(NextToken(ls)) ELSE ls
IfStat(ls) ==
    ExitHere(CheckNext(ElsePart(ElseIfs(TestThenBlock(Push(ls, Exp("VVOID", 0))))), "end"))

\* Labels; those after it with nothing in between are read first.
RepeatedLabel(ls, name) == \E i \in Block(ls).firstlabel + 1 .. Len(ls.label) : ls.label[i].name = name
Labels(ls) == IF Kind(ls) \in {";", "::"} THEN Labels(Statement(ls)) ELSE ls
\* The slip: a label before "until" counts as the end of the block.
AtBlockEndSlip(ls, l) == IF BlockFollow(ls, TRUE) THEN [ls EXCEPT !.label[l].nactvar = Block(ls).nactvar] ELSE ls
AtBlockEnd(ls, l) == IF BlockFollow(ls, FALSE) THEN [ls EXCEPT !.label[l].nactvar = Block(ls).nactvar] ELSE ls
Labelled(ls, l) == FindGotos(ls, Block(ls).firstgoto + 1, ls.label[l])
NewLabel(ls, name) == [GetLabel(ls) EXCEPT !.label = Append(@, LabelEntry(ls, name, Pc(ls)))]
LabelStat(ls, name) ==
    IF RepeatedLabel(ls, name) THEN Raise(ls, "label already defined")
    ELSE LET l == Len(ls.label) + 1
         IN  Labelled(AtBlockEnd(Labels(NewLabel(CheckNext(ls, "::"), name)), l), l)

\* return
TailCall(ls) ==
    LET e == Top(ls)
    IN  IF e.k = "VCALL" /\ ls.n = 1
        THEN Claim([ls EXCEPT !.f.code[e.info + 1].op = "TAILCALL"], Ins(ls, e.info).a = ls.f.nactvar)
        ELSE ls
RetOne(ls) == Pop(Ret(ls, Top(ls).info, 1))
RetMany(ls, nret) == Claim(Pop(Ret(ls, ls.f.nactvar, nret)), nret = ls.f.freereg - ls.f.nactvar)
RetOpen(ls) == Pop(Ret(ls, ls.f.nactvar, MultRet))
RetValues(ls) ==
    CASE HasMultRet(Top(ls)) -> RetOpen(TailCall(SetReturns(ls, MultRet)))
      [] ls.n = 1            -> RetOne(Exp2AnyReg(ls))
      [] OTHER               -> RetMany(Exp2NextReg(ls), ls.n)
RetStat(ls) ==
    TestNext(IF BlockFollow(ls, TRUE) \/ Kind(ls) = ";" THEN Ret(ls, 0, 0) ELSE RetValues(ExpList(ls)), ";")

Stat(ls) ==
    CASE Kind(ls) = ";"        -> NextToken(ls)
      [] Kind(ls) = "if"       -> IfStat(ls)
      [] Kind(ls) = "while"    -> WhileStat(ls)
      [] Kind(ls) = "do"       -> CheckNext(BlockOf(NextToken(ls)), "end")
      [] Kind(ls) = "for"      -> ForStat(ls)
      [] Kind(ls) = "repeat"   -> RepeatStat(ls)
      [] Kind(ls) = "function" -> FuncStat(ls)
      [] Kind(ls) = "local"    -> IF LookAhead(ls) = "function" THEN LocalFunc(NextToken(NextToken(ls))) ELSE LocalStat(NextToken(ls))
      [] Kind(ls) = "::"       -> LabelStat(NextName(NextToken(ls)), Name(NextToken(ls)))
      [] Kind(ls) = "return"   -> RetStat(NextToken(ls))
      [] Kind(ls) \in {"break", "goto"} -> GotoStat(Jump(ls), Pc(ls))
      [] OTHER                 -> ExprStat(ls)
FreeRegs(ls) ==
    Claim([ls EXCEPT !.f.freereg = ls.f.nactvar],
          ls.f.maxstacksize >= ls.f.freereg /\ ls.f.freereg >= ls.f.nactvar)
Statement(ls) == FreeRegs(Stat(ls))

StatList(ls) ==
    IF BlockFollow(ls, TRUE) THEN ls
    ELSE IF Kind(ls) = "return" THEN Statement(ls)
    ELSE StatList(Statement(ls))

\* luaY_parser and mainfunc: the state after the last token; the prototype is f.
Start(tokens) ==
    [tokens |-> tokens, pos |-> 1, f |-> FuncState(0), prev |-> <<>>, es |-> <<>>, h |-> <<>>,
     label |-> <<>>, gt |-> <<>>, n |-> 0, protos |-> 1, error |-> "", asserts |-> TRUE]
MainFunc(ls) ==
    EnterBlock([ls EXCEPT !.f.vararg = TRUE,
                          !.f.ups = <<[name |-> "_ENV", instack |-> TRUE, idx |-> 0]>>], FALSE)
AllClosed(ls) ==
    Claim(ls, ls.f.bl = <<>> /\ ls.f.actvar = <<>> /\ ls.gt = <<>> /\ ls.label = <<>> /\ ls.es = <<>>)
EndMain(ls) == IF Kind(ls) = "EOS" THEN AllClosed(EndFunc(ls)) ELSE Raise(ls, "'<eof>' expected")
Parse(tokens) == EndMain(StatList(MainFunc(Start(tokens))))
=============================================================================
