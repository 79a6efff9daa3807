-------------------------------- MODULE LuaGC --------------------------------
(***************************************************************************)
(* The garbage collector of the Lua states in which the services run       *)
(* (src/3rd/lua-5.3.5/src/lgc.c), with the barriers and the upvalues that  *)
(* the rest of Lua uses with it (lgc.h, lfunc.c).                          *)
(*                                                                         *)
(* A step is one singlestep of the collector, one finalizer, one full      *)
(* collection, or one operation of the program, which may come between any *)
(* two steps of the collector.  A table has one entry.  The objects are    *)
(* tables, Lua closures with one upvalue each, coroutines, one prototype   *)
(* of those closures, the main thread, and short strings, which lstring.c  *)
(* finds again while they are there; userdata are left out.  An object     *)
(* is created once: that its memory is used again would only hide a        *)
(* dangling reference.                                                     *)
(*                                                                         *)
(* Each list of the collector is a sequence with the head of the list      *)
(* first.                                                                  *)
(*                                                                         *)
(* A definition whose name ends in Slip is the one after it with a         *)
(* plausible programming slip; no specification uses it.                   *)
(***************************************************************************)
EXTENDS Integers, Sequences, FiniteSets, SequencesExt

CONSTANTS
    Tables,       \* the tables a program can create
    Closures,     \* the closures it can create
    Coroutines,   \* the coroutines it can create
    Strings,      \* the string objects there can be, with their contents
    Populations,  \* which of them there may be at the start
    Finalizable,  \* the tables that may get a metatable with __gc
    Weakly,       \* the tables that may get one with a weak mode
    Modes,        \* those modes: "k", "v", "kv"
    MaxOps,       \* a bound on the operations of the program
    UpVals,       \* the upvalues there can be at a time
    Height,       \* the slots of a stack
    MainThread, Registry, Proto,    \* objects that are always there
    Nil,          \* nil, and the null pointer
    Dead,         \* the mark of a dead key
    Scalar        \* a key that is no object

ASSUME LuaGCAssumption == Finalizable \subseteq Tables /\ Height \in Nat \ {0}

VARIABLES
    g,    \* global_State, the marks of all objects, and what they contain
    ops   \* how many operations the program has done

vars == <<g, ops>>

AllTables == Tables \union {Registry}
Threads == Coroutines \union {MainThread}
StringObjects == DOMAIN Strings
Objects == AllTables \union Closures \union Threads \union StringObjects \union {Proto}
Slots == 1 .. Height

NoNode == [key |-> Scalar, val |-> Nil]
Closed(v) == [th |-> Nil, slot |-> 0, touched |-> FALSE, value |-> v]
Open(th, i) == [th |-> th, slot |-> i, touched |-> TRUE, value |-> Nil]

\* A state between two collections, in which the objects of pop exist and a
\* program has put references to them everywhere.
Nodes(pop) == {NoNode} \union [key : pop \union {Scalar}, val : pop]
UpValsIn(pop) == {Closed(v) : v \in pop}
                   \union {Open(th, i) : th \in (pop \intersect Threads) \union {MainThread}, i \in Slots}
Init ==
    \E pop \in Populations :
    \E mode \in {m \in [AllTables -> Modes \union {"strong"}] :
                     \A t \in AllTables : t \in Weakly \intersect pop \/ m[t] = "strong"},
       stack \in {s \in [Threads -> [Slots -> pop \union {Nil}]] :
                     \A th \in Coroutines \ pop : s[th] = [i \in Slots |-> Nil]},
       uv \in {v \in [UpVals -> {Nil} \union UpValsIn(pop)] :
                     Closures \intersect pop = {} => \A u \in UpVals : v[u] = Nil},
       gc \in SUBSET (Finalizable \intersect pop),
       cache \in (Closures \intersect pop) \union {Nil},
       strcache \in IF StringObjects \intersect pop = {} THEN {Nil} ELSE StringObjects \intersect pop :
    \E running \in {MainThread} \union (ToSet(stack[MainThread]) \intersect Coroutines),
       node \in {n \in [AllTables -> Nodes(pop)] :
                     \A t \in AllTables : /\ t \in pop \union {Registry} \/ n[t] = NoNode
                                          /\ mode[t] = "strong" => n[t].key = Scalar},
       upval \in {w \in [Closures -> UpVals \union {Nil}] :
                     /\ \A x \in Closures : IF x \in pop THEN w[x] # Nil /\ uv[w[x]] # Nil ELSE w[x] = Nil
                     /\ \A u \in UpVals : uv[u] # Nil => \E x \in Closures : w[x] = u} :
        /\ g = [ \* the collector
                  gcstate |-> "pause", gckind |-> "normal", currentwhite |-> "white0",
                  marked |-> [o \in Objects |-> "white0"],
                  allgc |-> SetToSeq(pop \ gc) \o <<Registry, Proto>>,
                  finobj |-> SetToSeq(gc), tobefnz |-> <<>>, sweepgc |-> Nil,
                  gray |-> <<>>, grayagain |-> <<>>,
                  weak |-> <<>>, ephemeron |-> <<>>, allweak |-> <<>>,
                  twups |-> SetToSeq({th \in Threads : \E u \in UpVals : uv[u] # Nil /\ uv[u].th = th}),
                  \* the strings; in the cache Nil is the fixed string memerrmsg
                  strt |-> StringObjects \intersect pop, strcache |-> strcache,
                  \* the program
                  L |-> running, stack |-> stack, node |-> node, mode |-> mode,
                  cache |-> cache, upval |-> upval, uv |-> uv,
                  \* history
                  used |-> pop \union {MainThread, Registry, Proto}, garbage |-> {} ]
        /\ ops = 0

-----------------------------------------------------------------------------
(* Marks and lists. *)

IsWhite(s, o) == o \in Objects /\ s.marked[o] \in {"white0", "white1"}
IsBlack(s, o) == o \in Objects /\ s.marked[o] = "black"
IsGray(s, o) == o \in Objects /\ s.marked[o] = "gray"

OtherWhite(s) == IF s.currentwhite = "white0" THEN "white1" ELSE "white0"
IsDead(s, o) == o \in Objects /\ s.marked[o] = OtherWhite(s)

KeepInvariant(s) == s.gcstate \in {"propagate", "atomic"}
IsSweepPhase(s) == s.gcstate \in {"swpallgc", "swpfinobj", "swptobefnz", "swpend"}

SetMark(s, o, m) == [s EXCEPT !.marked[o] = m]
MakeWhite(s, o) == SetMark(s, o, s.currentwhite)
Link(s, list, o) == [s EXCEPT ![list] = <<o>> \o @]
Without(list, o) == SelectSeq(list, LAMBDA x : x # o)

\* reallymarkobject, for the kinds of objects there are.
MarkObject(s, o) ==
    CASE ~IsWhite(s, o)       -> s
      [] o \in StringObjects  -> SetMark(s, o, "black")
      [] OTHER                -> Link(SetMark(s, o, "gray"), "gray", o)
MarkAll(s, os) == FoldLeft(MarkObject, s, os)

\* Nothing but objects that may be collected is ever cleared from a weak table, and
\* no string, which iscleared marks instead.
IsCleared(s, o) == IsWhite(s, o) /\ o \notin StringObjects
MarkString(s, o) == IF o \in StringObjects THEN MarkObject(s, o) ELSE s

\* The upvalues: open ones point to a slot of a stack.
IsOpen(s, u) == s.uv[u] # Nil /\ s.uv[u].th # Nil
OpenAt(s, th, i) == {u \in UpVals : IsOpen(s, u) /\ s.uv[u].th = th /\ s.uv[u].slot = i}
OpenUpVals(s, th) == {u \in UpVals : IsOpen(s, u) /\ s.uv[u].th = th}
UpValue(s, u) == IF IsOpen(s, u) THEN s.stack[s.uv[u].th][s.uv[u].slot] ELSE s.uv[u].value

-----------------------------------------------------------------------------
(* The barriers. *)

BarrierBack(s, t, v) ==
    IF IsBlack(s, t) /\ IsWhite(s, v) THEN Link(SetMark(s, t, "gray"), "grayagain", t) ELSE s

UpvalBarrierSlip(s, u) == s
UpvalBarrier(s, u) ==
    IF ~IsOpen(s, u) /\ KeepInvariant(s) THEN MarkObject(s, s.uv[u].value) ELSE s

-----------------------------------------------------------------------------
(* The traversals. *)

RemoveEntry(s, t) ==
    IF s.node[t].val = Nil /\ IsWhite(s, s.node[t].key)
    THEN [s EXCEPT !.node[t].key = Dead] ELSE s

TraverseWeakValue(s, t) ==
    LET n == s.node[t]
        m == IF n.val = Nil THEN RemoveEntry(s, t) ELSE MarkString(MarkObject(s, n.key), n.val)
    IN  IF s.gcstate = "propagate" THEN Link(m, "grayagain", t)
        ELSE IF IsCleared(m, n.val) THEN Link(m, "weak", t)
        ELSE m

\* Whether the traversal of an ephemeron table marks its value.
EphemeronMarks(s, t) ==
    LET n == s.node[t] IN ~IsCleared(s, n.key) /\ IsWhite(MarkString(s, n.key), n.val)

TraverseEphemeron(s, t) ==
    LET n == s.node[t]
        m == IF n.val = Nil THEN RemoveEntry(s, t)
             ELSE IF EphemeronMarks(s, t) THEN MarkObject(MarkString(s, n.key), n.val)
             ELSE MarkString(s, n.key)
        hasclears == n.val # Nil /\ IsCleared(s, n.key)
    IN  IF s.gcstate = "propagate" THEN Link(m, "grayagain", t)
        ELSE IF hasclears /\ IsWhite(s, n.val) THEN Link(m, "ephemeron", t)
        ELSE IF hasclears THEN Link(m, "allweak", t)
        ELSE m

TraverseStrongTable(s, t) ==
    IF s.node[t].val = Nil THEN RemoveEntry(s, t)
    ELSE MarkAll(s, <<s.node[t].key, s.node[t].val>>)

TraverseTable(s, t) ==
    LET keptGray == SetMark(s, t, "gray")
    IN  CASE s.mode[t] = "v"      -> TraverseWeakValue(keptGray, t)
          [] s.mode[t] = "k"      -> TraverseEphemeron(keptGray, t)
          [] s.mode[t] = "kv"     -> Link(keptGray, "allweak", t)
          [] s.mode[t] = "strong" -> TraverseStrongTable(s, t)

\* The cache of a prototype does not keep its closure.
TraverseProto(s) == IF IsWhite(s, s.cache) THEN [s EXCEPT !.cache = Nil] ELSE s

TraverseLClosure(s, f) ==
    LET m == MarkObject(s, Proto)
        u == s.upval[f]
    IN  IF IsOpen(s, u) /\ s.gcstate # "insideatomic"
        THEN [m EXCEPT !.uv[u].touched = TRUE]
        ELSE MarkObject(m, UpValue(m, u))

\* The function that creates the closures is on the main stack.
TraverseThread(s, th) ==
    LET m == MarkAll(IF th = MainThread THEN MarkObject(s, Proto) ELSE s, s.stack[th])
    IN  IF /\ s.gcstate = "insideatomic"
           /\ th \notin ToSet(s.twups)
           /\ OpenUpVals(s, th) # {}
        THEN Link(m, "twups", th) ELSE m

PropagateMark(s) ==
    LET o == Head(s.gray)
        m == SetMark([s EXCEPT !.gray = Tail(@)], o, "black")
    IN  CASE o \in AllTables -> TraverseTable(m, o)
          [] o \in Closures  -> TraverseLClosure(m, o)
          [] o \in Threads   -> TraverseThread(Link(SetMark(m, o, "gray"), "grayagain", o), o)
          [] o = Proto       -> TraverseProto(m)

RECURSIVE PropagateAll(_)
PropagateAll(s) == IF s.gray = <<>> THEN s ELSE PropagateAll(PropagateMark(s))

-----------------------------------------------------------------------------
(* The atomic phase. *)

\* The upvalues of a stack from the top down, as in the list openupval.
UpValsOf(s, th) == FlattenSeq([i \in Slots |-> SetToSeq(OpenAt(s, th, Height + 1 - i))])

RemarkUpVal(s, u) ==
    IF s.uv[u].touched THEN MarkObject([s EXCEPT !.uv[u].touched = FALSE], UpValue(s, u)) ELSE s

\* Unmarked threads, and those without upvalues, leave the list.
RECURSIVE RemarkUpVals(_, _)
RemarkUpVals(s, list) ==
    IF list = <<>> THEN s
    ELSE LET th == Head(list)
         IN  IF IsGray(s, th) /\ OpenUpVals(s, th) # {} THEN RemarkUpVals(s, Tail(list))
             ELSE RemarkUpVals(
                    FoldLeft(RemarkUpVal, [s EXCEPT !.twups = Without(@, th)], UpValsOf(s, th)),
                    Tail(list))

RECURSIVE ConvergeEphemerons(_), Converge(_, _, _)
Converge(s, list, changed) ==
    IF list = <<>> THEN (IF changed THEN ConvergeEphemerons(s) ELSE s)
    ELSE LET m == TraverseEphemeron(s, Head(list))
         IN  IF EphemeronMarks(s, Head(list))
             THEN Converge(PropagateAll(m), Tail(list), TRUE)
             ELSE Converge(m, Tail(list), changed)
ConvergeEphemerons(s) == Converge([s EXCEPT !.ephemeron = <<>>], s.ephemeron, FALSE)

ClearKey(s, t) ==
    LET n == s.node[t]
        c == CASE n.val = Nil         -> s
               [] IsCleared(s, n.key) -> [s EXCEPT !.node[t].val = Nil]
               [] OTHER               -> MarkString(s, n.key)
    IN  RemoveEntry(c, t)
ClearValue(s, t) ==
    IF IsCleared(s, s.node[t].val) THEN RemoveEntry([s EXCEPT !.node[t].val = Nil], t)
    ELSE MarkString(s, s.node[t].val)
ClearKeys(s, list) == FoldLeft(ClearKey, s, list)
ClearValuesSlip(s, list) == s
ClearValues(s, list) == FoldLeft(ClearValue, s, list)
\* The elements that were linked in front of an old list.
NewIn(list, old) == SubSeq(list, 1, Len(list) - Len(old))

SeparateToBeFnzSlip(s) ==
    [s EXCEPT !.finobj = SelectSeq(@, LAMBDA o : IsBlack(s, o)),
              !.tobefnz = @ \o SelectSeq(s.finobj, LAMBDA o : ~IsBlack(s, o))]
SeparateToBeFnz(s) ==
    [s EXCEPT !.finobj = SelectSeq(@, LAMBDA o : ~IsWhite(s, o)),
              !.tobefnz = @ \o SelectSeq(s.finobj, LAMBDA o : IsWhite(s, o))]

MarkBeingFnz(s) == MarkAll(s, s.tobefnz)

\* The steps of `atomic': the roots, the upvalues of unmarked stacks, what turned
\* gray again, the weak tables, the objects to be finalized, the weak tables
\* again.
MarkRoots(s) == MarkAll([s EXCEPT !.gcstate = "insideatomic"], <<s.L, Registry>>)
MarkUpVals(s) == PropagateAll(RemarkUpVals(s, s.twups))
MarkAgain(s, again) == ConvergeEphemerons(PropagateAll([s EXCEPT !.gray = again]))
Resurrect(s) == ConvergeEphemerons(PropagateAll(MarkBeingFnz(SeparateToBeFnz(s))))
ClearMarked(s) == ClearValues(ClearValues(s, s.weak), s.allweak)
ClearAllKeys(s) == ClearKeys(ClearKeys(s, s.ephemeron), s.allweak)
ClearResurrected(s, weak, allweak) ==
    ClearValues(ClearValues(s, NewIn(s.weak, weak)), NewIn(s.allweak, allweak))
ClearWeak(s) == ClearResurrected(ClearAllKeys(Resurrect(ClearMarked(s))), s.weak, s.allweak)
ClearCache(s) == IF IsWhite(s, s.strcache) THEN [s EXCEPT !.strcache = Nil] ELSE s
FlipWhite(s) == [s EXCEPT !.currentwhite = OtherWhite(s)]

Atomic(s) == FlipWhite(ClearCache(ClearWeak(MarkAgain(MarkUpVals(MarkRoots(s)), s.grayagain))))

-----------------------------------------------------------------------------
(* The sweep.  sweepgc is the header of a list or the object before the next *)
(* to sweep.                                                                 *)

Lists == {"allgc", "finobj", "tobefnz"}

After(s, p) ==
    IF p \in Lists THEN s[p]
    ELSE LET list == s[CHOOSE l \in Lists : p \in ToSet(s[l])]
         IN  SubSeq(list, 1 + CHOOSE i \in DOMAIN list : list[i] = p, Len(list))

Unreferenced(s, u) == ~IsOpen(s, u) /\ \A f \in Closures : s.upval[f] # u

FreeLClosure(s, f) ==
    LET c == [s EXCEPT !.upval[f] = Nil]
    IN  [c EXCEPT !.uv = [u \in UpVals |-> IF @[u] # Nil /\ Unreferenced(c, u) THEN Nil ELSE @[u]]]

\* luaF_close of one upvalue: the value moves into it, or nobody refers to it.
CloseUpVal(s, u) ==
    IF \E f \in Closures : s.upval[f] = u
    THEN UpvalBarrier([s EXCEPT !.uv[u] = Closed(UpValue(s, u))], u)
    ELSE [s EXCEPT !.uv[u] = Nil]

FreeThread(s, th) ==
    [FoldLeft(CloseUpVal, s, UpValsOf(s, th)) EXCEPT !.stack[th] = [i \in Slots |-> Nil]]

FreeObj(s, o) ==
    CASE o \in Tables        -> [s EXCEPT !.node[o] = NoNode]
      [] o \in Closures      -> FreeLClosure(s, o)
      [] o \in Coroutines    -> FreeThread(s, o)
      [] o \in StringObjects -> [s EXCEPT !.strt = @ \ {o}]
      [] OTHER               -> s

\* sweeplist of one object: a dead one is freed, another is made white.
SweepOne(s, curr) ==
    IF IsDead(s, curr)
    THEN FreeObj([s EXCEPT !.allgc = Without(@, curr), !.finobj = Without(@, curr),
                           !.tobefnz = Without(@, curr)], curr)
    ELSE [MakeWhite(s, curr) EXCEPT !.sweepgc = curr]
AtListEnd(s) == IF After(s, s.sweepgc) = <<>> THEN [s EXCEPT !.sweepgc = Nil] ELSE s
SweepList(s) ==
    AtListEnd(IF After(s, s.sweepgc) = <<>> THEN s ELSE SweepOne(s, Head(After(s, s.sweepgc))))

RECURSIVE SweepToLive(_)
SweepToLive(s) == LET m == SweepList(s)
                  IN  IF m.sweepgc = s.sweepgc THEN SweepToLive(m) ELSE m

EnterSweep(s) == SweepList([s EXCEPT !.gcstate = "swpallgc", !.sweepgc = "allgc"])

SweepStep(s, nextstate, nextlist) ==
    LET m == IF s.sweepgc # Nil THEN SweepList(s) ELSE s
    IN  IF m.sweepgc # Nil THEN m ELSE [m EXCEPT !.gcstate = nextstate, !.sweepgc = nextlist]

-----------------------------------------------------------------------------
(* What the program can reach.                                               *)

Live(s) == ToSet(s.allgc) \union ToSet(s.finobj) \union ToSet(s.tobefnz) \union {MainThread}

Refers(s, o) ==
    Objects \intersect
      CASE o \in AllTables -> {s.node[o].key, s.node[o].val}
        [] o \in Closures  -> {Proto} \union (IF s.upval[o] = Nil THEN {} ELSE {UpValue(s, s.upval[o])})
        [] o \in Threads   -> ToSet(s.stack[o])
        [] o = Proto       -> {s.cache}
        [] OTHER           -> {}

\* A weak table keeps its key or its value or none, and strings always; a value
\* under a weak key is kept with the key.
Keeps(s, o, set) ==
    IF o \notin AllTables THEN Refers(s, o)
    ELSE (StringObjects \intersect Refers(s, o)) \union (Objects \intersect
      CASE s.mode[o] = "strong" -> {s.node[o].key, s.node[o].val}
        [] s.mode[o] = "v"      -> {s.node[o].key}
        [] s.mode[o] = "k"      ->
             IF s.node[o].key \in Objects \ (StringObjects \union set) THEN {} ELSE {s.node[o].val}
        [] s.mode[o] = "kv"     -> {})

RECURSIVE ReachFrom(_, _), KeptBy(_, _)
KeptBy(s, set) ==
    LET more == set \union UNION {Keeps(s, o, set) : o \in set}
    IN  IF more = set THEN set ELSE KeptBy(s, more)
ReachFrom(s, set) ==
    LET more == set \union UNION {Refers(s, o) : o \in set}
    IN  IF more = set THEN set ELSE ReachFrom(s, more)

Roots(s) == {MainThread, Registry, Proto, s.L} \union ToSet(s.tobefnz)
Reachable(s) == ReachFrom(s, Roots(s))

\* What a cycle that begins now must free: what can neither be reached nor has a
\* finalizer, nor is kept by a finalizer or by an upvalue of a stack that may
\* itself be garbage, which remarkupvals marks.
Garbage(s) ==
    Live(s) \ ReachFrom(s, Roots(s) \union ToSet(s.finobj)
                 \union ({UpValue(s, u) : u \in {u \in UpVals : IsOpen(s, u)}} \ {Nil}))

-----------------------------------------------------------------------------
(* The collector.                                                            *)

RestartCollection(s) ==
    MarkBeingFnz(MarkAll([s EXCEPT !.gray = <<>>, !.grayagain = <<>>, !.weak = <<>>,
                                   !.allweak = <<>>, !.ephemeron = <<>>],
                         <<MainThread, Registry>>))

\* udata2finalize: the object is an ordinary one again.
Udata2Finalize(s) ==
    LET o == Head(s.tobefnz)
        m == [s EXCEPT !.tobefnz = Tail(@), !.allgc = <<o>> \o @]
    IN  IF IsSweepPhase(s) THEN MakeWhite(m, o) ELSE m

SingleStep(s) ==
    CASE s.gcstate = "pause" ->
            [RestartCollection(s) EXCEPT !.gcstate = "propagate", !.garbage = Garbage(s)]
      [] s.gcstate = "propagate" ->
            LET m == PropagateMark(s)
            IN  IF m.gray = <<>> THEN [m EXCEPT !.gcstate = "atomic"] ELSE m
      [] s.gcstate = "atomic" -> EnterSweep(Atomic(PropagateAll(s)))
      [] s.gcstate = "swpallgc" -> SweepStep(s, "swpfinobj", "finobj")
      [] s.gcstate = "swpfinobj" -> SweepStep(s, "swptobefnz", "tobefnz")
      [] s.gcstate = "swptobefnz" -> SweepStep(s, "swpend", Nil)
      [] s.gcstate = "swpend" -> [MakeWhite(s, MainThread) EXCEPT !.gcstate = "callfin"]
      [] s.gcstate = "callfin" ->
            IF s.tobefnz # <<>> /\ s.gckind # "emergency" THEN Udata2Finalize(s)
            ELSE [s EXCEPT !.gcstate = "pause"]

RECURSIVE RunTo(_, _)
RunTo(s, state) == IF s.gcstate = state THEN s ELSE RunTo(SingleStep(s), state)

Sweep(s) == RunTo(IF KeepInvariant(s) THEN EnterSweep(s) ELSE s, "pause")

\* luaC_fullgc.  In an emergency no finalizer runs; otherwise those that run
\* keep nothing.
FullGC(s, kind) ==
    [RunTo(RunTo(SingleStep(Sweep([s EXCEPT !.gckind = kind])), "callfin"), "pause")
        EXCEPT !.gckind = "normal"]

\* A slice of luaC_step; a finalizer of its own is called by RunFinalizer.
GCStep ==
    /\ ~(g.gcstate = "callfin" /\ g.tobefnz # <<>>)
    /\ g' = SingleStep(g)

CollectGarbage(kind) == g' = FullGC(g, kind)

\* GCTM: the finalizer gets the object and may keep it.
RunFinalizer(i) ==
    /\ g.gcstate # "pause"
    /\ g.tobefnz # <<>>
    /\ \E kept \in {Head(g.tobefnz), g.stack[g.L][i]} :
         g' = [Udata2Finalize(g) EXCEPT !.stack[g.L][i] = kept]

-----------------------------------------------------------------------------
(* The program.  It has at hand what is on the running stack, and what that  *)
(* refers to is one operation away.                                          *)

AtHand == (ToSet(g.stack[g.L]) \union {Registry}) \ {Nil}
Readable == AtHand \union UNION {Refers(g, o) : o \in AtHand \ {Proto}}

\* A move, a read of a table or of an upvalue, a transfer between stacks.
Get(i, v) ==
    /\ v \in (Readable \ {Proto}) \union {Nil}
    /\ g' = [g EXCEPT !.stack[g.L][i] = v]

\* luaC_newobj, and the object is put on the stack.
NewObject(s, o) ==
    [MakeWhite(s, o) EXCEPT !.allgc = <<o>> \o @, !.used = @ \union {o}]
Create(o, i) ==
    /\ o \notin g.used
    /\ g' = [NewObject(g, o) EXCEPT !.stack[g.L][i] = o]

\* internshrstr: the string with this content, dead or not, or a new one.
Interned(s, c) == {o \in s.strt : Strings[o] = c}
InternShrStr(s, o) ==
    IF o \in s.strt THEN LET m == IF IsDead(s, o) THEN MakeWhite(s, o) ELSE s
                         IN  [m EXCEPT !.garbage = @ \ {o}]
    ELSE [NewObject(s, o) EXCEPT !.strt = @ \union {o}]
\* A bound: the contents are those of the strings there were.
MayIntern(o) ==
    /\ \E x \in StringObjects \intersect g.used : Strings[x] = Strings[o]
    /\ IF Interned(g, Strings[o]) = {} THEN o \notin g.used ELSE o \in g.strt
\* lua_pushlstring
PushLString(o, i) ==
    /\ MayIntern(o)
    /\ g' = [InternShrStr(g, o) EXCEPT !.stack[g.L][i] = o]
\* lua_pushstring and luaS_new, with one entry in the cache.
Hit(c) == g.strcache # Nil /\ Strings[g.strcache] = c
PushString(o, i) ==
    IF Hit(Strings[o]) THEN /\ o = g.strcache
                           /\ g' = [g EXCEPT !.stack[g.L][i] = o, !.garbage = @ \ {o}]
    ELSE /\ MayIntern(o)
         /\ g' = [InternShrStr(g, o) EXCEPT !.stack[g.L][i] = o, !.strcache = o]

\* luaH_newkey and the assignment after it; or an assignment to the entry.
RawSet(t, k, v) ==
    /\ t \in AtHand \intersect AllTables
    /\ k \in (IF t \in Weakly THEN AtHand ELSE {}) \union {Scalar}
    /\ v \in AtHand \union {Nil}
    /\ k = g.node[t].key \/ (g.node[t].val = Nil /\ v # Nil)
    /\ g' = BarrierBack(BarrierBack([g EXCEPT !.node[t] = [key |-> k, val |-> v]], t, k), t, v)

\* luaC_checkfinalizer
CheckFinalizer(s, o) ==
    LET m == IF IsSweepPhase(s) THEN MakeWhite(s, o) ELSE s
        n == IF IsSweepPhase(s) /\ s.sweepgc = o THEN SweepToLive(m) ELSE m
    IN  [n EXCEPT !.allgc = Without(@, o), !.finobj = <<o>> \o @]

\* A table is made weak once: what becomes of the entries of one that is made
\* strong again while the collector runs depends on how far it is.
SetMetatable(t, mode, gc) ==
    /\ t \in AtHand \intersect Tables
    /\ LET m == [g EXCEPT !.mode[t] = mode]
       IN  g' = IF gc /\ t \notin ToSet(g.finobj) \union ToSet(g.tobefnz)
                THEN CheckFinalizer(m, t) ELSE m

\* OP_CLOSURE over slot i of the running stack: getcached, pushclosure and
\* luaF_findupval.
FromCache(i) == g.cache # Nil /\ g.upval[g.cache] \in OpenAt(g, g.L, i)
PushClosure(f, u, i, j) ==
    /\ ~FromCache(i)
    /\ f \notin g.used
    /\ IF OpenAt(g, g.L, i) = {} THEN g.uv[u] = Nil ELSE u \in OpenAt(g, g.L, i)
    /\ LET c == [NewObject(g, f) EXCEPT
                   !.stack[g.L][j] = f, !.upval[f] = u,
                   !.cache = IF IsBlack(g, Proto) THEN @ ELSE f]
       IN  g' = IF g.uv[u] # Nil THEN c
                ELSE [c EXCEPT !.uv[u] = Open(g.L, i),
                               !.twups = IF g.L \in ToSet(@) THEN @ ELSE <<g.L>> \o @]
PushCached(i, j) ==
    /\ FromCache(i)
    /\ g' = [g EXCEPT !.stack[g.L][j] = g.cache]

\* OP_SETUPVAL
SetUpVal(f, v) ==
    /\ f \in AtHand \intersect Closures
    /\ v \in AtHand
    /\ LET u == g.upval[f]
       IN  g' = IF IsOpen(g, u) THEN [g EXCEPT !.stack[g.uv[u].th][g.uv[u].slot] = v]
                ELSE UpvalBarrier([g EXCEPT !.uv[u].value = v], u)

\* The block of slot i ends: luaF_close.
Close(i) ==
    /\ \E j \in i .. Height : OpenAt(g, g.L, j) # {}
    /\ g' = [FoldLeft(CloseUpVal, g,
                FlattenSeq([j \in 1 .. Height - i + 1 |-> SetToSeq(OpenAt(g, g.L, Height + 1 - j))]))
              EXCEPT !.stack[g.L] = [j \in Slots |-> IF j < i THEN @[j] ELSE Nil]]

\* The main stack runs a coroutine that is at hand; it gives control back.
Resume(c) == /\ g.L = MainThread
             /\ c \in AtHand \intersect Coroutines
             /\ g' = [g EXCEPT !.L = c]
Yield == /\ g.L # MainThread
         /\ g' = [g EXCEPT !.L = MainThread]

Program ==
    \/ \E i \in Slots, v \in Objects \union {Nil} : Get(i, v)
    \/ \E o \in Tables \union Coroutines, i \in Slots : Create(o, i)
    \/ \E o \in StringObjects, i \in Slots : PushLString(o, i) \/ PushString(o, i)
    \/ \E t \in AllTables, k \in Objects \union {Scalar}, v \in Objects \union {Nil} : RawSet(t, k, v)
    \/ \E t \in Weakly, mode \in Modes : g.mode[t] = "strong" /\ SetMetatable(t, mode, FALSE)
    \/ \E t \in Finalizable : SetMetatable(t, g.mode[t], TRUE)
    \/ \E f \in Closures, u \in UpVals, i, j \in Slots : PushClosure(f, u, i, j)
    \/ \E i, j \in Slots : PushCached(i, j)
    \/ \E f \in Closures, v \in Objects : SetUpVal(f, v)
    \/ \E i \in Slots : Close(i)
    \/ \E c \in Coroutines : Resume(c)
    \/ Yield

Collector ==
    \/ GCStep
    \/ \E kind \in {"normal", "emergency"} : CollectGarbage(kind)
    \/ \E i \in Slots : RunFinalizer(i)

Next ==
    \/ Collector /\ UNCHANGED ops
    \/ ops < MaxOps /\ ops' = ops + 1 /\ Program

Spec == Init /\ [][Next]_vars

-----------------------------------------------------------------------------
(* Properties.                                                               *)

\* Whatever the program can come to, weak references and cached strings included, is
\* there and is not about to be freed: no barrier is missing, and the sweep and the
\* finalizers move no object past the collector.  And equal strings are one, as their
\* comparison by address requires, even when one is asked for while it is being freed.
NothingDangles ==
    LET held == Reachable(g) \union ({g.strcache} \ {Nil})
    IN  \A o \in held :
          /\ o \in Live(g) /\ ~IsDead(g, o)
          /\ o \in StringObjects => \A x \in held \intersect StringObjects : Strings[x] = Strings[o] => x = o

\* lgc.h:20-31: while the collector marks, a black object points to no white one
\* (a prototype to its cache excepted), and a gray one is in a list.
Tricolor ==
    KeepInvariant(g) =>
        /\ \A o \in Live(g) \ {Proto} :
              IsBlack(g, o) => \A x \in Refers(g, o) :
                 ~IsWhite(g, x) \/ (o \in Closures /\ IsOpen(g, g.upval[o]))
        /\ \A o \in Live(g) : IsGray(g, o) =>
              \E list \in {"gray", "grayagain", "weak", "ephemeron", "allweak"} : o \in ToSet(g[list])

\* lgc.h:71-75: when the sweep ends all objects are white again; and everything is
\* gone that was garbage when the cycle began.
SweepRestores ==
    g.gcstate \in {"callfin", "pause"} =>
        /\ \A o \in Live(g) : g.marked[o] = g.currentwhite
        /\ g.garbage \intersect Live(g) = {}

\* The colors are what the barriers and the sweep take them for.
ColorsAreKept == Tricolor /\ SweepRestores

\* An object with a finalizer leaves the list of those for its finalizer only, and
\* only when nothing of the program keeps it.
FinalizedWhenUnreachable ==
    [][\A t \in ToSet(g.finobj) \ ToSet(g'.finobj) :
         /\ t \in Live(g')
         /\ t \notin KeptBy(g, {MainThread, Registry, g.L})]_vars
=============================================================================
