----------------------------- MODULE LuaMeaning -----------------------------
(***************************************************************************)
(* What a Lua program means, for LuaPrograms to compare with what the       *)
(* compiled program does: an interpreter of its syntax tree in which every  *)
(* local variable is a cell of its own.                                     *)
(*                                                                         *)
(* Expressions: <<"const", value>>, <<"var", name>>, <<"...">>,             *)
(* <<"un", op, e>>, <<"bin", op, e, e>>, <<"index", e, e>>,                 *)
(* <<"call", e, es>>, <<"method", e, name, es>>, <<"table", es, fields>>    *)
(* (a field is <<key, value>>), <<"function", names, vararg, block>>.       *)
(* Statements: <<"local", names, es>>, <<"assign", es, es>>, <<"do", block>>, *)
(* <<"while", e, block>>, <<"repeat", e, block>>, <<"if", e, block, block>>, *)
(* <<"for", name, es, block>>, <<"in", names, es, block>>, <<"return", es>>, *)
(* <<"break">>, <<"goto", label>>, <<"label", label>>, <<"call", e, es>>,   *)
(* <<"localfunction", name, names, block>>.                                 *)
(*                                                                         *)
(* m is the state: scope is a sequence of names with their cells, varargs   *)
(* the extra arguments, vals the values of the last expression, sig "next"  *)
(* or why the block is left, and to the label of a goto.                    *)
(***************************************************************************)
EXTENDS Integers, Sequences, FiniteSets, SequencesExt, TLC

Nil == <<"nil">>
False(v) == v \in {Nil, <<"bool", FALSE>>}
Ok(m) == m.sig = "next"
Fault(m) == [m EXCEPT !.sig = "error"]
Give(m, vals) == [m EXCEPT !.vals = vals]
One(m) == IF m.vals = <<>> THEN Nil ELSE m.vals[1]
Nth(vals, i) == IF i <= Len(vals) THEN vals[i] ELSE Nil

CellOf(m, name) ==
    LET at == {i \in DOMAIN m.scope : m.scope[i].name = name}
    IN  IF at = {} THEN 0 ELSE m.scope[CHOOSE i \in at : \A j \in at : j <= i].cell
Get(table, k) == IF k \in DOMAIN table THEN table[k] ELSE Nil
Declare(m, names, vals) ==
    [m EXCEPT !.scope = @ \o [i \in DOMAIN names |-> [name |-> names[i], cell |-> Len(m.cells) + i]],
              !.cells = @ \o [i \in DOMAIN names |-> Nth(vals, i)]]

Divide(a, b) == IF b > 0 THEN a \div b ELSE (-a) \div (-b)
Ints(x, y) == x[1] = "int" /\ y[1] = "int"
Written(v) == IF v[1] = "int" THEN ToString(v[2]) ELSE v[2]
Known(op, x, y) ==
    CASE op \in {"==", "~="} -> TRUE
      [] op = ".."           -> {x[1], y[1]} \subseteq {"int", "str"}
      [] op \in {"//", "%"}  -> IF Ints(x, y) THEN y[2] # 0 ELSE FALSE
      [] OTHER               -> Ints(x, y)
Applied(op, x, y) ==
    CASE op = "+" -> <<"int", x[2] + y[2]>>
      [] op = "-" -> <<"int", x[2] - y[2]>>
      [] op = "*" -> <<"int", x[2] * y[2]>>
      [] op = "//" -> <<"int", Divide(x[2], y[2])>>
      [] op = "%" -> <<"int", x[2] - y[2] * Divide(x[2], y[2])>>
      [] op = ".." -> <<"str", Written(x) \o Written(y)>>
      [] op = "==" -> <<"bool", x = y>>
      [] op = "~=" -> <<"bool", x # y>>
      [] op = "<" -> <<"bool", x[2] < y[2]>>
      [] op = "<=" -> <<"bool", x[2] <= y[2]>>
      [] op = ">" -> <<"bool", x[2] > y[2]>>
      [] op = ">=" -> <<"bool", x[2] >= y[2]>>

RECURSIVE Eval(_, _), EvalList(_, _, _), Exec(_, _), Run(_, _, _, _), Loop(_, _), ForTo(_, _, _, _, _), Each(_, _, _)

-----------------------------------------------------------------------------
(* Expressions. *)

\* The values of es[i], es[i + 1], ...: one of each, and all of the last.
EvalRest(m, es, first) == IF Ok(m) THEN Give(m, <<first>> \o m.vals) ELSE m
EvalList(m, es, i) ==
    IF i > Len(es) THEN Give(m, <<>>)
    ELSE IF i = Len(es) THEN Eval(m, es[i])
    ELSE LET r == Eval(m, es[i]) IN IF Ok(r) THEN EvalRest(EvalList(r, es, i + 1), es, One(r)) ELSE r

Block(m, stats) == Run(m, stats, 1, Len(m.scope))
Leave(m, r) == [r EXCEPT !.scope = m.scope, !.varargs = m.varargs]
CallOf(m, f, args) ==
    IF ~Ok(m) THEN m
    ELSE IF f[1] # "function" THEN Fault(m)
    ELSE LET fn == m.funcs[f[2]]
             r == Leave(m, Block(Declare([m EXCEPT !.scope = fn.scope,
                                            !.varargs = IF fn.vararg THEN SubSeq(args, Len(fn.names) + 1, Len(args))
                                                        ELSE <<>>], fn.names, args), fn.block))
         IN  CASE r.sig = "return" -> [r EXCEPT !.sig = "next"]
               [] r.sig = "next"   -> Give(r, <<>>)
               [] OTHER            -> r

Binary(m, op, x) ==
    IF ~Ok(m) THEN m ELSE IF Known(op, x, One(m)) THEN Give(m, <<Applied(op, x, One(m))>>) ELSE Fault(m)
Unary(m, op) ==
    CASE ~Ok(m) -> m
      [] Ok(m) /\ op = "not" -> Give(m, << <<"bool", False(One(m))>> >>)
      [] Ok(m) /\ op = "-" -> Binary(m, "-", <<"int", 0>>)
      [] Ok(m) /\ op = "#" /\ One(m)[1] = "str" -> Give(m, << <<"int", Len(One(m)[2])>> >>)
      [] OTHER -> IF One(m)[1] # "table" THEN Fault(m)
                  ELSE Give(m, << <<"int", Cardinality({k \in DOMAIN m.tables[One(m)[2]] :
                                       k[1] = "int" /\ m.tables[One(m)[2]][k] # Nil})>> >>)
Indexing(m, t) ==
    IF ~Ok(m) THEN m ELSE IF t[1] # "table" THEN Fault(m) ELSE Give(m, <<Get(m.tables[t[2]], One(m))>>)

SetIn(m, t, k, v) ==
    IF ~Ok(m) THEN m ELSE IF t[1] # "table" \/ k = Nil THEN Fault(m)
    ELSE [m EXCEPT !.tables[t[2]] = (k :> v) @@ @]
RECURSIVE SetFields(_, _, _, _)
SetFields(m, t, fields, i) ==
    IF i > Len(fields) \/ ~Ok(m) THEN m
    ELSE LET k == Eval(m, fields[i][1])
             v == Eval(k, fields[i][2])
         IN  SetFields(SetIn(v, t, One(k), One(v)), t, fields, i + 1)
\* The items are stored after the fields.
NewTable(m, es, fields) ==
    LET t == <<"table", Len(m.tables) + 1>>
        items == EvalList([m EXCEPT !.tables = Append(@, <<>>)], es, 1)
        r == SetFields(items, t, fields, 1)
    IN  IF ~Ok(r) THEN r
        ELSE [Give(r, <<t>>) EXCEPT !.tables[t[2]] =
                [k \in {<<"int", i>> : i \in DOMAIN items.vals} |-> items.vals[k[2]]] @@ @]

Cut(m, stop, e) == IF ~Ok(m) \/ False(One(m)) = stop THEN m ELSE Eval(m, e)
Eval(m, e) ==
    CASE ~Ok(m) -> m
      [] Ok(m) /\ e[1] = "const" -> Give(m, <<e[2]>>)
      [] Ok(m) /\ e[1] = "var" ->
           Give(m, <<IF CellOf(m, e[2]) = 0 THEN Get(m.tables[1], <<"str", e[2]>>) ELSE m.cells[CellOf(m, e[2])]>>)
      [] Ok(m) /\ e[1] = "..." -> Give(m, m.varargs)
      [] Ok(m) /\ e[1] = "un" -> Unary(Eval(m, e[3]), e[2])
      [] Ok(m) /\ e[1] = "bin" ->
           LET x == Eval(m, e[3])
           IN  CASE e[2] = "and" -> LET r == Cut(x, TRUE, e[4]) IN Give(r, <<One(r)>>)
                 [] e[2] = "or"  -> LET r == Cut(x, FALSE, e[4]) IN Give(r, <<One(r)>>)
                 [] OTHER        -> Binary(Eval(x, e[4]), e[2], One(x))
      [] Ok(m) /\ e[1] = "index" -> LET t == Eval(m, e[2]) IN Indexing(Eval(t, e[3]), One(t))
      [] Ok(m) /\ e[1] = "call" ->
           LET f == Eval(m, e[2])
               args == EvalList(f, e[3], 1)
           IN  CallOf(args, One(f), args.vals)
      [] Ok(m) /\ e[1] = "method" ->
           LET o == Eval(m, e[2])
               f == Indexing(Give(o, << <<"str", e[3]>> >>), One(o))
               args == EvalList(f, e[4], 1)
           IN  CallOf(args, One(f), <<One(o)>> \o args.vals)
      [] Ok(m) /\ e[1] = "table" -> NewTable(m, e[2], e[3])
      [] Ok(m) /\ e[1] = "function" ->
           [Give(m, << <<"function", Len(m.funcs) + 1>> >>) EXCEPT
               !.funcs = Append(@, [names |-> e[2], vararg |-> e[3], block |-> e[4], scope |-> m.scope])]

-----------------------------------------------------------------------------
(* Statements. *)

\* The tables and keys of the variables, the values, then the assignments.
RECURSIVE Places(_, _, _), Store(_, _, _, _)
Places(m, vars, i) ==
    IF i > Len(vars) \/ ~Ok(m) THEN Give(m, <<>>)
    ELSE IF vars[i][1] = "var"
    THEN LET r == Places(m, vars, i + 1) IN Give(r, << <<"var", vars[i][2]>> >> \o r.vals)
    ELSE LET t == Eval(m, vars[i][2])
             k == Eval(t, vars[i][3])
             r == Places(k, vars, i + 1)
         IN  Give(r, << <<"index", One(t), One(k)>> >> \o r.vals)
StoreOne(m, place, v) ==
    IF place[1] = "index" THEN SetIn(m, place[2], place[3], v)
    ELSE IF CellOf(m, place[2]) = 0 THEN SetIn(m, <<"table", 1>>, <<"str", place[2]>>, v)
    ELSE [m EXCEPT !.cells[CellOf(m, place[2])] = v]
Store(m, places, vals, i) ==
    IF i = 0 \/ ~Ok(m) THEN m ELSE Store(StoreOne(m, places[i], Nth(vals, i)), places, vals, i - 1)
AssignTo(m, es, places) == LET r == EvalList(m, es, 1) IN Store(r, places, r.vals, Len(places))

Scoped(m, r) == [r EXCEPT !.scope = m.scope]
Broken(m) == IF m.sig = "break" THEN [m EXCEPT !.sig = "next"] ELSE m
Again(m, s) == IF Ok(m) THEN Loop([m EXCEPT !.fuel = @ - 1], s) ELSE Broken(m)
Loop(m, s) ==
    IF m.fuel <= 0 THEN [m EXCEPT !.sig = "fuel"]
    ELSE IF s[1] = "while"
    THEN LET c == Eval(m, s[2])
         IN  IF ~Ok(c) \/ False(One(c)) THEN c ELSE Again(Scoped(m, Block(c, s[3])), s)
    ELSE LET b == Block(m, s[3])
             c == Eval(b, s[2])
         IN  IF Ok(c) /\ ~False(One(c)) THEN Scoped(m, c) ELSE Again(Scoped(m, c), s)
ForTo(m, s, i, limit, step) ==
    IF ~Ok(m) THEN Broken(m)
    ELSE IF m.fuel <= 0 THEN [m EXCEPT !.sig = "fuel"]
    ELSE IF (step > 0 /\ i > limit) \/ (step <= 0 /\ i < limit) THEN m
    ELSE ForTo(Scoped(m, Block(Declare([m EXCEPT !.fuel = @ - 1], <<s[2]>>, << <<"int", i>> >>), s[4])),
               s, i + step, limit, step)
For(m, s) ==
    IF ~Ok(m) THEN m
    ELSE IF \E i \in 1 .. 3 : Nth(m.vals, i)[1] # "int" THEN Fault(m)
    ELSE ForTo(m, s, m.vals[1][2], m.vals[2][2], m.vals[3][2])
Each(m, s, g) ==
    IF ~Ok(m) THEN Broken(m)
    ELSE LET r == CallOf(m, g[1], <<g[2], g[3]>>)
         IN  IF ~Ok(r) \/ One(r) = Nil THEN r
             ELSE Each(Scoped(m, Block(Declare(r, s[2], r.vals), s[4])), s, <<g[1], g[2], One(r)>>)
In(m, s) == Each(m, s, <<Nth(m.vals, 1), Nth(m.vals, 2), Nth(m.vals, 3)>>)
Returning(m) == IF Ok(m) THEN [m EXCEPT !.sig = "return"] ELSE m

Exec(m, s) ==
    CASE s[1] = "local"  -> LET r == EvalList(m, s[3], 1) IN IF Ok(r) THEN Declare(r, s[2], r.vals) ELSE r
      [] s[1] = "localfunction" ->
           LET d == Declare(m, <<s[2]>>, <<>>) IN AssignTo(d, << <<"function", s[3], FALSE, s[4]>> >>, << <<"var", s[2]>> >>)
      [] s[1] = "assign" -> LET p == Places(m, s[2], 1) IN AssignTo(p, s[3], p.vals)
      [] s[1] = "do"     -> Scoped(m, Block(m, s[2]))
      [] s[1] \in {"while", "repeat"} -> Loop(m, s)
      [] s[1] = "if"     -> LET c == Eval(m, s[2])
                            IN  IF ~Ok(c) THEN c ELSE Scoped(m, Block(c, IF False(One(c)) THEN s[4] ELSE s[3]))
      [] s[1] = "for"    -> For(EvalList(m, IF Len(s[3]) = 2 THEN Append(s[3], <<"const", <<"int", 1>>>>) ELSE s[3], 1), s)
      [] s[1] = "in"     -> In(EvalList(m, s[3], 1), s)
      [] s[1] = "return" -> Returning(EvalList(m, s[2], 1))
      [] s[1] = "break"  -> [m EXCEPT !.sig = "break"]
      [] s[1] = "goto"   -> [m EXCEPT !.sig = "goto", !.to = s[2]]
      [] s[1] = "label"  -> m
      [] s[1] = "call"   -> Eval(m, s)

\* The block from statement i on; size is how many variables were in scope before it.
RECURSIVE Declared(_, _)
Declared(stats, i) ==
    IF i = 0 THEN 0
    ELSE Declared(stats, i - 1) + (CASE stats[i][1] = "local" -> Len(stats[i][2])
                                     [] stats[i][1] = "localfunction" -> 1 [] OTHER -> 0)
LabelAt(stats, l) == CHOOSE i \in DOMAIN stats : stats[i] = <<"label", l>>
LabelsOf(stats) == {stats[i][2] : i \in {i \in DOMAIN stats : stats[i][1] = "label"}}
LabelIn(stats, name) ==
    IF name \notin LabelsOf(stats) THEN 0 ELSE LabelAt(stats, name)
Shorter(m, n) == [m EXCEPT !.scope = SubSeq(@, 1, IF n < Len(@) THEN n ELSE Len(@)), !.sig = "next"]
Run(m, stats, i, size) ==
    CASE m.fuel <= 0 -> [m EXCEPT !.sig = "fuel"]
      [] m.fuel > 0 /\ i > Len(stats) -> m
      [] OTHER -> LET r == Exec([m EXCEPT !.fuel = @ - 1], stats[i])
                      at == LabelIn(stats, r.to)
                  IN  CASE Ok(r) -> Run(r, stats, i + 1, size)
                        [] r.sig = "goto" /\ at > 0 ->
                             Run(Shorter(r, size + Declared(stats, at - 1)), stats, at, size)
                        [] OTHER -> r

Meaning(stats, fuel) ==
    Block([scope |-> <<>>, varargs |-> <<>>, cells |-> <<>>, tables |-> << <<>> >>, funcs |-> <<>>,
           sig |-> "next", to |-> "", vals |-> <<>>, fuel |-> fuel], stats)

-----------------------------------------------------------------------------
(* Which programs are legal.                                                *)

IsLocal(s) == s[1] \in {"local", "localfunction"}

\* A label that statement i can go to: behind it, not after the declaration of a local,
\* or at the end of the block, where the locals are gone unless "until" still sees them.
CanReach(stats, i, at, until) ==
    \/ at <= i
    \/ \A j \in i .. at : ~IsLocal(stats[j])
    \/ ~until /\ \A j \in at .. Len(stats) : stats[j][1] = "label"
Reachable(stats, i, outer, until) ==
    {l \in LabelsOf(stats) : CanReach(stats, i, LabelAt(stats, l), until)} \cup (outer \ LabelsOf(stats))

RECURSIVE LegalBlock(_, _, _, _)
LegalStat(s, labels, inloop) ==
    CASE s[1] = "goto"                     -> s[2] \in labels
      [] s[1] = "break"                    -> inloop
      [] s[1] = "do"                       -> LegalBlock(s[2], labels, inloop, FALSE)
      [] s[1] \in {"while", "repeat"}      -> LegalBlock(s[3], labels, TRUE, s[1] = "repeat")
      [] s[1] \in {"for", "in"}            -> LegalBlock(s[4], labels, TRUE, FALSE)
      [] s[1] = "if"                       -> /\ LegalBlock(s[3], labels, inloop, FALSE)
                                              /\ LegalBlock(s[4], labels, inloop, FALSE)
      [] s[1] = "localfunction"            -> LegalBlock(s[4], {}, FALSE, FALSE)
      [] OTHER                             -> TRUE
LegalBlock(stats, outer, inloop, until) ==
    /\ \A i, j \in DOMAIN stats : stats[i][1] = "label" /\ stats[j] = stats[i] => i = j
    /\ \A i \in DOMAIN stats : LegalStat(stats[i], Reachable(stats, i, outer, until), inloop)
Legal(stats) == LegalBlock(stats, {}, FALSE, FALSE)

-----------------------------------------------------------------------------
(* The tokens of a program, with brackets only where the precedences of the *)
(* reference manual ask for them.                                           *)

Precedence ==
    "or" :> 1 @@ "and" :> 2 @@ "<" :> 3 @@ ">" :> 3 @@ "<=" :> 3 @@ ">=" :> 3 @@ "~=" :> 3 @@ "==" :> 3
      @@ ".." :> 4 @@ "+" :> 5 @@ "-" :> 5 @@ "*" :> 6 @@ "//" :> 6 @@ "%" :> 6
Binds(e) == IF e[1] = "bin" THEN Precedence[e[2]] ELSE IF e[1] = "un" THEN 7 ELSE 8

RECURSIVE Words(_), WordList(_), Lines(_)
Within(e, least) == IF Binds(e) < least THEN <<<<"(">>>> \o Words(e) \o <<<<")">>>> ELSE Words(e)
Names(names) == FoldLeft(LAMBDA w, n : (IF w = <<>> THEN w ELSE Append(w, <<",">>)) \o <<<<"name", n>>>>, <<>>, names)
Comma(a, b) == IF a = <<>> THEN b ELSE IF b = <<>> THEN a ELSE a \o <<<<",">>>> \o b
WordList(es) == FoldLeft(LAMBDA w, e : Comma(w, Words(e)), <<>>, es)
FieldWords(fs) ==
    FoldLeft(LAMBDA w, f : Comma(w, <<<<"[">>>> \o Words(f[1]) \o <<<<"]">>, <<"=">>>> \o Words(f[2])), <<>>, fs)
Constant(v) == CASE v[1] = "int" -> v [] v[1] = "str" -> <<"string", v[2]>>
                 [] v = Nil -> <<"nil">> [] OTHER -> IF v[2] THEN <<"true">> ELSE <<"false">>
BodyWords(names, vararg, block) ==
    <<<<"(">>>> \o Comma(Names(names), IF vararg THEN <<<<"...">>>> ELSE <<>>) \o <<<<")">>>>
      \o Lines(block) \o <<<<"end">>>>
PrefixWords(e) == IF e[1] \in {"var", "index", "call", "method"} THEN Words(e) ELSE <<<<"(">>>> \o Words(e) \o <<<<")">>>>
Words(e) ==
    CASE e[1] = "const" -> <<Constant(e[2])>>
      [] e[1] = "var"   -> <<<<"name", e[2]>>>>
      [] e[1] = "..."   -> <<<<"...">>>>
      [] e[1] = "un"    -> <<<<e[2]>>>> \o Within(e[3], 7)
      [] e[1] = "bin"   -> Within(e[3], Precedence[e[2]] + (IF e[2] = ".." THEN 1 ELSE 0)) \o <<<<e[2]>>>>
                             \o Within(e[4], Precedence[e[2]] + (IF e[2] = ".." THEN 0 ELSE 1))
      [] e[1] = "index" -> PrefixWords(e[2]) \o (IF e[3][1] = "const" /\ e[3][2][1] = "str"
                             THEN <<<<".">>, <<"name", e[3][2][2]>>>> ELSE <<<<"[">>>> \o Words(e[3]) \o <<<<"]">>>>)
      [] e[1] = "call"  -> PrefixWords(e[2]) \o <<<<"(">>>> \o WordList(e[3]) \o <<<<")">>>>
      [] e[1] = "method" -> PrefixWords(e[2]) \o <<<<":">>, <<"name", e[3]>>, <<"(">>>> \o WordList(e[4]) \o <<<<")">>>>
      [] e[1] = "table" -> <<<<"{">>>> \o Comma(FieldWords(e[3]), WordList(e[2])) \o <<<<"}">>>>
      [] e[1] = "function" -> <<<<"function">>>> \o BodyWords(e[2], e[3], e[4])
Line(s) ==
    CASE s[1] = "local"  -> <<<<"local">>>> \o Names(s[2]) \o (IF s[3] = <<>> THEN <<>> ELSE <<<<"=">>>> \o WordList(s[3]))
      [] s[1] = "localfunction" -> <<<<"local">>, <<"function">>, <<"name", s[2]>>>> \o BodyWords(s[3], FALSE, s[4])
      [] s[1] = "assign" -> WordList(s[2]) \o <<<<"=">>>> \o WordList(s[3])
      [] s[1] = "do"     -> <<<<"do">>>> \o Lines(s[2]) \o <<<<"end">>>>
      [] s[1] = "while"  -> <<<<"while">>>> \o Words(s[2]) \o <<<<"do">>>> \o Lines(s[3]) \o <<<<"end">>>>
      [] s[1] = "repeat" -> <<<<"repeat">>>> \o Lines(s[3]) \o <<<<"until">>>> \o Words(s[2])
      [] s[1] = "if"     -> <<<<"if">>>> \o Words(s[2]) \o <<<<"then">>>> \o Lines(s[3])
                              \o (IF s[4] = <<>> THEN <<>> ELSE <<<<"else">>>> \o Lines(s[4])) \o <<<<"end">>>>
      [] s[1] = "for"    -> <<<<"for">>, <<"name", s[2]>>, <<"=">>>> \o WordList(s[3]) \o <<<<"do">>>> \o Lines(s[4])
                              \o <<<<"end">>>>
      [] s[1] = "in"     -> <<<<"for">>>> \o Names(s[2]) \o <<<<"in">>>> \o WordList(s[3]) \o <<<<"do">>>> \o Lines(s[4])
                              \o <<<<"end">>>>
      [] s[1] = "return" -> <<<<"return">>>> \o WordList(s[2])
      [] s[1] = "break"  -> <<<<"break">>>>
      [] s[1] = "goto"   -> <<<<"goto">>, <<"name", s[2]>>>>
      [] s[1] = "label"  -> <<<<"::">>, <<"name", s[2]>>, <<"::">>>>
      [] s[1] = "call"   -> Words(s)
Line1(words) == IF words # <<>> /\ words[1] = <<"(">> THEN <<<<";">>>> \o words ELSE words
Lines(stats) == FoldLeft(LAMBDA w, s : w \o Line1(Line(s)), <<>>, stats)
=============================================================================
