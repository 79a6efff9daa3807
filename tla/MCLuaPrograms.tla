--------------------------- MODULE MCLuaPrograms ---------------------------
(***************************************************************************)
(* The programs that LuaPrograms writes and the texts that LuaLibrary      *)
(* writes, by theme.                                                       *)
(***************************************************************************)
EXTENDS LuaPrograms, LuaLibrary

I(n) == <<"const", <<"int", n>>>>
S(s) == <<"const", <<"str", s>>>>
NilE == <<"const", <<"nil">>>>
V(name) == <<"var", name>>
Bin(op, x, y) == <<"bin", op, x, y>>
Not(x) == <<"un", "not", x>>
At(t, k) == <<"index", t, k>>
CallE(f, args) == <<"call", f, args>>
Fn(names, block) == <<"function", names, FALSE, block>>
VarFn(names, block) == <<"function", names, TRUE, block>>
Tab(items) == <<"table", items, <<>>>>
Local(names, es) == <<"local", names, es>>
Set(vs, es) == <<"assign", vs, es>>
Return(es) == <<"return", es>>
If(e, block) == <<"if", e, block, <<>>>>
Plus1(name) == Set(<<V(name)>>, <<Bin("+", V(name), I(1))>>)

Theme(before, simple, heads, max, after) ==
    [kind |-> "program", before |-> before, simple |-> simple, heads |-> heads, size |-> max, after |-> after]
OneOf(before, simple, after) == Theme(before, simple, {}, 1, after)

\* Conditions and values of and, or, not, ==; a is false, x is nil.
Atoms == {NilE, I(1), V("a")}
Simple(es) == es \cup {Not(e) : e \in es} \cup {Bin(op, d, e) : op \in {"and", "or", "=="}, d, e \in es}
Conditions == {Bin(op, d, e) : op \in {"and", "or"}, d, e \in Simple(Atoms)} \cup {Not(e) : e \in Simple(Simple({V("a")}))}
Logic == OneOf(<<Local(<<"a">>, <<Bin("==", I(1), I(2))>>)>>,
               {Return(<<e, V("a")>>) : e \in Conditions} \cup {If(e, <<Return(<<I(5)>>)>>) : e \in Conditions},
               <<>>)

\* Precedence, associativity, constants and registers; a is 2, x is nil.
Signs == {"+", "-", "//", "..", "<", "=="}
Leaves == {I(7), V("a")}
Sums == {Bin(op, d, e) : op \in Signs, d, e \in Leaves}
NoText(op, e) == e[2] = ".." => op \in {"..", "=="}
Nested == {Bin(op, d, e) : op \in Signs, d \in Sums, e \in Leaves} \cup {Bin(op, e, d) : op \in Signs, d \in Sums, e \in Leaves}
Arith2 == {e \in Nested : \A i \in 3 .. 4 : e[i] \in Sums => NoText(e[2], e[i])}
Arithmetics == OneOf(<<Local(<<"a">>, <<I(2)>>)>>,
                     {Return(<<e>>) : e \in Arith2 \cup {<<"un", op, e>> : op \in {"-", "#", "not"}, e \in {e \in Sums : e[2] # ".."}}}, <<>>)

\* Multiple assignment to locals, upvalues, fields and globals.
Vars == {V("a"), V("t"), V("x"), At(V("t"), V("a")), At(V("t"), I(1))}
Vals == {V("a"), V("t"), I(3), At(V("t"), V("a")), CallE(V("f"), <<V("a")>>)}
Assignments == {Set(<<v, w>>, es) : v, w \in Vars, es \in {<<d>> : d \in Vals} \cup {<<d, e>> : d, e \in Vals}}
Multiple == OneOf(<<Local(<<"a", "t">>, <<I(1), Tab(<<I(4), I(5)>>)>>),
                    Local(<<"u", "f">>, <<V("t"), VarFn(<<>>, <<Return(<<I(6), <<"...">>>>)>>)>>)>>,
                  Assignments \cup {<<"call", Fn(<<>>, <<s>>), <<>>>> : s \in Assignments},
                  <<Return(<<V("a"), V("x"), At(V("u"), I(1)), At(V("u"), I(2)), At(V("u"), I(3))>>)>>)

\* Lists of expressions, open or not, wherever one may be.
Elements == {I(1), V("a"), <<"...">>, CallE(V("f"), <<I(2), V("a")>>)}
Lists == {<<>>} \cup {<<d>> : d \in Elements} \cup {<<d, e>> : d, e \in Elements} \cup {<<d, e, d>> : d, e \in Elements}
Keyed == << <<S("k"), V("a")>>, <<V("a"), I(9)>> >>
Uses1(es) == {Return(es), Return(<<CallE(V("f"), es)>>), Return(<<CallE(V("f"), es), I(0)>>),
              Return(<<At(Tab(es), I(3)), <<"un", "#", Tab(es)>>>>),
              Return(<<At(<<"table", es, Keyed>>, V("a")), At(<<"table", es, Keyed>>, S("k"))>>),
              Return(<< <<"method", Tab(<<V("f")>>), "m", es>> >>)}
Calls == OneOf(<<Local(<<"f">>, <<VarFn(<<"b">>, <<Return(<< <<"...">>, V("b")>>)>>)>>)>>,
               {Return(<<CallE(VarFn(<<"a">>, <<s>>), <<I(3), I(8), I(9)>>)>>) : s \in UNION {Uses1(es) : es \in Lists}}
                 \cup {Return(<<CallE(VarFn(<<"a">>, <<Local(<<"b", "c", "d">>, es), Return(<<V("b"), V("c"), V("d")>>)>>),
                                      <<I(3), I(8)>>)>>) : es \in Lists},
               <<>>)

\* Closures over the variables of blocks and loops.
Grow == Set(<<V("f"), V("g")>>,
               <<Fn(<<>>, <<Set(<<V("x")>>, <<Bin("+", V("x"), V("a"))>>), Return(<<V("x")>>)>>), V("f")>>)
Tries == <<Return(<<V("a"), Bin("and", V("f"), CallE(V("f"), <<>>)), Bin("and", V("g"), CallE(V("g"), <<>>)),
                    Bin("and", V("f"), CallE(V("f"), <<>>))>>)>>
Start1 == <<Local(<<"a", "f", "g">>, <<I(1)>>)>>
Closures == Theme(Start1,
                  {Local(<<"x">>, <<V("a")>>), Plus1("a"), Grow, If(Bin("==", V("a"), I(2)), << <<"break">> >>)},
                  {<<"while", Bin("<", V("a"), I(3))>>, <<"repeat", Bin("==", V("x"), I(2))>>,
                   <<"for", "x", <<I(1), I(2)>>>>},
                  4, Tries)
Gotos == Theme(Start1,
               {Local(<<"x">>, <<V("a")>>), Grow, <<"goto", "l">>, <<"label", "l">>},
               {<<"do">>, <<"if", Bin("==", V("a"), I(2))>>, <<"repeat", Bin("==", V("x"), I(1))>>},
               4, Tries)


Texts(kind, before, simple, max) ==
    [kind |-> kind, before |-> before, simple |-> simple, heads |-> {}, size |-> max, after |-> <<>>]
Chars(set) == {<<ch>> : ch \in set}

Class(chars) == <<chars>>
Repeated(chars, suffix) == <<chars, <<suffix>> >>
Patterns == Texts("pattern", <<>>,
                  {Class(<<"b">>), Class(<<"[", "a", "-", "b", "]">>), Repeated(<<"a">>, "*"),
                   Repeated(<<"a">>, "-"), Repeated(<<".">>, "?"), Repeated(<<"[", "^", "a", "]">>, "+")}
                    \cup {<<item>> : item \in {<<"(">>, <<")">>, <<"(", ")">>, <<"$">>, <<"%", "1">>,
                                               <<"%", "b", "a", "b">>, <<"%", "f", "[", "a", "]">>}}, 4)
MCSubjects == SeqOf({"a", "b"}, 3)
MCOrder == <<"#", "%", "(", ")", "1", "a", "b", "c">>
MCClasses == "l" :> {"a", "b", "c"} @@ "d" :> {"1"}

Signed == Texts("text", <<>>, Chars({"=", "<", "/", "~", ":", ".", "-", "[", "\n", "o"}), 4)
Words == Texts("text", <<>>, Chars({"o", "r", "1", "_", " ", "\r", "\n"}) \cup {<<"-", "-">>}, 4)
Quoted == Texts("text", << <<"\"">> >>, Chars({"\"", "'", "\\", "\n", "\r", "z", "1", "o"}), 5)
Brackets == Texts("text", <<>>, Chars({"[", "]", "=", "\n", "\r"}) \cup {<<"-", "-">>, <<"[", "=", "[">>}, 5)
MCReserved == {<<"o", "r">>}
MCCharacters ==
    0 :> "\\0" @@ 10 :> "\n" @@ 13 :> "\r" @@ 34 :> "\"" @@ 39 :> "'" @@ 45 :> "-" @@ 49 :> "1" @@ 92 :> "\\"
      @@ 111 :> "o" @@ 122 :> "z"
Strings == Texts("string", <<>>, Chars({"\\0", "\n", "\r", "\"", "\\", "1", "o", "\\127"}), 4)
Numerals == Texts("numeral", <<>>, Chars({"0", "1", "2", "7", "8", "-", "x", "f"}) \cup {<<".", "0">>, <<" ">>}, 4)

Files == Texts("file", <<>>, Chars({"\\239", "\\187", "#", "\n", "\\27", "o"}), 5)
MCSignature == "\\27"
MCBOM == <<"\\239", "\\187">>

Part(name, val) == <<name, val>>
Chunks == Theme(<<>>, {Part("code", "i"), Part("k", [type |-> "nil", v |-> <<"nil">>]), Part("k", [type |-> "integer", v |-> <<"1">>]),
                       Part("locvar", [varname |-> <<"o">>, startpc |-> 1, endpc |-> 2])}
                        \cup {Part("k", [type |-> "string", v |-> name]) : name \in {<<>>, <<"o">>, <<"o", "r">>}}
                        \cup {Part("upvalue", [instack |-> 1, idx |-> 0, name |-> name]) : name \in {<<"o", "r">>}},
                { <<"function">> }, 3, <<>>)

SomeLists == Texts("list", <<>>, Chars({"a", "b", "c"}), 5)
LongLists == Texts("list", <<>>, Chars({"a", "b"}), 8)
ShortLists == Texts("short list", <<>>, Chars({"a", "b"}), 3)

Bytes == Texts("bytes", <<>>, {<<b>> : b \in {65, 128, 144, 160, 143, 191, 193, 194, 224, 237, 240, 244, 255}}, 4)
MCCodes == {0, 127, 128, 2047, 2048, 65535, 65536, 1114111}

\* Two bits to a byte, and half the bytes in the types of C.
MCSizeOf == [short |-> 1, int |-> 2, long |-> 4, integer |-> 4, size_t |-> 4, float |-> 2, double |-> 4, number |-> 4]
Option(letter, arg) == <<letter, -1, arg>>
Ints == {-128, -9, -8, -2, -1, 0, 1, 7, 8, 15, 16, 127}
Letters(letters, args) == {Option(letter, arg) : letter \in letters, arg \in args}
Integral == Letters({"b", "j", "J", "H"}, {-128, -2, 1, 3, 127})
              \cup {<<letter, n, arg>> : letter \in {"i", "I"}, n \in {-1, 0, 1, 3, 5, 8, 9}, arg \in Ints}
Floats == Letters({"f"}, {1, 7}) \cup Letters({"d"}, {1, 255})
Words0 == {<<>>, <<0>>, <<3>>, <<1, 0>>, <<2, 3, 1>>, <<1, 1, 1, 2>>}
Stringlike == Letters({"z"}, Words0) \cup {<<letter, n, arg>> : letter \in {"s", "c"}, n \in {-1, 0, 1, 3, 5}, arg \in Words0}
Settings == {<<letter, -1, 0>> : letter \in {"<", ">", "=", "!", " ", "x", "X"}} \cup {<<"!", n, 0>> : n \in {0, 2, 3}}
Few == {<<"i", 3, -2>>, <<"I", 2, 7>>, Option("J", 9), <<"i", 6, 1>>, Option("f", 7), <<"s", 2, <<1, 3>> >>, <<"c", 2, <<1>> >>, Option("z", <<2>>)}
Packed == Texts("format", <<>>, Integral \cup Floats \cup Stringlike \cup Settings, 1)
Ordered == Texts("format", <<>>, Few \cup Settings, 2)
Aligned == Texts("format", << <<"!", -1, 0>> >>, Few \cup Settings, 3)

MCRegistryIndex == -100
Stacks == Texts("stack", <<>>, Chars({"a", "b", "c", "d"}), 4)
Added1(how, strings) == {<<how, str>> : str \in strings}
Buffers == Texts("buffer", <<>>, Added1("string", {<<>>, <<"a">>, <<"a", "b", "c">>}) \cup Added1("char", {<<"d">>})
                                   \cup Added1("value", {<<"e">>, <<"f", "g">>}), 5)
CallPieces == {<<"gc", 0>>, <<"catch", 0>>, <<"check", 1>>, <<"check", 7>>, <<"C", 0>>, <<"Lua", 3>>, <<"vararg", 5>>, <<"return", 2>>}
StackCalls == Texts("calls", <<>>, CallPieces, 6)

MCThemes ==
    [logic |-> Logic, arithmetic |-> Arithmetics, assignment |-> Multiple, calls |-> Calls,
     closures |-> Closures, gotos |-> Gotos, patterns |-> Patterns, symbols |-> Signed, words |-> Words,
     quoted |-> Quoted, brackets |-> Brackets, strings |-> Strings, numerals |-> Numerals, files |-> Files,
     chunks |-> [Chunks EXCEPT !.kind = "chunk"], lists |-> SomeLists, longlists |-> LongLists,
     shortlists |-> ShortLists, bytes |-> Bytes, packed |-> Packed, ordered |-> Ordered, aligned |-> Aligned,
     stacks |-> Stacks, buffers |-> Buffers, stackcalls |-> StackCalls]
=============================================================================
