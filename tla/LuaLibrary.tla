------------------------------ MODULE LuaLibrary ------------------------------
(***************************************************************************)
(* What is written is given to the parts of src/3rd/lua-5.3.5 that are     *)
(* pure functions: the reader of files (LuaLoad), the lexical analyser     *)
(* (LuaLex), string.dump and load (LuaDump), pattern matching              *)
(* (LuaPattern), string.pack and unpack (LuaPack), the table library       *)
(* (LuaTabLib), the utf8 library (LuaUtf8) and the stack (LuaStack).  The  *)
(* properties compare what they give with what it should be, said without  *)
(* their loops.                                                            *)
(*                                                                         *)
(* The pieces that are written are sequences: of characters, of bytes, or  *)
(* a part of a function, an option of a format, a call of the API.         *)
(***************************************************************************)
EXTENDS LuaWriter, FiniteSets, FiniteSetsExt, Functions, TLC

CONSTANTS
    Characters, Reserved, MaxInteger,          \* of LuaLex
    Order, Classes, MaxCCalls, MaxCaptures,    \* of LuaPattern
    BOM, Signature,                            \* of LuaLoad
    MaxByte,                                   \* of LuaDump
    NB, SizeOf, MaxIntSize, MaxAlign, MaxSize, \* of LuaPack
    MaxIndex, IntMax, MaxStack, RanLimit, Imbalance, \* of LuaTabLib, the largest integer first
    RegistryIndex, BufferSize,                 \* of LuaStack
    StackLimit, ErrorStackSize, ExtraStack, MinStack,
    Subjects,  \* the strings that are searched
    CharCodes  \* the codes that utf8.char is given

Lex == INSTANCE LuaLex
Pattern == INSTANCE LuaPattern
File == INSTANCE LuaLoad
Chunk == INSTANCE LuaDump
Packer == INSTANCE LuaPack
TabLib == INSTANCE LuaTabLib WITH MaxInteger <- MaxIndex
Api == INSTANCE LuaStack
Utf8 == INSTANCE LuaUtf8 WITH Encode <- Lex!Utf8

Does(kind) == DoFile /\ ThemeKind = kind
Text == FlattenSeq(Written)

-----------------------------------------------------------------------------
(* Patterns. *)

\* string.find gives the first place where the pattern matches, and of the ways to match
\* there the one that the suffixes ask for; string.gmatch and string.gsub find the same
\* matches, which do not overlap.
PatternsMatch ==
    [][Does("pattern") /\ Pattern!WellFormed(Text) =>
         \A src \in Subjects : Pattern!FindIsRight(src, Text) /\ Pattern!GsubIsRight(src, Text)]_vars

-----------------------------------------------------------------------------
(* Texts. *)

\* A newline is "\n", "\r" or both in any order.
NewlinesUpTo(str, n) ==
    LET first[i \in 0 .. n] == /\ i > 0
                               /\ str[i] \in Lex!Newlines
                               /\ ~(i > 1 /\ first[i - 1] /\ str[i - 1] # str[i])
    IN  Cardinality({i \in 1 .. n : first[i]})

Symbols == ToSet(Lex!LongSymbols)
Word == Lex!Letters \cup Lex!Digits
\* A short string with nothing to be escaped but its delimiters and backslashes.
Escaped(str, i) == \E k \in 1 .. i - 1 : /\ (i - k) % 2 = 1
                                         /\ \A j \in k .. i - 1 : str[j] = "\\"
                                         /\ k = 1 \/ str[k - 1] # "\\"
IsShort(str) ==
    /\ Len(str) > 1
    /\ str[1] \in Lex!Quotes
    /\ \A i \in 2 .. Len(str) : str[i] = str[1] => (i = Len(str) <=> ~Escaped(str, i))
    /\ str[Len(str)] = str[1]
\* A long string or, after "--", a long comment.
Bracket(ch, n) == <<ch>> \o [i \in 1 .. n |-> "="] \o <<ch>>
Occurs(str, word) == \E i \in 0 .. Len(str) - Len(word) : SubSeq(str, i + 1, i + Len(word)) = word
IsLong(str) ==
    \E n \in 0 .. Len(str) \div 2 - 2 :
       /\ IsPrefix(Bracket("[", n), str)
       /\ IsSuffix(Bracket("]", n), str)
       /\ Len(str) >= 2 * n + 4
       /\ ~Occurs(SubSeq(str, n + 3, Len(str) - 1), Bracket("]", n))
OpensLong(str) == \E n \in 0 .. Len(str) - 2 : IsPrefix(Bracket("[", n), str)
LongValue(str) ==
    LET n == SelectInSubSeq(str, 2, Len(str), LAMBDA ch : ch = "[") - 2
        body == SubSeq(str, n + 3, Len(str) - n - 2)
        lines == NewlinesUpTo(body, Len(body))
    IN  [plain |-> SelectSeq(body, LAMBDA ch : ch \notin Lex!Newlines),
         lines |-> IF body # <<>> /\ body[1] \in Lex!Newlines THEN lines - 1 ELSE lines]

IsComment(str) ==
    /\ IsPrefix(<<"-", "-">>, str)
    /\ \/ IsLong(File!From(str, 3))
       \/ ~OpensLong(File!From(str, 3)) /\ ToSet(str) \cap Lex!Newlines = {}
RECURSIVE IsBlank(_)
IsBlank(str) ==
    \/ str = <<>>
    \/ str[1] \in Lex!Spaces /\ IsBlank(Tail(str))
    \/ \E n \in 2 .. Len(str) : IsComment(SubSeq(str, 1, n)) /\ IsBlank(SubSeq(str, n + 1, Len(str)))

\* str is the token; no longer one starts at the same place.
IsToken(str, next, token) ==
    CASE token.kind = "symbol" -> /\ str = token.val
                                  /\ Len(str) = 1 \/ str \in Symbols
                                  /\ \A sym \in Symbols : Len(sym) > Len(str) => ~IsPrefix(sym, str \o next)
      [] token.kind \in {"name", "reserved"} ->
           /\ str = token.val
           /\ ToSet(str) \subseteq Word
           /\ next # <<>> => next[1] \notin Word
           /\ (token.kind = "reserved") = (str \in Reserved)
      [] token.kind = "string" ->
           \/ IsShort(str)
           \/ /\ IsLong(str)
              /\ SelectSeq(token.val, LAMBDA ch : ch # "\n") = LongValue(str).plain
              /\ Len(token.val) = Len(LongValue(str).plain) + LongValue(str).lines
      [] OTHER -> TRUE

\* The text is cut into comments, blanks and tokens, each as long as it can be, and the
\* line numbers, which errors and debug information show, count the newlines before the
\* end of the token, those inside strings and comments too.
TokensAreTheText ==
    [][Does("text") =>
         LET read == Lex!Tokens(Text)
             end(k) == IF k = 0 THEN 1 ELSE read.tokens[k].end
         IN  /\ \A k \in DOMAIN read.tokens :
                  /\ read.tokens[k].line = 1 + NewlinesUpTo(Text, end(k) - 1)
                  /\ \E from \in end(k - 1) .. end(k) - 1 :
                       /\ IsBlank(SubSeq(Text, end(k - 1), from - 1))
                       /\ IsToken(SubSeq(Text, from, end(k) - 1), File!From(Text, end(k)), read.tokens[k])
             /\ read.error = "" => IsBlank(File!From(Text, end(Len(read.tokens))))]_vars

\* What string.format("%q") writes is read back as one string, the same.
QuotedReadsBack ==
    [][Does("string") =>
         LET read == Lex!Tokens(Lex!AddQuoted(Text))
         IN  /\ read.error = ""
             /\ [k \in DOMAIN read.tokens |-> read.tokens[k].val] = <<Text>>]_vars

NumberOf(digits, base) == FoldLeft(LAMBDA n, ch : base * n + Lex!HexValue[ch], 0, digits)
Trimmed(str) == LET kept == {i \in DOMAIN str : str[i] \notin Lex!Spaces}
                IN  IF kept = {} THEN <<>> ELSE SubSeq(str, Min(kept), Max(kept))
Wrapped(n) == ((n + MaxInteger + 1) % (2 * MaxInteger + 2)) - MaxInteger - 1
Sign(str) == IF str # <<>> /\ str[1] = "-" THEN -1 ELSE 1
Unsigned(str) == IF str # <<>> /\ str[1] \in Lex!Signs THEN Tail(str) ELSE str

\* A numeral is an integer exactly when it is one that fits, or a hexadecimal one, which
\* wraps around; a decimal one that does not fit is a float (l_str2int, luaO_str2num).
NumeralsKeepTheirValue ==
    [][Does("numeral") =>
         LET num == Trimmed(Text)
             digits == Unsigned(num)
             decimal == digits # <<>> /\ ToSet(digits) \subseteq Lex!Digits
             hex == /\ Len(digits) > 2
                    /\ IsPrefix(<<"0", "x">>, digits)
                    /\ ToSet(File!From(digits, 3)) \subseteq Lex!XDigits
             n == Sign(num) * NumberOf(digits, 10)
             read == Lex!StrToNum(Text)
         IN  /\ decimal => read = IF n \in -MaxInteger - 1 .. MaxInteger THEN Lex!Integer(n) ELSE Lex!Float
             /\ hex => read = Lex!Integer(Wrapped(Sign(num) * NumberOf(File!From(digits, 3), 16)))
             /\ read.type = "int" => decimal \/ hex]_vars

\* What is written is read as what it says: its tokens, and the values of its numerals.
TextsAreRead == TokensAreTheText /\ NumeralsKeepTheirValue

-----------------------------------------------------------------------------
(* Chunks. *)

\* The text that should be compiled: the byte order mark goes, and of a first line with
\* "#" only its end is left.  A part of a mark stays; it is no text of Lua.
Mark(file) == Max({n \in 0 .. Len(BOM) : n <= Len(file) /\ SubSeq(file, 1, n) = SubSeq(BOM, 1, n)})
Kept(file) == IF Mark(file) = Len(BOM) THEN <<>> ELSE SubSeq(file, 1, Mark(file))
AfterMark(file) == File!From(file, Mark(file) + 1)
HasComment(file) == IsPrefix(<<"#">>, AfterMark(file))
AfterComment(file) ==
    LET ends == {i \in DOMAIN AfterMark(file) : AfterMark(file)[i] = "\n"}
    IN  IF ends = {} THEN <<>> ELSE File!From(AfterMark(file), Min(ends) + 1)
Content(file) == IF HasComment(file) THEN AfterComment(file) ELSE AfterMark(file)
Blanked(file) == (IF HasComment(file) THEN <<"\n">> ELSE <<>>) \o Content(file)
IsBinary(file) == Kept(file) = <<>> /\ IsPrefix(<<Signature>>, Content(file))

\* A file is loaded as precompiled exactly when it is, after a byte order mark and a
\* comment line or without them, and then the loader starts at its signature; the
\* compiler gets the tokens of a text at the lines where the file has them.
FilesAreLoaded ==
    [][Does("file") =>
         LET load == File!LoadFile(Text, {})
         IN  IF IsBinary(Text) THEN load = [kind |-> "binary", stream |-> Content(Text)]
             ELSE /\ load.kind = "text"
                  /\ Kept(Text) = <<>> => Lex!Tokens(load.stream) = Lex!Tokens(Blanked(Text))]_vars

\* The function that the parts written make up.
Parts(parts, name) == LET mine == SelectSeq(parts, LAMBDA part : part[1] = name)
                      IN  [i \in DOMAIN mine |-> mine[i][2]]
RECURSIVE Made(_)
Made(parts) ==
    LET protos == Parts(parts, "function")
        code == Parts(parts, "code")
    IN  [source |-> <<"@", "f">>, linedefined |-> 1, lastlinedefined |-> 2, numparams |-> Len(parts),
         is_vararg |-> Len(protos), maxstacksize |-> 9, code |-> code, k |-> Parts(parts, "k"),
         upvalues |-> Parts(parts, "upvalue"), p |-> [i \in DOMAIN protos |-> Made(protos[i])],
         lineinfo |-> [i \in DOMAIN code |-> i], locvars |-> Parts(parts, "locvar")]
RECURSIVE Stripped(_)
Stripped(f) ==
    [f EXCEPT !.source = Chunk!Null, !.lineinfo = <<>>, !.locvars = <<>>,
              !.p = [i \in DOMAIN f.p |-> Stripped(f.p[i])],
              !.upvalues = [i \in DOMAIN f.upvalues |-> [f.upvalues[i] EXCEPT !.name = Chunk!Null]]]

\* load gives the function that string.dump was given, without the debug information
\* that was stripped; it takes the whole chunk, and refuses every part of it and every
\* chunk of another machine or version.
DumpedLoadsBack ==
    [][Does("chunk") =>
         \A strip \in BOOLEAN :
            LET f == Made(Written)
                dump == Chunk!Dump(f, strip)
                load == Chunk!Undump(dump)
            IN  /\ load.error = ""
                /\ load.rest = <<>>
                /\ load.f = IF strip THEN Stripped(f) ELSE f
                /\ load.nupvalues = Len(f.upvalues)
                /\ \A n \in 1 .. Len(dump) - 1 : Chunk!Undump(SubSeq(dump, 1, n)).error = "truncated"
                /\ \A i \in 2 .. Len(Chunk!Header) :
                     Chunk!Undump([dump EXCEPT ![i] = <<dump[i][1], "other">>]).error = Chunk!Mismatch[i]]_vars

-----------------------------------------------------------------------------
(* Packed data.  A piece is an option with its number and its argument. *)

Format == [k \in DOMAIN Written |-> <<Written[k][1], Written[k][2]>>]
\* The options that are not taken by an "X" before them, and their arguments.
ForX(k) == k > 1 /\ Written[k - 1][1] = "X"
Packs(letters) == {k \in DOMAIN Written : ~ForX(k) /\ Written[k][1] \in letters}
Sized == DOMAIN Packer!Fixed \ {"z", "x", "X"}
SignedInts == {"b", "h", "l", "j", "i"}
Options == SetToSortSeq(Packs(Sized \cup {"i", "I", "s", "c", "z"}), <)
Arg(k) == Written[k][3]
Given == [k \in DOMAIN Options |-> Arg(Options[k])]
BytesOf(k) ==
    LET letter == Written[k][1]
    IN  CASE letter \in DOMAIN Packer!Fixed -> Packer!Fixed[letter][2]
          [] letter = "c" \/ Written[k][2] # Packer!NoNum -> Written[k][2]
          [] OTHER -> SizeOf[IF letter = "s" THEN "size_t" ELSE "int"]
\* A string of fixed length is filled with zeros.
Filled(k) == IF Written[k][1] = "c" THEN Arg(k) \o [i \in 1 .. BytesOf(k) - Len(Arg(k)) |-> 0] ELSE Arg(k)
Expected == [k \in DOMAIN Options |-> Filled(Options[k])]
\* What can be packed in that many bytes.
Least(k, signed) == IF signed THEN -(2 ^ (NB * BytesOf(k) - 1)) ELSE 0
Fits(k) ==
    LET letter == Written[k][1]
    IN  CASE letter = "c" -> BytesOf(k) # Packer!NoNum /\ Len(Arg(k)) <= BytesOf(k)
          [] letter = "z" -> 0 \notin ToSet(Arg(k))
          [] BytesOf(k) \notin 1 .. MaxIntSize -> FALSE
          [] letter = "s" -> BytesOf(k) >= SizeOf.size_t \/ Len(Arg(k)) < 2 ^ (NB * BytesOf(k))
          [] OTHER -> \/ BytesOf(k) >= SizeOf.integer
                      \/ Arg(k) - Least(k, letter \in SignedInts) \in 0 .. 2 ^ (NB * BytesOf(k)) - 1

\* The data that is left when its end is lost says so, but for the end of a last string
\* with no length, which is then shorter.
Loses(data, n) ==
    LET cut == Packer!StrUnpack(Format, SubSeq(data, 1, n), 1)
        zstr == Last(Written)[1] = "z"
        lost == Len(data) - n - 1
    IN  IF zstr /\ lost <= Len(Last(Expected))
        THEN cut.error = "" /\ cut.vals = Append(Front(Expected), SubSeq(Last(Expected), 1, Len(Last(Expected)) - lost))
        ELSE cut.error # ""

\* The bytes of an option are at a multiple of their number, but of no more than the last
\* "!" says, and no more zeros than needed are before them; so is what follows an "X".
AlignmentAt(k) ==
    LET settings == {j \in Packs({"!"}) : j < k}
        num == Written[Max(settings)][2]
    IN  IF settings = {} THEN 1 ELSE IF num = Packer!NoNum THEN MaxAlign ELSE num
Aligning == Sized \cup {"i", "I", "s", "x"}
AlignTo(k) ==
    LET taken == IF Written[k][1] = "X" THEN k + 1 ELSE k
    IN  IF Written[taken][1] \in Aligning THEN Min({BytesOf(taken), AlignmentAt(k)}) ELSE 1
\* "X" before nothing it can align for, and alignments that are no powers of 2.
Misaligns(k) ==
    LET letter == Written[k][1]
    IN  CASE letter = "!" -> Written[k][2] \notin 1 .. MaxIntSize \cup {Packer!NoNum}
          [] letter = "X" /\ k = Len(Written) -> TRUE
          [] letter = "X" /\ Written[k + 1][1] \notin Aligning -> TRUE
          [] letter = "X" /\ BytesOf(k + 1) \notin 1 .. MaxIntSize -> TRUE
          [] OTHER -> AlignTo(k) \notin {2 ^ i : i \in 0 .. MaxIntSize}
LengthUpTo(k) == Len(Packer!StrPack(SubSeq(Format, 1, k), Given).data)
IsAligned(k) ==
    LET isX == Written[k][1] = "X"
        end == IF isX THEN k + 1 ELSE k
        own == CASE isX                  -> 0
                 [] Written[k][1] = "s" -> BytesOf(k) + Len(Arg(k))
                 [] OTHER               -> BytesOf(k)
        place == LengthUpTo(end) - own
    IN  place % AlignTo(k) = 0 /\ place - LengthUpTo(k - 1) \in 0 .. AlignTo(k) - 1

\* string.unpack gives the values that string.pack was given, wherever it is told to start,
\* and string.packsize the length of the data where the format says it; all is aligned;
\* what does not fit or cannot be aligned is refused, and nothing else.
PackedReadsBack ==
    [][Does("format") =>
         LET packed == Packer!StrPack(Format, Given)
             read == Packer!StrUnpack(Format, packed.data, 1)
             count == Packer!StrPackSize(Format)
             free == {k \in DOMAIN Written : ~ForX(k)}
         IN  IF packed.error # ""
             THEN \/ \E k \in ToSet(Options) : ~Fits(k)
                  \/ \E k \in free : Misaligns(k)
             ELSE /\ \A k \in ToSet(Options) : Fits(k)
                  /\ \A k \in free : ~Misaligns(k)
                  /\ \A k \in Packs(Aligning \cup {"c", "X"}) : IsAligned(k)
                  /\ read = [error |-> "", vals |-> Expected, next |-> Len(packed.data) + 1]
                  /\ packed.data # <<>> => Packer!StrUnpack(Format, packed.data, -Len(packed.data)) = read
                  /\ IF Packs({"s", "z"}) # {} \/ Len(packed.data) > MaxSize THEN count.error # ""
                     ELSE count = [error |-> "", size |-> Len(packed.data)]
                  /\ \A n \in 0 .. Len(packed.data) - 1 : Loses(packed.data, n)
                  /\ Len(Written) = 1 /\ Written[1][1] \in Sized \cup {"i", "I"} =>
                       Packer!StrPack(<< <<">", Packer!NoNum>> >> \o Format, Given).data = Reverse(packed.data)]_vars

\* What Lua writes for itself, quoted strings, precompiled chunks and packed data, it
\* reads back.
ReadsBack == QuotedReadsBack /\ DumpedLoadsBack /\ PackedReadsBack

-----------------------------------------------------------------------------
(* The table library. *)

Members == ToSet(Text)
IsOrder(rel) ==
    /\ \A x \in Members : <<x, x>> \notin rel
    /\ \A x, y, z \in Members : <<x, y>> \in rel => <<x, z>> \in rel \/ <<z, y>> \in rel
    /\ \A x, y, z \in Members : <<x, y>> \in rel /\ <<y, z>> \in rel => <<x, z>> \in rel
Times(t, v) == Cardinality({i \in DOMAIN Text : TabLib!Get(t, i) = v})

\* Whatever the order function says, sort ends, touches no element outside the list and
\* keeps what is in it, even when it gives up; for an order it sorts (partition and
\* auxsort rely on the order for their bounds and check it where it may not hold).
SortKeepsTheList ==
    [][Does("list") =>
         \A rel \in SUBSET (Members \X Members), clock \in {0, 3} :
            LET r == TabLib!Sort(Text, rel, clock)
            IN  /\ DOMAIN r.t = DOMAIN Text
                /\ \A v \in Members : Times(r.t, v) = Times(TabLib!TableOf(Text), v)
                /\ IsOrder(rel) => /\ r.error = ""
                                   /\ \A i, j \in DOMAIN Text : i < j => <<r.t[j], r.t[i]>> \notin rel]_vars

\* insert and remove undo each other, move copies even where origin and destination
\* overlap, and pack, unpack and concat give every index of their range once, at the
\* ends of the integers too.
Moves(t, f, e, d) ==
    LET r == TabLib!TMove(t, f, e, d)
        n == e - f + 1
    IN  CASE e < f                                         -> r.t = t
          [] n > MaxIndex \/ d + n - 1 > MaxIndex      -> r.error # ""
          [] OTHER -> /\ r.error = ""
                      /\ \A i \in TabLib!Integers64 :
                           TabLib!Get(r.t, i) = TabLib!Get(t, IF i - d \in 0 .. n - 1 THEN f + i - d ELSE i)
Unpacks(t, i, e) ==
    LET r == TabLib!Unpack(t, i, e)
    IN  CASE i > e                 -> r.vals = <<>>
          [] e - i >= MaxStack     -> r.error # ""
          [] OTHER -> r.error = "" /\ r.vals = [k \in 1 .. e - i + 1 |-> TabLib!Get(t, i + k - 1)]
Concats(t, i, e) ==
    LET r == TabLib!TConcat(t, ",", i, e)
    IN  IF i <= e /\ ~(i .. e \subseteq DOMAIN Text) THEN r.error # ""
        ELSE /\ SelectSeq(r.text, LAMBDA s : s # ",") = IF i > e THEN <<>> ELSE SubSeq(Text, i, e)
             /\ Len(r.text) = Max({0, 2 * (e - i) + 1})
Inserts(t, n, pos) ==
    LET r == TabLib!TInsert(t, n, pos, "x")
        back == TabLib!TRemove(r.t, n + 1, pos)
    IN  IF pos \notin 1 .. n + 1 THEN r.error # ""
        ELSE /\ TabLib!Unpack(r.t, 1, n + 1).vals = InsertAt(Text, pos, "x")
             /\ back.v = "x"
             /\ \A i \in TabLib!Integers64 : TabLib!Get(back.t, i) = TabLib!Get(t, i)
ListsAreMoved ==
    [][Does("short list") =>
         LET t == TabLib!TableOf(Text)
         IN  /\ \A f, e, d \in TabLib!Integers64 : Moves(t, f, e, d)
             /\ \A i, e \in TabLib!Integers64 : Unpacks(t, i, e) /\ Concats(t, i, e)
             /\ \A pos \in TabLib!Integers64 : Inserts(t, Len(Text), pos)
             /\ TabLib!Unpack(TabLib!Pack(Text).t, 1, TabLib!Pack(Text).n).vals = Text]_vars

-----------------------------------------------------------------------------
(* The stack. *)

\* The operations of the API do what their names say with the list of the values on the
\* stack, and an index from the top means what the index from the bottom does.
Rotated(list, from, n) ==
    LET len == Len(list) - from + 1
    IN  [i \in DOMAIN list |-> IF i < from THEN list[i] ELSE list[from + ((i - from - n) % len)]]
ActsOn(s, i, idx) ==
    LET list == s.stack
        Is(t, new) == t = [s EXCEPT !.stack = new]
        top == Last(list)
    IN  /\ Api!AbsIndex(s, idx) = i
        /\ Is(Api!PushValue(s, idx), Append(list, list[i]))
        /\ \A n \in i - Len(list) - 1 .. Len(list) - i + 1 : Is(Api!Rotate(s, idx, n), Rotated(list, i, n))
        /\ Is(Api!Insert(s, idx), InsertAt(Front(list), i, top))
        /\ Is(Api!Removed(s, idx), RemoveAt(list, i))
        /\ i < Len(list) => Is(Api!Replace(s, idx), Front(ReplaceAt(list, i, top)))
        /\ \A n \in 0 .. Len(list) : Api!Pop(s, n) = Api!SetTop(s, Len(list) - n)
        /\ Api!Replace(Api!PushValue(s, idx), RegistryIndex) = [s EXCEPT !.registry = list[i]]

\* Whatever is below, a coroutine gets the function and its arguments in order, and only
\* the coroutine is left in their place (Service::StartCallbackCoroutine, LuaApi::Fork).
StackIsAList ==
    [][Does("stack") =>
         LET s == Api!Stack([k \in DOMAIN Text |-> <<Text[k]>>])
             list == s.stack
             co == <<"co">>
         IN  /\ \A i \in DOMAIN list : ActsOn(s, i, i) /\ ActsOn(s, i, i - Len(list) - 1)
             /\ \A nargs \in 0 .. Len(list) - 1 :
                  LET moved == Api!StartCallbackCoroutine(s, co, nargs)
                      below == Len(list) - nargs - 1
                  IN  /\ moved.from.stack = Append(SubSeq(list, 1, below), co)
                      /\ moved.to.stack = SubSeq(list, below + 1, Len(list))
                      /\ below = 0 => Api!Fork(s, co) = moved]_vars

\* A buffer gives all that was added, in order, and leaves nothing else on the stack; its
\* box is on top of the stack whenever it is resized, and freed at the end.
Added(b, piece) ==
    CASE piece[1] = "string" -> Api!AddLString(b, piece[2])
      [] piece[1] = "char"   -> Api!AddChar(b, piece[2][1])
      [] piece[1] = "value"  -> Api!AddValue([b EXCEPT !.s = Api!Push(@, piece[2])])
BuffersKeepAll ==
    [][Does("buffer") =>
         LET below == Api!Stack(<< <<"below">> >>)
             all == FlattenSeq([k \in DOMAIN Written |-> Written[k][2]])
             used == FoldLeft(Added, Api!BuffInit(below), Written)
         IN  /\ used.s.stack = IF used.box THEN Append(below.stack, Api!Box) ELSE below.stack
             /\ Len(all) <= used.size
             /\ \A b \in {Api!PushResult(used), Api!PushResultSize(Api!BuffInitSize(below, Len(all)), all)} :
                  /\ ~b.fault
                  /\ b.bsize = 0
                  /\ b.s.stack = Append(below.stack, all)]_vars

\* Calls of functions, and what the program asks for.  A C function pushes the function it
\* calls where its frame has a slot.  An overflow leaves its message on the stack; then the
\* message handler is called, until the error is caught, and the frames below it, to floor,
\* do not return.
CanCall(t) == t.error = "stack overflow" \/ Last(t.calls).lua \/ t.top < Last(t.calls).top
Called(t) == [t EXCEPT !.top = IF t.error # "stack overflow" /\ @ = Last(t.calls).top THEN @ ELSE @ + 1]
AfterCall(t, piece) ==
    LET depth == Len(t.calls)
        checked == Api!CheckStack(t, piece[2])
    IN  CASE piece[1] = "gc" -> Api!ShrinkStack(t)
          [] piece[1] = "catch" /\ depth > 1       -> [Api!Recover(t, 1) EXCEPT !.floor = 1]
          [] t.error = "error in error handling" -> t
          [] piece[1] = "C" /\ CanCall(t)        -> Api!PrecallC(Called(t), 0)
          [] piece[1] = "Lua" /\ CanCall(t)      -> Api!PrecallLua(Called(t), 0, FALSE, piece[2])
          [] piece[1] = "vararg" /\ CanCall(t)   -> Api!PrecallLua(Called(t), 0, TRUE, piece[2])
          [] t.error = "stack overflow"          -> t
          [] piece[1] = "check" /\ ~Last(t.calls).lua ->
               IF checked.error = "" THEN [checked EXCEPT !.top = @ + piece[2]] ELSE checked
          [] piece[1] = "return" /\ depth > t.floor ->
               Api!Poscall(t, Min({piece[2], t.top - Last(t.calls).func - 1}))
          [] OTHER -> t
Overflows(t, u) == u.error = "stack overflow" /\ t.size <= StackLimit /\ u.size > StackLimit
CallsMade(pieces) ==
    LET start == [x \in DOMAIN Api!StackInit \cup {"floor"} |-> IF x = "floor" THEN 1 ELSE Api!StackInit[x]]
        Make(t, piece) == LET u == AfterCall(t, piece)
                          IN  IF Overflows(t, u) THEN [u EXCEPT !.floor = Len(u.calls), !.top = @ + 1] ELSE u
    IN  FoldLeft(Make, start, pieces)

\* The stack ends behind every frame and the values of the last one, with the slots for
\* errors to spare; it is larger than the limit only after an overflow, and then until the
\* error is caught, if no frame reaches the limit.  lua_checkstack says no, and a call
\* overflows, only when the limit says so; and while an overflow is handled the next one is
\* an error in error handling.
Needs(piece) == IF piece[1] = "C" THEN MinStack ELSE piece[2]
StackHasRoom ==
    [][Does("calls") /\ Written # <<>> =>
         LET t == CallsMade(Front(Written))
             u == CallsMade(Written)
             asked == Needs(Last(Written))
             top == IF Last(Written)[1] = "check" THEN t.top ELSE Called(t).top
         IN  /\ u.top <= Api!StackLast(u)
             /\ \A k \in DOMAIN u.calls : u.calls[k].func < u.top /\ u.calls[k].top <= Api!StackLast(u)
             /\ u.size <= StackLimit \/ u.size = ErrorStackSize
             /\ t.size <= StackLimit /\ u.size > StackLimit => u.error = "stack overflow"
             /\ u # t /\ u.error \in {"no", "stack overflow"} /\ Last(Written)[1] # "gc" => top + asked + ExtraStack > StackLimit
             /\ u.error \in {"", "no"} => u.top <= Last(u.calls).top
             /\ Last(Written)[1] \in {"C", "Lua", "vararg"} /\ u # t /\ Len(u.calls) = Len(t.calls) =>
                  u.error = IF t.size > StackLimit THEN "error in error handling" ELSE "stack overflow"
             /\ Last(Written)[1] = "catch" /\ Len(t.calls) > 1 =>
                  u.size <= StackLimit \/ u.calls[1].top >= StackLimit - ExtraStack]_vars

\* The table library and the stack lose no element and leave none where it should not be.
ListsAreKept == SortKeepsTheList /\ ListsAreMoved /\ StackIsAList /\ BuffersKeepAll /\ StackHasRoom

-----------------------------------------------------------------------------
(* The utf8 library. *)

Valid(s) ==
    LET all == Utf8!CodesFrom(s, 1, Len(s), <<>>)
        n == Len(all.codes)
        starts == SetToSortSeq({i \in DOMAIN s : ~Utf8!IsCont(s, i)}, <)
        iter == Utf8!Codes(s)
    IN  IF all.bad # 0 THEN iter.error # "" /\ Utf8!UtfLen(s, 1, Len(s)).bad = all.bad
        ELSE /\ Utf8!UtfChar(all.codes).s = s
             /\ Utf8!UtfLen(s, 1, Len(s)).len = Len(starts)
             /\ iter.error = "" /\ iter.found = [k \in 1 .. n |-> <<starts[k], all.codes[k]>>]
             /\ \A k \in 1 .. n : /\ Utf8!ByteOffset(s, k, 1).i = starts[k]
                                  /\ Utf8!ByteOffset(s, -k, Len(s) + 1).i = starts[n + 1 - k]
                                  /\ Utf8!CodePoint(s, starts[k], starts[k]).codes = <<all.codes[k]>>
             /\ Utf8!ByteOffset(s, n + 1, 1).i = Len(s) + 1
             /\ Utf8!ByteOffset(s, n + 2, 1).i = 0 /\ Utf8!ByteOffset(s, -n - 1, Len(s) + 1).i = 0

\* Decoding is the inverse of encoding: a code is decoded from the bytes utf8.char gives,
\* and bytes are valid only if they are what utf8.char gives for their code.  The
\* functions agree on where the characters of a valid string start, and find the others
\* invalid.
Utf8IsTheInverse ==
    [][Does("bytes") =>
         /\ \A i \in DOMAIN Text : LET d == Utf8!Decode(Text, i)
                                  IN  d.ok => Lex!Utf8(d.val) = SubSeq(Text, i, d.next - 1)
         /\ \A code \in CharCodes : LET bytes == Lex!Utf8(code)
                               IN  Utf8!Decode(bytes \o Text, 1) = [ok |-> TRUE, val |-> code, next |-> Len(bytes) + 1]
         /\ Valid(Text)]_vars
=============================================================================
