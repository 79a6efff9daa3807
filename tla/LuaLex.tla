------------------------------- MODULE LuaLex -------------------------------
(***************************************************************************)
(* The lexical analyser of Lua (src/3rd/lua-5.3.5/src/llex.c), with the    *)
(* conversion of numerals of lobject.c, which tonumber and the arithmetic  *)
(* on strings use too, and how string.format("%q") writes what the         *)
(* analyser is to read (addquoted of lstrlib.c).            *)
(*                                                                         *)
(* A text is a sequence of characters, and a character is a string, of     *)
(* length one or "\" and its code.  A lexer state has the text, the place  *)
(* in it, the line number, what was saved and, once it has failed, why.    *)
(* Capital letters are left out, strtod is external, and one float stands  *)
(* for all of them.                                                        *)
(*                                                                         *)
(* A definition whose name ends in Slip is the one after it with a         *)
(* plausible programming slip; no specification uses it.                    *)
(***************************************************************************)
EXTENDS Integers, Sequences, FiniteSetsExt, SequencesExt, TLC

CONSTANTS
    Characters, \* the characters that have a name, by their codes
    Reserved,   \* the reserved words
    MaxInteger  \* LUA_MAXINTEGER, one less than a power of 2

EOZ == "EOZ"
Newlines == {"\n", "\r"}
Spaces == Newlines \cup {" ", "\t", "\f"}
Digit == <<"0", "1", "2", "3", "4", "5", "6", "7", "8", "9">>
HexLetter == <<"a", "b", "c", "d", "e", "f">>
Digits == ToSet(Digit)
XDigits == Digits \cup ToSet(HexLetter)
Letters == {"a", "b", "c", "d", "e", "f", "g", "h", "i", "j", "k", "l", "m", "n", "o", "p", "q", "r", "s",
            "t", "u", "v", "w", "x", "y", "z", "_"}
Signs == {"+", "-"}
Quotes == {"\"", "'"}

Char(n) == IF n \in DOMAIN Characters THEN Characters[n] ELSE "\\" \o ToString(n)
Code(ch) == CHOOSE n \in 0 .. 255 : Char(n) = ch

\* luaO_hexavalue
HexValue == [ch \in XDigits |-> SelectInSeq(Digit \o HexLetter, LAMBDA d : d = ch) - 1]

-----------------------------------------------------------------------------
(* Numerals. *)

At(str, i) == IF i \in DOMAIN str THEN str[i] ELSE EOZ
Begins(str, i, word) == \A j \in DOMAIN word : At(str, i + j - 1) = word[j]

\* The first place from i on with a character that is not in the set.
RECURSIVE After(_, _, _)
After(str, i, chars) == IF At(str, i) \in chars THEN After(str, i + 1, chars) ELSE i
AfterSign(str, i) == IF At(str, i) \in Signs THEN i + 1 ELSE i
IsHex(str, i) == At(str, i) = "0" /\ At(str, i + 1) = "x"

Unsigned == 2 * (MaxInteger + 1)
ToSigned(a) == IF a > MaxInteger THEN a - Unsigned ELSE a
Overflow == -1
HexStep(a, ch) == (a * 16 + HexValue[ch]) % Unsigned

\* The decimal digits of l_str2int.
MaxBy10 == MaxInteger \div 10
MaxLastD == MaxInteger % 10
Fits(a, d, neg) == a < MaxBy10 \/ (a = MaxBy10 /\ d <= MaxLastD + neg)
Decimal(digits, neg) ==
    FoldLeft(LAMBDA a, ch : IF a # Overflow /\ Fits(a, HexValue[ch], neg) THEN a * 10 + HexValue[ch]
                            ELSE Overflow, 0, digits)

\* l_str2int
NotNumber == [type |-> "none"]
Integer(n) == [type |-> "int", n |-> n]
Float == [type |-> "float"]
StrToInt(str) ==
    LET start == After(str, 1, Spaces)
        neg == IF At(str, start) = "-" THEN 1 ELSE 0
        num == AfterSign(str, start)
        hex == IsHex(str, num)
        first == IF hex THEN num + 2 ELSE num
        last == After(str, first, IF hex THEN XDigits ELSE Digits) - 1
        digits == SubSeq(str, first, last)
        a == IF hex THEN FoldLeft(HexStep, 0, digits) ELSE Decimal(digits, neg)
    IN  IF digits = <<>> \/ a = Overflow \/ After(str, last + 1, Spaces) # Len(str) + 1 THEN NotNumber
        ELSE Integer(ToSigned(IF neg = 1 THEN (Unsigned - a) % Unsigned ELSE a))

\* strtod: the place after what it takes, or that of the string.
Mantissa(str, i, digits) ==
    LET dot == After(str, i, digits)
        end == IF At(str, dot) = "." THEN After(str, dot + 1, digits) ELSE dot
    IN  IF end - i = (IF At(str, dot) = "." THEN 1 ELSE 0) THEN i ELSE end
Exponent(str, i, mark) ==
    LET first == AfterSign(str, i + 1)
        end == After(str, first, Digits)
    IN  IF At(str, i) = mark /\ end > first THEN end ELSE i
Strtod(str) ==
    LET num == AfterSign(str, After(str, 1, Spaces))
        hex == Mantissa(str, num + 2, XDigits)
        dec == Mantissa(str, num, Digits)
    IN  CASE \E word \in {<<"i", "n", "f">>, <<"n", "a", "n">>} : Begins(str, num, word) -> num + 3
          [] IsHex(str, num) /\ hex > num + 2 -> Exponent(str, hex, "p")
          [] dec > num -> Exponent(str, dec, "e")
          [] OTHER -> 1

\* l_str2d, in a locale whose radix mark is the dot.
StrToFloat(str) ==
    LET pmode == SelectSeq(str, LAMBDA ch : ch \in {".", "x", "n"})
        end == Strtod(str)
    IN  IF \/ pmode # <<>> /\ Head(pmode) = "n"
           \/ end = 1
           \/ After(str, end, Spaces) # Len(str) + 1
        THEN NotNumber ELSE Float

\* luaO_str2num
StrToNum(str) == IF StrToInt(str) # NotNumber THEN StrToInt(str) ELSE StrToFloat(str)

-----------------------------------------------------------------------------
(* The input. *)

Start(text) == [text |-> text, at |-> 1, line |-> 1, buff |-> <<>>, error |-> ""]

Cur(ls) == At(ls.text, ls.at)
Failed(ls) == ls.error # ""
Fail(ls, msg) == [ls EXCEPT !.error = msg]
Next1(ls) == [ls EXCEPT !.at = @ + 1]
Save(ls, chars) == [ls EXCEPT !.buff = @ \o chars]
SaveNext(ls) == Next1(Save(ls, <<Cur(ls)>>))
Reset(ls) == [ls EXCEPT !.buff = <<>>]

\* All characters that are in the set.
NextWhile(ls, chars) == [ls EXCEPT !.at = After(ls.text, ls.at, chars)]
SaveWhile(ls, chars) ==
    LET end == NextWhile(ls, chars) IN Save(end, SubSeq(ls.text, ls.at, end.at - 1))

\* inclinenumber; the slip: a pair of equal characters is one line, too.
IncLineNumberSlip(ls) ==
    LET next == Next1(ls)
    IN  [(IF Cur(next) \in Newlines THEN Next1(next) ELSE next) EXCEPT !.line = @ + 1]
IncLineNumber(ls) ==
    LET next == Next1(ls)
        pair == Cur(next) \in Newlines /\ Cur(next) # Cur(ls)
    IN  [(IF pair THEN Next1(next) ELSE next) EXCEPT !.line = @ + 1]

\* A token, and the state after it.
Token(ls, kind, val) == [kind |-> kind, val |-> val, ls |-> ls]
Symbol(ls, chars) == Token(ls, "symbol", chars)
NoToken(ls) == Token(ls, "none", <<>>)

-----------------------------------------------------------------------------
(* Numerals, long brackets and strings. *)

RECURSIVE NumeralTail(_, _), LongTail(_, _, _), StringTail(_, _), Utf8Digits(_), SkipSpaces(_),
          LlexFrom(_), Utf8Tail(_, _, _)

NumeralTail(ls, expo) ==
    LET marked == IF Cur(ls) # expo THEN ls
                  ELSE IF Cur(Next1(ls)) \in Signs THEN SaveNext(SaveNext(ls)) ELSE SaveNext(ls)
    IN  IF Cur(marked) \in XDigits \cup {"."} THEN NumeralTail(SaveNext(marked), expo) ELSE marked

\* read_numeral, at a digit; a dot before it was saved.
ReadNumeral(ls) ==
    LET first == SaveNext(ls)
        hex == Cur(ls) = "0" /\ Cur(first) = "x"
        end == IF hex THEN NumeralTail(SaveNext(first), "p") ELSE NumeralTail(first, "e")
        num == StrToNum(end.buff)
    IN  CASE num.type = "int"   -> Token(end, "int", <<ToString(num.n)>>)
          [] num.type = "float" -> Token(end, "float", end.buff)
          [] OTHER              -> NoToken(Fail(end, "malformed number"))

\* skip_sep: the state after it, and the number of "=", negative without a second bracket.
AfterSep(ls) == SaveWhile(SaveNext(ls), {"="})
Sep(ls) == LET count == AfterSep(ls).at - ls.at - 1
           IN  IF Cur(AfterSep(ls)) = Cur(ls) THEN count ELSE -count - 1

\* read_long_string, from the second bracket on.
Ends(ls, sep) == Sep(ls) = sep
LongTail(ls, sep, isstring) ==
    CASE Cur(ls) = EOZ -> NoToken(Fail(ls, "unfinished long string"))
      [] Cur(ls) = "]" ->
           IF Ends(ls, sep)
           THEN LET end == SaveNext(AfterSep(ls))
                IN  Token(end, "string", SubSeq(end.buff, 3 + sep, Len(end.buff) - 2 - sep))
           ELSE LongTail(AfterSep(ls), sep, isstring)
      [] Cur(ls) \in Newlines ->
           LET next == IncLineNumber(Save(ls, <<"\n">>))
           IN  LongTail(IF isstring THEN next ELSE Reset(next), sep, isstring)
      [] OTHER -> LongTail(IF isstring THEN SaveNext(ls) ELSE Next1(ls), sep, isstring)
ReadLongString(ls, sep, isstring) ==
    LET open == SaveNext(ls)
    IN  LongTail(IF Cur(open) \in Newlines THEN IncLineNumber(open) ELSE open, sep, isstring)

\* luaO_utf8esc: the continuation bytes, then the first.
Utf8Tail(x, mfb, bytes) ==
    IF x > mfb THEN Utf8Tail(x \div 64, mfb \div 2, <<128 + (x % 64)>> \o bytes)
    ELSE <<254 - 2 * mfb + x>> \o bytes
Utf8(x) == IF x < 128 THEN <<x>> ELSE Utf8Tail(x \div 64, 31, <<128 + (x % 64)>>)
Chars(bytes) == [i \in DOMAIN bytes |-> Char(bytes[i])]

\* readutf8esc, from "u" on: the value and the state, at the closing brace.
Utf8Digits(u) ==
    IF Cur(u.ls) \notin XDigits THEN u
    ELSE LET r == u.r * 16 + HexValue[Cur(u.ls)]
         IN  IF r > 1114111 THEN [u EXCEPT !.ls = Fail(u.ls, "UTF-8 value too large")]
             ELSE Utf8Digits([r |-> r, ls |-> Next1(u.ls)])
Utf8Esc(ls) ==
    LET open == Next1(ls)
        u == Utf8Digits([r |-> 0, ls |-> Next1(open)])
    IN  CASE Cur(open) # "{" -> Fail(open, "missing '{'")
          [] Cur(Next1(open)) \notin XDigits -> Fail(open, "hexadecimal digit expected")
          [] Failed(u.ls) -> u.ls
          [] Cur(u.ls) # "}" -> Fail(u.ls, "missing '}'")
          [] OTHER -> Save(Next1(u.ls), Chars(Utf8(u.r)))

\* readhexaesc, from "x" on.
HexEsc(ls) ==
    LET h == Next1(ls)
        l == Next1(h)
    IN  IF {Cur(h), Cur(l)} \subseteq XDigits
        THEN Save(Next1(l), <<Char(16 * HexValue[Cur(h)] + HexValue[Cur(l)])>>)
        ELSE Fail(ls, "hexadecimal digit expected")

\* readdecesc: up to three digits.
DigitsEnd(ls) == LET end == After(ls.text, ls.at, Digits) IN IF end > ls.at + 3 THEN ls.at + 3 ELSE end
DecEsc(ls) ==
    LET end == DigitsEnd(ls)
        r == FoldLeft(LAMBDA a, ch : a * 10 + HexValue[ch], 0, SubSeq(ls.text, ls.at, end - 1))
    IN  IF r > 255 THEN Fail(ls, "decimal escape too large")
        ELSE Save([ls EXCEPT !.at = end], <<Char(r)>>)

SkipSpaces(ls) ==
    IF Cur(ls) \in Newlines THEN SkipSpaces(IncLineNumber(ls))
    ELSE IF Cur(ls) \in Spaces THEN SkipSpaces(Next1(ls)) ELSE ls

\* An escape sequence, from what follows "\" on.
Simple == [n |-> "\n", r |-> "\r", t |-> "\t", a |-> Char(7), b |-> Char(8), f |-> "\f", v |-> Char(11)]
Escape(ls) ==
    CASE Cur(ls) \in DOMAIN Simple           -> Next1(Save(ls, <<Simple[Cur(ls)]>>))
      [] Cur(ls) = "x"                       -> HexEsc(ls)
      [] Cur(ls) = "u"                       -> Utf8Esc(ls)
      [] Cur(ls) \in Newlines                -> IncLineNumber(Save(ls, <<"\n">>))
      [] Cur(ls) \in Quotes \cup {"\\"}      -> SaveNext(ls)
      [] Cur(ls) = EOZ                       -> ls
      [] Cur(ls) = "z"                       -> SkipSpaces(Next1(ls))
      [] Cur(ls) \in Digits                  -> DecEsc(ls)
      [] OTHER                               -> Fail(ls, "invalid escape sequence")

\* read_string, after the opening delimiter.
StringTail(ls, del) ==
    CASE Failed(ls)                        -> NoToken(ls)
      [] Cur(ls) = del                     -> Token(Next1(ls), "string", ls.buff)
      [] Cur(ls) \in Newlines \cup {EOZ}   -> NoToken(Fail(ls, "unfinished string"))
      [] Cur(ls) = "\\"                    -> StringTail(Escape(Next1(ls)), del)
      [] OTHER                             -> StringTail(SaveNext(ls), del)

-----------------------------------------------------------------------------
(* llex *)

\* The symbols of more than one character, the longest first.
LongSymbols == << <<"=", "=">>, <<"<", "=">>, <<"<", "<">>, <<">", "=">>, <<">", ">">>, <<"/", "/">>,
                  <<"~", "=">>, <<":", ":">>, <<".", ".", ".">>, <<".", ".">> >>

ReadSymbol(ls) ==
    LET i == SelectInSeq(LongSymbols, LAMBDA sym : Begins(ls.text, ls.at, sym))
        sym == IF i = 0 THEN <<Cur(ls)>> ELSE LongSymbols[i]
    IN  Symbol([ls EXCEPT !.at = @ + Len(sym)], sym)

ReadName(ls) ==
    LET end == SaveWhile(ls, Letters \cup Digits)
    IN  Token(end, IF end.buff \in Reserved THEN "reserved" ELSE "name", end.buff)

LineEnd(str, i) ==
    LET breaks == {j \in i .. Len(str) : str[j] \in Newlines}
    IN  IF breaks = {} THEN Len(str) + 1 ELSE Min(breaks)

\* A comment, after "--"; a long one that is not finished is an error.
Comment(ls) ==
    LET sep == Sep(ls)
        long == ReadLongString(AfterSep(ls), sep, FALSE).ls
    IN  IF Cur(ls) = "[" /\ sep >= 0 THEN Reset(long)
        ELSE [ls EXCEPT !.at = LineEnd(ls.text, ls.at)]

LlexFrom(ls) ==
    LET ch == Cur(ls)
        next == Cur(Next1(ls))
    IN  CASE Failed(ls)                          -> NoToken(ls)
          [] ch \in Newlines                     -> LlexFrom(IncLineNumber(ls))
          [] ch \in Spaces \ Newlines            -> LlexFrom(Next1(ls))
          [] ch = "-" /\ next = "-"              -> LlexFrom(Comment(Next1(Next1(ls))))
          [] ch = "["                            ->
               IF Sep(ls) >= 0 THEN ReadLongString(AfterSep(ls), Sep(ls), TRUE)
               ELSE IF Sep(ls) # -1 THEN NoToken(Fail(ls, "invalid long string delimiter"))
               ELSE Symbol(Next1(ls), <<"[">>)
          [] ch \in Quotes                       -> StringTail(Next1(ls), ch)
          [] ch = "." /\ next \in Digits         -> ReadNumeral(SaveNext(ls))
          [] ch \in Digits                       -> ReadNumeral(ls)
          [] ch = EOZ                            -> Token(ls, "eos", <<>>)
          [] ch \in Letters                      -> ReadName(ls)
          [] OTHER                               -> ReadSymbol(ls)

\* llex: the buffer is empty at the start.
Llex(ls) == LlexFrom(Reset(ls))

\* The tokens of a text, up to its end or an error, as luaX_next reads them.
RECURSIVE TokensFrom(_, _)
TokensFrom(ls, tokens) ==
    LET token == Llex(ls)
        read == [kind |-> token.kind, val |-> token.val, line |-> token.ls.line, end |-> token.ls.at]
    IN  IF token.kind \in {"none", "eos"} THEN [tokens |-> tokens, error |-> token.ls.error, line |-> token.ls.line]
        ELSE TokensFrom(token.ls, Append(tokens, read))
Tokens(text) == TokensFrom(Start(text), <<>>)

-----------------------------------------------------------------------------
(* string.format("%q") *)

DigitOf(n) == Digit[(n % 10) + 1]
DecimalText(n) ==
    CASE n < 10  -> <<DigitOf(n)>>
      [] n < 100 -> <<DigitOf(n \div 10), DigitOf(n)>>
      [] OTHER   -> <<DigitOf(n \div 100), DigitOf(n \div 10), DigitOf(n)>>

\* addquoted
Controls == 0 .. 31 \cup {127}
Control(n, next) ==
    LET digits == DecimalText(n)
        zeros == IF next \in Digits THEN SubSeq(<<"0", "0">>, 1, 3 - Len(digits)) ELSE <<>>
    IN  <<"\\">> \o zeros \o digits
QuotedChar(str, i) ==
    CASE str[i] \in {"\"", "\\", "\n"} -> <<"\\", str[i]>>
      [] Code(str[i]) \in Controls     -> Control(Code(str[i]), At(str, i + 1))
      [] OTHER                         -> <<str[i]>>
AddQuoted(str) == <<"\"">> \o FlattenSeq([i \in DOMAIN str |-> QuotedChar(str, i)]) \o <<"\"">>
=============================================================================
