------------------------------- MODULE LuaUtf8 -------------------------------
(***************************************************************************)
(* The utf8 library (src/3rd/lua-5.3.5/src/lutf8lib.c).  A string is a     *)
(* sequence of bytes, and 0 is found after the last one.  The functions    *)
(* that take positions are given those that count from the start.          *)
(*                                                                         *)
(* A definition whose name ends in Slip is the one after it with a         *)
(* plausible programming slip; no specification uses it.                    *)
(***************************************************************************)
EXTENDS Integers, Sequences, FiniteSetsExt, SequencesExt

CONSTANTS
    Encode(_) \* luaO_utf8esc: the bytes of a code

MaxUnicode == 1114111
Limits == <<127, 2047, 65535>>

ByteAt(s, i) == IF i \in DOMAIN s THEN s[i] ELSE 0
IsContByte(c) == c \div 64 = 2
IsCont(s, i) == IsContByte(ByteAt(s, i))
Invalid == [ok |-> FALSE]

\* utf8_decode of the bytes from place i on.  c is shifted once for each continuation
\* byte that was read.
RECURSIVE Continue(_, _, _, _, _)
Continue(s, i, c, res, count) ==
    IF (c \div 64) % 2 = 0 THEN [ok |-> TRUE, count |-> count, res |-> res + (c % 128) * 2 ^ (5 * count)]
    ELSE IF ~IsCont(s, i + count + 1) THEN Invalid
    ELSE Continue(s, i, 2 * c, res * 64 + (ByteAt(s, i + count + 1) % 64), count + 1)

\* What is refused; the slip: codes written with more bytes than they need are not.
RefusedSlip(count, res) == count = 0 \/ count > 3 \/ res > MaxUnicode
Refused(count, res) == count = 0 \/ count > 3 \/ res > MaxUnicode \/ res <= Limits[count]
Decode(s, i) ==
    LET d == Continue(s, i, ByteAt(s, i), 0, 0)
    IN  IF ByteAt(s, i) < 128 THEN [ok |-> TRUE, val |-> ByteAt(s, i), next |-> i + 1]
        ELSE IF ~d.ok THEN Invalid
        ELSE IF Refused(d.count, d.res) THEN Invalid
        ELSE [ok |-> TRUE, val |-> d.res, next |-> i + d.count + 1]

\* The codes of the characters that start in i .. j, and the place of the first byte
\* sequence that is not valid, or 0: the loops of utflen and codepoint.
RECURSIVE CodesFrom(_, _, _, _)
CodesFrom(s, i, j, codes) ==
    LET d == Decode(s, i)
    IN  IF i > j THEN [codes |-> codes, bad |-> 0]
        ELSE IF ~d.ok THEN [codes |-> codes, bad |-> i]
        ELSE CodesFrom(s, d.next, j, Append(codes, d.val))

Failure(why) == [error |-> why]
UtfLen(s, i, j) ==
    LET r == CodesFrom(s, i, j, <<>>)
    IN  CASE i \notin 1 .. Len(s) + 1 -> Failure("initial position out of string")
          [] j > Len(s)               -> Failure("final position out of string")
          [] OTHER                    -> [error |-> "", len |-> Len(r.codes), bad |-> r.bad]
CodePoint(s, i, j) ==
    LET r == CodesFrom(s, i, j, <<>>)
    IN  CASE i < 1 \/ j > Len(s) -> Failure("out of range")
          [] i > j               -> [error |-> "", codes |-> <<>>]
          [] r.bad # 0           -> Failure("invalid UTF-8 code")
          [] OTHER               -> [error |-> "", codes |-> r.codes]

\* pushutfchar and utfchar
UtfChar(codes) ==
    IF \E k \in DOMAIN codes : codes[k] \notin 0 .. MaxUnicode THEN Failure("value out of range")
    ELSE [error |-> "", s |-> FoldLeft(LAMBDA s, code : s \o Encode(code), <<>>, codes)]

\* byteoffset: the loops that look for the start of a character.
RECURSIVE Back(_, _, _), Forth(_, _, _)
Start(s, i) == Max({k \in 1 .. i : k = 1 \/ ~IsCont(s, k)})
Back(s, n, i) == IF n < 0 /\ i > 1 THEN Back(s, n + 1, Start(s, i - 1)) ELSE [n |-> n, i |-> i]
Forth(s, n, i) ==
    IF n > 0 /\ i < Len(s) + 1 THEN Forth(s, n - 1, Min({k \in i + 1 .. Len(s) + 1 : ~IsCont(s, k)}))
    ELSE [n |-> n, i |-> i]
ByteOffset(s, n, i) ==
    LET r == CASE n = 0 -> [n |-> 0, i |-> Start(s, i)]
               [] n < 0 -> Back(s, n, i)
               [] n > 0 -> Forth(s, n - 1, i)
    IN  CASE i \notin 1 .. Len(s) + 1 -> Failure("position out of range")
          [] n # 0 /\ IsCont(s, i)    -> Failure("initial position is a continuation byte")
          [] OTHER                    -> [error |-> "", i |-> IF r.n = 0 THEN r.i ELSE 0]

\* iter_aux, again and again: where each character starts, and its code.
RECURSIVE IterFrom(_, _, _)
IterFrom(s, n, found) ==
    LET i == IF n = 0 THEN 1 ELSE Min({k \in n + 1 .. Len(s) + 1 : ~IsCont(s, k)})
        d == Decode(s, i)
    IN  IF i > Len(s) THEN [error |-> "", found |-> found]
        ELSE IF ~d.ok THEN Failure("invalid UTF-8 code")
        ELSE IF IsCont(s, d.next) THEN Failure("invalid UTF-8 code")
        ELSE IterFrom(s, i, Append(found, <<i, d.val>>))
Codes(s) == IterFrom(s, 0, <<>>)
=============================================================================
