------------------------------- MODULE LuaPack -------------------------------
(***************************************************************************)
(* string.pack, string.packsize and string.unpack                          *)
(* (src/3rd/lua-5.3.5/src/lstrlib.c).  A format is a sequence of options,  *)
(* each a letter and its number or NoNum; a string is a sequence of bytes. *)
(* A float is the number that its bits are, for the library only moves     *)
(* them.  The machine is little-endian.                                    *)
(***************************************************************************)
EXTENDS Integers, Sequences, SequencesExt

CONSTANTS
    NB,          \* the bits of a byte
    SizeOf,      \* the bytes of the types of C
    MaxIntSize, MaxAlign, MaxSize

NoNum == -1
Byte == 2 ^ NB
SzInt == SizeOf.integer
Unsigned(n) == n % Byte ^ SzInt
ToSigned(n) == IF 2 * n >= Byte ^ SzInt THEN n - Byte ^ SzInt ELSE n

Failure(why) == [error |-> why]
Nop(h) == [error |-> "", kind |-> "nop", size |-> 0, h |-> h]

-----------------------------------------------------------------------------
(* Options. *)

InitHeader == [little |-> TRUE, maxalign |-> 1]

Fixed == [b |-> <<"int", 1>>, B |-> <<"uint", 1>>,
          h |-> <<"int", SizeOf.short>>, H |-> <<"uint", SizeOf.short>>,
          l |-> <<"int", SizeOf.long>>, L |-> <<"uint", SizeOf.long>>,
          j |-> <<"int", SzInt>>, J |-> <<"uint", SzInt>>, T |-> <<"uint", SizeOf.size_t>>,
          f |-> <<"float", SizeOf.float>>, d |-> <<"float", SizeOf.double>>, n |-> <<"float", SizeOf.number>>,
          z |-> <<"zstr", 0>>, x |-> <<"padding", 1>>, X |-> <<"paddalign", 0>>]
\* Options with a number, and what it is without one.
Numbered == [i |-> <<"int", SizeOf.int>>, I |-> <<"uint", SizeOf.int>>, s |-> <<"string", SizeOf.size_t>>]
\* getnum
GetNum(num, df) == IF num = NoNum THEN df ELSE num

GetOption(h, o) ==
    LET letter == o[1]
        size == GetNum(o[2], IF letter = "!" THEN MaxAlign ELSE Numbered[letter][2])
    IN  CASE letter \in DOMAIN Fixed ->
               [error |-> "", kind |-> Fixed[letter][1], size |-> Fixed[letter][2], h |-> h]
          [] letter = "c" -> IF o[2] = NoNum THEN Failure("missing size for format option 'c'")
                             ELSE [error |-> "", kind |-> "char", size |-> o[2], h |-> h]
          [] letter \in DOMAIN Numbered \union {"!"} ->
               IF size \notin 1 .. MaxIntSize THEN Failure("integral size out of limits")
               ELSE IF letter = "!" THEN Nop([h EXCEPT !.maxalign = size])
               ELSE [error |-> "", kind |-> Numbered[letter][1], size |-> size, h |-> h]
          [] letter = " " -> Nop(h)
          [] letter = "<" \/ letter = "=" -> Nop([h EXCEPT !.little = TRUE])
          [] letter = ">" -> Nop([h EXCEPT !.little = FALSE])
          [] OTHER -> Failure("invalid format option")

\* getdetails: also the bytes in front of the option, and the options that are left;
\* "X" takes the option after it for its alignment only.
Padding(align, total) == (align - (total % align)) % align
IsPowerOf2(n) == \E i \in 0 .. n : n = 2 ^ i
GetDetails(h, total, fmt) ==
    LET o == GetOption(h, fmt[1])
        isX == o.error = "" /\ o.kind = "paddalign"
        after == IF Len(fmt) = 1 THEN Failure("") ELSE GetOption(o.h, fmt[2])
        wanted == IF isX THEN after.size ELSE o.size
        header == IF isX THEN after.h ELSE o.h
        align == IF wanted > header.maxalign THEN header.maxalign ELSE wanted
        ntoalign == IF wanted <= 1 \/ o.kind = "char" THEN 0 ELSE Padding(align, total)
    IN  CASE o.error # ""             -> o
          [] isX /\ after.error # "" -> after
          [] isX /\ Len(fmt) = 1     -> Failure("invalid next option for option 'X'")
          [] isX /\ (after.kind = "char" \/ wanted = 0) -> Failure("invalid next option for option 'X'")
          [] wanted > 1 /\ o.kind # "char" /\ ~IsPowerOf2(align) -> Failure("alignment not power of 2")
          [] OTHER -> [error |-> "", kind |-> o.kind, size |-> o.size, ntoalign |-> ntoalign, h |-> header,
                       rest |-> SubSeq(fmt, IF isX THEN 3 ELSE 2, Len(fmt))]

-----------------------------------------------------------------------------
(* Integers and floats. *)

\* copywithendian, and the index that packint and unpackint use.
Endian(bytes, little) == IF little THEN bytes ELSE Reverse(bytes)
Digits(n, size) == [i \in 1 .. size |-> (n \div Byte ^ (i - 1)) % Byte]
Number(bytes) == FoldRight(LAMBDA byte, n : n * Byte + byte, bytes, 0)

\* packint, for a number without sign.
PackInt(n, little, size, neg) ==
    Endian([i \in 1 .. size |-> IF neg /\ i > SzInt THEN Byte - 1 ELSE Digits(n, size)[i]], little)

UnpackInt(bytes, little, issigned) ==
    LET b == Endian(bytes, little)
        size == Len(bytes)
        res == Number(SubSeq(b, 1, IF size <= SzInt THEN size ELSE SzInt))
        mask == Byte ^ size \div 2
        fill == IF issigned /\ ToSigned(res) < 0 THEN Byte - 1 ELSE 0
    IN  CASE size < SzInt -> [error |-> "", n |-> IF issigned /\ res >= mask THEN res - 2 * mask ELSE res]
          [] size > SzInt /\ \E i \in SzInt + 1 .. size : b[i] # fill ->
               Failure("integer does not fit into Lua Integer")
          [] OTHER -> [error |-> "", n |-> ToSigned(res)]

-----------------------------------------------------------------------------
(* The functions. *)

Zeros(n) == [i \in 1 .. n |-> 0]

\* The bytes of one option, and what totalsize gets in addition to its size.
Item(o, little, size, arg) ==
    LET Bytes(bytes, more) == [error |-> "", bytes |-> bytes, more |-> more]
    IN  CASE o = "int" ->
               IF size < SzInt /\ arg \notin -(Byte ^ size \div 2) .. Byte ^ size \div 2 - 1
               THEN Failure("integer overflow")
               ELSE Bytes(PackInt(Unsigned(arg), little, size, arg < 0), 0)
          [] o = "uint" ->
               IF size < SzInt /\ Unsigned(arg) >= Byte ^ size THEN Failure("unsigned overflow")
               ELSE Bytes(PackInt(Unsigned(arg), little, size, FALSE), 0)
          [] o = "float" -> Bytes(Endian(Digits(arg, size), little), 0)
          [] o = "char" -> IF Len(arg) > size THEN Failure("string longer than given size")
                           ELSE Bytes(arg \o Zeros(size - Len(arg)), 0)
          [] o = "string" ->
               IF size < SizeOf.size_t /\ Len(arg) >= Byte ^ size
               THEN Failure("string length does not fit in given size")
               ELSE Bytes(PackInt(Len(arg), little, size, FALSE) \o arg, Len(arg))
          [] o = "zstr" -> IF 0 \in ToSet(arg) THEN Failure("string contains zeros")
                           ELSE Bytes(arg \o <<0>>, Len(arg) + 1)
          [] o = "padding" -> Bytes(<<0>>, 0)
          [] OTHER -> Bytes(<<>>, 0)
TakesNone == {"padding", "paddalign", "nop"}

RECURSIVE PackFrom(_, _, _, _, _)
PackFrom(h, fmt, args, total, data) ==
    LET d == GetDetails(h, total, fmt)
        none == d.kind \in TakesNone
        item == Item(d.kind, d.h.little, d.size, IF none THEN 0 ELSE args[1])
    IN  IF fmt = <<>> THEN [error |-> "", data |-> data]
        ELSE IF d.error # "" THEN d
        ELSE IF item.error # "" THEN item
        ELSE PackFrom(d.h, d.rest, IF none THEN args ELSE Tail(args),
                      total + d.ntoalign + d.size + item.more, data \o Zeros(d.ntoalign) \o item.bytes)
StrPack(fmt, args) == PackFrom(InitHeader, fmt, args, 0, <<>>)

RECURSIVE PackSizeFrom(_, _, _)
PackSizeFrom(h, fmt, total) ==
    LET d == GetDetails(h, total, fmt)
        size == d.size + d.ntoalign
    IN  IF fmt = <<>> THEN [error |-> "", size |-> total]
        ELSE IF d.error # "" THEN d
        ELSE IF total > MaxSize - size THEN Failure("format result too large")
        ELSE IF d.kind \in {"string", "zstr"} THEN Failure("variable-length format")
        ELSE PackSizeFrom(d.h, d.rest, total + size)
StrPackSize(fmt) == PackSizeFrom(InitHeader, fmt, 0)

\* The value of an option whose bytes start after pos, and how many more it takes; after
\* the last byte of a string there is a zero.  An addition to pos may wrap around.
StrLen(data, pos) == SelectInSubSeq(data \o <<0>>, pos + 1, Len(data) + 1, LAMBDA byte : byte = 0) - pos - 1
Value(o, little, size, data, pos) ==
    LET Val(vals, more) == [error |-> "", vals |-> vals, more |-> more]
        bytes == SubSeq(data, pos + 1, pos + size)
        int == UnpackInt(bytes, little, o = "int")
        len == Unsigned(int.n)
    IN  CASE o \in {"int", "uint"} -> IF int.error # "" THEN int ELSE Val(<<int.n>>, 0)
          [] o = "float" -> Val(<<Number(Endian(bytes, little))>>, 0)
          [] o = "char" -> Val(<<bytes>>, 0)
          [] o = "string" -> IF int.error # "" THEN int
                             ELSE IF Unsigned(pos + len + size) > Len(data) THEN Failure("data string too short")
                             ELSE Val(<<SubSeq(data, pos + size + 1, pos + size + len)>>, len)
          [] o = "zstr" -> Val(<<SubSeq(data, pos + 1, pos + StrLen(data, pos))>>, StrLen(data, pos) + 1)
          [] OTHER -> Val(<<>>, 0)

RECURSIVE UnpackFrom(_, _, _, _, _)
UnpackFrom(h, fmt, data, pos, vals) ==
    LET d == GetDetails(h, pos, fmt)
        value == Value(d.kind, d.h.little, d.size, data, pos + d.ntoalign)
    IN  IF fmt = <<>> THEN [error |-> "", vals |-> vals, next |-> pos + 1]
        ELSE IF d.error # "" THEN d
        ELSE IF pos + d.ntoalign + d.size > Len(data) THEN Failure("data string too short")
        ELSE IF value.error # "" THEN value
        ELSE UnpackFrom(d.h, d.rest, data, pos + d.ntoalign + d.size + value.more, vals \o value.vals)

PosRelat(pos, len) == IF pos >= 0 THEN pos ELSE IF -pos > len THEN 0 ELSE len + pos + 1
StrUnpack(fmt, data, init) ==
    IF PosRelat(init, Len(data)) \notin 1 .. Len(data) + 1 THEN Failure("initial position out of string")
    ELSE UnpackFrom(InitHeader, fmt, data, PosRelat(init, Len(data)) - 1, <<>>)
=============================================================================
