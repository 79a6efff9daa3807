------------------------------- MODULE LuaLoad -------------------------------
(***************************************************************************)
(* How a file becomes a chunk (src/3rd/lua-5.3.5/src): luaL_loadfilex of   *)
(* lauxlib.c skips a byte order mark and a first line with "#", the reader *)
(* gives the rest to lua_load, and f_parser of ldo.c tells a precompiled   *)
(* chunk from a text.                                                      *)
(*                                                                         *)
(* A file is a sequence of characters, those of LuaLex.  A definition      *)
(* whose name ends in Slip is the one after it with a plausible            *)
(* programming slip; no specification uses it.                             *)
(***************************************************************************)
EXTENDS Integers, Sequences, FiniteSetsExt, SequencesExt

CONSTANTS
    BOM,      \* the byte order mark of UTF-8
    Signature \* the first character of a precompiled chunk

EOF == "EOF"
CharAt(file, i) == IF i \in DOMAIN file THEN file[i] ELSE EOF
From(file, i) == IF i > Len(file) THEN <<>> ELSE SubSeq(file, i, Len(file))

\* skipBOM: what is left in the buffer, the next character and the place after it.
Skipped(buff, file, i) == [buff |-> buff, c |-> CharAt(file, i), at |-> i + 1]
SkipBOM(file) ==
    LET n == Max({n \in 0 .. Len(BOM) : n <= Len(file) /\ IsPrefix(SubSeq(BOM, 1, n), file)})
    IN  Skipped(IF n = Len(BOM) THEN <<>> ELSE SubSeq(BOM, 1, n), file, n + 1)

\* skipcomment
LineEnds(file, i) == {j \in i .. Len(file) : file[j] = "\n"}
AfterLine(file, i) == IF LineEnds(file, i) = {} THEN Len(file) + 1 ELSE Min(LineEnds(file, i)) + 1
HasComment(lf) == lf.c = "#"
SkipComment(lf, file) == IF HasComment(lf) THEN Skipped(lf.buff, file, AfterLine(file, lf.at)) ELSE lf

\* A precompiled chunk is opened and read again; the slip: with what is in the buffer.
ReopenSlip(lf, file) == SkipComment([SkipBOM(file) EXCEPT !.buff = lf.buff], file)
Reopen(lf, file) == SkipComment(SkipBOM(file), file)

\* luaL_loadfilex: what getF gives, block after block.
Opened(file) ==
    LET lf == SkipComment(SkipBOM(file), file)
        line == IF HasComment(SkipBOM(file)) THEN [lf EXCEPT !.buff = Append(@, "\n")] ELSE lf
    IN  IF lf.c = Signature THEN Reopen(line, file) ELSE line
Stream(file) ==
    LET lf == Opened(file)
    IN  lf.buff \o (IF lf.c = EOF THEN <<>> ELSE <<lf.c>>) \o From(file, lf.at)

\* lua_load, luaD_protectedparser and f_parser, with checkmode: "" is no mode.
Allows(mode, kind) == mode = {} \/ kind \in mode
LoadFile(file, mode) ==
    LET stream == Stream(file)
        kind == IF CharAt(stream, 1) = Signature THEN "binary" ELSE "text"
    IN  [kind |-> IF Allows(mode, kind) THEN kind ELSE "refused", stream |-> stream]
=============================================================================
