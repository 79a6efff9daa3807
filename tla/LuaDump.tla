------------------------------- MODULE LuaDump -------------------------------
(***************************************************************************)
(* Precompiled chunks: string.dump writes a function (ldump.c of           *)
(* src/3rd/lua-5.3.5/src) and load reads it back (lundump.c).              *)
(*                                                                         *)
(* A chunk is a sequence of items <<type, value>>, one for each variable   *)
(* that is written; the two files agree on nothing but the order.  A       *)
(* string is a sequence of characters.                                     *)
(*                                                                         *)
(* A definition whose name ends in Slip is the one after it with a         *)
(* plausible programming slip; no specification uses it.                    *)
(***************************************************************************)
EXTENDS Integers, Sequences, FiniteSetsExt, SequencesExt, TLC

CONSTANTS
    MaxByte \* the size that does not fit in a byte, 0xFF

Null == <<"NULL">>
Nil == <<"nil">>

\* DumpHeader, and what checkHeader says of a difference.
Header == << <<"char", "ESC">>, <<"char", "Lua">>, <<"byte", "version">>, <<"byte", "format">>,
             <<"char", "LUAC_DATA">>, <<"byte", "int">>, <<"byte", "size_t">>, <<"byte", "Instruction">>,
             <<"byte", "lua_Integer">>, <<"byte", "lua_Number">>, <<"integer", "LUAC_INT">>,
             <<"number", "LUAC_NUM">> >>
Mismatch == <<"", "not a", "version mismatch in", "format mismatch in", "corrupted", "int size mismatch in",
              "size_t size mismatch in", "Instruction size mismatch in", "lua_Integer size mismatch in",
              "lua_Number size mismatch in", "endianness mismatch in", "float format mismatch in">>

-----------------------------------------------------------------------------
(* ldump.c *)

DumpByte(x) == << <<"byte", x>> >>
DumpInt(x) == << <<"int", x>> >>
DumpVector(type, vals) == [i \in DOMAIN vals |-> <<type, vals[i]>>]
DumpEach(vals, Dump(_)) == DumpInt(Len(vals)) \o FlattenSeq([i \in DOMAIN vals |-> Dump(vals[i])])

\* DumpString; the slip: the mark of a long string is taken for a size.
SizeSlip(size) == IF size <= MaxByte THEN DumpByte(size) ELSE DumpByte(MaxByte) \o << <<"size_t", size>> >>
Size(size) == IF size < MaxByte THEN DumpByte(size) ELSE DumpByte(MaxByte) \o << <<"size_t", size>> >>
DumpString(s) == IF s = Null THEN DumpByte(0) ELSE Size(Len(s) + 1) \o DumpVector("char", s)

DumpConstant(o) ==
    DumpByte(o.type) \o CASE o.type = "boolean" -> DumpByte(o.v)
                          [] o.type = "number"  -> << <<"number", o.v>> >>
                          [] o.type = "integer" -> << <<"integer", o.v>> >>
                          [] o.type = "string"  -> DumpString(o.v)
                          [] OTHER              -> <<>>
DumpUpvalue(u) == DumpByte(u.instack) \o DumpByte(u.idx)
DumpLocVar(v) == DumpString(v.varname) \o DumpInt(v.startpc) \o DumpInt(v.endpc)

\* DumpDebug
DumpDebug(f, strip) ==
    LET kept(vals) == IF strip THEN <<>> ELSE vals
        name(u) == DumpString(u.name)
    IN  DumpInt(Len(kept(f.lineinfo))) \o DumpVector("int", kept(f.lineinfo))
          \o DumpEach(kept(f.locvars), DumpLocVar) \o DumpEach(kept(f.upvalues), name)

RECURSIVE DumpFunction(_, _, _)
DumpProtos(f, strip) == DumpEach(f.p, LAMBDA p : DumpFunction(p, f.source, strip))
DumpFunction(f, psource, strip) ==
    DumpString(IF strip \/ f.source = psource THEN Null ELSE f.source)
      \o DumpInt(f.linedefined) \o DumpInt(f.lastlinedefined)
      \o DumpByte(f.numparams) \o DumpByte(f.is_vararg) \o DumpByte(f.maxstacksize)
      \o DumpInt(Len(f.code)) \o DumpVector("code", f.code)
      \o DumpEach(f.k, DumpConstant) \o DumpEach(f.upvalues, DumpUpvalue) \o DumpProtos(f, strip)
      \o DumpDebug(f, strip)

\* luaU_dump
Dump(f, strip) == Header \o DumpByte(Len(f.upvalues)) \o DumpFunction(f, Null, strip)

-----------------------------------------------------------------------------
(* lundump.c: a state has the input, the last value that was loaded and, once *)
(* it has failed, why.                                                       *)

Error(S, why) == IF S.error = "" THEN [S EXCEPT !.error = why] ELSE S
Give(S, v) == [S EXCEPT !.v = v]

\* A variable; one of another type would be garbage, an error of its own here.
Load(S, type) ==
    CASE S.error # ""              -> S
      [] S.z = <<>>                -> Error(S, "truncated")
      [] Head(S.z)[1] # type       -> Error(S, "garbage")
      [] OTHER                     -> [S EXCEPT !.z = Tail(@), !.v = Head(S.z)[2]]
LoadByte(S) == Load(S, "byte")
LoadInt(S) == Load(S, "int")

\* n items, each loaded by the operator: what is loaded is a sequence.
Vector(S, n, Item(_)) ==
    LET Next(acc, i) == LET next == Item(acc.S) IN [S |-> next, vals |-> Append(acc.vals, next.v)]
        all == FoldLeft(Next, [S |-> S, vals |-> <<>>], [i \in 1 .. n |-> i])
    IN  IF S.error # "" THEN S ELSE Give(all.S, all.vals)
LoadVector(S, type, n) == Vector(S, n, LAMBDA s : Load(s, type))
Counted(S, Item(_)) == LET n == LoadInt(S) IN Vector(n, n.v, Item)

\* The items of a record, in order.
Record(S, fields, Field(_, _, _)) ==
    LET Next(acc, name) == LET next == Field(acc.S, name, acc.r) IN [S |-> next, r |-> (name :> next.v) @@ acc.r]
        all == FoldLeft(Next, [S |-> S, r |-> <<>>], fields)
    IN  Give(all.S, all.r)

LoadString(S) ==
    LET byte == LoadByte(S)
        size == IF byte.error = "" /\ byte.v = MaxByte THEN Load(byte, "size_t") ELSE byte
    IN  IF size.error # "" THEN size
        ELSE IF size.v = 0 THEN Give(size, Null) ELSE LoadVector(size, "char", size.v - 1)

LoadConstant(S) ==
    LET type == LoadByte(S)
        val == CASE type.error # ""    -> type
                 [] type.v = "boolean" -> LoadByte(type)
                 [] type.v = "number"  -> Load(type, "number")
                 [] type.v = "integer" -> Load(type, "integer")
                 [] type.v = "string"  -> LoadString(type)
                 [] OTHER              -> Give(type, Nil)
    IN  Give(val, [type |-> type.v, v |-> val.v])
LoadUpvalue(S) ==
    Record(S, <<"instack", "idx", "name">>,
           LAMBDA s, name, r : IF name = "name" THEN Give(s, Null) ELSE LoadByte(s))
LoadLocVar(S) ==
    Record(S, <<"varname", "startpc", "endpc">>,
           LAMBDA s, name, r : IF name = "varname" THEN LoadString(s) ELSE LoadInt(s))
LoadCode(S) == LET n == LoadInt(S) IN LoadVector(n, "code", n.v)
LoadLineInfo(S) == LET n == LoadInt(S) IN LoadVector(n, "int", n.v)

\* The names of LoadDebug go to the upvalues that are there.
LoadNames(S, upvalues) ==
    LET names == Counted(S, LoadString)
    IN  IF names.error # "" THEN names
        ELSE Give(names, [i \in DOMAIN upvalues |-> IF i \in DOMAIN names.v
                                                   THEN [upvalues[i] EXCEPT !.name = names.v[i]] ELSE upvalues[i]])

RECURSIVE LoadFunction(_, _)
LoadProtos(S, psource) == Counted(S, LAMBDA s : LoadFunction(s, psource))
LoadField(S, name, f, psource) ==
    CASE name = "source"   -> LET source == LoadString(S)
                              IN  IF source.error = "" /\ source.v = Null THEN Give(source, psource) ELSE source
      [] name \in {"linedefined", "lastlinedefined"} -> LoadInt(S)
      [] name \in {"numparams", "is_vararg", "maxstacksize"} -> LoadByte(S)
      [] name = "code"     -> LoadCode(S)
      [] name = "k"        -> Counted(S, LoadConstant)
      [] name = "upvals"   -> Counted(S, LoadUpvalue)
      [] name = "p"        -> LoadProtos(S, f.source)
      [] name = "lineinfo" -> LoadLineInfo(S)
      [] name = "locvars"  -> Counted(S, LoadLocVar)
      [] name = "upvalues" -> LoadNames(S, f.upvals)
LoadFunction(S, psource) ==
    LET f == Record(S, <<"source", "linedefined", "lastlinedefined", "numparams", "is_vararg", "maxstacksize",
                         "code", "k", "upvals", "p", "lineinfo", "locvars", "upvalues">>,
                    LAMBDA s, name, r : IF s.error # "" THEN s ELSE LoadField(s, name, r, psource))
    IN  Give(f, [name \in DOMAIN f.v \ {"upvals"} |-> f.v[name]])

\* checkHeader; the first character was read by f_parser.
CheckHeader(S) ==
    FoldLeft(LAMBDA s, i : LET item == Load(s, Header[i][1])
                           IN  IF item.v = Header[i][2] THEN item ELSE Error(item, Mismatch[i]),
             S, [i \in 1 .. Len(Header) - 1 |-> i + 1])

\* luaU_undump, after the first character: the function, the number of its upvalues,
\* the error and what was not read.
Undump(items) ==
    LET n == LoadByte(CheckHeader([z |-> Tail(items), v |-> Nil, error |-> ""]))
        f == LoadFunction(n, Null)
    IN  [f |-> f.v, nupvalues |-> n.v, error |-> f.error, rest |-> f.z]
=============================================================================
