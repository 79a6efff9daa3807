------------------------------ MODULE Serialize ------------------------------
(***************************************************************************)
(* The arguments of sunnet.Send, sunnet.Call and sunnet.Ret on their way   *)
(* from one Lua state to another: PackValue writes them into the buffer of *)
(* a message, UnpackValue reads them out of it.                            *)
(*                                                                         *)
(* A Lua value is a pair of its type and its content.  The content of a    *)
(* float is in halves, so that 2 is 1.0 and 3 is 1.5.  The content of a    *)
(* table is its name, and the tables of the sender are in `heap', where    *)
(* Lua may have tied them into cycles.  A cell of a buffer is a type byte  *)
(* with the data of fixed size that follows it; a table of the receiver    *)
(* has the number of the cell it was made for.                             *)
(*                                                                         *)
(* Both functions call themselves for the keys and the values of a table.  *)
(* The calls that have not returned are a stack, one frame for each table, *)
(* and an action is what happens between two calls or returns.             *)
(*                                                                         *)
(* A definition whose name ends in Slip is the one after it with a         *)
(* plausible programming slip; no specification uses it.                   *)
(***************************************************************************)
EXTENDS Integers, Sequences, FiniteSets, SequencesExt

CONSTANTS
    Tables,     \* the tables of the sender
    Keys,       \* the scalars it uses as keys
    Scalars,    \* the scalars it uses as values and arguments
    Numerals,   \* the strings that look like numbers, with the number in halves
    MaxDepth,   \* the depth that PackValue accepts (32)
    ArgBits,    \* the bits of the argument count (8)
    MaxOps      \* a bound on what Lua does before it sends

ASSUME SerializeAssumption ==
    /\ MaxDepth \in Nat /\ ArgBits \in Nat /\ MaxOps \in Nat
    /\ \A v \in Keys \union Scalars : v = <<v[1], v[2]>> /\ v[1] # "table"
\* The provers do not compute powers.
ASSUME ArgBitsAssumption == 2 ^ ArgBits \in Nat \ {0}

VARIABLES
    heap,     \* the entries of each table of the sender, as a function
    args,     \* the arguments pushed so far
    call,     \* the function called to send them: "none", "Send", "Call", "Ret"
    sent,     \* what became of the call: "none", "packing", "sent", "dropped", "error"
    buff,     \* the argument count and the cells of the message
    pack,     \* PackValue: the argument it is at, its calls, the cells written
    result,   \* the receiver: "none", "reading", "handle", "ignore", "broken"
    unpack,   \* UnpackValue: the cell it reads next and its calls
    got,      \* the values read so far
    tables,   \* the tables made for them
    src,      \* history: the value and the depth each cell was written for
    trail     \* history: the values that pack has had

sender == <<heap, args, call, sent, buff, pack, src, trail>>
receiver == <<result, unpack, got, tables>>
vars == <<sender, receiver>>

TableValue == {<<"table", t>> : t \in Tables}
Value == Scalars \union TableValue
Key == Keys \union TableValue

NoEntries == [k \in {} |-> k]
NoBuff == [argc |-> 0, cells |-> <<>>]
Nil == <<"nil">>

Init ==
    /\ heap = [t \in Tables |-> NoEntries]
    /\ args = <<>>
    /\ call = "none"
    /\ sent = "none"
    /\ buff = NoBuff
    /\ pack = [arg |-> 1, stack |-> <<>>, size |-> 0]
    /\ result = "none"
    /\ unpack = [pos |-> 1, stack |-> <<>>]
    /\ got = <<>>
    /\ tables = NoEntries
    /\ src = <<>>
    /\ trail = <<pack>>

-----------------------------------------------------------------------------
(* The sender. *)

Ops == Len(args) + Cardinality(UNION {{t} \X DOMAIN heap[t] : t \in Tables})

SetTable(t, k, v) ==
    /\ sent = "none"
    /\ Ops < MaxOps
    /\ k \notin DOMAIN heap[t]
    /\ heap' = [heap EXCEPT ![t] = [x \in DOMAIN @ \union {k} |-> IF x = k THEN v ELSE @[x]]]
    /\ UNCHANGED <<args, call, sent, buff, pack, src, trail, receiver>>

Push(v) ==
    /\ sent = "none"
    /\ Ops < MaxOps
    /\ args' = Append(args, v)
    /\ UNCHANGED <<heap, call, sent, buff, pack, src, trail, receiver>>

\* The count is written as one byte, before the arguments.
Argc(n) == n % 2 ^ ArgBits

Begin(function) ==
    /\ sent = "none"
    /\ call' = function
    /\ sent' = "packing"
    /\ buff' = [buff EXCEPT !.argc = Argc(Len(args))]
    /\ UNCHANGED <<heap, args, pack, src, trail, receiver>>
\* Send and Call need a target and one argument.
Send == args # <<>> /\ Begin("Send")
Call == args # <<>> /\ Begin("Call")
Ret == Begin("Ret")

\* lua_isnumber holds of a string that converts to a number too.
IsNumber(v) == v[1] = "number" \/ (v[1] = "string" /\ v[2] \in DOMAIN Numerals)
ToNumber(v) == IF v[1] = "string" THEN Numerals[v[2]] ELSE v[2]

Supported(v) == v[1] \in {"integer", "number", "string", "table"}

TooDeepSlip(depth) == depth >= MaxDepth
TooDeep(depth) == depth > MaxDepth

\* The call of PackValue for table t: the keys that lua_next has not returned,
\* the one it returned last, and whether that or its value is being packed.
PackFrame(t, cell) ==
    [table |-> t, cell |-> cell, left |-> DOMAIN heap[t], key |-> Nil, at |-> "next", pairs |-> 0]

\* lua_next returns the keys in any order.
NextKey(f, k) == [f EXCEPT !.left = @ \ {k}, !.key = k, !.at = "key"]

\* The states in which PackValue is called for the next value after state s.
Calls(s) ==
    IF s.stack = <<>> THEN {x \in {s} : s.arg <= Len(args)}
    ELSE IF Last(s.stack).at = "value" THEN {s}
    ELSE {[s EXCEPT !.stack = Append(Front(@), NextKey(Last(@), k))] : k \in Last(s.stack).left}

Item(f) == IF f.at = "key" THEN f.key ELSE heap[f.table][f.key]
Current(s) == IF s.stack = <<>> THEN args[s.arg] ELSE Item(Last(s.stack))

\* PackValue returns true to the loop over the arguments or to the pairs of a
\* table.
Advance(f) == IF f.at = "key" THEN [f EXCEPT !.at = "value"]
              ELSE [f EXCEPT !.at = "next", !.pairs = @ + 1]
Return(s) ==
    IF s.stack = <<>> THEN [s EXCEPT !.arg = @ + 1]
    ELSE [s EXCEPT !.stack = Append(Front(@), Advance(Last(@)))]

\* The states after a scalar, the begin of a table and its end were written.
AfterScalar(s) == Return([s EXCEPT !.size = @ + 1])
AfterTable(s) == [s EXCEPT !.size = @ + 1,
                           !.stack = Append(@, PackFrame(Current(s)[2], s.size + 1))]
AfterEnd(s) == Return([s EXCEPT !.stack = Front(@)])

AtEnd(s) == s.stack # <<>> /\ Last(s.stack).at = "next" /\ Last(s.stack).left = {}

Scalar(v) == IF IsNumber(v) THEN <<"number", ToNumber(v)>> ELSE v

Goto(s) == pack' = s /\ trail' = Append(trail, s)

Write(s, cell) ==
    /\ buff' = [buff EXCEPT !.cells = Append(@, cell)]
    /\ src' = Append(src, [value |-> Current(s), depth |-> Len(s.stack)])

\* The branches of PackValue for a scalar, a table, its end, and what fails.
PackScalar ==
    /\ sent = "packing"
    /\ \E s \in Calls(pack) :
         /\ ~TooDeep(Len(s.stack))
         /\ Supported(Current(s))
         /\ Current(s)[1] # "table"
         /\ Write(s, Scalar(Current(s)))
         /\ Goto(AfterScalar(s))
    /\ UNCHANGED <<heap, args, call, sent, receiver>>

\* A table begins with a place for the count of its pairs.
PackTable ==
    /\ sent = "packing"
    /\ \E s \in Calls(pack) :
         /\ ~TooDeep(Len(s.stack))
         /\ Current(s)[1] = "table"
         /\ Write(s, <<"table", 0>>)
         /\ Goto(AfterTable(s))
    /\ UNCHANGED <<heap, args, call, sent, receiver>>

\* The count takes its place when all pairs are written.
PairCountSlip(f) == 0
PairCount(f) == f.pairs

EndOfTable ==
    /\ sent = "packing"
    /\ AtEnd(pack)
    /\ LET f == Last(pack.stack)
       IN  buff' = [buff EXCEPT !.cells[f.cell] = <<"table", PairCount(f)>>]
    /\ Goto(AfterEnd(pack))
    /\ UNCHANGED <<heap, args, call, sent, src, receiver>>

\* All calls return false; Send returns nothing, Call and Ret raise an error.
PackFails ==
    /\ sent = "packing"
    /\ \E s \in Calls(pack) : TooDeep(Len(s.stack)) \/ ~Supported(Current(s))
    /\ sent' = IF call = "Send" THEN "dropped" ELSE "error"
    /\ UNCHANGED <<heap, args, call, buff, pack, src, trail, receiver>>

\* The message goes to the receiver.
PackReturns ==
    /\ sent = "packing"
    /\ pack.stack = <<>>
    /\ pack.arg > Len(args)
    /\ sent' = "sent"
    /\ UNCHANGED <<heap, args, call, buff, pack, src, trail, receiver>>

-----------------------------------------------------------------------------
(* The receiver. *)

Receive ==
    /\ sent = "sent"
    /\ result = "none"
    /\ result' = "reading"
    /\ UNCHANGED <<sender, unpack, got, tables>>
OnServiceMsg == call # "Ret" /\ Receive
OnRetMsg == call = "Ret" /\ Receive

\* lua_settable: a float key with an integral value becomes an integer.
ToKey(k) == IF k[1] = "number" /\ k[2] % 2 = 0 THEN <<"integer", k[2] \div 2>> ELSE k
RawSet(entries, k, v) ==
    [x \in DOMAIN entries \union {ToKey(k)} |-> IF x = ToKey(k) THEN v ELSE entries[x]]

\* The call of UnpackValue for the table of this cell: the pairs left to read,
\* and the key that was read, in a sequence.
UnpackFrame(cell, pairs) == [table |-> cell, left |-> pairs, key |-> <<>>]

\* UnpackValue has pushed x and returns true to the call below, when there are
\* these others left.
Deliver(x, pos, stack) ==
    IF stack = <<>>
    THEN /\ got' = Append(got, x)
         /\ unpack' = [pos |-> pos, stack |-> stack]
         /\ UNCHANGED tables
    ELSE LET f == Last(stack)
             Become(g) == unpack' = [pos |-> pos, stack |-> Append(Front(stack), g)]
         IN  /\ IF f.key = <<>>
                THEN Become([f EXCEPT !.key = <<x>>]) /\ UNCHANGED tables
                ELSE /\ Become([f EXCEPT !.key = <<>>, !.left = @ - 1])
                     /\ tables' = [tables EXCEPT ![f.table] = RawSet(@, f.key[1], x)]
             /\ UNCHANGED got

ValueIsDue == IF unpack.stack = <<>> THEN Len(got) < buff.argc ELSE Last(unpack.stack).left > 0

\* OnServiceMsg ignores a message it cannot read; OnRetMsg resumes the caller
\* with nil and an error.
UnpackFails ==
    /\ result' = IF call = "Ret" THEN "broken" ELSE "ignore"
    /\ got' = <<>>
    /\ UNCHANGED <<sender, unpack, tables>>

UnpackValue ==
    /\ result = "reading"
    /\ ValueIsDue
    /\ IF unpack.pos > Len(buff.cells) THEN UnpackFails
       ELSE LET cell == buff.cells[unpack.pos]
            IN  /\ IF cell[1] # "table" THEN Deliver(cell, unpack.pos + 1, unpack.stack)
                   ELSE /\ tables' = [p \in DOMAIN tables \union {unpack.pos} |->
                                        IF p = unpack.pos THEN NoEntries ELSE tables[p]]
                        /\ unpack' = [pos |-> unpack.pos + 1,
                                      stack |-> Append(unpack.stack, UnpackFrame(unpack.pos, cell[2]))]
                        /\ UNCHANGED got
                /\ UNCHANGED <<sender, result>>

UnpackEnds ==
    /\ result = "reading"
    /\ unpack.stack # <<>>
    /\ Last(unpack.stack).left = 0
    /\ Deliver(<<"table", Last(unpack.stack).table>>, unpack.pos, Front(unpack.stack))
    /\ UNCHANGED <<sender, result>>

UnpackReturns ==
    /\ result = "reading"
    /\ unpack.stack = <<>>
    /\ Len(got) = buff.argc
    /\ result' = "handle"
    /\ UNCHANGED <<sender, unpack, got, tables>>

Next ==
    \/ \E t \in Tables, k \in Key, v \in Value : SetTable(t, k, v)
    \/ \E v \in Value : Push(v)
    \/ Send \/ Call \/ Ret
    \/ PackScalar \/ PackTable \/ EndOfTable \/ PackFails \/ PackReturns
    \/ OnServiceMsg \/ OnRetMsg
    \/ UnpackValue \/ UnpackEnds \/ UnpackReturns

Spec == Init /\ [][Next]_vars

-----------------------------------------------------------------------------
(* Properties. *)

\* The keys and the values of table t.
Parts(t) == DOMAIN heap[t] \union {heap[t][k] : k \in DOMAIN heap[t]}

\* What is inside the last of these tables, or what was pushed when there is none.
Inside(chain) == IF chain = <<>> THEN ToSet(args) ELSE Parts(Last(chain))

\* Tables of which the first was pushed and each is inside the one before it.
IsChain(chain) ==
    \A i \in DOMAIN chain : <<"table", chain[i]>> \in Inside(SubSeq(chain, 1, i - 1))

\* There is a value of another type within MaxDepth, or something inside a
\* chain of more tables than that, a cycle included.
Unpackable ==
    \E n \in 0 .. MaxDepth + 1 : \E chain \in [1 .. n -> Tables] :
        /\ IsChain(chain)
        /\ \E v \in Inside(chain) : n > MaxDepth \/ ~Supported(v)

\* A call fails for that and for nothing else, in whatever order lua_next finds
\* the keys (LuaApi.cpp:11-14, :66).
PackFailsOnlyForTypeOrDepth ==
    sent \in {"sent", "dropped", "error"} => (sent = "sent" <=> ~Unpackable)

\* The value x of the receiver is a copy of the value v of the sender when the
\* tables of the receiver are copies of the tables `of': scalars are equal,
\* numeric strings having become numbers.
IsCopy(of, x, v) ==
    IF v[1] = "table" THEN x[1] = "table" /\ x[2] \in DOMAIN of /\ of[x[2]] = v[2]
    ELSE x = Scalar(v)
SameKey(of, x, k) == IF k[1] = "table" THEN IsCopy(of, x, k) ELSE x = ToKey(Scalar(k))

\* These entries are the copies of the entries of t with the keys ks, up to
\* those that turn into the same number.
AreCopies(of, entries, t, ks) ==
    /\ \A k \in ks : \E x \in DOMAIN entries : SameKey(of, x, k)
    /\ \A x \in DOMAIN entries :
         \E k \in ks : SameKey(of, x, k) /\ IsCopy(of, entries[x], heap[t][k])
    /\ (\A k, l \in ks : k # l =>
           (k[1] = "table" \/ l[1] = "table" \/ ToKey(Scalar(k)) # ToKey(Scalar(l))))
          => Cardinality(DOMAIN entries) = Cardinality(ks)

\* Every message can be read, and a handler or the caller gets a copy of each
\* argument in its place; 2 ^ ArgBits arguments count as none
\* (LuaApi.cpp:190, Service.cpp:264-273).
ArgumentsArrive ==
    /\ result \notin {"ignore", "broken"}
    /\ result = "handle" =>
         /\ Len(got) = Len(args) % 2 ^ ArgBits
         /\ \E of \in [DOMAIN tables -> Tables] :
              /\ \A i \in 1 .. Len(got) : IsCopy(of, got[i], args[i])
              /\ \A p \in DOMAIN tables : AreCopies(of, tables[p], of[p], DOMAIN heap[of[p]])

-----------------------------------------------------------------------------
(* The inductive invariant. *)

AnyValue == Value \union Key
PackFrames == [table : Tables, cell : Nat, left : SUBSET Key, key : Key \union {Nil},
               at : {"next", "key", "value"}, pairs : Nat]
PackStates == [arg : Nat, stack : Seq(PackFrames), size : Nat]
Received == {Scalar(v) : v \in Keys \union Scalars} \union {"table"} \X Nat
UnpackStates == [pos : Nat, stack : Seq([table : Nat, left : Nat, key : Seq(Received)])]

\* The variables have the shapes the code gives them.
TypeOK ==
    /\ DOMAIN heap = Tables
    /\ \A t \in Tables : /\ heap[t] \in [DOMAIN heap[t] -> Value]
                         /\ DOMAIN heap[t] \subseteq Key
                         /\ IsFiniteSet(DOMAIN heap[t])
    /\ args \in Seq(Value)
    /\ call \in {"none", "Send", "Call", "Ret"}
    /\ sent \in {"none", "packing", "sent", "dropped", "error"}
    /\ result \in {"none", "reading", "handle", "ignore", "broken"}
    /\ pack \in PackStates
    /\ src \in Seq([value : AnyValue, depth : Nat])
    /\ trail \in Seq(PackStates)
    /\ unpack \in UnpackStates
    /\ got \in Seq(Received)
    /\ \A p \in DOMAIN tables : IsFiniteSet(DOMAIN tables[p])

IsTableCell(p) == src[p].value[1] = "table"

\* The keys that were written, and those of which the value was written too.
Begun(f) == DOMAIN heap[f.table] \ (f.left \union (IF f.at = "key" THEN {f.key} ELSE {}))
Done(f) == DOMAIN heap[f.table] \ (f.left \union (IF f.at = "next" THEN {} ELSE {f.key}))

\* The table of frame i is the argument or the key or value that frame i - 1 is at.
Holder(s, i) == IF i = 1 THEN args[s.arg] ELSE Item(s.stack[i - 1])

IsFrameOf(s, i) ==
    LET f == s.stack[i]
    IN  /\ f.left \subseteq DOMAIN heap[f.table]
        /\ f.at # "next" => f.key \in DOMAIN heap[f.table] \ f.left
        /\ f.pairs = Cardinality(Done(f))
        /\ f.cell \in 1 .. s.size
        /\ src[f.cell] = [value |-> <<"table", f.table>>, depth |-> i - 1]
        /\ Holder(s, i) = <<"table", f.table>>

IsPackState(s) ==
    /\ s.arg \in 1 .. Len(args) + 1
    /\ s.size <= Len(src)
    /\ s.stack # <<>> => s.arg <= Len(args)
    /\ \A i \in 1 .. Len(s.stack) :
         IsFrameOf(s, i) /\ s.stack[i].at # (IF i = Len(s.stack) THEN "key" ELSE "next")
    /\ \A i, j \in 1 .. Len(s.stack) : i < j => s.stack[i].cell < s.stack[j].cell

\* What PackValue does between two states.
IsPackStep(s, n) ==
    \/ \E x \in Calls(s) : /\ n.size = s.size + 1
                          /\ src[n.size].value = Current(x)
                          /\ n = IF Current(x)[1] = "table" THEN AfterTable(x) ELSE AfterScalar(x)
    \/ AtEnd(s) /\ n = AfterEnd(s)

Trail ==
    /\ trail # <<>>
    /\ trail[1] = [arg |-> 1, stack |-> <<>>, size |-> 0]
    /\ Last(trail) = pack
    /\ \A k \in 1 .. Len(trail) : IsPackState(trail[k])
    /\ \A k \in 1 .. Len(trail) - 1 : IsPackStep(trail[k], trail[k + 1])

Open(p) == \E i \in 1 .. Len(pack.stack) : pack.stack[i].cell = p

\* The cells are what they were written for; the count of a table is right once
\* it has ended.
Cell(p) == IF ~IsTableCell(p) THEN Scalar(src[p].value)
           ELSE <<"table", IF Open(p) THEN 0 ELSE Cardinality(DOMAIN heap[src[p].value[2]])>>
Cells ==
    /\ pack.size = Len(src)
    /\ buff = [argc |-> IF sent = "none" THEN 0 ELSE Argc(Len(args)),
               cells |-> [p \in 1 .. Len(src) |-> Cell(p)]]

\* A value was written at this depth.
Written(v, depth) == [value |-> v, depth |-> depth] \in ToSet(src)

\* What lies before the place where PackValue is, was written.
IsCovered(s) ==
    /\ \A i \in 1 .. s.arg - 1 : Written(args[i], 0)
    /\ \A i \in 1 .. Len(s.stack) :
         LET f == s.stack[i]
         IN  /\ \A k \in Begun(f) : Written(k, i)
             /\ \A k \in Done(f) : Written(heap[f.table][k], i)
Coverage ==
    /\ IsCovered(pack)
    /\ \A p \in 1 .. Len(src) :
         /\ src[p].depth <= MaxDepth
         /\ Supported(src[p].value)
         /\ IsTableCell(p) => \/ Open(p)
                              \/ \A v \in Parts(src[p].value[2]) : Written(v, src[p].depth + 1)

\* The call ends as it must, and before it nothing happens.
Outcome ==
    /\ sent = "none" => trail = <<pack>>
    /\ sent = "sent" => pack.stack = <<>> /\ pack.arg = Len(args) + 1
    /\ sent \in {"dropped", "error"} => Unpackable

\* The receiver is where pack was in state s, and its tables are copies of what
\* had been written then.
Origin == [p \in DOMAIN tables |-> src[p].value[2]]
IsAt(s) ==
    /\ unpack.pos = s.size + 1
    /\ Len(unpack.stack) = Len(s.stack)
    /\ Len(got) = s.arg - 1
    /\ DOMAIN tables = {p \in 1 .. s.size : IsTableCell(p)}
    /\ \A i \in 1 .. Len(got) : IsCopy(Origin, got[i], args[i])
    /\ \A i \in 1 .. Len(s.stack) :
         LET f == s.stack[i]
             u == unpack.stack[i]
         IN  /\ u = [table |-> f.cell,
                      left |-> Cardinality(f.left) + (IF f.at = "next" THEN 0 ELSE 1),
                      key |-> IF f.at = "value" THEN <<u.key[1]>> ELSE <<>>]
             /\ f.at = "value" => IsCopy(Origin, u.key[1], f.key)
             /\ AreCopies(Origin, tables[f.cell], f.table, Done(f))
    /\ \A p \in DOMAIN tables :
         \/ \E i \in 1 .. Len(s.stack) : s.stack[i].cell = p
         \/ AreCopies(Origin, tables[p], Origin[p], DOMAIN heap[Origin[p]])

Reading ==
    /\ result \in {"none", "reading", "handle"}
    /\ IF result = "none"
       THEN got = <<>> /\ tables = NoEntries /\ unpack = [pos |-> 1, stack |-> <<>>]
       ELSE sent = "sent" /\ \E k \in 1 .. Len(trail) : IsAt(trail[k])
    /\ result = "handle" => unpack.stack = <<>> /\ Len(got) = buff.argc

IInv ==
    /\ TypeOK
    /\ Trail
    /\ Cells
    /\ Coverage
    /\ Outcome
    /\ Reading
    /\ ArgumentsArrive
=============================================================================
