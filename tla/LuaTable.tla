------------------------------ MODULE LuaTable ------------------------------
(***************************************************************************)
(* One Lua table (src/3rd/lua-5.3.5/src/ltable.c): an array part and a     *)
(* hash part in which collisions are chained inside the vector of nodes    *)
(* (Brent's variation), with the resize of both, the search for a border   *)
(* and the traversal; and the references that luaL_ref keeps in a table    *)
(* (lauxlib.c), where the server keeps its coroutines.                     *)
(*                                                                         *)
(* A table is used in one of two ways, for ever: by a program or by        *)
(* luaL_ref.  `next' of a node is the number of the node, 0 for none.      *)
(* A key that the collector has marked dead keeps its address.             *)
(*                                                                         *)
(* A definition whose name ends in Slip is the one after it with a         *)
(* plausible programming slip; no specification uses it.                   *)
(***************************************************************************)
EXTENDS Integers, Sequences, FiniteSets, SequencesExt, FiniteSetsExt

CONSTANTS
    Integer,    \* the integer keys, 0 among them
    Floats,     \* the float keys, with the integer each is equal to, or Nil
    Strings,    \* the string keys, with their hashes
    Pointers,   \* the keys that the collector may free, with their addresses
    Values,     \* the values a program stores
    Referred,   \* the values that luaL_ref is given
    Nil,
    MaxInteger  \* LUA_MAXINTEGER

ASSUME LuaTableAssumption == 0 \in Integer /\ Integer \subseteq 0 .. MaxInteger

VARIABLES
    use,    \* "program" or "references"
    t,      \* the table
    key,    \* where the traversal is: the last key, Nil before it and without one
    seen,   \* the keys it has visited; Nil without one
    refs,   \* the references in use, with their values
    map     \* history: the value last assigned to each key

vars == <<use, t, key, seen, refs, map>>

ArgKeys == Integer \cup DOMAIN Floats \cup DOMAIN Strings \cup DOMAIN Pointers
Keys == ArgKeys \ {f \in DOMAIN Floats : Floats[f] # Nil}

EmptyNode == [key |-> Nil, dead |-> FALSE, val |-> Nil, next |-> 0]
Vector(size) == [i \in 1 .. size |-> EmptyNode]

\* The hash part has the dummy node when `node' is empty.
NewTable == [array |-> <<>>, node |-> <<>>, lastfree |-> 0]
SizeArray(tab) == Len(tab.array)
SizeNode(tab) == Len(tab.node)
IsDummy(tab) == tab.node = <<>>

-----------------------------------------------------------------------------
(* Search. *)

\* hashint and hashstr take the remainder by the size, hashmod and hashpointer
\* the one by the size less one.
MainPosition(tab, k) ==
    1 + IF k \in Integer THEN k % SizeNode(tab)
        ELSE IF k \in DOMAIN Strings THEN Strings[k] % SizeNode(tab)
        ELSE (IF k \in DOMAIN Pointers THEN Pointers[k] ELSE 0) % Max({1, SizeNode(tab) - 1})

InArray(tab, k) == k \in Integer /\ 1 <= k /\ k <= SizeArray(tab)

\* The first node on the chain from i with key k, which may have to be alive; or 0.
RECURSIVE FindKey(_, _, _, _)
FindKey(tab, i, k, alive) ==
    IF i = 0 THEN 0
    ELSE IF tab.node[i].key = k /\ ~(alive /\ tab.node[i].dead) THEN i
    ELSE FindKey(tab, tab.node[i].next, k, alive)
OnChain(tab, k, alive) == IF IsDummy(tab) THEN 0 ELSE FindKey(tab, MainPosition(tab, k), k, alive)
Holder(tab, k) == OnChain(tab, k, TRUE)
Has(tab, k) == Holder(tab, k) # 0

\* luaV_tointeger of a float key.
Normal(k) == IF k \in DOMAIN Floats /\ Floats[k] # Nil THEN Floats[k] ELSE k

Get(tab, k) ==
    IF InArray(tab, k) THEN tab.array[k]
    ELSE IF Has(tab, k) THEN tab.node[Holder(tab, k)].val ELSE Nil

-----------------------------------------------------------------------------
(* Insertion.                                                              *)

Put(tab, k, v) ==
    IF InArray(tab, k) THEN [tab EXCEPT !.array[k] = v]
    ELSE [tab EXCEPT !.node[Holder(tab, k)].val = v]

\* getfreepos goes down from lastfree; what it has passed it does not see again.
FreePos(tab) ==
    {i \in 1 .. tab.lastfree - 1 : /\ tab.node[i].key = Nil
                                   /\ \A j \in i + 1 .. tab.lastfree - 1 : tab.node[j].key # Nil}

RECURSIVE Before(_, _, _)
Before(tab, i, mp) == IF tab.node[i].next = mp THEN i ELSE Before(tab, tab.node[i].next, mp)
\* The node at mp is not in its main position: it moves to f, and the one before
\* it on its chain leads there.
MoveOut(tab, mp, f) ==
    LET before == Before(tab, MainPosition(tab, tab.node[mp].key), mp)
    IN  [tab EXCEPT !.node[before].next = f,
                    !.node[f] = tab.node[mp],
                    !.node[mp].val = Nil,
                    !.node[mp].next = 0]

\* The keys that the new sizes are computed from: those with values, and k.
CountSlice(ints, i) == Cardinality({k \in ints : k <= 2 ^ i /\ (i = 0 \/ k > 2 ^ (i - 1))})
CountUpTo(ints, i) == Cardinality({k \in ints : k <= 2 ^ i})
ComputeSize(ints) ==
    Max({0} \cup {2 ^ i : i \in {i \in 0 .. MaxInteger :
                                   CountSlice(ints, i) > 0 /\ 2 * CountUpTo(ints, i) > 2 ^ i}})
InUse(tab) ==
    {i \in 1 .. SizeArray(tab) : tab.array[i] # Nil}
      \cup {tab.node[i].key : i \in {i \in 1 .. SizeNode(tab) : tab.node[i].val # Nil}}
CeilPow2(n) == IF n = 0 THEN 0 ELSE Min({2 ^ i : i \in {i \in 0 .. n : 2 ^ i >= n}})

RECURSIVE Set(_, _, _), NewKey(_, _, _), Reinsert(_, _)
Set(tab, k, v) == IF InArray(tab, k) \/ Has(tab, k) THEN Put(tab, k, v)
                  ELSE NewKey(tab, k, v)

\* luaH_resize: what falls out of the array from the bottom up, then the nodes
\* from the top down.
Resize(tab, nasize, nhsize) ==
    Reinsert([array    |-> [i \in 1 .. nasize |-> IF i \in DOMAIN tab.array THEN tab.array[i] ELSE Nil],
              node     |-> Vector(CeilPow2(nhsize)),
              lastfree |-> CeilPow2(nhsize) + 1],
             [i \in 1 .. Max({0, SizeArray(tab) - nasize}) |->
                  <<nasize + i, tab.array[nasize + i]>>]
             \o [i \in 1 .. SizeNode(tab) |->
                  <<tab.node[SizeNode(tab) + 1 - i].key, tab.node[SizeNode(tab) + 1 - i].val>>])
Reinsert(tab, entries) ==
    IF entries = <<>> THEN tab
    ELSE IF Head(entries)[2] = Nil THEN Reinsert(tab, Tail(entries))
    ELSE Reinsert(Set(tab, Head(entries)[1], Head(entries)[2]), Tail(entries))

Rehash(tab, k) ==
    LET all  == InUse(tab) \cup {k}
        ints == all \cap (Integer \ {0})
        size == ComputeSize(ints)
    IN  Resize(tab, size, Cardinality(all) - Cardinality({i \in ints : i <= size}))

SetNode(tab, i, k, v) == [tab EXCEPT !.node[i].key = k, !.node[i].dead = FALSE, !.node[i].val = v]

\* The slip: the new node does not lead on to the rest of the chain.
ChainInSlip(tab, mp, f) == [tab EXCEPT !.node[mp].next = f]
\* The new node goes to f, second on the chain of mp.
ChainIn(tab, mp, f) == [tab EXCEPT !.node[f].next = tab.node[mp].next, !.node[mp].next = f]

\* luaH_newkey of a key that is not on its chain, and the assignment.
Collide(tab, k, v, mp, f) ==
    IF MainPosition(tab, tab.node[mp].key) # mp
    THEN SetNode(MoveOut(tab, mp, f), mp, k, v)
    ELSE SetNode(ChainIn(tab, mp, f), f, k, v)
NewKey(tab, k, v) ==
    IF ~IsDummy(tab) /\ tab.node[MainPosition(tab, k)].val = Nil
    THEN SetNode(tab, MainPosition(tab, k), k, v)
    ELSE IF FreePos(tab) = {} THEN Set(Rehash(tab, k), k, v)
    ELSE Collide([tab EXCEPT !.lastfree = Max(FreePos(tab))], k, v,
                 MainPosition(tab, k), Max(FreePos(tab)))

-----------------------------------------------------------------------------
(* The length. *)

RECURSIVE BinarySearch(_, _, _), Unbound(_, _, _)
\* i is present or 0, j is not.
BinarySearch(tab, i, j) ==
    IF j - i <= 1 THEN i
    ELSE IF Get(tab, (i + j) \div 2) = Nil THEN BinarySearch(tab, i, (i + j) \div 2)
    ELSE BinarySearch(tab, (i + j) \div 2, j)
Linear(tab) == CHOOSE i \in 0 .. MaxInteger : /\ \A j \in 1 .. i : Get(tab, j) # Nil
                                              /\ Get(tab, i + 1) = Nil
Unbound(tab, i, j) ==
    IF Get(tab, j) = Nil THEN BinarySearch(tab, i, j)
    ELSE IF j > MaxInteger \div 2 THEN Linear(tab)
    ELSE Unbound(tab, j, 2 * j)

Getn(tab) ==
    LET j == SizeArray(tab)
    IN  IF j > 0 /\ tab.array[j] = Nil THEN BinarySearch(tab, 0, j)
        ELSE IF IsDummy(tab) THEN j
        ELSE Unbound(tab, j, j + 1)

-----------------------------------------------------------------------------
(* The traversal. *)

NotFound == -1
FindIndex(tab, k) ==
    IF k = Nil THEN 0
    ELSE IF InArray(tab, k) THEN k
    ELSE IF OnChain(tab, k, FALSE) = 0 THEN NotFound
    ELSE SizeArray(tab) + OnChain(tab, k, FALSE)

Entry(tab, i) ==
    IF i <= SizeArray(tab) THEN <<i, tab.array[i]>>
    ELSE <<tab.node[i - SizeArray(tab)].key, tab.node[i - SizeArray(tab)].val>>
\* luaH_next: the positions after k that have a value.
Following(tab, k) ==
    {i \in FindIndex(tab, k) + 1 .. SizeArray(tab) + SizeNode(tab) : Entry(tab, i)[2] # Nil}

-----------------------------------------------------------------------------
(* The operations. *)

Init ==
    /\ use \in {"program", "references"}
    /\ t = NewTable
    /\ key = Nil /\ seen = Nil
    /\ refs = [r \in {} |-> Nil]
    /\ map = [k \in Keys |-> Nil]

Map(tab) == [k \in Keys |-> Get(tab, k)]

\* lua_settable and lua_rawset: a key is inserted for nil, too.
Assign(k, v) ==
    /\ use = "program"
    /\ seen # Nil => Get(t, Normal(k)) # Nil
    /\ t' = Set(t, Normal(k), v)
    /\ map' = [map EXCEPT ![Normal(k)] = v]
    /\ UNCHANGED <<use, key, seen, refs>>

\* removeentry of lgc.c: a key that is nowhere else may be freed.
Collect(p) ==
    /\ Has(t, p)
    /\ Get(t, p) = Nil
    /\ t' = [t EXCEPT !.node[Holder(t, p)].dead = TRUE]
    /\ UNCHANGED <<use, key, seen, refs, map>>

Begin ==
    /\ use = "program"
    /\ seen = Nil
    /\ key' = Nil /\ seen' = {}
    /\ UNCHANGED <<use, t, refs, map>>

Next1 ==
    /\ seen # Nil
    /\ FindIndex(t, key) # NotFound
    /\ IF Following(t, key) = {} THEN key' = Nil /\ seen' = Nil
       ELSE /\ key' = Entry(t, Min(Following(t, key)))[1]
            /\ seen' = seen \cup {key'}
    /\ UNCHANGED <<use, t, refs, map>>

\* The index `freelist' is 0; a list that is empty has nil or 0 there.
FreeRef == IF Get(t, 0) = Nil THEN 0 ELSE Get(t, 0)

\* The slip: the reference stays on the free list.
TakeRefSlip(ref) == t
TakeRef(ref) == Set(t, 0, Get(t, ref))
Ref(v) ==
    /\ use = "references"
    /\ LET ref == IF FreeRef # 0 THEN FreeRef ELSE Getn(t) + 1
       IN  /\ ref \in Integer
           /\ t' = Set(IF FreeRef # 0 THEN TakeRef(ref) ELSE t, ref, v)
           /\ refs' = [r \in DOMAIN refs \cup {ref} |-> IF r = ref THEN v ELSE refs[r]]
    /\ map' = Map(t')
    /\ UNCHANGED <<use, key, seen>>

Unref(ref) ==
    /\ use = "references"
    /\ t' = Set(Set(t, ref, Get(t, 0)), 0, ref)
    /\ refs' = [r \in DOMAIN refs \ {ref} |-> refs[r]]
    /\ map' = Map(t')
    /\ UNCHANGED <<use, key, seen>>

Next ==
    \/ \E k \in ArgKeys, v \in Values \cup {Nil} : Assign(k, v)
    \/ \E p \in DOMAIN Pointers : Collect(p)
    \/ Begin
    \/ Next1
    \/ \E v \in Referred : Ref(v)
    \/ \E ref \in DOMAIN refs : Unref(ref)

Spec == Init /\ [][Next]_vars

-----------------------------------------------------------------------------
(* Properties. *)

\* A table is a map, its traversal visits each field once whatever is changed or
\* cleared or collected on the way, and no reference is given out twice
\* (luaH_get, luaH_newkey, luaH_resize, luaH_next, luaL_ref).
LuaMap == INSTANCE LuaMap WITH Values <- Values \cup Referred \cup Integer
ImplementsMap == LuaMap!Spec
IsTheMap == Map(t) = map

\* The length is a border, and a traversal never fails to find its key.
LengthIsBorder ==
    /\ Getn(t) > 0 => Get(t, Getn(t)) # Nil
    /\ Getn(t) < MaxInteger => Get(t, Getn(t) + 1) = Nil
    /\ seen # Nil => FindIndex(t, key) # NotFound

\* The two parts of the table, its chains and the ghost map say the same.
Inv == IsTheMap /\ LengthIsBorder
=============================================================================
