------------------------------ MODULE LuaTabLib ------------------------------
(***************************************************************************)
(* The table library (src/3rd/lua-5.3.5/src/ltablib.c) on tables without   *)
(* metatables.  A table is a function from the integers, Nil where it has  *)
(* nothing; n is its length, which is one of its borders.                  *)
(*                                                                         *)
(* A definition whose name ends in Slip is the one after it with a         *)
(* plausible programming slip; no specification uses it.                    *)
(***************************************************************************)
EXTENDS Integers, Sequences, FiniteSetsExt, SequencesExt, TLC

CONSTANTS
    MaxInteger, \* LUA_MAXINTEGER
    IntMax,     \* INT_MAX
    MaxStack,   \* what lua_checkstack grants
    RanLimit,   \* RANLIMIT
    Imbalance   \* the 128 of auxsort

Nil == "nil"
Integers64 == -MaxInteger - 1 .. MaxInteger
Wrap(i) == ((i + MaxInteger + 1) % (2 * MaxInteger + 2)) - MaxInteger - 1
Unsigned(i) == i % (2 * MaxInteger + 2)

Get(t, i) == IF i \in DOMAIN t THEN t[i] ELSE Nil
Set(t, i, v) == (i :> v) @@ t
TableOf(seq) == [i \in DOMAIN seq |-> seq[i]]
Failure(why) == [error |-> why]

-----------------------------------------------------------------------------
(* insert, remove, move, concat, pack and unpack. *)

\* t[i] = t[i + by] for the indexes of a sequence, one after the other.
Copy(t, is, by) == FoldLeft(LAMBDA u, i : Set(u, i, Get(u, i + by)), t, is)
Up(i, j) == [k \in 1 .. j - i + 1 |-> i + k - 1]
Down(i, j) == [k \in 1 .. i - j + 1 |-> i - k + 1]

TInsert(t, n, pos, v) ==
    IF pos \notin 1 .. n + 1 THEN Failure("position out of bounds")
    ELSE [error |-> "", t |-> Set(Copy(t, Down(n + 1, pos + 1), -1), pos, v)]

TRemove(t, n, pos) ==
    IF pos # n /\ pos \notin 1 .. n + 1 THEN Failure("position out of bounds")
    ELSE [error |-> "", v |-> Get(t, pos),
          t |-> Set(Copy(t, Up(pos, n - 1), 1), IF pos < n THEN n ELSE pos, Nil)]

\* tmove within one table
Forward(f, e, t) == t > e \/ t <= f
TMove(a, f, e, t) ==
    LET n == e - f + 1
    IN  CASE e < f                                 -> [error |-> "", t |-> a]
          [] ~(f > 0 \/ e < MaxInteger + f)        -> Failure("too many elements to move")
          [] ~(t <= MaxInteger - n + 1)            -> Failure("destination wrap around")
          [] OTHER -> [error |-> "",
                       t |-> Copy(a, IF Forward(f, e, t) THEN Up(t, t + n - 1) ELSE Down(t + n - 1, t), f - t)]

\* tconcat, from index i on; the counter never passes the last index.
RECURSIVE ConcatFrom(_, _, _, _, _)
ConcatFrom(t, sep, i, last, text) ==
    CASE i > last            -> [error |-> "", text |-> text]
      [] Get(t, i) = Nil     -> Failure("invalid value")
      [] i = last            -> [error |-> "", text |-> Append(text, Get(t, i))]
      [] OTHER               -> ConcatFrom(t, sep, Wrap(i + 1), last, text \o <<Get(t, i), sep>>)
TConcat(t, sep, i, last) == ConcatFrom(t, sep, i, last, <<>>)

\* pack, from the last argument down; unpack: one less than the number of results is
\* an unsigned difference.
Pack(args) == [n |-> Len(args), t |-> FoldLeft(LAMBDA t, i : Set(t, i, args[i]), <<>>, Down(Len(args), 1))]
Unpack(t, i, e) ==
    LET n == Unsigned(e - i)
    IN  IF i > e THEN [error |-> "", vals |-> <<>>]
        ELSE IF n >= IntMax \/ n + 1 > MaxStack THEN Failure("too many results to unpack")
        ELSE [error |-> "", vals |-> [k \in 1 .. n + 1 |-> Get(t, i + k - 1)]]

-----------------------------------------------------------------------------
(* sort: the order is a relation, any one that a function of the program may *)
(* compute.                                                                  *)

Less(rel, x, y) == <<x, y>> \in rel
\* set2 with both values
Swap(t, i, j) == Set(Set(t, i, Get(t, j)), j, Get(t, i))
SwapIf(t, rel, i, j) == IF Less(rel, Get(t, i), Get(t, j)) THEN Swap(t, i, j) ELSE t
InvalidOrder == "invalid order function for sorting"

\* partition: where ++i and --j may stop; the slip: ++i relies on the pivot to stop.
StopsUpSlip(t, rel, P, i, up) == {k \in i + 1 .. up + 1 : ~Less(rel, Get(t, k), P)}
StopsUp(t, rel, P, i, up) == {k \in i + 1 .. up - 1 : ~Less(rel, Get(t, k), P)}
StopsDown(t, rel, P, i, j) == {k \in Min({i - 1, j - 1}) .. j - 1 : ~Less(rel, P, Get(t, k))}
RECURSIVE PartitionFrom(_, _, _, _, _)
PartitionFrom(t, rel, i, j, up) ==
    LET P == Get(t, up - 1)
        ups == StopsUp(t, rel, P, i, up)
        downs == StopsDown(t, rel, P, Min(ups), j)
    IN  IF ups = {} THEN [t |-> t, i |-> i, error |-> InvalidOrder]
        ELSE IF downs = {} THEN [t |-> t, i |-> i, error |-> InvalidOrder]
        ELSE IF Max(downs) < Min(ups) THEN [t |-> Swap(t, up - 1, Min(ups)), i |-> Min(ups), error |-> ""]
        ELSE PartitionFrom(Swap(t, Min(ups), Max(downs)), rel, Min(ups), Max(downs), up)
Partition(t, rel, lo, up) == PartitionFrom(t, rel, lo, up - 1, up)

\* choosePivot
ChoosePivot(lo, up, rnd) == LET r4 == (up - lo) \div 4 IN (rnd % (r4 * 2)) + lo + r4
Pivot(lo, up, rnd) == IF up - lo < RanLimit \/ rnd = 0 THEN (lo + up) \div 2 ELSE ChoosePivot(lo, up, rnd)

\* The elements lo, p and up of auxsort in order.
Three(t, rel, lo, p, up) ==
    IF Less(rel, Get(t, p), Get(t, lo)) THEN Swap(t, p, lo) ELSE SwapIf(t, rel, up, p)

\* auxsort; clock is what l_randomizePivot gives.
RECURSIVE AuxSort(_, _, _, _, _, _)
AuxSort(t, rel, lo, up, rnd, clock) ==
    LET p == Pivot(lo, up, rnd)
        two == SwapIf(t, rel, up, lo)
        three == Three(two, rel, lo, p, up)
        part == Partition(Swap(three, p, up - 1), rel, lo, up)
        q == part.i
        lower == q - lo < up - q
        small == IF lower THEN AuxSort(part.t, rel, lo, q - 1, rnd, clock)
                 ELSE AuxSort(part.t, rel, q + 1, up, rnd, clock)
        n == IF lower THEN q - lo ELSE up - q
        newlo == IF lower THEN q + 1 ELSE lo
        newup == IF lower THEN up ELSE q - 1
        again == IF (newup - newlo) \div Imbalance > n THEN clock ELSE rnd
    IN  CASE lo >= up                          -> [t |-> t, error |-> ""]
          [] up - lo = 1                       -> [t |-> two, error |-> ""]
          [] up - lo = 2                       -> [t |-> three, error |-> ""]
          [] up - lo > 2 /\ part.error # ""    -> [t |-> part.t, error |-> part.error]
          [] up - lo > 2 /\ part.error = ""    ->
               IF small.error # "" THEN small ELSE AuxSort(small.t, rel, newlo, newup, again, clock)

Sort(seq, rel, clock) == AuxSort(TableOf(seq), rel, 1, Len(seq), 0, clock)
=============================================================================
