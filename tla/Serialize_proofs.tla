--------------------------- MODULE Serialize_proofs ---------------------------
EXTENDS Serialize, TLAPS, FiniteSetTheorems, WellFoundedInduction

USE SerializeAssumption DEF SerializeAssumption

-----------------------------------------------------------------------------
(* Sequences used as stacks. *)

LEMMA FrontLemma ==
  ASSUME NEW S, NEW s \in Seq(S), s # <<>>
  PROVE  /\ Last(s) = s[Len(s)] /\ Last(s) \in S
         /\ Front(s) \in Seq(S) /\ Len(Front(s)) = Len(s) - 1
         /\ Len(s) \in Nat \ {0}
         /\ \A i \in 1 .. Len(s) - 1 : Front(s)[i] = s[i]
<1>1. Len(s) \in Nat \ {0}
  OBVIOUS
<1>2. Last(s) = s[Len(s)] /\ Last(s) \in S
  BY <1>1 DEF Last
<1>3. Front(s) \in Seq(S) /\ Len(Front(s)) = Len(s) - 1
  <2>1. Front(s) = [i \in 1 .. Len(s) - 1 |-> s[i]]
    BY <1>1 DEF Front
  <2>2. \A i \in 1 .. Len(s) - 1 : s[i] \in S
    BY <1>1
  <2>3. Len(s) - 1 \in Nat
    BY <1>1
  <2> HIDE DEF Front
  <2> QED
    BY <2>1, <2>2, <2>3
<1>4. \A i \in 1 .. Len(s) - 1 : Front(s)[i] = s[i]
  BY <1>1 DEF Front
<1> QED
  BY <1>1, <1>2, <1>3, <1>4

LEMMA AppendLemma ==
  ASSUME NEW S, NEW s \in Seq(S), NEW x \in S
  PROVE  /\ Append(s, x) \in Seq(S) /\ Append(s, x) # <<>>
         /\ Len(s) \in Nat /\ Len(Append(s, x)) = Len(s) + 1
         /\ \A i \in 1 .. Len(s) : Append(s, x)[i] = s[i]
         /\ Append(s, x)[Len(s) + 1] = x /\ Last(Append(s, x)) = x
BY DEF Last

LEMMA ElementLemma ==
  \A S : \A s \in Seq(S) : \A i \in 1 .. Len(s) : s[i] \in S
OBVIOUS

LEMMA SingletonLemma ==
  \A S : \A x \in S : <<x>> \in Seq(S)
OBVIOUS

LEMMA Predecessor ==
  \A n \in Nat \ {0} : n # 1 => n - 1 \in 1 .. n - 1
OBVIOUS

(* The last element is replaced by another. *)
LEMMA ReplaceLemma ==
  ASSUME NEW S, NEW s \in Seq(S), s # <<>>, NEW x \in S
  PROVE  /\ Append(Front(s), x) \in Seq(S) /\ Append(Front(s), x) # <<>>
         /\ Len(Append(Front(s), x)) = Len(s)
         /\ \A i \in 1 .. Len(s) - 1 : Append(Front(s), x)[i] = s[i]
         /\ Append(Front(s), x)[Len(s)] = x /\ Last(Append(Front(s), x)) = x
<1>1. Front(s) \in Seq(S) /\ Len(Front(s)) + 1 = Len(s) /\ Len(s) - 1 = Len(Front(s))
  BY FrontLemma
<1>2. \A i \in 1 .. Len(s) - 1 : Front(s)[i] = s[i]
  BY FrontLemma
<1> QED
  BY <1>1, <1>2, AppendLemma

-----------------------------------------------------------------------------
(* Values. *)

LEMMA TableValues ==
  ASSUME NEW v \in AnyValue
  PROVE  v[1] = "table" => v \in TableValue /\ v[2] \in Tables /\ v = <<"table", v[2]>>
BY DEF AnyValue, Value, Key, TableValue

LEMMA ScalarValues ==
  ASSUME NEW v \in AnyValue, v[1] # "table"
  PROVE  /\ Scalar(v)[1] # "table"
         /\ ToKey(Scalar(v))[1] # "table"
         /\ Scalar(v) = <<Scalar(v)[1], Scalar(v)[2]>>
BY DEF AnyValue, Value, Key, TableValue, Scalar, ToKey

-----------------------------------------------------------------------------
(* The states of PackValue. *)

(* A state in which PackValue is called for the value it is at. *)
InCall(s) ==
    /\ s \in PackStates
    /\ s.arg \in 1 .. Len(args)
    /\ s.size <= Len(src)
    /\ \A i \in 1 .. Len(s.stack) : IsFrameOf(s, i) /\ s.stack[i].at # "next"
    /\ \A i, j \in 1 .. Len(s.stack) : i < j => s.stack[i].cell < s.stack[j].cell

LEMMA FrameFields ==
  ASSUME NEW f \in PackFrames
  PROVE  /\ Advance(f) \in PackFrames
         /\ Advance(f).table = f.table /\ Advance(f).cell = f.cell
         /\ Advance(f).left = f.left /\ Advance(f).key = f.key
         /\ f.at = "key" => Advance(f).at = "value" /\ Advance(f).pairs = f.pairs
         /\ f.at # "key" => Advance(f).at = "next" /\ Advance(f).pairs = f.pairs + 1
         /\ \A k \in f.left : /\ NextKey(f, k) \in PackFrames
                             /\ NextKey(f, k).table = f.table /\ NextKey(f, k).cell = f.cell
                             /\ NextKey(f, k).left = f.left \ {k} /\ NextKey(f, k).key = k
                             /\ NextKey(f, k).at = "key" /\ NextKey(f, k).pairs = f.pairs
<1>1. CASE f.at = "key"
  <2>1. Advance(f) = [f EXCEPT !.at = "value"]
    BY <1>1 DEF Advance
  <2>2. \A k \in f.left : k \in Key
    BY DEF PackFrames
  <2> QED
    BY <1>1, <2>1, <2>2 DEF PackFrames, NextKey
<1>2. CASE f.at # "key"
  <2>1. Advance(f) = [f EXCEPT !.at = "next", !.pairs = f.pairs + 1]
    BY <1>2 DEF Advance
  <2>2. \A k \in f.left : k \in Key
    BY DEF PackFrames
  <2>3. f.pairs + 1 \in Nat
    BY DEF PackFrames
  <2> QED
    BY <1>2, <2>1, <2>2, <2>3 DEF PackFrames, NextKey
<1> QED
  BY <1>1, <1>2

(* lua_next takes the next key, or PackValue goes on with the value. *)
LEMMA CallsLemma ==
  ASSUME NEW s \in PackStates, NEW x \in Calls(s)
  PROVE  /\ x \in PackStates
         /\ x.arg = s.arg /\ x.size = s.size /\ Len(x.stack) = Len(s.stack)
         /\ s.stack = <<>> => x = s /\ s.arg <= Len(args)
         /\ s.stack # <<>> =>
              /\ x.stack # <<>>
              /\ \A i \in 1 .. Len(s.stack) - 1 : x.stack[i] = s.stack[i]
              /\ \/ Last(s.stack).at = "value" /\ x = s
                 \/ /\ Last(s.stack).at # "value"
                    /\ \E k \in Last(s.stack).left : Last(x.stack) = NextKey(Last(s.stack), k)
<1>1. CASE s.stack = <<>>
  BY <1>1 DEF Calls
<1>2. CASE s.stack # <<>> /\ Last(s.stack).at = "value"
  BY <1>2 DEF Calls, PackStates
<1>3. CASE s.stack # <<>> /\ Last(s.stack).at # "value"
  <2> DEFINE f == Last(s.stack)
  <2>1. PICK k \in f.left : x = [s EXCEPT !.stack = Append(Front(s.stack), NextKey(f, k))]
    BY <1>3 DEF Calls
  <2>2. f \in PackFrames /\ s.stack \in Seq(PackFrames)
    BY <1>3, FrontLemma DEF PackStates
  <2>3. NextKey(f, k) \in PackFrames
    BY <2>2 DEF PackFrames, NextKey
  <2>4. x.stack = Append(Front(s.stack), NextKey(f, k)) /\ x.arg = s.arg /\ x.size = s.size
    BY <2>1 DEF PackStates
  <2>5. /\ x.stack \in Seq(PackFrames) /\ x.stack # <<>> /\ Len(x.stack) = Len(s.stack)
        /\ \A i \in 1 .. Len(s.stack) - 1 : x.stack[i] = s.stack[i]
        /\ Last(x.stack) = NextKey(f, k)
    BY <2>2, <2>3, <2>4, <1>3, ReplaceLemma
  <2>6. x \in PackStates
    BY <2>1, <2>4, <2>5 DEF PackStates
  <2> QED
    BY <1>3, <2>4, <2>5, <2>6
<1> QED
  BY <1>1, <1>2, <1>3

(* PackValue returns to the frame below or to the arguments. *)
LEMMA ReturnLemma ==
  ASSUME NEW s \in PackStates
  PROVE  /\ Return(s) \in PackStates
         /\ Return(s).size = s.size /\ Len(Return(s).stack) = Len(s.stack)
         /\ s.stack = <<>> => Return(s).arg = s.arg + 1 /\ Return(s).stack = <<>>
         /\ s.stack # <<>> =>
              /\ Return(s).arg = s.arg /\ Return(s).stack # <<>>
              /\ \A i \in 1 .. Len(s.stack) - 1 : Return(s).stack[i] = s.stack[i]
              /\ Last(Return(s).stack) = Advance(Last(s.stack))
<1>1. CASE s.stack = <<>>
  BY <1>1 DEF Return, PackStates
<1>2. CASE s.stack # <<>>
  <2> DEFINE f == Last(s.stack)
  <2>1. f \in PackFrames /\ s.stack \in Seq(PackFrames)
    BY <1>2, FrontLemma DEF PackStates
  <2>2. Advance(f) \in PackFrames
    BY <2>1, FrameFields
  <2>3. Return(s) = [s EXCEPT !.stack = Append(Front(s.stack), Advance(f))]
    BY <1>2 DEF Return
  <2>4. /\ Return(s).stack = Append(Front(s.stack), Advance(f))
        /\ Return(s).arg = s.arg /\ Return(s).size = s.size
    BY <2>3 DEF PackStates
  <2>5. /\ Return(s).stack \in Seq(PackFrames) /\ Return(s).stack # <<>>
        /\ Len(Return(s).stack) = Len(s.stack)
        /\ \A i \in 1 .. Len(s.stack) - 1 : Return(s).stack[i] = s.stack[i]
        /\ Last(Return(s).stack) = Advance(f)
    BY <2>1, <2>2, <2>4, <1>2, ReplaceLemma
  <2>6. Return(s) \in PackStates
    BY <2>3, <2>4, <2>5 DEF PackStates
  <2> QED
    BY <1>2, <2>4, <2>5, <2>6
<1> QED
  BY <1>1, <1>2

(* A frame depends on the frames below it only. *)
LEMMA FrameSame ==
  ASSUME NEW s \in PackStates, NEW r \in PackStates, NEW i \in 1 .. Len(s.stack),
         Len(r.stack) >= i, r.arg = s.arg, s.size <= r.size,
         \A j \in 1 .. i : r.stack[j] = s.stack[j],
         IsFrameOf(s, i)
  PROVE  IsFrameOf(r, i)
<1>1. r.stack[i] = s.stack[i] /\ (i # 1 => r.stack[i - 1] = s.stack[i - 1])
  OBVIOUS
<1>2. Holder(r, i) = Holder(s, i)
  BY <1>1 DEF Holder
<1>3. s.size \in Nat /\ r.size \in Nat
  BY DEF PackStates
<1> QED
  BY <1>1, <1>2, <1>3 DEF IsFrameOf

(* The next key or value is taken in a well-formed state. *)
LEMMA CallsInCall ==
  ASSUME NEW s \in PackStates, IsPackState(s), NEW x \in Calls(s)
  PROVE  InCall(x)
<1>1. CASE s.stack = <<>>
  BY <1>1, CallsLemma DEF InCall, IsPackState, PackStates
<1>2. CASE s.stack # <<>>
  <2> DEFINE n == Len(s.stack)
             f == s.stack[n]
  <2>1. n \in Nat \ {0} /\ f \in PackFrames /\ f = Last(s.stack)
    BY <1>2, FrontLemma, ZenonT(60) DEF PackStates
  <2>2. /\ x \in PackStates /\ x.arg = s.arg /\ x.size = s.size /\ Len(x.stack) = n
        /\ x.stack # <<>> /\ \A i \in 1 .. n - 1 : x.stack[i] = s.stack[i]
    BY <1>2, CallsLemma
  <2>3. Last(x.stack) = x.stack[n]
    BY <2>2, FrontLemma, ZenonT(60) DEF PackStates
  <2>4. IsFrameOf(s, n) /\ f.at # "key"
    BY <2>1, SMTT(30) DEF IsPackState
  <2>5. \/ f.at = "value" /\ x = s
        \/ f.at = "next" /\ \E k \in f.left : x.stack[n] = NextKey(f, k)
    <3>1. \/ f.at = "value" /\ x = s
          \/ f.at # "value" /\ \E k \in f.left : x.stack[n] = NextKey(f, k)
      BY <1>2, <2>1, <2>3, CallsLemma
    <3> QED
      BY <3>1, <2>1, <2>4 DEF PackFrames
  <2>6. ASSUME NEW i \in 1 .. n - 1  PROVE  IsFrameOf(x, i) /\ x.stack[i].at # "next"
    <3>1. IsFrameOf(s, i) /\ s.stack[i].at # "next"
      BY <2>1 DEF IsPackState
    <3>2. i \in 1 .. n /\ \A j \in 1 .. i : x.stack[j] = s.stack[j]
      BY <2>1, <2>2
    <3>3. x.size = s.size /\ s.size \in Nat /\ Len(x.stack) >= i
      BY <2>1, <2>2 DEF PackStates
    <3> QED
      BY <3>1, <3>2, <3>3, <2>2, FrameSame
  <2>7. IsFrameOf(x, n) /\ x.stack[n].at # "next" /\ x.stack[n].cell = f.cell
    <3>1. CASE f.at = "value" /\ x = s
      BY <3>1, <2>4
    <3>2. CASE f.at = "next" /\ \E k \in f.left : x.stack[n] = NextKey(f, k)
      <4>1. PICK k \in f.left : x.stack[n] = NextKey(f, k)
        BY <3>2
      <4> DEFINE g == x.stack[n]
      <4>2. /\ g.table = f.table /\ g.cell = f.cell /\ g.left = f.left \ {k} /\ g.key = k
            /\ g.at = "key" /\ g.pairs = f.pairs
        BY <4>1, <2>1, FrameFields
      <4>3. Done(g) = Done(f)
        BY <4>2, <3>2, <2>4 DEF Done, IsFrameOf
      <4>4. Holder(x, n) = Holder(s, n)
        <5>1. n # 1 => n - 1 \in 1 .. n - 1
          BY <2>1, Predecessor
        <5>2. n # 1 => x.stack[n - 1] = s.stack[n - 1]
          BY <5>1, <2>2
        <5> QED
          BY <5>2, <2>2 DEF Holder
      <4>5. k \in DOMAIN heap[f.table]
        BY <2>4 DEF IsFrameOf
      <4> HIDE DEF g
      <4> QED
        BY <4>2, <4>3, <4>4, <4>5, <2>2, <2>4 DEF IsFrameOf, g
    <3> QED
      BY <2>5, <3>1, <3>2
  <2>8. \A i \in 1 .. n : x.stack[i].cell = s.stack[i].cell
    BY <2>1, <2>2, <2>7
  <2>9. s.arg \in 1 .. Len(args)
    BY <1>2 DEF IsPackState
  <2> QED
    BY <2>1, <2>2, <2>6, <2>7, <2>8, <2>9, SMTT(30) DEF InCall, IsPackState
<1> QED
  BY <1>1, <1>2

(* PackValue returns from the value that a call is for. *)
LEMMA ReturnState ==
  ASSUME NEW s, InCall(s), \A t \in Tables : IsFiniteSet(DOMAIN heap[t])
  PROVE  IsPackState(Return(s)) /\ Return(s) \in PackStates
<1> DEFINE r == Return(s)
           n == Len(s.stack)
<1>0. s \in PackStates /\ s.arg \in 1 .. Len(args) /\ s.size <= Len(src)
  BY DEF InCall
<1>1. r \in PackStates /\ r.size = s.size /\ Len(r.stack) = n
  BY <1>0, ReturnLemma
<1>2. CASE s.stack = <<>>
  <2>1. r.arg = s.arg + 1 /\ r.stack = <<>>
    BY <1>0, <1>2, ReturnLemma
  <2>2. r.arg \in 1 .. Len(args) + 1
    BY <1>0, <2>1
  <2>3. 1 .. Len(r.stack) = {}
    BY <2>1
  <2>4. IsPackState(r)
    <3> HIDE DEF r
    <3> QED
      BY <1>0, <1>1, <2>1, <2>2, <2>3 DEF IsPackState
  <2> QED
    BY <1>1, <2>4
<1>3. CASE s.stack # <<>>
  <2> DEFINE f == s.stack[n]
             g == r.stack[n]
  <2>1. n \in Nat \ {0} /\ f \in PackFrames /\ f = Last(s.stack)
    BY <1>0, <1>3, FrontLemma, ZenonT(60) DEF PackStates
  <2>2. /\ r.arg = s.arg /\ r.stack # <<>> /\ Last(r.stack) = Advance(f)
        /\ \A i \in 1 .. n - 1 : r.stack[i] = s.stack[i]
    BY <1>0, <1>3, <2>1, ReturnLemma
  <2>3. g = Advance(f)
    BY <1>1, <2>2, FrontLemma, ZenonT(60) DEF PackStates
  <2>4. IsFrameOf(s, n) /\ f.at # "next"
    BY <2>1 DEF InCall
  <2>5. ASSUME NEW i \in 1 .. n - 1  PROVE  IsFrameOf(r, i) /\ r.stack[i].at # "next"
    <3>1. IsFrameOf(s, i) /\ s.stack[i].at # "next"
      BY <2>1 DEF InCall
    <3>2. i \in 1 .. n /\ \A j \in 1 .. i : r.stack[j] = s.stack[j]
      BY <2>1, <2>2
    <3>3. r.size = s.size /\ s.size \in Nat /\ Len(r.stack) >= i
      BY <1>0, <1>1, <2>1 DEF PackStates
    <3> QED
      BY <3>1, <3>2, <3>3, <1>0, <1>1, <2>2, FrameSame
  <2>6. /\ g.table = f.table /\ g.cell = f.cell /\ g.left = f.left /\ g.key = f.key
        /\ f.at = "key" => g.at = "value" /\ g.pairs = f.pairs
        /\ f.at = "value" => g.at = "next" /\ g.pairs = f.pairs + 1
    BY <2>1, <2>3, FrameFields
  <2>7. f.table \in Tables /\ f.at \in {"key", "value"}
    BY <2>1, <2>4 DEF PackFrames
  <2>8. g.pairs = Cardinality(Done(g))
    <3>1. CASE f.at = "key"
      <4>1. Done(g) = Done(f)
        BY <2>6, <3>1 DEF Done
      <4> QED
        BY <4>1, <2>4, <2>6, <3>1 DEF IsFrameOf
    <3>2. CASE f.at = "value"
      <4>1. Done(g) = Done(f) \union {f.key} /\ f.key \notin Done(f)
        BY <2>4, <2>6, <3>2 DEF Done, IsFrameOf
      <4>2. IsFiniteSet(Done(f))
        BY <2>7, FS_Subset DEF Done
      <4>3. Cardinality(Done(f) \union {f.key}) = Cardinality(Done(f)) + 1
        BY <4>1, <4>2, FS_AddElement
      <4> QED
        BY <4>1, <4>3, <2>4, <2>6, <3>2 DEF IsFrameOf
    <3> QED
      BY <3>1, <3>2, <2>7
  <2>9. Holder(r, n) = Holder(s, n)
    <3>1. n # 1 => n - 1 \in 1 .. n - 1
      BY <2>1, Predecessor
    <3>2. n # 1 => r.stack[n - 1] = s.stack[n - 1]
      BY <3>1, <2>2
    <3> QED
      BY <3>2, <2>2 DEF Holder
  <2>10. IsFrameOf(r, n) /\ g.at # "key"
    <3> HIDE DEF n, r
    <3> QED
      BY <2>4, <2>6, <2>7, <2>8, <2>9, <1>1 DEF IsFrameOf
  <2>11. \A i \in 1 .. n : r.stack[i].cell = s.stack[i].cell
    BY <2>1, <2>2, <2>6
  <2>12. \A i, j \in 1 .. n : i < j => s.stack[i].cell < s.stack[j].cell
    BY DEF InCall
  <2>13. s.arg \in 1 .. Len(args) + 1
    BY <1>0
  <2>14. \A i \in 1 .. n : i \in 1 .. n - 1 \/ i = n
    BY <2>1
  <2>15. \A i \in 1 .. n : IsFrameOf(r, i) /\ r.stack[i].at # (IF i = n THEN "key" ELSE "next")
    <3> HIDE DEF r, n
    <3> QED
      BY <2>1, <2>5, <2>10, <2>14 DEF g
  <2>16. \A i, j \in 1 .. n : i < j => r.stack[i].cell < r.stack[j].cell
    BY <2>11, <2>12
  <2>17. r.arg \in 1 .. Len(args) + 1 /\ r.arg <= Len(args) /\ r.size <= Len(src)
    BY <1>0, <1>1, <2>2, <2>13
  <2>18. IsPackState(r)
    <3> HIDE DEF r, n
    <3> QED
      BY <1>1, <2>15, <2>16, <2>17 DEF IsPackState
  <2> QED
    BY <1>1, <2>18
<1> QED
  BY <1>1, <1>2, <1>3

(* The call for a table ends in a call for a value below it. *)
LEMMA EndInCall ==
  ASSUME NEW s \in PackStates, IsPackState(s), AtEnd(s)
  PROVE  InCall([s EXCEPT !.stack = Front(@)])
<1> DEFINE x == [s EXCEPT !.stack = Front(s.stack)]
           n == Len(s.stack)
<1>1. s.stack # <<>> /\ n \in Nat \ {0}
  BY DEF AtEnd, PackStates
<1>2. /\ Front(s.stack) \in Seq(PackFrames) /\ Len(Front(s.stack)) = n - 1
      /\ \A i \in 1 .. n - 1 : Front(s.stack)[i] = s.stack[i]
  BY <1>1, FrontLemma DEF PackStates
<1>3. /\ x \in PackStates /\ x.arg = s.arg /\ x.size = s.size /\ Len(x.stack) = n - 1
      /\ \A i \in 1 .. n - 1 : x.stack[i] = s.stack[i]
  BY <1>2 DEF PackStates
<1> HIDE DEF x
<1>4. ASSUME NEW i \in 1 .. n - 1  PROVE  IsFrameOf(x, i) /\ x.stack[i].at # "next"
  <2>1. IsFrameOf(s, i) /\ s.stack[i].at # "next"
    BY <1>1 DEF IsPackState
  <2>2. i \in 1 .. n /\ \A j \in 1 .. i : x.stack[j] = s.stack[j]
    BY <1>1, <1>3
  <2>3. x.size = s.size /\ s.size \in Nat /\ Len(x.stack) >= i
    BY <1>1, <1>3 DEF PackStates
  <2> QED
    BY <2>1, <2>2, <2>3, <1>3, FrameSame
<1>5. s.arg \in 1 .. Len(args) /\ s.size <= Len(src)
  BY <1>1 DEF IsPackState
<1>6. \A i, j \in 1 .. n : i < j => s.stack[i].cell < s.stack[j].cell
  BY DEF IsPackState
<1>7. \A i \in 1 .. n - 1 : i \in 1 .. n
  BY <1>1
<1>8. \A i, j \in 1 .. n - 1 : i < j => x.stack[i].cell < x.stack[j].cell
  BY <1>3, <1>6, <1>7
<1>9. InCall(x)
  BY <1>3, <1>4, <1>5, <1>8 DEF InCall
<1> QED
  BY <1>9 DEF x

-----------------------------------------------------------------------------
(* The steps of PackValue while it writes. *)

(* What a step leaves alone, and what it may add to the history of the cells. *)
Same == heap' = heap /\ args' = args
Longer == Len(src') >= Len(src) /\ \A p \in 1 .. Len(src) : src'[p] = src[p]

LEMMA FrameStable ==
  ASSUME NEW s \in PackStates, NEW r \in PackStates, NEW i \in 1 .. Len(s.stack),
         Len(r.stack) >= i, r.arg = s.arg, s.size <= r.size, s.size <= Len(src),
         \A j \in 1 .. i : r.stack[j] = s.stack[j],
         IsFrameOf(s, i), Same, Longer, src \in Seq([value : AnyValue, depth : Nat])
  PROVE  IsFrameOf(r, i)'
<1>1. r.stack[i] = s.stack[i] /\ (i # 1 => r.stack[i - 1] = s.stack[i - 1])
  <2>1. i \in 1 .. i /\ (i # 1 => i - 1 \in 1 .. i)
    BY DEF PackStates
  <2> QED
    BY <2>1
<1>2. Holder(r, i)' = Holder(s, i)
  BY <1>1 DEF Holder, Item, Same
<1>3. s.size \in Nat /\ r.size \in Nat
  BY DEF PackStates
<1>4. Done(s.stack[i])' = Done(s.stack[i])
  BY DEF Done, Same
<1>5. s.stack[i].cell \in 1 .. s.size
  BY DEF IsFrameOf
<1>6. s.stack[i].cell \in 1 .. Len(src) /\ s.stack[i].cell \in 1 .. r.size
  BY <1>3, <1>5
<1>7. src'[s.stack[i].cell] = src[s.stack[i].cell]
  BY <1>6 DEF Longer
<1> QED
  BY <1>1, <1>2, <1>4, <1>6, <1>7 DEF IsFrameOf, Same

(* A state of the past stays well-formed, and so does one with a new cell. *)
LEMMA StateStable ==
  ASSUME NEW s \in PackStates, NEW r \in PackStates, IsPackState(s),
         r.stack = s.stack, r.arg = s.arg, s.size <= r.size, r.size <= Len(src'),
         Same, Longer, src \in Seq([value : AnyValue, depth : Nat])
  PROVE  IsPackState(r)'
<1>1. s.size <= Len(src)
  BY DEF IsPackState
<1>2. ASSUME NEW i \in 1 .. Len(s.stack)  PROVE  IsFrameOf(r, i)'
  <2>1. IsFrameOf(s, i)
    BY DEF IsPackState
  <2>2. Len(r.stack) >= i
    BY DEF PackStates
  <2> QED
    BY <2>1, <2>2, <1>1, FrameStable
<1>3. r.arg \in 1 .. Len(args') + 1 /\ (r.stack # <<>> => r.arg <= Len(args'))
  BY DEF IsPackState, Same
<1> QED
  BY <1>2, <1>3 DEF IsPackState

(* The table that begins is a frame. *)
LEMMA BeginState ==
  ASSUME NEW s, NEW r, r = AfterTable(s), InCall(s), TypeOK, Same, Longer,
         Current(s) \in AnyValue, Current(s)[1] = "table",
         s.size + 1 = Len(src'),
         src'[s.size + 1] = [value |-> Current(s), depth |-> Len(s.stack)]
  PROVE  IsPackState(r)' /\ r \in PackStates
<1>n. PICK n \in Nat : n = Len(s.stack)
  BY DEF InCall, PackStates
<1>0. s \in PackStates /\ s.arg \in 1 .. Len(args) /\ s.size <= Len(src) /\ n \in Nat
  BY DEF InCall
<1>1. PICK t \in Tables : t = Current(s)[2] /\ Current(s) = <<"table", t>>
  BY TableValues
<1>2. PICK f \in PackFrames : f = PackFrame(t, s.size + 1)
  <2>1. s.size + 1 \in Nat
    BY <1>0 DEF PackStates
  <2> QED
    BY <2>1 DEF PackFrame, PackFrames, TypeOK
<1>3. /\ Append(s.stack, f) \in Seq(PackFrames) /\ Len(Append(s.stack, f)) = n + 1
      /\ \A i \in 1 .. n : Append(s.stack, f)[i] = s.stack[i]
      /\ Append(s.stack, f)[n + 1] = f
  BY <1>0, <1>2, <1>n, AppendLemma DEF PackStates
<1>4. /\ r \in PackStates /\ r.arg = s.arg /\ r.size = s.size + 1 /\ Len(r.stack) = n + 1
      /\ \A i \in 1 .. n : r.stack[i] = s.stack[i]
      /\ r.stack[n + 1] = f
  <2>1. r = [s EXCEPT !.size = s.size + 1, !.stack = Append(s.stack, f)]
    BY <1>1, <1>2 DEF AfterTable
  <2>2. PICK q \in Seq(PackFrames) : q = Append(s.stack, f)
    BY <1>3
  <2>3. s.size + 1 \in Nat
    BY <1>0 DEF PackStates
  <2>4. PICK z \in Nat : z = s.size + 1
    BY <2>3
  <2>5. r = [s EXCEPT !.size = z, !.stack = q]
    BY <2>1, <2>2, <2>4
  <2>6. r \in PackStates /\ r.arg = s.arg /\ r.size = z /\ r.stack = q
    BY <1>0, <2>5 DEF PackStates
  <2> QED
    BY <1>3, <2>2, <2>4, <2>6
<1>5. /\ f.table = t /\ f.cell = s.size + 1 /\ f.left = DOMAIN heap[t]
      /\ f.at = "next" /\ f.pairs = 0
  BY <1>2 DEF PackFrame
<1>6. ASSUME NEW i \in 1 .. n  PROVE  IsFrameOf(r, i)' /\ r.stack[i].at # "next"
  <2>1. IsFrameOf(s, i) /\ s.stack[i].at # "next"
    BY <1>n DEF InCall
  <2>2. \A j \in 1 .. i : r.stack[j] = s.stack[j]
    BY <1>0, <1>4, SMTT(30)
  <2>3. s.size <= r.size /\ Len(r.stack) >= i
    BY <1>0, <1>4 DEF PackStates
  <2>4. r.stack[i] = s.stack[i]
    BY <1>4
  <2> QED
    BY <2>1, <2>2, <2>3, <2>4, <1>0, <1>4, <1>n, FrameStable DEF TypeOK
<1>7. IsFrameOf(r, n + 1)'
  <2>1. Done(f)' = {} /\ Cardinality({}) = 0
    BY <1>5, FS_EmptySet DEF Done, Same
  <2>2. s.size + 1 \in 1 .. r.size
    BY <1>0, <1>4 DEF PackStates
  <2>3. Holder(r, n + 1)' = <<"table", t>>
    <3>1. CASE n = 0
      <4>1. s.stack = <<>>
        BY <3>1, <1>0, <1>n DEF PackStates
      <4> QED
        BY <3>1, <4>1, <1>1, <1>4 DEF Holder, Current, Same
    <3>2. CASE n # 0
      <4>1. s.stack # <<>> /\ Last(s.stack) = s.stack[n] /\ n \in 1 .. n
        <5>1. s.stack \in Seq(PackFrames) /\ s.stack # <<>>
          BY <3>2, <1>0, <1>n DEF PackStates
        <5>2. Last(s.stack) = s.stack[n]
          BY <5>1, FrontLemma, <1>n
        <5> QED
          BY <5>1, <5>2, <1>0, <3>2
      <4>2. r.stack[n + 1 - 1] = s.stack[n]
        BY <1>0, <1>4, <4>1
      <4>3. Holder(r, n + 1)' = Item(s.stack[n])'
        <5>1. n + 1 # 1
          BY <3>2, <1>0
        <5> QED
          BY <4>2, <5>1 DEF Holder, Item
      <4>4. Item(s.stack[n])' = Item(s.stack[n])
        BY DEF Item, Same
      <4> QED
        BY <4>1, <4>3, <4>4, <1>1 DEF Current
    <3> QED
      BY <3>1, <3>2
  <2>4. n + 1 - 1 = n
    BY <1>0
  <2>5. f.left \subseteq DOMAIN heap'[f.table]
    BY <1>5 DEF Same
  <2>6. src'[f.cell] = [value |-> <<"table", f.table>>, depth |-> n + 1 - 1]
    BY <1>1, <1>5, <2>4, <1>n
  <2>8. r.stack[n + 1] = f /\ f.at = "next"
    BY <1>4, <1>5
  <2>9. Holder(r, n + 1)' = <<"table", f.table>>
    BY <2>3, <1>5
  <2>10. Done(r.stack[n + 1])' = Done(f)'
    BY <2>8 DEF Done
  <2>7. f.pairs = Cardinality(Done(f)') /\ f.cell \in 1 .. r.size
    BY <1>5, <2>1, <2>2
  <2>11. r.stack[n + 1].left \subseteq DOMAIN heap'[r.stack[n + 1].table]
    BY <2>5, <2>8
  <2>12. r.stack[n + 1].pairs = Cardinality(Done(r.stack[n + 1]))'
    BY <2>7, <2>8, <2>10
  <2>13. src'[r.stack[n + 1].cell] = [value |-> <<"table", r.stack[n + 1].table>>, depth |-> n + 1 - 1]
    BY <2>6, <2>8
  <2>14. Holder(r, n + 1)' = <<"table", r.stack[n + 1].table>>
    BY <2>9, <2>8
  <2>15. r.stack[n + 1].at = "next" /\ r.stack[n + 1].cell \in 1 .. r.size
    BY <2>7, <2>8
  <2> QED
    BY <2>11, <2>12, <2>13, <2>14, <2>15 DEF IsFrameOf
<1>8. \A i, j \in 1 .. n + 1 : i < j => r.stack[i].cell < r.stack[j].cell
  <2>1. \A i \in 1 .. n : s.stack[i].cell \in 1 .. s.size /\ s.size \in Nat
    BY <1>0, <1>n DEF InCall, IsFrameOf, PackStates
  <2>2. \A i, j \in 1 .. n : i < j => s.stack[i].cell < s.stack[j].cell
    BY <1>n DEF InCall
  <2>3. \A i \in 1 .. n + 1 : i \in 1 .. n \/ i = n + 1
    BY <1>0
  <2>4. \A i \in 1 .. n + 1 : i < n + 1 => r.stack[i].cell < s.size + 1
    <3>1. ASSUME NEW i \in 1 .. n  PROVE  r.stack[i].cell < s.size + 1
      <4>1. r.stack[i] = s.stack[i]
        BY <1>4
      <4>2. s.stack[i].cell \in 1 .. s.size /\ s.size \in Nat
        BY <2>1
      <4> QED
        BY <4>1, <4>2
    <3> QED
      BY <3>1, <2>3
  <2>5. \A i, j \in 1 .. n + 1 : i < j => i \in 1 .. n /\ (j \in 1 .. n \/ j = n + 1)
    BY <1>0
  <2> QED
    BY <1>4, <1>5, <2>2, <2>4, <2>5
<1>9. r.arg \in 1 .. Len(args') + 1 /\ r.arg <= Len(args') /\ r.size <= Len(src')
  BY <1>0, <1>4 DEF Same, PackStates
<1>10. \A i \in 1 .. n + 1 : i \in 1 .. n \/ i = n + 1
  BY <1>0
<1>11. \A i \in 1 .. n + 1 : IsFrameOf(r, i)' /\ r.stack[i].at # (IF i = n + 1 THEN "key" ELSE "next")
  <2> QED
    BY <1>4, <1>5, <1>6, <1>7, <1>10
<1> QED
  BY <1>4, <1>8, <1>9, <1>11 DEF IsPackState

(* What PackValue does with a state does not change while it runs. *)
LEMMA OperatorsStable ==
  ASSUME NEW x, Same
  PROVE  /\ Calls(x)' = Calls(x) /\ Current(x)' = Current(x)
         /\ AfterTable(x)' = AfterTable(x)
BY DEF Same, Calls, Current, Item, AfterTable, PackFrame

LEMMA StepStable ==
  ASSUME NEW s \in PackStates, NEW n \in PackStates, IsPackStep(s, n), n.size <= Len(src),
         Same, Longer
  PROVE  IsPackStep(s, n)'
<1>1. CASE AtEnd(s) /\ n = AfterEnd(s)
  BY <1>1 DEF IsPackStep
<1>2. ASSUME NEW x \in Calls(s), n.size = s.size + 1, src[n.size].value = Current(x),
             n = IF Current(x)[1] = "table" THEN AfterTable(x) ELSE AfterScalar(x)
      PROVE  IsPackStep(s, n)'
  <2>1. n.size \in 1 .. Len(src)
    BY <1>2 DEF PackStates
  <2>2. src'[n.size] = src[n.size]
    BY <2>1 DEF Longer
  <2>3. x \in Calls(s)' /\ Current(x)' = Current(x) /\ AfterTable(x)' = AfterTable(x)
    BY OperatorsStable
  <2> QED
    BY <1>2, <2>2, <2>3 DEF IsPackStep
<1> QED
  BY <1>1, <1>2 DEF IsPackStep

(* What PackValue is called for is an argument, a key or a value. *)
LEMMA CurrentType ==
  ASSUME NEW s, InCall(s), TypeOK
  PROVE  Current(s) \in AnyValue
<1>1. CASE s.stack = <<>>
  BY <1>1 DEF Current, InCall, TypeOK, AnyValue
<1>2. CASE s.stack # <<>>
  <2>1. PICK n \in 1 .. Len(s.stack) : Last(s.stack) = s.stack[n]
    <3>1. s.stack \in Seq(PackFrames)
      BY DEF InCall, PackStates
    <3>2. Last(s.stack) = s.stack[Len(s.stack)] /\ Len(s.stack) \in Nat \ {0}
      BY <3>1, <1>2, FrontLemma
    <3> QED
      BY <3>2
  <2>2. PICK f \in PackFrames : f = s.stack[n]
    BY DEF InCall, PackStates
  <2>3. f.table \in Tables /\ f.at # "next" /\ f.key \in DOMAIN heap[f.table]
    BY <2>2 DEF InCall, IsFrameOf, PackFrames
  <2>4. f.key \in Key /\ heap[f.table][f.key] \in Value
    BY <2>3 DEF TypeOK
  <2>5. Current(s) = Item(f)
    BY <1>2, <2>1, <2>2 DEF Current
  <2> QED
    BY <2>4, <2>5 DEF Item, AnyValue
<1> QED
  BY <1>1, <1>2

(* The trail stays a trail when a step is added to it. *)
LEMMA TrailGrows ==
  ASSUME TypeOK, Trail, Same, Longer,
         NEW s \in PackStates, NEW r \in PackStates, s = pack,
         pack' = r, trail' = Append(trail, r), IsPackState(r)', IsPackStep(s, r)'
  PROVE  Trail'
<1>n. PICK n \in Nat \ {0} : n = Len(trail)
  <2>1. trail \in Seq(PackStates) /\ trail # <<>>
    BY DEF Trail, TypeOK
  <2> QED
    BY <2>1
<1>1. /\ trail' \in Seq(PackStates) /\ trail' # <<>> /\ Len(trail') = n + 1
      /\ \A k \in 1 .. n : trail'[k] = trail[k]
      /\ trail'[n + 1] = r /\ Last(trail') = r
  BY <1>n, AppendLemma DEF TypeOK
<1>2. Last(trail) = trail[n]
  BY <1>n, FrontLemma DEF TypeOK, Trail
<1>3. ASSUME NEW k \in 1 .. n  PROVE  IsPackState(trail[k])'
  <2>1. PICK q \in PackStates : q = trail[k]
    BY <1>n DEF TypeOK
  <2>2. IsPackState(q) /\ q.size <= q.size /\ q.size <= Len(src')
    <3>1. IsPackState(q)
      BY <2>1, <1>n DEF Trail
    <3>2. q.size <= Len(src) /\ q.size \in Nat /\ Len(src) \in Nat
      BY <3>1 DEF IsPackState, PackStates, TypeOK
    <3> QED
      BY <3>1, <3>2 DEF Longer
  <2>3. IsPackState(q)'
    BY <2>2, StateStable DEF TypeOK
  <2> QED
    BY <2>1, <2>3, <1>1
<1>4. ASSUME NEW k \in 1 .. n - 1  PROVE  IsPackStep(trail[k], trail[k + 1])'
  <2>1. k \in 1 .. n /\ k + 1 \in 1 .. n /\ k \in 1 .. Len(trail) - 1
    BY <1>n
  <2>2. PICK q \in PackStates, p \in PackStates : q = trail[k] /\ p = trail[k + 1]
    BY <2>1, <1>n DEF TypeOK
  <2>3. IsPackStep(q, p) /\ IsPackState(p)
    BY <2>1, <2>2, <1>n DEF Trail
  <2>4. p.size <= Len(src)
    BY <2>3 DEF IsPackState
  <2>5. IsPackStep(q, p)'
    BY <2>3, <2>4, StepStable
  <2>6. trail'[k] = q /\ trail'[k + 1] = p
    BY <2>1, <2>2, <1>1
  <2> QED
    BY <2>5, <2>6
<1>5. IsPackStep(trail[n], trail[n + 1])'
  <2>1. trail'[n] = s /\ trail'[n + 1] = r
    BY <1>1, <1>2 DEF Trail
  <2> QED
    BY <2>1
<1>6. trail'[1] = [arg |-> 1, stack |-> <<>>, size |-> 0]
  BY <1>1 DEF Trail
<1>7. \A k \in 1 .. n + 1 : k \in 1 .. n \/ k = n + 1
  OBVIOUS
<1>8. \A k \in 1 .. n + 1 : IsPackState(trail[k])'
  BY <1>1, <1>3, <1>7
<1>9. \A k \in 1 .. n : k \in 1 .. n - 1 \/ k = n
  OBVIOUS
<1>10. \A k \in 1 .. n : IsPackStep(trail[k], trail[k + 1])'
  BY <1>4, <1>5, <1>9
<1>11. n + 1 - 1 = n
  OBVIOUS
<1> QED
  BY <1>1, <1>6, <1>8, <1>10, <1>11 DEF Trail

-----------------------------------------------------------------------------
(* The tables that are open, and what was written before. *)

LEMMA CallsFrames ==
  ASSUME NEW s \in PackStates, IsPackState(s), NEW x \in Calls(s), NEW i \in 1 .. Len(s.stack)
  PROVE  /\ x.stack[i].cell = s.stack[i].cell /\ x.stack[i].table = s.stack[i].table
         /\ Begun(x.stack[i]) = Begun(s.stack[i]) /\ Done(x.stack[i]) = Done(s.stack[i])
<1>1. s.stack # <<>> /\ s.stack \in Seq(PackFrames)
  BY DEF PackStates
<1>n. PICK n \in Nat \ {0} : n = Len(s.stack)
  BY <1>1, FrontLemma
<1>2. /\ x \in PackStates /\ Len(x.stack) = n /\ x.stack # <<>>
      /\ \A j \in 1 .. n - 1 : x.stack[j] = s.stack[j]
      /\ \/ Last(s.stack).at = "value" /\ x = s
         \/ /\ Last(s.stack).at # "value"
            /\ \E k \in Last(s.stack).left : Last(x.stack) = NextKey(Last(s.stack), k)
  BY <1>1, <1>n, CallsLemma
<1>3. Last(s.stack) = s.stack[n] /\ Last(x.stack) = x.stack[n]
  BY <1>1, <1>2, <1>n, FrontLemma, ZenonT(60) DEF PackStates
<1>4. PICK f \in PackFrames : f = s.stack[n]
  BY <1>1, <1>n
<1>5. IsFrameOf(s, n) /\ f.at # "key"
  BY <1>4, <1>n DEF IsPackState
<1>6. CASE x = s
  BY <1>6
<1>7. CASE f.at # "value" /\ \E k \in f.left : x.stack[n] = NextKey(f, k)
  <2>1. CASE i # n
    <3>1. i \in 1 .. n - 1
      BY <2>1, <1>n
    <3> QED
      BY <3>1, <1>2
  <2>2. CASE i = n
    <3>1. PICK k \in f.left : x.stack[n] = NextKey(f, k)
      BY <1>7
    <3>2. PICK g \in PackFrames : g = NextKey(f, k)
      BY <1>4, FrameFields
    <3>5. f.at = "next"
      BY <1>5, <1>7 DEF PackFrames
    <3>6. /\ g.table = f.table /\ g.cell = f.cell /\ g.left = f.left \ {k} /\ g.key = k
          /\ g.at = "key"
      BY <3>2, <1>4 DEF NextKey, PackFrames
    <3>3. /\ g.table = f.table /\ g.cell = f.cell /\ g.left = f.left \ {k} /\ g.key = k
          /\ g.at = "key" /\ f.at = "next"
      BY <3>5, <3>6
    <3>4. Begun(g) = Begun(f) /\ Done(g) = Done(f)
      BY <3>3 DEF Begun, Done
    <3> QED
      BY <2>2, <3>1, <3>2, <3>3, <3>4, <1>4
  <2> QED
    BY <2>1, <2>2
<1> QED
  BY <1>2, <1>3, <1>4, <1>6, <1>7

LEMMA ReturnFrames ==
  ASSUME NEW s \in PackStates, NEW i \in 1 .. Len(s.stack)
  PROVE  /\ Return(s).stack[i].cell = s.stack[i].cell
         /\ IF i = Len(s.stack) THEN Return(s).stack[i] = Advance(s.stack[i])
            ELSE Return(s).stack[i] = s.stack[i]
<1>1. s.stack # <<>> /\ s.stack \in Seq(PackFrames)
  BY DEF PackStates
<1>n. PICK n \in Nat \ {0} : n = Len(s.stack)
  BY <1>1, FrontLemma
<1>2. PICK r \in PackStates : r = Return(s)
  BY ReturnLemma
<1>3. /\ Len(r.stack) = n /\ r.stack # <<>> /\ Last(r.stack) = Advance(Last(s.stack))
      /\ \A j \in 1 .. n - 1 : r.stack[j] = s.stack[j]
  BY <1>1, <1>2, <1>n, ReturnLemma
<1>4. Last(s.stack) = s.stack[n] /\ Last(r.stack) = r.stack[n]
  BY <1>1, <1>2, <1>3, <1>n, FrontLemma, ZenonT(60) DEF PackStates
<1>5. CASE i = n
  <2>1. s.stack[n] \in PackFrames
    BY <1>1, <1>n
  <2> QED
    BY <2>1, <1>2, <1>3, <1>4, <1>5, <1>n, FrameFields
<1>6. CASE i # n
  <2>1. i \in 1 .. n - 1
    BY <1>6, <1>n
  <2> QED
    BY <2>1, <1>2, <1>3, <1>6, <1>n
<1> QED
  BY <1>5, <1>6

(* The cells of the tables that have not ended in state s. *)
OpenCells(s) == {s.stack[i].cell : i \in 1 .. Len(s.stack)}

LEMMA OpenLemma ==
  /\ \A s \in PackStates : OpenCells(Return(s)) = OpenCells(s)
  /\ \A s \in PackStates : IsPackState(s) => \A x \in Calls(s) : OpenCells(x) = OpenCells(s)
  /\ \A p : Open(p) <=> p \in OpenCells(pack)
<1>1. ASSUME NEW s \in PackStates  PROVE  OpenCells(Return(s)) = OpenCells(s)
  <2>1. Len(Return(s).stack) = Len(s.stack)
    BY ReturnLemma
  <2>2. \A i \in 1 .. Len(s.stack) : Return(s).stack[i].cell = s.stack[i].cell
    BY ReturnFrames
  <2> QED
    BY <2>1, <2>2 DEF OpenCells
<1>2. ASSUME NEW s \in PackStates, IsPackState(s), NEW x \in Calls(s)
      PROVE  OpenCells(x) = OpenCells(s)
  <2>1. Len(x.stack) = Len(s.stack)
    BY CallsLemma
  <2>2. \A i \in 1 .. Len(s.stack) : x.stack[i].cell = s.stack[i].cell
    BY <1>2, CallsFrames
  <2> QED
    BY <2>1, <2>2 DEF OpenCells
<1>3. \A p : Open(p) <=> p \in OpenCells(pack)
  BY DEF Open, OpenCells
<1> QED
  BY <1>1, <1>2, <1>3

LEMMA WrittenStable ==
  ASSUME NEW v, NEW d, Written(v, d), Longer,
         src \in Seq([value : AnyValue, depth : Nat]), src' \in Seq([value : AnyValue, depth : Nat])
  PROVE  Written(v, d)'
<1>1. PICK p \in 1 .. Len(src) : src[p] = [value |-> v, depth |-> d]
  BY DEF Written, ToSet
<1>2. src'[p] = [value |-> v, depth |-> d] /\ p \in 1 .. Len(src')
  BY <1>1 DEF Longer
<1> QED
  BY <1>2 DEF Written, ToSet

(* The value that PackValue returns from was written. *)
LEMMA ReturnCovered ==
  ASSUME NEW x, NEW r \in PackStates, InCall(x), IsCovered(x), TypeOK, Same, Longer,
         r.stack = Return(x).stack, r.arg = Return(x).arg,
         src' \in Seq([value : AnyValue, depth : Nat]),
         Written(Current(x), Len(x.stack))'
  PROVE  IsCovered(r)'
<1>n. PICK n \in Nat : n = Len(x.stack)
  BY DEF InCall, PackStates
<1>0. x \in PackStates /\ x.arg \in 1 .. Len(args) /\ src \in Seq([value : AnyValue, depth : Nat])
  BY DEF InCall, TypeOK
<1>1. \A i \in 1 .. x.arg - 1 : Written(args[i], 0)'
  <2>1. ASSUME NEW i \in 1 .. x.arg - 1  PROVE  Written(args[i], 0)'
    <3>1. Written(args[i], 0)
      BY DEF IsCovered
    <3>2. PICK v : v = args[i]
      OBVIOUS
    <3>3. Written(v, 0)'
      BY <3>1, <3>2, <1>0, WrittenStable
    <3> QED
      BY <3>2, <3>3 DEF Same
  <2> QED
    BY <2>1
<1>2. ASSUME NEW i \in 1 .. n, NEW f \in PackFrames, f = x.stack[i], NEW k
      PROVE  /\ k \in Begun(f) => Written(k, i)'
             /\ k \in Done(f) => Written(heap[f.table][k], i)'
  <2>1. k \in Begun(f) => Written(k, i)
    BY <1>2, <1>n DEF IsCovered
  <2>2. k \in Done(f) => Written(heap[f.table][k], i)
    BY <1>2, <1>n DEF IsCovered
  <2>3. PICK v : v = heap[f.table][k]
    OBVIOUS
  <2>4. k \in Done(f) => Written(v, i)'
    BY <2>2, <2>3, <1>0, WrittenStable
  <2>5. heap'[f.table][k] = v
    BY <2>3 DEF Same
  <2> QED
    BY <2>1, <2>4, <2>5, <1>0, WrittenStable
<1>3. ASSUME NEW i \in 1 .. n, NEW g \in PackFrames, g = r.stack[i]
      PROVE  /\ \A k \in Begun(g)' : Written(k, i)'
             /\ \A k \in Done(g)' : Written(heap[g.table][k], i)'
  <2>1. PICK f \in PackFrames : f = x.stack[i]
    BY <1>0, <1>n DEF PackStates
  <2>2. \A h \in PackFrames : Begun(h)' = Begun(h) /\ Done(h)' = Done(h)
    BY DEF Begun, Done, Same
  <2>3. IF i = n THEN g = Advance(f) ELSE g = f
    BY <1>3, <2>1, <1>0, <1>n, ReturnFrames
  <2>4. CASE i # n
    BY <2>1, <2>2, <2>3, <2>4, <1>2
  <2>5. CASE i = n
    <3>1. IsFrameOf(x, i) /\ f.at # "next"
      BY <2>1, <1>n DEF InCall
    <3>2. f.at \in {"key", "value"} /\ f.key \in DOMAIN heap[f.table] \ f.left
      BY <3>1, <2>1 DEF IsFrameOf, PackFrames
    <3>3. /\ g.table = f.table /\ g.left = f.left /\ g.key = f.key
          /\ f.at = "key" => g.at = "value"
          /\ f.at # "key" => g.at = "next"
      BY <2>1, <2>3, <2>5, FrameFields
    <3>4. Current(x) = Item(f)
      <4>1. x.stack # <<>> /\ x.stack \in Seq(PackFrames)
        BY <1>0, <1>n DEF PackStates
      <4>2. Last(x.stack) = f
        BY <4>1, <2>1, <2>5, <1>n, FrontLemma
      <4> QED
        BY <4>1, <4>2 DEF Current
    <3>5. PICK v : v = Current(x)
      OBVIOUS
    <3>6. Written(v, i)'
      BY <3>5, <2>5, <1>n, OperatorsStable
    <3>7. CASE f.at = "key"
      <4>1. Begun(g) \subseteq Begun(f) \union {v} /\ Done(g) = Done(f)
        BY <3>3, <3>4, <3>5, <3>7 DEF Begun, Done, Item
      <4>2. \A k \in Begun(f) \union {v} : Written(k, i)'
        BY <3>6, <2>1, <1>2
      <4>3. \A k \in Done(f) : Written(heap[g.table][k], i)'
        BY <2>1, <1>2, <3>3
      <4> QED
        BY <4>1, <4>2, <4>3, <2>2, <1>3
    <3>8. CASE f.at = "value"
      <4>1. Begun(g) = Begun(f) /\ Done(g) \subseteq Done(f) \union {f.key}
        BY <3>3, <3>8 DEF Begun, Done
      <4>2. v = heap'[g.table][f.key]
        BY <3>3, <3>4, <3>5, <3>8 DEF Item, Same
      <4>3. Written(heap[g.table][f.key], i)'
        BY <4>2, <3>6
      <4>4. \A k \in Done(f) : Written(heap[g.table][k], i)'
        BY <2>1, <1>2, <3>3
      <4>5. \A k \in Begun(f) : Written(k, i)'
        BY <2>1, <1>2
      <4> QED
        BY <4>1, <4>3, <4>4, <4>5, <2>2, <1>3
    <3> QED
      BY <3>2, <3>7, <3>8
  <2> QED
    BY <2>4, <2>5
<1>4. \A i \in 1 .. Len(r.stack) : r.stack[i] \in PackFrames /\ i \in 1 .. n
  <2>1. r.stack \in Seq(PackFrames)
    BY DEF PackStates
  <2>2. Len(r.stack) = n
    BY <1>0, <1>n, ReturnLemma
  <2> QED
    BY <2>1, <2>2
<1>5. \A i \in 1 .. r.arg - 1 : Written(args[i], 0)'
  <2>1. CASE x.stack = <<>>
    <3>1. r.arg = x.arg + 1 /\ Current(x) = args[x.arg] /\ n = 0
      BY <2>1, <1>0, <1>n, ReturnLemma DEF Current
    <3>2. Written(args[x.arg], 0)'
      BY <3>1, <1>n, OperatorsStable DEF Same
    <3>3. \A i \in 1 .. r.arg - 1 : i \in 1 .. x.arg - 1 \/ i = x.arg
      BY <3>1, <1>0
    <3> QED
      BY <3>2, <3>3, <1>1
  <2>2. CASE x.stack # <<>>
    BY <2>2, <1>0, <1>1, ReturnLemma
  <2> QED
    BY <2>1, <2>2
<1> QED
  BY <1>3, <1>4, <1>5 DEF IsCovered

LEMMA CallsCovered ==
  ASSUME NEW s \in PackStates, IsPackState(s), IsCovered(s), NEW x \in Calls(s)
  PROVE  IsCovered(x)
<1>1. x.arg = s.arg /\ Len(x.stack) = Len(s.stack)
  BY CallsLemma
<1>2. ASSUME NEW i \in 1 .. Len(s.stack)
      PROVE  /\ \A k \in Begun(x.stack[i]) : Written(k, i)
             /\ \A k \in Done(x.stack[i]) : Written(heap[x.stack[i].table][k], i)
  <2>1. /\ x.stack[i].table = s.stack[i].table
        /\ Begun(x.stack[i]) = Begun(s.stack[i]) /\ Done(x.stack[i]) = Done(s.stack[i])
    BY CallsFrames
  <2> QED
    BY <2>1 DEF IsCovered
<1> QED
  BY <1>1, <1>2 DEF IsCovered

(* Only the count of cells tells a state after a scalar from one after a value. *)
LEMMA AfterScalarLemma ==
  ASSUME NEW x \in PackStates
  PROVE  /\ AfterScalar(x) \in PackStates
         /\ AfterScalar(x).stack = Return(x).stack /\ AfterScalar(x).arg = Return(x).arg
         /\ AfterScalar(x).size = x.size + 1
<1>1. PICK z \in Nat : z = x.size + 1
  BY DEF PackStates
<1>2. PICK y \in PackStates : y = [x EXCEPT !.size = z]
  BY DEF PackStates
<1>3. AfterScalar(x) = Return(y)
  BY <1>1, <1>2 DEF AfterScalar
<1>4. y.stack = x.stack /\ y.arg = x.arg /\ y.size = z
  BY <1>2 DEF PackStates
<1>5. Return(y) \in PackStates /\ Return(y).size = z
  BY <1>4, ReturnLemma
<1>6. CASE x.stack = <<>>
  BY <1>1, <1>3, <1>4, <1>5, <1>6, ReturnLemma
<1>7. CASE x.stack # <<>>
  <2>1. /\ Return(y) = [y EXCEPT !.stack = Append(Front(x.stack), Advance(Last(x.stack)))]
        /\ Return(x) = [x EXCEPT !.stack = Append(Front(x.stack), Advance(Last(x.stack)))]
    BY <1>4, <1>7 DEF Return
  <2>2. PICK q : q = Append(Front(x.stack), Advance(Last(x.stack)))
    OBVIOUS
  <2>3. Return(y).stack = q /\ Return(x).stack = q /\ Return(y).arg = y.arg /\ Return(x).arg = x.arg
    BY <2>1, <2>2 DEF PackStates
  <2> QED
    BY <2>3, <1>1, <1>3, <1>4, <1>5
<1> QED
  BY <1>6, <1>7

LEMMA OpenAfterTable ==
  ASSUME NEW x \in PackStates
  PROVE  /\ AfterTable(x).arg = x.arg /\ AfterTable(x).size = x.size + 1
         /\ Len(AfterTable(x).stack) = Len(x.stack) + 1
         /\ \A i \in 1 .. Len(x.stack) : AfterTable(x).stack[i] = x.stack[i]
         /\ AfterTable(x).stack[Len(x.stack) + 1] = PackFrame(Current(x)[2], x.size + 1)
         /\ OpenCells(AfterTable(x)) = OpenCells(x) \union {x.size + 1}
<1>n. PICK n \in Nat : n = Len(x.stack)
  BY DEF PackStates
<1>1. PICK f : f = PackFrame(Current(x)[2], x.size + 1)
  OBVIOUS
<1>2. PICK r : r = AfterTable(x)
  OBVIOUS
<1>3. r.stack = Append(x.stack, f) /\ r.arg = x.arg /\ r.size = x.size + 1
  BY <1>1, <1>2 DEF AfterTable, PackStates
<1>4. x.stack \in Seq(PackFrames \union {f})
  BY DEF PackStates
<1>5. /\ Len(r.stack) = n + 1 /\ r.stack[n + 1] = f
      /\ \A i \in 1 .. n : r.stack[i] = x.stack[i]
  BY <1>3, <1>4, <1>n, AppendLemma
<1>6. f.cell = x.size + 1
  BY <1>1 DEF PackFrame
<1>7. \A i \in 1 .. n + 1 : i \in 1 .. n \/ i = n + 1
  OBVIOUS
<1>8. n + 1 \in 1 .. n + 1 /\ \A i \in 1 .. n : i \in 1 .. n + 1
  OBVIOUS
<1>9. OpenCells(r) = OpenCells(x) \union {x.size + 1}
  BY <1>5, <1>6, <1>7, <1>8, <1>n, SMTT(30) DEF OpenCells
<1> QED
  BY <1>1, <1>2, <1>3, <1>5, <1>9, <1>n

(* The table that has ended is the last that is open. *)
LEMMA OpenAfterEnd ==
  ASSUME NEW s \in PackStates, IsPackState(s), AtEnd(s)
  PROVE  OpenCells(AfterEnd(s)) = OpenCells(s) \ {Last(s.stack).cell}
<1>1. s.stack # <<>> /\ s.stack \in Seq(PackFrames)
  BY DEF AtEnd, PackStates
<1>n. PICK n \in Nat \ {0} : n = Len(s.stack)
  BY <1>1
<1>2. PICK x : x = [s EXCEPT !.stack = Front(@)]
  OBVIOUS
<1>3. x \in PackStates
  BY <1>2, EndInCall DEF InCall
<1>4. x.stack = Front(s.stack)
  BY <1>2 DEF PackStates
<1>5. /\ Len(x.stack) = n - 1 /\ Last(s.stack) = s.stack[n]
      /\ \A i \in 1 .. n - 1 : x.stack[i] = s.stack[i]
  BY <1>1, <1>4, <1>n, FrontLemma, ZenonT(60)
<1>6. OpenCells(AfterEnd(s)) = OpenCells(x)
  BY <1>2, <1>3, OpenLemma DEF AfterEnd
<1>7. \A i \in 1 .. n - 1 : s.stack[i].cell < s.stack[n].cell
  <2>1. \A i \in 1 .. n - 1 : i \in 1 .. n /\ n \in 1 .. n /\ i < n
    OBVIOUS
  <2> QED
    BY <2>1, <1>n DEF IsPackState
<1>8. \A i \in 1 .. n : i \in 1 .. n - 1 \/ i = n
  OBVIOUS
<1>9. \A i \in 1 .. n - 1 : i \in 1 .. n
  OBVIOUS
<1>10. \A i \in 1 .. n : s.stack[i].cell \in Nat
  <2>1. \A i \in 1 .. n : s.stack[i] \in PackFrames
    BY <1>1, <1>n
  <2> QED
    BY <2>1 DEF PackFrames
<1>11. \A i \in 1 .. n - 1 : s.stack[i].cell # s.stack[n].cell
  BY <1>7, <1>9, <1>10
<1>12. OpenCells(x) = OpenCells(s) \ {s.stack[n].cell}
  <2>1. OpenCells(x) = {s.stack[i].cell : i \in 1 .. n - 1}
    BY <1>5 DEF OpenCells
  <2>2. OpenCells(s) = {s.stack[i].cell : i \in 1 .. n}
    BY <1>n DEF OpenCells
  <2> QED
    BY <2>1, <2>2, <1>8, <1>9, <1>11
<1> QED
  BY <1>5, <1>6, <1>12

-----------------------------------------------------------------------------
(* What a cell adds to the buffer and to the history. *)

LEMMA AppendFunction ==
  ASSUME NEW n \in Nat, NEW S, NEW q \in [1 .. n -> S], NEW c, NEW r \in [1 .. n + 1 -> S],
         \A p \in 1 .. n : r[p] = q[p], r[n + 1] = c
  PROVE  Append(q, c) = r
<1>1. q \in Seq(S) /\ Len(q) = n /\ c \in S
  OBVIOUS
<1>2. PICK z : z = Append(q, c)
  OBVIOUS
<1>3. z \in Seq(S) /\ Len(z) = n + 1 /\ z[n + 1] = c /\ \A p \in 1 .. n : z[p] = q[p]
  BY <1>1, <1>2, AppendLemma
<1>4. \A p \in 1 .. n + 1 : p \in 1 .. n \/ p = n + 1
  OBVIOUS
<1>5. \A p \in 1 .. n + 1 : z[p] = r[p]
  BY <1>3, <1>4
<1>6. z = [p \in 1 .. n + 1 |-> z[p]]
  BY <1>3
<1> QED
  BY <1>2, <1>5, <1>6

LEMMA WriteLemma ==
  ASSUME NEW x, InCall(x), TypeOK, Same, NEW c, Write(x, c)
  PROVE  /\ src' \in Seq([value : AnyValue, depth : Nat]) /\ Len(src') = Len(src) + 1
         /\ Len(src) \in Nat /\ Longer
         /\ src'[Len(src) + 1] = [value |-> Current(x), depth |-> Len(x.stack)]
         /\ Written(Current(x), Len(x.stack))'
<1>1. PICK n \in Nat : n = Len(src)
  BY SMTT(30) DEF TypeOK
<1>2. PICK e \in [value : AnyValue, depth : Nat] : e = [value |-> Current(x), depth |-> Len(x.stack)]
  <2>1. Current(x) \in AnyValue /\ Len(x.stack) \in Nat
    BY CurrentType DEF InCall, PackStates
  <2> QED
    BY <2>1
<1>3. src' = Append(src, e) /\ src \in Seq([value : AnyValue, depth : Nat])
  BY <1>2 DEF Write, TypeOK
<1>4. /\ src' \in Seq([value : AnyValue, depth : Nat]) /\ Len(src') = n + 1 /\ src'[n + 1] = e
      /\ \A p \in 1 .. n : src'[p] = src[p]
  BY <1>1, <1>3, AppendLemma
<1>5. e \in ToSet(src')
  BY <1>4 DEF ToSet
<1>6. Written(Current(x), Len(x.stack))'
  <2>1. Current(x)' = Current(x)
    BY OperatorsStable
  <2> QED
    BY <2>1, <1>2, <1>5 DEF Written
<1> QED
  BY <1>1, <1>2, <1>4, <1>6 DEF Longer

(* A cell that was written stays covered while its table is open. *)
LEMMA CellsCovered ==
  ASSUME TypeOK, Coverage, Same, Longer, src' \in Seq([value : AnyValue, depth : Nat]),
         NEW p \in 1 .. Len(src), Open(p) => Open(p)'
  PROVE  /\ src'[p].depth <= MaxDepth
         /\ Supported(src'[p].value)
         /\ IsTableCell(p)' => \/ Open(p)'
                               \/ \A v \in Parts(src[p].value[2])' : Written(v, src[p].depth + 1)'
<1>1. src'[p] = src[p] /\ src \in Seq([value : AnyValue, depth : Nat])
  BY DEF Longer, TypeOK
<1>2. src[p].depth <= MaxDepth /\ Supported(src[p].value)
  BY DEF Coverage
<1>3. ASSUME NEW t, t = src[p].value[2], NEW d, d = src[p].depth + 1,
             \A v \in Parts(t) : Written(v, d)
      PROVE  \A v \in Parts(t)' : Written(v, d)'
  <2>1. Parts(t)' = Parts(t)
    BY DEF Parts, Same
  <2> QED
    BY <2>1, <1>1, <1>3, WrittenStable
<1>4. Parts(src[p].value[2])' = Parts(src[p].value[2])
  BY <1>1 DEF Parts, Same
<1>5. PICK t, d : t = src[p].value[2] /\ d = src[p].depth + 1
  OBVIOUS
<1>6. IsTableCell(p) => Open(p) \/ \A v \in Parts(t) : Written(v, d)
  BY <1>5 DEF Coverage
<1>7. IsTableCell(p)' <=> IsTableCell(p)
  BY <1>1 DEF IsTableCell
<1>8. ASSUME \A v \in Parts(t) : Written(v, d)
      PROVE  \A v \in Parts(src[p].value[2])' : Written(v, src[p].depth + 1)'
  <2>1. \A v \in Parts(t)' : Written(v, d)'
    BY <1>8, <1>3, <1>5
  <2>2. src'[p].value[2] = t /\ src'[p].depth + 1 = d
    BY <1>1, <1>5
  <2> QED
    BY <2>1, <2>2
<1>9. IsTableCell(p)' => \/ Open(p)'
                         \/ \A v \in Parts(src[p].value[2])' : Written(v, src[p].depth + 1)'
  BY <1>6, <1>7, <1>8
<1> QED
  BY <1>1, <1>2, <1>9

LEMMA CellStable ==
  ASSUME NEW p, src'[p] = src[p], Same, Open(p)' <=> Open(p)
  PROVE  Cell(p)' = Cell(p)
BY DEF Cell, IsTableCell, Same

LEMMA NewCell ==
  ASSUME TypeOK, Cells, Same, sent = "packing", sent' = "packing",
         NEW x, InCall(x), NEW c, Write(x, c), c = Cell(Len(src))',
         \A p \in 1 .. Len(src) : Open(p)' <=> Open(p),
         pack'.size = Len(src')
  PROVE  Cells'
<1>1. PICK n \in Nat : n = Len(src)
  BY SMTT(30) DEF TypeOK
<1>2. Len(src') = n + 1 /\ \A p \in 1 .. n : src'[p] = src[p]
  BY <1>1, WriteLemma DEF Longer
<1>3. PICK q : q = [p \in 1 .. n |-> Cell(p)]
  OBVIOUS
<1>4. PICK r : r = [p \in 1 .. n + 1 |-> Cell(p)']
  OBVIOUS
<1>5. \A p \in 1 .. n : r[p] = q[p]
  <2>1. \A p \in 1 .. n : Cell(p)' = Cell(p)
    BY <1>1, <1>2, CellStable
  <2>2. \A p \in 1 .. n : p \in 1 .. n + 1
    OBVIOUS
  <2> QED
    BY <2>1, <2>2, <1>3, <1>4
<1>6. r[n + 1] = c
  <2>1. c = Cell(n + 1)'
    BY <1>2
  <2>2. n + 1 \in 1 .. n + 1
    OBVIOUS
  <2> QED
    BY <2>1, <2>2, <1>4
<1>7. Append(q, c) = r
  <2>1. PICK S : S = {r[p] : p \in 1 .. n + 1}
    OBVIOUS
  <2>2. r \in [1 .. n + 1 -> S]
    BY <2>1, <1>4
  <2>3. \A p \in 1 .. n : q[p] \in S
    <3>1. \A p \in 1 .. n : p \in 1 .. n + 1
      OBVIOUS
    <3> QED
      BY <3>1, <2>1, <1>5
  <2>4. q \in [1 .. n -> S]
    BY <2>3, <1>3
  <2> QED
    BY <1>1, <2>2, <2>4, <1>5, <1>6, AppendFunction
<1>8. PICK a : a = Argc(Len(args))
  OBVIOUS
<1>9. buff = [argc |-> a, cells |-> q]
  BY <1>1, <1>3, <1>8 DEF Cells
<1>10. buff' = [argc |-> a, cells |-> r]
  BY <1>7, <1>9 DEF Write
<1>11. Argc(Len(args))' = a
  BY <1>8 DEF Argc, Same
<1> QED
  BY <1>2, <1>4, <1>10, <1>11 DEF Cells

(* A step of PackValue leaves the rest alone. *)
LEMMA PackingStep ==
  ASSUME IInv, sent = "packing", UNCHANGED <<heap, args, call, sent, receiver>>,
         pack' \in PackStates, src' \in Seq([value : AnyValue, depth : Nat]),
         trail' \in Seq(PackStates), Trail', Cells', Coverage'
  PROVE  IInv'
<1>1. TypeOK'
  BY DEF IInv, TypeOK, receiver
<1>2. result = "none"
  BY DEF IInv, Reading
<1>3. Reading' /\ Outcome' /\ ArgumentsArrive'
  BY <1>2 DEF IInv, Reading, Outcome, ArgumentsArrive, receiver
<1> QED
  BY <1>1, <1>3 DEF IInv

LEMMA LastState ==
  ASSUME TypeOK, Trail
  PROVE  pack \in PackStates /\ IsPackState(pack)
<1>1. trail \in Seq(PackStates) /\ trail # <<>> /\ pack = Last(trail)
  BY DEF TypeOK, Trail
<1>2. PICK n \in Nat \ {0} : n = Len(trail)
  BY <1>1
<1>3. pack = trail[n]
  BY <1>1, <1>2, FrontLemma
<1>4. n \in 1 .. Len(trail)
  BY <1>2
<1> QED
  BY <1>1, <1>3, <1>4 DEF Trail

LEMMA ScalarStep ==
  ASSUME IInv, PackScalar
  PROVE  IInv'
<1> USE DEF IInv
<1>1. PICK x \in Calls(pack) :
          /\ ~TooDeep(Len(x.stack)) /\ Supported(Current(x)) /\ Current(x)[1] # "table"
          /\ Write(x, Scalar(Current(x))) /\ Goto(AfterScalar(x))
  BY DEF PackScalar
<1>2. Same /\ sent = "packing" /\ sent' = "packing"
  BY DEF PackScalar, Same
<1>3. PICK s \in PackStates : s = pack /\ IsPackState(s)
  BY LastState
<1>4. InCall(x) /\ x \in PackStates /\ x.size = s.size
  BY <1>3, CallsInCall, CallsLemma
<1>5. /\ src' \in Seq([value : AnyValue, depth : Nat]) /\ Len(src') = Len(src) + 1
      /\ Len(src) \in Nat /\ Longer
      /\ src'[Len(src) + 1] = [value |-> Current(x), depth |-> Len(x.stack)]
      /\ Written(Current(x), Len(x.stack))'
  BY <1>1, <1>2, <1>4, WriteLemma
<1>6. PICK r \in PackStates : /\ r = AfterScalar(x) /\ r.size = x.size + 1
                             /\ r.stack = Return(x).stack /\ r.arg = Return(x).arg
  BY <1>4, AfterScalarLemma
<1>7. pack' = r /\ trail' = Append(trail, r) /\ trail' \in Seq(PackStates)
  BY <1>1, <1>6 DEF Goto, TypeOK
<1>8. r.size = Len(src') /\ s.size = Len(src)
  BY <1>3, <1>4, <1>5, <1>6 DEF Cells
<1>9. IsPackState(r)'
  <2>1. PICK y \in PackStates : y = Return(x) /\ IsPackState(y) /\ y.size = x.size
    BY <1>4, ReturnState, ReturnLemma DEF TypeOK
  <2>2. y.size <= r.size /\ r.size <= Len(src')
    BY <2>1, <1>6, <1>8 DEF PackStates
  <2> QED
    BY <2>1, <2>2, <1>2, <1>5, <1>6, StateStable DEF TypeOK
<1>10. IsPackStep(s, r)'
  <2>1. x \in Calls(s)' /\ Current(x)' = Current(x)
    BY <1>2, <1>3, OperatorsStable
  <2>2. r.size = s.size + 1 /\ src'[r.size].value = Current(x)
    BY <1>4, <1>5, <1>6, <1>8
  <2> QED
    BY <1>1, <1>6, <2>1, <2>2 DEF IsPackStep
<1>11. Trail'
  BY <1>2, <1>3, <1>5, <1>7, <1>9, <1>10, TrailGrows
<1>12. OpenCells(r) = OpenCells(s)
  <2>1. OpenCells(r) = OpenCells(Return(x))
    BY <1>6 DEF OpenCells
  <2> QED
    BY <2>1, <1>3, <1>4, OpenLemma
<1>13. \A p : Open(p)' <=> Open(p)
  <2>1. \A p : Open(p)' <=> p \in OpenCells(r)
    BY <1>7 DEF Open, OpenCells
  <2>2. \A p : Open(p) <=> p \in OpenCells(s)
    BY <1>3 DEF Open, OpenCells
  <2> QED
    BY <2>1, <2>2, <1>12
<1>14. Cells'
  <2>1. Scalar(Current(x)) = Cell(Len(src))'
    BY <1>1, <1>5 DEF Cell, IsTableCell
  <2>2. pack'.size = Len(src')
    BY <1>7, <1>8
  <2> QED
    BY <2>1, <2>2, <1>1, <1>2, <1>4, <1>13, NewCell
<1>15. Coverage'
  <2>1. IsCovered(r)'
    <3>1. IsCovered(s)
      BY <1>3 DEF Coverage
    <3>2. IsCovered(x)
      BY <3>1, <1>3, CallsCovered
    <3> QED
      BY <3>2, <1>2, <1>4, <1>5, <1>6, ReturnCovered
  <2>2. Len(x.stack) <= MaxDepth
    BY <1>1, <1>4 DEF TooDeep, PackStates
  <2>3. ASSUME NEW p \in 1 .. Len(src')
        PROVE  /\ src'[p].depth <= MaxDepth
               /\ Supported(src'[p].value)
               /\ IsTableCell(p)' => \/ Open(p)'
                                     \/ \A v \in Parts(src[p].value[2])' : Written(v, src[p].depth + 1)'
    <3>1. CASE p = Len(src')
      BY <3>1, <2>2, <1>1, <1>5 DEF IsTableCell
    <3>2. CASE p \in 1 .. Len(src)
      BY <3>2, <1>2, <1>5, <1>13, CellsCovered
    <3> QED
      BY <3>1, <3>2, <1>5
  <2> QED
    BY <2>1, <2>3, <1>7 DEF Coverage
<1> QED
  <2>1. UNCHANGED <<heap, args, call, sent, receiver>>
    BY DEF PackScalar
  <2> QED
    BY <2>1, <1>2, <1>5, <1>7, <1>11, <1>14, <1>15, PackingStep

LEMMA CoveredStable ==
  ASSUME NEW x \in PackStates, IsCovered(x), TypeOK, Same, Longer,
         src' \in Seq([value : AnyValue, depth : Nat])
  PROVE  IsCovered(x)'
<1>0. src \in Seq([value : AnyValue, depth : Nat])
  BY DEF TypeOK
<1>1. ASSUME NEW i \in 1 .. x.arg - 1  PROVE  Written(args[i], 0)'
  <2>1. PICK v : v = args[i]
    OBVIOUS
  <2>2. Written(v, 0)
    BY <2>1 DEF IsCovered
  <2>3. Written(v, 0)'
    BY <2>2, <1>0, WrittenStable
  <2> QED
    BY <2>1, <2>3 DEF Same
<1>2. ASSUME NEW i \in 1 .. Len(x.stack), NEW f \in PackFrames, f = x.stack[i]
      PROVE  /\ \A k \in Begun(f)' : Written(k, i)'
             /\ \A k \in Done(f)' : Written(heap[f.table][k], i)'
  <2>1. Begun(f)' = Begun(f) /\ Done(f)' = Done(f)
    BY DEF Begun, Done, Same
  <2>2. \A k \in Begun(f) : Written(k, i)'
    BY <1>0, <1>2, WrittenStable DEF IsCovered
  <2>3. ASSUME NEW k \in Done(f)  PROVE  Written(heap[f.table][k], i)'
    <3>1. PICK v : v = heap[f.table][k]
      OBVIOUS
    <3>2. Written(v, i)
      BY <3>1, <1>2 DEF IsCovered
    <3>3. Written(v, i)'
      BY <3>2, <1>0, WrittenStable
    <3> QED
      BY <3>1, <3>3 DEF Same
  <2> QED
    BY <2>1, <2>2, <2>3
<1>3. \A i \in 1 .. Len(x.stack) : x.stack[i] \in PackFrames
  BY DEF PackStates
<1> QED
  BY <1>1, <1>2, <1>3 DEF IsCovered

(* A table of which no key was taken has nothing to cover. *)
LEMMA BeginCovered ==
  ASSUME NEW x \in PackStates, NEW r, r = AfterTable(x), IsCovered(x)', Same
  PROVE  IsCovered(r)'
<1>n. PICK n \in Nat : n = Len(x.stack)
  BY DEF PackStates
<1>1. PICK f : f = PackFrame(Current(x)[2], x.size + 1)
  OBVIOUS
<1>2. /\ r.arg = x.arg /\ Len(r.stack) = n + 1 /\ r.stack[n + 1] = f
      /\ \A i \in 1 .. n : r.stack[i] = x.stack[i]
  BY <1>1, <1>n, OpenAfterTable
<1>3. Begun(f)' = {} /\ Done(f)' = {}
  BY <1>1 DEF PackFrame, Begun, Done, Same
<1>4. ASSUME NEW i \in 1 .. n, NEW f1, f1 = r.stack[i]
      PROVE  /\ \A k \in Begun(f1)' : Written(k, i)'
             /\ \A k \in Done(f1)' : Written(heap[f1.table][k], i)'
  <2>1. f1 = x.stack[i]
    BY <1>2, <1>4
  <2> QED
    BY <2>1, <1>n DEF IsCovered
<1>5. \A i \in 1 .. n + 1 : i \in 1 .. n \/ i = n + 1
  OBVIOUS
<1>6. ASSUME NEW i \in 1 .. n + 1, NEW f1, f1 = r.stack[i]
      PROVE  /\ \A k \in Begun(f1)' : Written(k, i)'
             /\ \A k \in Done(f1)' : Written(heap[f1.table][k], i)'
  <2>1. CASE i = n + 1
    <3>1. f1 = f
      BY <2>1, <1>2, <1>6
    <3> QED
      BY <3>1, <1>3
  <2> QED
    BY <2>1, <1>4, <1>5, <1>6
<1>7. \A i \in 1 .. x.arg - 1 : Written(args[i], 0)'
  BY DEF IsCovered
<1> QED
  BY <1>2, <1>6, <1>7 DEF IsCovered

LEMMA TableStep ==
  ASSUME IInv, PackTable
  PROVE  IInv'
<1> USE DEF IInv
<1>1. PICK x \in Calls(pack) :
          /\ ~TooDeep(Len(x.stack)) /\ Current(x)[1] = "table"
          /\ Write(x, <<"table", 0>>) /\ Goto(AfterTable(x))
  BY DEF PackTable
<1>2. Same /\ sent = "packing" /\ sent' = "packing"
  BY DEF PackTable, Same
<1>3. PICK s \in PackStates : s = pack /\ IsPackState(s)
  BY LastState
<1>4. InCall(x) /\ x \in PackStates /\ x.size = s.size
  BY <1>3, CallsInCall, CallsLemma
<1>5. /\ src' \in Seq([value : AnyValue, depth : Nat]) /\ Len(src') = Len(src) + 1
      /\ Len(src) \in Nat /\ Longer
      /\ src'[Len(src) + 1] = [value |-> Current(x), depth |-> Len(x.stack)]
  BY <1>1, <1>2, <1>4, WriteLemma
<1>6. PICK r : r = AfterTable(x)
  OBVIOUS
<1>7. r.size = x.size + 1 /\ OpenCells(r) = OpenCells(x) \union {x.size + 1}
  BY <1>4, <1>6, OpenAfterTable
<1>8. r.size = Len(src') /\ s.size = Len(src)
  BY <1>3, <1>4, <1>5, <1>7 DEF Cells
<1>9. IsPackState(r)' /\ r \in PackStates
  <2>1. Current(x) \in AnyValue
    BY <1>4, CurrentType
  <2>2. x.size = Len(src)
    BY <1>4, <1>8
  <2> QED
    BY <2>1, <2>2, <1>1, <1>2, <1>4, <1>5, <1>6, BeginState
<1>10. pack' = r /\ trail' = Append(trail, r) /\ trail' \in Seq(PackStates)
  BY <1>1, <1>6, <1>9 DEF Goto, TypeOK
<1>11. IsPackStep(s, r)'
  <2>1. x \in Calls(s)' /\ Current(x)' = Current(x) /\ AfterTable(x)' = AfterTable(x)
    BY <1>2, <1>3, OperatorsStable
  <2>2. r.size = s.size + 1 /\ src'[r.size].value = Current(x)
    BY <1>4, <1>5, <1>7, <1>8
  <2> QED
    BY <1>1, <1>6, <2>1, <2>2 DEF IsPackStep
<1>12. Trail'
  BY <1>2, <1>3, <1>5, <1>9, <1>10, <1>11, TrailGrows
<1>13. \A p : Open(p)' <=> Open(p) \/ p = Len(src')
  <2>1. \A p : Open(p)' <=> p \in OpenCells(r)
    BY <1>10 DEF Open, OpenCells
  <2>2. \A p : Open(p) <=> p \in OpenCells(s)
    BY <1>3 DEF Open, OpenCells
  <2>3. OpenCells(x) = OpenCells(s)
    BY <1>3, OpenLemma
  <2> QED
    BY <2>1, <2>2, <2>3, <1>7, <1>8
<1>14. Cells'
  <2>1. <<"table", 0>> = Cell(Len(src))'
    <3>1. Open(Len(src))'
      BY <1>13
    <3>2. src'[Len(src')].value = Current(x)
      BY <1>5
    <3> QED
      BY <3>1, <3>2, <1>1 DEF Cell, IsTableCell
  <2>2. pack'.size = Len(src')
    BY <1>8, <1>10
  <2>3. \A p \in 1 .. Len(src) : Open(p)' <=> Open(p)
    BY <1>5, <1>13
  <2> QED
    BY <2>1, <2>2, <2>3, <1>1, <1>2, <1>4, NewCell
<1>15. Coverage'
  <2>1. IsCovered(r)'
    <3>1. IsCovered(s)
      BY <1>3 DEF Coverage
    <3>2. IsCovered(x)
      BY <3>1, <1>3, CallsCovered
    <3>3. IsCovered(x)'
      BY <3>2, <1>2, <1>4, <1>5, CoveredStable
    <3> QED
      BY <3>3, <1>2, <1>4, <1>6, BeginCovered
  <2>2. Len(x.stack) <= MaxDepth
    BY <1>1, <1>4 DEF TooDeep, PackStates
  <2>3. ASSUME NEW p \in 1 .. Len(src')
        PROVE  /\ src'[p].depth <= MaxDepth
               /\ Supported(src'[p].value)
               /\ IsTableCell(p)' => \/ Open(p)'
                                     \/ \A v \in Parts(src[p].value[2])' : Written(v, src[p].depth + 1)'
    <3>1. CASE p = Len(src')
      BY <3>1, <2>2, <1>1, <1>5, <1>13 DEF Supported
    <3>2. CASE p \in 1 .. Len(src)
      <4>1. Open(p) => Open(p)'
        BY <1>13
      <4> QED
        BY <4>1, <3>2, <1>2, <1>5, CellsCovered
    <3> QED
      BY <3>1, <3>2, <1>5
  <2> QED
    BY <2>1, <2>3, <1>10 DEF Coverage
<1> QED
  <2>1. UNCHANGED <<heap, args, call, sent, receiver>>
    BY DEF PackTable
  <2> QED
    BY <2>1, <1>2, <1>5, <1>9, <1>10, <1>12, <1>14, <1>15, PackingStep

(* The table that ends: all its keys were taken, and all its parts written. *)
LEMMA EndFacts ==
  ASSUME NEW s \in PackStates, IsPackState(s), AtEnd(s),
         NEW x, x = [s EXCEPT !.stack = Front(@)],
         NEW f, f = Last(s.stack)
  PROVE  /\ InCall(x) /\ x.size = s.size
         /\ f \in PackFrames /\ f.cell \in 1 .. s.size
         /\ src[f.cell] = [value |-> <<"table", f.table>>, depth |-> Len(x.stack)]
         /\ Current(x) = <<"table", f.table>>
         /\ f.pairs = Cardinality(DOMAIN heap[f.table])
<1>1. s.stack # <<>> /\ s.stack \in Seq(PackFrames)
  BY DEF AtEnd, PackStates
<1>n. PICK n \in Nat \ {0} : n = Len(s.stack)
  BY <1>1
<1>2. f = s.stack[n] /\ f \in PackFrames /\ f.at = "next" /\ f.left = {}
  BY <1>1, <1>n, FrontLemma DEF AtEnd
<1>3. InCall(x)
  BY EndInCall
<1>4. x.stack = Front(s.stack) /\ x.arg = s.arg /\ x.size = s.size
  BY DEF PackStates
<1>5. Len(x.stack) = n - 1 /\ \A i \in 1 .. n - 1 : x.stack[i] = s.stack[i]
  BY <1>1, <1>4, <1>n, FrontLemma
<1>6. IsFrameOf(s, n) /\ n \in 1 .. n
  BY <1>n DEF IsPackState
<1>7. Begun(f) = DOMAIN heap[f.table] /\ Done(f) = DOMAIN heap[f.table]
  BY <1>2 DEF Begun, Done
<1>8. /\ f.pairs = Cardinality(Done(f)) /\ f.cell \in 1 .. s.size
      /\ src[f.cell] = [value |-> <<"table", f.table>>, depth |-> n - 1]
      /\ Holder(s, n) = <<"table", f.table>>
  BY <1>2, <1>6 DEF IsFrameOf
<1>9. Current(x) = <<"table", f.table>>
  <2>1. CASE n = 1
    <3>1. x.stack = <<>>
      BY <2>1, <1>3, <1>5 DEF InCall, PackStates
    <3> QED
      BY <3>1, <2>1, <1>4, <1>8 DEF Current, Holder
  <2>2. CASE n # 1
    <3>1. x.stack # <<>> /\ x.stack \in Seq(PackFrames)
      BY <2>2, <1>3, <1>5 DEF InCall, PackStates
    <3>2. Last(x.stack) = s.stack[n - 1]
      <4>1. n - 1 \in 1 .. n - 1
        BY <2>2
      <4> QED
        BY <4>1, <3>1, <1>5, FrontLemma
    <3> QED
      BY <3>1, <3>2, <2>2, <1>8 DEF Current, Holder
  <2> QED
    BY <2>1, <2>2
<1> QED
  BY <1>2, <1>3, <1>4, <1>5, <1>7, <1>8, <1>9

(* What lies below it and inside it was written. *)
LEMMA EndCovered ==
  ASSUME NEW s \in PackStates, AtEnd(s), IsCovered(s),
         NEW x, x = [s EXCEPT !.stack = Front(@)],
         NEW f, f = Last(s.stack)
  PROVE  IsCovered(x) /\ \A v \in Parts(f.table) : Written(v, Len(x.stack) + 1)
<1>1. s.stack # <<>> /\ s.stack \in Seq(PackFrames)
  BY DEF AtEnd, PackStates
<1>n. PICK n \in Nat \ {0} : n = Len(s.stack)
  BY <1>1
<1>2. f = s.stack[n] /\ f.at = "next" /\ f.left = {} /\ n \in 1 .. n
  BY <1>1, <1>n, FrontLemma DEF AtEnd
<1>3. x.stack = Front(s.stack) /\ x.arg = s.arg
  BY DEF PackStates
<1>4. Len(x.stack) = n - 1 /\ \A i \in 1 .. n - 1 : x.stack[i] = s.stack[i]
  BY <1>1, <1>3, <1>n, FrontLemma
<1>5. IsCovered(x)
  <2>1. \A i \in 1 .. n - 1 : i \in 1 .. n
    OBVIOUS
  <2> QED
    BY <2>1, <1>3, <1>4, <1>n DEF IsCovered
<1>6. /\ \A k \in Begun(f) : Written(k, n)
      /\ \A k \in Done(f) : Written(heap[f.table][k], n)
  BY <1>2, <1>n DEF IsCovered
<1>7. Begun(f) = DOMAIN heap[f.table] /\ Done(f) = DOMAIN heap[f.table]
  BY <1>2 DEF Begun, Done
<1>8. \A v \in Parts(f.table) : Written(v, n)
  BY <1>6, <1>7 DEF Parts
<1>9. Len(x.stack) + 1 = n
  BY <1>4
<1> QED
  BY <1>5, <1>8, <1>9

LEMMA EndCell ==
  ASSUME TypeOK, Cells, Same, src' = src, sent = "packing", sent' = "packing",
         NEW c \in 1 .. Len(src), NEW z, z = Cell(c)',
         \A p \in 1 .. Len(src) \ {c} : Open(p)' <=> Open(p),
         pack'.size = pack.size,
         buff' = [buff EXCEPT !.cells[c] = z]
  PROVE  Cells'
<1>1. PICK n : n = Len(src)
  OBVIOUS
<1>2. PICK q : q = [p \in 1 .. n |-> Cell(p)]
  OBVIOUS
<1>3. PICK r : r = [p \in 1 .. n |-> Cell(p)']
  OBVIOUS
<1>4. [q EXCEPT ![c] = z] = r
  <2>1. \A p \in 1 .. n \ {c} : Cell(p)' = Cell(p)
    BY <1>1, CellStable
  <2> QED
    BY <2>1, <1>1, <1>2, <1>3
<1>5. PICK a : a = Argc(Len(args))
  OBVIOUS
<1>6. buff = [argc |-> a, cells |-> q]
  BY <1>1, <1>2, <1>5 DEF Cells
<1>7. buff' = [argc |-> a, cells |-> r]
  BY <1>4, <1>6
<1>8. Argc(Len(args))' = a
  BY <1>5 DEF Argc, Same
<1>9. pack'.size = Len(src')
  BY DEF Cells
<1> QED
  BY <1>1, <1>3, <1>7, <1>8, <1>9 DEF Cells

LEMMA EndStep ==
  ASSUME IInv, EndOfTable
  PROVE  IInv'
<1> USE DEF IInv
<1>1. /\ Same /\ sent = "packing" /\ sent' = "packing" /\ src' = src /\ Longer
      /\ AtEnd(pack) /\ Goto(AfterEnd(pack))
  BY DEF EndOfTable, Same, Longer, TypeOK
<1>2. PICK s \in PackStates : s = pack /\ IsPackState(s)
  BY LastState
<1>3. IsCovered(s) /\ AtEnd(s) /\ s.size = Len(src)
  BY <1>1, <1>2 DEF Coverage, Cells
<1>4. PICK x : x = [s EXCEPT !.stack = Front(@)]
  OBVIOUS
<1>5. PICK f : f = Last(s.stack)
  OBVIOUS
<1>6. /\ InCall(x) /\ x.size = s.size /\ IsCovered(x)
      /\ f \in PackFrames /\ f.cell \in 1 .. s.size
      /\ src[f.cell] = [value |-> <<"table", f.table>>, depth |-> Len(x.stack)]
      /\ Current(x) = <<"table", f.table>>
      /\ f.pairs = Cardinality(DOMAIN heap[f.table])
      /\ \A v \in Parts(f.table) : Written(v, Len(x.stack) + 1)
  <2>1. /\ InCall(x) /\ x.size = s.size
        /\ f \in PackFrames /\ f.cell \in 1 .. s.size
        /\ src[f.cell] = [value |-> <<"table", f.table>>, depth |-> Len(x.stack)]
        /\ Current(x) = <<"table", f.table>>
        /\ f.pairs = Cardinality(DOMAIN heap[f.table])
    BY <1>2, <1>3, <1>4, <1>5, EndFacts
  <2>2. IsCovered(x) /\ \A v \in Parts(f.table) : Written(v, Len(x.stack) + 1)
    BY <1>2, <1>3, <1>4, <1>5, EndCovered
  <2> QED
    BY <2>1, <2>2
<1>7. PICK r \in PackStates : r = Return(x) /\ IsPackState(r) /\ r.size = s.size
  <2>1. x \in PackStates
    BY <1>6 DEF InCall
  <2> QED
    BY <2>1, <1>6, ReturnState, ReturnLemma DEF TypeOK
<1>8. r = AfterEnd(s)
  BY <1>4, <1>7 DEF AfterEnd
<1>9. pack' = r /\ trail' = Append(trail, r) /\ trail' \in Seq(PackStates)
  BY <1>1, <1>2, <1>8 DEF Goto, TypeOK
<1>10. IsPackState(r)'
  <2>1. r.size <= r.size /\ r.size <= Len(src')
    BY <1>1, <1>3, <1>7 DEF PackStates
  <2> QED
    BY <2>1, <1>1, <1>7, StateStable DEF TypeOK
<1>11. IsPackStep(s, r)'
  BY <1>3, <1>8 DEF IsPackStep
<1>12. Trail'
  BY <1>1, <1>2, <1>9, <1>10, <1>11, TrailGrows
<1>13. \A p : Open(p)' <=> Open(p) /\ p # f.cell
  <2>1. \A p : Open(p)' <=> p \in OpenCells(r)
    BY <1>9 DEF Open, OpenCells
  <2>2. \A p : Open(p) <=> p \in OpenCells(s)
    BY <1>2 DEF Open, OpenCells
  <2>3. OpenCells(r) = OpenCells(s) \ {f.cell}
    BY <1>2, <1>3, <1>5, <1>8, OpenAfterEnd
  <2> QED
    BY <2>1, <2>2, <2>3
<1>14. Cells'
  <2>1. PICK c, z : c = f.cell /\ z = <<"table", f.pairs>>
    OBVIOUS
  <2>2. z = Cell(c)'
    <3>1. src'[c].value = <<"table", f.table>>
      BY <2>1, <1>1, <1>6
    <3>2. ~Open(c)'
      BY <2>1, <1>13
    <3>3. f.pairs = Cardinality(DOMAIN heap'[f.table])
      BY <1>1, <1>6 DEF Same
    <3> QED
      BY <2>1, <3>1, <3>2, <3>3 DEF Cell, IsTableCell
  <2>3. buff' = [buff EXCEPT !.cells[c] = z]
    BY <2>1, <1>2, <1>5 DEF EndOfTable, PairCount
  <2>4. c \in 1 .. Len(src) /\ pack'.size = pack.size
    BY <2>1, <1>2, <1>3, <1>6, <1>7, <1>9
  <2>5. \A p \in 1 .. Len(src) \ {c} : Open(p)' <=> Open(p)
    BY <2>1, <1>13
  <2> QED
    BY <2>2, <2>3, <2>4, <2>5, <1>1, EndCell
<1>15. Coverage'
  <2>0. src' \in Seq([value : AnyValue, depth : Nat]) /\ src \in Seq([value : AnyValue, depth : Nat])
    BY <1>1 DEF TypeOK
  <2>1. IsCovered(r)'
    <3>1. PICK v : v = Current(x)
      OBVIOUS
    <3>2. Written(v, Len(x.stack))
      <4>1. src[f.cell] = [value |-> v, depth |-> Len(x.stack)] /\ f.cell \in 1 .. Len(src)
        BY <3>1, <1>3, <1>6
      <4> QED
        BY <4>1 DEF Written, ToSet
    <3>3. Written(v, Len(x.stack))'
      BY <3>2, <1>1 DEF Written
    <3>4. Current(x)' = v
      BY <3>1, <1>1, OperatorsStable
    <3>5. Written(Current(x), Len(x.stack))'
      BY <3>3, <3>4
    <3> QED
      BY <3>5, <2>0, <1>1, <1>6, <1>7, ReturnCovered
  <2>3. ASSUME NEW p \in 1 .. Len(src)
        PROVE  /\ src'[p].depth <= MaxDepth
               /\ Supported(src'[p].value)
               /\ IsTableCell(p)' => \/ Open(p)'
                                     \/ \A v \in Parts(src[p].value[2])' : Written(v, src[p].depth + 1)'
    <3>1. CASE p = f.cell
      <4>1. src'[p].value[2] = f.table /\ src'[p].depth = Len(x.stack)
        BY <3>1, <1>1, <1>6
      <4>2. Parts(f.table)' = Parts(f.table)
        BY <1>1 DEF Parts, Same
      <4>3. \A v \in Parts(f.table)' : Written(v, Len(x.stack) + 1)'
        BY <4>2, <1>1, <1>6 DEF Written
      <4>4. \A v \in Parts(src[p].value[2])' : Written(v, src[p].depth + 1)'
        BY <4>1, <4>3
      <4>5. src[p].depth <= MaxDepth /\ Supported(src[p].value)
        BY DEF Coverage
      <4> QED
        BY <4>4, <4>5, <1>1
    <3>2. CASE p # f.cell
      <4>1. Open(p) => Open(p)'
        BY <3>2, <1>13
      <4> QED
        BY <4>1, <2>0, <1>1, CellsCovered
    <3> QED
      BY <3>1, <3>2
  <2> QED
    BY <2>1, <2>3, <1>1, <1>9 DEF Coverage
<1> QED
  <2>1. UNCHANGED <<heap, args, call, sent, receiver>>
    BY DEF EndOfTable
  <2>2. src' \in Seq([value : AnyValue, depth : Nat])
    BY <1>1 DEF TypeOK
  <2> QED
    BY <2>1, <2>2, <1>1, <1>9, <1>12, <1>14, <1>15, PackingStep

-----------------------------------------------------------------------------
(* What Lua does before it sends. *)

(* Nothing was written yet. *)
LEMMA Before ==
  ASSUME IInv, sent = "none"
  PROVE  /\ pack = [arg |-> 1, stack |-> <<>>, size |-> 0] /\ trail = <<pack>>
         /\ src = <<>> /\ result = "none" /\ buff = NoBuff
<1>1. trail = <<pack>> /\ result = "none"
  BY DEF IInv, Outcome, Reading
<1>2. pack = [arg |-> 1, stack |-> <<>>, size |-> 0]
  BY <1>1 DEF IInv, Trail
<1>3. src \in Seq([value : AnyValue, depth : Nat]) /\ Len(src) = 0
  BY <1>2 DEF IInv, TypeOK, Cells
<1>4. src = <<>>
  BY <1>3
<1>5. buff = [argc |-> 0, cells |-> [p \in 1 .. 0 |-> Cell(p)]]
  BY <1>3 DEF IInv, Cells
<1>6. [p \in 1 .. 0 |-> Cell(p)] = <<>>
  OBVIOUS
<1> QED
  BY <1>1, <1>2, <1>4, <1>5, <1>6 DEF NoBuff

(* The state of PackValue before it is called, whatever the tables are. *)
LEMMA StartLemma ==
  ASSUME pack' = [arg |-> 1, stack |-> <<>>, size |-> 0], trail' = <<pack'>>,
         src' = <<>>, args' \in Seq(Value)
  PROVE  Trail' /\ Coverage'
<1>1. PICK s : s = [arg |-> 1, stack |-> <<>>, size |-> 0]
  OBVIOUS
<1>2. s.arg = 1 /\ s.stack = <<>> /\ s.size = 0
  BY <1>1
<1>3. IsPackState(s)'
  BY <1>2 DEF IsPackState
<1>4. Len(trail') = 1 /\ trail'[1] = s /\ Last(trail') = s /\ trail' # <<>>
  BY <1>1 DEF Last
<1>5. \A k \in 1 .. Len(trail') : k = 1
  BY <1>4
<1>6. \A k \in 1 .. Len(trail') : IsPackState(trail[k])'
  BY <1>3, <1>4, <1>5
<1>7. 1 .. Len(trail') - 1 = {}
  BY <1>4
<1>8. Trail'
  BY <1>1, <1>4, <1>6, <1>7 DEF Trail
<1>9. 1 .. s.arg - 1 = {} /\ 1 .. Len(s.stack) = {} /\ 1 .. Len(src') = {}
  BY <1>2
<1>10. Coverage'
  BY <1>1, <1>9 DEF Coverage, IsCovered
<1> QED
  BY <1>8, <1>10

LEMMA SetTableStep ==
  ASSUME IInv, NEW t \in Tables, NEW k \in Key, NEW v \in Value, SetTable(t, k, v)
  PROVE  IInv'
<1>1. /\ sent = "none" /\ sent' = "none"
      /\ heap' = [heap EXCEPT ![t] = [x \in DOMAIN heap[t] \union {k} |-> IF x = k THEN v ELSE heap[t][x]]]
      /\ UNCHANGED <<args, call, buff, pack, src, trail, receiver>>
  BY DEF SetTable
<1>2. /\ pack = [arg |-> 1, stack |-> <<>>, size |-> 0] /\ trail = <<pack>>
      /\ src = <<>> /\ result = "none" /\ buff = NoBuff
  BY <1>1, Before
<1>3. Trail' /\ Coverage'
  BY <1>1, <1>2, StartLemma DEF IInv, TypeOK
<1>4. ASSUME NEW u \in Tables
      PROVE  /\ heap'[u] \in [DOMAIN heap'[u] -> Value] /\ DOMAIN heap'[u] \subseteq Key
             /\ IsFiniteSet(DOMAIN heap'[u])
  <2>1. /\ heap[u] \in [DOMAIN heap[u] -> Value] /\ DOMAIN heap[u] \subseteq Key
        /\ IsFiniteSet(DOMAIN heap[u]) /\ DOMAIN heap = Tables
    BY DEF IInv, TypeOK
  <2>2. CASE u = t
    <3>1. heap'[u] = [x \in DOMAIN heap[u] \union {k} |-> IF x = k THEN v ELSE heap[u][x]]
      BY <2>1, <2>2, <1>1
    <3>2. IsFiniteSet(DOMAIN heap[u] \union {k})
      BY <2>1, FS_AddElement
    <3> QED
      BY <2>1, <3>1, <3>2
  <2>3. CASE u # t
    BY <2>1, <2>3, <1>1
  <2> QED
    BY <2>2, <2>3
<1>5. TypeOK'
  BY <1>1, <1>4 DEF IInv, TypeOK, receiver
<1>6. Cells'
  <2>1. 1 .. Len(src') = {} /\ Len(src') = 0
    BY <1>1, <1>2
  <2>2. [p \in 1 .. Len(src') |-> Cell(p)'] = <<>>
    BY <2>1
  <2> QED
    BY <2>1, <2>2, <1>1, <1>2 DEF Cells, NoBuff
<1>7. Outcome' /\ Reading' /\ ArgumentsArrive'
  BY <1>1, <1>2 DEF IInv, Outcome, Reading, ArgumentsArrive, receiver
<1> QED
  BY <1>3, <1>5, <1>6, <1>7 DEF IInv

LEMMA PushStep ==
  ASSUME IInv, NEW v \in Value, Push(v)
  PROVE  IInv'
<1>1. /\ sent = "none" /\ sent' = "none" /\ args' = Append(args, v)
      /\ UNCHANGED <<heap, call, buff, pack, src, trail, receiver>>
  BY DEF Push
<1>2. /\ pack = [arg |-> 1, stack |-> <<>>, size |-> 0] /\ trail = <<pack>>
      /\ src = <<>> /\ result = "none" /\ buff = NoBuff
  BY <1>1, Before
<1>3. args' \in Seq(Value)
  BY <1>1 DEF IInv, TypeOK
<1>4. Trail' /\ Coverage'
  BY <1>1, <1>2, <1>3, StartLemma
<1>5. TypeOK'
  BY <1>1, <1>3 DEF IInv, TypeOK, receiver
<1>6. Cells'
  <2>1. 1 .. Len(src') = {} /\ Len(src') = 0
    BY <1>1, <1>2
  <2>2. [p \in 1 .. Len(src') |-> Cell(p)'] = <<>>
    BY <2>1
  <2> QED
    BY <2>1, <2>2, <1>1, <1>2 DEF Cells, NoBuff
<1>7. Outcome' /\ Reading' /\ ArgumentsArrive'
  BY <1>1, <1>2 DEF IInv, Outcome, Reading, ArgumentsArrive, receiver
<1> QED
  BY <1>4, <1>5, <1>6, <1>7 DEF IInv

LEMMA BeginStep ==
  ASSUME IInv, NEW function \in {"Send", "Call", "Ret"}, Begin(function)
  PROVE  IInv'
<1>1. /\ sent = "none" /\ sent' = "packing" /\ call' = function
      /\ buff' = [buff EXCEPT !.argc = Argc(Len(args))]
      /\ UNCHANGED <<heap, args, pack, src, trail, receiver>>
  BY DEF Begin
<1>2. /\ pack = [arg |-> 1, stack |-> <<>>, size |-> 0] /\ trail = <<pack>>
      /\ src = <<>> /\ result = "none" /\ buff = NoBuff
  BY <1>1, Before
<1>3. Trail' /\ Coverage'
  BY <1>1, <1>2, StartLemma DEF IInv, TypeOK
<1>4. TypeOK'
  BY <1>1 DEF IInv, TypeOK, receiver
<1>5. Cells'
  <2>1. 1 .. Len(src') = {} /\ Len(src') = 0
    BY <1>1, <1>2
  <2>2. [p \in 1 .. Len(src') |-> Cell(p)'] = <<>>
    BY <2>1
  <2>3. Argc(Len(args))' = Argc(Len(args))
    BY <1>1 DEF Argc
  <2>4. buff' = [argc |-> Argc(Len(args)), cells |-> <<>>]
    BY <1>1, <1>2 DEF NoBuff
  <2> QED
    BY <2>1, <2>2, <2>3, <2>4, <1>1, <1>2 DEF Cells
<1>6. Outcome' /\ Reading' /\ ArgumentsArrive'
  BY <1>1, <1>2 DEF IInv, Outcome, Reading, ArgumentsArrive, receiver
<1> QED
  BY <1>3, <1>4, <1>5, <1>6 DEF IInv

LEMMA InitInv ==
  Init => IInv
<1> SUFFICES ASSUME Init PROVE IInv
  OBVIOUS
<1>1. PICK s : s = [arg |-> 1, stack |-> <<>>, size |-> 0]
  OBVIOUS
<1>2. s.arg = 1 /\ s.stack = <<>> /\ s.size = 0 /\ s \in PackStates /\ pack = s
  BY <1>1 DEF Init, PackStates
<1>3. TypeOK
  <2>1. \A t \in Tables : /\ heap[t] \in [DOMAIN heap[t] -> Value] /\ DOMAIN heap[t] \subseteq Key
                         /\ IsFiniteSet(DOMAIN heap[t])
    BY FS_EmptySet DEF Init, NoEntries
  <2>2. DOMAIN heap = Tables
    BY DEF Init
  <2>3. trail \in Seq(PackStates) /\ src \in Seq([value : AnyValue, depth : Nat])
    BY <1>2 DEF Init
  <2>4. /\ unpack \in UnpackStates /\ got \in Seq(Received) /\ args \in Seq(Value)
        /\ \A p \in DOMAIN tables : IsFiniteSet(DOMAIN tables[p])
    BY DEF Init, UnpackStates, NoEntries
  <2> QED
    BY <2>1, <2>2, <2>3, <2>4, <1>2 DEF TypeOK, Init
<1>4. Trail /\ Coverage
  <2>1. IsPackState(s)
    BY <1>2 DEF IsPackState, Init
  <2>2. Len(trail) = 1 /\ trail[1] = s /\ Last(trail) = s /\ trail # <<>>
    BY <1>2 DEF Last, Init
  <2>3. \A k \in 1 .. Len(trail) : k = 1
    BY <2>2
  <2>4. \A k \in 1 .. Len(trail) : IsPackState(trail[k])
    BY <2>1, <2>2, <2>3
  <2>5. 1 .. Len(trail) - 1 = {}
    BY <2>2
  <2>6. 1 .. s.arg - 1 = {} /\ 1 .. Len(s.stack) = {} /\ 1 .. Len(src) = {}
    BY <1>2 DEF Init
  <2> QED
    BY <2>2, <2>4, <2>5, <2>6, <1>1, <1>2 DEF Trail, Coverage, IsCovered
<1>5. Cells
  <2>1. 1 .. Len(src) = {} /\ Len(src) = 0
    BY DEF Init
  <2>2. [p \in 1 .. Len(src) |-> Cell(p)] = <<>>
    BY <2>1
  <2> QED
    BY <2>1, <2>2, <1>2 DEF Cells, Init, NoBuff
<1>6. Outcome /\ Reading /\ ArgumentsArrive
  BY DEF Init, Outcome, Reading, ArgumentsArrive
<1> QED
  BY <1>3, <1>4, <1>5, <1>6 DEF IInv

-----------------------------------------------------------------------------
(* Chains of tables, each inside the one before it. *)

LEMMA LeastNatural ==
  ASSUME NEW B \in SUBSET Nat, B # {}
  PROVE  \E m \in B : \A k \in B : m <= k
<1>1. PICK R : R = {ss \in Nat \X Nat : ss[1] < ss[2]}
  OBVIOUS
<1>2. IsWellFoundedOn(R, Nat)
  BY <1>1, NatLessThanWellFounded, Zenon DEF OpToRel
<1>3. PICK m \in B : \A k \in B : <<k, m>> \notin R
  BY <1>2, WFMin, Zenon
<1>4. \A k \in B : k \in Nat /\ m \in Nat
  OBVIOUS
<1>5. ASSUME NEW k \in B  PROVE  ~(k < m)
  <2>1. <<k, m>> \in Nat \X Nat /\ <<k, m>>[1] = k /\ <<k, m>>[2] = m
    BY <1>4
  <2> QED
    BY <2>1, <1>1, <1>3
<1> QED
  BY <1>4, <1>5

LEMMA InsideLemma ==
  ASSUME NEW n \in Nat, NEW chain \in [1 .. n -> Tables]
  PROVE  /\ Inside(SubSeq(chain, 1, 0)) = ToSet(args)
         /\ \A i \in 1 .. n : Inside(SubSeq(chain, 1, i)) = Parts(chain[i])
         /\ SubSeq(chain, 1, n) = chain
         /\ DOMAIN chain = 1 .. n
<1>1. chain \in Seq(Tables) /\ Len(chain) = n /\ DOMAIN chain = 1 .. n
  OBVIOUS
<1>2. SubSeq(chain, 1, 0) = <<>>
  BY <1>1
<1>3. ASSUME NEW i \in 1 .. n  PROVE  Inside(SubSeq(chain, 1, i)) = Parts(chain[i])
  <2>1. PICK c : c = SubSeq(chain, 1, i)
    OBVIOUS
  <2>2. c \in Seq(Tables) /\ Len(c) = i /\ c[i] = chain[i] /\ c # <<>>
    BY <1>1, <2>1
  <2>3. Last(c) = chain[i]
    BY <2>2 DEF Last
  <2> QED
    BY <2>1, <2>2, <2>3 DEF Inside
<1>4. SubSeq(chain, 1, n) = chain
  BY <1>1
<1> QED
  BY <1>1, <1>2, <1>3, <1>4 DEF Inside

LEMMA SrcValues ==
  ASSUME src \in Seq([value : AnyValue, depth : Nat]), NEW p \in 1 .. Len(src)
  PROVE  src[p].value \in AnyValue
<1>1. src[p] \in [value : AnyValue, depth : Nat]
  BY ElementLemma, Zenon
<1> QED
  BY <1>1

LEMMA WrittenAt ==
  ASSUME TypeOK
  PROVE  /\ \A v, d : Written(v, d) => \E p \in 1 .. Len(src) : src[p] = [value |-> v, depth |-> d]
         /\ \A v \in ToSet(args) : \E i \in 1 .. Len(args) : v = args[i]
<1>1. src \in Seq([value : AnyValue, depth : Nat]) /\ args \in Seq(Value)
  BY DEF TypeOK
<1>2. DOMAIN src = 1 .. Len(src) /\ DOMAIN args = 1 .. Len(args)
  BY <1>1
<1> QED
  BY <1>2 DEF Written, ToSet

(* A table whose call has not returned is inside those before it. *)
LEMMA StackIsChain ==
  ASSUME TypeOK, NEW x, InCall(x), NEW n \in Nat, n = Len(x.stack),
         NEW chain, chain = [i \in 1 .. n |-> x.stack[i].table]
  PROVE  chain \in [1 .. n -> Tables] /\ IsChain(chain) /\ Current(x) \in Inside(chain)
<1>1. x \in PackStates /\ x.arg \in 1 .. Len(args)
  BY DEF InCall
<1>2. \A i \in 1 .. n : x.stack[i] \in PackFrames
  BY <1>1 DEF PackStates
<1>3. chain \in [1 .. n -> Tables]
  BY <1>2 DEF PackFrames
<1>4. args[x.arg] \in ToSet(args)
  BY <1>1, SMTT(30) DEF TypeOK, ToSet
<1>5. ASSUME NEW i \in 1 .. n  PROVE  Item(x.stack[i]) \in Parts(chain[i])
  <2>1. x.stack[i].key \in DOMAIN heap[x.stack[i].table]
    BY DEF InCall, IsFrameOf
  <2> QED
    BY <2>1 DEF Item, Parts
<1>6. ASSUME NEW i \in 1 .. n  PROVE  <<"table", chain[i]>> \in Inside(SubSeq(chain, 1, i - 1))
  <2>1. Holder(x, i) = <<"table", chain[i]>>
    BY DEF InCall, IsFrameOf
  <2>2. CASE i = 1
    <3>1. i - 1 = 0
      BY <2>2
    <3> QED
      BY <3>1, <2>1, <2>2, <1>3, <1>4, InsideLemma DEF Holder
  <2>3. CASE i # 1
    <3>1. PICK j \in 1 .. n : j = i - 1
      BY <2>3
    <3>2. Holder(x, i) \in Parts(chain[j])
      BY <3>1, <2>3, <1>5 DEF Holder
    <3>3. Inside(SubSeq(chain, 1, j)) = Parts(chain[j])
      BY <1>3, InsideLemma
    <3> QED
      BY <3>1, <3>2, <3>3, <2>1
  <2> QED
    BY <2>2, <2>3
<1>7. Current(x) \in Inside(chain)
  <2>1. CASE n = 0
    <3>1. x.stack = <<>>
      <4>1. x.stack \in Seq(PackFrames) /\ Len(x.stack) = 0
        BY <2>1, <1>1 DEF PackStates
      <4> QED
        BY <4>1
    <3>2. Inside(chain) = ToSet(args)
      <4>1. SubSeq(chain, 1, n) = chain /\ Inside(SubSeq(chain, 1, 0)) = ToSet(args)
        BY <1>3, InsideLemma
      <4> QED
        BY <4>1, <2>1
    <3> QED
      BY <3>1, <3>2, <1>4 DEF Current
  <2>2. CASE n # 0
    <3>1. x.stack # <<>> /\ x.stack \in Seq(PackFrames) /\ n \in 1 .. n
      BY <2>2, <1>1 DEF PackStates
    <3>2. Last(x.stack) = x.stack[n]
      BY <3>1, FrontLemma
    <3>3. Inside(chain) = Parts(chain[n])
      <4>1. SubSeq(chain, 1, n) = chain
        BY <1>3, InsideLemma
      <4>2. Inside(SubSeq(chain, 1, n)) = Parts(chain[n])
        BY <3>1, <1>3, InsideLemma
      <4> QED
        BY <4>1, <4>2
    <3> QED
      BY <3>1, <3>2, <3>3, <1>5 DEF Current
  <2> QED
    BY <2>1, <2>2
<1> QED
  BY <1>3, <1>6, <1>7, InsideLemma DEF IsChain

(* The message does not change once PackValue has failed or returned. *)
LEMMA SenderSame ==
  ASSUME IInv, UNCHANGED <<heap, args, buff, pack, src, trail>>, sent' = "none" <=> sent = "none"
  PROVE  Trail' /\ Cells' /\ Coverage'
<1> USE DEF IInv
<1>1. Same /\ Longer /\ src' = src /\ src' \in Seq([value : AnyValue, depth : Nat])
  BY DEF Same, Longer, TypeOK
<1>n. PICK n \in Nat \ {0} : n = Len(trail)
  <2>1. trail \in Seq(PackStates) /\ trail # <<>>
    BY DEF Trail, TypeOK
  <2> QED
    BY <2>1
<1>2. ASSUME NEW k \in 1 .. n  PROVE  IsPackState(trail[k])'
  <2>1. PICK q \in PackStates : q = trail[k] /\ IsPackState(q)
    BY <1>n DEF TypeOK, Trail
  <2>2. q.size <= q.size /\ q.size <= Len(src')
    BY <2>1, <1>1 DEF IsPackState, PackStates
  <2>3. IsPackState(q)'
    BY <2>1, <2>2, <1>1, StateStable
  <2> QED
    BY <2>1, <2>3
<1>3. ASSUME NEW k \in 1 .. n - 1  PROVE  IsPackStep(trail[k], trail[k + 1])'
  <2>1. k \in 1 .. n /\ k + 1 \in 1 .. n /\ k \in 1 .. Len(trail) - 1
    BY <1>n
  <2>2. PICK q \in PackStates, p \in PackStates : q = trail[k] /\ p = trail[k + 1]
    BY <2>1, <1>n DEF TypeOK
  <2>3. IsPackStep(q, p) /\ IsPackState(p)
    BY <2>1, <2>2, <1>n DEF Trail
  <2>4. p.size <= Len(src)
    BY <2>3 DEF IsPackState
  <2>5. IsPackStep(q, p)'
    BY <2>3, <2>4, <1>1, StepStable
  <2> QED
    BY <2>2, <2>5
<1>4. Trail'
  BY <1>2, <1>3, <1>n DEF Trail
<1>5. \A p : Open(p)' <=> Open(p)
  BY DEF Open
<1>6. Cells'
  <2>1. \A p \in 1 .. Len(src) : Cell(p)' = Cell(p)
    BY <1>1, <1>5, CellStable
  <2>2. Argc(Len(args))' = Argc(Len(args))
    BY DEF Argc
  <2> QED
    BY <2>1, <2>2, <1>1 DEF Cells
<1>7. Coverage'
  <2>1. PICK s \in PackStates : s = pack
    BY DEF TypeOK
  <2>2. IsCovered(s)'
    BY <2>1, <1>1, CoveredStable DEF Coverage
  <2>3. ASSUME NEW p \in 1 .. Len(src)
        PROVE  /\ src'[p].depth <= MaxDepth
               /\ Supported(src'[p].value)
               /\ IsTableCell(p)' => \/ Open(p)'
                                     \/ \A v \in Parts(src[p].value[2])' : Written(v, src[p].depth + 1)'
    BY <1>1, <1>5, CellsCovered
  <2> QED
    BY <2>1, <2>2, <2>3, <1>1 DEF Coverage
<1> QED
  BY <1>4, <1>6, <1>7

LEMMA FailsStep ==
  ASSUME IInv, PackFails
  PROVE  IInv'
<1>1. /\ sent = "packing" /\ sent' \in {"dropped", "error"}
      /\ UNCHANGED <<heap, args, call, buff, pack, src, trail, receiver>>
  BY DEF PackFails
<1>2. PICK x \in Calls(pack) : TooDeep(Len(x.stack)) \/ ~Supported(Current(x))
  BY DEF PackFails
<1>3. PICK s \in PackStates : s = pack /\ IsPackState(s)
  BY LastState DEF IInv
<1>4. InCall(x) /\ x.size = s.size
  BY <1>3, CallsInCall, CallsLemma
<1>5. PICK n \in Nat : n = Len(x.stack)
  BY <1>4 DEF InCall, PackStates
<1>6. PICK chain : chain = [i \in 1 .. n |-> x.stack[i].table]
  OBVIOUS
<1>7. chain \in [1 .. n -> Tables] /\ IsChain(chain) /\ Current(x) \in Inside(chain)
  BY <1>4, <1>5, <1>6, StackIsChain DEF IInv
<1>8. n \in 0 .. MaxDepth + 1
  <2>1. CASE n = 0
    BY <2>1
  <2>2. CASE n # 0
    <3>1. n \in 1 .. n
      BY <2>2
    <3>5. IsFrameOf(x, n)
      BY <3>1, <1>4, <1>5 DEF InCall
    <3>6. PICK c : c = x.stack[n].cell
      OBVIOUS
    <3>2. c \in 1 .. x.size /\ src[c].depth = n - 1
      BY <3>5, <3>6 DEF IsFrameOf
    <3>3. c \in 1 .. Len(src)
      <4>1. x.size \in Nat /\ x.size <= Len(src)
        BY <1>4 DEF InCall, PackStates
      <4>2. Len(src) \in Nat
        BY DEF IInv, TypeOK
      <4> QED
        BY <4>1, <4>2, <3>2
    <3>4. src[c].depth <= MaxDepth
      BY <3>3 DEF IInv, Coverage
    <3> QED
      BY <3>2, <3>4
  <2> QED
    BY <2>1, <2>2
<1>9. n > MaxDepth \/ ~Supported(Current(x))
  BY <1>2, <1>5 DEF TooDeep
<1>10. Unpackable
  BY <1>7, <1>8, <1>9 DEF Unpackable
<1>11. Unpackable'
  <2>1. \A c : Inside(c)' = Inside(c)
    BY <1>1 DEF Inside, Parts
  <2>2. \A c : IsChain(c)' <=> IsChain(c)
    BY <2>1 DEF IsChain
  <2> QED
    BY <2>1, <2>2, <1>10 DEF Unpackable
<1>12. Trail' /\ Cells' /\ Coverage'
  BY <1>1, SenderSame
<1>14. TypeOK'
  BY <1>1 DEF IInv, TypeOK, receiver
<1>13. Outcome' /\ Reading' /\ ArgumentsArrive'
  BY <1>1, <1>11 DEF IInv, Outcome, Reading, ArgumentsArrive, receiver
<1> QED
  BY <1>12, <1>13, <1>14 DEF IInv

LEMMA PackReturnsStep ==
  ASSUME IInv, PackReturns
  PROVE  IInv'
<1>1. /\ sent = "packing" /\ sent' = "sent" /\ pack.stack = <<>> /\ pack.arg > Len(args)
      /\ UNCHANGED <<heap, args, call, buff, pack, src, trail, receiver>>
  BY DEF PackReturns
<1>2. pack.arg = Len(args) + 1
  <2>1. pack.arg \in 1 .. Len(args) + 1 /\ Len(args) \in Nat
    BY LastState DEF IsPackState, IInv, TypeOK
  <2> QED
    BY <2>1, <1>1
<1>3. TypeOK'
  BY <1>1 DEF IInv, TypeOK, receiver
<1>4. Trail' /\ Cells' /\ Coverage'
  BY <1>1, SenderSame
<1>5. Outcome' /\ Reading' /\ ArgumentsArrive'
  BY <1>1, <1>2 DEF IInv, Outcome, Reading, ArgumentsArrive, receiver
<1> QED
  BY <1>3, <1>4, <1>5 DEF IInv

(* Whatever lies in a chain was written at its depth. *)
LEMMA ChainIsWritten ==
  ASSUME IInv, sent = "sent", NEW n \in Nat, NEW chain \in [1 .. n -> Tables], IsChain(chain)
  PROVE  \A i \in 0 .. n : \A v \in Inside(SubSeq(chain, 1, i)) : Written(v, i)
<1> DEFINE B == {i \in 0 .. n : ~\A v \in Inside(SubSeq(chain, 1, i)) : Written(v, i)}
<1>1. SUFFICES ASSUME B # {} PROVE FALSE
  OBVIOUS
<1>2. B \in SUBSET Nat
  OBVIOUS
<1>3. PICK m \in B : \A k \in B : m <= k
  <2> HIDE DEF B
  <2> QED
    BY <1>1, <1>2, LeastNatural
<1>4. m \in 0 .. n /\ ~\A v \in Inside(SubSeq(chain, 1, m)) : Written(v, m)
  OBVIOUS
<1>5. CASE m = 0
  <2>1. Inside(SubSeq(chain, 1, m)) = ToSet(args)
    BY <1>5, InsideLemma
  <2>2. pack.arg - 1 = Len(args)
    BY DEF IInv, Outcome, TypeOK
  <2>3. \A i \in 1 .. Len(args) : Written(args[i], 0)
    <3>1. IsCovered(pack)
      BY DEF IInv, Coverage
    <3> QED
      BY <3>1, <2>2 DEF IsCovered
  <2>4. \A v \in ToSet(args) : Written(v, 0)
    <3>1. TypeOK
      BY DEF IInv
    <3> QED
      BY <3>1, <2>3, WrittenAt
  <2> QED
    BY <2>1, <2>4, <1>4, <1>5
<1>6. CASE m # 0
  <2>1. m - 1 \in 0 .. n /\ m - 1 \notin B /\ m \in 1 .. n
    <3>1. m - 1 \in 0 .. n /\ m \in 1 .. n /\ ~(m <= m - 1)
      BY <1>4, <1>6
    <3> HIDE DEF B
    <3> QED
      BY <3>1, <1>3
  <2>2. \A v \in Inside(SubSeq(chain, 1, m - 1)) : Written(v, m - 1)
    BY <2>1
  <2>3. <<"table", chain[m]>> \in Inside(SubSeq(chain, 1, m - 1))
    BY <2>1, InsideLemma DEF IsChain
  <2>4. Written(<<"table", chain[m]>>, m - 1)
    BY <2>2, <2>3
  <2>5. PICK p \in 1 .. Len(src) : src[p] = [value |-> <<"table", chain[m]>>, depth |-> m - 1]
    <3>1. TypeOK
      BY DEF IInv
    <3> QED
      BY <3>1, <2>4, WrittenAt
  <2>6. ~Open(p)
    BY DEF IInv, Outcome, Open
  <2>7. IsTableCell(p) /\ src[p].value[2] = chain[m] /\ src[p].depth + 1 = m
    BY <2>1, <2>5 DEF IsTableCell
  <2>8. \A v \in Parts(chain[m]) : Written(v, m)
    BY <2>6, <2>7 DEF IInv, Coverage
  <2>9. Inside(SubSeq(chain, 1, m)) = Parts(chain[m])
    BY <2>1, InsideLemma
  <2> QED
    BY <2>8, <2>9, <1>4
<1> QED
  BY <1>5, <1>6

LEMMA SentIsPackable ==
  IInv => PackFailsOnlyForTypeOrDepth
<1> SUFFICES ASSUME IInv, sent = "sent", Unpackable  PROVE FALSE
  BY DEF IInv, Outcome, PackFailsOnlyForTypeOrDepth
<1>1. PICK n \in 0 .. MaxDepth + 1 : \E chain \in [1 .. n -> Tables] :
        IsChain(chain) /\ \E v \in Inside(chain) : n > MaxDepth \/ ~Supported(v)
  BY DEF Unpackable
<1>2. PICK chain \in [1 .. n -> Tables] :
        IsChain(chain) /\ \E v \in Inside(chain) : n > MaxDepth \/ ~Supported(v)
  BY <1>1
<1>3. PICK v \in Inside(chain) : n > MaxDepth \/ ~Supported(v)
  BY <1>2
<1>4. n \in Nat /\ n \in 0 .. n
  OBVIOUS
<1>5. Inside(SubSeq(chain, 1, n)) = Inside(chain)
  BY <1>4, InsideLemma
<1>6. Written(v, n)
  BY <1>2, <1>4, <1>5, ChainIsWritten
<1>7. PICK p \in 1 .. Len(src) : src[p] = [value |-> v, depth |-> n]
  <2>1. TypeOK
    BY DEF IInv
  <2> QED
    BY <2>1, <1>6, WrittenAt
<1>8. n <= MaxDepth /\ Supported(v)
  BY <1>7 DEF IInv, Coverage
<1> QED
  BY <1>3, <1>4, <1>8

-----------------------------------------------------------------------------
(* Copies. *)

LEMMA SameKeyLemma ==
  ASSUME NEW of, NEW y, NEW k \in AnyValue, IsCopy(of, y, k)
  PROVE  SameKey(of, ToKey(y), k)
<1>1. CASE k[1] = "table"
  BY <1>1 DEF IsCopy, SameKey, ToKey
<1>2. CASE k[1] # "table"
  BY <1>2 DEF IsCopy, SameKey
<1> QED
  BY <1>1, <1>2

(* Two keys become one only when they are scalars that turn into the same number. *)
LEMMA DistinctKeys ==
  ASSUME NEW of, NEW z, NEW k \in AnyValue, NEW l \in AnyValue,
         SameKey(of, z, k), SameKey(of, z, l), k # l
  PROVE  k[1] # "table" /\ l[1] # "table" /\ ToKey(Scalar(k)) = ToKey(Scalar(l))
<1>1. CASE k[1] = "table" /\ l[1] = "table"
  <2>1. of[z[2]] = k[2] /\ of[z[2]] = l[2]
    BY <1>1 DEF SameKey, IsCopy
  <2> QED
    BY <2>1, <1>1, TableValues
<1>2. CASE k[1] = "table" /\ l[1] # "table"
  <2>1. z[1] = "table" /\ z = ToKey(Scalar(l))
    BY <1>2 DEF SameKey, IsCopy
  <2> QED
    BY <2>1, <1>2, ScalarValues
<1>3. CASE k[1] # "table" /\ l[1] = "table"
  <2>1. z[1] = "table" /\ z = ToKey(Scalar(k))
    BY <1>3 DEF SameKey, IsCopy
  <2> QED
    BY <2>1, <1>3, ScalarValues
<1>4. CASE k[1] # "table" /\ l[1] # "table"
  BY <1>4 DEF SameKey
<1> QED
  BY <1>1, <1>2, <1>3, <1>4

(* The keys of ks that stay apart. *)
Apart(ks) ==
    \A k, l \in ks : k # l =>
        (k[1] = "table" \/ l[1] = "table" \/ ToKey(Scalar(k)) # ToKey(Scalar(l)))

(* lua_settable with the copies of a key and its value. *)
LEMMA RawSetLemma ==
  ASSUME NEW of, NEW e, IsFiniteSet(DOMAIN e), NEW t, NEW ks, ks \subseteq AnyValue,
         IsFiniteSet(ks), AreCopies(of, e, t, ks),
         NEW k \in AnyValue, k \notin ks, NEW y, NEW w,
         IsCopy(of, y, k), IsCopy(of, w, heap[t][k])
  PROVE  /\ AreCopies(of, RawSet(e, y, w), t, ks \union {k})
         /\ IsFiniteSet(DOMAIN RawSet(e, y, w))
<1>1. PICK z : z = ToKey(y) /\ SameKey(of, z, k)
  BY SameKeyLemma
<1>2. PICK n : n = RawSet(e, y, w)
  OBVIOUS
<1>3. DOMAIN n = DOMAIN e \union {z} /\ \A a \in DOMAIN n : n[a] = IF a = z THEN w ELSE e[a]
  BY <1>1, <1>2 DEF RawSet
<1>4. IsFiniteSet(DOMAIN n)
  BY <1>3, FS_AddElement
<1>5. /\ \A l \in ks : \E a \in DOMAIN e : SameKey(of, a, l)
      /\ \A a \in DOMAIN e : \E l \in ks : SameKey(of, a, l) /\ IsCopy(of, e[a], heap[t][l])
      /\ Apart(ks) => Cardinality(DOMAIN e) = Cardinality(ks)
  BY DEF AreCopies, Apart
<1>6. \A l \in ks \union {k} : \E a \in DOMAIN n : SameKey(of, a, l)
  BY <1>1, <1>3, <1>5
<1>7. \A a \in DOMAIN n : \E l \in ks \union {k} : SameKey(of, a, l) /\ IsCopy(of, n[a], heap[t][l])
  BY <1>1, <1>3, <1>5
<1>8. ASSUME Apart(ks \union {k})
      PROVE  Cardinality(DOMAIN n) = Cardinality(ks \union {k})
  <2>1. Apart(ks)
    BY <1>8 DEF Apart
  <2>2. z \notin DOMAIN e
    <3>1. SUFFICES ASSUME z \in DOMAIN e PROVE FALSE
      OBVIOUS
    <3>2. PICK l \in ks : SameKey(of, z, l)
      BY <3>1, <1>5
    <3>3. l # k /\ l \in AnyValue
      OBVIOUS
    <3>4. k[1] # "table" /\ l[1] # "table" /\ ToKey(Scalar(k)) = ToKey(Scalar(l))
      BY <3>2, <3>3, <1>1, DistinctKeys
    <3> QED
      BY <3>3, <3>4, <1>8 DEF Apart
  <2>3. Cardinality(DOMAIN n) = Cardinality(DOMAIN e) + 1
    BY <2>2, <1>3, FS_AddElement
  <2>4. Cardinality(ks \union {k}) = Cardinality(ks) + 1
    BY FS_AddElement
  <2> QED
    BY <2>1, <2>3, <2>4, <1>5
<1>9. AreCopies(of, n, t, ks \union {k})
  BY <1>6, <1>7, <1>8 DEF AreCopies, Apart
<1> QED
  BY <1>2, <1>4, <1>9

(* A table that is new to the receiver changes no copy. *)
LEMMA CopiesGrow ==
  ASSUME NEW of, NEW of2, \A p \in DOMAIN of : p \in DOMAIN of2 /\ of2[p] = of[p]
  PROVE  /\ \A x, v : IsCopy(of, x, v) => IsCopy(of2, x, v)
         /\ \A e, t, ks : AreCopies(of, e, t, ks) => AreCopies(of2, e, t, ks)
<1>1. \A x, v : IsCopy(of, x, v) => IsCopy(of2, x, v)
  BY DEF IsCopy
<1>2. \A x, k : SameKey(of, x, k) => SameKey(of2, x, k)
  BY <1>1 DEF SameKey
<1>3. \A e, t, ks : AreCopies(of, e, t, ks) => AreCopies(of2, e, t, ks)
  <2>1. SUFFICES ASSUME NEW e, NEW t, NEW ks, AreCopies(of, e, t, ks)
                 PROVE  AreCopies(of2, e, t, ks)
    OBVIOUS
  <2>2. \A k \in ks : \E x \in DOMAIN e : SameKey(of2, x, k)
    BY <2>1, <1>2 DEF AreCopies
  <2>3. \A x \in DOMAIN e : \E k \in ks : SameKey(of2, x, k) /\ IsCopy(of2, e[x], heap[t][k])
    BY <2>1, <1>1, <1>2 DEF AreCopies
  <2> QED
    BY <2>1, <2>2, <2>3 DEF AreCopies
<1> QED
  BY <1>1, <1>3

-----------------------------------------------------------------------------
(* The receiver beside the sender. *)

(* The call of UnpackValue for the same table as a call of PackValue. *)
FrameMatches(of, ts, f, u) ==
    /\ u = [table |-> f.cell,
            left |-> Cardinality(f.left) + (IF f.at = "next" THEN 0 ELSE 1),
            key |-> IF f.at = "value" THEN <<u.key[1]>> ELSE <<>>]
    /\ f.at = "value" => IsCopy(of, u.key[1], f.key)
    /\ AreCopies(of, ts[f.cell], f.table, Done(f))

(* The calls z and the values g of the receiver are where s is. *)
Matches(s, z, g, ts, of) ==
    /\ Len(z) = Len(s.stack)
    /\ Len(g) = s.arg - 1
    /\ \A i \in 1 .. Len(g) : IsCopy(of, g[i], args[i])
    /\ \A i \in 1 .. Len(s.stack) : FrameMatches(of, ts, s.stack[i], z[i])

Closed(s, ts, of) ==
    \A p \in DOMAIN ts : p \in OpenCells(s) \/ AreCopies(of, ts[p], of[p], DOMAIN heap[of[p]])

AtParts(s) ==
    /\ unpack.pos = s.size + 1
    /\ DOMAIN tables = {p \in 1 .. s.size : IsTableCell(p)}
    /\ Matches(s, unpack.stack, got, tables, Origin)
    /\ Closed(s, tables, Origin)

LEMMA IsAtParts ==
  \A s : IsAt(s) <=> AtParts(s)
<1> SUFFICES ASSUME NEW s PROVE IsAt(s) <=> AtParts(s)
  OBVIOUS
<1>1. \A p : p \in OpenCells(s) <=> \E i \in 1 .. Len(s.stack) : s.stack[i].cell = p
  BY DEF OpenCells
<1>2. Closed(s, tables, Origin) <=>
        \A p \in DOMAIN tables :
          \/ \E i \in 1 .. Len(s.stack) : s.stack[i].cell = p
          \/ AreCopies(Origin, tables[p], Origin[p], DOMAIN heap[Origin[p]])
  BY <1>1 DEF Closed
<1>3. Matches(s, unpack.stack, got, tables, Origin) <=>
        /\ Len(unpack.stack) = Len(s.stack)
        /\ Len(got) = s.arg - 1
        /\ \A i \in 1 .. Len(got) : IsCopy(Origin, got[i], args[i])
        /\ \A i \in 1 .. Len(s.stack) :
             FrameMatches(Origin, tables, s.stack[i], unpack.stack[i])
  BY DEF Matches
<1> QED
  BY <1>2, <1>3 DEF IsAt, AtParts, FrameMatches

LEMMA IsAtNext ==
  (\A s : IsAt(s) <=> AtParts(s))'
BY IsAtParts, PTL

(* Taking the next key changes nothing for the receiver. *)
LEMMA CallsMatch ==
  ASSUME TypeOK, NEW s \in PackStates, IsPackState(s), NEW x \in Calls(s),
         NEW z, NEW g, NEW ts, NEW of, Matches(s, z, g, ts, of), Closed(s, ts, of)
  PROVE  Matches(x, z, g, ts, of) /\ Closed(x, ts, of)
<1>1. x.arg = s.arg /\ Len(x.stack) = Len(s.stack)
  BY CallsLemma
<1>2. Closed(x, ts, of)
  BY OpenLemma DEF Closed
<1>3. ASSUME NEW i \in 1 .. Len(s.stack)  PROVE  FrameMatches(of, ts, x.stack[i], z[i])
  <2>1. s.stack # <<>> /\ s.stack \in Seq(PackFrames)
    BY DEF PackStates
  <2>n. PICK n \in Nat \ {0} : n = Len(s.stack)
    BY <2>1
  <2>2. PICK f \in PackFrames : f = s.stack[i] /\ FrameMatches(of, ts, f, z[i])
    BY <2>1 DEF Matches
  <2>3. CASE i # n
    <3>1. i \in 1 .. n - 1
      BY <2>3, <2>n
    <3>2. x.stack[i] = s.stack[i]
      BY <3>1, <2>1, <2>n, CallsLemma
    <3> QED
      BY <3>2, <2>2
  <2>4. CASE i = n
    <3>1. Last(s.stack) = f /\ Last(x.stack) = x.stack[i]
      <4>1. x.stack \in Seq(PackFrames) /\ x.stack # <<>>
        BY <2>1, CallsLemma DEF PackStates
      <4> QED
        BY <4>1, <2>1, <2>2, <2>4, <2>n, <1>1, FrontLemma
    <3>2. \/ x = s
          \/ f.at # "value" /\ \E k \in f.left : x.stack[i] = NextKey(f, k)
      BY <3>1, <2>1, CallsLemma
    <3>3. ASSUME NEW k \in f.left, x.stack[i] = NextKey(f, k), f.at # "value"
          PROVE  FrameMatches(of, ts, x.stack[i], z[i])
      <4>1. PICK h : h = x.stack[i]
        OBVIOUS
      <4>2. /\ h.table = f.table /\ h.cell = f.cell /\ h.left = f.left \ {k}
            /\ h.at = "key" /\ h.key = k
        BY <4>1, <3>3, <2>2 DEF NextKey, PackFrames
      <4>3. Done(h) = Done(f)
        <5>1. Done(h) = Done(x.stack[i]) /\ Done(f) = Done(s.stack[i])
          BY <4>1, <2>2
        <5> QED
          BY <5>1, CallsFrames
      <4>4. f.at = "next"
        <5>1. f.at # "key"
          BY <2>2, <2>4, <2>n DEF IsPackState
        <5> QED
          BY <5>1, <3>3 DEF PackFrames
      <4>5. Cardinality(f.left) = Cardinality(h.left) + 1 /\ Cardinality(f.left) \in Nat
        <5>1. IsFiniteSet(f.left)
          <6>1. f.left \subseteq DOMAIN heap[f.table] /\ f.table \in Tables
            BY <2>2 DEF IsPackState, IsFrameOf, PackFrames
          <6> QED
            BY <6>1, FS_Subset DEF TypeOK
        <5>2. Cardinality(f.left) \in Nat /\ Cardinality(f.left \ {k}) = Cardinality(f.left) - 1
          BY <5>1, FS_RemoveElement, FS_CardinalityType
        <5> QED
          BY <5>2, <4>2
      <4>6. Cardinality(f.left) + 0 = Cardinality(f.left)
        BY <4>5
      <4>7. FrameMatches(of, ts, h, z[i])
        <5>1. z[i] = [table |-> f.cell, left |-> Cardinality(f.left) + 0, key |-> <<>>]
          BY <2>2, <4>4 DEF FrameMatches
        <5>2. z[i] = [table |-> h.cell, left |-> Cardinality(h.left) + 1, key |-> <<>>]
          BY <5>1, <4>2, <4>5, <4>6
        <5>3. AreCopies(of, ts[h.cell], h.table, Done(h))
          BY <2>2, <4>2, <4>3 DEF FrameMatches
        <5> QED
          BY <5>2, <5>3, <4>2 DEF FrameMatches
      <4> QED
        BY <4>1, <4>7
    <3> QED
      BY <3>2, <3>3, <2>2
  <2> QED
    BY <2>3, <2>4
<1> QED
  BY <1>1, <1>2, <1>3 DEF Matches

(* The table that has ended is a copy. *)
LEMMA EndMatch ==
  ASSUME NEW s \in PackStates, IsPackState(s), AtEnd(s),
         NEW x, x = [s EXCEPT !.stack = Front(@)],
         NEW S, NEW z \in Seq(S), NEW g, NEW ts, NEW of,
         Matches(s, z, g, ts, of), Closed(s, ts, of),
         of[Last(s.stack).cell] = Last(s.stack).table
  PROVE  Matches(x, Front(z), g, ts, of) /\ Closed(x, ts, of)
<1>1. s.stack # <<>> /\ s.stack \in Seq(PackFrames)
  BY DEF AtEnd, PackStates
<1>n. PICK n \in Nat \ {0} : n = Len(s.stack)
  BY <1>1
<1>2. PICK f \in PackFrames : f = s.stack[n] /\ f = Last(s.stack) /\ f.at = "next" /\ f.left = {}
  BY <1>1, <1>n, FrontLemma DEF AtEnd
<1>3. x.stack = Front(s.stack) /\ x.arg = s.arg
  BY DEF PackStates
<1>4. Len(x.stack) = n - 1 /\ \A i \in 1 .. n - 1 : x.stack[i] = s.stack[i]
  <2>1. PICK q : q = Front(s.stack)
    OBVIOUS
  <2>2. Len(q) = n - 1 /\ \A i \in 1 .. n - 1 : q[i] = s.stack[i]
    BY <2>1, <1>1, <1>n, FrontLemma
  <2> QED
    BY <2>1, <2>2, <1>3
<1>5. Len(z) = n /\ z # <<>>
  BY <1>n DEF Matches
<1>6. Len(Front(z)) = n - 1 /\ \A i \in 1 .. n - 1 : Front(z)[i] = z[i]
  BY <1>5, FrontLemma
<1>7. \A i \in 1 .. n - 1 : i \in 1 .. n
  OBVIOUS
<1>8. \A i \in 1 .. n - 1 : FrameMatches(of, ts, x.stack[i], Front(z)[i])
  BY <1>4, <1>6, <1>7, <1>n DEF Matches
<1>9. Matches(x, Front(z), g, ts, of)
  <2>1. Len(g) = x.arg - 1 /\ \A i \in 1 .. Len(g) : IsCopy(of, g[i], args[i])
    BY <1>3 DEF Matches
  <2> QED
    BY <2>1, <1>4, <1>6, <1>8 DEF Matches
<1>10. AreCopies(of, ts[f.cell], of[f.cell], DOMAIN heap[of[f.cell]])
  <2>1. FrameMatches(of, ts, f, z[n])
    <3>1. n \in 1 .. n
      OBVIOUS
    <3> QED
      BY <3>1, <1>2, <1>n DEF Matches
  <2>2. Done(f) = DOMAIN heap[f.table]
    BY <1>2 DEF Done
  <2> QED
    BY <2>1, <2>2, <1>2 DEF FrameMatches
<1>11. \A p \in OpenCells(s) : p \in OpenCells(x) \/ p = f.cell
  <2>1. \A i \in 1 .. n : i \in 1 .. n - 1 \/ i = n
    OBVIOUS
  <2>2. OpenCells(x) = {s.stack[i].cell : i \in 1 .. n - 1}
    BY <1>4, SMTT(30) DEF OpenCells
  <2>3. OpenCells(s) = {s.stack[i].cell : i \in 1 .. n}
    BY <1>n DEF OpenCells
  <2> QED
    BY <2>1, <2>2, <2>3, <1>2
<1>12. Closed(x, ts, of)
  BY <1>10, <1>11 DEF Closed
<1> QED
  BY <1>9, <1>12

(* What the receiver is told is the last of the calls below a value. *)
LEMMA LastMatches ==
  ASSUME NEW x \in PackStates, InCall(x), x.stack # <<>>,
         NEW S, NEW z \in Seq(S), NEW g, NEW ts, NEW of, Matches(x, z, g, ts, of),
         NEW n \in Nat, n = Len(x.stack)
  PROVE  /\ n \in Nat \ {0} /\ n \in 1 .. n /\ z # <<>> /\ Len(z) = n /\ Last(z) = z[n]
         /\ Last(x.stack) = x.stack[n] /\ x.stack[n] \in PackFrames
         /\ FrameMatches(of, ts, x.stack[n], z[n])
         /\ IsFrameOf(x, n) /\ x.stack[n].at \in {"key", "value"}
         /\ Current(x) = Item(x.stack[n])
<1>1. x.stack \in Seq(PackFrames) /\ n \in Nat \ {0} /\ n \in 1 .. n
  BY DEF PackStates
<1>2. Len(z) = n /\ z # <<>>
  BY <1>1 DEF Matches
<1>3. Last(x.stack) = x.stack[n] /\ Last(z) = z[n]
  BY <1>1, <1>2, FrontLemma
<1>4. FrameMatches(of, ts, x.stack[n], z[n])
  BY <1>1 DEF Matches
<1>5. IsFrameOf(x, n) /\ x.stack[n].at # "next"
  BY <1>1 DEF InCall
<1>6. x.stack[n] \in PackFrames
  BY <1>1
<1>7. x.stack[n].at \in {"key", "value"}
  BY <1>5, <1>6 DEF PackFrames
<1>8. Current(x) = Item(x.stack[n])
  BY <1>3 DEF Current
<1> QED
  BY <1>1, <1>2, <1>3, <1>4, <1>5, <1>6, <1>7, <1>8

(* Both go on with the next argument. *)
LEMMA ArgumentMatch ==
  ASSUME NEW x \in PackStates, InCall(x), x.stack = <<>>,
         NEW S, NEW g \in Seq(S), NEW w \in S, NEW ts, NEW of, Matches(x, <<>>, g, ts, of),
         IsCopy(of, w, Current(x))
  PROVE  Matches(Return(x), <<>>, Append(g, w), ts, of)
<1>1. PICK r \in PackStates : r = Return(x) /\ r.arg = x.arg + 1 /\ r.stack = <<>>
  BY ReturnLemma
<1>2. Len(g) = x.arg - 1 /\ \A i \in 1 .. Len(g) : IsCopy(of, g[i], args[i])
  BY DEF Matches
<1>3. PICK m \in Nat : m = Len(g)
  OBVIOUS
<1>4. PICK h : h = Append(g, w)
  OBVIOUS
<1>5. Len(h) = m + 1 /\ h[m + 1] = w /\ \A i \in 1 .. m : h[i] = g[i]
  BY <1>3, <1>4, AppendLemma
<1>6. x.arg = m + 1
  BY <1>2, <1>3 DEF PackStates
<1>7. IsCopy(of, w, args[m + 1])
  BY <1>6 DEF Current
<1>8. \A i \in 1 .. m + 1 : i \in 1 .. m \/ i = m + 1
  OBVIOUS
<1>9. \A i \in 1 .. m + 1 : IsCopy(of, h[i], args[i])
  BY <1>2, <1>3, <1>5, <1>7, <1>8
<1>10. Len(r.stack) = 0 /\ 1 .. Len(r.stack) = {} /\ Len(<<>>) = 0
  BY <1>1
<1>11. Len(h) = r.arg - 1
  BY <1>1, <1>5, <1>6
<1>12. Matches(r, <<>>, h, ts, of)
  BY <1>5, <1>9, <1>10, <1>11 DEF Matches
<1> QED
  BY <1>1, <1>4, <1>12

(* Both go on with the value of the key. *)
LEMMA KeyMatch ==
  ASSUME NEW x \in PackStates, InCall(x), x.stack # <<>>, Last(x.stack).at = "key",
         NEW S, NEW z \in Seq(S), NEW g, NEW ts, NEW of, Matches(x, z, g, ts, of),
         NEW w, IsCopy(of, w, Current(x)),
         NEW u \in S, u = [Last(z) EXCEPT !.key = <<w>>]
  PROVE  Last(z).key = <<>> /\ Matches(Return(x), Append(Front(z), u), g, ts, of)
<1>n. PICK n \in Nat : n = Len(x.stack)
  BY DEF PackStates
<1>1. /\ n \in Nat \ {0} /\ n \in 1 .. n /\ z # <<>> /\ Len(z) = n /\ Last(z) = z[n]
      /\ Last(x.stack) = x.stack[n] /\ x.stack[n] \in PackFrames
      /\ FrameMatches(of, ts, x.stack[n], z[n]) /\ Current(x) = Item(x.stack[n])
  BY <1>n, LastMatches
<1>2. PICK f \in PackFrames : f = x.stack[n] /\ f.at = "key"
  BY <1>1
<1>3. PICK c : c = Cardinality(f.left)
  OBVIOUS
<1>4. Last(z) = [table |-> f.cell, left |-> c + 1, key |-> <<>>]
  BY <1>1, <1>2, <1>3 DEF FrameMatches
<1>5. u = [table |-> f.cell, left |-> c + 1, key |-> <<w>>]
  BY <1>4
<1>6. PICK h \in PackFrames : h = Advance(f)
  BY <1>2, FrameFields
<1>7. /\ h.table = f.table /\ h.cell = f.cell /\ h.left = f.left /\ h.key = f.key /\ h.at = "value"
  BY <1>2, <1>6, FrameFields
<1>8. FrameMatches(of, ts, h, u)
  <2>1. u.key[1] = w
    BY <1>5
  <2>2. u = [table |-> h.cell, left |-> Cardinality(h.left) + 1, key |-> <<u.key[1]>>]
    BY <2>1, <1>3, <1>5, <1>7
  <2>3. IsCopy(of, u.key[1], h.key)
    BY <2>1, <1>1, <1>2, <1>7 DEF Item
  <2>4. Done(h) = Done(f)
    BY <1>2, <1>7 DEF Done
  <2>5. AreCopies(of, ts[h.cell], h.table, Done(h))
    BY <2>4, <1>1, <1>2, <1>7 DEF FrameMatches
  <2> QED
    BY <2>2, <2>3, <2>5, <1>7 DEF FrameMatches
<1>9. PICK y : y = Append(Front(z), u)
  OBVIOUS
<1>10. Len(y) = n /\ y[n] = u /\ \A i \in 1 .. n - 1 : y[i] = z[i]
  BY <1>1, <1>9, ReplaceLemma
<1>11. PICK r \in PackStates : r = Return(x) /\ r.arg = x.arg /\ Len(r.stack) = n
  BY <1>n, ReturnLemma
<1>12. \A i \in 1 .. n : FrameMatches(of, ts, r.stack[i], y[i])
  <2>1. ASSUME NEW i \in 1 .. n  PROVE  FrameMatches(of, ts, r.stack[i], y[i])
    <3>1. IF i = n THEN r.stack[i] = Advance(x.stack[i]) ELSE r.stack[i] = x.stack[i]
      BY <1>n, <1>11, ReturnFrames
    <3>2. CASE i = n
      BY <3>1, <3>2, <1>2, <1>6, <1>8, <1>10
    <3>3. CASE i # n
      <4>1. i \in 1 .. n - 1
        BY <3>3
      <4>2. FrameMatches(of, ts, x.stack[i], z[i])
        BY <1>n DEF Matches
      <4> QED
        BY <4>1, <4>2, <3>1, <3>3, <1>10
    <3> QED
      BY <3>2, <3>3
  <2> QED
    BY <2>1
<1>13. Len(g) = r.arg - 1 /\ \A i \in 1 .. Len(g) : IsCopy(of, g[i], args[i])
  BY <1>11 DEF Matches
<1>14. Matches(r, y, g, ts, of)
  BY <1>10, <1>11, <1>12, <1>13 DEF Matches
<1>15. Last(z).key = <<>>
  BY <1>4
<1>16. Matches(Return(x), Append(Front(z), u), g, ts, of)
  BY <1>9, <1>11, <1>14
<1> QED
  BY <1>15, <1>16

(* Both go on with the next pair, and the receiver sets the entry. *)
LEMMA ValueMatch ==
  ASSUME TypeOK, NEW x \in PackStates, InCall(x), x.stack # <<>>, Last(x.stack).at = "value",
         NEW S, NEW z \in Seq(S), NEW g, NEW ts, NEW of, Matches(x, z, g, ts, of), Closed(x, ts, of),
         NEW w, IsCopy(of, w, Current(x)),
         OpenCells(x) \subseteq DOMAIN ts, IsFiniteSet(DOMAIN ts[Last(x.stack).cell]),
         NEW q \in S, q = Last(z),
         NEW u \in S, u = [table |-> q.table, left |-> q.left - 1, key |-> <<>>],
         NEW ts2, DOMAIN ts2 = DOMAIN ts, ts2[q.table] = RawSet(ts[q.table], q.key[1], w),
         \A p \in DOMAIN ts \ {q.table} : ts2[p] = ts[p]
  PROVE  /\ q.key # <<>> /\ q.table = Last(x.stack).cell
         /\ Matches(Return(x), Append(Front(z), u), g, ts2, of) /\ Closed(Return(x), ts2, of)
         /\ DOMAIN ts2 = DOMAIN ts /\ IsFiniteSet(DOMAIN ts2[q.table])
         /\ \A p \in DOMAIN ts \ {q.table} : ts2[p] = ts[p]
<1>n. PICK n \in Nat : n = Len(x.stack)
  BY SMTT(30) DEF PackStates
<1>1. /\ n \in Nat \ {0} /\ n \in 1 .. n /\ z # <<>> /\ Len(z) = n /\ Last(z) = z[n]
      /\ Last(x.stack) = x.stack[n] /\ x.stack[n] \in PackFrames
      /\ FrameMatches(of, ts, x.stack[n], z[n]) /\ IsFrameOf(x, n) /\ Current(x) = Item(x.stack[n])
  BY <1>n, LastMatches
<1>2. PICK f \in PackFrames : f = x.stack[n] /\ f.at = "value"
  BY <1>1
<1>3. PICK c \in Nat : c = Cardinality(f.left)
  <2>1. f.left \subseteq DOMAIN heap[f.table] /\ f.table \in Tables
    BY <1>1, <1>2 DEF IsFrameOf, PackFrames
  <2> QED
    BY <2>1, FS_Subset, FS_CardinalityType DEF TypeOK
<1>4. PICK y : y = q.key[1]
  OBVIOUS
<1>5. q = [table |-> f.cell, left |-> c + 1, key |-> <<y>>] /\ IsCopy(of, y, f.key)
  BY <1>1, <1>2, <1>3, <1>4 DEF FrameMatches
<1>6. u = [table |-> f.cell, left |-> c, key |-> <<>>]
  <2>0. q = [table |-> f.cell, left |-> c + 1, key |-> <<y>>]
    BY <1>5
  <2>1. q.left - 1 = c /\ q.table = f.cell
    BY <2>0
  <2> QED
    BY <2>1
<1>7. PICK h \in PackFrames : h = Advance(f)
  BY <1>2, FrameFields
<1>8. /\ h.table = f.table /\ h.cell = f.cell /\ h.left = f.left /\ h.key = f.key /\ h.at = "next"
  BY <1>2, <1>7, FrameFields
<1>9. f.key \in DOMAIN heap[f.table] \ f.left /\ f.table \in Tables
  BY <1>1, <1>2 DEF IsFrameOf, PackFrames
<1>10. Done(h) = Done(f) \union {f.key} /\ f.key \notin Done(f)
  BY <1>2, <1>8, <1>9 DEF Done
<1>11. Done(f) \subseteq AnyValue /\ IsFiniteSet(Done(f)) /\ f.key \in AnyValue
  <2>1. DOMAIN heap[f.table] \subseteq Key /\ IsFiniteSet(DOMAIN heap[f.table])
    BY <1>9 DEF TypeOK
  <2>2. Done(f) \subseteq DOMAIN heap[f.table]
    BY DEF Done
  <2> QED
    BY <2>1, <2>2, <1>9, FS_Subset DEF AnyValue
<1>12. PICK e : e = RawSet(ts[f.cell], y, w)
  OBVIOUS
<1>13. AreCopies(of, e, f.table, Done(h)) /\ IsFiniteSet(DOMAIN e)
  <2>1. IsCopy(of, w, heap[f.table][f.key])
    BY <1>1, <1>2 DEF Item
  <2>2. AreCopies(of, ts[f.cell], f.table, Done(f))
    BY <1>1, <1>2 DEF FrameMatches
  <2>3. IsFiniteSet(DOMAIN ts[f.cell])
    BY <1>1, <1>2
  <2>4. PICK e0, t, ks, k : e0 = ts[f.cell] /\ t = f.table /\ ks = Done(f) /\ k = f.key
    OBVIOUS
  <2>5. /\ ks \subseteq AnyValue /\ IsFiniteSet(ks) /\ k \in AnyValue /\ k \notin ks
        /\ IsFiniteSet(DOMAIN e0) /\ AreCopies(of, e0, t, ks)
        /\ IsCopy(of, y, k) /\ IsCopy(of, w, heap[t][k])
    BY <2>1, <2>2, <2>3, <2>4, <1>5, <1>10, <1>11
  <2>6. /\ AreCopies(of, RawSet(e0, y, w), t, ks \union {k})
        /\ IsFiniteSet(DOMAIN RawSet(e0, y, w))
    BY <2>5, RawSetLemma
  <2> QED
    BY <2>4, <2>6, <1>10, <1>12
<1>0. \A i \in 1 .. n : x.stack[i].cell \in DOMAIN ts
  BY <1>n DEF OpenCells
<1>14. /\ DOMAIN ts2 = DOMAIN ts /\ ts2[f.cell] = e
       /\ \A p \in DOMAIN ts \ {f.cell} : ts2[p] = ts[p]
  <2>1. f.cell \in DOMAIN ts
    BY <1>0, <1>1, <1>2
  <2>2. q.table = f.cell
    BY <1>5
  <2> QED
    BY <2>1, <2>2, <1>4, <1>12
<1>15. FrameMatches(of, ts2, h, u)
  <2>1. c + 0 = c
    OBVIOUS
  <2>2. u = [table |-> h.cell, left |-> Cardinality(h.left) + 0, key |-> <<>>]
    BY <2>1, <1>3, <1>6, <1>8
  <2>3. AreCopies(of, ts2[h.cell], h.table, Done(h))
    BY <1>8, <1>13, <1>14
  <2> QED
    BY <2>2, <2>3, <1>8 DEF FrameMatches
<1>16. PICK v : v = Append(Front(z), u)
  OBVIOUS
<1>17. Len(v) = n /\ v[n] = u /\ \A i \in 1 .. n - 1 : v[i] = z[i]
  BY <1>1, <1>16, ReplaceLemma
<1>18. PICK r \in PackStates : r = Return(x) /\ r.arg = x.arg /\ Len(r.stack) = n
  BY <1>n, ReturnLemma
<1>19. ASSUME NEW i \in 1 .. n  PROVE  FrameMatches(of, ts2, r.stack[i], v[i])
  <2>1. IF i = n THEN r.stack[i] = Advance(x.stack[i]) ELSE r.stack[i] = x.stack[i]
    BY <1>n, <1>18, ReturnFrames
  <2>2. CASE i = n
    BY <2>1, <2>2, <1>2, <1>7, <1>15, <1>17
  <2>3. CASE i # n
    <3>1. i \in 1 .. n - 1
      BY <2>3
    <3>2. FrameMatches(of, ts, x.stack[i], z[i])
      BY <1>n DEF Matches
    <3>3. x.stack[i].cell # f.cell
      <4>1. x.stack[i].cell < x.stack[n].cell
        <5>1. i < n /\ n \in 1 .. n
          BY <3>1
        <5> QED
          BY <5>1, <1>n DEF InCall
      <4>2. x.stack[n].cell \in Nat
        BY <1>2 DEF PackFrames
      <4> QED
        BY <4>1, <4>2, <1>2
    <3>4. ts2[x.stack[i].cell] = ts[x.stack[i].cell]
      BY <3>3, <1>0, <1>14
    <3>5. FrameMatches(of, ts2, x.stack[i], z[i])
      BY <3>2, <3>4 DEF FrameMatches
    <3> QED
      BY <3>1, <3>5, <2>1, <2>3, <1>17
  <2> QED
    BY <2>2, <2>3
<1>20. Len(g) = r.arg - 1 /\ \A i \in 1 .. Len(g) : IsCopy(of, g[i], args[i])
  BY <1>18 DEF Matches
<1>21. Matches(r, v, g, ts2, of)
  BY <1>17, <1>18, <1>19, <1>20 DEF Matches
<1>22. f.cell \in OpenCells(x) /\ OpenCells(r) = OpenCells(x)
  BY <1>1, <1>2, <1>n, <1>18, OpenLemma, ZenonT(60) DEF OpenCells
<1>23. Closed(r, ts2, of)
  BY <1>14, <1>22 DEF Closed
<1>24. q.key # <<>> /\ q.table = f.cell /\ f = Last(x.stack)
  <2>1. q = [table |-> f.cell, left |-> c + 1, key |-> <<y>>]
    BY <1>5
  <2> QED
    BY <2>1, <1>1, <1>2
<1> QED
  BY <1>13, <1>14, <1>16, <1>18, <1>21, <1>23, <1>24

UnpackFrames == [table : Nat, left : Nat, key : Seq(Received)]

(* UnpackValue returns the copy of the value that PackValue returned from. *)
LEMMA DeliverMatch ==
  ASSUME TypeOK, NEW x \in PackStates, InCall(x), NEW z \in Seq(UnpackFrames), NEW of,
         Matches(x, z, got, tables, of), Closed(x, tables, of), OpenCells(x) \subseteq DOMAIN tables,
         NEW w \in Received, IsCopy(of, w, Current(x)), NEW pos, Deliver(w, pos, z)
  PROVE  /\ unpack'.pos = pos /\ unpack' = [pos |-> pos, stack |-> unpack'.stack]
         /\ unpack'.stack \in Seq(UnpackFrames) /\ got' \in Seq(Received)
         /\ DOMAIN tables' = DOMAIN tables
         /\ \A p \in DOMAIN tables' : IsFiniteSet(DOMAIN tables'[p])
         /\ Matches(Return(x), unpack'.stack, got', tables', of) /\ Closed(Return(x), tables', of)
<1>1. Closed(Return(x), tables, of)
  BY OpenLemma DEF Closed
<1>2. got \in Seq(Received) /\ \A p \in DOMAIN tables : IsFiniteSet(DOMAIN tables[p])
  BY DEF TypeOK
<1>3. Len(z) = Len(x.stack) /\ x.stack \in Seq(PackFrames)
  BY DEF Matches, PackStates
<1>4. CASE z = <<>>
  <2>1. x.stack = <<>>
    BY <1>3, <1>4
  <2>2. got' = Append(got, w) /\ unpack' = [pos |-> pos, stack |-> <<>>] /\ tables' = tables
    BY <1>4 DEF Deliver
  <2>3. Matches(Return(x), <<>>, Append(got, w), tables, of)
    BY <2>1, <1>2, <1>4, ArgumentMatch
  <2>4. Append(got, w) \in Seq(Received)
    BY <1>2
  <2> QED
    BY <2>2, <2>3, <2>4, <1>1, <1>2
<1>5. CASE z # <<>>
  <2> DEFINE f == Last(z)
  <2>1. x.stack # <<>>
    BY <1>3, <1>5
  <2>2. f \in UnpackFrames
    BY <1>5, FrontLemma
  <2>n. PICK n \in Nat : n = Len(x.stack)
    BY <1>3
  <2>3. Last(x.stack) = x.stack[n] /\ n \in 1 .. n /\ x.stack[n].at \in {"key", "value"}
    BY <2>1, <2>n, LastMatches
  <2>4. CASE Last(x.stack).at = "key"
    <3>1. PICK u \in UnpackFrames : u = [f EXCEPT !.key = <<w>>]
      <4>1. PICK q \in Seq(Received) : q = <<w>>
        BY SingletonLemma
      <4> HIDE DEF f
      <4>2. [f EXCEPT !.key = q] \in UnpackFrames
        BY <2>2 DEF UnpackFrames
      <4> QED
        BY <4>1, <4>2
    <3>2. f.key = <<>> /\ Matches(Return(x), Append(Front(z), u), got, tables, of)
      BY <3>1, <2>1, <2>4, KeyMatch
    <3>3. unpack' = [pos |-> pos, stack |-> Append(Front(z), u)] /\ tables' = tables /\ got' = got
      BY <3>1, <3>2, <1>5 DEF Deliver
    <3>4. Append(Front(z), u) \in Seq(UnpackFrames)
      BY <1>5, ReplaceLemma
    <3> QED
      BY <3>2, <3>3, <3>4, <1>1, <1>2
  <2>5. CASE Last(x.stack).at = "value"
    <3>0. f.left \in Nat \ {0}
      <4>1. FrameMatches(of, tables, x.stack[n], z[n]) /\ Last(z) = z[n]
        BY <2>1, <2>n, LastMatches
      <4>2. PICK h : h = x.stack[n] /\ h.at = "value"
        BY <2>3, <2>5
      <4>3. f.left = Cardinality(h.left) + 1
        BY <4>1, <4>2 DEF FrameMatches
      <4>4. Cardinality(h.left) \in Nat
        <5>1. IsFrameOf(x, n) /\ h \in PackFrames
          BY <4>2, <1>3, <2>3, <2>n DEF InCall
        <5>2. h.left \subseteq DOMAIN heap[h.table] /\ h.table \in Tables
          BY <5>1, <4>2 DEF IsFrameOf, PackFrames
        <5> QED
          BY <5>2, FS_Subset, FS_CardinalityType DEF TypeOK
      <4> QED
        BY <4>3, <4>4
    <3>1. PICK u \in UnpackFrames : u = [f EXCEPT !.key = <<>>, !.left = @ - 1]
      <4>1. f.left - 1 \in Nat /\ <<>> \in Seq(Received)
        BY <3>0
      <4> QED
        BY <4>1, <2>2 DEF UnpackFrames
    <3>2. PICK ts2 : ts2 = [tables EXCEPT ![f.table] = RawSet(@, f.key[1], w)]
      OBVIOUS
    <3>3. x.stack[n].cell \in DOMAIN tables
      BY <2>3, <2>n DEF OpenCells
    <3>4. IsFiniteSet(DOMAIN tables[Last(x.stack).cell])
      BY <3>3, <2>3, <1>2
    <3>5. /\ f.key # <<>> /\ f.table = Last(x.stack).cell
          /\ Matches(Return(x), Append(Front(z), u), got, ts2, of) /\ Closed(Return(x), ts2, of)
          /\ DOMAIN ts2 = DOMAIN tables /\ IsFiniteSet(DOMAIN ts2[f.table])
          /\ \A p \in DOMAIN tables \ {f.table} : ts2[p] = tables[p]
      <4>1. PICK q \in UnpackFrames : q = f
        BY <2>2
      <4>4. q = Last(z) /\ u = [table |-> q.table, left |-> q.left - 1, key |-> <<>>]
        <5>1. u = [q EXCEPT !.key = <<>>, !.left = q.left - 1]
          BY <4>1, <3>1
        <5> QED
          BY <5>1, <4>1 DEF UnpackFrames
      <4>5. q.table \in DOMAIN tables
        <5>1. FrameMatches(of, tables, x.stack[n], z[n]) /\ Last(z) = z[n]
          BY <2>1, <2>n, LastMatches
        <5>2. q.table = x.stack[n].cell
          BY <4>4, <5>1 DEF FrameMatches
        <5> QED
          BY <5>2, <3>3
      <4>2. /\ DOMAIN ts2 = DOMAIN tables
            /\ ts2[q.table] = RawSet(tables[q.table], q.key[1], w)
            /\ \A p \in DOMAIN tables \ {q.table} : ts2[p] = tables[p]
        BY <4>1, <4>5, <3>2
      <4>3. /\ q.key # <<>> /\ q.table = Last(x.stack).cell
            /\ Matches(Return(x), Append(Front(z), u), got, ts2, of) /\ Closed(Return(x), ts2, of)
            /\ DOMAIN ts2 = DOMAIN tables /\ IsFiniteSet(DOMAIN ts2[q.table])
            /\ \A p \in DOMAIN tables \ {q.table} : ts2[p] = tables[p]
        BY <4>1, <4>2, <4>4, <3>1, <3>4, <2>1, <2>5, ValueMatch
      <4> QED
        BY <4>1, <4>3
    <3>6. unpack' = [pos |-> pos, stack |-> Append(Front(z), u)] /\ tables' = ts2 /\ got' = got
      BY <3>1, <3>2, <3>5, <1>5 DEF Deliver
    <3>7. Append(Front(z), u) \in Seq(UnpackFrames)
      BY <1>5, ReplaceLemma
    <3>8. \A p \in DOMAIN ts2 : IsFiniteSet(DOMAIN ts2[p])
      BY <3>5, <1>2
    <3> QED
      BY <3>5, <3>6, <3>7, <3>8, <1>2
  <2> QED
    BY <2>3, <2>4, <2>5
<1> QED
  BY <1>4, <1>5

-----------------------------------------------------------------------------
(* The steps of the receiver. *)

LEMMA MatchesStable ==
  ASSUME NEW s, NEW z, NEW g, NEW ts, NEW of, Same
  PROVE  /\ Matches(s, z, g, ts, of)' <=> Matches(s, z, g, ts, of)
         /\ Closed(s, ts, of)' <=> Closed(s, ts, of)
<1>1. \A e, t, ks : AreCopies(of, e, t, ks)' <=> AreCopies(of, e, t, ks)
  BY DEF AreCopies, Same
<1>2. \A f : Done(f)' = Done(f)
  BY DEF Done, Same
<1>3. \A f, u : FrameMatches(of, ts, f, u)' <=> FrameMatches(of, ts, f, u)
  BY <1>1, <1>2 DEF FrameMatches
<1>4. Matches(s, z, g, ts, of)' <=> Matches(s, z, g, ts, of)
  BY <1>3 DEF Matches, Same
<1>5. Closed(s, ts, of)' <=> Closed(s, ts, of)
  BY <1>1 DEF Closed, Same
<1> QED
  BY <1>4, <1>5

(* A step of the receiver takes it to a state that PackValue was in. *)
LEMMA ReadingStep ==
  ASSUME IInv, result = "reading", UNCHANGED <<sender, result>>,
         NEW j \in 1 .. Len(trail), NEW s \in PackStates, s = trail[j],
         NEW z \in Seq(UnpackFrames), NEW g \in Seq(Received), NEW ts, NEW of,
         NEW pos \in Nat,
         unpack' = [pos |-> pos, stack |-> z], got' = g, tables' = ts,
         pos = s.size + 1, DOMAIN ts = {p \in 1 .. s.size : IsTableCell(p)},
         \A p \in DOMAIN ts : IsFiniteSet(DOMAIN ts[p]),
         of = [p \in DOMAIN ts |-> src[p].value[2]],
         Matches(s, z, g, ts, of), Closed(s, ts, of)
  PROVE  IInv'
<1> USE DEF IInv
<1>1. Same /\ sent = "sent" /\ sent' = "sent" /\ src' = src /\ trail' = trail /\ result' = "reading"
  BY DEF Same, sender, Reading
<1>2. Trail' /\ Cells' /\ Coverage'
  BY <1>1, SenderSame DEF sender
<1>3. TypeOK'
  <2>1. unpack' \in UnpackStates
    BY DEF UnpackStates, UnpackFrames
  <2> QED
    BY <2>1 DEF TypeOK, sender
<1>4. Outcome'
  BY <1>1 DEF Outcome, sender
<1>5. IsAt(s)'
  <2>1. Origin' = of
    BY <1>1 DEF Origin
  <2>2. Matches(s, z, g, ts, of)' /\ Closed(s, ts, of)'
    BY <1>1, MatchesStable
  <2>3. Matches(s, unpack.stack, got, tables, Origin)' /\ Closed(s, tables, Origin)'
    BY <2>1, <2>2
  <2>4. unpack'.pos = s.size + 1 /\ DOMAIN tables' = {p \in 1 .. s.size : IsTableCell(p)'}
    BY <1>1 DEF IsTableCell
  <2> QED
    BY <2>3, <2>4, IsAtNext DEF AtParts
<1>6. Reading' /\ ArgumentsArrive'
  <2>1. \E k \in 1 .. Len(trail') : IsAt(trail[k])'
    BY <1>1, <1>5
  <2> QED
    BY <2>1, <1>1 DEF Reading, ArgumentsArrive
<1> QED
  BY <1>2, <1>3, <1>4, <1>6

(* Where the receiver is, and what PackValue did next. *)
LEMMA WhereItReads ==
  ASSUME IInv, result = "reading"
  PROVE  \E k \in 1 .. Len(trail), s \in PackStates :
           /\ s = trail[k] /\ IsPackState(s) /\ IsAt(s)
           /\ \/ unpack.stack = <<>> /\ Len(got) = Len(args)
              \/ /\ k + 1 \in 1 .. Len(trail)
                 /\ \E n \in PackStates : n = trail[k + 1] /\ IsPackState(n) /\ IsPackStep(s, n)
<1>1. sent = "sent" /\ trail \in Seq(PackStates) /\ trail # <<>>
  BY DEF IInv, Reading, TypeOK, Trail
<1>n. PICK m \in Nat \ {0} : m = Len(trail)
  BY <1>1
<1>2. PICK k \in 1 .. m : IsAt(trail[k])
  BY <1>n DEF IInv, Reading
<1>3. PICK s \in PackStates : s = trail[k] /\ IsPackState(s) /\ IsAt(s)
  BY <1>1, <1>2, <1>n DEF IInv, Trail
<1>4. CASE k = m
  <2>1. trail[m] = pack
    BY <1>1, <1>n, FrontLemma DEF IInv, Trail
  <2>2. s = pack /\ s.stack = <<>> /\ s.arg = Len(args) + 1
    BY <2>1, <1>1, <1>3, <1>4 DEF IInv, Outcome
  <2>3. Len(args) \in Nat /\ unpack.stack \in Seq(UnpackFrames)
    BY DEF IInv, TypeOK, UnpackStates, UnpackFrames
  <2>4. Len(unpack.stack) = 0 /\ Len(got) = s.arg - 1
    BY <2>2, <1>3 DEF IsAt
  <2>5. unpack.stack = <<>> /\ Len(got) = Len(args)
    BY <2>2, <2>3, <2>4
  <2> QED
    BY <2>5, <1>3, <1>n
<1>5. CASE k # m
  <2>1. k \in 1 .. m - 1 /\ k + 1 \in 1 .. m
    BY <1>5
  <2>2. PICK n \in PackStates : n = trail[k + 1] /\ IsPackState(n)
    BY <2>1, <1>1, <1>n DEF IInv, Trail
  <2>3. IsPackStep(s, n)
    BY <2>1, <2>2, <1>3, <1>n DEF IInv, Trail
  <2> QED
    BY <2>1, <2>2, <2>3, <1>3, <1>n
<1> QED
  BY <1>4, <1>5

LEMMA ReceiveStep ==
  ASSUME IInv, Receive
  PROVE  IInv'
<1>1. /\ sent = "sent" /\ result = "none" /\ result' = "reading"
      /\ UNCHANGED <<sender, unpack, got, tables>>
  BY DEF Receive
<1>2. got = <<>> /\ tables = NoEntries /\ unpack = [pos |-> 1, stack |-> <<>>]
  BY <1>1 DEF IInv, Reading
<1>3. UNCHANGED <<heap, args, call, sent, buff, pack, src, trail>>
  BY <1>1 DEF sender
<1>4. TypeOK' /\ Outcome'
  BY <1>1, <1>3 DEF IInv, TypeOK, Outcome
<1>5. Trail' /\ Cells' /\ Coverage'
  BY <1>1, <1>3, SenderSame
<1>6. 1 \in 1 .. Len(trail)
  BY DEF IInv, Trail, TypeOK
<1>7. PICK s : s = trail[1]
  OBVIOUS
<1>8. s.arg = 1 /\ s.stack = <<>> /\ s.size = 0
  BY <1>7 DEF IInv, Trail
<1>9. IsAt(s)'
  <2>1. Len(<<>>) = 0 /\ 1 .. Len(<<>>) = {} /\ DOMAIN NoEntries = {} /\ 1 .. 0 = {}
    BY DEF NoEntries
  <2> QED
    BY <2>1, <1>1, <1>2, <1>8 DEF IsAt
<1>10. Reading' /\ ArgumentsArrive'
  <2>1. \E k \in 1 .. Len(trail') : IsAt(trail[k])'
    BY <1>3, <1>6, <1>7, <1>9
  <2> QED
    BY <2>1, <1>1, <1>3 DEF Reading, ArgumentsArrive
<1> QED
  BY <1>4, <1>5, <1>10 DEF IInv

LEMMA IsAtStable ==
  ASSUME NEW s, Same, UNCHANGED <<src, unpack, got, tables>>, IsAt(s)
  PROVE  IsAt(s)'
<1>1. Origin' = Origin
  BY DEF Origin
<1>2. PICK z, g, ts, of : z = unpack.stack /\ g = got /\ ts = tables /\ of = Origin
  OBVIOUS
<1>3. Matches(s, z, g, ts, of) /\ Closed(s, ts, of)
  BY <1>2, IsAtParts DEF AtParts
<1>4. Matches(s, z, g, ts, of)' /\ Closed(s, ts, of)'
  BY <1>3, MatchesStable
<1>5. Matches(s, unpack.stack, got, tables, Origin)' /\ Closed(s, tables, Origin)'
  BY <1>1, <1>2, <1>4
<1>6. unpack.pos = s.size + 1 /\ DOMAIN tables = {p \in 1 .. s.size : IsTableCell(p)}
  BY IsAtParts DEF AtParts
<1>7. unpack'.pos = s.size + 1 /\ DOMAIN tables' = {p \in 1 .. s.size : IsTableCell(p)'}
  BY <1>6 DEF IsTableCell
<1> QED
  BY <1>5, <1>7, IsAtNext DEF AtParts

LEMMA UnpackReturnsStep ==
  ASSUME IInv, UnpackReturns
  PROVE  IInv'
<1>1. /\ result = "reading" /\ unpack.stack = <<>> /\ Len(got) = buff.argc /\ result' = "handle"
      /\ UNCHANGED <<sender, unpack, got, tables>>
  BY DEF UnpackReturns
<1>2. UNCHANGED <<heap, args, call, sent, buff, pack, src, trail>> /\ sent = "sent" /\ Same
  BY <1>1 DEF sender, IInv, Reading, Same
<1>3. TypeOK' /\ Outcome'
  BY <1>1, <1>2 DEF IInv, TypeOK, Outcome
<1>4. Trail' /\ Cells' /\ Coverage'
  BY <1>2, SenderSame
<1>5. PICK k \in 1 .. Len(trail), s \in PackStates : s = trail[k] /\ IsAt(s)
  BY <1>1, WhereItReads
<1>7. IsAt(s)'
  BY <1>1, <1>2, <1>5, IsAtStable
<1>8. Reading'
  <2>1. \E j \in 1 .. Len(trail') : IsAt(trail[j])'
    BY <1>2, <1>5, <1>7
  <2> QED
    BY <2>1, <1>1, <1>2 DEF Reading
<1>9. ArgumentsArrive'
  <2>1. Len(got) = Len(args) % 2 ^ ArgBits
    BY <1>1, <1>2 DEF IInv, Cells, Argc
  <2>2. Len(s.stack) = 0
    BY <1>1, <1>5 DEF IsAt
  <2>3. /\ \A i \in 1 .. Len(got) : IsCopy(Origin, got[i], args[i])
        /\ \A p \in DOMAIN tables : AreCopies(Origin, tables[p], Origin[p], DOMAIN heap[Origin[p]])
    BY <2>2, <1>5 DEF IsAt
  <2>4. Origin \in [DOMAIN tables -> Tables]
    <3>1. ASSUME NEW p \in DOMAIN tables  PROVE  src[p].value[2] \in Tables
      <4>1. p \in 1 .. s.size /\ IsTableCell(p)
        BY <1>5 DEF IsAt
      <4>2. s.size \in Nat /\ s.size <= Len(src)
        <5>1. IsPackState(s)
          BY <1>5 DEF IInv, Trail
        <5> QED
          BY <5>1 DEF IsPackState, PackStates
      <4>3. p \in 1 .. Len(src) /\ src \in Seq([value : AnyValue, depth : Nat])
        BY <4>1, <4>2 DEF IInv, TypeOK
      <4>4. src[p].value \in AnyValue
        BY <4>3, SrcValues
      <4> QED
        BY <4>1, <4>4, TableValues DEF IsTableCell
    <3> QED
      BY <3>1 DEF Origin
  <2>5. PICK of : of = Origin
    OBVIOUS
  <2>6. /\ of \in [DOMAIN tables -> Tables]
        /\ \A i \in 1 .. Len(got) : IsCopy(of, got[i], args[i])
        /\ \A p \in DOMAIN tables : AreCopies(of, tables[p], of[p], DOMAIN heap[of[p]])
    BY <2>3, <2>4, <2>5
  <2>7. \A e, t, ks : AreCopies(of, e, t, ks)' <=> AreCopies(of, e, t, ks)
    BY <1>2 DEF AreCopies
  <2>8. /\ of \in [DOMAIN tables' -> Tables]
        /\ \A i \in 1 .. Len(got') : IsCopy(of, got'[i], args'[i])
        /\ \A p \in DOMAIN tables' : AreCopies(of, tables[p], of[p], DOMAIN heap[of[p]])'
    BY <2>6, <2>7, <1>1, <1>2
  <2>9. Len(got') = Len(args') % 2 ^ ArgBits
    BY <2>1, <1>1, <1>2
  <2> QED
    BY <2>8, <2>9, <1>1 DEF ArgumentsArrive
<1> QED
  BY <1>3, <1>4, <1>8, <1>9 DEF IInv

LEMMA ArgcLemma ==
  \A n \in Nat : Argc(n) \in Nat /\ Argc(n) <= n
<1>1. PICK m \in Nat \ {0} : m = 2 ^ ArgBits
  BY ArgBitsAssumption
<1>2. ASSUME NEW n \in Nat  PROVE  n % m \in Nat /\ n % m <= n
  OBVIOUS
<1> QED
  BY <1>1, <1>2 DEF Argc

(* The call that UnpackValue is in is for the table that PackValue is in. *)
LEMMA LastFrames ==
  ASSUME IInv, NEW s \in PackStates, IsPackState(s), IsAt(s), s.stack # <<>>,
         NEW f, f = Last(s.stack), NEW u, u = Last(unpack.stack)
  PROVE  /\ unpack.stack # <<>> /\ unpack.stack \in Seq(UnpackFrames)
         /\ f \in PackFrames /\ f.at \in {"next", "value"} /\ f.cell \in 1 .. s.size
         /\ src[f.cell].value = <<"table", f.table>>
         /\ u.table = f.cell /\ Cardinality(f.left) \in Nat /\ IsFiniteSet(f.left)
         /\ u.left = Cardinality(f.left) + (IF f.at = "next" THEN 0 ELSE 1)
<1>1. s.stack \in Seq(PackFrames) /\ unpack.stack \in Seq(UnpackFrames)
  BY DEF PackStates, IInv, TypeOK, UnpackStates, UnpackFrames
<1>n. PICK n \in Nat \ {0} : n = Len(s.stack)
  BY <1>1
<1>2. Len(unpack.stack) = n /\ unpack.stack # <<>>
  BY <1>1, <1>n, IsAtParts DEF AtParts, Matches
<1>3. f = s.stack[n] /\ u = unpack.stack[n] /\ f \in PackFrames
  BY <1>1, <1>2, <1>n, FrontLemma
<1>4. IsFrameOf(s, n) /\ f.at # "key" /\ FrameMatches(Origin, tables, f, u)
  <2>1. n \in 1 .. n
    OBVIOUS
  <2>2. FrameMatches(Origin, tables, s.stack[n], unpack.stack[n])
    BY <2>1, <1>n, IsAtParts DEF AtParts, Matches
  <2> QED
    BY <2>1, <2>2, <1>3, <1>n DEF IsPackState
<1>5. f.at \in {"next", "value"} /\ f.table \in Tables
  BY <1>3, <1>4 DEF PackFrames
<1>6. f.left \subseteq DOMAIN heap[f.table] /\ f.cell \in 1 .. s.size /\ src[f.cell].value = <<"table", f.table>>
  BY <1>3, <1>4 DEF IsFrameOf
<1>7. IsFiniteSet(f.left) /\ Cardinality(f.left) \in Nat
  BY <1>5, <1>6, FS_Subset, FS_CardinalityType DEF IInv, TypeOK
<1>8. u.table = f.cell /\ u.left = Cardinality(f.left) + (IF f.at = "next" THEN 0 ELSE 1)
  BY <1>4 DEF FrameMatches
<1> QED
  BY <1>1, <1>2, <1>3, <1>5, <1>6, <1>7, <1>8

LEMMA OpenCellsTables ==
  ASSUME NEW s \in PackStates, IsPackState(s)
  PROVE  OpenCells(s) \subseteq {p \in 1 .. s.size : IsTableCell(p)}
<1>1. ASSUME NEW i \in 1 .. Len(s.stack)
      PROVE  s.stack[i].cell \in 1 .. s.size /\ IsTableCell(s.stack[i].cell)
  <2>1. IsFrameOf(s, i)
    BY DEF IsPackState
  <2> QED
    BY <2>1 DEF IsFrameOf, IsTableCell
<1> QED
  BY <1>1 DEF OpenCells

LEMMA ReadScalar ==
  ASSUME IInv, result = "reading", UNCHANGED <<sender, result>>,
         NEW k, k + 1 \in 1 .. Len(trail),
         NEW s \in PackStates, IsPackState(s), IsAt(s),
         NEW x \in Calls(s), NEW n \in PackStates, n = trail[k + 1], n = AfterScalar(x),
         n.size \in 1 .. Len(src), src[n.size].value = Current(x), Current(x)[1] # "table",
         Deliver(Scalar(Current(x)), unpack.pos + 1, unpack.stack)
  PROVE  IInv'
<1> USE DEF IInv
<1>1. InCall(x) /\ x \in PackStates /\ x.size = s.size /\ s.size \in Nat
  BY CallsInCall, CallsLemma DEF PackStates
<1>2. PICK z0, g0, ts0, of : z0 = unpack.stack /\ g0 = got /\ ts0 = tables /\ of = Origin
  OBVIOUS
<1>3. /\ unpack.pos = s.size + 1 /\ DOMAIN tables = {p \in 1 .. s.size : IsTableCell(p)}
      /\ Matches(s, z0, g0, ts0, of) /\ Closed(s, ts0, of)
  BY <1>2, IsAtParts DEF AtParts
<1>4. Matches(x, z0, got, tables, of) /\ Closed(x, tables, of)
  BY <1>2, <1>3, CallsMatch
<1>5. OpenCells(x) \subseteq DOMAIN tables
  BY <1>3, OpenLemma, OpenCellsTables
<1>6. PICK w \in Received : w = Scalar(Current(x)) /\ IsCopy(of, w, Current(x))
  <2>1. Current(x) \in AnyValue
    BY <1>1, CurrentType
  <2>2. Current(x) \in Keys \union Scalars
    BY <2>1 DEF AnyValue, Value, Key, TableValue
  <2> QED
    BY <2>2 DEF Received, IsCopy
<1>7. z0 \in Seq(UnpackFrames) /\ unpack.pos + 1 \in Nat
  BY <1>1, <1>2, <1>3 DEF TypeOK, UnpackStates, UnpackFrames
<1>8. PICK pos \in Nat : pos = unpack.pos + 1
  BY <1>7
<1>9. /\ unpack'.pos = pos /\ unpack' = [pos |-> pos, stack |-> unpack'.stack]
      /\ unpack'.stack \in Seq(UnpackFrames) /\ got' \in Seq(Received)
      /\ DOMAIN tables' = DOMAIN tables
      /\ \A p \in DOMAIN tables' : IsFiniteSet(DOMAIN tables'[p])
      /\ Matches(Return(x), unpack'.stack, got', tables', of) /\ Closed(Return(x), tables', of)
  BY <1>1, <1>2, <1>4, <1>5, <1>6, <1>7, <1>8, DeliverMatch
<1>0. PICK ts : ts = tables'
  OBVIOUS
<1>10. PICK z \in Seq(UnpackFrames), g \in Seq(Received) :
         z = unpack'.stack /\ g = got' /\ ts = tables'
  BY <1>0, <1>9
<1>11. n.stack = Return(x).stack /\ n.arg = Return(x).arg /\ n.size = s.size + 1
  BY <1>1, AfterScalarLemma
<1>12. Matches(n, z, g, ts, of) /\ Closed(n, ts, of)
  BY <1>9, <1>10, <1>11 DEF Matches, Closed, OpenCells
<1>13. pos = n.size + 1 /\ DOMAIN ts = {p \in 1 .. n.size : IsTableCell(p)}
  <2>1. ~IsTableCell(n.size)
    BY DEF IsTableCell
  <2>2. \A p \in 1 .. n.size : p \in 1 .. s.size \/ p = n.size
    BY <1>1, <1>11
  <2>3. \A p \in 1 .. s.size : p \in 1 .. n.size
    BY <1>1, <1>11
  <2> QED
    BY <2>1, <2>2, <2>3, <1>3, <1>8, <1>9, <1>10, <1>11
<1>14. of = [p \in DOMAIN ts |-> src[p].value[2]]
  BY <1>2, <1>9, <1>10 DEF Origin
<1>15. unpack' = [pos |-> pos, stack |-> z] /\ \A p \in DOMAIN ts : IsFiniteSet(DOMAIN ts[p])
  BY <1>9, <1>10
<1>16. PICK j \in 1 .. Len(trail) : j = k + 1 /\ n = trail[j]
  OBVIOUS
<1> QED
  BY <1>10, <1>12, <1>13, <1>14, <1>15, <1>16, ReadingStep

(* The tables of the receiver once it has made one for cell c, and what they
   are copies of. *)
WithTable(c) ==
    [p \in DOMAIN tables \union {c} |-> IF p = c THEN NoEntries ELSE tables[p]]
Origins(ts) == [p \in DOMAIN ts |-> src[p].value[2]]

(* Both begin a table. *)
LEMMA TableMatch ==
  ASSUME TypeOK, NEW s \in PackStates, IsPackState(s), IsAt(s),
         NEW x \in Calls(s), x \in PackStates, x.size = s.size,
         NEW t, Current(x) = <<"table", t>>,
         NEW count \in Nat, count = Cardinality(DOMAIN heap[t]),
         NEW c \in Nat, c = s.size + 1,
         NEW ts, ts = WithTable(c), NEW of, of = Origins(ts),
         NEW z, z = Append(unpack.stack, UnpackFrame(c, count))
  PROVE  Matches(AfterTable(x), z, got, ts, of) /\ Closed(AfterTable(x), ts, of)
<1>1. PICK z0, g, ts0, of0 : z0 = unpack.stack /\ g = got /\ ts0 = tables /\ of0 = Origin
  OBVIOUS
<1>2. /\ DOMAIN ts0 = {p \in 1 .. s.size : IsTableCell(p)}
      /\ Matches(s, z0, g, ts0, of0) /\ Closed(s, ts0, of0)
  BY <1>1, IsAtParts DEF AtParts
<1>3. Matches(x, z0, g, ts0, of0) /\ Closed(x, ts0, of0)
  BY <1>2, CallsMatch
<1>4. OpenCells(x) \subseteq DOMAIN ts0 /\ DOMAIN of0 = DOMAIN ts0
  BY <1>1, <1>2, OpenLemma, OpenCellsTables DEF Origin
<1>5. z0 \in Seq(UnpackFrames)
  BY <1>1 DEF TypeOK, UnpackStates, UnpackFrames
<1>6. c \notin DOMAIN ts0 /\ c = x.size + 1
  <2>1. s.size \in Nat
    BY DEF PackStates
  <2> QED
    BY <2>1, <1>2
<1>7. PICK u \in UnpackFrames : u = UnpackFrame(c, count)
  <2>1. <<>> \in Seq(Received)
    OBVIOUS
  <2> QED
    BY <2>1 DEF UnpackFrame, UnpackFrames
<1>8. /\ DOMAIN ts = DOMAIN ts0 \union {c} /\ ts[c] = NoEntries
      /\ \A p \in DOMAIN ts0 : ts[p] = ts0[p]
  BY <1>1, <1>6 DEF WithTable
<1>9. \A p \in DOMAIN of0 : p \in DOMAIN of /\ of[p] = of0[p]
  BY <1>1, <1>8 DEF Origin, Origins
<1>n. PICK n \in Nat : n = Len(x.stack)
  BY DEF PackStates
<1>10. PICK f : f = PackFrame(t, c)
  OBVIOUS
<1>11. PICK r : r = AfterTable(x)
  OBVIOUS
<1>12. /\ r.arg = x.arg /\ Len(r.stack) = n + 1 /\ r.stack[n + 1] = f
       /\ \A i \in 1 .. n : r.stack[i] = x.stack[i]
       /\ OpenCells(r) = OpenCells(x) \union {c}
  BY <1>6, <1>10, <1>11, <1>n, OpenAfterTable, SMTT(30)
<1>13. PICK y : y = Append(z0, u)
  OBVIOUS
<1>14. /\ Len(z0) = n /\ Len(y) = n + 1 /\ y[n + 1] = u
       /\ \A i \in 1 .. n : y[i] = z0[i]
  <2>1. Len(z0) = n
    BY <1>3, <1>n DEF Matches
  <2> QED
    BY <2>1, <1>5, <1>7, <1>13, AppendLemma
<1>15. FrameMatches(of, ts, f, u)
  <2>1. f.cell = c /\ f.at = "next" /\ f.left = DOMAIN heap[t] /\ f.table = t
    BY <1>10 DEF PackFrame
  <2>2. u = [table |-> f.cell, left |-> Cardinality(f.left) + 0, key |-> <<>>]
    BY <2>1, <1>7 DEF UnpackFrame
  <2>3. Done(f) = {}
    BY <2>1 DEF Done
  <2>4. ts[f.cell] = NoEntries /\ DOMAIN NoEntries = {}
    BY <2>1, <1>8 DEF NoEntries
  <2>5. AreCopies(of, ts[f.cell], f.table, Done(f))
    BY <2>3, <2>4 DEF AreCopies
  <2> QED
    BY <2>1, <2>2, <2>5 DEF FrameMatches
<1>16. ASSUME NEW i \in 1 .. n  PROVE  FrameMatches(of, ts, r.stack[i], y[i])
  <2>1. PICK h : h = x.stack[i]
    OBVIOUS
  <2>2. FrameMatches(of0, ts0, h, z0[i])
    BY <2>1, <1>3, <1>n DEF Matches
  <2>3. h.cell \in DOMAIN ts0
    BY <2>1, <1>4, <1>n DEF OpenCells
  <2>4. ts[h.cell] = ts0[h.cell]
    BY <2>3, <1>8
  <2>5. /\ \A a, v : IsCopy(of0, a, v) => IsCopy(of, a, v)
        /\ \A e, tt, ks : AreCopies(of0, e, tt, ks) => AreCopies(of, e, tt, ks)
    BY <1>9, CopiesGrow
  <2>6. FrameMatches(of, ts, h, z0[i])
    BY <2>2, <2>4, <2>5 DEF FrameMatches
  <2> QED
    BY <2>1, <2>6, <1>12, <1>14
<1>17. \A i \in 1 .. n + 1 : FrameMatches(of, ts, r.stack[i], y[i])
  <2>1. \A i \in 1 .. n + 1 : i \in 1 .. n \/ i = n + 1
    OBVIOUS
  <2> QED
    BY <2>1, <1>12, <1>14, <1>15, <1>16
<1>18. Len(g) = r.arg - 1 /\ \A i \in 1 .. Len(g) : IsCopy(of, g[i], args[i])
  <2>1. Len(g) = x.arg - 1 /\ \A i \in 1 .. Len(g) : IsCopy(of0, g[i], args[i])
    BY <1>3 DEF Matches
  <2> QED
    BY <2>1, <1>9, <1>12, CopiesGrow
<1>19. Matches(r, y, g, ts, of)
  BY <1>12, <1>14, <1>17, <1>18 DEF Matches
<1>20. Closed(r, ts, of)
  <2>1. ASSUME NEW p \in DOMAIN ts0
        PROVE  p \in OpenCells(r) \/ AreCopies(of, ts[p], of[p], DOMAIN heap[of[p]])
    <3>1. p \in OpenCells(x) \/ AreCopies(of0, ts0[p], of0[p], DOMAIN heap[of0[p]])
      BY <1>3 DEF Closed
    <3>2. ts[p] = ts0[p] /\ of[p] = of0[p]
      BY <1>4, <1>8, <1>9
    <3>3. \A e, q, ks : AreCopies(of0, e, q, ks) => AreCopies(of, e, q, ks)
      BY <1>9, CopiesGrow
    <3> QED
      BY <3>1, <3>2, <3>3, <1>12
  <2>2. DOMAIN ts = DOMAIN ts0 \union {c} /\ c \in OpenCells(r)
    BY <1>8, <1>12
  <2> QED
    BY <2>1, <2>2 DEF Closed
<1> QED
  BY <1>1, <1>7, <1>11, <1>13, <1>19, <1>20

LEMMA ReadTable ==
  ASSUME IInv, result = "reading", UNCHANGED <<sender, result>>,
         NEW k, k + 1 \in 1 .. Len(trail),
         NEW s \in PackStates, IsPackState(s), IsAt(s),
         NEW x \in Calls(s), NEW n \in PackStates, n = trail[k + 1], n = AfterTable(x),
         n.size \in 1 .. Len(src), src[n.size].value = Current(x),
         NEW t \in Tables, Current(x) = <<"table", t>>,
         NEW count, count = Cardinality(DOMAIN heap[t]),
         tables' = WithTable(unpack.pos),
         unpack' = [pos |-> unpack.pos + 1,
                    stack |-> Append(unpack.stack, UnpackFrame(unpack.pos, count))],
         got' = got
  PROVE  IInv'
<1> USE DEF IInv
<1>1. InCall(x) /\ x \in PackStates /\ x.size = s.size /\ s.size \in Nat
  BY CallsInCall, CallsLemma DEF PackStates
<1>2. unpack.pos = s.size + 1 /\ DOMAIN tables = {p \in 1 .. s.size : IsTableCell(p)}
  BY IsAtParts DEF AtParts
<1>3. PICK c \in Nat : c = s.size + 1 /\ c = unpack.pos /\ c = n.size
  <2>1. n.size = x.size + 1
    BY <1>1, OpenAfterTable
  <2> QED
    BY <2>1, <1>1, <1>2
<1>4. PICK m \in Nat : m = count
  BY FS_CardinalityType DEF TypeOK
<1>5. PICK ts : ts = WithTable(c)
  OBVIOUS
<1>6. PICK of : of = Origins(ts)
  OBVIOUS
<1>7. PICK z \in Seq(UnpackFrames) : z = Append(unpack.stack, UnpackFrame(c, m))
  <2>1. UnpackFrame(c, m) \in UnpackFrames
    <3>1. <<>> \in Seq(Received)
      OBVIOUS
    <3> QED
      BY <3>1 DEF UnpackFrame, UnpackFrames
  <2>2. unpack.stack \in Seq(UnpackFrames)
    BY DEF TypeOK, UnpackStates, UnpackFrames
  <2> QED
    BY <2>1, <2>2, AppendLemma
<1>8. PICK g \in Seq(Received) : g = got
  BY DEF TypeOK
<1>9. Matches(AfterTable(x), z, got, ts, of) /\ Closed(AfterTable(x), ts, of)
  <2>1. m = Cardinality(DOMAIN heap[t])
    BY <1>4
  <2> QED
    BY <2>1, <1>1, <1>3, <1>5, <1>6, <1>7, TableMatch
<1>10. Matches(n, z, g, ts, of) /\ Closed(n, ts, of)
  BY <1>8, <1>9
<1>11. PICK pos \in Nat : pos = c + 1
  OBVIOUS
<1>12. unpack' = [pos |-> pos, stack |-> z] /\ got' = g /\ tables' = ts
  BY <1>3, <1>4, <1>5, <1>7, <1>8, <1>11
<1>13. DOMAIN ts = DOMAIN tables \union {c} /\ ts[c] = NoEntries
       /\ \A p \in DOMAIN tables : p # c => ts[p] = tables[p]
  BY <1>5 DEF WithTable
<1>14. pos = n.size + 1 /\ DOMAIN ts = {p \in 1 .. n.size : IsTableCell(p)}
  <2>1. IsTableCell(n.size)
    BY DEF IsTableCell
  <2>2. \A p \in 1 .. n.size : p \in 1 .. s.size \/ p = n.size
    BY <1>1, <1>3, SMTT(30)
  <2>3. \A p \in 1 .. s.size : p \in 1 .. n.size
    BY <1>1, <1>3
  <2>4. n.size \in 1 .. n.size
    BY <1>1, <1>3
  <2> QED
    BY <2>1, <2>2, <2>3, <2>4, <1>2, <1>3, <1>11, <1>13
<1>15. \A p \in DOMAIN ts : IsFiniteSet(DOMAIN ts[p])
  <2>1. \A p \in DOMAIN tables : IsFiniteSet(DOMAIN tables[p])
    BY DEF TypeOK
  <2>2. IsFiniteSet(DOMAIN NoEntries)
    BY FS_EmptySet DEF NoEntries
  <2> QED
    BY <2>1, <2>2, <1>13
<1>16. PICK j \in 1 .. Len(trail) : j = k + 1 /\ n = trail[j]
  OBVIOUS
<1>17. of = [p \in DOMAIN ts |-> src[p].value[2]]
  BY <1>6 DEF Origins
<1> QED
  BY <1>10, <1>12, <1>14, <1>15, <1>16, <1>17, ReadingStep
(* UnpackValue reads the cell that PackValue wrote next. *)
LEMMA UnpackValueStep ==
  ASSUME IInv, UnpackValue
  PROVE  IInv'
<1> USE DEF IInv
<1>1. result = "reading" /\ ValueIsDue
  BY DEF UnpackValue
<1>2. PICK k \in 1 .. Len(trail), s \in PackStates :
        /\ s = trail[k] /\ IsPackState(s) /\ IsAt(s)
        /\ \/ unpack.stack = <<>> /\ Len(got) = Len(args)
           \/ /\ k + 1 \in 1 .. Len(trail)
              /\ \E n \in PackStates : n = trail[k + 1] /\ IsPackState(n) /\ IsPackStep(s, n)
  BY <1>1, WhereItReads
<1>3. ~(unpack.stack = <<>> /\ Len(got) = Len(args))
  <2>1. SUFFICES ASSUME unpack.stack = <<>>, Len(got) = Len(args)  PROVE FALSE
    OBVIOUS
  <2>2. Len(args) \in Nat /\ sent = "sent"
    BY <1>1 DEF TypeOK, Reading
  <2>3. buff.argc = Argc(Len(args))
    BY <2>2 DEF Cells
  <2>4. Len(got) < buff.argc
    BY <2>1, <1>1 DEF ValueIsDue
  <2> QED
    BY <2>1, <2>2, <2>3, <2>4, ArgcLemma
<1>4. PICK n \in PackStates : n = trail[k + 1] /\ IsPackState(n) /\ IsPackStep(s, n)
  BY <1>2, <1>3
<1>5. k + 1 \in 1 .. Len(trail)
  BY <1>2, <1>3
<1>6. ~AtEnd(s)
  <2>1. SUFFICES ASSUME AtEnd(s)  PROVE FALSE
    OBVIOUS
  <2>2. PICK f, u : f = Last(s.stack) /\ u = Last(unpack.stack)
    OBVIOUS
  <2>3. s.stack # <<>> /\ f.at = "next" /\ f.left = {}
    BY <2>1, <2>2 DEF AtEnd
  <2>4. /\ unpack.stack # <<>>
        /\ u.left = Cardinality(f.left) + (IF f.at = "next" THEN 0 ELSE 1)
    BY <2>2, <2>3, <1>2, LastFrames
  <2>5. u.left = 0
    BY <2>3, <2>4, FS_EmptySet
  <2> QED
    BY <2>2, <2>4, <2>5, <1>1 DEF ValueIsDue
<1>7. PICK x \in Calls(s) :
        /\ n.size = s.size + 1 /\ src[n.size].value = Current(x)
        /\ n = IF Current(x)[1] = "table" THEN AfterTable(x) ELSE AfterScalar(x)
  BY <1>4, <1>6 DEF IsPackStep
<1>8. n.size \in 1 .. Len(src) /\ unpack.pos = n.size
  <2>1. s.size \in Nat /\ n.size \in Nat /\ n.size <= Len(src)
    BY <1>4 DEF PackStates, IsPackState
  <2>3. Len(src) \in Nat
    BY DEF TypeOK
  <2>2. unpack.pos = s.size + 1
    BY <1>2 DEF IsAt
  <2> QED
    BY <2>1, <2>2, <2>3, <1>7
<1>9. PICK cell : cell = buff.cells[unpack.pos]
  OBVIOUS
<1>10. cell = Cell(n.size) /\ ~(unpack.pos > Len(buff.cells))
  <2>1. buff.cells = [p \in 1 .. Len(src) |-> Cell(p)]
    BY DEF Cells
  <2>2. Len(buff.cells) = Len(src) /\ Len(src) \in Nat
    BY <2>1 DEF TypeOK
  <2> QED
    BY <2>1, <2>2, <1>8, <1>9
<1>11. /\ IF cell[1] # "table" THEN Deliver(cell, unpack.pos + 1, unpack.stack)
          ELSE /\ tables' = WithTable(unpack.pos)
               /\ unpack' = [pos |-> unpack.pos + 1,
                             stack |-> Append(unpack.stack, UnpackFrame(unpack.pos, cell[2]))]
               /\ got' = got
       /\ UNCHANGED <<sender, result>>
  BY <1>9, <1>10 DEF UnpackValue, WithTable
<1>12. ~Open(n.size)
  BY <1>1 DEF Reading, Outcome, Open
<1>13. InCall(x) /\ x \in PackStates /\ Current(x) \in AnyValue
  <2>1. InCall(x) /\ x \in PackStates
    BY <1>2, CallsInCall, CallsLemma
  <2> QED
    BY <2>1, CurrentType
<1>14. CASE Current(x)[1] # "table"
  <2>1. cell = Scalar(Current(x))
    BY <1>7, <1>10, <1>14 DEF Cell, IsTableCell
  <2>2. cell[1] # "table"
    BY <2>1, <1>13, <1>14, ScalarValues
  <2>3. Deliver(Scalar(Current(x)), unpack.pos + 1, unpack.stack)
    BY <2>1, <2>2, <1>11
  <2>4. n = AfterScalar(x)
    BY <1>7, <1>14
  <2> QED
    BY <2>3, <2>4, <1>1, <1>2, <1>4, <1>5, <1>7, <1>8, <1>11, <1>14, ReadScalar
<1>15. CASE Current(x)[1] = "table"
  <2>1. PICK t \in Tables : Current(x) = <<"table", t>>
    BY <1>13, <1>15, TableValues
  <2>2. PICK count : count = Cardinality(DOMAIN heap[t])
    OBVIOUS
  <2>3. cell = <<"table", count>>
    BY <2>1, <2>2, <1>7, <1>10, <1>12 DEF Cell, IsTableCell
  <2>4. /\ tables' = WithTable(unpack.pos)
        /\ unpack' = [pos |-> unpack.pos + 1,
                      stack |-> Append(unpack.stack, UnpackFrame(unpack.pos, count))]
        /\ got' = got
    <3>1. cell[1] = "table" /\ cell[2] = count
      BY <2>3
    <3> QED
      BY <3>1, <1>11
  <2>5. n = AfterTable(x)
    BY <1>7, <1>15
  <2> QED
    BY <2>1, <2>2, <2>4, <2>5, <1>1, <1>2, <1>4, <1>5, <1>7, <1>8, <1>11, ReadTable
<1> QED
  BY <1>14, <1>15

(* UnpackValue returns from a table where PackValue did. *)
LEMMA UnpackEndsStep ==
  ASSUME IInv, UnpackEnds
  PROVE  IInv'
<1> USE DEF IInv
<1>1. /\ result = "reading" /\ unpack.stack # <<>> /\ Last(unpack.stack).left = 0
      /\ Deliver(<<"table", Last(unpack.stack).table>>, unpack.pos, Front(unpack.stack))
      /\ UNCHANGED <<sender, result>>
  BY DEF UnpackEnds
<1>2. PICK k \in 1 .. Len(trail), s \in PackStates :
        /\ s = trail[k] /\ IsPackState(s) /\ IsAt(s)
        /\ k + 1 \in 1 .. Len(trail)
        /\ \E n \in PackStates : n = trail[k + 1] /\ IsPackState(n) /\ IsPackStep(s, n)
  BY <1>1, WhereItReads
<1>3. PICK n \in PackStates : n = trail[k + 1] /\ IsPackState(n) /\ IsPackStep(s, n)
  BY <1>2
<1>4. s.stack # <<>>
  <2>1. Len(unpack.stack) = Len(s.stack) /\ unpack.stack \in Seq(UnpackFrames)
    BY <1>2 DEF IsAt, TypeOK, UnpackStates, UnpackFrames
  <2>2. Len(unpack.stack) # 0
    BY <2>1, <1>1
  <2>3. Len(<<>>) = 0
    OBVIOUS
  <2> QED
    BY <2>1, <2>2, <2>3
<1>5. PICK f, u : f = Last(s.stack) /\ u = Last(unpack.stack)
  OBVIOUS
<1>6. /\ f \in PackFrames /\ f.at \in {"next", "value"} /\ f.cell \in 1 .. s.size
      /\ src[f.cell].value = <<"table", f.table>>
      /\ u.table = f.cell /\ Cardinality(f.left) \in Nat /\ IsFiniteSet(f.left)
      /\ u.left = Cardinality(f.left) + (IF f.at = "next" THEN 0 ELSE 1)
  BY <1>2, <1>4, <1>5, LastFrames, ZenonT(60)
<1>7. f.at = "next" /\ f.left = {}
  <2>1. u.left = 0
    BY <1>1, <1>5
  <2>2. f.at = "next" /\ Cardinality(f.left) = 0
    BY <2>1, <1>6
  <2> QED
    BY <2>2, <1>6, FS_EmptySet
<1>8. AtEnd(s)
  BY <1>4, <1>5, <1>7 DEF AtEnd
<1>9. n = AfterEnd(s)
  <2>1. Calls(s) = {}
    BY <1>4, <1>5, <1>7 DEF Calls
  <2> QED
    BY <2>1, <1>3 DEF IsPackStep
<1>10. PICK x : x = [s EXCEPT !.stack = Front(@)]
  OBVIOUS
<1>11. /\ InCall(x) /\ x.size = s.size /\ Current(x) = <<"table", f.table>>
  BY <1>2, <1>5, <1>8, <1>10, EndFacts, ZenonT(60)
<1>12. n = Return(x)
  BY <1>9, <1>10 DEF AfterEnd
<1>13. x \in PackStates /\ s.size \in Nat
  BY <1>11 DEF InCall, PackStates
<1>14. PICK z0 \in Seq(UnpackFrames) : z0 = unpack.stack
  BY DEF TypeOK, UnpackStates, UnpackFrames
<1>15. PICK g0, ts0, of : g0 = got /\ ts0 = tables /\ of = Origin
  OBVIOUS
<1>16. /\ unpack.pos = s.size + 1 /\ DOMAIN tables = {p \in 1 .. s.size : IsTableCell(p)}
       /\ Matches(s, z0, g0, ts0, of) /\ Closed(s, ts0, of)
  BY <1>2, <1>14, <1>15, IsAtParts DEF AtParts
<1>17. OpenCells(s) \subseteq DOMAIN tables /\ f.cell \in OpenCells(s)
  <2>1. OpenCells(s) \subseteq DOMAIN tables
    BY <1>2, <1>16, OpenCellsTables
  <2>2. s.stack \in Seq(PackFrames)
    BY DEF PackStates
  <2>3. PICK m \in Nat \ {0} : m = Len(s.stack)
    BY <2>2, <1>4
  <2>4. f = s.stack[m]
    <3>1. PICK q \in Seq(PackFrames) : q = s.stack /\ q # <<>>
      BY <2>2, <1>4
    <3>2. Last(q) = q[Len(q)]
      BY <3>1, FrontLemma
    <3> QED
      BY <3>1, <3>2, <2>3, <1>5
  <2>5. m \in 1 .. m
    OBVIOUS
  <2> QED
    BY <2>1, <2>3, <2>4, <2>5 DEF OpenCells
<1>18. of[f.cell] = f.table
  BY <1>6, <1>15, <1>17 DEF Origin
<1>19. PICK z \in Seq(UnpackFrames) : z = Front(unpack.stack)
  <2>1. z0 # <<>>
    BY <1>1, <1>14
  <2> QED
    BY <2>1, <1>14, FrontLemma
<1>20. Matches(x, z, got, tables, of) /\ Closed(x, tables, of)
  <2>1. of[Last(s.stack).cell] = Last(s.stack).table
    BY <1>5, <1>18
  <2>2. Matches(x, Front(z0), g0, ts0, of) /\ Closed(x, ts0, of)
    BY <2>1, <1>2, <1>8, <1>10, <1>14, <1>16, EndMatch
  <2> QED
    BY <2>2, <1>14, <1>15, <1>19
<1>21. OpenCells(x) \subseteq DOMAIN tables
  <2>1. OpenCells(n) = OpenCells(s) \ {f.cell}
    BY <1>2, <1>5, <1>8, <1>9, OpenAfterEnd
  <2>2. OpenCells(n) = OpenCells(x)
    BY <1>12, <1>13, OpenLemma
  <2> QED
    BY <2>1, <2>2, <1>17
<1>22. PICK w \in Received : w = <<"table", f.cell>> /\ IsCopy(of, w, Current(x))
  <2>1. f.cell \in Nat
    BY <1>6, <1>13
  <2>2. <<"table", f.cell>> \in Received
    BY <2>1 DEF Received
  <2>3. f.cell \in DOMAIN of
    BY <1>15, <1>17 DEF Origin
  <2>4. IsCopy(of, <<"table", f.cell>>, <<"table", f.table>>)
    BY <2>3, <1>18 DEF IsCopy
  <2> QED
    BY <2>2, <2>4, <1>11
<1>23. PICK pos \in Nat : pos = unpack.pos
  BY <1>13, <1>16
<1>24. Deliver(w, pos, z)
  BY <1>1, <1>5, <1>6, <1>19, <1>22, <1>23
<1>25. /\ unpack'.pos = pos /\ unpack' = [pos |-> pos, stack |-> unpack'.stack]
       /\ unpack'.stack \in Seq(UnpackFrames) /\ got' \in Seq(Received)
       /\ DOMAIN tables' = DOMAIN tables
       /\ \A p \in DOMAIN tables' : IsFiniteSet(DOMAIN tables'[p])
       /\ Matches(Return(x), unpack'.stack, got', tables', of) /\ Closed(Return(x), tables', of)
  BY <1>11, <1>13, <1>20, <1>21, <1>22, <1>24, DeliverMatch
<1>26. PICK z1 \in Seq(UnpackFrames), g1 \in Seq(Received) : z1 = unpack'.stack /\ g1 = got'
  BY <1>25
<1>27. PICK ts1 : ts1 = tables'
  OBVIOUS
<1>28. Matches(n, z1, g1, ts1, of) /\ Closed(n, ts1, of)
  BY <1>12, <1>25, <1>26, <1>27
<1>29. n.size = s.size
  <2>1. Return(x).size = x.size
    BY <1>13, ReturnLemma
  <2> QED
    BY <2>1, <1>11, <1>12
<1>30. pos = n.size + 1 /\ DOMAIN ts1 = {p \in 1 .. n.size : IsTableCell(p)}
  BY <1>16, <1>23, <1>25, <1>27, <1>29
<1>31. of = [p \in DOMAIN ts1 |-> src[p].value[2]]
  BY <1>15, <1>25, <1>27 DEF Origin
<1>32. /\ unpack' = [pos |-> pos, stack |-> z1] /\ got' = g1 /\ tables' = ts1
       /\ \A p \in DOMAIN ts1 : IsFiniteSet(DOMAIN ts1[p])
  BY <1>25, <1>26, <1>27
<1>33. PICK j \in 1 .. Len(trail) : j = k + 1 /\ n = trail[j]
  BY <1>2, <1>3
<1> QED
  BY <1>1, <1>28, <1>30, <1>31, <1>32, <1>33, ReadingStep
-----------------------------------------------------------------------------
(* The theorems. *)

LEMMA StutterStep ==
  ASSUME IInv, UNCHANGED vars
  PROVE  IInv'
<1>1. /\ UNCHANGED <<heap, args, call, sent, buff, pack, src, trail>>
      /\ UNCHANGED <<result, unpack, got, tables>> /\ Same
  BY DEF vars, sender, receiver, Same
<1>2. TypeOK'
  BY <1>1 DEF IInv, TypeOK
<1>3. Trail' /\ Cells' /\ Coverage'
  BY <1>1, SenderSame
<1>4. Outcome'
  <2>1. \A c : Inside(c)' = Inside(c)
    BY <1>1 DEF Inside, Parts
  <2>2. \A c : IsChain(c)' <=> IsChain(c)
    BY <2>1 DEF IsChain
  <2>3. Unpackable' <=> Unpackable
    BY <2>1, <2>2 DEF Unpackable
  <2> QED
    BY <2>3, <1>1 DEF IInv, Outcome
<1>5. Reading'
  <2>1. CASE result = "none"
    BY <2>1, <1>1 DEF IInv, Reading
  <2>2. CASE result # "none"
    <3>1. PICK k \in 1 .. Len(trail) : IsAt(trail[k])
      BY <2>2 DEF IInv, Reading
    <3>2. PICK s : s = trail[k] /\ IsAt(s)
      BY <3>1
    <3>3. IsAt(s)'
      BY <3>2, <1>1, IsAtStable
    <3>4. \E j \in 1 .. Len(trail') : IsAt(trail[j])'
      BY <3>2, <3>3, <1>1
    <3> QED
      BY <3>4, <2>2, <1>1 DEF IInv, Reading
  <2> QED
    BY <2>1, <2>2
<1>6. ArgumentsArrive'
  <2>1. \A of, e, t, ks : AreCopies(of, e, t, ks)' <=> AreCopies(of, e, t, ks)
    BY <1>1 DEF AreCopies
  <2> QED
    BY <2>1, <1>1 DEF IInv, ArgumentsArrive
<1> QED
  BY <1>2, <1>3, <1>4, <1>5, <1>6 DEF IInv

LEMMA NextInv ==
  IInv /\ [Next]_vars => IInv'
<1> SUFFICES ASSUME IInv, [Next]_vars PROVE IInv'
  OBVIOUS
<1>1. ASSUME NEW t \in Tables, NEW k \in Key, NEW v \in Value, SetTable(t, k, v)
      PROVE  IInv'
  BY <1>1, SetTableStep
<1>2. ASSUME NEW v \in Value, Push(v)  PROVE  IInv'
  BY <1>2, PushStep
<1>3. ASSUME Send \/ Call \/ Ret  PROVE  IInv'
  <2>1. PICK function \in {"Send", "Call", "Ret"} : Begin(function)
    BY <1>3 DEF Send, Call, Ret
  <2> QED
    BY <2>1, BeginStep
<1>4. ASSUME PackScalar  PROVE  IInv'
  BY <1>4, ScalarStep
<1>5. ASSUME PackTable  PROVE  IInv'
  BY <1>5, TableStep
<1>6. ASSUME EndOfTable  PROVE  IInv'
  BY <1>6, EndStep
<1>7. ASSUME PackFails  PROVE  IInv'
  BY <1>7, FailsStep
<1>8. ASSUME PackReturns  PROVE  IInv'
  BY <1>8, PackReturnsStep
<1>9. ASSUME OnServiceMsg \/ OnRetMsg  PROVE  IInv'
  BY <1>9, ReceiveStep DEF OnServiceMsg, OnRetMsg
<1>10. ASSUME UnpackValue  PROVE  IInv'
  BY <1>10, UnpackValueStep
<1>11. ASSUME UnpackEnds  PROVE  IInv'
  BY <1>11, UnpackEndsStep
<1>12. ASSUME UnpackReturns  PROVE  IInv'
  BY <1>12, UnpackReturnsStep
<1>13. ASSUME UNCHANGED vars  PROVE  IInv'
  BY <1>13, StutterStep
<1> QED
  BY <1>1, <1>2, <1>3, <1>4, <1>5, <1>6, <1>7, <1>8, <1>9, <1>10, <1>11, <1>12, <1>13
  DEF Next

(* The invariant of PackValue and UnpackValue: what was written is what the
   calls of PackValue have had, and the receiver is where PackValue once was. *)
THEOREM Invariance == Spec => []IInv
<1> QED
  BY InitInv, NextInv, PTL DEF Spec

(* The variables of PackValue and UnpackValue keep their types. *)
THEOREM TypeCorrect == Spec => []TypeOK
<1>1. IInv => TypeOK
  BY DEF IInv
<1> QED
  BY <1>1, Invariance, PTL

(* PackValue fails for a value of another type or for one that is too deep,
   a cycle included, and for nothing else, in whatever order lua_next finds
   the keys of the tables. *)
THEOREM PackingFailsOnlyForTypeOrDepth == Spec => []PackFailsOnlyForTypeOrDepth
<1> QED
  BY SentIsPackable, Invariance, PTL

(* UnpackValue reads every message that PackValue wrote, and the handler or
   the caller gets a copy of each argument in its place. *)
THEOREM EveryArgumentArrives == Spec => []ArgumentsArrive
<1>1. IInv => ArgumentsArrive
  BY DEF IInv
<1> QED
  BY <1>1, Invariance, PTL

===============================================================================
