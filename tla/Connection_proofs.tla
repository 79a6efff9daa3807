--------------------------- MODULE Connection_proofs ---------------------------
(***************************************************************************)
(* What is written to a connection comes out in order and once, and no     *)
(* write, no data and no request to close is left without what takes care  *)
(* of it, for any buffer sizes, lengths and bounds.                        *)
(***************************************************************************)
EXTENDS Connection, TLAPS

USE ConnectionAssumption DEF ConnectionAssumption

-----------------------------------------------------------------------------
(* Types. *)

LEMMA ConstantTypes ==
  /\ BuffSize \in Nat \ {0} /\ SendBuffer \in Nat \ {0}
  /\ MaxBytes \in Nat /\ MaxObjs \in Nat /\ MaxData \in Nat
  /\ \A len \in Lens : len \in Nat
BY ConnectionAssumption

(* The numbers that the steps compute with. *)
LEMMA Typed ==
  ASSUME TypeOK
  PROVE  /\ accepted \in Nat /\ accepted <= MaxBytes
         /\ Len(wire) \in Nat /\ Len(wire) <= accepted
         /\ peerGot \in Nat /\ peerGot <= Len(wire) /\ Room \in Nat
         /\ inbox \in Nat /\ came \in Nat /\ inbox <= came /\ came <= MaxData
         /\ objs \in Seq(Objs) /\ mailbox \in Seq(SUBSET {"accept", "read", "write", "close"})
         /\ wire \in Seq(1 .. MaxBytes)
<1>1. /\ accepted \in 0 .. MaxBytes /\ wire \in Seq(1 .. MaxBytes) /\ Len(wire) <= accepted
      /\ peerGot \in 0 .. Len(wire) /\ Room >= 0
      /\ inbox \in 0 .. MaxData /\ came \in 0 .. MaxData /\ inbox <= came
      /\ objs \in Seq(Objs) /\ mailbox \in Seq(SUBSET {"accept", "read", "write", "close"})
  BY DEF TypeOK
<1>2. Len(wire) \in Nat
  BY <1>1
<1>3. peerGot \in Nat /\ peerGot <= Len(wire)
  BY <1>1, <1>2
<1>4. Room \in Int
  BY <1>2, <1>3, ConstantTypes DEF Room
<1> QED
  BY <1>1, <1>2, <1>3, <1>4, ConstantTypes

(* The first of the writes that wait. *)
LEMMA Front ==
  ASSUME TypeOK, objs # <<>>
  PROVE  /\ Len(objs) \in Nat \ {0} /\ Head(objs) = objs[1] /\ Head(objs) \in Objs
         /\ Head(objs).from \in 1 .. MaxBytes + 1 /\ Head(objs).to \in 0 .. MaxBytes
         /\ FrontLen \in Nat
         /\ Tail(objs) \in Seq(Objs) /\ Len(Tail(objs)) = Len(objs) - 1
         /\ \A i \in 1 .. Len(objs) - 1 : Tail(objs)[i] = objs[i + 1]
<1>1. objs \in Seq(Objs)
  BY Typed
<1>2. /\ Len(objs) \in Nat \ {0} /\ Head(objs) = objs[1] /\ Head(objs) \in Objs
      /\ Tail(objs) \in Seq(Objs) /\ Len(Tail(objs)) = Len(objs) - 1
      /\ \A i \in 1 .. Len(objs) - 1 : Tail(objs)[i] = objs[i + 1]
  BY <1>1
<1>3. Head(objs).from \in 1 .. MaxBytes + 1 /\ Head(objs).to \in 0 .. MaxBytes
  BY <1>2 DEF Objs
<1>4. Head(objs).from <= Head(objs).to + 1
  <2>1. 1 \in 1 .. Len(objs)
    BY <1>2
  <2> QED
    BY <1>2, <2>1 DEF TypeOK
<1>5. FrontLen \in Nat
  BY <1>3, <1>4, ConstantTypes DEF FrontLen
<1> QED
  BY <1>2, <1>3, <1>5

(* What write() takes goes to the end of the send buffer. *)
LEMMA Puts ==
  ASSUME TypeOK, NEW from \in Nat, NEW n \in Nat, Put(from, n)
  PROVE  /\ Len(wire') = Len(wire) + n
         /\ \A i \in 1 .. Len(wire) : wire'[i] = wire[i]
         /\ \A i \in 1 .. n : wire'[Len(wire) + i] = from + i - 1
         /\ from > 0 /\ from + n <= MaxBytes + 1 => wire' \in Seq(1 .. MaxBytes)
<1> DEFINE new == [i \in 1 .. n |-> from + i - 1]
<1>1. new \in Seq(Nat \cup {-1}) /\ Len(new) = n
  OBVIOUS
<1>2. wire \in Seq(1 .. MaxBytes) /\ Len(wire) \in Nat
  BY Typed
<1>3. wire' = wire \o new
  BY DEF Put
<1>4. wire \in Seq(Nat \cup {-1})
  BY <1>2, ConstantTypes
<1>5. /\ Len(wire') = Len(wire) + n
      /\ \A i \in 1 .. Len(wire) : wire'[i] = wire[i]
  BY <1>1, <1>2, <1>3, <1>4
<1>6. ASSUME NEW i \in 1 .. n PROVE wire'[Len(wire) + i] = from + i - 1
  <2>1. /\ Len(wire) + i \in 1 .. Len(wire) + Len(new) /\ ~(Len(wire) + i <= Len(wire))
        /\ Len(wire) + i - Len(wire) = i
    BY <1>1, <1>2
  <2>2. wire'[Len(wire) + i] = new[i]
    BY <1>1, <1>2, <1>3, <1>4, <2>1
  <2> QED
    BY <2>2
<1>7. ASSUME from > 0, from + n <= MaxBytes + 1
      PROVE  wire' \in Seq(1 .. MaxBytes)
  <2>1. \A i \in 1 .. n : from + i - 1 \in 1 .. MaxBytes
    BY <1>7, ConstantTypes
  <2>2. new \in Seq(1 .. MaxBytes)
    BY <2>1
  <2> QED
    BY <1>2, <1>3, <2>2
<1> QED
  BY <1>5, <1>6, <1>7

(* A message that is sent comes last, and the first is taken. *)
LEMMA Appends ==
  ASSUME TypeOK, NEW m \in SUBSET {"accept", "read", "write", "close"},
         mailbox' = Append(mailbox, m)
  PROVE  /\ mailbox' \in Seq(SUBSET {"accept", "read", "write", "close"})
         /\ Len(mailbox') = Len(mailbox) + 1 /\ Len(mailbox) \in Nat
         /\ \A i \in 1 .. Len(mailbox) : mailbox'[i] = mailbox[i]
         /\ mailbox'[Len(mailbox')] = m
<1>1. mailbox \in Seq(SUBSET {"accept", "read", "write", "close"})
  BY Typed
<1> QED
  BY <1>1

LEMMA Takes ==
  ASSUME TypeOK, mailbox # <<>>, mailbox' = Tail(mailbox)
  PROVE  /\ mailbox' \in Seq(SUBSET {"accept", "read", "write", "close"})
         /\ Len(mailbox) \in Nat \ {0} /\ Len(mailbox') = Len(mailbox) - 1
         /\ \A i \in 1 .. Len(mailbox') : mailbox'[i] = mailbox[i + 1]
         /\ Head(mailbox) = mailbox[1]
         /\ Head(mailbox) \in SUBSET {"accept", "read", "write", "close"}
<1>1. mailbox \in Seq(SUBSET {"accept", "read", "write", "close"})
  BY Typed
<1> QED
  BY <1>1

(* write() takes what there is room for. *)
LEMMA TakenBounds ==
  ASSUME TypeOK, NEW len \in Nat
  PROVE  /\ Taken(len) \in Nat /\ Taken(len) <= len /\ Taken(len) <= Room
         /\ Taken(len) < len => Taken(len) = Room
<1>1. Room \in Nat
  BY Typed
<1> QED
  BY <1>1 DEF Taken

-----------------------------------------------------------------------------
(* The bytes that are written. *)

LEMMA WriteSteps ==
  ASSUME Next
  PROVE  \/ \E len \in Lens : Write(len)
         \/ WriteFront \/ WritePart
         \/ UNCHANGED <<objs, accepted, wire>>
<1>1. CASE ServiceStep
  BY <1>1 DEF ServiceStep, TakeMessage, ReadData, DataReturns, ReadNothing, ReadEnd, Watch,
              WriteError, Drained, ModifyEvent, kernelVars
<1>2. CASE LuaCall
  BY <1>2 DEF LuaCall, CloseConn
<1>3. CASE OnEvent \/ PeerStep
  BY <1>3 DEF OnEvent, PeerStep, PeerSends, PeerCloses, PeerResets, PeerReads, serviceVars
<1> QED
  BY <1>1, <1>2, <1>3 DEF Next

(* The types of the queue and of what left it. *)
QueueTyped ==
  /\ objs \in Seq(Objs) /\ Len(objs) <= MaxObjs
  /\ \A i \in 1 .. Len(objs) : objs[i].from <= objs[i].to + 1
  /\ accepted \in 0 .. MaxBytes
  /\ wire \in Seq(1 .. MaxBytes) /\ Len(wire) <= accepted

Written == QueueTyped /\ InOrder /\ QueueGoesOn

(* write() goes on where the socket is. *)
LEMMA PutsInOrder ==
  ASSUME TypeOK, InOrder, NEW n \in Nat, Put(Len(wire) + 1, n), Len(wire) + n <= MaxBytes
  PROVE  /\ wire' \in Seq(1 .. MaxBytes) /\ Len(wire') = Len(wire) + n
         /\ InOrder'
<1>1. Len(wire) \in Nat
  BY Typed
<1>2. /\ Len(wire') = Len(wire) + n
      /\ \A i \in 1 .. Len(wire) : wire'[i] = wire[i]
      /\ \A i \in 1 .. n : wire'[Len(wire) + i] = Len(wire) + 1 + i - 1
      /\ wire' \in Seq(1 .. MaxBytes)
  <2>1. Len(wire) + 1 \in Nat /\ Len(wire) + 1 > 0 /\ Len(wire) + 1 + n <= MaxBytes + 1
    BY <1>1, ConstantTypes
  <2> QED
    BY <2>1, Puts
<1>3. ASSUME NEW i \in 1 .. Len(wire') PROVE wire'[i] = i
  <2>1. CASE i <= Len(wire)
    BY <1>1, <1>2, <1>3, <2>1, SMTT(30) DEF InOrder
  <2>2. CASE i > Len(wire)
    <3>1. i - Len(wire) \in 1 .. n /\ Len(wire) + (i - Len(wire)) = i
      BY <1>1, <1>2, <2>2
    <3>2. wire'[Len(wire) + (i - Len(wire))] = Len(wire) + 1 + (i - Len(wire)) - 1
      BY <1>2, <3>1
    <3> QED
      BY <1>1, <3>1, <3>2
  <2> QED
    BY <1>1, <2>1, <2>2
<1> QED
  BY <1>2, <1>3 DEF InOrder

LEMMA WriteStep ==
  ASSUME IInv, NEW len \in Lens, Write(len)
  PROVE  Written'
<1>0. /\ TypeOK /\ InOrder /\ QueueGoesOn
      /\ accepted \in Nat /\ Len(wire) \in Nat /\ Len(wire) <= accepted
      /\ objs \in Seq(Objs) /\ len \in Nat
      /\ accepted + len <= MaxBytes /\ Len(objs) < MaxObjs
      /\ MaxBytes \in Nat /\ MaxObjs \in Nat
  BY Typed, ConstantTypes DEF IInv, Inv, Write, MayWrite
<1>1. ASSUME NEW from \in Nat, NEW to \in Nat, from > 0, from <= to + 1, to <= MaxBytes
      PROVE  Obj(from, to) \in Objs
  <2>1. from \in 1 .. MaxBytes + 1 /\ to \in 0 .. MaxBytes
    BY <1>0, <1>1
  <2> QED
    BY <2>1 DEF Obj, Objs
<1>2. CASE objs = <<>> /\ Fails(len)
  <2>1. UNCHANGED <<objs, accepted, wire>>
    BY <1>2 DEF Write, EntireWrite, WriteWhenEmpty, WriteWhenNotEmpty
  <2> QED
    BY <1>0, <2>1 DEF TypeOK, Written, QueueTyped, InOrder, QueueGoesOn
<1>3. CASE objs = <<>> /\ ~Fails(len)
  <2>1. PICK n \in Nat : n = Taken(len) /\ n <= len
    BY <1>0, TakenBounds
  <2>2. /\ Put(accepted + 1, n) /\ accepted' = accepted + len
        /\ objs' = IF n = len THEN <<>> ELSE <<Obj(accepted + 1 + n, accepted + len)>>
    BY <1>3, <2>1 DEF Write, EntireWrite, WriteWhenEmpty, WriteWhenNotEmpty
  <2>3. Len(wire) = accepted
    BY <1>0, <1>3 DEF QueueGoesOn
  <2>4. /\ wire' \in Seq(1 .. MaxBytes) /\ Len(wire') = accepted + n
        /\ InOrder'
    <3>1. accepted + n <= MaxBytes
      BY <1>0, <2>1
    <3> QED
      BY <1>0, <2>2, <2>3, <3>1, PutsInOrder
  <2>5. accepted' \in 0 .. MaxBytes /\ Len(wire') <= accepted'
    BY <1>0, <2>1, <2>2, <2>4
  <2>6. CASE n = len
    <3>1. objs' = <<>> /\ Len(objs') = 0 /\ objs' \in Seq(Objs)
      BY <2>2, <2>6
    <3>2. Len(wire') = accepted'
      BY <2>2, <2>4, <2>6
    <3>3. QueueTyped'
      BY <1>0, <2>4, <2>5, <3>1 DEF QueueTyped
    <3>4. QueueGoesOn'
      BY <3>1, <3>2 DEF QueueGoesOn
    <3> QED
      BY <2>4, <3>3, <3>4 DEF Written
  <2>7. CASE n # len
    <3> DEFINE o == Obj(accepted + 1 + n, accepted + len)
    <3>1. o \in Objs /\ o.from = accepted + 1 + n /\ o.to = accepted + len
      BY <1>0, <1>1, <2>1 DEF Obj
    <3>2. o.from <= o.to + 1
      BY <1>0, <2>1, <3>1
    <3>3. objs' = <<o>>
      BY <2>2, <2>7
    <3>4. /\ objs' \in Seq(Objs) /\ Len(objs') = 1 /\ objs'[1] = o /\ Head(objs') = o
          /\ objs' # <<>>
      BY <3>1, <3>3
    <3>5. QueueTyped'
      BY <1>0, <2>4, <2>5, <3>2, <3>4 DEF QueueTyped
    <3>6. o.from = Len(wire') + 1 /\ o.to = accepted'
      BY <1>0, <2>1, <2>2, <2>4, <3>1
    <3>7. QueueGoesOn'
      <4>1. 1 .. Len(objs') = {1} /\ 1 .. Len(objs') - 1 = {} /\ accepted' <= accepted'
        BY <2>5, <3>4
      <4> QED
        BY <3>4, <3>6, <4>1 DEF QueueGoesOn
    <3> QED
      BY <2>4, <3>5, <3>7 DEF Written
  <2> QED
    BY <2>6, <2>7
<1>4. CASE objs # <<>>
  <2> DEFINE o == Obj(accepted + 1, accepted + len)
             n == Len(objs)
  <2>1. objs' = Append(objs, o) /\ accepted' = accepted + len /\ wire' = wire
    BY <1>4 DEF Write, EntireWrite, WriteWhenEmpty, WriteWhenNotEmpty
  <2>2. o \in Objs /\ o.from = accepted + 1 /\ o.to = accepted + len
    BY <1>0, <1>1 DEF Obj
  <2>3. n \in Nat \ {0}
    BY <1>0, <1>4
  <2>4. /\ objs' \in Seq(Objs) /\ Len(objs') = n + 1
        /\ \A i \in 1 .. n : objs'[i] = objs[i]
        /\ objs'[n + 1] = o
    BY <1>0, <2>1, <2>2
  <2>5. objs' # <<>> /\ Head(objs') = Head(objs)
    BY <1>0, <1>4, <2>1, <2>3, <2>4
  <2>6. accepted' \in 0 .. MaxBytes /\ accepted <= accepted' /\ accepted' \in Nat
    BY <1>0, <2>1
  <2>7. \A i \in 1 .. n : /\ objs[i].from <= objs[i].to + 1
                          /\ objs[i].to <= accepted /\ objs[i].to \in Nat
    <3>1. \A i \in 1 .. n : objs[i].to \in Nat
      <4>1. \A i \in 1 .. n : objs[i] \in Objs
        BY <1>0
      <4> QED
        BY <4>1 DEF Objs
    <3>2. \A i \in 1 .. n : objs[i].from <= objs[i].to + 1
      BY <1>0 DEF TypeOK
    <3>3. \A i \in 1 .. n : objs[i].to <= accepted
      BY <1>0 DEF QueueGoesOn
    <3> QED
      BY <3>1, <3>2, <3>3
  <2>8. \A i \in 1 .. n + 1 : objs'[i].from <= objs'[i].to + 1 /\ objs'[i].to <= accepted'
    <3>1. ASSUME NEW i \in 1 .. n
          PROVE  objs'[i].from <= objs'[i].to + 1 /\ objs'[i].to <= accepted'
      BY <1>0, <2>4, <2>6, <2>7, SMTT(30)
    <3>2. o.from <= o.to + 1 /\ o.to <= accepted'
      BY <1>0, <2>1, <2>2
    <3> QED
      BY <2>3, <2>4, <3>1, <3>2
  <2>9. QueueTyped'
    <3>1. wire \in Seq(1 .. MaxBytes)
      BY <1>0, Typed
    <3> QED
      BY <1>0, <2>1, <2>3, <2>4, <2>6, <2>8, <3>1 DEF QueueTyped
  <2>10. \A i \in 1 .. n : objs'[i + 1].from = objs'[i].to + 1
    <3>1. ASSUME NEW i \in 1 .. n - 1
          PROVE  objs'[i + 1].from = objs'[i].to + 1
      <4>1. i + 1 \in 1 .. n /\ i \in 1 .. n
        BY <2>3
      <4> QED
        BY <1>0, <2>4, <4>1 DEF QueueGoesOn
    <3>2. objs'[n + 1].from = objs'[n].to + 1
      <4>1. objs[n].to = accepted
        BY <1>0, <1>4 DEF QueueGoesOn
      <4> QED
        BY <2>2, <2>3, <2>4, <4>1
    <3> QED
      BY <2>3, <3>1, <3>2
  <2>11. QueueGoesOn'
    <3>1. Head(objs').from = Len(wire') + 1
      BY <1>0, <1>4, <2>1, <2>5 DEF QueueGoesOn
    <3>2. objs'[Len(objs')].to = accepted'
      BY <2>1, <2>2, <2>4
    <3>3. Len(objs') - 1 = n
      BY <2>3, <2>4
    <3> QED
      BY <2>4, <2>5, <2>8, <2>10, <3>1, <3>2, <3>3 DEF QueueGoesOn
  <2> QED
    BY <1>0, <2>1, <2>9, <2>11 DEF Written, InOrder
<1> QED
  BY <1>2, <1>3, <1>4

LEMMA WriteFrontStep ==
  ASSUME IInv, WriteFront
  PROVE  Written'
<1>0. /\ TypeOK /\ InOrder /\ QueueGoesOn
      /\ accepted \in Nat /\ Len(wire) \in Nat /\ accepted <= MaxBytes
      /\ objs \in Seq(Objs) /\ MaxBytes \in Nat /\ MaxObjs \in Nat /\ objs # <<>>
      /\ Put(Head(objs).from, FrontLen) /\ objs' = Tail(objs) /\ accepted' = accepted
  BY Typed, ConstantTypes DEF IInv, Inv, WriteFront
<1> DEFINE n == Len(objs)
<1>1. /\ n \in Nat \ {0} /\ Head(objs) = objs[1]
      /\ Head(objs).from \in Nat /\ Head(objs).to \in Nat /\ FrontLen \in Nat
      /\ objs' \in Seq(Objs) /\ Len(objs') = n - 1
      /\ \A i \in 1 .. n - 1 : objs'[i] = objs[i + 1]
  BY <1>0, Front
<1>2. 1 \in 1 .. n /\ n \in 1 .. n
  BY <1>1
<1>3. Head(objs).from = Len(wire) + 1 /\ Head(objs).to <= accepted /\ objs[n].to = accepted
  BY <1>0, <1>1, <1>2 DEF QueueGoesOn
<1>4. Len(wire) + FrontLen = Head(objs).to
  BY <1>0, <1>1, <1>3 DEF FrontLen
<1>5. /\ wire' \in Seq(1 .. MaxBytes) /\ Len(wire') = Head(objs).to /\ InOrder'
  <2>1. Len(wire) + FrontLen <= MaxBytes
    BY <1>0, <1>1, <1>3, <1>4
  <2>2. Put(Len(wire) + 1, FrontLen)
    BY <1>0, <1>3
  <2> QED
    BY <1>0, <1>1, <1>4, <2>1, <2>2, PutsInOrder
<1>6. ASSUME NEW i \in 1 .. n - 1
      PROVE  objs'[i].from <= objs'[i].to + 1 /\ objs'[i].to <= accepted'
  <2>1. i + 1 \in 1 .. n /\ objs'[i] = objs[i + 1]
    BY <1>1
  <2>2. objs[i + 1].from <= objs[i + 1].to + 1
    BY <1>0, <2>1 DEF TypeOK
  <2>3. objs[i + 1].to <= accepted
    BY <1>0, <2>1 DEF QueueGoesOn
  <2> QED
    BY <1>0, <2>1, <2>2, <2>3
<1>7. QueueTyped'
  <2>1. Len(objs) <= MaxObjs
    BY <1>0 DEF TypeOK
  <2>2. Len(objs') <= MaxObjs
    BY <1>0, <1>1, <2>1
  <2>3. Len(wire') <= accepted' /\ accepted' \in 0 .. MaxBytes
    BY <1>0, <1>3, <1>5
  <2> QED
    BY <1>1, <1>5, <1>6, <2>2, <2>3 DEF QueueTyped
<1>8. QueueGoesOn'
  <2>1. CASE n = 1
    <3>1. objs' = <<>> /\ Len(objs') = 0
      BY <1>1, <2>1
    <3>2. Len(wire') = accepted'
      BY <1>0, <1>1, <1>3, <1>5, <2>1
    <3> QED
      BY <3>1, <3>2 DEF QueueGoesOn
  <2>2. CASE n # 1
    <3>1. objs' # <<>> /\ Head(objs') = objs'[1] /\ n - 1 \in 1 .. n - 1 /\ 1 \in 1 .. n - 1
      BY <1>1, <2>2
    <3>2. Head(objs').from = Len(wire') + 1
      <4>1. objs'[1] = objs[2] /\ objs[1 + 1].from = objs[1].to + 1
        BY <1>0, <1>1, <3>1 DEF QueueGoesOn
      <4> QED
        BY <1>1, <1>5, <3>1, <4>1
    <3>3. objs'[Len(objs')].to = accepted'
      <4>1. objs'[n - 1] = objs[n]
        BY <1>1, <3>1
      <4> QED
        BY <1>0, <1>1, <1>3, <4>1
    <3>4. ASSUME NEW i \in 1 .. Len(objs') - 1
          PROVE  objs'[i + 1].from = objs'[i].to + 1
      <4>1. i \in 1 .. n - 1 /\ i + 1 \in 1 .. n - 1
        BY <1>1
      <4>2. objs'[i] = objs[i + 1] /\ objs'[i + 1] = objs[(i + 1) + 1]
        BY <1>1, <4>1
      <4> QED
        BY <1>0, <4>1, <4>2 DEF QueueGoesOn
    <3> QED
      BY <1>1, <1>6, <3>1, <3>2, <3>3, <3>4 DEF QueueGoesOn
  <2> QED
    BY <2>1, <2>2
<1> QED
  BY <1>5, <1>7, <1>8 DEF Written

LEMMA WritePartStep ==
  ASSUME IInv, WritePart
  PROVE  Written'
<1>0. /\ TypeOK /\ InOrder /\ QueueGoesOn
      /\ accepted \in Nat /\ Len(wire) \in Nat /\ accepted <= MaxBytes
      /\ objs \in Seq(Objs) /\ MaxBytes \in Nat /\ MaxObjs \in Nat /\ objs # <<>>
      /\ accepted' = accepted
  BY Typed, ConstantTypes DEF IInv, Inv, WritePart
<1> DEFINE n == Len(objs)
<1>1. /\ n \in Nat \ {0} /\ Head(objs) = objs[1] /\ Head(objs) \in Objs
      /\ Head(objs).from \in Nat /\ Head(objs).to \in Nat /\ FrontLen \in Nat
      /\ Head(objs).to <= MaxBytes
  BY <1>0, Front
<1>2. 1 \in 1 .. n /\ n \in 1 .. n
  BY <1>1
<1>3. Head(objs).from = Len(wire) + 1 /\ Head(objs).to <= accepted /\ objs[n].to = accepted
  BY <1>0, <1>1, <1>2 DEF QueueGoesOn
<1>4. PICK k \in Nat : k = Taken(FrontLen) /\ k < FrontLen
  BY <1>0, <1>1, TakenBounds DEF WritePart
<1>5. /\ Put(Len(wire) + 1, k) /\ objs' = [objs EXCEPT ![1].from = @ + k]
      /\ FrontLen = Head(objs).to - Head(objs).from + 1
  BY <1>3, <1>4 DEF WritePart, FrontLen
<1>6. /\ wire' \in Seq(1 .. MaxBytes) /\ Len(wire') = Len(wire) + k /\ InOrder'
      /\ Len(wire') <= accepted
  <2>1. Len(wire) + k <= accepted
    BY <1>0, <1>1, <1>3, <1>4, <1>5
  <2>2. Len(wire) + k <= MaxBytes
    BY <1>0, <1>4, <2>1
  <2> QED
    BY <1>0, <1>4, <1>5, <2>1, <2>2, PutsInOrder
<1> DEFINE o == [from |-> objs[1].from + k, to |-> objs[1].to]
<1>7. /\ o \in Objs /\ o.from = Len(wire') + 1 /\ o.to = objs[1].to
      /\ o.from <= o.to + 1
  <2>1. PICK f \in Nat, t \in Nat : f = objs[1].from /\ t = objs[1].to
    BY <1>1
  <2>2. /\ f = Len(wire) + 1 /\ t <= MaxBytes /\ k < t - f + 1 /\ Len(wire') = Len(wire) + k
    BY <1>1, <1>3, <1>4, <1>5, <1>6, <2>1
  <2>3. f + k \in 1 .. MaxBytes + 1 /\ t \in 0 .. MaxBytes /\ f + k <= t + 1
        /\ f + k = Len(wire') + 1
    BY <1>0, <2>2
  <2> QED
    BY <2>1, <2>3 DEF Objs
<1>8. /\ objs' \in Seq(Objs) /\ Len(objs') = n /\ objs'[1] = o
      /\ \A i \in 2 .. n : objs'[i] = objs[i]
  <2>1. objs' = [objs EXCEPT ![1] = o]
    <3>1. objs[1] \in [from : 1 .. MaxBytes + 1, to : 0 .. MaxBytes]
      BY <1>1 DEF Objs
    <3>2. [objs[1] EXCEPT !.from = @ + k] = o
      BY <3>1
    <3> QED
      BY <1>5, <3>2
  <2> QED
    BY <1>0, <1>1, <1>2, <1>7, <2>1
<1>9. objs' # <<>> /\ Head(objs') = o
  BY <1>1, <1>8
<1>10. \A i \in 1 .. n : objs'[i].to = objs[i].to
  BY <1>1, <1>7, <1>8
<1>11. ASSUME NEW i \in 1 .. n
       PROVE  objs'[i].from <= objs'[i].to + 1 /\ objs'[i].to <= accepted'
  <2>1. objs'[i].to <= accepted'
    BY <1>0, <1>10 DEF QueueGoesOn
  <2>2. objs[i].from <= objs[i].to + 1
    BY <1>0 DEF TypeOK
  <2>3. i = 1 \/ i \in 2 .. n
    BY <1>1
  <2> QED
    BY <1>7, <1>8, <2>1, <2>2, <2>3
<1>12. QueueTyped'
  <2>1. Len(objs) <= MaxObjs /\ accepted' \in 0 .. MaxBytes
    BY <1>0 DEF TypeOK
  <2> QED
    BY <1>0, <1>6, <1>8, <1>11, <2>1 DEF QueueTyped
<1>13. QueueGoesOn'
  <2>1. Head(objs').from = Len(wire') + 1 /\ objs'[Len(objs')].to = accepted'
    BY <1>0, <1>2, <1>3, <1>7, <1>8, <1>9, <1>10
  <2>2. ASSUME NEW i \in 1 .. n - 1
        PROVE  objs'[i + 1].from = objs'[i].to + 1
    <3>1. i \in 1 .. n /\ i + 1 \in 2 .. n
      BY <1>1
    <3> QED
      BY <1>0, <1>8, <1>10, <3>1 DEF QueueGoesOn
  <2> QED
    BY <1>8, <1>9, <1>11, <2>1, <2>2 DEF QueueGoesOn
<1> QED
  BY <1>6, <1>12, <1>13 DEF Written

(* However the writes are cut and wherever they are queued. *)
LEMMA WrittenStep ==
  ASSUME IInv, Next
  PROVE  Written'
<1>1. CASE UNCHANGED <<objs, accepted, wire>>
  BY <1>1 DEF IInv, Inv, TypeOK, Written, QueueTyped, InOrder, QueueGoesOn
<1> QED
  BY <1>1, WriteSteps, WriteStep, WriteFrontStep, WritePartStep

-----------------------------------------------------------------------------
(* The types of the rest. *)

Flag(x) == x \in BOOLEAN

FlagsTyped ==
  /\ Flag(writer) /\ Flag(closed) /\ Flag(isClosing) /\ Flag(watch) /\ Flag(missed)
  /\ Flag(rdShut) /\ Flag(noSpace) /\ Flag(interestOut) /\ Flag(ready)
  /\ Flag(eof) /\ Flag(reset)

LEMMA FlagsStep ==
  ASSUME IInv, Next
  PROVE  FlagsTyped'
<1>0. FlagsTyped
  BY DEF IInv, Inv, TypeOK, FlagsTyped, Flag
<1>1. CASE TakeMessage
  BY <1>0, <1>1 DEF TakeMessage, kernelVars, peerVars, FlagsTyped, Flag
<1>2. CASE ReadData
  BY <1>0, <1>2 DEF ReadData, peerVars, FlagsTyped, Flag
<1>3. CASE DataReturns \/ ReadNothing \/ WriteError
  BY <1>0, <1>3, ZenonT(60) DEF DataReturns, ReadNothing, WriteError, kernelVars, peerVars, FlagsTyped, Flag
<1>4. CASE ReadEnd
  BY <1>0, <1>4 DEF ReadEnd, kernelVars, peerVars, FlagsTyped, Flag
<1>5. ASSUME NEW out \in BOOLEAN, ModifyEvent(out)
      PROVE  Flag(interestOut') /\ Flag(ready') /\ Flag(noSpace')
  BY <1>0, <1>5 DEF ModifyEvent, Polled, FlagsTyped, Flag
<1>6. CASE Watch
  BY <1>0, <1>5, <1>6 DEF Watch, peerVars, FlagsTyped, Flag
<1>7. CASE WriteFront
  BY <1>0, <1>7 DEF WriteFront, peerVars, FlagsTyped, Flag
<1>8. CASE WritePart
  BY <1>0, <1>8 DEF WritePart, peerVars, FlagsTyped, Flag
<1>9. CASE Drained
  <2>1. UNCHANGED <<writer, closed, isClosing, watch, missed, eof, reset>>
    BY <1>9 DEF Drained, peerVars
  <2>2. CASE isClosing
    <3>1. rdShut' = TRUE /\ ready' = TRUE /\ interestOut' = FALSE /\ Polled
      BY <1>9, <2>2 DEF Drained, AskToClose
    <3> QED
      BY <1>0, <2>1, <3>1 DEF Polled, FlagsTyped, Flag
  <2>3. CASE ~isClosing
    <3>1. ModifyEvent(FALSE) /\ rdShut' = rdShut
      BY <1>9, <2>3 DEF Drained
    <3> QED
      BY <1>0, <1>5, <2>1, <3>1 DEF FlagsTyped, Flag
  <2> QED
    BY <2>2, <2>3
<1>10. ASSUME NEW len \in Lens, Write(len)
       PROVE  FlagsTyped'
  <2>1. UNCHANGED <<writer, closed, isClosing, missed, rdShut, interestOut, ready, eof, reset>>
    BY <1>10 DEF Write, WriteLeaves, peerVars
  <2>2. Flag(watch') /\ Flag(noSpace')
    BY <1>0, <1>10 DEF Write, EntireWrite, WriteWhenEmpty, WriteWhenNotEmpty, FlagsTyped, Flag
  <2> QED
    BY <1>0, <2>1, <2>2 DEF FlagsTyped
<1>11. CASE CloseConn
  BY <1>0, <1>11 DEF CloseConn, AskToClose, peerVars, FlagsTyped, Flag
<1>12. CASE OnEvent
  BY <1>0, <1>12 DEF OnEvent, Polled, peerVars, FlagsTyped, Flag
<1>13. CASE PeerSends \/ PeerCloses \/ PeerResets
  BY <1>0, <1>13 DEF PeerSends, PeerCloses, PeerResets, serviceVars, FlagsTyped, Flag
<1>14. CASE PeerReads
  BY <1>0, <1>14 DEF PeerReads, serviceVars, FlagsTyped, Flag
<1> QED
  BY <1>1, <1>2, <1>3, <1>4, <1>6, <1>7, <1>8, <1>9, <1>10, <1>11, <1>12, <1>13, <1>14
  DEF Next, ServiceStep, LuaCall, PeerStep

Kinds == {"accept", "read", "write", "close"}

MailTyped ==
  /\ mailbox \in Seq(SUBSET Kinds) /\ msg \subseteq Kinds
  /\ pc \in {"idle", "read", "data", "last data", "write"}

LEMMA MailStep ==
  ASSUME IInv, Next
  PROVE  MailTyped'
<1>0. MailTyped /\ TypeOK
  BY DEF IInv, Inv, TypeOK, MailTyped, Kinds
<1>1. CASE UNCHANGED <<mailbox, msg, pc>>
  BY <1>0, <1>1 DEF MailTyped
<1>2. CASE WriteFront \/ Watch \/ \E len \in Lens : Write(len)
  BY <1>1, <1>2 DEF WriteFront, Watch, Write, WriteLeaves
<1>3. CASE PeerStep
  BY <1>1, <1>3 DEF PeerStep, PeerSends, PeerCloses, PeerResets, PeerReads, serviceVars
<1>4. CASE ReadData \/ DataReturns \/ ReadNothing \/ ReadEnd \/ WritePart \/ WriteError
  <2>1. UNCHANGED <<mailbox, msg>>
    BY <1>4 DEF ReadData, DataReturns, ReadNothing, ReadEnd, WritePart, WriteError
  <2>2. pc' \in {"data", "last data", "read", "idle", "write"}
    <3>1. CASE ReadData
      BY <3>1 DEF ReadData
    <3>2. CASE DataReturns \/ ReadNothing
      BY <3>2 DEF DataReturns, ReadNothing, AfterRead
    <3>3. CASE ReadEnd
      BY <3>3 DEF ReadEnd, AfterRead
    <3>4. CASE WritePart \/ WriteError
      BY <3>4 DEF WritePart, WriteError
    <3> QED
      BY <1>4, <3>1, <3>2, <3>3, <3>4
  <2> QED
    BY <1>0, <2>1, <2>2 DEF MailTyped
<1>5. CASE TakeMessage
  <2>1. mailbox # <<>> /\ mailbox' = Tail(mailbox) /\ msg' = Head(mailbox)
    BY <1>5 DEF TakeMessage
  <2>2. pc' \in {"idle", "read", "write"}
    BY <1>5 DEF TakeMessage, AfterRead
  <2>3. mailbox' \in Seq(SUBSET Kinds) /\ msg' \subseteq Kinds
    BY <1>0, <2>1, Takes DEF Kinds
  <2> QED
    BY <2>2, <2>3 DEF MailTyped
<1>6. ASSUME NEW m \in SUBSET Kinds, mailbox' = Append(mailbox, m), msg' = msg,
             pc' \in {pc, "idle"}
      PROVE  MailTyped'
  BY <1>0, <1>6, Appends DEF MailTyped, Kinds
<1>7. CASE OnEvent
  <2>1. Events(interestOut) \in SUBSET Kinds
    BY DEF Events, Kinds
  <2>2. msg' = msg /\ pc' = pc
    BY <1>7 DEF OnEvent
  <2>3. mailbox' = mailbox \/ mailbox' = Append(mailbox, Events(interestOut))
    BY <1>7 DEF OnEvent
  <2> QED
    BY <1>1, <1>6, <2>1, <2>2, <2>3
<1>8. CASE CloseConn \/ Drained
  <2>1. {"read", "close"} \in SUBSET Kinds
    BY DEF Kinds
  <2>2. msg' = msg /\ pc' \in {pc, "idle"}
    BY <1>8 DEF CloseConn, Drained
  <2>3. mailbox' = mailbox \/ mailbox' = Append(mailbox, {"read", "close"})
    BY <1>8 DEF CloseConn, Drained, AskToClose
  <2>4. CASE mailbox' = mailbox
    BY <1>0, <2>2, <2>4 DEF MailTyped
  <2> QED
    BY <1>6, <2>1, <2>2, <2>3, <2>4
<1> QED
  BY <1>2, <1>3, <1>4, <1>5, <1>7, <1>8 DEF Next, ServiceStep, LuaCall

CountsTyped ==
  /\ peerGot \in 0 .. Len(wire) /\ Room >= 0
  /\ inbox \in 0 .. MaxData /\ came \in 0 .. MaxData /\ inbox <= came

LEMMA CountsStep ==
  ASSUME IInv, Next
  PROVE  CountsTyped'
<1> DEFINE In == inbox' \in 0 .. MaxData /\ came' \in 0 .. MaxData /\ inbox' <= came'
           Out == peerGot' \in 0 .. Len(wire') /\ Room' >= 0
<1> SUFFICES In /\ Out
  BY DEF CountsTyped
<1>0. /\ TypeOK /\ Len(wire) \in Nat /\ peerGot \in Nat /\ peerGot <= Len(wire) /\ Room \in Nat
      /\ inbox \in Nat /\ came \in Nat /\ inbox <= came /\ came <= MaxData
      /\ SendBuffer \in Nat /\ MaxData \in Nat /\ BuffSize \in Nat \ {0}
      /\ Room = SendBuffer - (Len(wire) - peerGot)
  BY Typed, ConstantTypes DEF IInv, Inv, Room
<1>1. ASSUME UNCHANGED <<inbox, came>> PROVE In
  BY <1>0, <1>1
<1>2. ASSUME UNCHANGED <<wire, peerGot>> PROVE Out
  BY <1>0, <1>2 DEF Room
<1>3. ASSUME NEW from \in Nat, NEW n \in Nat, n <= Room, Put(from, n), peerGot' = peerGot
      PROVE  Out
  <2>1. Len(wire') = Len(wire) + n
    BY <1>0, <1>3, Puts
  <2>2. peerGot' \in 0 .. Len(wire') /\ SendBuffer - (Len(wire') - peerGot') >= 0
    BY <1>0, <1>3, <2>1
  <2> QED
    BY <2>2 DEF Room
<1>4. ASSUME NEW len \in Lens, Write(len)
      PROVE  In /\ Out
  <2>1. UNCHANGED <<inbox, came, peerGot>>
    BY <1>4 DEF Write, WriteLeaves, peerVars
  <2>2. In
    BY <1>1, <2>1
  <2>3. CASE wire' = wire
    BY <1>2, <2>1, <2>2, <2>3
  <2>4. CASE wire' # wire
    <3>1. Put(accepted + 1, Taken(len))
      BY <1>4, <2>4 DEF Write, EntireWrite, WriteWhenEmpty, WriteWhenNotEmpty
    <3>2. accepted + 1 \in Nat /\ Taken(len) \in Nat /\ Taken(len) <= Room
      <4>1. accepted \in Nat /\ len \in Nat
        BY <1>0, Typed, ConstantTypes
      <4> QED
        BY <1>0, <4>1, TakenBounds
    <3> QED
      BY <1>3, <2>1, <2>2, <3>1, <3>2
  <2> QED
    BY <2>3, <2>4
<1>5. CASE WriteFront \/ WritePart
  <2>1. UNCHANGED <<inbox, came, peerGot>> /\ objs # <<>>
    BY <1>5 DEF WriteFront, WritePart, peerVars
  <2>2. In
    BY <1>1, <2>1
  <2>3. Put(Head(objs).from, Taken(FrontLen))
    BY <1>5 DEF WriteFront, WritePart
  <2>4. Head(objs).from \in Nat /\ FrontLen \in Nat
    BY <1>0, <2>1, Front
  <2>5. Taken(FrontLen) \in Nat /\ Taken(FrontLen) <= Room
    BY <1>0, <2>4, TakenBounds
  <2> QED
    BY <1>3, <2>1, <2>2, <2>3, <2>4, <2>5
<1>6. CASE PeerReads
  <2>1. UNCHANGED <<inbox, came, wire>> /\ peerGot' = peerGot + 1 /\ peerGot < Len(wire)
    BY <1>6 DEF PeerReads, serviceVars
  <2>2. peerGot' \in 0 .. Len(wire') /\ SendBuffer - (Len(wire') - peerGot') >= 0
    BY <1>0, <2>1
  <2> QED
    BY <1>1, <2>1, <2>2 DEF Room
<1>7. CASE PeerSends
  <2>1. /\ inbox' = inbox + 1 /\ came' = came + 1 /\ came < MaxData
        /\ UNCHANGED <<wire, peerGot>>
    BY <1>7 DEF PeerSends
  <2>2. In
    BY <1>0, <2>1
  <2> QED
    BY <1>2, <2>1, <2>2
<1>8. CASE ReadData
  <2>1. UNCHANGED <<came, wire, peerGot>>
    BY <1>8 DEF ReadData, peerVars
  <2>2. inbox' \in Nat /\ inbox' <= inbox
    <3>1. inbox' = 0 \/ (inbox >= BuffSize /\ inbox' = inbox - BuffSize)
      BY <1>8 DEF ReadData
    <3> QED
      BY <1>0, <3>1
  <2>3. In
    BY <1>0, <2>1, <2>2
  <2> QED
    BY <1>2, <2>1, <2>3
<1>9. CASE \/ TakeMessage \/ DataReturns \/ ReadNothing \/ ReadEnd \/ WriteError \/ Watch
           \/ Drained \/ CloseConn \/ OnEvent
  BY <1>1, <1>2, <1>9 DEF TakeMessage, DataReturns, ReadNothing, ReadEnd, WriteError, Watch,
       Drained, CloseConn, OnEvent, kernelVars, peerVars
<1>10. CASE PeerCloses \/ PeerResets
  BY <1>1, <1>2, <1>10 DEF PeerCloses, PeerResets
<1> HIDE DEF In, Out
<1> QED
  BY <1>4, <1>5, <1>6, <1>7, <1>8, <1>9, <1>10 DEF Next, ServiceStep, LuaCall, PeerStep

LEMMA TypeStep ==
  ASSUME IInv, Next
  PROVE  TypeOK'
<1>1. FlagsTyped' /\ MailTyped' /\ CountsTyped' /\ QueueTyped'
  BY FlagsStep, MailStep, CountsStep, WrittenStep DEF Written
<1>2. {writer', closed', isClosing', watch', missed', rdShut', noSpace', interestOut', ready',
       eof', reset'} \subseteq BOOLEAN
  BY <1>1 DEF FlagsTyped, Flag
<1>3. {inbox', came'} \subseteq 0 .. MaxData
  BY <1>1 DEF CountsTyped
<1> QED
  BY <1>1, <1>2, <1>3 DEF TypeOK, MailTyped, Kinds, CountsTyped, QueueTyped

-----------------------------------------------------------------------------
(* The close. *)

(* The end of the stream is there for good, and closing comes after it. *)
LEMMA EndStep ==
  ASSUME IInv, Next
  PROVE  EndIsFirst'
<1> DEFINE After == (closed => Ended /\ pc = "idle")
           Empty == (rdShut => isClosing /\ objs = <<>>)
           Goal == After' /\ Empty'
<1> SUFFICES Goal
  BY DEF EndIsFirst
<1>0. After /\ Empty
  BY DEF IInv, EndIsFirst
<1>1. CASE UNCHANGED <<closed, pc, rdShut, isClosing, objs, eof, reset>>
  BY <1>0, <1>1 DEF Ended
<1>2. CASE Watch
  BY <1>1, <1>2 DEF Watch, peerVars
<1>3. CASE OnEvent
  BY <1>1, <1>3 DEF OnEvent, peerVars
<1>4. CASE PeerSends \/ PeerReads
  BY <1>1, <1>4 DEF PeerSends, PeerReads, serviceVars
<1>5. CASE PeerCloses
  BY <1>0, <1>5 DEF PeerCloses, serviceVars, Ended
<1>6. CASE PeerResets
  BY <1>0, <1>6 DEF PeerResets, serviceVars, Ended
<1>7. CASE TakeMessage
  BY <1>0, <1>7 DEF TakeMessage, kernelVars, peerVars, Ended
<1>8. CASE ReadData \/ DataReturns \/ ReadNothing
  <2>1. ~closed
    BY <1>0, <1>8 DEF ReadData, DataReturns, ReadNothing, At
  <2>2. UNCHANGED <<closed, rdShut, isClosing, objs>>
    BY <1>8 DEF ReadData, DataReturns, ReadNothing, kernelVars
  <2> QED
    BY <1>0, <2>1, <2>2
<1>9. CASE ReadEnd
  <2>1. ~closed /\ Ended /\ UNCHANGED <<rdShut, isClosing, objs, eof, reset>>
    BY <1>0, <1>9 DEF ReadEnd, At, kernelVars, peerVars
  <2>2. closed' = FALSE \/ (closed' = TRUE /\ pc' = "idle")
    <3>1. PICK errno \in Errnos \cup (IF reset THEN {"other"} ELSE {}) :
            IF errno = "EAGAIN"
            THEN pc' = AfterRead(msg) /\ missed' = TRUE /\ UNCHANGED <<closed, writer>>
            ELSE pc' = "idle" /\ closed' = TRUE /\ writer' = FALSE /\ UNCHANGED missed
      BY <1>9 DEF ReadEnd
    <3>2. closed \in BOOLEAN
      BY DEF IInv, Inv, TypeOK
    <3> QED
      BY <2>1, <3>1, <3>2
  <2> QED
    BY <1>0, <2>1, <2>2 DEF Ended
<1>10. ASSUME NEW len \in Lens, Write(len)
       PROVE  Goal
  <2>1. ~rdShut /\ UNCHANGED <<closed, pc, rdShut, isClosing, eof, reset>>
    BY <1>0, <1>10 DEF Write, WriteLeaves, peerVars
  <2> QED
    BY <1>0, <2>1 DEF Ended
<1>11. CASE WriteFront \/ WritePart \/ WriteError
  <2>1. /\ ~rdShut /\ ~closed
        /\ UNCHANGED <<closed, rdShut, isClosing, eof, reset>>
    BY <1>0, <1>11 DEF WriteFront, WritePart, WriteError, At, kernelVars, peerVars
  <2> QED
    BY <1>0, <2>1
<1>12. CASE Drained
  <2>1. /\ ~closed /\ objs = <<>> /\ pc' = "idle"
        /\ UNCHANGED <<closed, isClosing, objs, eof, reset>>
    BY <1>0, <1>12 DEF Drained, At, peerVars
  <2>2. rdShut' = rdShut \/ isClosing
    BY <1>12 DEF Drained
  <2> QED
    BY <1>0, <2>1, <2>2
<1>13. CASE CloseConn
  <2>1. isClosing' = TRUE /\ UNCHANGED <<closed, pc, objs, eof, reset>>
    BY <1>13 DEF CloseConn, peerVars
  <2>2. (rdShut' = TRUE /\ objs = <<>>) \/ rdShut' = rdShut
    BY <1>13 DEF CloseConn, AskToClose
  <2> QED
    BY <1>0, <2>1, <2>2 DEF Ended
<1> HIDE DEF Goal
<1> QED
  BY <1>2, <1>3, <1>4, <1>5, <1>6, <1>7, <1>8, <1>9, <1>10, <1>11, <1>12, <1>13
  DEF Next, ServiceStep, LuaCall, PeerStep

(* So what the service wrote before CloseConn is out, or the peer has      *)
(* ended or reset the stream.                                              *)
LEMMA CloseComesLast == EndIsFirst => CloseWaits
BY DEF EndIsFirst, CloseWaits, Ended

(* The messages that a step adds, if any. *)
Sent(m) == mailbox' = Append(mailbox, m)

(* The request to close is sent once nothing is left to write, and nothing *)
(* is written after it.                                                    *)
LEMMA CloseRequestStep ==
  ASSUME IInv, Next
  PROVE  CloseRequestIsLast'
<1> DEFINE Asked == (\E i \in 1 .. Len(mailbox) : "close" \in mailbox[i]) \/ "close" \in msg
           Last == isClosing /\ rdShut /\ objs = <<>>
<1> SUFFICES ASSUME Asked' PROVE Last'
  BY DEF CloseRequestIsLast
<1>0. TypeOK /\ (Asked => Last)
  BY DEF IInv, Inv, CloseRequestIsLast
<1>1. ASSUME Last, UNCHANGED <<isClosing, rdShut, objs>> PROVE Last'
  BY <1>1
<1>2. ASSUME UNCHANGED <<mailbox, msg>> PROVE Last
  BY <1>0, <1>2
<1>3. CASE UNCHANGED <<mailbox, msg, isClosing, rdShut, objs>>
  BY <1>1, <1>2, <1>3
<1>4. CASE ReadData \/ DataReturns \/ ReadNothing \/ ReadEnd \/ Watch \/ WriteError
  BY <1>3, <1>4 DEF ReadData, DataReturns, ReadNothing, ReadEnd, Watch, WriteError, kernelVars
<1>5. CASE PeerStep
  BY <1>3, <1>5 DEF PeerStep, PeerSends, PeerCloses, PeerResets, PeerReads, serviceVars
<1>6. CASE TakeMessage
  <2>1. mailbox # <<>> /\ mailbox' = Tail(mailbox) /\ msg' = Head(mailbox)
        /\ UNCHANGED <<isClosing, rdShut, objs>>
    BY <1>6 DEF TakeMessage, kernelVars
  <2>2. /\ Len(mailbox) \in Nat \ {0} /\ Len(mailbox') = Len(mailbox) - 1
        /\ \A i \in 1 .. Len(mailbox') : mailbox'[i] = mailbox[i + 1]
        /\ msg' = mailbox[1]
    BY <1>0, <2>1, Takes
  <2>3. Asked
    <3>1. CASE "close" \in msg'
      BY <2>2, <3>1
    <3>2. CASE \E i \in 1 .. Len(mailbox') : "close" \in mailbox'[i]
      <4>1. PICK i \in 1 .. Len(mailbox') : "close" \in mailbox'[i]
        BY <3>2
      <4>2. i + 1 \in 1 .. Len(mailbox) /\ mailbox'[i] = mailbox[i + 1]
        BY <2>2
      <4> QED
        BY <4>1, <4>2
    <3> QED
      BY <3>1, <3>2
  <2> QED
    BY <1>0, <1>1, <2>1, <2>3
<1>7. CASE OnEvent
  <2>1. UNCHANGED <<msg, isClosing, rdShut, objs>>
    BY <1>7 DEF OnEvent
  <2>2. CASE mailbox' = mailbox
    BY <1>3, <2>1, <2>2
  <2>3. CASE mailbox' = Append(mailbox, Events(interestOut))
    <3>1. Events(interestOut) \in SUBSET {"accept", "read", "write", "close"}
      BY DEF Events
    <3>2. /\ Len(mailbox') = Len(mailbox) + 1 /\ Len(mailbox) \in Nat
          /\ \A i \in 1 .. Len(mailbox) : mailbox'[i] = mailbox[i]
          /\ mailbox'[Len(mailbox')] = Events(interestOut)
      BY <1>0, <2>3, <3>1, Appends
    <3>3. "close" \notin Events(interestOut)
      BY DEF Events
    <3>4. Asked
      <4>1. CASE "close" \in msg'
        BY <2>1, <4>1
      <4>2. CASE \E i \in 1 .. Len(mailbox') : "close" \in mailbox'[i]
        <5>1. PICK i \in 1 .. Len(mailbox') : "close" \in mailbox'[i]
          BY <4>2
        <5>2. i \in 1 .. Len(mailbox)
          BY <3>2, <3>3, <5>1
        <5> QED
          BY <3>2, <5>1, <5>2
      <4> QED
        BY <4>1, <4>2
    <3> QED
      BY <1>0, <1>1, <2>1, <3>4
  <2> QED
    BY <1>7, <2>2, <2>3 DEF OnEvent
<1>8. ASSUME NEW len \in Lens, Write(len)
      PROVE  Last'
  <2>1. UNCHANGED <<mailbox, msg>> /\ ~isClosing
    BY <1>8 DEF Write, WriteLeaves
  <2> QED
    BY <1>2, <2>1
<1>9. CASE WriteFront \/ WritePart
  <2>1. UNCHANGED <<mailbox, msg>> /\ objs # <<>>
    BY <1>9 DEF WriteFront, WritePart
  <2> QED
    BY <1>2, <2>1
<1>10. CASE Drained
  <2>1. objs = <<>> /\ UNCHANGED <<isClosing, objs, msg>>
    BY <1>10 DEF Drained
  <2>2. CASE isClosing
    BY <1>10, <2>1, <2>2 DEF Drained, AskToClose
  <2>3. CASE ~isClosing
    BY <1>3, <1>10, <2>1, <2>3 DEF Drained
  <2> QED
    BY <2>2, <2>3
<1>11. CASE CloseConn
  <2>1. ~isClosing /\ isClosing' = TRUE /\ UNCHANGED <<objs, msg>>
    BY <1>11 DEF CloseConn
  <2>2. CASE objs = <<>>
    BY <1>11, <2>1, <2>2 DEF CloseConn, AskToClose
  <2>3. CASE objs # <<>>
    BY <1>2, <1>11, <2>1, <2>3 DEF CloseConn
  <2> QED
    BY <2>2, <2>3
<1> HIDE DEF Asked, Last
<1> QED
  BY <1>4, <1>5, <1>6, <1>7, <1>8, <1>9, <1>10, <1>11 DEF Next, ServiceStep, LuaCall

-----------------------------------------------------------------------------
(* The events. *)

(* A message of some kind waits. *)
Told(kind) == \E i \in 1 .. Len(mailbox) : kind \in mailbox[i]

LEMMA ToldStays ==
  ASSUME TypeOK, NEW m \in SUBSET {"accept", "read", "write", "close"}, Sent(m), NEW kind
  PROVE  /\ Told(kind) => Told(kind)'
         /\ kind \in m => Told(kind)'
<1>1. /\ Len(mailbox') = Len(mailbox) + 1 /\ Len(mailbox) \in Nat
      /\ \A i \in 1 .. Len(mailbox) : mailbox'[i] = mailbox[i]
      /\ mailbox'[Len(mailbox')] = m
  BY Appends DEF Sent
<1>2. 1 .. Len(mailbox) \subseteq 1 .. Len(mailbox') /\ Len(mailbox') \in 1 .. Len(mailbox')
  BY <1>1
<1> QED
  BY <1>1, <1>2 DEF Told

LEMMA ToldOrTaken ==
  ASSUME TypeOK, mailbox # <<>>, mailbox' = Tail(mailbox), NEW kind, Told(kind)
  PROVE  kind \in Head(mailbox) \/ Told(kind)'
<1>1. /\ Len(mailbox) \in Nat \ {0} /\ Len(mailbox') = Len(mailbox) - 1
      /\ \A i \in 1 .. Len(mailbox') : mailbox'[i] = mailbox[i + 1]
      /\ Head(mailbox) = mailbox[1]
  BY Takes
<1>2. PICK i \in 1 .. Len(mailbox) : kind \in mailbox[i]
  BY DEF Told
<1>3. CASE i # 1
  <2>1. i - 1 \in 1 .. Len(mailbox') /\ (i - 1) + 1 = i
    BY <1>1, <1>3
  <2>2. mailbox'[i - 1] = mailbox[i]
    BY <1>1, <2>1
  <2> QED
    BY <1>2, <2>1, <2>2 DEF Told
<1> QED
  BY <1>1, <1>2, <1>3

(* AskToClose and OnEvent only add messages. *)
LEMMA AskSends ==
  ASSUME TypeOK, AskToClose, NEW kind
  PROVE  Told(kind) => Told(kind)'
<1>1. Sent({"read", "close"})
  BY DEF AskToClose, Sent
<1>2. {"read", "close"} \in SUBSET {"accept", "read", "write", "close"}
  OBVIOUS
<1> QED
  BY <1>1, <1>2, ToldStays

LEMMA EventSends ==
  ASSUME TypeOK, OnEvent, NEW kind
  PROVE  /\ Told(kind) => Told(kind)'
         /\ kind \in Events(interestOut) => Told(kind)'
<1>1. Events(interestOut) \in SUBSET {"accept", "read", "write", "close"}
  BY DEF Events
<1>2. CASE Events(interestOut) = {}
  BY <1>2 DEF OnEvent, Told
<1>3. CASE Events(interestOut) # {}
  BY <1>1, <1>3, ToldStays DEF OnEvent, Sent
<1> QED
  BY <1>2, <1>3

(* Data to read keeps its edge, its message or its loop. *)
LEMMA DataStep ==
  ASSUME IInv, Next
  PROVE  DataIsRead'
<1> DEFINE Comes == ready \/ pc \in {"read", "data"} \/ Told("read")
           Goal == inbox' > 0 /\ ~closed' /\ ~isClosing' => Comes'
<1> SUFFICES Goal
  BY DEF DataIsRead, Told
<1>0. TypeOK /\ (inbox > 0 /\ ~closed /\ ~isClosing => Comes)
  BY DEF IInv, Inv, DataIsRead, Told
<1>1. CASE UNCHANGED <<inbox, closed, isClosing, ready, pc, mailbox>>
  BY <1>0, <1>1 DEF Told
<1>2. CASE WriteFront \/ \E len \in Lens : Write(len)
  BY <1>1, <1>2 DEF WriteFront, Write, WriteLeaves
<1>3. CASE Watch
  <2>1. UNCHANGED <<inbox, closed, isClosing, pc, mailbox>> /\ (ready => ready')
    BY <1>3 DEF Watch, ModifyEvent
  <2> QED
    BY <1>0, <2>1 DEF Told
<1>4. CASE PeerSends \/ PeerCloses \/ PeerResets
  BY <1>4 DEF PeerSends, PeerCloses, PeerResets
<1>5. CASE PeerReads
  <2>1. UNCHANGED <<inbox, closed, isClosing, pc, mailbox>> /\ (ready => ready')
    BY <1>5 DEF PeerReads, serviceVars
  <2> QED
    BY <1>0, <2>1 DEF Told
<1>6. CASE OnEvent
  <2>1. UNCHANGED <<inbox, closed, isClosing, pc>>
    BY <1>6 DEF OnEvent
  <2>2. inbox > 0 => "read" \in Events(interestOut)
    BY DEF Events, Readable
  <2> QED
    BY <1>0, <1>6, <2>1, <2>2, EventSends
<1>7. CASE TakeMessage
  <2>1. UNCHANGED <<inbox, closed, isClosing, ready>> /\ pc = "idle"
    BY <1>7 DEF TakeMessage, At, kernelVars
  <2>2. CASE inbox > 0 /\ ~closed /\ ~isClosing
    <3>1. ready \/ Told("read")
      BY <1>0, <2>1, <2>2
    <3>2. CASE Told("read")
      <4>1. "read" \in Head(mailbox) \/ Told("read")'
        BY <1>0, <1>7, <3>2, ToldOrTaken DEF TakeMessage
      <4>2. "read" \in Head(mailbox) => pc' = "read"
        BY <1>7, <2>2 DEF TakeMessage, MayRead
      <4> QED
        BY <4>1, <4>2
    <3> QED
      BY <2>1, <3>1, <3>2
  <2> QED
    BY <2>1, <2>2
<1>8. CASE ReadData
  <2>1. inbox' = 0 \/ pc' = "data"
    BY <1>8 DEF ReadData
  <2> QED
    BY <2>1
<1>9. CASE ReadNothing \/ ReadEnd
  <2>1. inbox' = 0
    BY <1>9 DEF ReadNothing, ReadEnd, kernelVars
  <2> QED
    BY <2>1
<1>10. CASE DataReturns
  <2>1. UNCHANGED <<inbox, closed, isClosing, ready, mailbox>>
    BY <1>10 DEF DataReturns, kernelVars
  <2>2. (pc = "data" /\ pc' = "read") \/ pc = "last data"
    BY <1>10 DEF DataReturns, At
  <2> QED
    BY <1>0, <2>1, <2>2 DEF Told
<1>11. CASE WritePart \/ WriteError
  <2>1. UNCHANGED <<inbox, closed, isClosing, ready, mailbox>> /\ pc = "write"
    BY <1>11 DEF WritePart, WriteError, At, kernelVars
  <2> QED
    BY <1>0, <2>1 DEF Told
<1>12. CASE Drained
  <2>1. UNCHANGED <<inbox, closed, isClosing>> /\ pc = "write"
    BY <1>12 DEF Drained, At
  <2>2. ~isClosing => (ready => ready') /\ mailbox' = mailbox
    BY <1>12 DEF Drained, ModifyEvent
  <2> QED
    BY <1>0, <2>1, <2>2 DEF Told
<1>13. CASE CloseConn
  BY <1>13 DEF CloseConn
<1> HIDE DEF Goal
<1> QED
  BY <1>2, <1>3, <1>4, <1>5, <1>6, <1>7, <1>8, <1>9, <1>10, <1>11, <1>12, <1>13
  DEF Next, ServiceStep, LuaCall, PeerStep

(* The writable event is on its way, or the kernel owes it. *)
OnItsWay ==
  \/ ready \/ pc = "write" \/ ("write" \in msg /\ pc # "idle") \/ Told("write")

(* After a write that was cut short there is no room, so the event is owed *)
(* from then on: the read that makes room makes the edge, registered or    *)
(* not, or it is made when EPOLLOUT is registered.                         *)
LEMMA WatchedStep ==
  ASSUME IInv, Next
  PROVE  QueueIsWatched'
<1> DEFINE Owed == noSpace /\ Room = 0
           Covered == watch \/ (interestOut /\ (OnItsWay \/ Owed))
           Live == objs # <<>> /\ ~closed /\ ~reset /\ ~EmptyFirst
           Goal == Live' => Covered'
<1> SUFFICES Goal
  BY DEF QueueIsWatched, WriteOnItsWay, OnItsWay, Told
<1>0. TypeOK /\ (Live => Covered)
  BY DEF IInv, Inv, QueueIsWatched, WriteOnItsWay, OnItsWay, Told
<1>1. ASSUME UNCHANGED <<objs, closed, reset>> PROVE Live' => Live
  BY <1>1 DEF EmptyFirst
<1>2. ASSUME UNCHANGED <<wire, peerGot>> PROVE Room' = Room
  BY <1>2 DEF Room
<1>3. CASE TakeMessage
  <2>1. UNCHANGED <<objs, closed, reset, watch, interestOut, ready, noSpace, wire, peerGot>>
    BY <1>3 DEF TakeMessage, kernelVars, peerVars
  <2>2. mailbox # <<>> /\ mailbox' = Tail(mailbox) /\ msg' = Head(mailbox) /\ pc = "idle"
    BY <1>3 DEF TakeMessage, At
  <2>3. ~closed /\ "write" \in Head(mailbox) => pc' # "idle"
    BY <1>3 DEF TakeMessage, AfterRead
  <2>4. Told("write") => "write" \in Head(mailbox) \/ Told("write")'
    BY <1>0, <2>2, ToldOrTaken
  <2>5. ~closed /\ OnItsWay => OnItsWay'
    BY <2>1, <2>2, <2>3, <2>4 DEF OnItsWay
  <2>6. Room' = Room
    BY <1>2, <2>1
  <2> QED
    BY <1>0, <1>1, <2>1, <2>5, <2>6
<1>4. CASE ReadData \/ DataReturns \/ ReadNothing
  <2>1. UNCHANGED <<objs, closed, reset, watch, interestOut, ready, noSpace, wire, peerGot,
                    mailbox, msg>>
    BY <1>4 DEF ReadData, DataReturns, ReadNothing, kernelVars, peerVars
  <2>2. pc # "write" /\ ("write" \in msg => pc' # "idle")
    <3>1. CASE ReadData
      BY <3>1 DEF ReadData, At
    <3>2. CASE DataReturns
      BY <3>2 DEF DataReturns, At, AfterRead
    <3>3. CASE ReadNothing
      BY <3>3 DEF ReadNothing, At, AfterRead
    <3> QED
      BY <1>4, <3>1, <3>2, <3>3
  <2>3. OnItsWay => OnItsWay'
    BY <2>1, <2>2 DEF OnItsWay, Told
  <2>4. Room' = Room
    BY <1>2, <2>1
  <2> QED
    BY <1>0, <1>1, <2>1, <2>3, <2>4
<1>5. CASE ReadEnd
  <2>1. UNCHANGED <<objs, reset, watch, interestOut, ready, noSpace, wire, peerGot, mailbox, msg>>
    BY <1>5 DEF ReadEnd, kernelVars, peerVars
  <2>2. pc # "write" /\ (closed' = TRUE \/ (closed' = closed /\ ("write" \in msg => pc' # "idle")))
    BY <1>5 DEF ReadEnd, At, AfterRead
  <2>3. ~closed' /\ OnItsWay => OnItsWay'
    BY <2>1, <2>2 DEF OnItsWay, Told
  <2>4. Room' = Room
    BY <1>2, <2>1
  <2> QED
    BY <1>0, <1>1, <2>1, <2>2, <2>3, <2>4
<1>6. ASSUME NEW out \in BOOLEAN, ModifyEvent(out), UNCHANGED <<wire, peerGot>>, ~reset, out
      PROVE  interestOut' = TRUE /\ (ready' \/ (noSpace' /\ Room' = 0))
  <2>1. CASE Writable
    BY <1>6, <2>1 DEF ModifyEvent, Events
  <2>2. CASE ~Writable
    <3>1. Room = 0
      BY <1>0, <1>6, <2>2, Typed DEF Writable
    <3> QED
      BY <1>2, <1>6, <2>2, <3>1 DEF ModifyEvent, Polled
  <2> QED
    BY <2>1, <2>2
<1>7. CASE Watch
  <2>1. ModifyEvent(TRUE) /\ UNCHANGED <<wire, peerGot, reset>>
    BY <1>7 DEF Watch, peerVars
  <2> QED
    BY <1>6, <2>1 DEF OnItsWay
<1>8. CASE WriteFront
  <2>1. /\ UNCHANGED <<closed, reset, watch, interestOut>> /\ objs # <<>> /\ pc' = pc
        /\ ~watch /\ pc = "write" /\ ~Fails(FrontLen)
    BY <1>8 DEF WriteFront, At, peerVars
  <2>2. ~reset /\ ~EmptyFirst
    <3>1. FrontLen # 0 /\ FrontLen \in Nat /\ ~reset
      BY <1>0, <2>1, Front DEF Fails
    <3>2. Head(objs).from \in Nat /\ Head(objs).to \in Nat
      BY <1>0, <2>1, Front
    <3> QED
      BY <3>1, <3>2 DEF EmptyFirst, FrontLen
  <2> QED
    BY <1>0, <2>1, <2>2 DEF OnItsWay
<1>9. CASE WritePart
  <2>1. /\ UNCHANGED <<closed, reset, watch, interestOut, peerGot>> /\ objs # <<>>
        /\ ~watch /\ pc = "write" /\ ~Fails(FrontLen) /\ noSpace' = TRUE
        /\ Put(Head(objs).from, Taken(FrontLen)) /\ Taken(FrontLen) < FrontLen
    BY <1>9 DEF WritePart, At, peerVars
  <2>2. FrontLen \in Nat /\ Head(objs).from \in Nat /\ Head(objs).to \in Nat
    BY <1>0, <2>1, Front
  <2>3. ~reset /\ ~EmptyFirst
    BY <2>1, <2>2 DEF Fails, EmptyFirst, FrontLen
  <2>4. ~closed' => interestOut
    BY <1>0, <2>1, <2>3
  <2>5. Room' = 0
    <3>1. Taken(FrontLen) = Room /\ Taken(FrontLen) \in Nat
      BY <1>0, <2>1, <2>2, TakenBounds
    <3>2. Len(wire') = Len(wire) + Room
      BY <1>0, <2>1, <2>2, <3>1, Puts
    <3>3. Len(wire) \in Nat /\ peerGot \in Nat /\ SendBuffer \in Nat
      BY <1>0, Typed, ConstantTypes
    <3> QED
      BY <2>1, <3>2, <3>3 DEF Room
  <2> QED
    BY <2>1, <2>4, <2>5
<1>10. CASE WriteError
  <2>1. /\ UNCHANGED <<objs, closed, reset>> /\ objs # <<>> /\ Fails(FrontLen)
    BY <1>10 DEF WriteError, kernelVars, peerVars
  <2>2. Head(objs).from \in Nat /\ Head(objs).to \in Nat
    BY <1>0, <2>1, Front
  <2>3. reset \/ EmptyFirst
    BY <2>1, <2>2 DEF Fails, EmptyFirst, FrontLen
  <2> QED
    BY <1>1, <2>1, <2>3
<1>11. CASE Drained
  <2>1. objs' = <<>>
    BY <1>11 DEF Drained
  <2> QED
    BY <2>1
<1>12. ASSUME NEW len \in Lens, Write(len)
       PROVE  Goal
  <2>1. UNCHANGED <<closed, reset, interestOut, ready, peerGot, mailbox, msg, pc>>
    BY <1>12 DEF Write, WriteLeaves, peerVars
  <2>2. CASE objs = <<>>
    <3>1. objs' = <<>> \/ watch' = TRUE
      BY <1>12, <2>2 DEF Write, EntireWrite, WriteWhenEmpty, WriteWhenNotEmpty
    <3> QED
      BY <3>1
  <2>3. CASE objs # <<>>
    <3>1. /\ objs' = Append(objs, Obj(accepted + 1, accepted + len))
          /\ UNCHANGED <<wire, noSpace, watch>>
      BY <1>12, <2>3 DEF Write, EntireWrite, WriteWhenEmpty, WriteWhenNotEmpty
    <3>2. Head(objs') = Head(objs)
      <4>1. objs \in Seq(Objs) /\ Len(objs) \in Nat \ {0}
        BY <1>0, <2>3, Typed, Front
      <4> QED
        BY <3>1, <4>1
    <3>3. Live' => Live
      BY <2>1, <2>3, <3>2 DEF EmptyFirst
    <3>4. Room' = Room /\ (OnItsWay => OnItsWay')
      BY <1>2, <2>1, <3>1 DEF OnItsWay, Told
    <3> QED
      BY <1>0, <2>1, <3>1, <3>3, <3>4
  <2> QED
    BY <2>2, <2>3
<1>13. CASE CloseConn
  <2>1. UNCHANGED <<closed, objs, msg, pc, watch, wire, noSpace, interestOut, peerGot, reset>>
    BY <1>13 DEF CloseConn, peerVars
  <2>2. (ready => ready') /\ (Told("write") => Told("write")')
    <3>1. CASE objs = <<>>
      BY <1>0, <1>13, <3>1, AskSends DEF CloseConn, AskToClose
    <3>2. CASE objs # <<>>
      BY <1>13, <3>2 DEF CloseConn, Told
    <3> QED
      BY <3>1, <3>2
  <2>3. Room' = Room /\ (OnItsWay => OnItsWay')
    BY <1>2, <2>1, <2>2 DEF OnItsWay
  <2> QED
    BY <1>0, <1>1, <2>1, <2>3
<1>14. CASE OnEvent
  <2>1. UNCHANGED <<closed, objs, msg, pc, watch, wire, interestOut, peerGot, reset>> /\ Polled
    BY <1>14 DEF OnEvent, peerVars
  <2>2. /\ Told("write") => Told("write")'
        /\ "write" \in Events(interestOut) => Told("write")'
    BY <1>0, <1>14, EventSends
  <2>3. Room' = Room
    BY <1>2, <2>1
  <2>4. ASSUME interestOut PROVE Told("write")' \/ (noSpace' /\ Room' = 0) \/ reset
    <3>1. CASE Writable
      <4>1. "write" \in Events(interestOut)
        BY <2>4, <3>1 DEF Events
      <4> QED
        BY <2>2, <4>1
    <3>2. CASE ~Writable
      <4>1. Room = 0
        BY <1>0, <3>2, Typed DEF Writable
      <4>2. noSpace' = TRUE
        BY <2>1, <3>2 DEF Polled
      <4> QED
        BY <2>3, <4>1, <4>2
    <3> QED
      BY <3>1, <3>2
  <2> QED
    BY <1>0, <1>1, <2>1, <2>4 DEF OnItsWay
<1>15. CASE PeerSends \/ PeerCloses
  <2>1. UNCHANGED <<closed, objs, watch, interestOut, reset>> /\ ready' = TRUE
    BY <1>15 DEF PeerSends, PeerCloses, serviceVars
  <2> QED
    BY <1>0, <1>1, <2>1 DEF OnItsWay
<1>16. CASE PeerResets
  BY <1>16 DEF PeerResets
<1>17. CASE PeerReads
  <2>1. /\ UNCHANGED <<closed, objs, watch, interestOut, reset, mailbox, msg, pc>>
        /\ ready' = (ready \/ (noSpace /\ interestOut))
    BY <1>17 DEF PeerReads, serviceVars
  <2> QED
    BY <1>0, <1>1, <2>1 DEF OnItsWay, Told
<1> HIDE DEF Goal
<1> QED
  BY <1>3, <1>4, <1>5, <1>7, <1>8, <1>9, <1>10, <1>11, <1>12, <1>13, <1>14, <1>15, <1>16, <1>17
  DEF Next, ServiceStep, LuaCall, PeerStep

-----------------------------------------------------------------------------
(* The accept message.                                                     *)

(* A message that is sent while the worker is at a connection with a       *)
(* writer, or by SocketWorker, is not about a new connection.              *)
LEMMA SentIsNotAccept ==
  ASSUME TypeOK, AcceptIsFirst, NEW m \in SUBSET {"accept", "read", "write", "close"},
         Sent(m), "accept" \notin m, writer' = writer, closed' = closed, pc' = pc
  PROVE  AcceptIsFirst'
<1>1. /\ Len(mailbox') = Len(mailbox) + 1 /\ Len(mailbox) \in Nat
      /\ \A i \in 1 .. Len(mailbox) : mailbox'[i] = mailbox[i]
      /\ mailbox'[Len(mailbox')] = m
  BY Appends DEF Sent
<1>2. ASSUME NEW i \in 1 .. Len(mailbox'), "accept" \in mailbox'[i]
      PROVE  i \in 1 .. Len(mailbox) /\ "accept" \in mailbox[i]
  BY <1>1, <1>2
<1> QED
  BY <1>2 DEF AcceptIsFirst

LEMMA AcceptStep ==
  ASSUME IInv, Next
  PROVE  AcceptIsFirst'
<1>0. TypeOK /\ AcceptIsFirst
  BY DEF IInv, Inv
<1>1. ASSUME UNCHANGED <<writer, closed, mailbox>>, pc # "idle" \/ pc' = "idle"
      PROVE  AcceptIsFirst'
  BY <1>0, <1>1 DEF AcceptIsFirst
<1>2. ASSUME mailbox' = Append(mailbox, {"read", "close"}), UNCHANGED <<writer, closed, pc>>
      PROVE  AcceptIsFirst'
  <2>1. Sent({"read", "close"})
    BY <1>2 DEF Sent
  <2> QED
    BY <1>0, <1>2, <2>1, SentIsNotAccept
<1>3. CASE TakeMessage
  <2>1. /\ pc = "idle" /\ mailbox # <<>> /\ mailbox' = Tail(mailbox) /\ closed' = closed
        /\ writer' = (writer \/ "accept" \in Head(mailbox))
    BY <1>3 DEF TakeMessage, At
  <2>2. /\ Len(mailbox) \in Nat \ {0} /\ Len(mailbox') = Len(mailbox) - 1
        /\ \A i \in 1 .. Len(mailbox') : mailbox'[i] = mailbox[i + 1]
        /\ Head(mailbox) = mailbox[1]
    BY <1>0, <2>1, Takes
  <2>3. closed' => ~writer'
    <3>1. 1 \in 1 .. Len(mailbox)
      BY <2>2
    <3>2. closed => ~writer /\ "accept" \notin Head(mailbox)
      BY <1>0, <2>2, <3>1 DEF AcceptIsFirst
    <3> QED
      BY <2>1, <3>2
  <2>4. ASSUME NEW i \in 1 .. Len(mailbox') PROVE "accept" \notin mailbox'[i]
    <3>1. i + 1 \in 1 .. Len(mailbox) /\ i + 1 # 1 /\ mailbox'[i] = mailbox[i + 1]
      BY <2>2
    <3> QED
      BY <1>0, <3>1 DEF AcceptIsFirst
  <2> QED
    BY <2>3, <2>4 DEF AcceptIsFirst
<1>4. CASE ReadEnd
  <2>1. pc = "read" /\ mailbox' = mailbox /\ (UNCHANGED <<writer, closed>> \/ writer' = FALSE)
    BY <1>4 DEF ReadEnd, At
  <2> QED
    BY <1>0, <2>1 DEF AcceptIsFirst
<1>5. CASE ReadData \/ DataReturns \/ ReadNothing \/ Watch \/ WriteFront \/ WritePart \/ WriteError
  <2>1. UNCHANGED <<writer, closed, mailbox>> /\ (pc # "idle" \/ pc' = pc)
    BY <1>5 DEF ReadData, DataReturns, ReadNothing, Watch, WriteFront, WritePart, WriteError, At
  <2> QED
    BY <1>0, <2>1 DEF AcceptIsFirst
<1>6. CASE Drained
  <2>1. pc = "write" /\ UNCHANGED <<writer, closed>>
        /\ (mailbox' = mailbox \/ mailbox' = Append(mailbox, {"read", "close"}))
    BY <1>6 DEF Drained, At, AskToClose
  <2>2. \A i \in 1 .. Len(mailbox) : "accept" \notin mailbox[i]
    BY <1>0, <2>1 DEF AcceptIsFirst
  <2>3. \A i \in 1 .. Len(mailbox') : "accept" \notin mailbox'[i]
    <3>1. CASE mailbox' = mailbox
      BY <2>2, <3>1
    <3>2. CASE mailbox' = Append(mailbox, {"read", "close"})
      BY <1>0, <2>2, <3>2, Appends
    <3> QED
      BY <2>1, <3>1, <3>2
  <2> QED
    BY <1>0, <2>1, <2>3 DEF AcceptIsFirst
<1>7. CASE LuaCall
  <2>1. CASE \E len \in Lens : Write(len)
    BY <1>1, <2>1, <1>0 DEF Write, WriteLeaves, AcceptIsFirst
  <2>2. CASE CloseConn
    <3>1. UNCHANGED <<writer, closed, pc>>
          /\ (mailbox' = mailbox \/ mailbox' = Append(mailbox, {"read", "close"}))
      BY <2>2 DEF CloseConn, AskToClose
    <3> QED
      BY <1>0, <1>2, <3>1 DEF AcceptIsFirst
  <2> QED
    BY <1>7, <2>1, <2>2 DEF LuaCall
<1>8. CASE OnEvent
  <2>1. /\ UNCHANGED <<writer, closed, pc>>
        /\ mailbox' = mailbox \/ Sent(Events(interestOut))
    BY <1>8 DEF OnEvent, Sent
  <2>2. /\ Events(interestOut) \in SUBSET {"accept", "read", "write", "close"}
        /\ "accept" \notin Events(interestOut)
    BY DEF Events
  <2>3. CASE mailbox' = mailbox
    BY <1>0, <2>1, <2>3 DEF AcceptIsFirst
  <2>4. CASE Sent(Events(interestOut))
    BY <1>0, <2>1, <2>2, <2>4, SentIsNotAccept
  <2> QED
    BY <2>1, <2>3, <2>4
<1>9. CASE PeerStep
  <2>1. UNCHANGED <<writer, closed, mailbox, pc>>
    BY <1>9 DEF PeerStep, PeerSends, PeerCloses, PeerResets, PeerReads, serviceVars
  <2> QED
    BY <1>0, <2>1 DEF AcceptIsFirst
<1> QED
  BY <1>3, <1>4, <1>5, <1>6, <1>7, <1>8, <1>9 DEF Next, ServiceStep

-----------------------------------------------------------------------------
LEMMA InitInv ==
  ASSUME Init
  PROVE  IInv
<1>1. /\ objs = <<>> /\ accepted = 0 /\ wire = <<>> /\ mailbox = <<{"accept"}>> /\ msg = {}
      /\ pc = "idle" /\ inbox = 0 /\ came = 0 /\ peerGot = 0 /\ closed = FALSE /\ rdShut = FALSE
      /\ isClosing = FALSE
  BY DEF Init
<1>2. {writer, closed, isClosing, watch, missed, rdShut, noSpace, interestOut, ready, eof, reset}
        \subseteq BOOLEAN
  BY DEF Init
<1>3. /\ objs \in Seq(Objs) /\ Len(objs) = 0 /\ wire \in Seq(1 .. MaxBytes) /\ Len(wire) = 0
      /\ mailbox \in Seq(SUBSET {"accept", "read", "write", "close"})
      /\ Len(mailbox) = 1 /\ mailbox[1] = {"accept"}
  BY <1>1
<1>4. Room = SendBuffer /\ Room >= 0
  BY <1>1, <1>3, ConstantTypes DEF Room
<1>5. TypeOK
  BY <1>1, <1>2, <1>3, <1>4, ConstantTypes DEF TypeOK
<1>6. InOrder /\ QueueGoesOn /\ EndIsFirst /\ AcceptIsFirst
  <2>1. writer = FALSE
    BY DEF Init
  <2> QED
    BY <1>1, <1>3, <2>1 DEF InOrder, QueueGoesOn, EndIsFirst, AcceptIsFirst
<1>7. QueueIsWatched /\ DataIsRead /\ CloseRequestIsLast
  BY <1>1, <1>3 DEF QueueIsWatched, DataIsRead, CloseRequestIsLast
<1> QED
  BY <1>5, <1>6, <1>7, CloseComesLast DEF IInv, Inv

LEMMA NextInv ==
  ASSUME IInv, Next
  PROVE  IInv'
<1>1. TypeOK' /\ InOrder' /\ QueueGoesOn' /\ EndIsFirst' /\ AcceptIsFirst'
  BY TypeStep, WrittenStep, EndStep, AcceptStep DEF Written
<1>2. QueueIsWatched' /\ DataIsRead' /\ CloseRequestIsLast'
  BY WatchedStep, DataStep, CloseRequestStep
<1>3. CloseWaits'
  BY <1>1, CloseComesLast, PTL
<1> QED
  BY <1>1, <1>2, <1>3 DEF IInv, Inv

LEMMA StutterInv ==
  ASSUME IInv, UNCHANGED vars
  PROVE  IInv'
<1>1. UNCHANGED serviceVars /\ UNCHANGED kernelVars /\ UNCHANGED peerVars
  BY DEF vars
<1>2. TypeOK'
  BY <1>1 DEF IInv, Inv, TypeOK, Room, serviceVars, kernelVars, peerVars
<1>3. InOrder' /\ QueueGoesOn' /\ EndIsFirst' /\ AcceptIsFirst'
  BY <1>1 DEF IInv, InOrder, QueueGoesOn, EndIsFirst, AcceptIsFirst, Ended, serviceVars,
     kernelVars, peerVars
<1>4. QueueIsWatched'
  BY <1>1 DEF IInv, Inv, QueueIsWatched, WriteOnItsWay, EmptyFirst, Room, serviceVars, kernelVars,
     peerVars
<1>5. DataIsRead' /\ CloseRequestIsLast' /\ CloseWaits'
  BY <1>1 DEF IInv, Inv, DataIsRead, CloseRequestIsLast, CloseWaits, serviceVars, kernelVars,
     peerVars
<1> QED
  BY <1>2, <1>3, <1>4, <1>5 DEF IInv, Inv

(* In every state of a connection, whatever the peer does and in whatever  *)
(* order its events, the reads and writes of OnRWMsg and ConnWriter and    *)
(* the calls of Lua come: a queued write and unread data have an event to  *)
(* come, and the request to close follows the last write.                  *)
THEOREM Invariance == Spec => []IInv
<1>1. IInv /\ [Next]_vars => IInv'
  BY NextInv, StutterInv
<1>2. Init => IInv
  BY InitInv
<1> QED
  BY <1>1, <1>2, PTL DEF Spec

(* What Lua writes reaches the socket in order, nothing twice and nothing  *)
(* left out.                                                               *)
THEOREM BytesInOrder == Spec => []InOrder
<1>1. IInv => InOrder
  BY DEF IInv
<1> QED
  BY <1>1, Invariance, PTL

(* No edge that a queued write needs is lost: not the one that a read of   *)
(* the peer makes between the write that did not fit and ModifyEvent.      *)
THEOREM WritesAreWatched == Spec => []QueueIsWatched
<1>1. IInv => QueueIsWatched
  BY DEF IInv, Inv
<1> QED
  BY <1>1, Invariance, PTL

(* sunnet.CloseConn does not cut off what was written before it, unless    *)
(* the peer has ended or reset the stream.                                 *)
THEOREM CloseIsGraceful == Spec => [](CloseRequestIsLast /\ CloseWaits)
<1>1. IInv => CloseRequestIsLast /\ CloseWaits
  BY DEF IInv, Inv
<1> QED
  BY <1>1, Invariance, PTL

-----------------------------------------------------------------------------
(* The stream of bytes.                                                    *)

(* What write() takes are the next bytes of the stream. *)
LEMMA PutLeaves ==
  ASSUME TypeOK, NEW n \in Nat, Put(Len(wire) + 1, n), accepted' \in Nat,
         Len(wire) + n <= accepted'
  PROVE  Stream!Leave
<1>1. Len(wire) \in Nat
  BY Typed
<1>2. wire' = wire \o [i \in 1 .. n |-> Len(wire) + i]
  <2>1. [i \in 1 .. n |-> Len(wire) + 1 + i - 1] = [i \in 1 .. n |-> Len(wire) + i]
    BY <1>1
  <2> QED
    BY <2>1 DEF Put
<1>3. n \in 0 .. accepted' - Len(wire)
  BY <1>1
<1> QED
  BY <1>2, <1>3 DEF Stream!Leave

LEMMA NothingLeaves ==
  ASSUME TypeOK, wire' = wire, accepted' \in Nat, accepted <= accepted'
  PROVE  Stream!Leave
<1>1. wire \in Seq(1 .. MaxBytes) /\ Len(wire) \in Nat /\ Len(wire) <= accepted /\ accepted \in Nat
  BY Typed
<1>2. wire \o [i \in 1 .. 0 |-> Len(wire) + i] = wire
  <2>1. [i \in 1 .. 0 |-> Len(wire) + i] = <<>>
    OBVIOUS
  <2> QED
    BY <1>1, <2>1
<1>3. 0 \in 0 .. accepted' - Len(wire)
  BY <1>1
<1> QED
  BY <1>2, <1>3 DEF Stream!Leave

(* A call of sunnet.Write is one write of the stream, or is ignored. *)
LEMMA WriteRefines ==
  ASSUME IInv, NEW len \in Lens, Write(len)
  PROVE  [Stream!StreamNext]_(Stream!streamVars)
<1>0. /\ TypeOK /\ QueueGoesOn /\ AcceptIsFirst /\ len \in Nat
      /\ accepted \in Nat /\ Len(wire) \in Nat /\ Len(wire) <= accepted
  BY Typed, ConstantTypes DEF IInv, Inv
<1>1. ~isClosing /\ ~closed /\ UNCHANGED <<peerGot, isClosing, eof, reset, closed>>
  BY <1>0 DEF Write, MayWrite, InLua, WriteLeaves, peerVars, AcceptIsFirst
<1>2. CASE objs = <<>> /\ Fails(len)
  <2>1. UNCHANGED <<accepted, wire>>
    BY <1>2 DEF Write, EntireWrite, WriteWhenEmpty, WriteWhenNotEmpty
  <2> QED
    BY <1>1, <2>1 DEF Stream!streamVars
<1>3. CASE objs = <<>> /\ ~Fails(len)
  <2>1. accepted' = accepted + len /\ Put(accepted + 1, Taken(len))
    BY <1>3 DEF Write, EntireWrite, WriteWhenEmpty, WriteWhenNotEmpty
  <2>2. Len(wire) = accepted /\ Taken(len) \in Nat /\ Taken(len) <= len
    BY <1>0, <1>3, TakenBounds DEF QueueGoesOn
  <2>3. Stream!Leave
    BY <1>0, <2>1, <2>2, PutLeaves
  <2> QED
    BY <1>1, <2>1, <2>3 DEF Stream!StreamNext, Stream!Write
<1>4. CASE objs # <<>>
  <2>1. accepted' = accepted + len /\ wire' = wire
    BY <1>4 DEF Write, EntireWrite, WriteWhenEmpty, WriteWhenNotEmpty
  <2>2. Stream!Leave
    BY <1>0, <2>1, NothingLeaves
  <2> QED
    BY <1>1, <2>1, <2>2 DEF Stream!StreamNext, Stream!Write
<1> QED
  BY <1>2, <1>3, <1>4

(* OnWriteable transmits. *)
LEMMA WriteableRefines ==
  ASSUME IInv, WriteFront \/ WritePart
  PROVE  Stream!StreamNext
<1>0. /\ TypeOK /\ QueueGoesOn /\ EndIsFirst
      /\ accepted \in Nat /\ Len(wire) \in Nat /\ Len(wire) <= accepted
  BY Typed DEF IInv, Inv
<1>1. /\ objs # <<>> /\ pc = "write"
      /\ UNCHANGED <<accepted, peerGot, isClosing, eof, reset, closed>>
  BY DEF WriteFront, WritePart, At, peerVars
<1>2. ~closed
  BY <1>0, <1>1 DEF EndIsFirst
<1>3. /\ FrontLen \in Nat /\ Head(objs) = objs[1] /\ Len(objs) \in Nat \ {0}
      /\ Head(objs).from \in Nat /\ Head(objs).to \in Nat
      /\ Head(objs).from = Len(wire) + 1 /\ Head(objs).to <= accepted
  <2>1. /\ FrontLen \in Nat /\ Head(objs) = objs[1] /\ Len(objs) \in Nat \ {0}
        /\ Head(objs).from \in Nat /\ Head(objs).to \in Nat
    BY <1>0, <1>1, Front
  <2>2. 1 \in 1 .. Len(objs)
    BY <2>1
  <2> QED
    BY <1>0, <1>1, <2>1, <2>2 DEF QueueGoesOn
<1>4. Len(wire) + FrontLen <= accepted
  BY <1>0, <1>3 DEF FrontLen
<1>5. PICK n \in Nat : Put(Len(wire) + 1, n) /\ n <= FrontLen
  <2>1. CASE WriteFront
    BY <1>3, <2>1 DEF WriteFront
  <2>2. CASE WritePart
    BY <1>0, <1>3, <2>2, TakenBounds DEF WritePart
  <2> QED
    BY <2>1, <2>2
<1>6. Len(wire) + n <= accepted'
  BY <1>0, <1>1, <1>3, <1>4, <1>5
<1>7. Stream!Leave
  BY <1>0, <1>1, <1>5, <1>6, PutLeaves
<1> QED
  BY <1>1, <1>2, <1>7 DEF Stream!StreamNext, Stream!Transmit

(* OnRWMsg closes at the end of the peer's stream, or at the end that      *)
(* LingerClose made when nothing was left to write.                        *)
LEMMA EndRefines ==
  ASSUME IInv, ReadEnd
  PROVE  [Stream!StreamNext]_(Stream!streamVars)
<1>0. EndIsFirst /\ QueueGoesOn
  BY DEF IInv
<1>1. pc = "read" /\ Ended /\ UNCHANGED <<accepted, wire, peerGot, isClosing, eof, reset>>
  BY DEF ReadEnd, At, kernelVars, peerVars
<1>2. ~closed
  BY <1>0, <1>1 DEF EndIsFirst
<1>3. eof \/ reset \/ (isClosing /\ Len(wire) = accepted)
  BY <1>0, <1>1 DEF Ended, EndIsFirst, QueueGoesOn
<1>4. closed' = closed \/ closed' = TRUE
  BY DEF ReadEnd
<1>5. CASE closed' = closed
  BY <1>1, <1>5 DEF Stream!streamVars
<1>6. CASE closed' = TRUE
  <2>1. Stream!Close
    BY <1>1, <1>2, <1>3, <1>6 DEF Stream!Close
  <2> QED
    BY <2>1 DEF Stream!StreamNext
<1> QED
  BY <1>4, <1>5, <1>6

LEMMA StepRefines ==
  ASSUME IInv, [Next]_vars
  PROVE  [Stream!StreamNext]_(Stream!streamVars)
<1> DEFINE Same == UNCHANGED <<accepted, wire, peerGot, isClosing, eof, reset, closed>>
<1>1. Same => UNCHANGED Stream!streamVars
  BY DEF Stream!streamVars
<1>2. CASE UNCHANGED vars
  BY <1>1, <1>2 DEF vars, serviceVars, kernelVars, peerVars
<1>3. CASE TakeMessage \/ ReadData \/ DataReturns \/ ReadNothing \/ Watch \/ WriteError
           \/ Drained \/ OnEvent \/ PeerSends
  <2>1. Same
    BY <1>3 DEF TakeMessage, ReadData, DataReturns, ReadNothing, Watch, WriteError, Drained,
       OnEvent, PeerSends, serviceVars, kernelVars, peerVars
  <2> QED
    BY <1>1, <2>1
<1>4. CASE CloseConn
  <2>1. ~isClosing /\ writer /\ isClosing' = TRUE
        /\ UNCHANGED <<accepted, wire, peerGot, eof, reset, closed>>
    BY <1>4 DEF CloseConn, InLua, peerVars
  <2>2. ~closed
    BY <2>1 DEF IInv, AcceptIsFirst
  <2>3. Stream!CloseConn
    BY <2>1, <2>2 DEF Stream!CloseConn
  <2> QED
    BY <2>3 DEF Stream!StreamNext
<1>5. CASE PeerCloses \/ PeerResets
  <2>1. (eof \/ reset)' = TRUE /\ UNCHANGED <<accepted, wire, peerGot, isClosing, closed>>
    BY <1>5 DEF PeerCloses, PeerResets, serviceVars
  <2>2. Stream!End
    BY <2>1 DEF Stream!End
  <2> QED
    BY <2>2 DEF Stream!StreamNext
<1>6. CASE PeerReads
  <2>1. ~closed /\ peerGot < Len(wire) /\ peerGot' = peerGot + 1
        /\ UNCHANGED <<accepted, wire, isClosing, eof, reset, closed>>
    BY <1>6 DEF PeerReads, serviceVars
  <2>2. Stream!Receive
    BY <2>1 DEF Stream!Receive
  <2> QED
    BY <2>2 DEF Stream!StreamNext
<1>7. CASE ReadEnd
  BY <1>7, EndRefines
<1>8. CASE WriteFront \/ WritePart
  BY <1>8, WriteableRefines
<1>9. CASE \E len \in Lens : Write(len)
  BY <1>9, WriteRefines
<1> HIDE DEF Same
<1> QED
  BY <1>2, <1>3, <1>4, <1>5, <1>6, <1>7, <1>8, <1>9 DEF Next, ServiceStep, LuaCall, PeerStep

(* A connection implements the stream of bytes that it promises, for any   *)
(* sizes of the buffers and any lengths of the writes: each step is one of *)
(* the stream, or is invisible in it.                                      *)
THEOREM Refinement == Spec => ImplementsByteStream
<1>1. Init => Stream!StreamInit
  BY DEF Init, Stream!StreamInit
<1>2. IInv /\ [Next]_vars => [Stream!StreamNext]_(Stream!streamVars)
  BY StepRefines
<1> QED
  BY <1>1, <1>2, Invariance, PTL DEF Spec, ImplementsByteStream, Stream!StreamSpec
=============================================================================
