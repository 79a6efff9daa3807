------------------------------ MODULE Rpc_proofs ------------------------------
(***************************************************************************)
(* Every wake-up finds the coroutine it is meant for, and everything that  *)
(* is entered for one has one, for any number of services, coroutines,     *)
(* calls and sleeps, as long as no session counter wraps.                  *)
(***************************************************************************)
EXTENDS Rpc, TLAPS, FiniteSetTheorems

USE RpcAssumption DEF RpcAssumption

-----------------------------------------------------------------------------
(* Tables. *)

(* Put adds or replaces one entry. *)
LEMMA PutLemma ==
  ASSUME NEW K, NEW V, NEW t \in Tables(K, V), NEW k \in K, NEW v \in V
  PROVE  /\ Put(t, k, v) \in Tables(K, V)
         /\ DOMAIN Put(t, k, v) = DOMAIN t \cup {k}
         /\ Put(t, k, v)[k] = v
         /\ \A j \in DOMAIN t : j # k => Put(t, k, v)[j] = t[j]
<1>1. PICK some \in SUBSET K : t \in [some -> V]
  BY DEF Tables
<1>2. Put(t, k, v) \in [some \cup {k} -> V]
  BY <1>1 DEF Put
<1>3. some \cup {k} \in SUBSET K
  BY <1>1
<1> QED
  BY <1>1, <1>2, <1>3 DEF Tables, Put

(* Erase takes one away, if it is there. *)
LEMMA EraseLemma ==
  ASSUME NEW K, NEW V, NEW t \in Tables(K, V), NEW k
  PROVE  /\ Erase(t, k) \in Tables(K, V)
         /\ DOMAIN Erase(t, k) = DOMAIN t \ {k}
         /\ \A j \in DOMAIN t : j # k => Erase(t, k)[j] = t[j]
         /\ k \notin DOMAIN t => Erase(t, k) = t
<1>1. PICK some \in SUBSET K : t \in [some -> V]
  BY DEF Tables
<1>2. Erase(t, k) \in [some \ {k} -> V]
  BY <1>1 DEF Erase
<1>3. some \ {k} \in SUBSET K
  BY <1>1
<1>4. Erase(t, k) \in Tables(K, V)
  BY <1>2, <1>3 DEF Tables
<1>5. /\ DOMAIN Erase(t, k) = DOMAIN t \ {k}
      /\ \A j \in DOMAIN t : j # k => Erase(t, k)[j] = t[j]
  BY DEF Erase
<1>6. ASSUME k \notin DOMAIN t PROVE Erase(t, k) = t
  <2>1. t = [j \in some |-> t[j]] /\ some = DOMAIN t
    BY <1>1
  <2>2. DOMAIN t \ {k} = some
    BY <1>6, <2>1
  <2> QED
    BY <2>1, <2>2 DEF Erase
<1> QED
  BY <1>4, <1>5, <1>6

(* A table maps its keys to values. *)
LEMMA TableLemma ==
  ASSUME NEW K, NEW V, NEW t \in Tables(K, V)
  PROVE  DOMAIN t \subseteq K /\ \A k \in DOMAIN t : t[k] \in V
BY DEF Tables

LEMMA EmptyLemma ==
  ASSUME NEW K, NEW V
  PROVE  EmptyTable \in Tables(K, V) /\ DOMAIN EmptyTable = {}
<1>1. EmptyTable \in [{} -> V] /\ DOMAIN EmptyTable = {}
  BY DEF EmptyTable
<1> QED
  BY <1>1 DEF Tables

-----------------------------------------------------------------------------
(* What the steps do to the parts of the state.                            *)

(* The types of what is in the parts. *)
LEMMA Typed ==
  ASSUME TypeOK, NEW s \in Services
  PROVE  /\ mailbox[s] \in Seq(Messages) /\ Len(mailbox[s]) \in Nat
         /\ \A i \in 1 .. Len(mailbox[s]) : mailbox[s][i] \in Messages
         /\ stack[s] \in Seq(Coroutines) /\ Len(stack[s]) \in Nat
         /\ \A i \in 1 .. Len(stack[s]) : stack[s][i] \in Coroutines
         /\ DOMAIN sessionCoRefs[s] \subseteq Sessions
         /\ \A n \in DOMAIN sessionCoRefs[s] : sessionCoRefs[s][n] \in Suspensions
         /\ DOMAIN coRpcContexts[s] \subseteq Coroutines
         /\ \A co \in DOMAIN coRpcContexts[s] : coRpcContexts[s][co] \in Contexts
         /\ nextSession[s] \in Sessions /\ serial \in Nat /\ serial <= MaxYields
         /\ asleep[s] \in [Coroutines -> 0 .. MaxYields] /\ raised[s] \subseteq Coroutines
<1>1. /\ mailbox \in [Services -> Seq(Messages)] /\ stack \in [Services -> Seq(Coroutines)]
      /\ sessionCoRefs \in [Services -> Tables(Sessions, Suspensions)]
      /\ coRpcContexts \in [Services -> Tables(Coroutines, Contexts)]
      /\ nextSession \in [Services -> Sessions] /\ serial \in 0 .. MaxYields
      /\ asleep \in [Services -> [Coroutines -> 0 .. MaxYields]]
      /\ raised \in [Services -> SUBSET Coroutines]
  BY DEF TypeOK
<1>2. mailbox[s] \in Seq(Messages) /\ stack[s] \in Seq(Coroutines)
  BY <1>1
<1>3. /\ Len(mailbox[s]) \in Nat /\ \A i \in 1 .. Len(mailbox[s]) : mailbox[s][i] \in Messages
      /\ Len(stack[s]) \in Nat /\ \A i \in 1 .. Len(stack[s]) : stack[s][i] \in Coroutines
  BY <1>2
<1>4. /\ DOMAIN sessionCoRefs[s] \subseteq Sessions
      /\ \A n \in DOMAIN sessionCoRefs[s] : sessionCoRefs[s][n] \in Suspensions
  BY <1>1, TableLemma
<1>5. /\ DOMAIN coRpcContexts[s] \subseteq Coroutines
      /\ \A co \in DOMAIN coRpcContexts[s] : coRpcContexts[s][co] \in Contexts
  BY <1>1, TableLemma
<1> QED
  BY <1>1, <1>2, <1>3, <1>4, <1>5

(* A message that arrives is the last; the others stay where they are. *)
LEMMA PostLemma ==
  ASSUME TypeOK, NEW s \in Services, NEW m \in Messages, Post(s, m)
  PROVE  /\ mailbox' \in [Services -> Seq(Messages)]
         /\ \A r \in Services : r # s => mailbox'[r] = mailbox[r]
         /\ Len(mailbox'[s]) = Len(mailbox[s]) + 1
         /\ mailbox'[s][Len(mailbox[s]) + 1] = m
         /\ \A i \in 1 .. Len(mailbox[s]) : mailbox'[s][i] = mailbox[s][i]
<1>1. mailbox \in [Services -> Seq(Messages)]
  BY DEF TypeOK
<1>2. mailbox' = [mailbox EXCEPT ![s] = Append(mailbox[s], m)]
  BY DEF Post
<1>3. mailbox[s] \in Seq(Messages)
  BY <1>1
<1>4. /\ Append(mailbox[s], m) \in Seq(Messages) /\ Len(Append(mailbox[s], m)) = Len(mailbox[s]) + 1
      /\ Append(mailbox[s], m)[Len(mailbox[s]) + 1] = m
      /\ \A i \in 1 .. Len(mailbox[s]) : Append(mailbox[s], m)[i] = mailbox[s][i]
  BY <1>3
<1>5. mailbox'[s] = Append(mailbox[s], m) /\ \A r \in Services : r # s => mailbox'[r] = mailbox[r]
  BY <1>1, <1>2
<1>6. mailbox' \in [Services -> Seq(Messages)]
  BY <1>1, <1>2, <1>4
<1> QED
  BY <1>4, <1>5, <1>6

(* A message is taken from the front; the others move up. *)
LEMMA TakeLemma ==
  ASSUME TypeOK, NEW s \in Services, mailbox[s] # <<>>, TakeMessage(s)
  PROVE  /\ mailbox' \in [Services -> Seq(Messages)]
         /\ \A r \in Services : r # s => mailbox'[r] = mailbox[r]
         /\ Len(mailbox[s]) \in Nat \ {0} /\ Head(mailbox[s]) = mailbox[s][1]
         /\ Head(mailbox[s]) \in Messages
         /\ Len(mailbox'[s]) = Len(mailbox[s]) - 1
         /\ \A i \in 1 .. Len(mailbox[s]) - 1 : mailbox'[s][i] = mailbox[s][i + 1]
<1>1. mailbox \in [Services -> Seq(Messages)]
  BY DEF TypeOK
<1>2. mailbox' = [mailbox EXCEPT ![s] = Tail(mailbox[s])]
  BY DEF TakeMessage
<1>3. mailbox[s] \in Seq(Messages)
  BY <1>1
<1>4. /\ Tail(mailbox[s]) \in Seq(Messages) /\ Len(Tail(mailbox[s])) = Len(mailbox[s]) - 1
      /\ Len(mailbox[s]) \in Nat \ {0} /\ Head(mailbox[s]) = mailbox[s][1]
      /\ Head(mailbox[s]) \in Messages
      /\ \A i \in 1 .. Len(mailbox[s]) - 1 : Tail(mailbox[s])[i] = mailbox[s][i + 1]
  BY <1>3
<1>5. mailbox'[s] = Tail(mailbox[s]) /\ \A r \in Services : r # s => mailbox'[r] = mailbox[r]
  BY <1>1, <1>2
<1>6. mailbox' \in [Services -> Seq(Messages)]
  BY <1>1, <1>2, <1>4
<1> QED
  BY <1>4, <1>5, <1>6

(* The innermost coroutine leaves. *)
LEMMA PopLemma ==
  ASSUME TypeOK, NEW s \in Services, stack[s] # <<>>, Pop(s)
  PROVE  /\ stack' \in [Services -> Seq(Coroutines)]
         /\ \A r \in Services : r # s => stack'[r] = stack[r]
         /\ Len(stack[s]) \in Nat \ {0}
         /\ Top(s) = stack[s][Len(stack[s])] /\ Top(s) \in Coroutines
         /\ Len(stack'[s]) = Len(stack[s]) - 1
         /\ \A i \in 1 .. Len(stack[s]) - 1 : stack'[s][i] = stack[s][i]
<1>1. stack \in [Services -> Seq(Coroutines)]
  BY DEF TypeOK
<1>2. stack' = [stack EXCEPT ![s] = SubSeq(stack[s], 1, Len(stack[s]) - 1)]
  BY DEF Pop
<1>3. stack[s] \in Seq(Coroutines)
  BY <1>1
<1>4. Len(stack[s]) \in Nat \ {0} /\ Top(s) \in Coroutines
  BY <1>3 DEF Top
<1>5. /\ SubSeq(stack[s], 1, Len(stack[s]) - 1) \in Seq(Coroutines)
      /\ Len(SubSeq(stack[s], 1, Len(stack[s]) - 1)) = Len(stack[s]) - 1
      /\ \A i \in 1 .. Len(stack[s]) - 1 : SubSeq(stack[s], 1, Len(stack[s]) - 1)[i] = stack[s][i]
  BY <1>3, <1>4
<1>6. stack'[s] = SubSeq(stack[s], 1, Len(stack[s]) - 1) /\ \A r \in Services : r # s => stack'[r] = stack[r]
  BY <1>1, <1>2
<1>7. stack' \in [Services -> Seq(Coroutines)]
  BY <1>1, <1>2, <1>5
<1> QED
  BY <1>4, <1>5, <1>6, <1>7 DEF Top

(* The innermost coroutine is one that the service has. *)
LEMMA TopLemma ==
  ASSUME TypeOK, NEW s \in Services, stack[s] # <<>>
  PROVE  /\ Len(stack[s]) \in Nat \ {0} /\ Top(s) = stack[s][Len(stack[s])]
         /\ Top(s) \in Coroutines /\ Top(s) \in Running(s)
<1>1. stack[s] \in Seq(Coroutines)
  BY Typed
<1>2. Len(stack[s]) \in Nat \ {0} /\ Top(s) \in Coroutines
  BY <1>1 DEF Top
<1>3. Len(stack[s]) \in 1 .. Len(stack[s])
  BY <1>2
<1> QED
  BY <1>2, <1>3 DEF Top, Running

(* A suspension is registered under the next session. *)
LEMMA RegisterLemma ==
  ASSUME TypeOK, NEW s \in Services, NEW why \in Reasons,
         MayYield(s), Register(s, why)
  PROVE  /\ sessionCoRefs' \in [Services -> Tables(Sessions, Suspensions)]
         /\ NewId \in 1 .. MaxYields /\ NewId = serial + 1
         /\ \A r \in Services : r # s => sessionCoRefs'[r] = sessionCoRefs[r]
         /\ DOMAIN sessionCoRefs'[s] = DOMAIN sessionCoRefs[s] \cup {nextSession[s]}
         /\ sessionCoRefs'[s][nextSession[s]].co = Top(s)
         /\ sessionCoRefs'[s][nextSession[s]].id = NewId
         /\ sessionCoRefs'[s][nextSession[s]].why = why
         /\ \A n \in DOMAIN sessionCoRefs[s] :
              n # nextSession[s] => sessionCoRefs'[s][n] = sessionCoRefs[s][n]
<1> DEFINE new == [co |-> Top(s), id |-> NewId, why |-> why]
           old == sessionCoRefs[s]
<1>1. sessionCoRefs \in [Services -> Tables(Sessions, Suspensions)] /\ nextSession[s] \in Sessions
  BY DEF TypeOK
<1>2. sessionCoRefs' = [sessionCoRefs EXCEPT ![s] = Put(old, nextSession[s], new)]
  BY DEF Register
<1>3. NewId \in 1 .. MaxYields /\ NewId = serial + 1
  BY DEF NewId, MayYield, TypeOK
<1>4. new \in Suspensions
  BY <1>3, TopLemma DEF MayYield, Suspensions
<1>5. old \in Tables(Sessions, Suspensions)
  BY <1>1
<1> HIDE DEF new, old
<1>6. /\ Put(old, nextSession[s], new) \in Tables(Sessions, Suspensions)
      /\ DOMAIN Put(old, nextSession[s], new) = DOMAIN old \cup {nextSession[s]}
      /\ Put(old, nextSession[s], new)[nextSession[s]] = new
      /\ \A j \in DOMAIN old : j # nextSession[s] => Put(old, nextSession[s], new)[j] = old[j]
  BY <1>1, <1>4, <1>5, PutLemma
<1>7. /\ sessionCoRefs'[s] = Put(old, nextSession[s], new)
      /\ \A r \in Services : r # s => sessionCoRefs'[r] = sessionCoRefs[r]
      /\ sessionCoRefs' \in [Services -> Tables(Sessions, Suspensions)]
  BY <1>1, <1>2, <1>6
<1>8. new.co = Top(s) /\ new.id = NewId /\ new.why = why
  BY DEF new
<1> QED
  BY <1>3, <1>6, <1>7, <1>8 DEF old

(* The coroutine that handles a request gets its context. *)
LEMMA OnCallLemma ==
  ASSUME TypeOK, NEW s \in Services, NEW co \in Coroutines, OnCall(s, co)
  PROVE  LET m == Head(mailbox[s]) IN
         /\ m = mailbox[s][1] /\ m.kind = "CALL" /\ m \in Messages
         /\ m.source \in Services /\ m.session \in Sessions /\ m.id \in 1 .. MaxYields
         /\ coRpcContexts' \in [Services -> Tables(Coroutines, Contexts)]
         /\ \A r \in Services : r # s => coRpcContexts'[r] = coRpcContexts[r]
         /\ DOMAIN coRpcContexts'[s] = DOMAIN coRpcContexts[s] \cup {co}
         /\ coRpcContexts'[s][co].source = m.source /\ coRpcContexts'[s][co].session = m.session
         /\ coRpcContexts'[s][co].id = m.id /\ ~coRpcContexts'[s][co].reted
         /\ \A k \in DOMAIN coRpcContexts[s] : k # co => coRpcContexts'[s][k] = coRpcContexts[s][k]
<1> DEFINE m == Head(mailbox[s])
           new == [source |-> m.source, session |-> m.session, reted |-> FALSE, id |-> m.id]
           old == coRpcContexts[s]
<1>1. coRpcContexts \in [Services -> Tables(Coroutines, Contexts)]
  BY DEF TypeOK
<1>2. mailbox[s] # <<>> /\ TakeMessage(s) /\ m.kind = "CALL"
  BY DEF OnCall, Handles
<1>3. m = mailbox[s][1] /\ m \in Messages
  BY <1>2, TakeLemma
<1>4. m.source \in Services /\ m.session \in Sessions /\ m.id \in 1 .. MaxYields
  BY <1>2, <1>3 DEF Messages
<1>5. coRpcContexts' = [coRpcContexts EXCEPT ![s] = Put(old, co, new)]
  BY DEF OnCall
<1>6. new \in Contexts /\ old \in Tables(Coroutines, Contexts)
  BY <1>1, <1>4 DEF Contexts
<1>7. /\ new.source = m.source /\ new.session = m.session /\ new.id = m.id /\ new.reted = FALSE
  OBVIOUS
<1> HIDE DEF new, old
<1>8. /\ Put(old, co, new) \in Tables(Coroutines, Contexts)
      /\ DOMAIN Put(old, co, new) = DOMAIN old \cup {co} /\ Put(old, co, new)[co] = new
      /\ \A k \in DOMAIN old : k # co => Put(old, co, new)[k] = old[k]
  <2>1. PICK t, c : t = old /\ c = new
    OBVIOUS
  <2>2. /\ Put(t, co, c) \in Tables(Coroutines, Contexts)
        /\ DOMAIN Put(t, co, c) = DOMAIN t \cup {co} /\ Put(t, co, c)[co] = c
        /\ \A k \in DOMAIN t : k # co => Put(t, co, c)[k] = t[k]
    BY <1>6, <2>1, PutLemma
  <2> QED
    BY <2>1, <2>2
<1>9. /\ coRpcContexts'[s] = Put(old, co, new)
      /\ \A r \in Services : r # s => coRpcContexts'[r] = coRpcContexts[r]
      /\ coRpcContexts' \in [Services -> Tables(Coroutines, Contexts)]
  BY <1>1, <1>5, <1>8
<1> QED
  BY <1>2, <1>3, <1>4, <1>7, <1>8, <1>9 DEF old

(* The context of the coroutine that answers says so from then on. *)
LEMMA RetLemma ==
  ASSUME TypeOK, NEW s \in Services, Ret(s)
  PROVE  LET ctx == coRpcContexts[s][Top(s)]
             m == Message("RET", s, ctx.session, ctx.id) IN
         /\ Top(s) \in DOMAIN coRpcContexts[s] /\ ~ctx.reted
         /\ ctx.source \in Services \ exiting /\ m \in Messages /\ Post(ctx.source, m)
         /\ m.kind = "RET" /\ m.session = ctx.session /\ m.id = ctx.id
         /\ m.id \in 1 .. MaxYields
         /\ coRpcContexts' \in [Services -> Tables(Coroutines, Contexts)]
         /\ \A r \in Services : r # s => coRpcContexts'[r] = coRpcContexts[r]
         /\ DOMAIN coRpcContexts'[s] = DOMAIN coRpcContexts[s]
         /\ coRpcContexts'[s][Top(s)].reted
         /\ \A k \in DOMAIN coRpcContexts[s] : k # Top(s) => coRpcContexts'[s][k] = coRpcContexts[s][k]
<1> DEFINE ctx == coRpcContexts[s][Top(s)]
           new == [ctx EXCEPT !.reted = TRUE]
           old == coRpcContexts[s]
           m == Message("RET", s, ctx.session, ctx.id)
<1>1. coRpcContexts \in [Services -> Tables(Coroutines, Contexts)]
  BY DEF TypeOK
<1>2. /\ Top(s) \in DOMAIN old /\ ~ctx.reted /\ ctx.source \notin exiting
      /\ Post(ctx.source, m)
      /\ coRpcContexts' = [coRpcContexts EXCEPT ![s] = [old EXCEPT ![Top(s)] = new]]
  BY DEF Ret, Reachable
<1>3. old \in Tables(Coroutines, Contexts)
  BY <1>1
<1>4. ctx \in Contexts
  BY <1>2, Typed
<1>5. new \in Contexts /\ new.reted
  BY <1>4 DEF Contexts
<1>6. /\ ctx.source \in Services /\ m \in Messages
      /\ m.kind = "RET" /\ m.session = ctx.session /\ m.id = ctx.id /\ m.id \in 1 .. MaxYields
  BY <1>4 DEF Contexts, Messages, Message
<1> HIDE DEF new, old
<1>7. PICK some \in SUBSET Coroutines : old \in [some -> Contexts]
  BY <1>3 DEF Tables
<1>8. [old EXCEPT ![Top(s)] = new] \in [some -> Contexts]
  BY <1>5, <1>7
<1>9. /\ [old EXCEPT ![Top(s)] = new] \in Tables(Coroutines, Contexts)
      /\ DOMAIN [old EXCEPT ![Top(s)] = new] = DOMAIN old
      /\ [old EXCEPT ![Top(s)] = new][Top(s)] = new
      /\ \A k \in DOMAIN old : k # Top(s) => [old EXCEPT ![Top(s)] = new][k] = old[k]
  BY <1>2, <1>7, <1>8 DEF Tables
<1>10. /\ coRpcContexts'[s] = [old EXCEPT ![Top(s)] = new]
       /\ \A r \in Services : r # s => coRpcContexts'[r] = coRpcContexts[r]
       /\ coRpcContexts' \in [Services -> Tables(Coroutines, Contexts)]
  BY <1>1, <1>2, <1>9
<1> QED
  BY <1>2, <1>5, <1>6, <1>9, <1>10 DEF old

(* A handler that ends takes its context with it. *)
LEMMA EndLemma ==
  ASSUME TypeOK, NEW s \in Services, End(s)
  PROVE  /\ coRpcContexts' \in [Services -> Tables(Coroutines, Contexts)]
         /\ \A r \in Services : r # s => coRpcContexts'[r] = coRpcContexts[r]
         /\ DOMAIN coRpcContexts'[s] = DOMAIN coRpcContexts[s] \ {Top(s)}
         /\ \A k \in DOMAIN coRpcContexts[s] : k # Top(s) => coRpcContexts'[s][k] = coRpcContexts[s][k]
<1> DEFINE old == coRpcContexts[s]
<1>1. coRpcContexts \in [Services -> Tables(Coroutines, Contexts)]
  BY DEF TypeOK
<1>2. coRpcContexts' = [coRpcContexts EXCEPT ![s] = Erase(old, Top(s))]
  BY DEF End
<1>3. old \in Tables(Coroutines, Contexts)
  BY <1>1
<1> HIDE DEF old
<1>4. /\ Erase(old, Top(s)) \in Tables(Coroutines, Contexts)
      /\ DOMAIN Erase(old, Top(s)) = DOMAIN old \ {Top(s)}
      /\ \A k \in DOMAIN old : k # Top(s) => Erase(old, Top(s))[k] = old[k]
  <2>1. PICK co : co = Top(s)
    OBVIOUS
  <2>2. PICK t \in Tables(Coroutines, Contexts) : t = old
    BY <1>3
  <2>3. /\ Erase(t, co) \in Tables(Coroutines, Contexts) /\ DOMAIN Erase(t, co) = DOMAIN t \ {co}
        /\ \A k \in DOMAIN t : k # co => Erase(t, co)[k] = t[k]
    BY EraseLemma
  <2> QED
    BY <2>1, <2>2, <2>3
<1>5. /\ coRpcContexts'[s] = Erase(old, Top(s))
      /\ \A r \in Services : r # s => coRpcContexts'[r] = coRpcContexts[r]
      /\ coRpcContexts' \in [Services -> Tables(Coroutines, Contexts)]
  BY <1>1, <1>2, <1>4
<1> QED
  BY <1>4, <1>5 DEF old

(* The coroutine is suspended, or a yield of it has raised. *)
LEMMA YieldLemma ==
  ASSUME TypeOK, NEW s \in Services, MayYield(s), Yield(s)
  PROVE  /\ stack' \in [Services -> Seq(Coroutines)]
         /\ asleep' \in [Services -> [Coroutines -> 0 .. MaxYields]]
         /\ raised' \in [Services -> SUBSET Coroutines]
         /\ \A r \in Services : r # s => /\ stack'[r] = stack[r] /\ asleep'[r] = asleep[r]
                                        /\ raised'[r] = raised[r]
         /\ \/ /\ Pop(s) /\ raised'[s] = raised[s] /\ asleep'[s][Top(s)] = NewId
               /\ \A co \in Coroutines : co # Top(s) => asleep'[s][co] = asleep[s][co]
            \/ /\ stack'[s] = stack[s] /\ asleep'[s] = asleep[s]
               /\ raised'[s] = raised[s] \cup {Top(s)}
<1>1. /\ stack \in [Services -> Seq(Coroutines)]
      /\ asleep \in [Services -> [Coroutines -> 0 .. MaxYields]]
      /\ raised \in [Services -> SUBSET Coroutines]
  BY DEF TypeOK
<1>2. NewId \in 0 .. MaxYields
  BY DEF NewId, MayYield, TypeOK
<1>3. stack[s] # <<>> /\ Top(s) \in Coroutines
  BY TopLemma DEF MayYield
<1>4. CASE Pop(s) /\ asleep' = [asleep EXCEPT ![s][Top(s)] = NewId] /\ UNCHANGED raised
  <2>1. /\ stack' \in [Services -> Seq(Coroutines)]
        /\ \A r \in Services : r # s => stack'[r] = stack[r]
    BY <1>3, <1>4, PopLemma
  <2>2. /\ asleep' \in [Services -> [Coroutines -> 0 .. MaxYields]]
        /\ asleep'[s][Top(s)] = NewId
        /\ \A co \in Coroutines : co # Top(s) => asleep'[s][co] = asleep[s][co]
        /\ \A r \in Services : r # s => asleep'[r] = asleep[r]
    BY <1>1, <1>2, <1>3, <1>4
  <2> QED
    BY <1>1, <1>4, <2>1, <2>2
<1>5. CASE /\ raised' = [raised EXCEPT ![s] = raised[s] \cup {Top(s)}]
           /\ UNCHANGED <<stack, asleep>>
  BY <1>1, <1>3, <1>5
<1> QED
  BY <1>4, <1>5 DEF Yield

(* A coroutine starts. *)
LEMMA StartLemma ==
  ASSUME TypeOK, NEW s \in Services, NEW co \in Coroutines, NEW running \in Seq(Coroutines),
         Start(s, co, running)
  PROVE  /\ stack' \in [Services -> Seq(Coroutines)] /\ stack'[s] = running
         /\ \A r \in Services : r # s => stack'[r] = stack[r]
         /\ co \in Unused(s) /\ UNCHANGED <<asleep, raised>>
BY DEF Start, TypeOK

(* A wake-up takes the session that it leads to out of the table, and the  *)
(* coroutine goes on, or cannot.                                           *)
LEMMA OnWakeUpLemma ==
  ASSUME TypeOK, NEW s \in Services, OnWakeUp(s)
  PROVE  LET m == Head(mailbox[s]) IN
         /\ mailbox[s] # <<>> /\ m = mailbox[s][1] /\ m.kind \in {"RET", "TIMER"}
         /\ m \in Messages /\ m.session \in Sessions /\ m.id \in 1 .. MaxYields
         /\ stack[s] = <<>>
         /\ sessionCoRefs' \in [Services -> Tables(Sessions, Suspensions)]
         /\ \A r \in Services : r # s => sessionCoRefs'[r] = sessionCoRefs[r]
         /\ DOMAIN sessionCoRefs'[s] = DOMAIN sessionCoRefs[s] \ {m.session}
         /\ \A n \in DOMAIN sessionCoRefs[s] :
              n # m.session => sessionCoRefs'[s][n] = sessionCoRefs[s][n]
         /\ IF m.session \in DOMAIN sessionCoRefs[s]
            THEN Resume(s, sessionCoRefs[s][m.session].co)
            ELSE UNCHANGED <<stack, asleep, raised, coRpcContexts>>
<1> DEFINE m == Head(mailbox[s])
           old == sessionCoRefs[s]
<1>1. sessionCoRefs \in [Services -> Tables(Sessions, Suspensions)]
  BY DEF TypeOK
<1>2. mailbox[s] # <<>> /\ TakeMessage(s) /\ m.kind \in {"RET", "TIMER"} /\ stack[s] = <<>>
  BY DEF OnWakeUp, Handles
<1>3. m = mailbox[s][1] /\ m \in Messages
  BY <1>2, TakeLemma
<1>4. m.session \in Sessions /\ m.id \in 1 .. MaxYields
  BY <1>2, <1>3 DEF Messages
<1>5. old \in Tables(Sessions, Suspensions)
  BY <1>1
<1>6. /\ m.session \in DOMAIN old =>
           /\ sessionCoRefs' = [sessionCoRefs EXCEPT ![s] = Erase(old, m.session)]
           /\ Resume(s, old[m.session].co)
      /\ m.session \notin DOMAIN old =>
           sessionCoRefs' = sessionCoRefs /\ UNCHANGED <<stack, asleep, raised, coRpcContexts>>
  BY DEF OnWakeUp, threadVars
<1> HIDE DEF old, m
<1>8. /\ Erase(old, m.session) \in Tables(Sessions, Suspensions)
      /\ DOMAIN Erase(old, m.session) = DOMAIN old \ {m.session}
      /\ \A n \in DOMAIN old : n # m.session => Erase(old, m.session)[n] = old[n]
  BY <1>5, EraseLemma, SMTT(30)
<1>9. CASE m.session \in DOMAIN old
  <2>1. /\ sessionCoRefs'[s] = Erase(old, m.session)
        /\ \A r \in Services : r # s => sessionCoRefs'[r] = sessionCoRefs[r]
        /\ sessionCoRefs' \in [Services -> Tables(Sessions, Suspensions)]
    BY <1>1, <1>6, <1>8, <1>9
  <2> QED
    BY <1>2, <1>3, <1>4, <1>6, <1>8, <1>9, <2>1 DEF old, m
<1>10. CASE m.session \notin DOMAIN old
  BY <1>1, <1>2, <1>3, <1>4, <1>6, <1>10 DEF old, m
<1> QED
  BY <1>9, <1>10

(* A coroutine that goes on, or that has ended and cannot. *)
LEMMA ResumeLemma ==
  ASSUME TypeOK, NEW s \in Services, NEW co \in Coroutines, Resume(s, co)
  PROVE  /\ stack' \in [Services -> Seq(Coroutines)]
         /\ asleep' \in [Services -> [Coroutines -> 0 .. MaxYields]]
         /\ raised' \in [Services -> SUBSET Coroutines]
         /\ coRpcContexts' \in [Services -> Tables(Coroutines, Contexts)]
         /\ \A r \in Services : r # s => /\ stack'[r] = stack[r] /\ asleep'[r] = asleep[r]
                                        /\ raised'[r] = raised[r]
                                        /\ coRpcContexts'[r] = coRpcContexts[r]
         /\ raised'[s] = raised[s] \cap Referred(s)'
         /\ \/ /\ stack'[s] = <<co>> /\ asleep'[s][co] = 0 /\ coRpcContexts' = coRpcContexts
               /\ \A k \in Coroutines : k # co => asleep'[s][k] = asleep[s][k]
            \/ /\ stack' = stack /\ asleep' = asleep /\ asleep[s][co] = 0
               /\ coRpcContexts'[s] = Erase(coRpcContexts[s], co)
               /\ co \notin DOMAIN coRpcContexts[s] => coRpcContexts' = coRpcContexts
<1>1. /\ stack \in [Services -> Seq(Coroutines)]
      /\ asleep \in [Services -> [Coroutines -> 0 .. MaxYields]]
      /\ raised \in [Services -> SUBSET Coroutines]
      /\ coRpcContexts \in [Services -> Tables(Coroutines, Contexts)]
  BY DEF TypeOK
<1>2. raised' = [raised EXCEPT ![s] = raised[s] \cap Referred(s)']
  BY DEF Resume
<1>3. /\ raised' \in [Services -> SUBSET Coroutines] /\ raised'[s] = raised[s] \cap Referred(s)'
      /\ \A r \in Services : r # s => raised'[r] = raised[r]
  BY <1>1, <1>2
<1>4. CASE /\ stack' = [stack EXCEPT ![s] = <<co>>] /\ asleep' = [asleep EXCEPT ![s][co] = 0]
           /\ UNCHANGED coRpcContexts
  <2>1. <<co>> \in Seq(Coroutines) /\ 0 \in 0 .. MaxYields
    OBVIOUS
  <2>2. /\ stack' \in [Services -> Seq(Coroutines)] /\ stack'[s] = <<co>>
        /\ \A r \in Services : r # s => stack'[r] = stack[r]
    BY <1>1, <1>4, <2>1
  <2>3. /\ asleep' \in [Services -> [Coroutines -> 0 .. MaxYields]] /\ asleep'[s][co] = 0
        /\ \A k \in Coroutines : k # co => asleep'[s][k] = asleep[s][k]
        /\ \A r \in Services : r # s => asleep'[r] = asleep[r]
    BY <1>1, <1>4, <2>1
  <2> QED
    BY <1>1, <1>3, <1>4, <2>2, <2>3
<1>5. CASE /\ asleep[s][co] = 0 /\ UNCHANGED <<stack, asleep>>
           /\ coRpcContexts' = [coRpcContexts EXCEPT ![s] = Erase(coRpcContexts[s], co)]
  <2>1. PICK t \in Tables(Coroutines, Contexts) : t = coRpcContexts[s]
    BY <1>1
  <2>2. Erase(t, co) \in Tables(Coroutines, Contexts) /\ (co \notin DOMAIN t => Erase(t, co) = t)
    BY EraseLemma
  <2>3. /\ coRpcContexts' \in [Services -> Tables(Coroutines, Contexts)]
        /\ coRpcContexts'[s] = Erase(t, co)
        /\ \A r \in Services : r # s => coRpcContexts'[r] = coRpcContexts[r]
        /\ co \notin DOMAIN coRpcContexts[s] => coRpcContexts' = coRpcContexts
    BY <1>1, <1>5, <2>1, <2>2
  <2> QED
    BY <1>1, <1>3, <1>5, <2>1, <2>3
<1> QED
  BY <1>4, <1>5 DEF Resume

-----------------------------------------------------------------------------
(* Types. *)

LEMMA InitTypes == Init => TypeOK
<1>1. /\ EmptyTable \in Tables(Sessions, Suspensions) /\ EmptyTable \in Tables(Coroutines, Contexts)
  BY EmptyLemma
<1>2. 1 \in Sessions
  BY DEF Sessions
<1> QED
  BY <1>1, <1>2 DEF Init, TypeOK

(* The messages that are sent are messages. *)
LEMMA MessageLemma ==
  /\ Message("SEND", NoService, 0, 0) \in Messages
  /\ \A n \in Sessions, id \in 1 .. MaxYields :
       /\ Message("TIMER", NoService, n, id) \in Messages
       /\ \A s \in Services : Message("CALL", s, n, id) \in Messages
  /\ \A kind, source, n, id : LET m == Message(kind, source, n, id) IN
       m.kind = kind /\ m.source = source /\ m.session = n /\ m.id = id
BY DEF Message, Messages

LEMMA Types == TypeOK /\ [Next]_vars => TypeOK'
<1> SUFFICES ASSUME TypeOK, [Next]_vars PROVE TypeOK'
  OBVIOUS
<1> USE DEF serviceVars, tableVars, threadVars
<1>1. ASSUME NEW t \in timers, TimerExpires(t) PROVE TypeOK'
  <2>1. t.service \in Services /\ t.session \in Sessions /\ t.id \in 1 .. MaxYields
    BY DEF TypeOK
  <2>2. timers' \subseteq timers
    BY <1>1 DEF TimerExpires
  <2>3. mailbox' \in [Services -> Seq(Messages)]
    BY <1>1, <2>1, PostLemma, MessageLemma DEF TimerExpires, TypeOK
  <2> QED
    BY <1>1, <2>2, <2>3 DEF TimerExpires, TypeOK
<1>2. ASSUME NEW s \in Services, Send(s) PROVE TypeOK'
  <2>1. mailbox' \in [Services -> Seq(Messages)]
    BY <1>2, PostLemma, MessageLemma DEF Send
  <2>2. sends' \in 0 .. MaxSends
    BY <1>2 DEF Send, TypeOK
  <2> QED
    BY <1>2, <2>1, <2>2 DEF Send, TypeOK
<1>3. ASSUME NEW s \in Services, OnWakeUp(s) PROVE TypeOK'
  <2>1. mailbox' \in [Services -> Seq(Messages)]
    BY <1>3, TakeLemma DEF OnWakeUp, Handles
  <2>2. sessionCoRefs' \in [Services -> Tables(Sessions, Suspensions)]
    BY <1>3, OnWakeUpLemma
  <2>3. PICK n : n = Head(mailbox[s]).session
    OBVIOUS
  <2>4. IF n \in DOMAIN sessionCoRefs[s]
        THEN Resume(s, sessionCoRefs[s][n].co)
        ELSE UNCHANGED <<stack, asleep, raised, coRpcContexts>>
    BY <1>3, <2>3, OnWakeUpLemma
  <2>5. n \in DOMAIN sessionCoRefs[s] => sessionCoRefs[s][n].co \in Coroutines
    BY Typed DEF Suspensions
  <2>6. /\ stack' \in [Services -> Seq(Coroutines)]
        /\ asleep' \in [Services -> [Coroutines -> 0 .. MaxYields]]
        /\ raised' \in [Services -> SUBSET Coroutines]
        /\ coRpcContexts' \in [Services -> Tables(Coroutines, Contexts)]
    BY <2>4, <2>5, ResumeLemma DEF TypeOK
  <2> QED
    BY <1>3, <2>1, <2>2, <2>6 DEF OnWakeUp, TypeOK
<1>4. ASSUME NEW s \in Services, NEW co \in Coroutines, OnSend(s, co) \/ OnCall(s, co) PROVE TypeOK'
  <2>1. mailbox' \in [Services -> Seq(Messages)]
    BY <1>4, TakeLemma DEF OnSend, OnCall, Handles
  <2>2. stack' \in [Services -> Seq(Coroutines)] /\ UNCHANGED <<asleep, raised>>
    <3>1. <<co>> \in Seq(Coroutines)
      OBVIOUS
    <3> QED
      BY <1>4, <3>1, StartLemma DEF OnSend, OnCall
  <2>3. coRpcContexts' \in [Services -> Tables(Coroutines, Contexts)]
    BY <1>4, OnCallLemma DEF OnSend, TypeOK
  <2> QED
    BY <1>4, <2>1, <2>2, <2>3 DEF OnSend, OnCall, TypeOK
<1>5. ASSUME NEW s \in Services, NewSession(s) PROVE nextSession' \in [Services -> Sessions]
  BY <1>5 DEF NewSession, TypeOK, Sessions
<1>6. ASSUME NEW s \in Services, MayYield(s), serial' = NewId PROVE serial' \in 0 .. MaxYields
  BY <1>6 DEF MayYield, NewId, TypeOK
<1>7. ASSUME NEW s \in Services, NEW target \in Services, CallFails(s, target) PROVE TypeOK'
  <2>1. nextSession' \in [Services -> Sessions] /\ serial' \in 0 .. MaxYields
    BY <1>5, <1>6, <1>7 DEF CallFails
  <2>2. sessionCoRefs' \in [Services -> Tables(Sessions, Suspensions)]
    <3>1. PICK n : n = nextSession[s]
      OBVIOUS
    <3>2. sessionCoRefs[s] \in Tables(Sessions, Suspensions)
      BY DEF TypeOK
    <3>3. Erase(sessionCoRefs[s], n) \in Tables(Sessions, Suspensions)
      BY <3>2, EraseLemma
    <3> QED
      BY <1>7, <3>1, <3>3 DEF CallFails, TypeOK
  <2> QED
    BY <1>7, <2>1, <2>2 DEF CallFails, TypeOK
<1>8. ASSUME NEW s \in Services, NEW target \in Services, Call(s, target) PROVE TypeOK'
  <2>1. nextSession' \in [Services -> Sessions] /\ serial' \in 0 .. MaxYields
    BY <1>5, <1>6, <1>8 DEF Call
  <2>2. sessionCoRefs' \in [Services -> Tables(Sessions, Suspensions)] /\ NewId \in 1 .. MaxYields
    BY <1>8, RegisterLemma DEF Call, Reasons
  <2>3. /\ stack' \in [Services -> Seq(Coroutines)]
        /\ asleep' \in [Services -> [Coroutines -> 0 .. MaxYields]]
        /\ raised' \in [Services -> SUBSET Coroutines]
    BY <1>8, YieldLemma DEF Call
  <2>4. Message("CALL", s, nextSession[s], NewId) \in Messages
    BY <2>2, MessageLemma, Typed
  <2>5. mailbox' \in [Services -> Seq(Messages)]
    BY <1>8, <2>4, PostLemma DEF Call
  <2> QED
    BY <1>8, <2>1, <2>2, <2>3, <2>5 DEF Call, TypeOK
<1>9. ASSUME NEW s \in Services, NEW ms \in Naps, Sleep(s, ms) PROVE TypeOK'
  <2>1. nextSession' \in [Services -> Sessions] /\ serial' \in 0 .. MaxYields
    BY <1>5, <1>6, <1>9 DEF Sleep
  <2>2. sessionCoRefs' \in [Services -> Tables(Sessions, Suspensions)] /\ NewId \in 1 .. MaxYields
    BY <1>9, RegisterLemma DEF Sleep, Why, Reasons
  <2>3. /\ stack' \in [Services -> Seq(Coroutines)]
        /\ asleep' \in [Services -> [Coroutines -> 0 .. MaxYields]]
        /\ raised' \in [Services -> SUBSET Coroutines]
    BY <1>9, YieldLemma DEF Sleep
  <2>4. timers' \subseteq [service : Services, session : Sessions, id : 1 .. MaxYields]
    <3>1. timers' = timers \/ timers' = timers \cup {[service |-> s, session |-> nextSession[s], id |-> NewId]}
      BY <1>9 DEF Sleep, SetTimer
    <3> QED
      BY <2>2, <3>1 DEF TypeOK
  <2> QED
    BY <1>9, <2>1, <2>2, <2>3, <2>4 DEF Sleep, TypeOK
<1>10. ASSUME NEW s \in Services, Ret(s) PROVE TypeOK'
  <2>1. coRpcContexts' \in [Services -> Tables(Coroutines, Contexts)] /\ mailbox' \in [Services -> Seq(Messages)]
    BY <1>10, RetLemma, PostLemma
  <2> QED
    BY <1>10, <2>1 DEF Ret, TypeOK
<1>11. ASSUME NEW s \in Services, NEW co \in Coroutines, Fork(s, co) PROVE TypeOK'
  <2>1. stack[s] \in Seq(Coroutines)
    BY Typed
  <2>2. Append(stack[s], co) \in Seq(Coroutines)
    BY <2>1
  <2>3. stack' \in [Services -> Seq(Coroutines)] /\ UNCHANGED <<asleep, raised>>
    BY <1>11, <2>2, StartLemma DEF Fork
  <2> QED
    BY <1>11, <2>3 DEF Fork, TypeOK
<1>12. ASSUME NEW s \in Services, KillService(s) PROVE TypeOK'
  BY <1>12 DEF KillService, TypeOK
<1>13. ASSUME NEW s \in Services, End(s) PROVE TypeOK'
  <2>1. stack[s] # <<>>
    BY <1>13 DEF End
  <2>2. /\ coRpcContexts' \in [Services -> Tables(Coroutines, Contexts)]
        /\ stack' \in [Services -> Seq(Coroutines)]
    BY <1>13, <2>1, EndLemma, PopLemma DEF End
  <2>3. dropped' \subseteq 1 .. MaxYields
    <3>1. PICK co : co = Top(s)
      OBVIOUS
    <3>2. co \in DOMAIN coRpcContexts[s] => coRpcContexts[s][co].id \in 1 .. MaxYields
      BY Typed DEF Contexts
    <3> QED
      BY <1>13, <3>1, <3>2 DEF End, TypeOK
  <2> QED
    BY <1>13, <2>2, <2>3 DEF End, TypeOK
<1>14. ASSUME NEW s \in Services, EndForked(s) PROVE TypeOK'
  <2>1. stack[s] # <<>>
    BY <1>14 DEF EndForked
  <2>2. stack' \in [Services -> Seq(Coroutines)]
    BY <1>14, <2>1, PopLemma DEF EndForked
  <2> QED
    BY <1>14, <2>2 DEF EndForked, TypeOK
<1>15. CASE UNCHANGED vars
  BY <1>15 DEF vars, TypeOK
<1> QED
  BY <1>1, <1>2, <1>3, <1>4, <1>7, <1>8, <1>9, <1>10, <1>11, <1>12, <1>13, <1>14, <1>15
     DEF Next, Handle, UseApi

-----------------------------------------------------------------------------
(* Each coroutine is in one place. *)

(* No session number is used again. *)
NoWrap == MaxYields <= MaxSession

(* The next session is free. *)
LEMMA NextIsFree ==
  ASSUME NoWrap, TypeOK, SessionsAreNew, NEW s \in Services, MayYield(s)
  PROVE  nextSession[s] \notin DOMAIN sessionCoRefs[s] /\ nextSession[s] <= serial + 1
<1>1. serial < MaxSession
  BY Typed DEF MayYield, NoWrap
<1>2. nextSession[s] <= serial + 1 /\ \A n \in DOMAIN sessionCoRefs[s] : n < nextSession[s]
  BY <1>1 DEF SessionsAreNew
<1>3. nextSession[s] \in Nat
  BY Typed DEF Sessions
<1> QED
  BY <1>2, <1>3

(* What CoroutinesInOnePlace and ContextsAreOutermost say of one service. *)
Separate(s) ==
  /\ \A i, j \in 1 .. Len(stack[s]) : stack[s][i] = stack[s][j] => i = j
  /\ \A co \in Running(s) : asleep[s][co] = 0
  /\ \A co \in Coroutines : asleep[s][co] # 0 =>
       \E n \in DOMAIN sessionCoRefs[s] :
         sessionCoRefs[s][n].co = co /\ sessionCoRefs[s][n].id = asleep[s][co]
  /\ \A n \in DOMAIN sessionCoRefs[s] :
       \/ sessionCoRefs[s][n].co \in raised[s]
       \/ asleep[s][sessionCoRefs[s][n].co] = sessionCoRefs[s][n].id
  /\ \A co \in DOMAIN coRpcContexts[s] : co \in Running(s) \/ asleep[s][co] # 0
  /\ \A co \in DOMAIN coRpcContexts[s] :
       co \in Running(s) => stack[s] # <<>> /\ co = stack[s][1]

LEMMA SeparateLemma ==
  CoroutinesInOnePlace /\ ContextsAreOutermost <=> \A s \in Services : Separate(s)
BY DEF CoroutinesInOnePlace, ContextsAreOutermost, Separate

LEMMA SeparateStays ==
  ASSUME NEW r, Separate(r), stack'[r] = stack[r], sessionCoRefs'[r] = sessionCoRefs[r],
         asleep'[r] = asleep[r], raised'[r] = raised[r],
         DOMAIN coRpcContexts'[r] = DOMAIN coRpcContexts[r]
  PROVE  Separate(r)'
<1>1. Running(r)' = Running(r)
  BY DEF Running
<1> QED
  BY <1>1 DEF Separate

(* A coroutine that nobody refers to does not sleep. *)
LEMMA UnusedLemma ==
  ASSUME NEW s, Separate(s), NEW co \in Coroutines, co \in Unused(s)
  PROVE  asleep[s][co] = 0 /\ co \notin Running(s)
BY DEF Separate, Unused, Referred

(* A handler that starts. *)
LEMMA StartSeparate ==
  ASSUME TypeOK, NEW s \in Services, Separate(s), NEW co \in Coroutines, co \in Unused(s),
         stack[s] = <<>>, stack'[s] = <<co>>, UNCHANGED <<asleep, raised>>,
         sessionCoRefs'[s] = sessionCoRefs[s],
         DOMAIN coRpcContexts'[s] \subseteq DOMAIN coRpcContexts[s] \cup {co}
  PROVE  Separate(s)'
<1>1. Running(s)' = {co} /\ Running(s) = {}
  BY DEF Running
<1>2. asleep[s][co] = 0
  BY UnusedLemma
<1> QED
  BY <1>1, <1>2 DEF Separate

(* The coroutine of a context has not ended. *)
LEMMA OnWakeUpContexts ==
  ASSUME TypeOK, NEW s \in Services, Separate(s), OnWakeUp(s)
  PROVE  coRpcContexts' = coRpcContexts
<1>1. PICK n : n = Head(mailbox[s]).session
  OBVIOUS
<1>2. /\ stack[s] = <<>>
      /\ IF n \in DOMAIN sessionCoRefs[s]
         THEN Resume(s, sessionCoRefs[s][n].co)
         ELSE UNCHANGED <<stack, asleep, raised, coRpcContexts>>
  BY <1>1, OnWakeUpLemma
<1>3. CASE n \in DOMAIN sessionCoRefs[s]
  <2>1. PICK co \in Coroutines : co = sessionCoRefs[s][n].co
    BY <1>3, Typed DEF Suspensions
  <2>2. Running(s) = {}
    BY <1>2 DEF Running
  <2>3. asleep[s][co] = 0 => co \notin DOMAIN coRpcContexts[s]
    BY <2>2 DEF Separate
  <2> QED
    BY <1>2, <1>3, <2>1, <2>3, ResumeLemma
<1>4. CASE n \notin DOMAIN sessionCoRefs[s]
  BY <1>2, <1>4
<1> QED
  BY <1>3, <1>4

(* A coroutine that goes on, or that has ended and cannot. *)
LEMMA WakeUpSeparate ==
  ASSUME TypeOK, IdsAreUnique, NEW s \in Services, Separate(s), OnWakeUp(s)
  PROVE  Separate(s)'
<1>1. PICK n : n = Head(mailbox[s]).session
  OBVIOUS
<1>2. /\ stack[s] = <<>> /\ DOMAIN sessionCoRefs'[s] = DOMAIN sessionCoRefs[s] \ {n}
      /\ \A k \in DOMAIN sessionCoRefs[s] : k # n => sessionCoRefs'[s][k] = sessionCoRefs[s][k]
      /\ IF n \in DOMAIN sessionCoRefs[s]
         THEN Resume(s, sessionCoRefs[s][n].co)
         ELSE UNCHANGED <<stack, asleep, raised, coRpcContexts>>
  BY <1>1, OnWakeUpLemma
<1>3. coRpcContexts' = coRpcContexts /\ Running(s) = {}
  BY <1>2, OnWakeUpContexts DEF Running
<1>4. CASE n \in DOMAIN sessionCoRefs[s]
  <2>1. PICK co \in Coroutines : co = sessionCoRefs[s][n].co
    BY <1>4, Typed DEF Suspensions
  <2>2. /\ raised'[s] = raised[s] \cap Referred(s)'
        /\ \/ /\ stack'[s] = <<co>> /\ asleep'[s][co] = 0
              /\ \A k \in Coroutines : k # co => asleep'[s][k] = asleep[s][k]
           \/ stack' = stack /\ asleep' = asleep /\ asleep[s][co] = 0
    BY <1>2, <1>4, <2>1, ResumeLemma
  <2>3. asleep'[s][co] = 0 /\ \A k \in Coroutines : k # co => asleep'[s][k] = asleep[s][k]
    BY <2>2
  <2>4. Running(s)' \subseteq {co} /\ (co \in Running(s)' => stack'[s] = <<co>>)
    BY <1>2, <2>2 DEF Running
  <2>5. \A i, j \in 1 .. Len(stack'[s]) : stack'[s][i] = stack'[s][j] => i = j
    BY <1>2, <2>2
  <2>6. ASSUME NEW k \in Coroutines, asleep'[s][k] # 0
        PROVE  \E m \in DOMAIN sessionCoRefs'[s] :
                 sessionCoRefs'[s][m].co = k /\ sessionCoRefs'[s][m].id = asleep'[s][k]
    <3>1. k # co /\ asleep'[s][k] = asleep[s][k]
      BY <2>3, <2>6
    <3>2. PICK m \in DOMAIN sessionCoRefs[s] :
            sessionCoRefs[s][m].co = k /\ sessionCoRefs[s][m].id = asleep[s][k]
      BY <2>6, <3>1 DEF Separate
    <3> QED
      BY <1>2, <2>1, <3>1, <3>2
  <2>7. ASSUME NEW m \in DOMAIN sessionCoRefs'[s]
        PROVE  \/ sessionCoRefs'[s][m].co \in raised'[s]
               \/ asleep'[s][sessionCoRefs'[s][m].co] = sessionCoRefs'[s][m].id
    <3>1. PICK k : k = sessionCoRefs[s][m].co
      OBVIOUS
    <3>2. /\ m \in DOMAIN sessionCoRefs[s] /\ m # n /\ sessionCoRefs'[s][m] = sessionCoRefs[s][m]
          /\ k \in Coroutines
      BY <1>2, <2>7, <3>1, Typed DEF Suspensions
    <3>3. k \in Referred(s)'
      BY <2>7, <3>1, <3>2 DEF Referred
    <3>4. CASE k \in raised[s]
      BY <2>2, <3>1, <3>2, <3>3, <3>4
    <3>5. CASE k \notin raised[s]
      <4>1. asleep[s][k] = sessionCoRefs[s][m].id
        BY <3>1, <3>2, <3>5 DEF Separate
      <4>2. sessionCoRefs[s][m].id # sessionCoRefs[s][n].id
        BY <1>4, <3>2 DEF IdsAreUnique
      <4>3. k # co
        BY <1>4, <2>1, <3>5, <4>1, <4>2 DEF Separate
      <4> QED
        BY <2>3, <3>1, <3>2, <4>1, <4>3
    <3> QED
      BY <3>4, <3>5
  <2>8. ASSUME NEW k \in DOMAIN coRpcContexts'[s]
        PROVE  k \in Running(s)' \/ asleep'[s][k] # 0
    <3>1. k \in Coroutines /\ asleep[s][k] # 0
      BY <1>3, Typed DEF Separate
    <3>2. CASE k = co
      <4>1. stack'[s] = <<co>>
        BY <2>2, <3>1, <3>2
      <4> QED
        BY <3>2, <4>1 DEF Running
    <3> QED
      BY <2>3, <3>1, <3>2
  <2> QED
    BY <2>3, <2>4, <2>5, <2>6, <2>7, <2>8 DEF Separate
<1>5. CASE n \notin DOMAIN sessionCoRefs[s]
  <2>1. Running(s)' = Running(s)
    BY <1>2, <1>5 DEF Running
  <2>2. DOMAIN sessionCoRefs'[s] = DOMAIN sessionCoRefs[s]
    BY <1>2, <1>5
  <2> QED
    BY <1>2, <1>3, <1>5, <2>1, <2>2 DEF Separate
<1> QED
  BY <1>4, <1>5

(* The coroutine that leaves the stack was there once. *)
LEMMA PopRunning ==
  ASSUME TypeOK, NEW s \in Services, Separate(s), stack[s] # <<>>, Pop(s)
  PROVE  /\ Running(s)' = Running(s) \ {Top(s)} /\ Top(s) \in Running(s)
         /\ \A i, j \in 1 .. Len(stack'[s]) : stack'[s][i] = stack'[s][j] => i = j
         /\ Len(stack[s]) > 1 => stack'[s] # <<>> /\ stack'[s][1] = stack[s][1] /\ Top(s) # stack[s][1]
<1>1. /\ Len(stack[s]) \in Nat \ {0} /\ Top(s) = stack[s][Len(stack[s])]
      /\ Len(stack'[s]) = Len(stack[s]) - 1
      /\ \A i \in 1 .. Len(stack[s]) - 1 : stack'[s][i] = stack[s][i]
      /\ stack' \in [Services -> Seq(Coroutines)]
  BY PopLemma
<1>2. \A i, j \in 1 .. Len(stack[s]) : stack[s][i] = stack[s][j] => i = j
  BY DEF Separate
<1>3. Running(s)' = {stack'[s][i] : i \in 1 .. Len(stack[s]) - 1}
  BY <1>1 DEF Running
<1>4. Running(s)' = {stack[s][i] : i \in 1 .. Len(stack[s]) - 1}
  BY <1>1, <1>3
<1>5. Running(s)' = Running(s) \ {Top(s)} /\ Top(s) \in Running(s)
  <2>1. PICK n \in Nat : n = Len(stack[s]) - 1
    BY <1>1
  <2>2. Len(stack[s]) = n + 1 /\ Top(s) = stack[s][n + 1]
    BY <1>1, <2>1
  <2>3. 1 .. n + 1 = 1 .. n \cup {n + 1}
    BY <2>1
  <2>4. Running(s) = {stack[s][i] : i \in 1 .. n} \cup {stack[s][n + 1]}
    BY <2>2, <2>3 DEF Running
  <2>5. \A i \in 1 .. n : stack[s][i] # stack[s][n + 1]
    BY <1>2, <2>1, <2>2
  <2>6. Running(s)' = {stack[s][i] : i \in 1 .. n}
    BY <1>4, <2>1
  <2> QED
    BY <2>2, <2>4, <2>5, <2>6
<1>6. \A i, j \in 1 .. Len(stack'[s]) : stack'[s][i] = stack'[s][j] => i = j
  BY <1>1, <1>2
<1>7. ASSUME Len(stack[s]) > 1
      PROVE  stack'[s] # <<>> /\ stack'[s][1] = stack[s][1] /\ Top(s) # stack[s][1]
  <2>1. Len(stack'[s]) > 0
    BY <1>1, <1>7
  <2>2. stack'[s] # <<>>
    BY <2>1
  <2> QED
    BY <1>1, <1>2, <1>7, <2>2
<1> QED
  BY <1>5, <1>6, <1>7

(* A coroutine that is suspended, or of which the yield raises. *)
LEMMA YieldSeparate ==
  ASSUME NoWrap, TypeOK, SessionsAreNew, NEW s \in Services, NEW why \in Reasons,
         Separate(s), MayYield(s), Register(s, why), Yield(s), UNCHANGED coRpcContexts
  PROVE  Separate(s)'
<1>1. PICK co, n, id : co = Top(s) /\ n = nextSession[s] /\ id = NewId
  OBVIOUS
<1>2. stack[s] # <<>>
  BY DEF MayYield
<1>3. co \in Running(s) /\ co \in Coroutines /\ asleep[s][co] = 0
  BY <1>1, <1>2, TopLemma DEF Separate
<1>4. /\ n \notin DOMAIN sessionCoRefs[s]
      /\ DOMAIN sessionCoRefs'[s] = DOMAIN sessionCoRefs[s] \cup {n}
      /\ sessionCoRefs'[s][n].co = co /\ sessionCoRefs'[s][n].id = id /\ id # 0
      /\ \A k \in DOMAIN sessionCoRefs[s] : sessionCoRefs'[s][k] = sessionCoRefs[s][k]
  BY <1>1, NextIsFree, RegisterLemma
<1>5. \A m \in DOMAIN sessionCoRefs[s] : sessionCoRefs[s][m].id # 0 /\ sessionCoRefs[s][m].co \in Coroutines
  BY Typed DEF Suspensions
<1>6. CASE /\ Pop(s) /\ raised'[s] = raised[s] /\ asleep'[s][co] = id
           /\ \A k \in Coroutines : k # co => asleep'[s][k] = asleep[s][k]
  <2>1. /\ Running(s)' = Running(s) \ {co}
        /\ \A i, j \in 1 .. Len(stack'[s]) : stack'[s][i] = stack'[s][j] => i = j
        /\ Len(stack[s]) > 1 => stack'[s] # <<>> /\ stack'[s][1] = stack[s][1] /\ co # stack[s][1]
    BY <1>1, <1>2, <1>6, PopRunning
  <2>2. \A k \in Running(s)' : asleep'[s][k] = 0
    <3>1. Running(s) \subseteq Coroutines
      BY Typed DEF Running
    <3> QED
      BY <1>6, <2>1, <3>1 DEF Separate
  <2>3. ASSUME NEW k \in Coroutines, asleep'[s][k] # 0
        PROVE  \E m \in DOMAIN sessionCoRefs'[s] :
                 sessionCoRefs'[s][m].co = k /\ sessionCoRefs'[s][m].id = asleep'[s][k]
    <3>1. CASE k = co
      BY <1>4, <1>6, <3>1
    <3>2. CASE k # co
      BY <1>4, <1>6, <2>3, <3>2 DEF Separate
    <3> QED
      BY <3>1, <3>2
  <2>4. ASSUME NEW m \in DOMAIN sessionCoRefs'[s]
        PROVE  \/ sessionCoRefs'[s][m].co \in raised'[s]
               \/ asleep'[s][sessionCoRefs'[s][m].co] = sessionCoRefs'[s][m].id
    <3>1. CASE m = n
      BY <1>4, <1>6, <3>1
    <3>2. CASE m \in DOMAIN sessionCoRefs[s]
      <4>1. PICK k : k = sessionCoRefs[s][m].co
        OBVIOUS
      <4>2. k \in raised[s] \/ asleep[s][k] = sessionCoRefs[s][m].id
        BY <3>2, <4>1 DEF Separate
      <4>3. k = co => k \in raised[s]
        BY <1>3, <1>5, <3>2, <4>2
      <4> QED
        BY <1>4, <1>5, <1>6, <3>2, <4>1, <4>2, <4>3
    <3> QED
      BY <1>4, <3>1, <3>2
  <2>5. ASSUME NEW k \in DOMAIN coRpcContexts[s] PROVE k \in Running(s)' \/ asleep'[s][k] # 0
    BY <1>4, <1>6, <2>1, <2>5, Typed DEF Separate
  <2>6. ASSUME NEW k \in DOMAIN coRpcContexts[s], k \in Running(s)'
        PROVE  stack'[s] # <<>> /\ k = stack'[s][1]
    <3>1. k \in Running(s) /\ k # co
      BY <2>1, <2>6
    <3>2. k = stack[s][1]
      BY <2>6, <3>1 DEF Separate
    <3>3. Len(stack[s]) > 1
      BY <1>1, <1>2, <3>1, <3>2, TopLemma
    <3> QED
      BY <2>1, <3>2, <3>3
  <2> QED
    BY <2>1, <2>2, <2>3, <2>4, <2>5, <2>6 DEF Separate
<1>7. CASE stack'[s] = stack[s] /\ asleep'[s] = asleep[s] /\ raised'[s] = raised[s] \cup {co}
  <2>1. Running(s)' = Running(s)
    BY <1>7 DEF Running
  <2>2. \A k \in Coroutines : asleep[s][k] # 0 =>
          \E m \in DOMAIN sessionCoRefs'[s] :
            sessionCoRefs'[s][m].co = k /\ sessionCoRefs'[s][m].id = asleep[s][k]
    BY <1>4 DEF Separate
  <2>3. \A m \in DOMAIN sessionCoRefs'[s] :
          \/ sessionCoRefs'[s][m].co \in raised'[s]
          \/ asleep[s][sessionCoRefs'[s][m].co] = sessionCoRefs'[s][m].id
    BY <1>4, <1>7 DEF Separate
  <2> QED
    BY <1>7, <2>1, <2>2, <2>3 DEF Separate
<1> QED
  BY <1>1, <1>6, <1>7, YieldLemma

(* A coroutine that is forked. *)
LEMMA ForkSeparate ==
  ASSUME TypeOK, NEW s \in Services, Separate(s), NEW co \in Coroutines, Fork(s, co)
  PROVE  Separate(s)'
<1>1. /\ stack[s] \in Seq(Coroutines) /\ Len(stack[s]) \in Nat \ {0}
      /\ Start(s, co, Append(stack[s], co))
      /\ sessionCoRefs' = sessionCoRefs /\ coRpcContexts' = coRpcContexts
  BY Typed DEF Fork, tableVars
<1>2. stack'[s] = Append(stack[s], co) /\ co \in Unused(s) /\ UNCHANGED <<asleep, raised>>
  <2>1. Append(stack[s], co) \in Seq(Coroutines)
    BY <1>1
  <2> QED
    BY <1>1, <2>1, StartLemma
<1>3. /\ Len(stack'[s]) = Len(stack[s]) + 1 /\ stack'[s][Len(stack[s]) + 1] = co
      /\ \A i \in 1 .. Len(stack[s]) : stack'[s][i] = stack[s][i]
      /\ stack'[s] # <<>>
  BY <1>1, <1>2
<1>4. Running(s)' = Running(s) \cup {co}
  <2>1. Running(s)' = {stack'[s][i] : i \in 1 .. Len(stack[s]) + 1}
    BY <1>3 DEF Running
  <2>2. 1 .. Len(stack[s]) + 1 = 1 .. Len(stack[s]) \cup {Len(stack[s]) + 1}
    BY <1>1
  <2>3. Running(s)' = {stack'[s][i] : i \in 1 .. Len(stack[s])} \cup {co}
    BY <1>3, <2>1, <2>2
  <2> QED
    BY <1>3, <2>3 DEF Running
<1>5. asleep[s][co] = 0 /\ co \notin Running(s)
  BY <1>2, UnusedLemma
<1>6. \A i \in 1 .. Len(stack[s]) : stack[s][i] # co
  BY <1>5 DEF Running
<1>7. \A i, j \in 1 .. Len(stack'[s]) : stack'[s][i] = stack'[s][j] => i = j
  BY <1>1, <1>3, <1>6 DEF Separate
<1>8. co \notin DOMAIN coRpcContexts[s]
  BY <1>5 DEF Separate
<1>9. 1 \in 1 .. Len(stack[s])
  BY <1>1
<1> QED
  BY <1>1, <1>2, <1>3, <1>4, <1>5, <1>7, <1>8, <1>9 DEF Separate

(* A coroutine that ends. *)
LEMMA EndSeparate ==
  ASSUME TypeOK, NEW s \in Services, Separate(s), End(s) \/ EndForked(s)
  PROVE  Separate(s)'
<1>1. PICK co : co = Top(s)
  OBVIOUS
<1>2. stack[s] # <<>> /\ Pop(s) /\ sessionCoRefs' = sessionCoRefs /\ UNCHANGED <<asleep, raised>>
  BY DEF End, EndForked, tableVars
<1>3. /\ Running(s)' = Running(s) \ {co} /\ co \in Running(s)
      /\ \A i, j \in 1 .. Len(stack'[s]) : stack'[s][i] = stack'[s][j] => i = j
      /\ Len(stack[s]) > 1 => stack'[s] # <<>> /\ stack'[s][1] = stack[s][1] /\ co # stack[s][1]
  BY <1>1, <1>2, PopRunning
<1>4. asleep[s][co] = 0
  BY <1>3 DEF Separate
<1>5. DOMAIN coRpcContexts'[s] = DOMAIN coRpcContexts[s] \ {co}
  <2>1. CASE End(s)
    BY <1>1, <2>1, EndLemma
  <2>2. CASE EndForked(s)
    <3>1. co \notin DOMAIN coRpcContexts[s]
      BY <1>3, <2>2 DEF Separate, EndForked
    <3> QED
      BY <2>2, <3>1 DEF EndForked, tableVars
  <2> QED
    BY <2>1, <2>2
<1>6. ASSUME NEW k \in DOMAIN coRpcContexts[s], k # co, k \in Running(s)
      PROVE  stack'[s] # <<>> /\ k = stack'[s][1]
  <2>1. k = stack[s][1]
    BY <1>6 DEF Separate
  <2>2. Len(stack[s]) > 1
    BY <1>1, <1>2, <1>6, <2>1, TopLemma
  <2> QED
    BY <1>3, <2>1, <2>2
<1> QED
  BY <1>2, <1>3, <1>4, <1>5, <1>6 DEF Separate

(* A call that fails leaves the table as it was. *)
LEMMA FailLemma ==
  ASSUME TypeOK, NEW s \in Services, NEW target \in Services, CallFails(s, target),
         nextSession[s] \notin DOMAIN sessionCoRefs[s]
  PROVE  sessionCoRefs' = sessionCoRefs
<1>1. PICK n : n = nextSession[s]
  OBVIOUS
<1>2. PICK t \in Tables(Sessions, Suspensions) : t = sessionCoRefs[s]
  BY DEF TypeOK
<1>3. Erase(t, n) = t
  <2>1. n \notin DOMAIN t
    BY <1>1, <1>2
  <2> QED
    BY <2>1, EraseLemma
<1>4. sessionCoRefs' = [sessionCoRefs EXCEPT ![s] = sessionCoRefs[s]]
  BY <1>1, <1>2, <1>3 DEF CallFails
<1> QED
  BY <1>4 DEF TypeOK

LEMMA Separation ==
  NoWrap /\ TypeOK /\ SessionsAreNew /\ IdsAreUnique /\ CoroutinesInOnePlace /\ ContextsAreOutermost /\ [Next]_vars
    => (CoroutinesInOnePlace /\ ContextsAreOutermost)'
<1> SUFFICES ASSUME NoWrap, TypeOK, SessionsAreNew, IdsAreUnique,
                    \A s \in Services : Separate(s), [Next]_vars,
                    NEW r \in Services
             PROVE  Separate(r)'
  <2>1. (\A r \in Services : Separate(r))' => (CoroutinesInOnePlace /\ ContextsAreOutermost)'
    BY DEF CoroutinesInOnePlace, ContextsAreOutermost, Separate
  <2> QED
    BY <2>1, SeparateLemma
<1> USE DEF serviceVars, tableVars, threadVars
<1>1. ASSUME NEW t \in timers, TimerExpires(t) PROVE Separate(r)'
  BY <1>1, SeparateStays DEF TimerExpires
<1>2. ASSUME NEW s \in Services, Send(s) PROVE Separate(r)'
  BY <1>2, SeparateStays DEF Send
<1>3. ASSUME NEW s \in Services, OnWakeUp(s) PROVE Separate(r)'
  <2>1. CASE r = s
    BY <1>3, <2>1, WakeUpSeparate
  <2>2. CASE r # s
    <3>1. PICK n : n = Head(mailbox[s]).session
      OBVIOUS
    <3>2. /\ sessionCoRefs'[r] = sessionCoRefs[r]
          /\ IF n \in DOMAIN sessionCoRefs[s]
             THEN Resume(s, sessionCoRefs[s][n].co)
             ELSE UNCHANGED <<stack, asleep, raised, coRpcContexts>>
      BY <1>3, <2>2, <3>1, OnWakeUpLemma
    <3>3. n \in DOMAIN sessionCoRefs[s] => sessionCoRefs[s][n].co \in Coroutines
      BY Typed DEF Suspensions
    <3>4. /\ stack'[r] = stack[r] /\ asleep'[r] = asleep[r] /\ raised'[r] = raised[r]
          /\ coRpcContexts'[r] = coRpcContexts[r]
      BY <2>2, <3>2, <3>3, ResumeLemma
    <3> QED
      BY <3>2, <3>4, SeparateStays
  <2> QED
    BY <2>1, <2>2
<1>4. ASSUME NEW s \in Services, NEW co \in Coroutines, OnSend(s, co) \/ OnCall(s, co) PROVE Separate(r)'
  <2>0. <<co>> \in Seq(Coroutines) /\ Start(s, co, <<co>>)
    BY <1>4 DEF OnSend, OnCall
  <2>1. /\ stack'[s] = <<co>> /\ (r # s => stack'[r] = stack[r]) /\ UNCHANGED <<asleep, raised>>
        /\ sessionCoRefs' = sessionCoRefs /\ co \in Unused(s) /\ stack[s] = <<>>
    BY <1>4, <2>0, StartLemma DEF OnSend, OnCall, Handles
  <2>2. /\ DOMAIN coRpcContexts'[s] \subseteq DOMAIN coRpcContexts[s] \cup {co}
        /\ r # s => coRpcContexts'[r] = coRpcContexts[r]
    <3>1. CASE OnSend(s, co)
      BY <3>1 DEF OnSend
    <3>2. CASE OnCall(s, co)
      BY <3>2, OnCallLemma
    <3> QED
      BY <1>4, <3>1, <3>2
  <2>3. CASE r = s
    BY <2>1, <2>2, <2>3, StartSeparate
  <2>4. CASE r # s
    BY <2>1, <2>2, <2>4, SeparateStays
  <2> QED
    BY <2>3, <2>4
<1>5. ASSUME NEW s \in Services, NEW target \in Services, CallFails(s, target) PROVE Separate(r)'
  <2>1. MayYield(s) /\ UNCHANGED <<stack, asleep, raised, coRpcContexts>>
    BY <1>5 DEF CallFails
  <2>2. sessionCoRefs'[r] = sessionCoRefs[r]
    BY <1>5, <2>1, NextIsFree, FailLemma
  <2> QED
    BY <2>1, <2>2, SeparateStays
<1>6. ASSUME NEW s \in Services, NEW why \in Reasons, MayYield(s), Register(s, why), Yield(s),
             UNCHANGED coRpcContexts
      PROVE  Separate(r)'
  <2>1. CASE r = s
    BY <1>6, <2>1, YieldSeparate
  <2>2. CASE r # s
    <3>1. stack'[r] = stack[r] /\ asleep'[r] = asleep[r] /\ raised'[r] = raised[r]
      BY <1>6, <2>2, YieldLemma
    <3>2. sessionCoRefs'[r] = sessionCoRefs[r]
      BY <1>6, <2>2, RegisterLemma
    <3> QED
      BY <1>6, <3>1, <3>2, SeparateStays
  <2> QED
    BY <2>1, <2>2
<1>7. ASSUME NEW s \in Services, NEW target \in Services, Call(s, target) PROVE Separate(r)'
  BY <1>6, <1>7 DEF Call, Reasons
<1>8. ASSUME NEW s \in Services, NEW ms \in Naps, Sleep(s, ms) PROVE Separate(r)'
  BY <1>6, <1>8 DEF Sleep, Why, Reasons
<1>9. ASSUME NEW s \in Services, Ret(s) PROVE Separate(r)'
  <2>1. UNCHANGED <<stack, asleep, raised, sessionCoRefs>>
    BY <1>9 DEF Ret
  <2>2. DOMAIN coRpcContexts'[r] = DOMAIN coRpcContexts[r]
    BY <1>9, RetLemma
  <2> QED
    BY <2>1, <2>2, SeparateStays
<1>10. ASSUME NEW s \in Services, NEW co \in Coroutines, Fork(s, co) PROVE Separate(r)'
  <2>1. CASE r = s
    BY <1>10, <2>1, ForkSeparate
  <2>2. CASE r # s
    <3>1. stack'[r] = stack[r] /\ UNCHANGED <<asleep, raised>>
      BY <1>10, <2>2 DEF Fork, Start, TypeOK
    <3> QED
      BY <1>10, <3>1, SeparateStays DEF Fork
  <2> QED
    BY <2>1, <2>2
<1>11. ASSUME NEW s \in Services, KillService(s) PROVE Separate(r)'
  BY <1>11, SeparateStays DEF KillService
<1>12. ASSUME NEW s \in Services, End(s) \/ EndForked(s) PROVE Separate(r)'
  <2>1. CASE r = s
    BY <1>12, <2>1, EndSeparate
  <2>2. CASE r # s
    <3>1. stack[s] # <<>> /\ Pop(s) /\ sessionCoRefs' = sessionCoRefs /\ UNCHANGED <<asleep, raised>>
      BY <1>12 DEF End, EndForked
    <3>2. stack'[r] = stack[r]
      BY <2>2, <3>1, PopLemma
    <3>3. coRpcContexts'[r] = coRpcContexts[r]
      BY <1>12, <2>2, EndLemma DEF EndForked
    <3> QED
      BY <3>1, <3>2, <3>3, SeparateStays
  <2> QED
    BY <2>1, <2>2
<1>13. CASE UNCHANGED vars
  BY <1>13, SeparateStays DEF vars
<1> QED
  BY <1>1, <1>2, <1>3, <1>4, <1>5, <1>7, <1>8, <1>9, <1>10, <1>11, <1>12, <1>13 DEF Next, Handle, UseApi

-----------------------------------------------------------------------------
(* Sessions and serial numbers are new. *)

LEMMA TableShrinks ==
  ASSUME SessionsAreNew, IdsAreUnique, UNCHANGED <<nextSession, serial>>,
         \A r \in Services :
           /\ DOMAIN sessionCoRefs'[r] \subseteq DOMAIN sessionCoRefs[r]
           /\ \A n \in DOMAIN sessionCoRefs'[r] : sessionCoRefs'[r][n] = sessionCoRefs[r][n]
  PROVE  (SessionsAreNew /\ IdsAreUnique)'
<1>1. SessionsAreNew'
  BY DEF SessionsAreNew
<1>2. IdsAreUnique'
  <2>1. SUFFICES ASSUME NEW s \in Services, NEW r \in Services, NEW m \in DOMAIN sessionCoRefs'[s],
                        NEW n \in DOMAIN sessionCoRefs'[r]
                 PROVE  /\ sessionCoRefs'[s][m].id <= serial'
                        /\ sessionCoRefs'[s][m].id = sessionCoRefs'[r][n].id => s = r /\ m = n
    BY DEF IdsAreUnique
  <2> QED
    BY DEF IdsAreUnique
<1> QED
  BY <1>1, <1>2

(* The counters of a service that suspends a coroutine, or tries to. *)
LEMMA CountersGrow ==
  ASSUME NoWrap, TypeOK, SessionsAreNew, NEW s \in Services, MayYield(s), NewSession(s), serial' = NewId
  PROVE  /\ serial' = serial + 1 /\ serial + 1 <= MaxSession
         /\ \A r \in Services : r # s => nextSession'[r] = nextSession[r]
         /\ serial' < MaxSession => nextSession'[s] = nextSession[s] + 1
<1>1. serial \in Nat /\ serial < MaxSession /\ serial' = serial + 1
  BY Typed DEF MayYield, NoWrap, NewId
<1>2. /\ nextSession \in [Services -> Sessions] /\ nextSession[s] <= serial + 1
      /\ nextSession' = [nextSession EXCEPT ![s] = IF nextSession[s] = MaxSession THEN 1 ELSE nextSession[s] + 1]
  BY <1>1 DEF TypeOK, SessionsAreNew, NewSession
<1>3. /\ \A r \in Services : r # s => nextSession'[r] = nextSession[r]
      /\ nextSession[s] # MaxSession => nextSession'[s] = nextSession[s] + 1
  BY <1>2
<1>4. nextSession[s] \in Nat
  BY Typed DEF Sessions
<1> QED
  BY <1>1, <1>2, <1>3, <1>4

LEMMA TableGrows ==
  ASSUME NoWrap, TypeOK, SessionsAreNew, IdsAreUnique, NEW s \in Services, MayYield(s), NewSession(s),
         serial' = NewId, NEW why \in Reasons, Register(s, why)
  PROVE  (SessionsAreNew /\ IdsAreUnique)'
<1>1. PICK n : n = nextSession[s]
  OBVIOUS
<1>2. /\ n \notin DOMAIN sessionCoRefs[s] /\ n <= serial + 1 /\ n \in Nat
      /\ \A r \in Services : r # s => sessionCoRefs'[r] = sessionCoRefs[r]
      /\ DOMAIN sessionCoRefs'[s] = DOMAIN sessionCoRefs[s] \cup {n}
      /\ sessionCoRefs'[s][n].id = serial + 1
      /\ \A k \in DOMAIN sessionCoRefs[s] : sessionCoRefs'[s][k] = sessionCoRefs[s][k]
  BY <1>1, NextIsFree, RegisterLemma, Typed DEF Sessions
<1>3. /\ serial' = serial + 1 /\ serial + 1 <= MaxSession /\ serial \in Nat
      /\ \A r \in Services : r # s => nextSession'[r] = nextSession[r]
      /\ serial' < MaxSession => nextSession'[s] = n + 1
  BY <1>1, CountersGrow, Typed
<1>4. SessionsAreNew'
  <2>1. SUFFICES ASSUME serial' < MaxSession, NEW r \in Services
                 PROVE  /\ nextSession'[r] <= serial' + 1
                        /\ \A k \in DOMAIN sessionCoRefs'[r] : k < nextSession'[r]
    BY DEF SessionsAreNew
  <2>2. /\ \A k \in DOMAIN sessionCoRefs[r] : k < nextSession[r] /\ k \in Nat
        /\ nextSession[r] \in Nat /\ nextSession[r] <= serial + 1
    BY <1>3, Typed DEF SessionsAreNew, Sessions
  <2>3. CASE r = s
    BY <1>1, <1>2, <1>3, <2>1, <2>2, <2>3
  <2>4. CASE r # s
    BY <1>2, <1>3, <2>1, <2>2, <2>4
  <2> QED
    BY <2>3, <2>4
<1>5. IdsAreUnique'
  <2>1. \A r \in Services : \A k \in DOMAIN sessionCoRefs[r] :
          sessionCoRefs[r][k].id \in Nat /\ sessionCoRefs[r][k].id <= serial
    BY Typed DEF IdsAreUnique, Suspensions
  <2>2. SUFFICES ASSUME NEW q \in Services, NEW r \in Services, NEW m \in DOMAIN sessionCoRefs'[q],
                        NEW k \in DOMAIN sessionCoRefs'[r]
                 PROVE  /\ sessionCoRefs'[q][m].id <= serial'
                        /\ sessionCoRefs'[q][m].id = sessionCoRefs'[r][k].id => q = r /\ m = k
    BY DEF IdsAreUnique
  <2>3. \/ q = s /\ m = n /\ sessionCoRefs'[q][m].id = serial + 1
        \/ m \in DOMAIN sessionCoRefs[q] /\ sessionCoRefs'[q][m] = sessionCoRefs[q][m]
    BY <1>2
  <2>4. \/ r = s /\ k = n /\ sessionCoRefs'[r][k].id = serial + 1
        \/ k \in DOMAIN sessionCoRefs[r] /\ sessionCoRefs'[r][k] = sessionCoRefs[r][k]
    BY <1>2
  <2>5. sessionCoRefs'[q][m].id <= serial'
    BY <1>3, <2>1, <2>3
  <2>6. sessionCoRefs'[q][m].id = sessionCoRefs'[r][k].id => q = r /\ m = k
    BY <1>3, <2>1, <2>3, <2>4 DEF IdsAreUnique
  <2> QED
    BY <2>5, <2>6
<1> QED
  BY <1>4, <1>5

LEMMA Numbering ==
  NoWrap /\ TypeOK /\ SessionsAreNew /\ IdsAreUnique /\ [Next]_vars => (SessionsAreNew /\ IdsAreUnique)'
<1> SUFFICES ASSUME NoWrap, TypeOK, SessionsAreNew, IdsAreUnique, [Next]_vars
             PROVE  (SessionsAreNew /\ IdsAreUnique)'
  OBVIOUS
<1> USE DEF serviceVars, tableVars, threadVars
<1>1. ASSUME UNCHANGED <<nextSession, serial, sessionCoRefs>> PROVE (SessionsAreNew /\ IdsAreUnique)'
  BY <1>1, TableShrinks
<1>2. ASSUME NEW s \in Services, OnWakeUp(s) PROVE (SessionsAreNew /\ IdsAreUnique)'
  <2>1. UNCHANGED <<nextSession, serial>>
    BY <1>2 DEF OnWakeUp
  <2>2. \A r \in Services :
           /\ DOMAIN sessionCoRefs'[r] \subseteq DOMAIN sessionCoRefs[r]
           /\ \A n \in DOMAIN sessionCoRefs'[r] : sessionCoRefs'[r][n] = sessionCoRefs[r][n]
    BY <1>2, OnWakeUpLemma
  <2> QED
    BY <2>1, <2>2, TableShrinks
<1>3. ASSUME NEW s \in Services, NEW target \in Services, CallFails(s, target)
      PROVE  (SessionsAreNew /\ IdsAreUnique)'
  <2>1. MayYield(s) /\ NewSession(s) /\ serial' = NewId
    BY <1>3 DEF CallFails
  <2>2. sessionCoRefs' = sessionCoRefs
    BY <1>3, <2>1, NextIsFree, FailLemma
  <2>3. /\ serial' = serial + 1 /\ serial + 1 <= MaxSession /\ serial \in Nat
        /\ \A r \in Services : r # s => nextSession'[r] = nextSession[r]
        /\ serial' < MaxSession => nextSession'[s] = nextSession[s] + 1
    BY <2>1, CountersGrow, Typed
  <2>4. \A r \in Services : /\ nextSession[r] \in Nat /\ nextSession[r] <= serial + 1
                            /\ \A k \in DOMAIN sessionCoRefs[r] : k \in Nat /\ k < nextSession[r]
    BY <2>3, Typed DEF SessionsAreNew, Sessions
  <2>5. SessionsAreNew'
    BY <2>2, <2>3, <2>4 DEF SessionsAreNew
  <2>6. IdsAreUnique'
    <3>1. \A r \in Services : \A k \in DOMAIN sessionCoRefs[r] : sessionCoRefs[r][k].id \in Nat
      BY Typed DEF Suspensions
    <3> QED
      BY <2>2, <2>3, <3>1 DEF IdsAreUnique
  <2> QED
    BY <2>5, <2>6
<1>4. ASSUME NEW s \in Services, NEW target \in Services, Call(s, target)
      PROVE  (SessionsAreNew /\ IdsAreUnique)'
  BY <1>4, TableGrows DEF Call, Reasons
<1>5. ASSUME NEW s \in Services, NEW ms \in Naps, Sleep(s, ms) PROVE (SessionsAreNew /\ IdsAreUnique)'
  BY <1>5, TableGrows DEF Sleep, Why, Reasons
<1>6. CASE \E t \in timers : TimerExpires(t)
  BY <1>1, <1>6 DEF TimerExpires
<1>7. ASSUME NEW s \in Services,
             \/ Send(s) \/ Ret(s) \/ KillService(s) \/ End(s) \/ EndForked(s)
             \/ \E co \in Coroutines : OnSend(s, co) \/ OnCall(s, co) \/ Fork(s, co)
      PROVE  (SessionsAreNew /\ IdsAreUnique)'
  BY <1>1, <1>7 DEF Send, Ret, KillService, End, EndForked, OnSend, OnCall, Fork
<1>8. CASE UNCHANGED vars
  BY <1>1, <1>8 DEF vars
<1> QED
  BY <1>2, <1>3, <1>4, <1>5, <1>6, <1>7, <1>8 DEF Next, Handle, UseApi

-----------------------------------------------------------------------------
(* Wake-ups. *)

(* The serial number of a message about a suspension. *)
LEMMA MailIds ==
  ASSUME TypeOK, NEW s \in Services, NEW i, NEW id, Mail(s, i, id)
  PROVE  id \in 1 .. MaxYields /\ i \in 1 .. Len(mailbox[s])
<1>1. /\ i \in 1 .. Len(mailbox[s]) /\ mailbox[s][i].kind # "SEND" /\ mailbox[s][i].id = id
      /\ mailbox[s][i] \in Messages
  BY Typed DEF Mail
<1> QED
  BY <1>1 DEF Messages

LEMMA HandlerIds ==
  ASSUME TypeOK, NEW s \in Services, NEW co, NEW id, Handler(s, co, id)
  PROVE  id \in 1 .. MaxYields /\ co \in DOMAIN coRpcContexts[s]
BY Typed DEF Handler, Contexts

(* OneWakeUp without the bounds of its quantifiers. *)
Once ==
  /\ \A t, u \in timers : t.id = u.id => t = u
  /\ \A s, r \in Services : \A i, j, id : Mail(s, i, id) /\ Mail(r, j, id) => s = r /\ i = j
  /\ \A s, r \in Services : \A co, k, id : Handler(s, co, id) /\ Handler(r, k, id) => s = r /\ co = k
  /\ \A t \in timers : t.id \notin dropped
  /\ \A s \in Services : \A i, id : Mail(s, i, id) =>
       /\ id \notin dropped /\ \A t \in timers : t.id # id
       /\ \A r \in Services : \A co : ~Handler(r, co, id)
  /\ \A s \in Services : \A co, id : Handler(s, co, id) =>
       id \notin dropped /\ \A t \in timers : t.id # id

LEMMA OnceLemma ==
  TypeOK => (OneWakeUp <=> Once)
<1> SUFFICES ASSUME TypeOK PROVE OneWakeUp <=> Once
  OBVIOUS
<1>1. \A s \in Services : \A i, id : Mail(s, i, id) => id \in 1 .. MaxYields /\ i \in 1 .. Len(mailbox[s])
  BY MailIds
<1>2. \A s \in Services : \A co, id : Handler(s, co, id) =>
        id \in 1 .. MaxYields /\ co \in DOMAIN coRpcContexts[s]
  BY HandlerIds
<1>3. ASSUME OneWakeUp PROVE Once
  <2>1. \A s, r \in Services : \A i, j, id : Mail(s, i, id) /\ Mail(r, j, id) => s = r /\ i = j
    BY <1>1, <1>3 DEF OneWakeUp
  <2>2. \A s, r \in Services : \A co, k, id : Handler(s, co, id) /\ Handler(r, k, id) => s = r /\ co = k
    BY <1>2, <1>3 DEF OneWakeUp
  <2>3. \A s \in Services : \A i, id : Mail(s, i, id) =>
          /\ id \notin dropped /\ \A t \in timers : t.id # id
          /\ \A r \in Services : \A co : ~Handler(r, co, id)
    BY <1>1, <1>2, <1>3 DEF OneWakeUp
  <2>4. \A s \in Services : \A co, id : Handler(s, co, id) =>
          id \notin dropped /\ \A t \in timers : t.id # id
    BY <1>2, <1>3 DEF OneWakeUp
  <2> QED
    BY <1>3, <2>1, <2>2, <2>3, <2>4 DEF OneWakeUp, Once
<1>4. Once => OneWakeUp
  BY DEF Once, OneWakeUp
<1> QED
  BY <1>3, <1>4

(* Message i of s, if it is one about a suspension, leads to it. *)
Leads(s, i) ==
  \A id : Mail(s, i, id) =>
    Sleeper(IF mailbox[s][i].kind = "CALL" THEN mailbox[s][i].source ELSE s, mailbox[s][i].session, id)

(* Handler co of s, if it has not answered, leads to its caller. *)
HandlerLeads(s, co) ==
  \A id : Handler(s, co, id) => Sleeper(coRpcContexts[s][co].source, coRpcContexts[s][co].session, id)

LEMMA LeadsLemma ==
  TypeOK => (WakeUpsLead <=> /\ \A t \in timers : Sleeper(t.service, t.session, t.id)
                             /\ \A s \in Services : \A i : Leads(s, i)
                             /\ \A s \in Services : \A co : HandlerLeads(s, co)
                             /\ \A id \in dropped : id <= serial)
<1>1. (\A s \in Services : \A i : Leads(s, i)) <=>
      \A s \in Services : \A i \in 1 .. Len(mailbox[s]) :
        mailbox[s][i].kind # "SEND" =>
          Sleeper(IF mailbox[s][i].kind = "CALL" THEN mailbox[s][i].source ELSE s,
                  mailbox[s][i].session, mailbox[s][i].id)
  BY DEF Leads, Mail
<1>2. (\A s \in Services : \A co : HandlerLeads(s, co)) <=>
      \A s \in Services : \A co \in DOMAIN coRpcContexts[s] :
        ~coRpcContexts[s][co].reted =>
          Sleeper(coRpcContexts[s][co].source, coRpcContexts[s][co].session, coRpcContexts[s][co].id)
  BY DEF HandlerLeads, Handler
<1> QED
  BY <1>1, <1>2 DEF WakeUpsLead

(* A message that is posted. *)
LEMMA PostMail ==
  ASSUME TypeOK, NEW s \in Services, NEW m \in Messages, Post(s, m)
  PROVE  /\ \A r \in Services : \A i, id : Mail(r, i, id) =>
              Mail(r, i, id)' /\ mailbox'[r][i] = mailbox[r][i]
         /\ \A r \in Services : \A i, id : Mail(r, i, id)' =>
              \/ Mail(r, i, id) /\ mailbox'[r][i] = mailbox[r][i]
              \/ /\ r = s /\ i = Len(mailbox[s]) + 1 /\ m.kind # "SEND" /\ id = m.id
                 /\ mailbox'[r][i] = m
<1>1. /\ \A r \in Services : r # s => mailbox'[r] = mailbox[r]
      /\ Len(mailbox'[s]) = Len(mailbox[s]) + 1
      /\ mailbox'[s][Len(mailbox[s]) + 1] = m
      /\ \A i \in 1 .. Len(mailbox[s]) : mailbox'[s][i] = mailbox[s][i]
  BY PostLemma
<1>2. Len(mailbox[s]) \in Nat
  BY Typed
<1>3. 1 .. Len(mailbox'[s]) = 1 .. Len(mailbox[s]) \cup {Len(mailbox[s]) + 1}
  BY <1>1, <1>2
<1>5. ASSUME NEW r \in Services, NEW i, NEW id, Mail(r, i, id)
      PROVE  Mail(r, i, id)' /\ mailbox'[r][i] = mailbox[r][i]
  <2>1. CASE r = s
    BY <1>1, <1>3, <1>5, <2>1 DEF Mail
  <2>2. CASE r # s
    BY <1>1, <1>5, <2>2 DEF Mail
  <2> QED
    BY <2>1, <2>2
<1>6. ASSUME NEW r \in Services, NEW i, NEW id, Mail(r, i, id)'
      PROVE  \/ Mail(r, i, id) /\ mailbox'[r][i] = mailbox[r][i]
             \/ /\ r = s /\ i = Len(mailbox[s]) + 1 /\ m.kind # "SEND" /\ id = m.id
                /\ mailbox'[r][i] = m
  <2>1. CASE r = s
    BY <1>1, <1>3, <1>6, <2>1 DEF Mail
  <2>2. CASE r # s
    BY <1>1, <1>6, <2>2 DEF Mail
  <2> QED
    BY <2>1, <2>2
<1> QED
  BY <1>5, <1>6

(* It has a place of its own. *)
LEMMA PostedMail ==
  ASSUME TypeOK, NEW s \in Services, NEW m \in Messages, Post(s, m), m.kind # "SEND"
  PROVE  \E i : i = Len(mailbox[s]) + 1 /\ Mail(s, i, m.id)' /\ \A id : ~Mail(s, i, id)
<1>1. PICK i : i = Len(mailbox[s]) + 1
  OBVIOUS
<1>2. Len(mailbox'[s]) = i /\ mailbox'[s][i] = m /\ Len(mailbox[s]) \in Nat
  BY <1>1, PostLemma, Typed
<1>3. Mail(s, i, m.id)'
  BY <1>1, <1>2 DEF Mail
<1>4. \A id : ~Mail(s, i, id)
  BY <1>1, <1>2 DEF Mail
<1> QED
  BY <1>1, <1>3, <1>4

(* A message that is taken: the others move up. *)
LEMMA TakeMail ==
  ASSUME TypeOK, NEW s \in Services, mailbox[s] # <<>>, TakeMessage(s)
  PROVE  /\ \A r \in Services : r # s => mailbox'[r] = mailbox[r] /\ \A i, id : Mail(r, i, id)' <=> Mail(r, i, id)
         /\ \A i, id : Mail(s, i, id)' =>
              Mail(s, i + 1, id) /\ i \in Nat /\ i >= 1 /\ mailbox'[s][i] = mailbox[s][i + 1]
         /\ \A i, id : Mail(s, i, id) => i = 1 \/ Mail(s, i - 1, id)'
<1>1. /\ \A r \in Services : r # s => mailbox'[r] = mailbox[r]
      /\ Len(mailbox[s]) \in Nat \ {0}
      /\ Len(mailbox'[s]) = Len(mailbox[s]) - 1
      /\ \A i \in 1 .. Len(mailbox[s]) - 1 : mailbox'[s][i] = mailbox[s][i + 1]
  BY TakeLemma
<1>2. \A r \in Services : r # s => \A i, id : Mail(r, i, id)' <=> Mail(r, i, id)
  BY <1>1 DEF Mail
<1>3. ASSUME NEW i, NEW id, Mail(s, i, id)'
      PROVE  Mail(s, i + 1, id) /\ i \in Nat /\ i >= 1 /\ mailbox'[s][i] = mailbox[s][i + 1]
  <2>1. i \in 1 .. Len(mailbox[s]) - 1 /\ i + 1 \in 1 .. Len(mailbox[s])
    BY <1>1, <1>3 DEF Mail
  <2>2. mailbox'[s][i] = mailbox[s][i + 1]
    BY <1>1, <2>1
  <2> QED
    BY <1>3, <2>1, <2>2 DEF Mail
<1>4. ASSUME NEW i, NEW id, Mail(s, i, id), i # 1
      PROVE  Mail(s, i - 1, id)'
  <2>1. i \in Nat /\ i - 1 \in 1 .. Len(mailbox[s]) - 1 /\ (i - 1) + 1 = i
    BY <1>1, <1>4 DEF Mail
  <2>2. mailbox'[s][i - 1] = mailbox[s][i]
    BY <1>1, <2>1
  <2> QED
    BY <1>1, <1>4, <2>1, <2>2 DEF Mail
<1> QED
  BY <1>1, <1>2, <1>3, <1>4

Lead ==
  /\ \A t \in timers : Sleeper(t.service, t.session, t.id)
  /\ \A s \in Services : \A i : Leads(s, i)
  /\ \A s \in Services : \A co : HandlerLeads(s, co)
  /\ \A id \in dropped : id <= serial

(* Something leads to the suspension with that number, or its call was dropped. *)
Woken(id) ==
  \/ \E t \in timers : t.id = id
  \/ \E r \in Services : \E i : Mail(r, i, id)
  \/ \E r \in Services : \E co : Handler(r, co, id)
  \/ id \in dropped

Awaited ==
  \A s \in Services : \A n \in DOMAIN sessionCoRefs[s] :
    IF sessionCoRefs[s][n].why = "long sleep" THEN ~Woken(sessionCoRefs[s][n].id)
    ELSE s \notin exiting => Woken(sessionCoRefs[s][n].id)

Waking == Lead /\ Once /\ Awaited

LEMMA WakingLemma ==
  TypeOK => (WakeUpsLead /\ OneWakeUp /\ SleepersAreAwaited <=> Waking)
<1>1. TypeOK => (WakeUpsLead <=> Lead)
  BY LeadsLemma DEF Lead
<1>2. SleepersAreAwaited <=> Awaited
  <2>1. \A id : IsAwaited(id) <=> Woken(id)
    BY DEF IsAwaited, Woken, Mail, Handler
  <2> QED
    BY <2>1 DEF SleepersAreAwaited, Awaited
<1> QED
  BY <1>1, <1>2, OnceLemma DEF Waking

(* Steps after which the same is awaited. *)
LEMMA AwaitedStays ==
  ASSUME Awaited, UNCHANGED sessionCoRefs, exiting \subseteq exiting',
         \A id : Woken(id)' <=> Woken(id)
  PROVE  Awaited'
<1>1. SUFFICES ASSUME NEW s \in Services, NEW n \in DOMAIN sessionCoRefs[s]
               PROVE  \E id : /\ id = sessionCoRefs[s][n].id
                              /\ IF sessionCoRefs[s][n].why = "long sleep" THEN ~Woken(id)'
                                 ELSE s \notin exiting' => Woken(id)'
  BY DEF Awaited
<1>2. PICK id : id = sessionCoRefs[s][n].id
  OBVIOUS
<1> QED
  BY <1>2 DEF Awaited

(* Where a message leads is a service. *)
Target(s, m) == IF m.kind = "CALL" THEN m.source ELSE s

LEMMA TargetLemma ==
  ASSUME NEW s \in Services, NEW m \in Messages
  PROVE  Target(s, m) \in Services
BY DEF Target, Messages

LEMMA MailLeads ==
  ASSUME TypeOK, NEW s \in Services, NEW i, NEW id, Mail(s, i, id), Leads(s, i)
  PROVE  Target(s, mailbox[s][i]) \in Services /\ Sleeper(Target(s, mailbox[s][i]), mailbox[s][i].session, id)
<1>1. mailbox[s][i] \in Messages
  BY MailIds, Typed
<1> QED
  BY <1>1, TargetLemma DEF Leads, Target

(* Steps that take nothing from anywhere. *)
LEMMA QuietLemma ==
  ASSUME Waking, UNCHANGED <<mailbox, sessionCoRefs, coRpcContexts, timers, dropped>>,
         exiting \subseteq exiting', serial \in Nat, serial' \in Nat, serial <= serial',
         dropped \subseteq Nat
  PROVE  Waking'
<1>1. /\ \A s, i, id : Mail(s, i, id)' <=> Mail(s, i, id)
      /\ \A s, co, id : Handler(s, co, id)' <=> Handler(s, co, id)
      /\ \A s, n, id : Sleeper(s, n, id)' <=> Sleeper(s, n, id)
  BY DEF Mail, Handler, Sleeper
<1>2. Lead'
  <2>1. \A s \in Services : \A i : Leads(s, i)'
    BY <1>1 DEF Waking, Lead, Leads
  <2>2. \A s \in Services : \A co : HandlerLeads(s, co)'
    BY <1>1 DEF Waking, Lead, HandlerLeads
  <2>3. \A t \in timers' : Sleeper(t.service, t.session, t.id)'
    BY <1>1 DEF Waking, Lead
  <2>4. \A id \in dropped' : id <= serial'
    BY DEF Waking, Lead
  <2> QED
    BY <2>1, <2>2, <2>3, <2>4 DEF Lead
<1>3. Once'
  BY <1>1 DEF Waking, Once
<1>4. Awaited'
  <2>1. \A id : Woken(id)' <=> Woken(id)
    BY <1>1 DEF Woken
  <2> QED
    BY <2>1, AwaitedStays DEF Waking
<1> QED
  BY <1>2, <1>3, <1>4 DEF Waking

(* A new message leads to its sleeper, and so do those that were there. *)
LEMMA PostLeads ==
  ASSUME TypeOK, NEW s \in Services, NEW m \in Messages, Post(s, m),
         \A r \in Services : \A i : Leads(r, i),
         \A r \in Services : \A n, id : Sleeper(r, n, id) => Sleeper(r, n, id)',
         m.kind # "SEND" => Sleeper(Target(s, m), m.session, m.id)'
  PROVE  \A r \in Services : \A i : Leads(r, i)'
<1>1. SUFFICES ASSUME NEW r \in Services, NEW i, NEW id, Mail(r, i, id)'
               PROVE  \E msg : msg = mailbox'[r][i] /\ Sleeper(Target(r, msg), msg.session, id)'
  BY DEF Leads, Target
<1>2. CASE Mail(r, i, id) /\ mailbox'[r][i] = mailbox[r][i]
  <2>1. PICK msg : msg = mailbox[r][i]
    OBVIOUS
  <2>2. Target(r, msg) \in Services /\ Sleeper(Target(r, msg), msg.session, id)
    BY <1>2, <2>1, MailLeads
  <2>3. Sleeper(Target(r, msg), msg.session, id)'
    BY <2>2
  <2> QED
    BY <1>2, <2>1, <2>3
<1>3. CASE r = s /\ m.kind # "SEND" /\ id = m.id /\ mailbox'[r][i] = m
  BY <1>3
<1> QED
  BY <1>1, <1>2, <1>3, PostMail

(* The messages that stay lead to their sleepers, if only that of the      *)
(* message that was taken is gone.                                         *)
LEMMA TakeLeads ==
  ASSUME TypeOK, Once, NEW s \in Services, mailbox[s] # <<>>, TakeMessage(s),
         \A r \in Services : \A i : Leads(r, i),
         \A r \in Services : \A n, id : ~Mail(s, 1, id) /\ Sleeper(r, n, id) => Sleeper(r, n, id)'
  PROVE  \A r \in Services : \A i : Leads(r, i)'
<1>1. SUFFICES ASSUME NEW r \in Services, NEW i, NEW id, Mail(r, i, id)'
               PROVE  \E msg : msg = mailbox'[r][i] /\ Sleeper(Target(r, msg), msg.session, id)'
  BY DEF Leads, Target
<1>2. PICK j : Mail(r, j, id) /\ mailbox'[r][i] = mailbox[r][j] /\ (r = s => j # 1)
  <2>1. CASE r = s
    BY <1>1, <2>1, TakeMail
  <2>2. CASE r # s
    BY <1>1, <2>2, TakeMail
  <2> QED
    BY <2>1, <2>2
<1>3. PICK msg : msg = mailbox[r][j]
  OBVIOUS
<1>4. Target(r, msg) \in Services /\ Sleeper(Target(r, msg), msg.session, id)
  BY <1>2, <1>3, MailLeads
<1>5. ~Mail(s, 1, id)
  BY <1>2 DEF Once
<1>6. Sleeper(Target(r, msg), msg.session, id)'
  BY <1>4, <1>5
<1> QED
  BY <1>2, <1>3, <1>6

(* A plain message is no wake-up. *)
LEMMA SendWakes ==
  ASSUME TypeOK, Waking, NEW s \in Services, Send(s)
  PROVE  Waking'
<1> DEFINE m == Message("SEND", NoService, 0, 0)
<1>1. /\ Post(s, m) /\ m \in Messages /\ m.kind = "SEND"
      /\ UNCHANGED <<exiting, serial, sessionCoRefs, coRpcContexts, timers, dropped>>
  BY MessageLemma DEF Send, tableVars
<1> HIDE DEF m
<1>2. /\ \A r \in Services : \A i, id : Mail(r, i, id)' <=> Mail(r, i, id)
      /\ \A r, co, id : Handler(r, co, id)' <=> Handler(r, co, id)
      /\ \A r, n, id : Sleeper(r, n, id)' <=> Sleeper(r, n, id)
  <2>1. \A r \in Services : \A i, id : Mail(r, i, id)' <=> Mail(r, i, id)
    BY <1>1, PostMail
  <2> QED
    BY <1>1, <2>1 DEF Handler, Sleeper
<1>3. Lead'
  <2>1. \A r \in Services : \A i : Leads(r, i)'
    BY <1>1, <1>2, PostLeads DEF Waking, Lead
  <2>2. \A r \in Services : \A co : HandlerLeads(r, co)'
    BY <1>1, <1>2 DEF Waking, Lead, HandlerLeads
  <2> QED
    BY <1>1, <1>2, <2>1, <2>2 DEF Waking, Lead
<1>4. Once'
  BY <1>1, <1>2 DEF Waking, Once
<1>5. Awaited'
  <2>1. \A id : Woken(id)' <=> Woken(id)
    BY <1>1, <1>2 DEF Woken
  <2> QED
    BY <1>1, <2>1, AwaitedStays DEF Waking
<1> QED
  BY <1>3, <1>4, <1>5 DEF Waking

(* The messages that stay were there, each once, and not about the         *)
(* suspension of the message that was taken.                               *)
LEMMA TakeOnce ==
  ASSUME TypeOK, Once, NEW s \in Services, mailbox[s] # <<>>, TakeMessage(s)
  PROVE  /\ \A r \in Services : \A i, id : Mail(r, i, id)' => (\E j : Mail(r, j, id)) /\ ~Mail(s, 1, id)
         /\ \A q, r \in Services : \A i, j, id : Mail(q, i, id)' /\ Mail(r, j, id)' => q = r /\ i = j
<1>1. ASSUME NEW r \in Services, NEW i, NEW id, Mail(r, i, id)'
      PROVE  \E j : Mail(r, j, id) /\ (r = s => j = i + 1 /\ i \in Nat /\ i >= 1) /\ (r # s => j = i)
  <2>1. CASE r = s
    BY <1>1, <2>1, TakeMail
  <2>2. CASE r # s
    BY <1>1, <2>2, TakeMail
  <2> QED
    BY <2>1, <2>2
<1>2. ASSUME NEW r \in Services, NEW i, NEW id, Mail(r, i, id)' PROVE ~Mail(s, 1, id)
  <2>1. PICK j : Mail(r, j, id) /\ (r = s => j = i + 1 /\ i \in Nat /\ i >= 1)
    BY <1>1, <1>2
  <2>2. r = s => j # 1
    BY <2>1
  <2> QED
    BY <2>1, <2>2 DEF Once
<1>3. ASSUME NEW q \in Services, NEW r \in Services, NEW i, NEW j, NEW id, Mail(q, i, id)', Mail(r, j, id)'
      PROVE  q = r /\ i = j
  <2>1. PICK k : Mail(q, k, id) /\ (q = s => k = i + 1 /\ i \in Nat) /\ (q # s => k = i)
    BY <1>1, <1>3
  <2>2. PICK l : Mail(r, l, id) /\ (r = s => l = j + 1 /\ j \in Nat) /\ (r # s => l = j)
    BY <1>1, <1>3
  <2>3. q = r /\ k = l
    BY <2>1, <2>2 DEF Once
  <2> QED
    BY <2>1, <2>2, <2>3
<1> QED
  BY <1>1, <1>2, <1>3

(* An expired timer becomes a message, or its service is gone. *)
LEMMA TimerWakes ==
  ASSUME TypeOK, IdsAreUnique, Waking, NEW t \in timers, TimerExpires(t)
  PROVE  Waking'
<1>1. /\ t.service \in Services /\ t.session \in Sessions /\ t.id \in 1 .. MaxYields
      /\ timers' = timers \ {t}
      /\ UNCHANGED <<exiting, serial, sessionCoRefs, coRpcContexts, dropped>>
      /\ Sleeper(t.service, t.session, t.id)
  BY DEF TimerExpires, tableVars, TypeOK, Waking, Lead
<1>2. /\ \A r, co, id : Handler(r, co, id)' <=> Handler(r, co, id)
      /\ \A r, n, id : Sleeper(r, n, id)' <=> Sleeper(r, n, id)
  BY <1>1 DEF Handler, Sleeper
<1>3. CASE t.service \in exiting
  <2>1. mailbox' = mailbox
    BY <1>3 DEF TimerExpires, Reachable
  <2>2. \A r, i, id : Mail(r, i, id)' <=> Mail(r, i, id)
    BY <2>1 DEF Mail
  <2>3. Lead'
    <3>1. \A r \in Services : \A i : Leads(r, i)'
      BY <1>2, <2>1, <2>2 DEF Waking, Lead, Leads
    <3>2. \A r \in Services : \A co : HandlerLeads(r, co)'
      BY <1>1, <1>2 DEF Waking, Lead, HandlerLeads
    <3> QED
      BY <1>1, <1>2, <3>1, <3>2 DEF Waking, Lead
  <2>4. Once'
    BY <1>1, <1>2, <2>2 DEF Waking, Once
  <2>5. Awaited'
    <3>1. SUFFICES ASSUME NEW s \in Services, NEW n \in DOMAIN sessionCoRefs[s]
                   PROVE  \E id : /\ id = sessionCoRefs[s][n].id
                                  /\ IF sessionCoRefs[s][n].why = "long sleep" THEN ~Woken(id)'
                                     ELSE s \notin exiting => Woken(id)'
      BY <1>1 DEF Awaited
    <3>2. PICK id : id = sessionCoRefs[s][n].id
      OBVIOUS
    <3>3. IF sessionCoRefs[s][n].why = "long sleep" THEN ~Woken(id)
          ELSE s \notin exiting => Woken(id)
      BY <3>1, <3>2 DEF Waking, Awaited
    <3>4. s \notin exiting => id # t.id
      BY <1>1, <1>3, <3>2 DEF Sleeper, IdsAreUnique
    <3>5. /\ Woken(id)' => Woken(id)
          /\ Woken(id) /\ id # t.id => Woken(id)'
      BY <1>1, <1>2, <2>2 DEF Woken
    <3> QED
      BY <3>2, <3>3, <3>4, <3>5
  <2> QED
    BY <2>3, <2>4, <2>5 DEF Waking
<1>4. CASE t.service \notin exiting
  <2>0. PICK m \in Messages : m = Message("TIMER", NoService, t.session, t.id)
    BY <1>1, MessageLemma
  <2>a. PICK s \in Services : s = t.service
    BY <1>1
  <2>b. PICK id0 : id0 = t.id
    OBVIOUS
  <2>1. s = t.service /\ id0 = t.id
    BY <2>a, <2>b
  <2>2. /\ m.kind = "TIMER" /\ m.session = t.session /\ m.id = id0 /\ Post(s, m)
        /\ Target(s, m) = s
    BY <1>1, <1>4, <2>0, <2>1, MessageLemma DEF TimerExpires, Reachable, Target
  <2>3. PICK l : l = Len(mailbox[s]) + 1 /\ Mail(s, l, m.id)' /\ \A id : ~Mail(s, l, id)
    BY <2>2, PostedMail
  <2>4. /\ \A r \in Services : \A i, id : Mail(r, i, id)' <=> Mail(r, i, id) \/ (r = s /\ i = l /\ id = id0)
        /\ \A id : ~Mail(s, l, id)
    <3>1. /\ \A r \in Services : \A i, id : Mail(r, i, id) => Mail(r, i, id)'
          /\ \A r \in Services : \A i, id : Mail(r, i, id)' =>
               Mail(r, i, id) \/ (r = s /\ i = Len(mailbox[s]) + 1 /\ id = m.id)
      BY <2>2, PostMail
    <3> QED
      BY <2>2, <2>3, <3>1
  <2>5. Lead'
    <3>1. \A r \in Services : \A i : Leads(r, i)'
      <4>1. Sleeper(Target(s, m), m.session, m.id)'
        <5>1. Sleeper(s, m.session, m.id)'
          BY <1>1, <1>2, <2>1, <2>2
        <5> QED
          BY <2>2, <5>1
      <4> QED
        BY <1>2, <2>2, <4>1, PostLeads DEF Waking, Lead
    <3>2. \A r \in Services : \A co : HandlerLeads(r, co)'
      BY <1>1, <1>2 DEF Waking, Lead, HandlerLeads
    <3> QED
      BY <1>1, <1>2, <3>1, <3>2 DEF Waking, Lead
  <2>6. Once'
    <3>1. \A u \in timers' : u.id # id0 /\ u \in timers
      BY <1>1, <2>1 DEF Waking, Once
    <3>2. /\ id0 \notin dropped /\ \A r \in Services : \A i : ~Mail(r, i, id0)
          /\ \A r \in Services : \A co : ~Handler(r, co, id0)
      BY <2>1 DEF Waking, Once
    <3> QED
      BY <1>1, <1>2, <2>4, <3>1, <3>2 DEF Waking, Once
  <2>7. Awaited'
    <3>1. ASSUME NEW id, Woken(id) PROVE Woken(id)'
      <4>1. CASE id = id0
        BY <2>4, <4>1 DEF Woken
      <4>2. CASE id # id0
        BY <1>1, <1>2, <2>1, <2>4, <3>1, <4>2 DEF Woken
      <4> QED
        BY <4>1, <4>2
    <3>2. ASSUME NEW id, Woken(id)' PROVE Woken(id)
      <4>1. Woken(id0)
        BY <2>1 DEF Woken
      <4>2. CASE id # id0
        BY <1>1, <1>2, <2>4, <3>2, <4>2 DEF Woken
      <4> QED
        BY <4>1, <4>2
    <3> QED
      BY <1>1, <3>1, <3>2, AwaitedStays DEF Waking
  <2> QED
    BY <2>5, <2>6, <2>7 DEF Waking
<1> QED
  BY <1>3, <1>4

(* A plain message that is handled. *)
LEMMA OnSendWakes ==
  ASSUME TypeOK, Waking, NEW s \in Services, NEW co \in Coroutines, OnSend(s, co)
  PROVE  Waking'
<1>1. /\ mailbox[s] # <<>> /\ TakeMessage(s) /\ Head(mailbox[s]).kind = "SEND"
      /\ UNCHANGED <<exiting, serial, sessionCoRefs, coRpcContexts, timers, dropped>>
  BY DEF OnSend, Handles, tableVars
<1>2. /\ \A r, k, id : Handler(r, k, id)' <=> Handler(r, k, id)
      /\ \A r, n, id : Sleeper(r, n, id)' <=> Sleeper(r, n, id)
  BY <1>1 DEF Handler, Sleeper
<1>3. \A id : ~Mail(s, 1, id)
  BY <1>1, TakeLemma DEF Mail
<1>4. Lead'
  <2>1. \A r \in Services : \A i : Leads(r, i)'
    BY <1>1, <1>2, TakeLeads DEF Waking, Lead
  <2>2. \A r \in Services : \A k : HandlerLeads(r, k)'
    BY <1>1, <1>2 DEF Waking, Lead, HandlerLeads
  <2> QED
    BY <1>1, <1>2, <2>1, <2>2 DEF Waking, Lead
<1>5. Once'
  BY <1>1, <1>2, TakeOnce DEF Waking, Once
<1>6. Awaited'
  <2>1. ASSUME NEW id, Woken(id) PROVE Woken(id)'
    <3>1. ASSUME NEW r \in Services, NEW i, Mail(r, i, id) PROVE \E q \in Services : \E j : Mail(q, j, id)'
      BY <1>1, <1>3, <3>1, TakeMail
    <3> QED
      BY <1>1, <1>2, <2>1, <3>1 DEF Woken
  <2>2. ASSUME NEW id, Woken(id)' PROVE Woken(id)
    BY <1>1, <1>2, <2>2, TakeOnce DEF Waking, Woken
  <2> QED
    BY <1>1, <2>1, <2>2, AwaitedStays DEF Waking
<1> QED
  BY <1>4, <1>5, <1>6 DEF Waking

(* A request that is handled: its handler may answer from now on. *)
LEMMA OnCallWakes ==
  ASSUME TypeOK, Waking, NEW s \in Services, Separate(s), NEW co \in Coroutines, OnCall(s, co)
  PROVE  Waking'
<1>1. /\ mailbox[s] # <<>> /\ TakeMessage(s) /\ co \in Unused(s)
      /\ UNCHANGED <<exiting, serial, sessionCoRefs, timers, dropped>>
  BY DEF OnCall, Handles, Start
<1>2. PICK m \in Messages : m = Head(mailbox[s])
  BY <1>1, TakeLemma
<1>3. /\ m = mailbox[s][1] /\ m.kind = "CALL"
      /\ m.source \in Services /\ m.session \in Sessions /\ m.id \in 1 .. MaxYields
      /\ \A r \in Services : r # s => coRpcContexts'[r] = coRpcContexts[r]
      /\ DOMAIN coRpcContexts'[s] = DOMAIN coRpcContexts[s] \cup {co}
      /\ coRpcContexts'[s][co].source = m.source /\ coRpcContexts'[s][co].session = m.session
      /\ coRpcContexts'[s][co].id = m.id /\ ~coRpcContexts'[s][co].reted
      /\ \A k \in DOMAIN coRpcContexts[s] : k # co => coRpcContexts'[s][k] = coRpcContexts[s][k]
  BY <1>2, OnCallLemma
<1>4. PICK id0 : id0 = m.id
  OBVIOUS
<1>5. co \notin DOMAIN coRpcContexts[s]
  BY <1>1, UnusedLemma DEF Separate
<1>6. Mail(s, 1, id0) /\ Sleeper(m.source, m.session, id0)
  <2>1. Mail(s, 1, id0)
    BY <1>1, <1>3, <1>4, TakeLemma DEF Mail
  <2>2. Target(s, mailbox[s][1]) = m.source
    BY <1>3 DEF Target
  <2> QED
    BY <1>3, <2>1, <2>2, MailLeads DEF Waking, Lead
<1>7. \A r, n, id : Sleeper(r, n, id)' <=> Sleeper(r, n, id)
  BY <1>1 DEF Sleeper
<1>8. /\ \A r \in Services : \A k, id : Handler(r, k, id)' <=>
           Handler(r, k, id) \/ (r = s /\ k = co /\ id = id0)
      /\ \A id : ~Handler(s, co, id)
  <2>1. \A id : ~Handler(s, co, id)
    BY <1>5 DEF Handler
  <2>2. ASSUME NEW r \in Services, r # s, NEW k, NEW id
        PROVE  Handler(r, k, id)' <=> Handler(r, k, id)
    BY <1>3, <2>2 DEF Handler
  <2>3. ASSUME NEW k, k # co, NEW id
        PROVE  Handler(s, k, id)' <=> Handler(s, k, id)
    BY <1>3, <2>3 DEF Handler
  <2>4. \A id : Handler(s, co, id)' <=> id = id0
    BY <1>3, <1>4 DEF Handler
  <2> QED
    BY <2>1, <2>2, <2>3, <2>4
<1>9. Lead'
  <2>1. \A r \in Services : \A i : Leads(r, i)'
    BY <1>1, <1>7, TakeLeads DEF Waking, Lead
  <2>2. \A r \in Services : \A k : HandlerLeads(r, k)'
    <3>1. SUFFICES ASSUME NEW r \in Services, NEW k, NEW id, Handler(r, k, id)'
                   PROVE  \E q, n : /\ q = coRpcContexts'[r][k].source /\ n = coRpcContexts'[r][k].session
                                    /\ Sleeper(q, n, id)'
      BY DEF HandlerLeads
    <3>2. CASE r = s /\ k = co /\ id = id0
      BY <1>3, <1>6, <1>7, <3>2
    <3>3. CASE Handler(r, k, id)
      <4>1. coRpcContexts'[r][k] = coRpcContexts[r][k]
        BY <1>3, <1>5, <3>3 DEF Handler
      <4>2. PICK q, n : q = coRpcContexts[r][k].source /\ n = coRpcContexts[r][k].session
        OBVIOUS
      <4>3. Sleeper(q, n, id)
        BY <3>3, <4>2 DEF Waking, Lead, HandlerLeads
      <4> QED
        BY <1>7, <4>1, <4>2, <4>3
    <3> QED
      BY <1>8, <3>1, <3>2, <3>3
  <2> QED
    BY <1>1, <1>7, <2>1, <2>2 DEF Waking, Lead
<1>10. Once'
  <2>1. \A r \in Services : \A i, id : Mail(r, i, id)' => (\E j : Mail(r, j, id)) /\ id # id0
    BY <1>1, <1>6, TakeOnce DEF Waking
  <2>2. \A q, r \in Services : \A i, j, id : Mail(q, i, id)' /\ Mail(r, j, id)' => q = r /\ i = j
    BY <1>1, TakeOnce DEF Waking
  <2>3. /\ id0 \notin dropped /\ \A t \in timers : t.id # id0
        /\ \A r \in Services : \A k : ~Handler(r, k, id0)
    BY <1>6 DEF Waking, Once
  <2>4. \A q, r \in Services : \A k, l, id : Handler(q, k, id)' /\ Handler(r, l, id)' => q = r /\ k = l
    BY <1>8, <2>3 DEF Waking, Once
  <2>5. \A r \in Services : \A i, id : Mail(r, i, id)' =>
          /\ id \notin dropped /\ \A t \in timers : t.id # id
          /\ \A q \in Services : \A k : ~Handler(q, k, id)'
    BY <1>8, <2>1 DEF Waking, Once
  <2>6. \A r \in Services : \A k, id : Handler(r, k, id)' =>
          id \notin dropped /\ \A t \in timers : t.id # id
    BY <1>8, <2>3 DEF Waking, Once
  <2> QED
    BY <1>1, <2>2, <2>4, <2>5, <2>6 DEF Waking, Once
<1>11. Awaited'
  <2>1. ASSUME NEW id, Woken(id) PROVE Woken(id)'
    <3>1. ASSUME NEW r \in Services, NEW i, Mail(r, i, id)
          PROVE  (\E q \in Services : \E j : Mail(q, j, id)') \/ (r = s /\ i = 1)
      BY <1>1, <3>1, TakeMail
    <3>2. Mail(s, 1, id) => id = id0
      BY <1>6 DEF Mail
    <3> QED
      BY <1>1, <1>8, <2>1, <3>1, <3>2 DEF Woken
  <2>2. ASSUME NEW id, Woken(id)' PROVE Woken(id)
    <3>1. \A r \in Services : \A i : Mail(r, i, id)' => \E j : Mail(r, j, id)
      BY <1>1, TakeOnce DEF Waking
    <3> QED
      BY <1>1, <1>6, <1>8, <2>2, <3>1 DEF Woken
  <2> QED
    BY <1>1, <2>1, <2>2, AwaitedStays DEF Waking
<1> QED
  BY <1>9, <1>10, <1>11 DEF Waking

(* A wake-up that is handled takes its sleeper with it. *)
LEMMA OnWakeUpWakes ==
  ASSUME TypeOK, IdsAreUnique, Waking, NEW s \in Services, Separate(s), OnWakeUp(s)
  PROVE  Waking'
<1>1. /\ TakeMessage(s)
      /\ UNCHANGED <<exiting, serial, coRpcContexts, timers, dropped>>
  BY OnWakeUpContexts DEF OnWakeUp
<1>2. PICK m \in Messages : m = Head(mailbox[s])
  BY OnWakeUpLemma
<1>3. /\ mailbox[s] # <<>> /\ m = mailbox[s][1] /\ m.kind \in {"RET", "TIMER"}
      /\ m.session \in Sessions /\ m.id \in 1 .. MaxYields
      /\ \A r \in Services : r # s => sessionCoRefs'[r] = sessionCoRefs[r]
      /\ DOMAIN sessionCoRefs'[s] = DOMAIN sessionCoRefs[s] \ {m.session}
      /\ \A n \in DOMAIN sessionCoRefs[s] :
           n # m.session => sessionCoRefs'[s][n] = sessionCoRefs[s][n]
  BY <1>2, OnWakeUpLemma
<1>4. PICK id0, n0 : id0 = m.id /\ n0 = m.session
  OBVIOUS
<1>5. Mail(s, 1, id0) /\ Sleeper(s, n0, id0)
  <2>1. Mail(s, 1, id0)
    BY <1>1, <1>3, <1>4, TakeLemma DEF Mail
  <2>2. Target(s, mailbox[s][1]) = s
    BY <1>3 DEF Target
  <2> QED
    BY <1>3, <1>4, <2>1, <2>2, MailLeads DEF Waking, Lead
<1>6. \A r \in Services : \A n, id : Sleeper(r, n, id) /\ id # id0 => Sleeper(r, n, id)'
  BY <1>3, <1>4, <1>5 DEF Sleeper
<1>7. \A r \in Services : \A n, id : Sleeper(r, n, id)' => Sleeper(r, n, id) /\ id # id0
  <2>1. ASSUME NEW r \in Services, NEW n, NEW id, Sleeper(r, n, id)'
        PROVE  Sleeper(r, n, id) /\ (r # s \/ n # n0)
    BY <1>3, <1>4, <2>1 DEF Sleeper
  <2>2. ASSUME NEW r \in Services, NEW n, Sleeper(r, n, id0) PROVE r = s /\ n = n0
    BY <1>5, <2>2 DEF Sleeper, IdsAreUnique
  <2> QED
    BY <2>1, <2>2
<1>8. \A r, k, id : Handler(r, k, id)' <=> Handler(r, k, id)
  BY <1>1 DEF Handler
<1>9. /\ id0 \notin dropped /\ \A t \in timers : t.id # id0
      /\ \A r \in Services : \A k : ~Handler(r, k, id0)
  BY <1>5 DEF Waking, Once
<1>10. Lead'
  <2>1. \A r \in Services : \A i : Leads(r, i)'
    <3>1. \A r \in Services : \A n, id : ~Mail(s, 1, id) /\ Sleeper(r, n, id) => Sleeper(r, n, id)'
      BY <1>5, <1>6
    <3> QED
      BY <1>1, <1>3, <3>1, TakeLeads DEF Waking, Lead
  <2>2. \A r \in Services : \A k : HandlerLeads(r, k)'
    <3>1. SUFFICES ASSUME NEW r \in Services, NEW k, NEW id, Handler(r, k, id)'
                   PROVE  \E q, n : /\ q = coRpcContexts'[r][k].source /\ n = coRpcContexts'[r][k].session
                                    /\ Sleeper(q, n, id)'
      BY DEF HandlerLeads
    <3>2. PICK q, n : q = coRpcContexts[r][k].source /\ n = coRpcContexts[r][k].session
      OBVIOUS
    <3>3. Handler(r, k, id) /\ id # id0
      BY <1>8, <1>9, <3>1
    <3>4. q \in Services
      BY <3>2, <3>3, Typed DEF Handler, Contexts
    <3>5. Sleeper(q, n, id)
      BY <3>2, <3>3 DEF Waking, Lead, HandlerLeads
    <3> QED
      BY <1>1, <1>6, <3>2, <3>3, <3>4, <3>5
  <2>3. \A t \in timers' : Sleeper(t.service, t.session, t.id)'
    <3>1. SUFFICES ASSUME NEW t \in timers PROVE Sleeper(t.service, t.session, t.id)'
      BY <1>1
    <3>2. t.service \in Services /\ t.id # id0 /\ Sleeper(t.service, t.session, t.id)
      BY <1>9 DEF TypeOK, Waking, Lead
    <3> QED
      BY <1>6, <3>2
  <2> QED
    BY <1>1, <2>1, <2>2, <2>3 DEF Waking, Lead
<1>11. Once'
  <2>1. \A r \in Services : \A i, id : Mail(r, i, id)' => (\E j : Mail(r, j, id))
    BY <1>1, <1>3, TakeOnce DEF Waking
  <2>2. \A q, r \in Services : \A i, j, id : Mail(q, i, id)' /\ Mail(r, j, id)' => q = r /\ i = j
    BY <1>1, <1>3, TakeOnce DEF Waking
  <2> QED
    BY <1>1, <1>8, <2>1, <2>2 DEF Waking, Once
<1>12. Awaited'
  <2>1. SUFFICES ASSUME NEW r \in Services, NEW n \in DOMAIN sessionCoRefs'[r]
                 PROVE  \E id : /\ id = sessionCoRefs'[r][n].id
                                /\ IF sessionCoRefs'[r][n].why = "long sleep" THEN ~Woken(id)'
                                   ELSE r \notin exiting => Woken(id)'
    BY <1>1 DEF Awaited
  <2>2. PICK id : id = sessionCoRefs'[r][n].id
    OBVIOUS
  <2>3. Sleeper(r, n, id)'
    BY <2>2 DEF Sleeper
  <2>4. /\ n \in DOMAIN sessionCoRefs[r] /\ id = sessionCoRefs[r][n].id /\ id # id0
        /\ sessionCoRefs'[r][n] = sessionCoRefs[r][n]
    BY <1>3, <1>4, <1>7, <2>3 DEF Sleeper
  <2>5. IF sessionCoRefs'[r][n].why = "long sleep" THEN ~Woken(id)
        ELSE r \notin exiting => Woken(id)
    BY <2>4 DEF Waking, Awaited
  <2>6. ASSUME NEW q \in Services, NEW i, Mail(q, i, id)
        PROVE  \E p \in Services : \E j : Mail(p, j, id)'
    <3>1. q = s => i # 1
      BY <1>5, <2>4, <2>6 DEF Mail
    <3> QED
      BY <1>1, <1>3, <2>6, <3>1, TakeMail
  <2>7. Woken(id) => Woken(id)'
    BY <1>1, <1>8, <2>6 DEF Woken
  <2>8. Woken(id)' => Woken(id)
    BY <1>1, <1>3, <1>8, TakeOnce DEF Waking, Woken
  <2> QED
    BY <2>2, <2>5, <2>7, <2>8
<1> QED
  BY <1>10, <1>11, <1>12 DEF Waking

(* Handlers and timers lead where they led. *)
LEMMA HandlersStay ==
  ASSUME TypeOK, \A r \in Services : \A k : HandlerLeads(r, k),
         UNCHANGED coRpcContexts,
         \A r \in Services : \A n, id : Sleeper(r, n, id) => Sleeper(r, n, id)'
  PROVE  \A r \in Services : \A k : HandlerLeads(r, k)'
<1>1. SUFFICES ASSUME NEW r \in Services, NEW k, NEW id, Handler(r, k, id)'
               PROVE  \E q, n : /\ q = coRpcContexts'[r][k].source /\ n = coRpcContexts'[r][k].session
                                /\ Sleeper(q, n, id)'
  BY DEF HandlerLeads
<1>2. PICK q, n : q = coRpcContexts[r][k].source /\ n = coRpcContexts[r][k].session
  OBVIOUS
<1>3. Handler(r, k, id)
  BY <1>1 DEF Handler
<1>4. q \in Services
  BY <1>2, <1>3, Typed DEF Handler, Contexts
<1>5. Sleeper(q, n, id)
  BY <1>2, <1>3 DEF HandlerLeads
<1> QED
  BY <1>2, <1>4, <1>5

LEMMA TimersStay ==
  ASSUME TypeOK, \A t \in timers : Sleeper(t.service, t.session, t.id),
         \A r \in Services : \A n, id : Sleeper(r, n, id) => Sleeper(r, n, id)'
  PROVE  \A t \in timers : Sleeper(t.service, t.session, t.id)'
<1>1. \A t \in timers : t.service \in Services
  BY DEF TypeOK
<1> QED
  BY <1>1

(* Nothing leads to a suspension that is to come. *)
LEMMA NewIdIsFresh ==
  ASSUME TypeOK, IdsAreUnique, Waking
  PROVE  /\ \A r \in Services : \A i : ~Mail(r, i, serial + 1)
         /\ \A r \in Services : \A k : ~Handler(r, k, serial + 1)
         /\ \A t \in timers : t.id # serial + 1
         /\ serial + 1 \notin dropped
<1>1. serial \in Nat
  BY DEF TypeOK
<1>2. \A r \in Services : \A n : ~Sleeper(r, n, serial + 1)
  BY <1>1 DEF IdsAreUnique, Sleeper
<1>3. \A r \in Services : \A i : ~Mail(r, i, serial + 1)
  BY <1>2, MailLeads DEF Waking, Lead
<1>4. \A r \in Services : \A k : ~Handler(r, k, serial + 1)
  <2>1. SUFFICES ASSUME NEW r \in Services, NEW k, Handler(r, k, serial + 1) PROVE FALSE
    OBVIOUS
  <2>2. coRpcContexts[r][k].source \in Services
    BY <2>1, Typed DEF Handler, Contexts
  <2>3. Sleeper(coRpcContexts[r][k].source, coRpcContexts[r][k].session, serial + 1)
    BY <2>1 DEF Waking, Lead, HandlerLeads
  <2> QED
    BY <1>2, <2>2, <2>3
<1>5. \A t \in timers : t.id # serial + 1
  <2>1. \A t \in timers : t.service \in Services /\ Sleeper(t.service, t.session, t.id)
    BY DEF TypeOK, Waking, Lead
  <2> QED
    BY <1>2, <2>1
<1>6. serial + 1 \notin dropped
  BY <1>1 DEF Waking, Lead
<1> QED
  BY <1>3, <1>4, <1>5, <1>6

(* The suspension that is registered, beside those that there were. *)
LEMMA NewSleeper ==
  ASSUME NoWrap, TypeOK, SessionsAreNew, NEW s \in Services, NEW why \in Reasons,
         MayYield(s), Register(s, why)
  PROVE  \A r \in Services : \A n, id :
           Sleeper(r, n, id)' <=> \/ Sleeper(r, n, id)
                                  \/ r = s /\ n = nextSession[s] /\ id = serial + 1
<1>1. PICK n0 : n0 = nextSession[s]
  OBVIOUS
<1>2. /\ n0 \notin DOMAIN sessionCoRefs[s]
      /\ \A r \in Services : r # s => sessionCoRefs'[r] = sessionCoRefs[r]
      /\ DOMAIN sessionCoRefs'[s] = DOMAIN sessionCoRefs[s] \cup {n0}
      /\ sessionCoRefs'[s][n0].id = serial + 1
      /\ \A n \in DOMAIN sessionCoRefs[s] : sessionCoRefs'[s][n] = sessionCoRefs[s][n]
  BY <1>1, NextIsFree, RegisterLemma
<1>3. ASSUME NEW r \in Services, r # s, NEW n, NEW id
      PROVE  Sleeper(r, n, id)' <=> Sleeper(r, n, id)
  BY <1>2, <1>3 DEF Sleeper
<1>4. ASSUME NEW n, NEW id
      PROVE  Sleeper(s, n, id)' <=> Sleeper(s, n, id) \/ (n = n0 /\ id = serial + 1)
  BY <1>2 DEF Sleeper
<1> QED
  BY <1>1, <1>3, <1>4

(* An entry that is there has another number than the next one. *)
LEMMA OldIds ==
  ASSUME TypeOK, IdsAreUnique, NEW s \in Services, NEW n \in DOMAIN sessionCoRefs[s]
  PROVE  sessionCoRefs[s][n].id # serial + 1
<1>1. serial \in Nat /\ sessionCoRefs[s][n] \in Suspensions
  BY Typed
<1>2. sessionCoRefs[s][n].id <= serial
  BY DEF IdsAreUnique
<1>3. sessionCoRefs[s][n].id \in 1 .. MaxYields
  BY <1>1 DEF Suspensions
<1> QED
  BY <1>1, <1>2, <1>3

(* An entry that is made with what will end it, or without for a long      *)
(* sleep.                                                                  *)
LEMMA YieldAwaited ==
  ASSUME NoWrap, TypeOK, SessionsAreNew, IdsAreUnique, Awaited,
         NEW s \in Services, NEW why \in Reasons,
         MayYield(s), Register(s, why), UNCHANGED exiting,
         NEW id0, id0 = serial + 1,
         \A id : id # id0 => (Woken(id)' <=> Woken(id)),
         IF why = "long sleep" THEN ~Woken(id0)' ELSE Woken(id0)'
  PROVE  Awaited'
<1>1. SUFFICES ASSUME NEW r \in Services, NEW n \in DOMAIN sessionCoRefs'[r]
               PROVE  \E id : /\ id = sessionCoRefs'[r][n].id
                              /\ IF sessionCoRefs'[r][n].why = "long sleep" THEN ~Woken(id)'
                                 ELSE r \notin exiting => Woken(id)'
  BY DEF Awaited
<1>2. PICK id : id = sessionCoRefs'[r][n].id
  OBVIOUS
<1>3. PICK n0 : n0 = nextSession[s]
  OBVIOUS
<1>4. /\ n0 \notin DOMAIN sessionCoRefs[s]
      /\ \A q \in Services : q # s => sessionCoRefs'[q] = sessionCoRefs[q]
      /\ DOMAIN sessionCoRefs'[s] = DOMAIN sessionCoRefs[s] \cup {n0}
      /\ sessionCoRefs'[s][n0].id = id0 /\ sessionCoRefs'[s][n0].why = why
      /\ \A k \in DOMAIN sessionCoRefs[s] : sessionCoRefs'[s][k] = sessionCoRefs[s][k]
  BY <1>3, NextIsFree, RegisterLemma
<1>5. CASE n \in DOMAIN sessionCoRefs[r] /\ sessionCoRefs'[r][n] = sessionCoRefs[r][n]
  <2>1. IF sessionCoRefs'[r][n].why = "long sleep" THEN ~Woken(id)
        ELSE r \notin exiting => Woken(id)
    BY <1>2, <1>5 DEF Awaited
  <2>2. id # id0
    BY <1>2, <1>5, OldIds
  <2> QED
    BY <1>2, <2>1, <2>2
<1>6. CASE r = s /\ n = n0
  BY <1>2, <1>4, <1>6
<1> QED
  BY <1>4, <1>5, <1>6

(* A call: its request leads to it. *)
LEMMA CallWakes ==
  ASSUME NoWrap, TypeOK, SessionsAreNew, IdsAreUnique, Waking,
         NEW s \in Services, NEW target \in Services, Call(s, target)
  PROVE  Waking'
<1>1. /\ MayYield(s) /\ Register(s, "call") /\ serial' = serial + 1
      /\ Post(target, Message("CALL", s, nextSession[s], serial + 1))
      /\ UNCHANGED <<exiting, coRpcContexts, timers, dropped>>
  BY DEF Call, NewId
<1>a. "call" \in Reasons
  BY DEF Reasons
<1>2. PICK id0, n0 : id0 = serial + 1 /\ n0 = nextSession[s]
  OBVIOUS
<1>3. n0 \in Sessions /\ id0 \in 1 .. MaxYields /\ serial \in Nat
  BY <1>1, <1>2, <1>a, RegisterLemma, Typed
<1>4. PICK m \in Messages : /\ m = Message("CALL", s, n0, id0) /\ m.kind = "CALL" /\ m.source = s
                            /\ m.session = n0 /\ m.id = id0
  BY <1>3, MessageLemma
<1>5. Post(target, m)
  BY <1>1, <1>2, <1>4
<1>6. \A r \in Services : \A n, id :
        Sleeper(r, n, id)' <=> Sleeper(r, n, id) \/ (r = s /\ n = n0 /\ id = id0)
  BY <1>1, <1>2, <1>a, NewSleeper
<1>7. PICK l : Mail(target, l, m.id)' /\ l = Len(mailbox[target]) + 1 /\ \A id : ~Mail(target, l, id)
  BY <1>4, <1>5, PostedMail
<1>8. \A r \in Services : \A i, id :
        Mail(r, i, id)' <=> Mail(r, i, id) \/ (r = target /\ i = l /\ id = id0)
  <2>1. /\ \A r \in Services : \A i, id : Mail(r, i, id) => Mail(r, i, id)'
        /\ \A r \in Services : \A i, id : Mail(r, i, id)' =>
             Mail(r, i, id) \/ (r = target /\ i = Len(mailbox[target]) + 1 /\ id = m.id)
    BY <1>5, PostMail
  <2> QED
    BY <1>4, <1>7, <2>1
<1>9. \A r, k, id : Handler(r, k, id)' <=> Handler(r, k, id)
  BY <1>1 DEF Handler
<1>10. Lead'
  <2>1. \A r \in Services : \A i : Leads(r, i)'
    <3>1. Sleeper(Target(target, m), m.session, m.id)'
      <4>1. Sleeper(s, m.session, m.id)'
        BY <1>4, <1>6
      <4>2. Target(target, m) = s
        BY <1>4 DEF Target
      <4> QED
        BY <4>1, <4>2
    <3>2. \A r \in Services : \A n, id : Sleeper(r, n, id) => Sleeper(r, n, id)'
      BY <1>6
    <3>3. \A r \in Services : \A i : Leads(r, i)
      BY DEF Waking, Lead
    <3> QED
      BY <1>5, <3>1, <3>2, <3>3, PostLeads
  <2>2. \A r \in Services : \A k : HandlerLeads(r, k)'
    BY <1>1, <1>6, <1>9, HandlersStay DEF Waking, Lead
  <2>3. \A t \in timers' : Sleeper(t.service, t.session, t.id)'
    BY <1>1, <1>6, TimersStay DEF Waking, Lead
  <2>4. \A id \in dropped' : id <= serial'
    BY <1>1, <1>3 DEF Waking, Lead, TypeOK
  <2> QED
    BY <2>1, <2>2, <2>3, <2>4 DEF Lead
<1>11. Once'
  <2>1. /\ \A r \in Services : \A i : ~Mail(r, i, id0)
        /\ \A r \in Services : \A k : ~Handler(r, k, id0)
        /\ \A t \in timers : t.id # id0
        /\ id0 \notin dropped
    BY <1>2, NewIdIsFresh
  <2>2. \A q, r \in Services : \A i, j, id : Mail(q, i, id)' /\ Mail(r, j, id)' => q = r /\ i = j
    BY <1>8, <2>1 DEF Waking, Once
  <2>3. \A r \in Services : \A i, id : Mail(r, i, id)' =>
          /\ id \notin dropped /\ \A t \in timers : t.id # id
          /\ \A q \in Services : \A k : ~Handler(q, k, id)
    BY <1>8, <2>1 DEF Waking, Once
  <2> QED
    BY <1>1, <1>9, <2>2, <2>3 DEF Waking, Once
<1>12. Awaited'
  <2>1. \A id : id # id0 => (Woken(id)' <=> Woken(id))
    BY <1>1, <1>8, <1>9 DEF Woken
  <2>2. Woken(id0)'
    BY <1>8 DEF Woken
  <2> QED
    BY <1>1, <1>2, <1>a, <2>1, <2>2, YieldAwaited DEF Waking
<1> QED
  BY <1>10, <1>11, <1>12 DEF Waking

(* The int of SleepCurrentCoroutine is negative for long sleeps, and only  *)
(* for them.                                                               *)
LEMMA WhyLemma ==
  ASSUME NEW ms \in Naps
  PROVE  Why(ms) \in Reasons /\ (Why(ms) = "long sleep" <=> ~(ToInt(ms) >= 0))
<1>1. Unsigned(ms) \in 0 .. 2 * HalfRange - 1
  <2>1. ms \in Int /\ 2 * HalfRange \in Nat \ {0}
    OBVIOUS
  <2>2. PICK range \in Nat \ {0} : range = 2 * HalfRange
    BY <2>1
  <2>3. ms % range \in 0 .. range - 1
    BY <2>1, <2>2
  <2> QED
    BY <2>2, <2>3 DEF Unsigned
<1>2. Unsigned(ms) < HalfRange => ToInt(ms) >= 0
  BY <1>1 DEF ToInt
<1>3. ~(Unsigned(ms) < HalfRange) => ~(ToInt(ms) >= 0)
  BY <1>1 DEF ToInt
<1> QED
  BY <1>2, <1>3 DEF Why, Reasons

(* A sleep: its timer leads to it, if it is not a long one. *)
LEMMA SleepWakes ==
  ASSUME NoWrap, TypeOK, SessionsAreNew, IdsAreUnique, Waking,
         NEW s \in Services, NEW ms \in Naps, Sleep(s, ms)
  PROVE  Waking'
<1>1. /\ MayYield(s) /\ Register(s, Why(ms)) /\ serial' = serial + 1
      /\ UNCHANGED <<exiting, mailbox, coRpcContexts, dropped>>
  BY DEF Sleep, NewId, serviceVars
<1>a. Why(ms) \in Reasons
  BY WhyLemma
<1>2. PICK id0, n0 : id0 = serial + 1 /\ n0 = nextSession[s]
  OBVIOUS
<1>3. PICK new : new = [service |-> s, session |-> n0, id |-> id0]
  OBVIOUS
<1>4. /\ timers' = IF Why(ms) = "long sleep" THEN timers ELSE timers \cup {new}
      /\ timers' \subseteq timers \cup {new} /\ timers \subseteq timers'
      /\ new.service = s /\ new.session = n0 /\ new.id = id0 /\ serial \in Nat
  BY <1>2, <1>3, Typed, WhyLemma DEF Sleep, SetTimer, NewId
<1>b. \A t \in timers' : t \in timers \/ t = new
  BY <1>4
<1>5. \A r \in Services : \A n, id :
        Sleeper(r, n, id)' <=> Sleeper(r, n, id) \/ (r = s /\ n = n0 /\ id = id0)
  BY <1>1, <1>2, <1>a, NewSleeper
<1>6. /\ \A r, i, id : Mail(r, i, id)' <=> Mail(r, i, id)
      /\ \A r, k, id : Handler(r, k, id)' <=> Handler(r, k, id)
  BY <1>1 DEF Mail, Handler
<1>7. Lead'
  <2>1. \A r \in Services : \A i : Leads(r, i)'
    <3>1. SUFFICES ASSUME NEW r \in Services, NEW i, NEW id, Mail(r, i, id)'
                   PROVE  \E msg : msg = mailbox'[r][i] /\ Sleeper(Target(r, msg), msg.session, id)'
      BY DEF Leads, Target
    <3>2. PICK msg : msg = mailbox[r][i]
      OBVIOUS
    <3>3. Mail(r, i, id)
      BY <1>6, <3>1
    <3>4. Target(r, msg) \in Services /\ Sleeper(Target(r, msg), msg.session, id)
      BY <3>2, <3>3, MailLeads DEF Waking, Lead
    <3>5. Sleeper(Target(r, msg), msg.session, id)'
      BY <1>5, <3>4
    <3> QED
      BY <1>1, <3>2, <3>5
  <2>2. \A r \in Services : \A k : HandlerLeads(r, k)'
    BY <1>1, <1>5, HandlersStay DEF Waking, Lead
  <2>3. \A t \in timers' : Sleeper(t.service, t.session, t.id)'
    <3>1. \A t \in timers : Sleeper(t.service, t.session, t.id)'
      BY <1>5, TimersStay DEF Waking, Lead
    <3>2. Sleeper(new.service, new.session, new.id)'
      BY <1>4, <1>5
    <3> QED
      BY <1>4, <3>1, <3>2
  <2>4. \A id \in dropped' : id <= serial'
    <3>1. SUFFICES ASSUME NEW id \in dropped PROVE id <= serial + 1
      BY <1>1
    <3>2. id \in Nat /\ id <= serial
      BY DEF Waking, Lead, TypeOK
    <3>3. serial \in Nat
      BY <1>4
    <3> QED
      BY <3>2, <3>3
  <2> QED
    BY <2>1, <2>2, <2>3, <2>4 DEF Lead
<1>8. Once'
  <2>1. /\ \A r \in Services : \A i : ~Mail(r, i, id0)
        /\ \A r \in Services : \A k : ~Handler(r, k, id0)
        /\ \A t \in timers : t.id # id0
        /\ id0 \notin dropped
    BY <1>2, NewIdIsFresh
  <2>2. \A t, u \in timers' : t.id = u.id => t = u
    BY <1>4, <1>b, <2>1 DEF Waking, Once
  <2>3. ASSUME NEW t \in timers'
        PROVE  /\ t.id \notin dropped
               /\ \A r \in Services : \A i : ~Mail(r, i, t.id)
               /\ \A r \in Services : \A k : ~Handler(r, k, t.id)
    <3>1. CASE t \in timers
      BY <3>1 DEF Waking, Once
    <3>2. CASE t = new
      BY <1>4, <2>1, <3>2
    <3> QED
      BY <1>b, <3>1, <3>2
  <2> QED
    BY <1>1, <1>6, <2>2, <2>3 DEF Waking, Once
<1>9. Awaited'
  <2>1. ASSUME NEW id, id # id0 PROVE Woken(id)' <=> Woken(id)
    <3>1. (\E t \in timers' : t.id = id) <=> (\E t \in timers : t.id = id)
      BY <1>4, <1>b, <2>1
    <3> QED
      BY <1>1, <1>6, <3>1 DEF Woken
  <2>2. Why(ms) # "long sleep" => Woken(id0)'
    BY <1>4 DEF Woken
  <2>3. Why(ms) = "long sleep" => ~Woken(id0)'
    <3>1. /\ \A r \in Services : \A i : ~Mail(r, i, id0)
          /\ \A r \in Services : \A k : ~Handler(r, k, id0)
          /\ \A t \in timers : t.id # id0
          /\ id0 \notin dropped
      BY <1>2, NewIdIsFresh
    <3> QED
      BY <1>1, <1>4, <1>6, <3>1 DEF Woken
  <2> QED
    BY <1>1, <1>2, <1>a, <2>1, <2>2, <2>3, YieldAwaited DEF Waking
<1> QED
  BY <1>7, <1>8, <1>9 DEF Waking

(* The handlers when one of them, that of coroutine co of s, has answered  *)
(* or is gone.                                                             *)
LEMMA HandlersBut ==
  ASSUME TypeOK, NEW s \in Services, NEW co, \A id : ~Handler(s, co, id)',
         \A r \in Services : r # s => coRpcContexts'[r] = coRpcContexts[r],
         DOMAIN coRpcContexts'[s] \subseteq DOMAIN coRpcContexts[s],
         DOMAIN coRpcContexts[s] \subseteq DOMAIN coRpcContexts'[s] \cup {co},
         \A k \in DOMAIN coRpcContexts[s] : k # co => coRpcContexts'[s][k] = coRpcContexts[s][k]
  PROVE  \A r \in Services : \A k, id :
           /\ Handler(r, k, id)' <=> Handler(r, k, id) /\ ~(r = s /\ k = co)
           /\ Handler(r, k, id)' => coRpcContexts'[r][k] = coRpcContexts[r][k]
<1>1. ASSUME NEW r \in Services, r # s, NEW k, NEW id
      PROVE  (Handler(r, k, id)' <=> Handler(r, k, id)) /\ coRpcContexts'[r][k] = coRpcContexts[r][k]
  BY <1>1 DEF Handler
<1>2. ASSUME NEW k, k # co, NEW id
      PROVE  /\ Handler(s, k, id)' <=> Handler(s, k, id)
             /\ Handler(s, k, id)' => coRpcContexts'[s][k] = coRpcContexts[s][k]
  BY <1>2 DEF Handler
<1> QED
  BY <1>1, <1>2

(* The handlers that are left lead where they led. *)
LEMMA HandlersLead ==
  ASSUME \A r \in Services : \A k : HandlerLeads(r, k), UNCHANGED sessionCoRefs,
         \A r \in Services : \A k, id : Handler(r, k, id)' =>
           Handler(r, k, id) /\ coRpcContexts'[r][k] = coRpcContexts[r][k]
  PROVE  \A r \in Services : \A k : HandlerLeads(r, k)'
<1>1. SUFFICES ASSUME NEW r \in Services, NEW k, NEW id, Handler(r, k, id)'
               PROVE  \E q, n : /\ q = coRpcContexts'[r][k].source /\ n = coRpcContexts'[r][k].session
                                /\ Sleeper(q, n, id)'
  BY DEF HandlerLeads
<1>2. PICK q, n : q = coRpcContexts[r][k].source /\ n = coRpcContexts[r][k].session
  OBVIOUS
<1>3. Sleeper(q, n, id)
  BY <1>1, <1>2 DEF HandlerLeads
<1>4. Sleeper(q, n, id)'
  BY <1>3 DEF Sleeper
<1> QED
  BY <1>1, <1>2, <1>4

(* The first answer: from now on it leads to the call, not the handler. *)
LEMMA RetWakes ==
  ASSUME TypeOK, Waking, NEW s \in Services, Ret(s)
  PROVE  Waking'
<1>1. UNCHANGED <<exiting, serial, sessionCoRefs, timers, dropped>>
  BY DEF Ret
<1>2. PICK co, target, n0, id0 :
        /\ co = Top(s) /\ target = coRpcContexts[s][Top(s)].source
        /\ n0 = coRpcContexts[s][Top(s)].session /\ id0 = coRpcContexts[s][Top(s)].id
  OBVIOUS
<1>3. /\ co \in DOMAIN coRpcContexts[s] /\ ~coRpcContexts[s][co].reted
      /\ target \in Services \ exiting /\ Message("RET", s, n0, id0) \in Messages
      /\ Post(target, Message("RET", s, n0, id0))
      /\ \A r \in Services : r # s => coRpcContexts'[r] = coRpcContexts[r]
      /\ DOMAIN coRpcContexts'[s] = DOMAIN coRpcContexts[s] /\ coRpcContexts'[s][co].reted
      /\ \A k \in DOMAIN coRpcContexts[s] : k # co => coRpcContexts'[s][k] = coRpcContexts[s][k]
  BY <1>2, RetLemma
<1>4. Handler(s, co, id0) /\ Sleeper(target, n0, id0)
  BY <1>2, <1>3 DEF Handler, Waking, Lead, HandlerLeads
<1>5. \A r \in Services : \A k, id :
        /\ Handler(r, k, id)' <=> Handler(r, k, id) /\ ~(r = s /\ k = co)
        /\ Handler(r, k, id)' => coRpcContexts'[r][k] = coRpcContexts[r][k]
  <2>1. \A id : ~Handler(s, co, id)'
    BY <1>3 DEF Handler
  <2> QED
    BY <1>3, <2>1, HandlersBut
<1>6. PICK m \in Messages : /\ m = Message("RET", s, n0, id0) /\ m.kind = "RET"
                            /\ m.session = n0 /\ m.id = id0
  BY <1>3, MessageLemma
<1>7. Post(target, m)
  BY <1>3, <1>6
<1>8. PICK l : Mail(target, l, m.id)' /\ l = Len(mailbox[target]) + 1 /\ \A id : ~Mail(target, l, id)
  BY <1>3, <1>6, <1>7, PostedMail
<1>9. \A r \in Services : \A i, id :
        Mail(r, i, id)' <=> Mail(r, i, id) \/ (r = target /\ i = l /\ id = id0)
  <2>1. /\ \A r \in Services : \A i, id : Mail(r, i, id) => Mail(r, i, id)'
        /\ \A r \in Services : \A i, id : Mail(r, i, id)' =>
             Mail(r, i, id) \/ (r = target /\ i = Len(mailbox[target]) + 1 /\ id = m.id)
    BY <1>3, <1>7, PostMail
  <2> QED
    BY <1>6, <1>8, <2>1
<1>10. \A r, n, id : Sleeper(r, n, id)' <=> Sleeper(r, n, id)
  BY <1>1 DEF Sleeper
<1>11. Lead'
  <2>1. \A r \in Services : \A i : Leads(r, i)'
    <3>1. Sleeper(Target(target, m), m.session, m.id)'
      <4>1. Sleeper(target, m.session, m.id)'
        BY <1>4, <1>6, <1>10
      <4>2. Target(target, m) = target
        BY <1>6 DEF Target
      <4> QED
        BY <4>1, <4>2
    <3>2. \A r \in Services : \A n, id : Sleeper(r, n, id) => Sleeper(r, n, id)'
      BY <1>10
    <3>3. \A r \in Services : \A i : Leads(r, i)
      BY DEF Waking, Lead
    <3> QED
      BY <1>3, <1>7, <3>1, <3>2, <3>3, PostLeads
  <2>2. \A r \in Services : \A k : HandlerLeads(r, k)'
    BY <1>1, <1>5, HandlersLead DEF Waking, Lead
  <2> QED
    BY <1>1, <1>10, <2>1, <2>2 DEF Waking, Lead
<1>12. Once'
  <2>1. /\ \A r \in Services : \A i : ~Mail(r, i, id0)
        /\ \A r \in Services : \A k : ~Handler(r, k, id0)'
        /\ \A t \in timers : t.id # id0
        /\ id0 \notin dropped
    BY <1>4, <1>5 DEF Waking, Once
  <2>2. \A q, r \in Services : \A i, j, id : Mail(q, i, id)' /\ Mail(r, j, id)' => q = r /\ i = j
    BY <1>9, <2>1 DEF Waking, Once
  <2>3. \A q, r \in Services : \A k, j, id : Handler(q, k, id)' /\ Handler(r, j, id)' => q = r /\ k = j
    BY <1>5 DEF Waking, Once
  <2>4. \A r \in Services : \A i, id : Mail(r, i, id)' =>
          /\ id \notin dropped /\ \A t \in timers : t.id # id
          /\ \A q \in Services : \A k : ~Handler(q, k, id)'
    BY <1>5, <1>9, <2>1 DEF Waking, Once
  <2>5. \A r \in Services : \A k, id : Handler(r, k, id)' =>
          id \notin dropped /\ \A t \in timers : t.id # id
    BY <1>5 DEF Waking, Once
  <2> QED
    BY <1>1, <2>2, <2>3, <2>4, <2>5 DEF Waking, Once
<1>13. Awaited'
  <2>1. ASSUME NEW id, Woken(id) PROVE Woken(id)'
    <3>1. CASE id = id0
      BY <1>3, <1>9, <3>1 DEF Woken
    <3>2. CASE id # id0
      <4>1. \A r \in Services : \A k : Handler(r, k, id) => Handler(r, k, id)'
        BY <1>4, <1>5, <3>2 DEF Handler
      <4> QED
        BY <1>1, <1>9, <2>1, <4>1 DEF Woken
    <3> QED
      BY <3>1, <3>2
  <2>2. ASSUME NEW id, Woken(id)' PROVE Woken(id)
    <3>1. Woken(id0)
      BY <1>4 DEF Woken
    <3> QED
      BY <1>1, <1>5, <1>9, <2>2, <3>1 DEF Woken
  <2> QED
    BY <1>1, <2>1, <2>2, AwaitedStays DEF Waking
<1> QED
  BY <1>11, <1>12, <1>13 DEF Waking

(* A handler that ends without an answer drops its call. *)
LEMMA EndWakes ==
  ASSUME TypeOK, IdsAreUnique, Waking, NEW s \in Services, End(s)
  PROVE  Waking'
<1>1. UNCHANGED <<exiting, mailbox, serial, sessionCoRefs, timers>>
  BY DEF End, serviceVars
<1>2. PICK co : co = Top(s)
  OBVIOUS
<1>3. /\ \A r \in Services : r # s => coRpcContexts'[r] = coRpcContexts[r]
      /\ DOMAIN coRpcContexts'[s] = DOMAIN coRpcContexts[s] \ {co}
      /\ \A k \in DOMAIN coRpcContexts[s] : k # co => coRpcContexts'[s][k] = coRpcContexts[s][k]
  BY <1>2, EndLemma
<1>4. \A r \in Services : \A k, id :
        /\ Handler(r, k, id)' <=> Handler(r, k, id) /\ ~(r = s /\ k = co)
        /\ Handler(r, k, id)' => coRpcContexts'[r][k] = coRpcContexts[r][k]
  <2>1. \A id : ~Handler(s, co, id)'
    BY <1>3 DEF Handler
  <2> QED
    BY <1>3, <2>1, HandlersBut
<1>5. \A id : id \in dropped' <=> id \in dropped \/ Handler(s, co, id)
  BY <1>2 DEF End, Handler
<1>6. /\ \A r, i, id : Mail(r, i, id)' <=> Mail(r, i, id)
      /\ \A r, n, id : Sleeper(r, n, id)' <=> Sleeper(r, n, id)
  BY <1>1 DEF Mail, Sleeper
<1>7. Lead'
  <2>1. \A r \in Services : \A i : Leads(r, i)'
    BY <1>1, <1>6 DEF Waking, Lead, Leads
  <2>2. \A r \in Services : \A k : HandlerLeads(r, k)'
    BY <1>1, <1>4, HandlersLead DEF Waking, Lead
  <2>3. ASSUME NEW id, Handler(s, co, id) PROVE id <= serial
    <3>1. coRpcContexts[s][co].source \in Services
      BY <2>3, Typed DEF Handler, Contexts
    <3>2. Sleeper(coRpcContexts[s][co].source, coRpcContexts[s][co].session, id)
      BY <2>3 DEF Waking, Lead, HandlerLeads
    <3> QED
      BY <3>1, <3>2 DEF Sleeper, IdsAreUnique
  <2>4. \A id \in dropped' : id <= serial'
    BY <1>1, <1>5, <2>3 DEF Waking, Lead
  <2> QED
    BY <1>1, <1>6, <2>1, <2>2, <2>4 DEF Waking, Lead
<1>8. Once'
  <2>1. \A q, r \in Services : \A k, j, id : Handler(q, k, id)' /\ Handler(r, j, id)' => q = r /\ k = j
    BY <1>4 DEF Waking, Once
  <2>2. \A t \in timers : t.id \notin dropped'
    BY <1>5 DEF Waking, Once
  <2>3. \A r \in Services : \A i, id : Mail(r, i, id)' =>
          /\ id \notin dropped' /\ \A t \in timers : t.id # id
          /\ \A q \in Services : \A k : ~Handler(q, k, id)'
    BY <1>4, <1>5, <1>6 DEF Waking, Once
  <2>4. \A r \in Services : \A k, id : Handler(r, k, id)' =>
          id \notin dropped' /\ \A t \in timers : t.id # id
    BY <1>4, <1>5 DEF Waking, Once
  <2> QED
    BY <1>1, <1>6, <2>1, <2>2, <2>3, <2>4 DEF Waking, Once
<1>9. Awaited'
  <2>1. \A id : Woken(id) <=> Woken(id)'
    BY <1>1, <1>4, <1>5, <1>6 DEF Woken
  <2> QED
    BY <1>1, <2>1, AwaitedStays DEF Waking
<1> QED
  BY <1>7, <1>8, <1>9 DEF Waking

LEMMA WakingStays ==
  ASSUME NoWrap, TypeOK, SessionsAreNew, IdsAreUnique, CoroutinesInOnePlace, ContextsAreOutermost,
         Waking, [Next]_vars
  PROVE  Waking'
<1> USE DEF serviceVars, tableVars, threadVars
<1>1. TypeOK' /\ serial \in Nat /\ serial' \in Nat /\ dropped \subseteq Nat
  BY Types DEF TypeOK
<1>2. ASSUME UNCHANGED <<mailbox, sessionCoRefs, coRpcContexts, timers, dropped>>,
             exiting \subseteq exiting', serial <= serial'
      PROVE  Waking'
  BY <1>1, <1>2, QuietLemma
<1>3. ASSUME NEW s \in Services, NEW co \in Coroutines, OnCall(s, co) PROVE Waking'
  BY <1>3, SeparateLemma, OnCallWakes
<1>4. ASSUME NEW s \in Services, NEW target \in Services, CallFails(s, target) PROVE Waking'
  <2>1. sessionCoRefs' = sessionCoRefs
    BY <1>4, NextIsFree, FailLemma DEF CallFails
  <2>2. serial' = serial + 1
    BY <1>4 DEF CallFails, NewId
  <2> QED
    BY <1>1, <1>2, <1>4, <2>1, <2>2 DEF CallFails
<1>5. ASSUME NEW s \in Services, KillService(s) PROVE Waking'
  BY <1>1, <1>2, <1>5 DEF KillService
<1>6. ASSUME NEW s \in Services, EndForked(s) \/ \E co \in Coroutines : Fork(s, co) PROVE Waking'
  BY <1>1, <1>2, <1>6 DEF EndForked, Fork
<1>7. CASE UNCHANGED vars
  BY <1>1, <1>2, <1>7 DEF vars
<1>8. ASSUME NEW t \in timers, TimerExpires(t) PROVE Waking'
  BY <1>8, TimerWakes
<1>9. ASSUME NEW s \in Services,
             \/ Send(s) \/ Ret(s) \/ End(s) \/ OnWakeUp(s)
             \/ \E co \in Coroutines : OnSend(s, co)
             \/ \E target \in Services : Call(s, target)
             \/ \E ms \in Naps : Sleep(s, ms)
      PROVE  Waking'
  BY <1>9, SeparateLemma, SendWakes, RetWakes, EndWakes, OnWakeUpWakes, OnSendWakes, CallWakes, SleepWakes
<1> QED
  BY <1>3, <1>4, <1>5, <1>6, <1>7, <1>8, <1>9 DEF Next, Handle, UseApi

-----------------------------------------------------------------------------
(* The properties follow. *)

(* A message that arrives leads to its sleeper, so it finds it. *)
LEMMA WakeUpsFind ==
  TypeOK /\ Lead /\ CoroutinesInOnePlace => WakeUpsFindTheirSleeper
<1> SUFFICES ASSUME TypeOK, Lead, CoroutinesInOnePlace,
                    NEW s \in Services \ exiting, NEW m \in InBox(s),
                    m.kind \in {"RET", "TIMER"}
             PROVE  /\ m.session \in DOMAIN sessionCoRefs[s]
                    /\ sessionCoRefs[s][m.session].id = m.id
                    /\ \/ sessionCoRefs[s][m.session].co \in raised[s]
                       \/ asleep[s][sessionCoRefs[s][m.session].co] = m.id
  BY DEF WakeUpsFindTheirSleeper
<1>1. PICK i \in 1 .. Len(mailbox[s]) : m = mailbox[s][i]
  BY DEF InBox
<1>2. Mail(s, i, m.id)
  BY <1>1 DEF Mail
<1>3. Sleeper(s, m.session, m.id)
  BY <1>1, <1>2 DEF Lead, Leads
<1> QED
  BY <1>3 DEF Sleeper, CoroutinesInOnePlace

(* The trail of a suspension: what leads to it. *)
LEMMA TrailLemma ==
  ASSUME TypeOK, NEW id
  PROVE  \A x : x \in Trail(id) <=>
        \/ \E t \in timers : x = <<"timer", t>> /\ t.id = id
        \/ \E s \in Services : \E i : x = <<mailbox[s][i].kind, s, i>> /\ Mail(s, i, id)
        \/ \E s \in Services : \E co : x = <<"handler", s, co>> /\ Handler(s, co, id)
        \/ x = <<"dropped", id>> /\ id \in dropped
<1>1. \A x : x \in About("TIMER", id) \cup About("CALL", id) \cup About("RET", id) <=>
        \E s \in Services : \E i : x = <<mailbox[s][i].kind, s, i>> /\ Mail(s, i, id)
  <2>1. \A s \in Services : \A i \in 1 .. Len(mailbox[s]) :
          mailbox[s][i].kind # "SEND" <=> mailbox[s][i].kind \in {"TIMER", "CALL", "RET"}
    BY Typed DEF Messages
  <2>2. \A kind, x : x \in About(kind, id) <=>
          \E s \in Services : \E i \in 1 .. Len(mailbox[s]) :
            x = <<kind, s, i>> /\ mailbox[s][i].kind = kind /\ mailbox[s][i].id = id
    BY DEF About
  <2> QED
    BY <2>1, <2>2 DEF Mail
<1>2. \A x : x \in Handlers(id) <=>
        \E s \in Services : \E co : x = <<"handler", s, co>> /\ Handler(s, co, id)
  BY DEF Handlers, Handler
<1> QED
  BY <1>1, <1>2 DEF Trail

(* It has one element if there is such a thing. *)
LEMMA TrailIsOne ==
  ASSUME TypeOK, Once, NEW id, Woken(id)
  PROVE  Cardinality(Trail(id)) = 1
<1>4. PICK w : w \in Trail(id)
  BY TrailLemma DEF Woken
<1>5. ASSUME NEW x \in Trail(id), NEW y \in Trail(id) PROVE x = y
  <2>1. CASE \E t \in timers : x = <<"timer", t>> /\ t.id = id
    BY TrailLemma, <2>1 DEF Once
  <2>2. CASE \E s \in Services : \E i : x = <<mailbox[s][i].kind, s, i>> /\ Mail(s, i, id)
    BY TrailLemma, <2>2 DEF Once
  <2>3. CASE \E s \in Services : \E co : x = <<"handler", s, co>> /\ Handler(s, co, id)
    BY TrailLemma, <2>3 DEF Once
  <2>4. CASE x = <<"dropped", id>> /\ id \in dropped
    BY TrailLemma, <2>4 DEF Once
  <2> QED
    BY TrailLemma, <2>1, <2>2, <2>3, <2>4
<1>6. Trail(id) = {w}
  BY <1>4, <1>5
<1> QED
  BY <1>6, FS_Singleton

LEMMA TrailsAreOne ==
  TypeOK /\ Once /\ Awaited => OneTrail
<1> SUFFICES ASSUME TypeOK, Once, Awaited, NEW s \in Services \ exiting,
                    NEW n \in DOMAIN sessionCoRefs[s]
             PROVE  Cardinality(Trail(sessionCoRefs[s][n].id))
                      = IF sessionCoRefs[s][n].why = "long sleep" THEN 0 ELSE 1
  BY DEF OneTrail
<1>1. CASE sessionCoRefs[s][n].why = "long sleep"
  <2>1. ~Woken(sessionCoRefs[s][n].id)
    BY <1>1 DEF Awaited
  <2>2. Trail(sessionCoRefs[s][n].id) = {}
    BY <2>1, TrailLemma DEF Woken
  <2> QED
    BY <1>1, <2>2, FS_EmptySet
<1>2. CASE sessionCoRefs[s][n].why # "long sleep"
  <2>1. Woken(sessionCoRefs[s][n].id)
    BY <1>2 DEF Awaited
  <2> QED
    BY <1>2, <2>1, TrailIsOne
<1> QED
  BY <1>1, <1>2

-----------------------------------------------------------------------------
(* The invariant. *)
Basis ==
  /\ TypeOK /\ CoroutinesInOnePlace /\ ContextsAreOutermost
  /\ SessionsAreNew /\ IdsAreUnique /\ Waking

LEMMA InitBasis == Init => Basis
<1> SUFFICES ASSUME Init PROVE Basis
  OBVIOUS
<1>1. TypeOK
  BY InitTypes
<1>2. /\ \A s \in Services : /\ mailbox[s] = <<>> /\ stack[s] = <<>> /\ nextSession[s] = 1
                              /\ DOMAIN sessionCoRefs[s] = {} /\ DOMAIN coRpcContexts[s] = {}
      /\ timers = {} /\ dropped = {} /\ serial = 0
      /\ \A s \in Services : \A co \in Coroutines : asleep[s][co] = 0
  BY DEF Init, EmptyTable
<1>3. CoroutinesInOnePlace /\ ContextsAreOutermost
  BY <1>2 DEF CoroutinesInOnePlace, ContextsAreOutermost, Running
<1>4. SessionsAreNew /\ IdsAreUnique
  BY <1>2 DEF SessionsAreNew, IdsAreUnique
<1>5. Waking
  <2>1. \A s \in Services : \A i, id : ~Mail(s, i, id)
    BY <1>2 DEF Mail
  <2>2. \A s \in Services : \A co, id : ~Handler(s, co, id)
    BY <1>2 DEF Handler
  <2> QED
    BY <1>2, <2>1, <2>2 DEF Waking, Lead, Leads, HandlerLeads, Once, Awaited
<1> QED
  BY <1>1, <1>3, <1>4, <1>5 DEF Basis

LEMMA StepBasis ==
  ASSUME NoWrap, Basis, [Next]_vars
  PROVE  Basis'
<1>1. TypeOK'
  BY Types DEF Basis
<1>2. (CoroutinesInOnePlace /\ ContextsAreOutermost)'
  BY Separation DEF Basis
<1>3. (SessionsAreNew /\ IdsAreUnique)'
  BY Numbering DEF Basis
<1>4. Waking'
  BY WakingStays DEF Basis
<1> QED
  BY <1>1, <1>2, <1>3, <1>4 DEF Basis

LEMMA BasisHolds ==
  ASSUME NoWrap
  PROVE  Spec => []Basis
<1>1. Basis /\ [Next]_vars => Basis'
  BY StepBasis
<1> QED
  BY <1>1, InitBasis, PTL DEF Spec

(* Types, wake-ups, trails and coroutines, in all reachable states: the    *)
(* whole inductive invariant that the run checks.                          *)
THEOREM Invariance ==
  ASSUME NoWrap
  PROVE  Spec => []IInv
<1>1. Basis => IInv
  <2> SUFFICES ASSUME Basis PROVE IInv
    OBVIOUS
  <2>1. WakeUpsLead /\ OneWakeUp /\ SleepersAreAwaited
    BY WakingLemma DEF Basis
  <2>2. WakeUpsFindTheirSleeper /\ OneTrail
    BY WakeUpsFind, TrailsAreOne DEF Basis, Waking
  <2> QED
    BY <2>1, <2>2 DEF Basis, IInv, Inv
<1> QED
  BY <1>1, BasisHolds, PTL

(* An answer or a timeout that arrives at a service leads to the coroutine *)
(* it is meant for, and that still waits for it, if none of its yields has *)
(* raised (OnRetMsg, OnTimerMsg, ResumeCoroutineRef).                      *)
THEOREM WakeUpsAreRight ==
  ASSUME NoWrap
  PROVE  Spec => []WakeUpsFindTheirSleeper
<1>1. Basis => WakeUpsFindTheirSleeper
  BY WakeUpsFind DEF Basis, Waking
<1> QED
  BY <1>1, BasisHolds, PTL

(* For every entry of sessionCoRefs of a live service there is one thing   *)
(* that will lead to it, and for that of a long sleep none (LuaApi::Call,  *)
(* Ret, Sleep; OnServiceMsg).                                              *)
THEOREM NobodyIsForgotten ==
  ASSUME NoWrap
  PROVE  Spec => []OneTrail
<1>1. IInv => OneTrail
  BY DEF IInv, Inv
<1> QED
  BY <1>1, Invariance, PTL

(* A coroutine that has yielded can be resumed and does not run; one that  *)
(* runs is in the table only if a yield of it raised; and no context       *)
(* belongs to memory that lua_newthread may give to another                *)
(* (sessionCoRefs, coRpcContexts, lua_yield).                              *)
THEOREM ContextsAreAlive ==
  ASSUME NoWrap
  PROVE  Spec => []CoroutinesInOnePlace
<1>1. Basis => CoroutinesInOnePlace
  BY DEF Basis
<1> QED
  BY <1>1, BasisHolds, PTL
===============================================================================
