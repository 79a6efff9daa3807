------------------------------- MODULE LuaMap -------------------------------
(***************************************************************************)
(* What a Lua table promises: a map from keys to values, a length that is  *)
(* a border, a traversal that visits every field once while fields may be  *)
(* changed and cleared, and references to values (luaL_ref) that no two    *)
(* holders share.                                                          *)
(***************************************************************************)
EXTENDS Integers

CONSTANTS Keys, Values, Nil

VARIABLES
    map,    \* the value of each key, or Nil
    seen,   \* the keys that the traversal has visited; Nil without one
    refs    \* the references that luaL_ref gave out, with their values

vars == <<map, seen, refs>>

Present == {k \in Keys : map[k] # Nil}

Init == /\ map \in [Keys -> Values \cup {Nil}]
        /\ seen = Nil
        /\ refs = [r \in {} |-> Nil]

\* A field that is not there may not be assigned to during a traversal.
Assign(k) == /\ seen # Nil => map[k] # Nil
             /\ map'[k] \in Values \cup {Nil}
             /\ \A x \in Keys \ {k} : map'[x] = map[x]
             /\ UNCHANGED <<seen, refs>>

Begin == /\ seen = Nil
         /\ seen' = {}
         /\ UNCHANGED <<map, refs>>
Visit(k) == /\ seen # Nil
            /\ k \in Present \ seen
            /\ seen' = seen \cup {k}
            /\ UNCHANGED <<map, refs>>
End == /\ seen # Nil
       /\ Present \subseteq seen
       /\ seen' = Nil
       /\ UNCHANGED <<map, refs>>

\* How the table keeps track of the free references is its own affair, and so
\* are the values of the keys that no reference uses.
Ref(r, v) == /\ r \notin DOMAIN refs
             /\ refs' = [x \in DOMAIN refs \cup {r} |-> IF x = r THEN v ELSE refs[x]]
             /\ map'[r] = v
             /\ \A x \in DOMAIN refs : map'[x] = map[x]
             /\ UNCHANGED seen
Unref(r) == /\ r \in DOMAIN refs
            /\ refs' = [x \in DOMAIN refs \ {r} |-> refs[x]]
            /\ \A x \in DOMAIN refs' : map'[x] = map[x]
            /\ UNCHANGED seen

Next == \/ \E k \in Keys : Assign(k)
        \/ Begin
        \/ \E k \in Keys : Visit(k)
        \/ End
        \/ \E r \in Keys, v \in Values : Ref(r, v)
        \/ \E r \in Keys : Unref(r)

Spec == Init /\ [][Next]_vars
=============================================================================
