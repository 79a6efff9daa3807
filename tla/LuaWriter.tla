------------------------------ MODULE LuaWriter ------------------------------
(***************************************************************************)
(* A text is written piece by piece and then handed to Lua: what the file  *)
(* of a service may hold, or what a program may give to the libraries.     *)
(*                                                                         *)
(* A theme is a set of texts: their kind, the pieces before and after, the *)
(* simple pieces and the heads of blocks that may be written between them, *)
(* and how many.  work holds the blocks that are open, the innermost last; *)
(* done says that Lua has done its part.                                   *)
(***************************************************************************)
EXTENDS Integers, Sequences, SequencesExt

CONSTANT Themes

VARIABLES theme, work, size, done

vars == <<theme, work, size, done>>

-----------------------------------------------------------------------------

ThemeKind == Themes[theme].kind
Inner == Last(work)
Add(blocks, stat) == [blocks EXCEPT ![Len(blocks)].stats = Append(@, stat)]
Built(head, stats) ==
    IF head[1] = "if" /\ Len(head) = 2 THEN Append(Append(head, stats), <<>>) ELSE Append(head, stats)
CanAdd ==
    /\ ~done
    /\ size < Themes[theme].size
    /\ ThemeKind = "program" /\ Inner.stats # <<>> => Last(Inner.stats)[1] # "return"

Init ==
    /\ theme \in DOMAIN Themes
    /\ work = <<[head |-> <<"chunk">>, stats |-> <<>>]>>
    /\ size = 0
    /\ done = FALSE

Write ==
    /\ CanAdd
    /\ \E stat \in Themes[theme].simple : work' = Add(work, stat)
    /\ size' = size + 1
    /\ UNCHANGED <<theme, done>>

Open ==
    /\ CanAdd
    /\ \E head \in Themes[theme].heads : work' = Append(work, [head |-> head, stats |-> <<>>])
    /\ size' = size + 1
    /\ UNCHANGED <<theme, done>>

Else ==
    /\ ~done
    /\ Inner.head[1] = "if"
    /\ Len(Inner.head) = 2
    /\ work' = Append(Front(work), [head |-> Append(Inner.head, Inner.stats), stats |-> <<>>])
    /\ UNCHANGED <<theme, size, done>>

Close ==
    /\ ~done
    /\ Len(work) > 1
    /\ work' = Add(Front(work), Built(Inner.head, Inner.stats))
    /\ UNCHANGED <<theme, size, done>>

\* lua_load and what follows.
DoFile ==
    /\ ~done
    /\ Len(work) = 1
    /\ done' = TRUE
    /\ UNCHANGED <<theme, work, size>>

Next == Write \/ Open \/ Else \/ Close \/ DoFile

Spec == Init /\ [][Next]_vars

-----------------------------------------------------------------------------

Written == Themes[theme].before \o work[1].stats \o Themes[theme].after
=============================================================================
