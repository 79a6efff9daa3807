------------------------------ MODULE MCLuaGC ------------------------------
EXTENDS LuaGC, TLC

CONSTANTS t1, t2, fn, co, s1, s2

\* s2 is a new object for the content of s1.
MCStrings == s1 :> "content" @@ s2 :> "content"
MCPopulations == {{t1, t2}, {co, fn}, {t1, s1}}
=============================================================================
