----------------------------- MODULE MCLuaCalls -----------------------------
\* Two coroutines, a C function without a continuation under pcall and one with a
\* continuation in the body of a coroutine; "c" is resumed and "d" wrapped.
EXTENDS LuaCalls

MCFunctions ==
    {<<"pcall", <<"callback", Lua>>>>, <<"xpcall", Lua>>, <<"yield">>, <<"resume", "c">>, <<"wrap", "d">>}
MCTailCalled == {Lua, <<"yield">>, <<"wrap", "d">>}
MCBodies == {<<"pcall", <<"dofile", Lua>>>>}
=============================================================================
