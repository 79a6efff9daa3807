----------------------------- MODULE MCLuaTable -----------------------------
EXTENDS LuaTable, TLC

CONSTANTS one, name, p

MCFloats == one :> 1
MCStrings == name :> 1
MCPointers == p :> 3
=============================================================================
