----------------------------- MODULE LuaPrograms -----------------------------
(***************************************************************************)
(* A chunk is written, compiled (LuaParser, LuaCode) and executed (LuaVM),  *)
(* as lua_load and lua_pcall of src/3rd/lua-5.3.5 do with the file of a     *)
(* service; the properties compare the outcome with what the program means *)
(* (LuaMeaning).                                                           *)
(***************************************************************************)
EXTENDS LuaWriter, LuaParser

CONSTANTS
    StackSize,    \* LUAI_MAXSTACK
    Instructions, \* bound: instructions that are executed
    Steps         \* bound: statements that LuaMeaning executes

VM == INSTANCE LuaVM
Ref == INSTANCE LuaMeaning

\* lua_load and lua_pcall.
Unit == Parse(Ref!Lines(Written))
Outcome(unit) == VM!Main(Proto(unit.f), Instructions)

-----------------------------------------------------------------------------
(* Properties. *)

Shape(v) == IF v[1] \in {"table", "function"} THEN <<v[1]>> ELSE v
Shapes(vals) == [i \in DOMAIN vals |-> Shape(vals[i])]
Holds(table) == {<<k, Shape(table[k])>> : k \in {k \in DOMAIN table : table[k] # VM!Nil}}
Values(m) == IF m.sig = "return" THEN m.vals ELSE <<>>
Agrees(m, vm) ==
    CASE m.sig = "fuel"  -> TRUE
      [] m.sig = "error" -> vm.error # ""
      [] OTHER           -> /\ vm.error = "" /\ vm.ci = <<>>
                            /\ Shapes(vm.results) = Shapes(Values(m))
                            /\ Holds(vm.tables[1]) = Holds(m.tables[1])

\* A compiled program does what its text says: it fails when the program does, and
\* otherwise returns its values and leaves its globals (luaY_parser, lcode.c and
\* luaV_execute together).
ProgramsKeepTheirMeaning ==
    [][DoFile /\ ThemeKind = "program" => LET unit == Unit
                 IN  unit.error = "" => Agrees(Ref!Meaning(Written, Steps), Outcome(unit))]_vars

\* The parser accepts a program exactly when every break is in a loop and every goto
\* sees its label without entering the scope of a local (findgotos and findlabel see
\* them one at a time, in the order of the text).
AcceptsTheLegal == [][DoFile /\ ThemeKind = "program" => (Unit.error = "" <=> Ref!Legal(Written))]_vars

-----------------------------------------------------------------------------

RegA == {"MOVE", "LOADK", "LOADBOOL", "LOADNIL", "GETUPVAL", "GETTABUP", "GETTABLE", "SETUPVAL", "SETTABLE",
         "NEWTABLE", "SELF", "ADD", "SUB", "MUL", "IDIV", "MOD", "UNM", "NOT", "LEN", "CONCAT", "TEST",
         "TESTSET", "CALL", "TAILCALL", "FORLOOP", "FORPREP", "TFORCALL", "SETLIST", "CLOSURE", "VARARG"}
RegB == {"MOVE", "GETTABLE", "SELF", "UNM", "NOT", "LEN", "CONCAT", "TESTSET"}
OperandB == {"SETTABUP", "SETTABLE", "ADD", "SUB", "MUL", "IDIV", "MOD", "EQ", "LT", "LE"}
OperandC == OperandB \cup {"GETTABUP", "GETTABLE", "SELF"}
Jumping == {"JMP", "FORLOOP", "FORPREP", "TFORLOOP"}

\* The results of the instruction reach up to the top, which the next one must use.
OpenEnded(i) == (i.op \in {"CALL", "TAILCALL"} /\ i.c = 0) \/ (i.op = "VARARG" /\ i.b = 0)
UsesTop(i) == i.op \in {"CALL", "TAILCALL", "RETURN", "SETLIST"} /\ i.b = 0

SoundAt(p, pc) ==
    LET i == p.code[pc + 1]
        reg(r) == r < p.maxstacksize
        rk(r) == IF IsK(r) THEN r - BitRK < Len(p.k) ELSE reg(r)
    IN  /\ i.op \in RegA => reg(i.a)
        /\ i.op \in RegB => reg(i.b)
        /\ i.op \in OperandB => rk(i.b)
        /\ i.op \in OperandC => rk(i.c)
        /\ i.op = "LOADK" => i.b < Len(p.k)
        /\ i.op = "CLOSURE" => i.b < Len(p.p)
        /\ i.op \in {"GETUPVAL", "SETUPVAL", "GETTABUP"} => i.b < Len(p.ups)
        /\ i.op = "LOADNIL" => reg(i.a + i.b)
        /\ i.op = "SELF" => reg(i.a + 1)
        /\ i.op \in Jumping => pc + 1 + i.b \in 0 .. Len(p.code) - 1
        /\ i.op \in Test => p.code[pc + 2].op = "JMP"
        /\ OpenEnded(i) => UsesTop(p.code[pc + 2])
        /\ pc > 0 /\ UsesTop(i) => OpenEnded(p.code[pc])

RECURSIVE Sound(_)
Sound(p) ==
    /\ Last(p.code).op = "RETURN"
    /\ \A pc \in 0 .. Len(p.code) - 1 : SoundAt(p, pc)
    /\ \A i \in DOMAIN p.p : Sound(p.p[i])

\* Every lua_assert of the code generator holds, and the code it makes is code that the
\* interpreter can execute without checks: its registers are in the frame, its
\* constants and upvalues exist, a test is followed by its jump and open results by
\* the instruction that takes them.
CodeIsSound == 
    [][DoFile /\ ThemeKind = "program" => LET unit == Unit IN unit.asserts /\ (unit.error = "" => Sound(Proto(unit.f)))]_vars
=============================================================================
