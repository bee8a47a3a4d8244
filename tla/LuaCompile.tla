----------------------------- MODULE LuaCompile -----------------------------
(***************************************************************************)
(* A chunk from its text to its effect: a program of Programs is read and  *)
(* compiled (lua_load) and the main function is run (lua_call) by the      *)
(* virtual machine, to the end or to an error.                             *)
(***************************************************************************)
EXTENDS LuaVM, LuaMeaning
CONSTANTS Programs,    \* the syntax trees of the programs
          TooBig,      \* those that go beyond a limit of the compiler
          Arguments,   \* what they are called with
          Read(_)      \* ReadProgram
VARIABLE program       \* the tree, and what the manual says it means

\* luaY_parser reads the tokens of a program.
ReadProgram(tree) ==
    LET legal == Legal(tree) /\ tree \notin TooBig IN
    [program |-> [tree |-> tree, legal |-> legal, meaning |-> IF legal THEN Meaning(tree, Arguments) ELSE <<>>],
     main    |-> MainFunc(Tokens(tree))]

Init == /\ program \in {[tree |-> p] : p \in Programs}
        /\ main = [ok |-> TRUE, err |-> "not read"]
        /\ vm = [st |-> "idle"]

\* lua_load reads the program, and lua_call calls the main function.
Load == /\ vm.st = "idle"
        /\ LET read == Read(program.tree)
           IN main' = read.main /\ program' = read.program
        /\ vm' = Start(main', Arguments)

Next == Load \/ (Step /\ UNCHANGED program)
Spec == Init /\ [][Next]_<<program, main, vm>>

Stopped == vm.st \in {"done", "error"}

\* A program does what the manual says it means (LuaMeaning), whatever the
\* compiler folds, shares, reuses, reorders or jumps over: what it prints and
\* returns, and whether it fails.  A program that is not legal, or one step
\* beyond a limit, is refused; one that just fits is not (lparser.c, lcode.c,
\* lvm.c).
RunsAsMeant ==
    Stopped => IF program.legal
               THEN main.err = "" /\ [out |-> vm.out, st |-> vm.st] = program.meaning
               ELSE main.err # ""

\* The lua_asserts of the parser and the code generator hold: registers are
\* freed in the reverse order of their use, each list of jumps has been
\* patched, blocks and functions leave nothing behind.
AssertionsHold == main.ok \/ main.err # ""

\* The instructions whose A is a register (lopcodes.c).
RegisterA == {"MOVE", "LOADK", "LOADKX", "LOADBOOL", "LOADNIL", "GETUPVAL", "GETTABUP", "GETTABLE",
              "SETUPVAL", "SETTABLE", "NEWTABLE", "SELF", "ADD", "SUB", "MUL", "IDIV", "MOD",
              "UNM", "NOT", "LEN", "CONCAT", "TEST", "TESTSET", "CALL", "TAILCALL", "RETURN",
              "FORLOOP", "FORPREP", "TFORCALL", "TFORLOOP", "SETLIST", "CLOSURE", "VARARG"}
Consumes(i) == i.op \in {"CALL", "TAILCALL", "RETURN", "SETLIST"} /\ i.B = 0
OpenResult(i) == (i.op \in {"CALL", "TAILCALL"} /\ i.C = 0) \/ (i.op = "VARARG" /\ i.B = 0)
LastReg(i) ==
    CASE i.op \in {"LOADNIL"} -> i.A + i.B
      [] i.op \in {"CALL", "TAILCALL"} -> IF i.B = 0 THEN i.A ELSE i.A + i.B - 1
      [] i.op = "RETURN" -> IF i.B = 0 THEN i.A ELSE i.A + i.B - 2
      [] i.op = "SELF" -> i.A + 1
      [] i.op \in {"FORLOOP", "FORPREP"} -> i.A + 3
      [] i.op = "TFORCALL" -> i.A + 2 + (IF i.C > 3 THEN i.C ELSE 3)
      [] i.op = "CONCAT" -> i.C
      [] OTHER -> i.A

RECURSIVE SoundCode(_)
SoundCode(p) ==
    /\ p.code[Len(p.code)] = I("RETURN", 0, 1, 0)
    /\ \A n \in DOMAIN p.code :
          LET i == p.code[n] next == p.code[n + 1] IN
          /\ i.op \in RegisterA => LastReg(i) < p.maxstack
          /\ i.op \in {"JMP", "FORLOOP", "FORPREP", "TFORLOOP"} => n + 1 + i.B \in DOMAIN p.code
          /\ i.op \in TestMode => next.op = "JMP"
          /\ i.op = "LOADKX" \/ (i.op = "SETLIST" /\ i.C = 0) => next.op = "EXTRAARG"
          /\ OpenResult(i) => Consumes(next)
          /\ Consumes(i) => n > 1 /\ OpenResult(p.code[n - 1])
    /\ p.maxstack < MAXREGS
    /\ \A n \in DOMAIN p.p : SoundCode(p.p[n])

\* What luaV_execute takes for granted about code (lopcodes.h, the lua_asserts
\* of lvm.c): the registers an instruction names lie in the frame (maxstack),
\* jumps stay in the function, a test is followed by a jump and LOADKX by its
\* argument, and an open number of values is used by the next instruction.
CodeIsSound == main.err = "" => SoundCode(Proto(main))
=============================================================================
