------------------------------ MODULE LuaCode ------------------------------
(***************************************************************************)
(* The code generator (lcode.c).  Every luaK_ function is an operator from *)
(* a FuncState to a FuncState.  The expression descriptor most of them     *)
(* take by reference is the field v of the FuncState; functions of two     *)
(* descriptors take the first one as a parameter and the second one in v.  *)
(* A jump list lives, as in the code, in the offsets of the jumps that are *)
(* not patched yet.  Line information, the growth of vectors and the width *)
(* of the instruction's fields are left out, except for the limits below.  *)
(* An error is a flag: luaX_syntaxerror gives up, here the code goes on    *)
(* and is thrown away at the end.                                          *)
(***************************************************************************)
EXTENDS LuaValue

CONSTANTS MAXREGS,            \* registers of a function (255)
          MAXINDEXRK,         \* largest constant an operand can name (255)
          MAXARG_Bx,          \* largest constant OP_LOADK can name (2^18-1)
          MAXARG_C,           \* largest batch OP_SETLIST can name (511)
          LFIELDS_PER_FLUSH   \* array items stored at a time (50)

NO_JUMP == -1
NO_REG  == 255
BITRK   == 256
MULTRET == -1

RKASK(k) == k + BITRK
ISK(r)   == r >= BITRK

I(op, a, b, c) == [op |-> op, A |-> a, B |-> b, C |-> c]
TestMode == {"EQ", "LT", "LE", "TEST", "TESTSET"}

Exp(k, info) == [k |-> k, info |-> info, val |-> Nil, tab |-> 0, idx |-> 0,
                 vt |-> "", t |-> NO_JUMP, f |-> NO_JUMP]
NumExp(val) == [Exp(IF val.tt = "int" THEN "VKINT" ELSE "VKFLT", 0) EXCEPT !.val = val]

NewFuncState == [code |-> <<>>, jpc |-> NO_JUMP, lasttarget |-> 0, freereg |-> 0,
                 maxstack |-> 2, k |-> <<>>, h |-> EmptyTable, v |-> Exp("VVOID", 0),
                 actvar |-> <<>>, nactvar |-> 0, ups |-> <<>>, p |-> <<>>, bl |-> <<>>,
                 gt |-> <<>>, label |-> <<>>, numparams |-> 0, vararg |-> FALSE, ok |-> TRUE, err |-> ""]


pc(F)       == Len(F.code)
Top(F)      == Len(F.code) - 1
InstrOf(F)  == F.code[F.v.info + 1]
Put(F, e)   == [F EXCEPT !.v = e]
Check(F, c) == [F EXCEPT !.ok = @ /\ c]           \* lua_assert
Fail(F, m)  == [F EXCEPT !.err = IF @ = "" THEN m ELSE @]
hasjumps(e) == e.t # e.f
vkisinreg(k) == k \in {"VNONRELOC", "VLOCAL"}
Settled(F, k, info) == [F EXCEPT !.v.k = k, !.v.info = info]

(***************************************************************************)
(* Jumps                                                                   *)
(***************************************************************************)
GetJump(F, j) == IF F.code[j + 1].B = NO_JUMP THEN NO_JUMP ELSE j + 1 + F.code[j + 1].B
FixJump(F, j, dest) == [F EXCEPT !.code[j + 1].B = dest - (j + 1)]

RECURSIVE Jumps(_, _)
Jumps(F, list) == IF list = NO_JUMP THEN <<>> ELSE <<list>> \o Jumps(F, GetJump(F, list))

\* luaK_concat: what it does to the code, and the head of the list it leaves.
Concat(F, l1, l2) ==
    IF l1 = NO_JUMP \/ l2 = NO_JUMP THEN F ELSE FixJump(F, Last(Jumps(F, l1)), l2)
Head1(l1, l2) == IF l1 = NO_JUMP THEN l2 ELSE l1
ConcatT(F, l) == [Concat(F, F.v.t, l) EXCEPT !.v.t = Head1(@, l)]
ConcatF(F, l) == [Concat(F, F.v.f, l) EXCEPT !.v.f = Head1(@, l)]

\* The position of the instruction that controls a jump.
JumpControl(F, j) == IF j >= 1 /\ F.code[j].op \in TestMode THEN j ELSE j + 1

IsTestSet(F, j) == F.code[JumpControl(F, j)].op = "TESTSET"
PatchTestReg(F, j, reg) ==
    LET at == JumpControl(F, j)
        i  == F.code[at]
    IN IF i.op # "TESTSET" THEN F
       ELSE IF reg # NO_REG /\ reg # i.B THEN [F EXCEPT !.code[at].A = reg]
       ELSE [F EXCEPT !.code[at] = I("TEST", i.B, 0, i.C)]

RemoveValues(F, list) == FoldLeft(LAMBDA G, j : PatchTestReg(G, j, NO_REG), F, Jumps(F, list))

PatchListAux(F, list, vtarget, reg, dtarget) ==
    FoldLeft(LAMBDA G, j : FixJump(PatchTestReg(G, j, reg), j,
                                   IF IsTestSet(G, j) THEN vtarget ELSE dtarget),
             F, Jumps(F, list))

DischargeJpc(F) == [PatchListAux(F, F.jpc, pc(F), NO_REG, pc(F)) EXCEPT !.jpc = NO_JUMP]
GetLabel(F) == [F EXCEPT !.lasttarget = pc(F)]
PatchToHere(F, list) ==
    LET G == GetLabel(F) IN [Concat(G, G.jpc, list) EXCEPT !.jpc = Head1(@, list)]
PatchList(F, list, target) ==
    IF target = pc(F) THEN PatchToHere(F, list)
    ELSE PatchListAux(Check(F, target < pc(F)), list, target, NO_REG, target)
PatchClose(F, list, level) ==
    FoldLeft(LAMBDA G, j : [Check(G, G.code[j + 1].op = "JMP" /\
                                     G.code[j + 1].A \in {0} \cup (level + 1)..NO_REG)
                            EXCEPT !.code[j + 1].A = level + 1],
             F, Jumps(F, list))

(***************************************************************************)
(* Instructions, constants and registers                                   *)
(***************************************************************************)
Code(F, i) == [DischargeJpc(F) EXCEPT !.code = Append(@, i)]
CodeABC(F, op, a, b, c) == Code(F, I(op, a, b, c))
\* An instruction whose position the current expression keeps.
CodeExp(F, k, op, b, c) == LET G == CodeABC(F, op, 0, b, c) IN Settled(G, k, Top(G))

\* luaK_jump; the new jump is Top of the result.
Jump(F) == LET G == CodeABC([F EXCEPT !.jpc = NO_JUMP], "JMP", 0, NO_JUMP, 0)
           IN Concat(G, Top(G), F.jpc)
CondJump(F, op, a, b, c) == Jump(CodeABC(F, op, a, b, c))
Ret(F, first, nret) == CodeABC(F, "RETURN", first, nret + 1, 0)
CodeK(F, reg, k) ==
    IF k <= MAXARG_Bx THEN CodeABC(F, "LOADK", reg, k, 0)
    ELSE CodeABC(CodeABC(F, "LOADKX", reg, 0, 0), "EXTRAARG", k, 0, 0)

CodeNil(F, from, n) ==
    LET prev == F.code[pc(F)]
        l    == from + n - 1
        pl   == prev.A + prev.B
        from1 == IF prev.A < from THEN prev.A ELSE from
        l1    == IF pl > l THEN pl ELSE l
    IN IF pc(F) > F.lasttarget /\ prev.op = "LOADNIL" /\
          (from \in prev.A..pl + 1 \/ prev.A \in from..l + 1)
       THEN [F EXCEPT !.code[pc(F)] = I("LOADNIL", from1, l1 - from1, 0)]
       ELSE CodeABC(F, "LOADNIL", from, n - 1, 0)

\* Fault: the last register is given away.
CheckStack_faulty(F, n) ==
    LET new == F.freereg + n
        G   == IF new > MAXREGS THEN Fail(F, "registers") ELSE F
    IN IF new > F.maxstack THEN [G EXCEPT !.maxstack = new] ELSE F
CheckStack(F, n) ==
    LET new == F.freereg + n
        G   == IF new >= MAXREGS THEN Fail(F, "registers") ELSE F
    IN IF new > F.maxstack THEN [G EXCEPT !.maxstack = new] ELSE F
ReserveRegs(F, n) == [CheckStack(F, n) EXCEPT !.freereg = @ + n]
FreeReg(F, r) ==
    IF ISK(r) \/ r < F.nactvar THEN F
    ELSE Check([F EXCEPT !.freereg = @ - 1], r = F.freereg - 1)
RegOf(e) == IF e.k = "VNONRELOC" THEN e.info ELSE -1
FreeExp(F, e) == IF e.k = "VNONRELOC" THEN FreeReg(F, e.info) ELSE F
\* Fault: the first operand's register is freed first, whichever is higher.
FreeExps_faulty(F, e1, e2) == FreeExp(FreeExp(F, e1), e2)
FreeExps(F, e1, e2) == IF RegOf(e1) > RegOf(e2) THEN FreeExp(FreeExp(F, e1), e2)
                                                ELSE FreeExp(FreeExp(F, e2), e1)

\* The key under which the scanner's table (shared by the functions of a
\* chunk) remembers a constant: an integer has a key of its own, for a float
\* would be normalised to the same one.
KeyOf(val) == CASE val.tt = "int" -> [val EXCEPT !.tt = "light"]
                [] val.tt = "flt" -> [val EXCEPT !.tt = "int"]
                [] OTHER -> val
\* addk: F.v becomes the constant's index.
AddK(F, val) ==
    LET key   == KeyOf(val)
        idx   == IF key \in DOMAIN F.h THEN F.h[key] ELSE -1
        reuse == /\ idx \in 0..Len(F.k) - 1
                 /\ ttype(F.k[idx + 1]) = ttype(val)
                 /\ RawEqual(F.k[idx + 1], val)
    IN IF reuse THEN [F EXCEPT !.v.info = idx]
       ELSE [F EXCEPT !.h = (key :> Len(F.k)) @@ @, !.k = Append(@, val), !.v.info = Len(F.k)]

(***************************************************************************)
(* Expressions to values, registers and operands                           *)
(***************************************************************************)
SetReturns(F, nresults) ==
    CASE F.v.k = "VCALL" -> [F EXCEPT !.code[F.v.info + 1].C = nresults + 1]
      [] F.v.k = "VVARARG" ->
           ReserveRegs([F EXCEPT !.code[F.v.info + 1].B = nresults + 1,
                                 !.code[F.v.info + 1].A = F.freereg], 1)
      [] OTHER -> Check(F, nresults = MULTRET)
SetOneRet(F) ==
    CASE F.v.k = "VCALL" -> Check(Settled(F, "VNONRELOC", InstrOf(F).A), InstrOf(F).C = 2)
      [] F.v.k = "VVARARG" -> [F EXCEPT !.code[F.v.info + 1].B = 2, !.v.k = "VRELOCABLE"]
      [] OTHER -> F

DischargeVars(F) ==
    CASE F.v.k = "VLOCAL" -> [F EXCEPT !.v.k = "VNONRELOC"]
      [] F.v.k = "VUPVAL" -> CodeExp(F, "VRELOCABLE", "GETUPVAL", F.v.info, 0)
      [] F.v.k = "VINDEXED" ->
           LET G == FreeReg(F, F.v.idx)
           IN IF F.v.vt = "VLOCAL"
              THEN CodeExp(FreeReg(G, F.v.tab), "VRELOCABLE", "GETTABLE", F.v.tab, F.v.idx)
              ELSE CodeExp(G, "VRELOCABLE", "GETTABUP", F.v.tab, F.v.idx)
      [] F.v.k \in {"VVARARG", "VCALL"} -> SetOneRet(F)
      [] OTHER -> F

Discharge2Reg(F, reg) ==
    LET G == DischargeVars(F)
        H == CASE G.v.k = "VNIL" -> CodeNil(G, reg, 1)
               [] G.v.k \in {"VFALSE", "VTRUE"} ->
                    CodeABC(G, "LOADBOOL", reg, IF G.v.k = "VTRUE" THEN 1 ELSE 0, 0)
               [] G.v.k = "VK" -> CodeK(G, reg, G.v.info)
               [] G.v.k \in {"VKFLT", "VKINT"} ->
                    LET A == AddK(G, G.v.val) IN CodeK(A, reg, A.v.info)
               [] G.v.k = "VRELOCABLE" -> [G EXCEPT !.code[G.v.info + 1].A = reg]
               [] G.v.k = "VNONRELOC" /\ reg # G.v.info -> CodeABC(G, "MOVE", reg, G.v.info, 0)
               [] OTHER -> Check(G, G.v.k \in {"VNONRELOC", "VJMP"})
    IN IF G.v.k = "VJMP" THEN H ELSE Settled(H, "VNONRELOC", reg)
Discharge2AnyReg(F) ==
    IF F.v.k = "VNONRELOC" THEN F
    ELSE LET G == ReserveRegs(F, 1) IN Discharge2Reg(G, G.freereg - 1)

CodeLoadBool(F, a, b, jump) == CodeABC(GetLabel(F), "LOADBOOL", a, b, jump)
NeedValue(F, list) == \E j \in ToSet(Jumps(F, list)) : ~IsTestSet(F, j)

Exp2Reg(F, reg) ==
    LET G  == Discharge2Reg(F, reg)
        H  == IF G.v.k = "VJMP" THEN ConcatT(G, G.v.info) ELSE G
        need == NeedValue(H, H.v.t) \/ NeedValue(H, H.v.f)
        fj == IF H.v.k = "VJMP" THEN H ELSE Jump(H)
        pf == CodeLoadBool(fj, reg, 0, 1)
        pt == CodeLoadBool(pf, reg, 1, 0)
        L  == GetLabel(IF need THEN PatchToHere(pt, IF H.v.k = "VJMP" THEN NO_JUMP ELSE Top(fj))
                               ELSE H)
        P  == PatchListAux(L, H.v.f, pc(L), reg, IF need THEN Top(pf) ELSE NO_JUMP)
    IN IF ~hasjumps(H.v) THEN Put(H, Exp("VNONRELOC", reg))
       ELSE Put(PatchListAux(P, H.v.t, pc(L), reg, IF need THEN Top(pt) ELSE NO_JUMP),
                Exp("VNONRELOC", reg))

Exp2NextReg(F) ==
    LET G == DischargeVars(F)
        H == ReserveRegs(FreeExp(G, G.v), 1)
    IN Exp2Reg(H, H.freereg - 1)
Exp2AnyReg(F) ==
    LET G == DischargeVars(F)
    IN IF G.v.k = "VNONRELOC" /\ ~hasjumps(G.v) THEN G
       ELSE IF G.v.k = "VNONRELOC" /\ G.v.info >= G.nactvar THEN Exp2Reg(G, G.v.info)
       ELSE Exp2NextReg(G)
Exp2AnyRegUp(F) == IF F.v.k # "VUPVAL" \/ hasjumps(F.v) THEN Exp2AnyReg(F) ELSE F
Exp2Val(F) == IF hasjumps(F.v) THEN Exp2AnyReg(F) ELSE DischargeVars(F)

ConstantOf(e) == CASE e.k = "VTRUE" -> True [] e.k = "VFALSE" -> False
                   [] e.k = "VNIL" -> Nil [] OTHER -> e.val
\* luaK_exp2RK: leaves a VK that fits an operand, or a register.
Exp2RK(F) ==
    LET G == Exp2Val(F)
        H == CASE G.v.k \in {"VTRUE", "VFALSE", "VNIL", "VKINT", "VKFLT"} ->
                    LET A == AddK(G, ConstantOf(G.v)) IN Settled(A, "VK", A.v.info)
               [] OTHER -> G
    IN IF H.v.k = "VK" /\ H.v.info <= MAXINDEXRK THEN H ELSE Exp2AnyReg(H)
RK(e) == IF e.k = "VK" THEN RKASK(e.info) ELSE e.info

StoreVar(F, var) ==
    CASE var.k = "VLOCAL" -> Exp2Reg(FreeExp(F, F.v), var.info)
      [] var.k = "VUPVAL" ->
           LET G == Exp2AnyReg(F)
           IN FreeExp(CodeABC(G, "SETUPVAL", G.v.info, var.info, 0), G.v)
      [] OTHER ->
           LET G == Exp2RK(F)
               op == IF var.vt = "VLOCAL" THEN "SETTABLE" ELSE "SETTABUP"
           IN FreeExp(CodeABC(G, op, var.tab, var.idx, RK(G.v)), G.v)

Self(F, key) ==
    LET G == Exp2AnyReg(F)
        H == ReserveRegs(FreeExp(G, G.v), 2)
        K == Exp2RK(Put(H, key))
        S == FreeExp(CodeABC(K, "SELF", H.freereg - 2, G.v.info, RK(K.v)), K.v)
    IN Put(S, [G.v EXCEPT !.k = "VNONRELOC", !.info = H.freereg - 2])

Indexed(F, t) ==
    LET G == Exp2RK(F)
    IN Check(Put(G, [t EXCEPT !.k = "VINDEXED", !.tab = t.info, !.idx = RK(G.v),
                              !.vt = IF t.k = "VUPVAL" THEN "VUPVAL" ELSE "VLOCAL"]),
             ~hasjumps(t) /\ (vkisinreg(t.k) \/ t.k = "VUPVAL"))

(***************************************************************************)
(* Conditions and operators                                                *)
(***************************************************************************)
NegateCondition(F) ==
    LET at == JumpControl(F, F.v.info)
    IN Check([F EXCEPT !.code[at].A = 1 - @], F.code[at].op \in {"EQ", "LT", "LE"})

\* The new jump is Top of the result.
JumpOnCond(F, cond) ==
    IF F.v.k = "VRELOCABLE" /\ InstrOf(F).op = "NOT"
    THEN CondJump([F EXCEPT !.code = Front(@)], "TEST", InstrOf(F).B, 0, 1 - cond)
    ELSE LET G == Discharge2AnyReg(F)
         IN CondJump(FreeExp(G, G.v), "TESTSET", NO_REG, G.v.info, cond)

AlwaysTrue  == {"VK", "VKFLT", "VKINT", "VTRUE"}
AlwaysFalse == {"VNIL", "VFALSE"}
GoIfTrue(F) ==
    LET G == DischargeVars(F)
        H == CASE G.v.k = "VJMP" -> LET N == NegateCondition(G) IN ConcatF(N, N.v.info)
               [] G.v.k \in AlwaysTrue -> G
               [] OTHER -> LET J == JumpOnCond(G, 0) IN ConcatF(J, Top(J))
    IN [PatchToHere(H, H.v.t) EXCEPT !.v.t = NO_JUMP]
GoIfFalse(F) ==
    LET G == DischargeVars(F)
        H == CASE G.v.k = "VJMP" -> ConcatT(G, G.v.info)
               [] G.v.k \in AlwaysFalse -> G
               [] OTHER -> LET J == JumpOnCond(G, 1) IN ConcatT(J, Top(J))
    IN [PatchToHere(H, H.v.f) EXCEPT !.v.f = NO_JUMP]

CodeNot(F) ==
    LET G == DischargeVars(F)
        H == CASE G.v.k \in AlwaysFalse -> [G EXCEPT !.v.k = "VTRUE"]
               [] G.v.k \in AlwaysTrue -> [G EXCEPT !.v.k = "VFALSE"]
               [] G.v.k = "VJMP" -> NegateCondition(G)
               [] OTHER -> LET A == Discharge2AnyReg(G)
                           IN CodeExp(FreeExp(A, A.v), "VRELOCABLE", "NOT", A.v.info, 0)
        X == [H EXCEPT !.v.f = H.v.t, !.v.t = H.v.f]
    IN RemoveValues(RemoveValues(X, X.v.f), X.v.t)

tonumeral(e) == ~hasjumps(e) /\ e.k \in {"VKINT", "VKFLT"}
\* constfolding: the folded value, NoFold when the operation is not safe to
\* do now.  A float zero is never folded, for it could be a negative one.
NoFold == Nil
ConstFolding(op, e1, e2) ==
    IF ~tonumeral(e1) \/ ~tonumeral(e2) \/ (op \in {"IDIV", "MOD"} /\ e2.val.i = 0)
    THEN NoFold
    ELSE LET res == Arith(op, e1.val, e2.val)
         IN IF res.tt = "flt" /\ res.i = 0 THEN NoFold ELSE res

CodeUnExpVal(F, op) ==
    LET G == Exp2AnyReg(F) IN CodeExp(FreeExp(G, G.v), "VRELOCABLE", op, G.v.info, 0)
CodeBinExpVal(F, op, e1) ==
    LET G == Exp2RK(F)
        H == Exp2RK(Put(G, e1))
    IN CodeExp(FreeExps(H, H.v, G.v), "VRELOCABLE", op, RK(H.v), RK(G.v))
CodeComp(F, op, e1) ==
    LET G == Exp2RK(F)
        H == Check(Put(FreeExps(G, e1, G.v), e1), e1.k \in {"VK", "VNONRELOC"})
        J == CASE op = "NE" -> CondJump(H, "EQ", 0, RK(e1), RK(G.v))
               [] op = "GT" -> CondJump(H, "LT", 1, RK(G.v), RK(e1))
               [] op = "GE" -> CondJump(H, "LE", 1, RK(G.v), RK(e1))
               [] OTHER     -> CondJump(H, op, 1, RK(e1), RK(G.v))
    IN Settled(J, "VJMP", Top(J))

ArithOps   == {"ADD", "SUB", "MUL", "IDIV", "MOD"}
CompareOps == {"EQ", "NE", "LT", "LE", "GT", "GE"}

Prefix(F, op) ==
    LET folded == ConstFolding("UNM", F.v, NumExp(Ival(0)))
    IN CASE op = "NOT" -> CodeNot(F)
         [] op = "UNM" /\ folded # NoFold -> Put(F, NumExp(folded))
         [] OTHER -> CodeUnExpVal(F, op)

Infix(F, op) ==
    CASE op = "AND" -> GoIfTrue(F)
      [] op = "OR"  -> GoIfFalse(F)
      [] op = "CONCAT" -> Exp2NextReg(F)
      [] op \in ArithOps /\ tonumeral(F.v) -> F
      [] OTHER -> Exp2RK(F)

PosFix(F, op, e1) ==
    CASE op = "AND" -> Check(ConcatF(DischargeVars(F), e1.f), e1.t = NO_JUMP)
      [] op = "OR"  -> Check(ConcatT(DischargeVars(F), e1.t), e1.f = NO_JUMP)
      [] op = "CONCAT" ->
           LET G == Exp2Val(F)
           IN IF G.v.k = "VRELOCABLE" /\ InstrOf(G).op = "CONCAT"
              THEN Check([FreeExp(G, e1) EXCEPT !.code[G.v.info + 1].B = e1.info,
                                                !.v = [e1 EXCEPT !.k = "VRELOCABLE",
                                                                 !.info = G.v.info]],
                         e1.info = InstrOf(G).B - 1)
              ELSE CodeBinExpVal(Exp2NextReg(G), "CONCAT", e1)
      [] op \in ArithOps ->
           LET folded == ConstFolding(op, e1, F.v)
           IN IF folded # NoFold THEN Put(F, NumExp(folded)) ELSE CodeBinExpVal(F, op, e1)
      [] OTHER -> CodeComp(F, op, e1)

SetList(F, base, nelems, tostore) ==
    LET c == (nelems - 1) \div LFIELDS_PER_FLUSH + 1
        b == IF tostore = MULTRET THEN 0 ELSE tostore
        G == Check(F, tostore # 0 /\ tostore <= LFIELDS_PER_FLUSH)
        H == IF c <= MAXARG_C THEN CodeABC(G, "SETLIST", base, b, c)
             ELSE CodeABC(CodeABC(G, "SETLIST", base, b, 0), "EXTRAARG", c, 0, 0)
    IN [H EXCEPT !.freereg = base + 1]
=============================================================================
