------------------------------ MODULE LuaValue ------------------------------
(***************************************************************************)
(* Values and the operations on them that the compiler (constant folding)  *)
(* and the virtual machine share: lobject.h, lobject.c, lvm.c.             *)
(*                                                                         *)
(* A value has a variant tt, a payload i and, for a string, a text s.  An  *)
(* integer wraps around at MAXINTEGER.  A float holds a number of halves:  *)
(* enough to tell a float with an integral value from an integer, and from *)
(* a float without one.                                                    *)
(***************************************************************************)
EXTENDS Integers, Sequences, SequencesExt, FiniteSets, TLC

CONSTANTS MAXINTEGER,
          Numeral,           \* the numeral tokens, and their values
          StringToken        \* the string tokens, and their values

Val(tt, i, s) == [tt |-> tt, i |-> i, s |-> s]
Nil     == Val("nil", 0, "")
Bool(b) == Val("bool", IF b THEN 1 ELSE 0, "")
True    == Bool(TRUE)
False   == Bool(FALSE)
Ival(n)  == Val("int", n, "")
Flt(h)  == Val("flt", h, "")
Str(s)  == Val("str", 0, s)
EmptyTable == <<>>

\* ttype: the type, without the variant.
ttype(o)   == IF o.tt \in {"int", "flt"} THEN "number" ELSE o.tt
l_isfalse(o) == o = Nil \/ o = False
ttisnumber(o) == ttype(o) = "number"
Halves(o)  == IF o.tt = "int" THEN 2 * o.i ELSE o.i      \* cast_num

MININTEGER == -MAXINTEGER - 1
Wrap(n)    == ((n - MININTEGER) % (2 * (MAXINTEGER + 1))) + MININTEGER
FitsInt(n) == n \in MININTEGER..MAXINTEGER

Abs(n) == IF n < 0 THEN -n ELSE n
Sign(n) == IF n < 0 THEN -1 ELSE 1
\* Division and remainder of C: the quotient is truncated.
CQuot(m, n) == Sign(m) * Sign(n) * (Abs(m) \div Abs(n))
CRem(m, n)  == m - n * CQuot(m, n)

\* luaV_div and luaV_mod; a division by zero has been dealt with.
VDiv(m, n) ==
    IF n = -1 THEN Wrap(-m)
    ELSE LET q == CQuot(m, n)
         IN IF (m < 0) # (n < 0) /\ CRem(m, n) # 0 THEN q - 1 ELSE q
VMod(m, n) ==
    IF n = -1 THEN 0
    ELSE LET r == CRem(m, n) IN IF r # 0 /\ (r < 0) # (n < 0) THEN r + n ELSE r

\* The float halves m, n: luai_numidiv and luai_nummod.
FloorDiv(m, n) == LET q == CQuot(m, n) IN IF (m < 0) # (n < 0) /\ CRem(m, n) # 0 THEN q - 1 ELSE q
NumMod(m, n) == LET r == CRem(m, n) IN IF r # 0 /\ (r < 0) # (n < 0) THEN r + n ELSE r

IntArith(op, m, n) ==
    CASE op = "ADD" -> Wrap(m + n) [] op = "SUB" -> Wrap(m - n) [] op = "MUL" -> Wrap(m * n)
      [] op = "IDIV" -> VDiv(m, n) [] op = "MOD" -> VMod(m, n) [] OTHER -> Wrap(-m)
NumArith(op, m, n) ==
    CASE op = "ADD" -> m + n [] op = "SUB" -> m - n [] op = "MUL" -> (m * n) \div 2
      [] op = "IDIV" -> 2 * FloorDiv(m, n) [] op = "MOD" -> NumMod(m, n) [] OTHER -> -m
\* luaO_arith, for numbers.
Arith(op, a, b) ==
    IF a.tt = "int" /\ b.tt = "int" THEN Ival(IntArith(op, a.i, b.i))
    ELSE Flt(NumArith(op, Halves(a), Halves(b)))
DividesByZero(op, a, b) == op \in {"IDIV", "MOD"} /\ b.i = 0 /\ a.tt = "int" /\ b.tt = "int"

\* luaV_rawequalobj: numbers of different variants are compared as numbers.
RawEqual(a, b) ==
    IF a.tt # b.tt THEN ttisnumber(a) /\ ttisnumber(b) /\ Halves(a) = Halves(b)
    ELSE a = b
Comparable(a, b) == ttisnumber(a) /\ ttisnumber(b)
LessThan(a, b)  == Halves(a) < Halves(b)
LessEqual(a, b) == Halves(a) <= Halves(b)

\* luaO_tostring: a float that looks like an integer gets a ".0".
CanConcat(o) == o.tt = "str" \/ ttisnumber(o)
ToStr(o) ==
    CASE o.tt = "str" -> o.s
      [] o.tt = "int" -> ToString(o.i)
      [] OTHER -> (IF o.i < 0 THEN "-" ELSE "") \o ToString(Abs(o.i) \div 2)
                  \o (IF o.i % 2 = 0 THEN ".0" ELSE ".5")
=============================================================================
