----------------------------- MODULE LuaNumber -----------------------------
(***************************************************************************)
(* Integers of a fixed width and floats of a short mantissa where they meet*)
(* in lvm.c, lobject.c and lbitlib.c: comparisons, conversions, numerals,  *)
(* numeric loops, division, and the bit operations.                        *)
(*                                                                         *)
(* A float is a number of halves with NBM significant bits, an infinity or *)
(* NaN; a number is [tt, i] as in LuaValue.  What may fail gives <<>>.     *)
(***************************************************************************)
EXTENDS Integers, Sequences, SequencesExt, FiniteSets, FiniteSetsExt

CONSTANTS MAXINTEGER, BITS,       \* 2^(BITS-1) - 1, and the bits of an integer
          NBM,                    \* the bits of a mantissa
          Infinity,               \* in halves
          LUA_NBITS,              \* bits for bit32
          LoopSteps               \* iterations of a loop that are looked at

V == INSTANCE LuaValue WITH Numeral <- <<>>, StringToken <- <<>>
MININTEGER == V!MININTEGER
Wrap(n)    == V!Wrap(n)
Abs(n)     == V!Abs(n)
Ival(n)     == [tt |-> "int", i |-> n]
Flt(h)   == [tt |-> "flt", i |-> h]
Power(n)   == 2^n

(* Floats.                                                                 *)
NaN == Infinity + 1
Round(h) ==
    LET m == Abs(h)
        k == Power(CHOOSE n \in 0..(3 * BITS) : m < Power(NBM + n) /\ (n = 0 \/ m >= Power(NBM + n - 1)))
        q == (m \div k) + (IF 2 * (m % k) > k \/ (2 * (m % k) = k /\ (m \div k) % 2 = 1) THEN 1 ELSE 0)
        f == IF q * k >= Infinity THEN Infinity ELSE q * k
    IN IF h < 0 THEN -f ELSE f
Special(x)  == x \in {Infinity, -Infinity, NaN}
NumLt(x, y) == x # NaN /\ y # NaN /\ x < y
NumLe(x, y) == x # NaN /\ y # NaN /\ x <= y
NumAdd(x, y) == CASE x = NaN \/ y = NaN \/ (Special(x) /\ y = -x) -> NaN
                  [] Special(x) /\ x # NaN /\ y \notin {NaN, -x} -> x
                  [] Special(y) /\ y # NaN /\ ~Special(x) -> y
                  [] OTHER -> Round(x + y)
Negated(x) == IF x = NaN THEN NaN ELSE -x
Floor(x) == IF Special(x) THEN x ELSE x - (x % 2)
cast_num(i) == Round(2 * i)
tonumber(o) == IF o.tt = "int" THEN cast_num(o.i) ELSE o.i

(* Conversion to an integer.                                               *)
numbertointeger(f) == IF NumLe(2 * MININTEGER, f) /\ NumLt(f, -2 * MININTEGER) THEN <<f \div 2>> ELSE <<>>
luaV_tointeger(o, mode) ==
    LET n == o.i f == Floor(n) integral == n = f /\ n # NaN IN
    IF o.tt = "int" THEN <<o.i>>
    ELSE IF ~integral /\ mode = 0 THEN <<>>
    ELSE numbertointeger(IF ~integral /\ mode > 1 THEN NumAdd(f, 2) ELSE f)

(* Comparisons.                                                            *)
\* Fault: an integer that is no float is made one.
intfitsf_faulty(i) == TRUE
intfitsf(i) == i \in (-Power(NBM))..Power(NBM)
Truncated(f) == IF f < 0 THEN -(-f \div 2) ELSE f \div 2
LTintfloat(i, f) ==
    IF intfitsf(i) THEN NumLt(cast_num(i), f)
    ELSE \/ NumLe(-2 * MININTEGER, f)
         \/ NumLt(f, -2 * MININTEGER) /\ NumLt(2 * MININTEGER, f) /\ i < Truncated(f)
LEintfloat(i, f) ==
    IF intfitsf(i) THEN NumLe(cast_num(i), f)
    ELSE \/ NumLe(-2 * MININTEGER, f)
         \/ NumLt(f, -2 * MININTEGER) /\ NumLe(2 * MININTEGER, f) /\ i <= Truncated(f)
LTnum(l, r) ==
    CASE l.tt = "int" /\ r.tt = "int" -> l.i < r.i
      [] l.tt = "int" /\ r.tt = "flt" -> LTintfloat(l.i, r.i)
      [] l.tt = "flt" /\ r.tt = "flt" -> NumLt(l.i, r.i)
      [] OTHER -> l.i # NaN /\ ~LEintfloat(r.i, l.i)
LEnum(l, r) ==
    CASE l.tt = "int" /\ r.tt = "int" -> l.i <= r.i
      [] l.tt = "int" /\ r.tt = "flt" -> LEintfloat(l.i, r.i)
      [] l.tt = "flt" /\ r.tt = "flt" -> NumLe(l.i, r.i)
      [] OTHER -> l.i # NaN /\ ~LTintfloat(r.i, l.i)

(* Numeric loops: the three values in the stack, and what the next         *)
(* iteration makes of them.                                                *)
forlimit(o, step) ==
    LET p == luaV_tointeger(o, IF step < 0 THEN 2 ELSE 1) IN
    IF p # <<>> THEN [p |-> p[1], stopnow |-> FALSE]
    ELSE IF NumLt(0, tonumber(o)) THEN [p |-> MAXINTEGER, stopnow |-> step < 0]
    ELSE [p |-> MININTEGER, stopnow |-> step >= 0]
Three(init, limit, step) == [idx |-> init, limit |-> limit, step |-> step]
OP_FORPREP(init, limit, step) ==
    IF init.tt = "int" /\ step.tt = "int"
    THEN LET l == forlimit(limit, step.i) IN
         Three(Ival(Wrap((IF l.stopnow THEN 0 ELSE init.i) - step.i)), Ival(l.p), step)
    ELSE Three(Flt(NumAdd(tonumber(init), Negated(tonumber(step)))), Flt(tonumber(limit)), Flt(tonumber(step)))
\* Whether the loop goes on, and with which index.
OP_FORLOOP(v) ==
    IF v.idx.tt = "int"
    THEN LET idx == Wrap(v.idx.i + v.step.i) IN
         [more |-> IF 0 < v.step.i THEN idx <= v.limit.i ELSE v.limit.i <= idx, v |-> [v EXCEPT !.idx = Ival(idx)]]
    ELSE LET idx == NumAdd(v.idx.i, v.step.i) IN
         [more |-> IF NumLt(0, v.step.i) THEN NumLe(idx, v.limit.i) ELSE NumLe(v.limit.i, idx), v |-> [v EXCEPT !.idx = Flt(idx)]]
RECURSIVE Iterations(_, _)
Iterations(v, n) == LET r == OP_FORLOOP(v) IN
                    IF n = 0 \/ ~r.more THEN <<>> ELSE <<r.v.idx>> \o Iterations(r.v, n - 1)

(* Numerals: [neg, hex, digits, rest] is what the text has, without spaces.*)
l_str2int(t) ==
    LET MAXBY10 == MAXINTEGER \div 10   MAXLASTD == MAXINTEGER % 10
        neg == IF t.neg THEN 1 ELSE 0
        Digit(a, d) ==
            IF t.hex THEN <<(a[1] * 16 + d) % Power(BITS)>>
            ELSE IF a = <<>> \/ (a[1] >= MAXBY10 /\ (a[1] > MAXBY10 \/ d > MAXLASTD + neg)) THEN <<>>
            ELSE <<a[1] * 10 + d>>
        a == FoldLeft(Digit, <<0>>, t.digits)
    IN IF a = <<>> \/ t.digits = <<>> \/ t.rest THEN <<>> ELSE <<Wrap(IF t.neg THEN -a[1] ELSE a[1])>>

(* Sizes of tables in an instruction.                                      *)
Halved(x) == (x + 1) \div 2
RECURSIVE FineSteps(_, _), CoarseSteps(_, _)
FineSteps(x, e) == IF x >= 16 THEN FineSteps(Halved(x), e + 1) ELSE (e + 1) * 8 + x - 8
CoarseSteps(x, e) == IF x >= 128 THEN CoarseSteps((x + 15) \div 16, e + 4) ELSE FineSteps(x, e)
luaO_int2fb(x) == IF x < 8 THEN x ELSE CoarseSteps(x, 0)
luaO_fb2int(x) == IF x < 8 THEN x ELSE ((x % 8) + 8) * Power(x \div 8 - 1)
\* log_2[i] is what the table of luaO_ceillog2 has.
log_2(i) == CHOOSE n \in 0..8 : Power(n) >= i + 1 /\ (n = 0 \/ Power(n - 1) < i + 1)
RECURSIVE CeilLog(_, _)
CeilLog(x, l) == IF x >= 256 THEN CeilLog(x \div 256, l + 8) ELSE l + log_2(x)
luaO_ceillog2(x) == CeilLog(x - 1, 0)

----------------------------------------------------------------------------
(* Bits: an unsigned integer is the set of its bits.                       *)
Bits == 0..(BITS - 1)
ALLONES == 0..(LUA_NBITS - 1)
Unsigned(n) == LET u == n % Power(BITS) IN {b \in Bits : (u \div Power(b)) % 2 = 1}
ValueOf(r) == FoldSet(LAMBDA b, sum : sum + Power(b), 0, r)
Signed(r) == Wrap(ValueOf(r))
trim(r) == r \cap ALLONES
\* C's shifts, by less than the width.
Left(r, i)  == {b + i : b \in r} \cap Bits
Right(r, i) == {b - i : b \in r} \cap Bits
Complement(r) == Bits \ r
luaV_shiftl(x, y) ==
    IF y < 0 THEN IF y <= -BITS THEN {} ELSE Right(x, -y)
    ELSE IF y >= BITS THEN {} ELSE Left(x, y)
\* The number n of a shift is not MININTEGER, which has no opposite.
b_shift(x, i) ==
    IF i < 0 THEN IF -i >= LUA_NBITS THEN {} ELSE Right(trim(x), -i)
    ELSE trim(IF i >= LUA_NBITS THEN {} ELSE Left(x, i))
SignBits(x, i) == Complement(Right(ALLONES, i))
b_arshift(x, i) ==
    IF i < 0 \/ (LUA_NBITS - 1) \notin x THEN b_shift(x, -i)
    ELSE IF i >= LUA_NBITS THEN ALLONES ELSE trim(Right(x, i) \cup SignBits(x, i))
b_rot(x, d) ==
    LET i == d % LUA_NBITS r == trim(x) IN
    trim(IF i # 0 THEN Left(r, i) \cup Right(r, LUA_NBITS - i) ELSE r)
\* "builds a number with 'n' ones", and some above LUA_NBITS.
mask(n) == Complement(Left(Left(ALLONES, 1), n - 1))
\* f + w does not go beyond MAXINTEGER here: the code does not look at that.
fieldargs(f, w) == IF f < 0 \/ w <= 0 \/ f + w > LUA_NBITS THEN <<>> ELSE <<f, w>>
b_extract(x, f, w) == IF fieldargs(f, w) = <<>> THEN <<>> ELSE <<Right(trim(x), f) \cap mask(w)>>
b_replace(x, v, f, w) ==
    LET m == mask(w) IN
    IF fieldargs(f, w) = <<>> THEN <<>>
    ELSE <<(trim(x) \cap Complement(Left(m, f))) \cup Left(trim(v) \cap m, f)>>

----------------------------------------------------------------------------
(* What is asked, what the code answers, and what that means.              *)
Ints    == MININTEGER..MAXINTEGER
Floats  == {h \in (-Infinity)..NaN : Special(h) \/ Round(h) = h}
Numbers == {Ival(n) : n \in Ints} \cup {Flt(h) : h \in Floats}
Few     == {MININTEGER, MININTEGER + 1, -1, 0, 1, 3, MAXINTEGER - 1, MAXINTEGER}
FewFloats == {Flt(h) : h \in {-3, 0, 1, 4, cast_num(MAXINTEGER), Infinity}}
NumberCalls ==
    {[f |-> "compare", l |-> l, r |-> r] : l, r \in Numbers}
      \cup {[f |-> "convert", o |-> o] : o \in Numbers}
      \cup {[f |-> "loop", init |-> Ival(i), limit |-> l, step |-> Ival(s)]
               : i \in Few, l \in Numbers \ {Flt(NaN)}, s \in Few \ {0}}
      \cup {[f |-> "loop", init |-> i, limit |-> l, step |-> s] : i \in FewFloats \cup {Ival(MAXINTEGER)}, l \in Numbers, s \in FewFloats \ {Flt(0)}}
      \cup {[f |-> "numeral", text |-> [neg |-> b, hex |-> x, digits |-> d, rest |-> y]]
               : b, x, y \in BOOLEAN, d \in UNION {[1..n -> {0, 1, 2, 3, 9}] : n \in 0..3}}
      \cup {[f |-> "divide", m |-> m, n |-> n] : m \in Ints, n \in Ints \ {0}}
      \cup {[f |-> "size", x |-> x] : x \in 1..2100}
      \cup {[f |-> "shift", x |-> x, i |-> i] : x \in Ints, i \in Ints \ {MININTEGER}}
      \cup {[f |-> "field", x |-> x, v |-> v, at |-> a, width |-> w] : x \in Ints, v \in {MININTEGER, -2, 1, 10}, a, w \in (-1)..(LUA_NBITS + 1)}
NumberResult(c) ==
    CASE c.f = "compare" -> <<LTnum(c.l, c.r), LEnum(c.l, c.r)>>
      [] c.f = "convert" -> [m \in 0..2 |-> luaV_tointeger(c.o, m)]
      [] c.f = "loop"    -> Iterations(OP_FORPREP(c.init, c.limit, c.step), LoopSteps)
      [] c.f = "numeral" -> l_str2int(c.text)
      [] c.f = "divide"  -> <<V!VDiv(c.m, c.n), V!VMod(c.m, c.n)>>
      [] c.f = "size"    -> <<luaO_int2fb(c.x), luaO_fb2int(luaO_int2fb(c.x)), luaO_ceillog2(c.x)>>
      [] c.f = "shift"   -> LET x == Unsigned(c.x) IN
                            <<Signed(luaV_shiftl(x, c.i)), ValueOf(b_shift(x, c.i)), ValueOf(b_arshift(x, c.i)), ValueOf(b_rot(x, c.i))>>
      [] c.f = "field"   -> LET x == Unsigned(c.x) IN
                            [n \in 1..2 |-> LET r == (IF n = 1 THEN b_extract(x, c.at, c.width) ELSE b_replace(x, Unsigned(c.v), c.at, c.width)) IN
                                           IF r = <<>> THEN -1 ELSE ValueOf(r[1])]

\* What each answer has to be: numbers are compared by their value, whether
\* they are integers or floats, and NaN with nothing; an integer comes out of
\* a conversion if and only if there is one; a loop takes every value up to
\* its limit, though that may be no integer or out of reach, and no other
\* (with a step of 0, or NaN as the limit and integers otherwise, the code
\* does something else, see the README); a numeral that does not fit is no
\* integer; quotients are floored; a size is rounded up; and bit operations
\* are arithmetic.
\* The number itself, in halves.
Exactly(o) == IF o.tt = "int" THEN 2 * o.i ELSE o.i
\* floor(x / 2^i), x * 2^i modulo 2^width, for a signed i.
Times(x, i, width) == IF i < 0 THEN x \div Power(IF -i > 2 * BITS THEN 2 * BITS ELSE -i)
                      ELSE (x * Power(IF i > BITS THEN BITS ELSE i)) % Power(width)
AsInt(n) == IF n \in Ints THEN <<n>> ELSE <<>>
Past(v, limit, step) == IF step > 0 THEN ~NumLe(Exactly(v), limit) ELSE ~NumLe(limit, Exactly(v))
RECURSIVE LoopMeant(_, _, _, _)
LoopMeant(v, limit, step, n) ==
    IF n = 0 \/ Past(v, limit, step.i) THEN <<>>
    ELSE <<v>> \o LoopMeant(IF v.tt = "int" THEN Ival(Wrap(v.i + step.i)) ELSE Flt(NumAdd(v.i, step.i)), limit, step, n - 1)
Parts(t) == FoldLeft(LAMBDA a, d : a * (IF t.hex THEN 16 ELSE 10) + d, 0, t.digits)
NumberMeaning(c) ==
    CASE c.f = "compare" -> <<NumLt(Exactly(c.l), Exactly(c.r)), NumLe(Exactly(c.l), Exactly(c.r))>>
      [] c.f = "convert" ->
            LET h == Exactly(c.o) IN
            [m \in 0..2 |-> IF Special(h) \/ (m = 0 /\ h % 2 = 1) THEN <<>> ELSE AsInt(IF m = 2 THEN -((-h) \div 2) ELSE h \div 2)]
      [] c.f = "loop" ->
            IF c.init.tt = "int" /\ c.step.tt = "int" THEN LoopMeant(c.init, Exactly(c.limit), c.step, LoopSteps)
            ELSE LET step == tonumber(c.step) IN
                 LoopMeant(Flt(NumAdd(NumAdd(tonumber(c.init), Negated(step)), step)), tonumber(c.limit), Flt(step), LoopSteps)
      [] c.f = "numeral" ->
            IF c.text.digits = <<>> \/ c.text.rest THEN <<>>
            ELSE LET n == IF c.text.neg THEN -Parts(c.text) ELSE Parts(c.text) IN IF c.text.hex THEN <<Wrap(n)>> ELSE AsInt(n)
      [] c.f = "divide" ->
            LET floor == CHOOSE q \in (-Abs(c.m))..Abs(c.m) : LET r == c.m - q * c.n IN IF c.n > 0 THEN r \in 0..(c.n - 1) ELSE r \in (c.n + 1)..0
            IN <<Wrap(floor), c.m - floor * c.n>>
      [] c.f = "size" ->
            LET n == CHOOSE n \in 0..12 : Power(n) >= c.x /\ (n = 0 \/ Power(n - 1) < c.x)
                unit == IF n <= 4 THEN 1 ELSE Power(n - 4)
            IN <<luaO_int2fb(c.x), unit * ((c.x + unit - 1) \div unit), n>>
      [] c.f = "shift" ->
            LET x == c.x % Power(BITS) low == c.x % Power(LUA_NBITS)
                signed == IF low >= Power(LUA_NBITS - 1) THEN low - Power(LUA_NBITS) ELSE low
                i == c.i % LUA_NBITS
            IN <<Wrap(Times(x, c.i, BITS)), IF c.i < 0 THEN Times(low, c.i, LUA_NBITS) ELSE Times(x, c.i, LUA_NBITS),
                 Times(signed, -c.i, LUA_NBITS) % Power(LUA_NBITS),
                 ((low * Power(i)) % Power(LUA_NBITS)) + low \div Power(LUA_NBITS - i)>>
      [] c.f = "field" ->
            LET x == c.x % Power(LUA_NBITS) unit == Power(c.at) old == (x \div unit) % Power(c.width) IN
            IF c.at < 0 \/ c.width < 1 \/ c.at + c.width > LUA_NBITS THEN <<-1, -1>>
            ELSE <<old, x - old * unit + (c.v % Power(c.width)) * unit>>
NumberAgrees(c, r) == r = NumberMeaning(c)
=============================================================================
