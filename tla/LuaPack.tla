------------------------------ MODULE LuaPack ------------------------------
(***************************************************************************)
(* string.pack, packsize and unpack (lstrlib.c).  A format is a sequence   *)
(* of options [k, n]: the kind of the option and the numeral behind it, or *)
(* NoNum.  A byte has Byte1 values; integers and size_t have SZINT bytes.  *)
(* An integer is <<n>>; a float is its bytes in the order of the machine,  *)
(* which is little-endian.                                                 *)
(***************************************************************************)
EXTENDS LuaText

CONSTANTS Byte1, SZINT, SZFLOAT, MAXINTSIZE, MAXALIGN

NoNum == -1
Integer == (-(Byte1^SZINT \div 2))..(Byte1^SZINT \div 2 - 1)
initheader == [little |-> TRUE, maxalign |-> 1, err |-> FALSE]

----------------------------------------------------------------------------
\* getnumlimit, and getoption: the header and the size.
Limited(o, default) == IF o.n = NoNum THEN default ELSE o.n
InLimits(size) == size \in 1..MAXINTSIZE
getoption(h, o) ==
    CASE o.k \in {"int", "uint", "string"} ->
            LET size == Limited(o, SZINT) IN [h |-> [h EXCEPT !.err = ~InLimits(size)], size |-> size]
      [] o.k = "float"  -> [h |-> h, size |-> SZFLOAT]
      [] o.k = "char"   -> [h |-> [h EXCEPT !.err = o.n = NoNum], size |-> o.n]
      [] o.k = "pad"    -> [h |-> h, size |-> 1]
      [] o.k = "little" -> [h |-> [h EXCEPT !.little = TRUE], size |-> 0]
      [] o.k = "big"    -> [h |-> [h EXCEPT !.little = FALSE], size |-> 0]
      [] o.k = "align"  -> LET a == Limited(o, MAXALIGN) IN [h |-> [h EXCEPT !.maxalign = a, !.err = ~InLimits(a)], size |-> 0]
      [] o.k \in {"zstr", "padalign"} -> [h |-> h, size |-> 0]

IsPowerOf2(n) == n \in {2^k : k \in 0..n}
AlignOf(h, align) == IF align > h.maxalign THEN h.maxalign ELSE align
\* getdetails: k is the next option behind fmt[k], or two for 'X'.
getdetails(h, fmt, k, total) ==
    LET o     == fmt[k]
        opt   == getoption(h, o)
        isX   == o.k = "padalign"
        X     == IF k < Len(fmt) THEN getoption(opt.h, fmt[k + 1]) ELSE opt
        badX  == isX /\ (k = Len(fmt) \/ X.size = 0 \/ fmt[k + 1].k = "char")
        align == IF isX THEN X.size ELSE opt.size
        h1    == IF isX THEN X.h ELSE opt.h
        none  == align <= 1 \/ o.k = "char"
        a     == AlignOf(h1, align)
    IN [h |-> [h1 EXCEPT !.err = @ \/ badX \/ (~none /\ ~IsPowerOf2(a))], size |-> opt.size,
        ntoalign |-> IF none THEN 0 ELSE (-total) % a, next |-> IF isX THEN k + 2 ELSE k + 1]

----------------------------------------------------------------------------
Ordered(bytes, little) == IF little THEN bytes ELSE Reverse(bytes)
Padding(n) == [j \in 1..n |-> 0]
packint(n, little, size) ==
    LET u == n % Byte1^SZINT
        extra == IF n < 0 /\ size > SZINT THEN Byte1 - 1 ELSE 0
    IN Ordered([j \in 1..size |-> IF j > SZINT THEN extra ELSE (u \div Byte1^(j - 1)) % Byte1], little)
Packed(bytes) == [bytes |-> bytes, err |-> FALSE]
Refused == [bytes |-> <<>>, err |-> TRUE]
\* The cases of str_pack.  An unsigned integer has no sign to extend.
PackOne(k, v, size, little) ==
    CASE k = "int" -> LET lim == Byte1^size \div 2 IN
                      IF size < SZINT /\ v[1] \notin (-lim)..(lim - 1) THEN Refused ELSE Packed(packint(v[1], little, size))
      [] k = "uint" -> IF size < SZINT /\ v[1] % Byte1^SZINT >= Byte1^size THEN Refused
                       ELSE Packed(packint(v[1] % Byte1^SZINT, little, size))
      [] k = "float" -> Packed(Ordered(v, little))
      [] k = "char" -> IF Len(v) > size THEN Refused ELSE Packed(v \o Padding(size - Len(v)))
      [] k = "string" -> IF size < SZINT /\ Len(v) >= Byte1^size THEN Refused ELSE Packed(packint(Len(v), little, size) \o v)
      [] k = "zstr" -> IF \E j \in DOMAIN v : v[j] = 0 THEN Refused ELSE Packed(v \o <<0>>)
      [] k = "pad" -> Packed(<<0>>)
      [] OTHER -> Packed(<<>>)
NotUnpacked == <<Error>>
TakesValue == {"int", "uint", "float", "char", "string", "zstr"}
RECURSIVE PackFrom(_, _, _, _, _), SizeFrom(_, _, _, _), UnpackFrom(_, _, _, _, _, _)
PackFrom(h, fmt, k, args, out) ==
    IF k > Len(fmt) THEN out
    ELSE LET d     == getdetails(h, fmt, k, Len(out))
             takes == fmt[k].k \in TakesValue
             p     == PackOne(fmt[k].k, IF takes THEN Head(args) ELSE <<>>, d.size, d.h.little)
         IN IF d.h.err \/ p.err THEN Error
            ELSE PackFrom(d.h, fmt, d.next, IF takes THEN Tail(args) ELSE args, out \o Padding(d.ntoalign) \o p.bytes)
str_pack(fmt, args) == PackFrom(initheader, fmt, 1, args, <<>>)

SizeFrom(h, fmt, k, total) ==
    IF k > Len(fmt) THEN <<total>>
    ELSE LET d == getdetails(h, fmt, k, total) size == d.size + d.ntoalign IN
         IF d.h.err \/ total > MAXSIZE - size \/ fmt[k].k \in {"string", "zstr"} THEN Error
         ELSE SizeFrom(d.h, fmt, d.next, total + size)
str_packsize(fmt) == SizeFrom(initheader, fmt, 1, 0)

\* An integer, or nothing when it "does not fit into Lua Integer".
unpackint(bytes, issigned) ==
    LET size  == Len(bytes)
        limit == Least(size, SZINT)
        res   == FoldRight(LAMBDA b, r : r * Byte1 + b, SubSeq(bytes, 1, limit), 0)
        half  == Byte1^limit \div 2
        \* The sign of a shorter unsigned integer is none; one of SZINT bytes has it anyway.
        value == IF (issigned \/ size >= SZINT) /\ res >= half THEN res - 2 * half ELSE res
        mask  == IF ~issigned \/ value >= 0 THEN 0 ELSE Byte1 - 1
    IN IF \E j \in (limit + 1)..size : bytes[j] # mask THEN {} ELSE {value}
\* A size that is negative as an integer is larger than every string: where
\* the sum with it wraps around, and the test lets it pass, luaS_newlstr refuses it.
UnpackFrom(h, fmt, k, data, pos, results) ==
    IF k > Len(fmt) THEN Append(results, <<pos + 1>>)
    ELSE LET d     == getdetails(h, fmt, k, pos)
             at    == pos + d.ntoalign
             bytes == SubSeq(data, at + 1, at + d.size)
             ints  == unpackint(Ordered(bytes, d.h.little), fmt[k].k = "int")
             len   == CHOOSE n \in ints : TRUE
             zeros == {j \in (at + 1)..Len(data) : data[j] = 0} \cup {Len(data) + 1}
             Go(value, next) == UnpackFrom(d.h, fmt, d.next, data, next, Append(results, value))
         IN IF d.h.err \/ at + d.size > Len(data) THEN NotUnpacked
            ELSE CASE fmt[k].k \in {"int", "uint"} -> IF ints = {} THEN NotUnpacked ELSE Go(<<len>>, at + d.size)
                   [] fmt[k].k = "float" -> Go(Ordered(bytes, d.h.little), at + d.size)
                   [] fmt[k].k = "char" -> Go(bytes, at + d.size)
                   [] fmt[k].k = "string" ->
                         IF ints = {} \/ len < 0 \/ at + len + d.size > Len(data) THEN NotUnpacked
                         ELSE Go(SubSeq(data, at + d.size + 1, at + d.size + len), at + d.size + len)
                   [] fmt[k].k = "zstr" -> Go(SubSeq(data, at + 1, Min(zeros) - 1), Min(zeros))
                   [] OTHER -> UnpackFrom(d.h, fmt, d.next, data, at + d.size, results)
str_unpack(fmt, data, init) ==
    LET pos == posrelat(init, Len(data)) - 1 IN
    IF pos \notin 0..Len(data) THEN NotUnpacked ELSE UnpackFrom(initheader, fmt, 1, data, pos, <<>>)

----------------------------------------------------------------------------
(* What is asked: one or two options behind some that set up the format,   *)
(* packed and unpacked again; and unpacking what nobody has packed.        *)
O(k, n) == [k |-> k, n |-> n]
SetUps == {<<>>, <<O("big", NoNum)>>, <<O("align", NoNum)>>, <<O("big", NoNum), O("align", 3)>>, <<O("big", NoNum), O("little", NoNum)>>}
Numeric == {O(k, n) : k \in {"int", "uint"}, n \in {NoNum, 0, 1, 3}}
Options == Numeric \cup {O("float", NoNum), O("zstr", NoNum), O("pad", NoNum), O("padalign", NoNum)}
           \cup {O("char", n) : n \in {NoNum, 0, 2}} \cup {O("string", n) : n \in {1, 4, 5}}
Values(o) == CASE o.k \in {"int", "uint"} -> {<<-8>>, <<-2>>, <<7>>}
               [] o.k = "float" -> {<<1, 2>>}
               [] o.k \in {"char", "string", "zstr"} -> {<<>>, <<1, 0>>, <<3, 2, 1, 1>>}
               [] OTHER -> {<<>>}
\* The options that take values, with them; an option behind 'X' takes none.
With(o) == {[o |-> o, v |-> v] : v \in Values(o)}
Pairs == {<<x>> : x \in UNION {With(o) : o \in Options}}
         \cup {<<x, y>> : x, y \in UNION {With(o) : o \in Options}}
PackCalls ==
    {[f |-> "pack", set |-> s, fields |-> fs] : s \in SetUps, fs \in Pairs}
      \cup {[f |-> "unpack", fmt |-> <<o>>, data |-> t, init |-> i] :
               o \in Options \ {O("float", NoNum)}, t \in Strings(0..3, 3), i \in {-4, 0, 1, 2, 5}}
Format(c) == c.set \o [n \in DOMAIN c.fields |-> c.fields[n].o]
Taken(c, n) == c.fields[n].o.k \in TakesValue /\ ~(n > 1 /\ c.fields[n - 1].o.k = "padalign")
Arguments(c) == LET taken == SelectSeq([n \in DOMAIN c.fields |-> n], LAMBDA n : Taken(c, n))
                IN [m \in DOMAIN taken |-> c.fields[taken[m]].v]
PackResult(c) ==
    IF c.f = "unpack" THEN <<str_unpack(c.fmt, c.data, c.init)>>
    ELSE LET s == str_pack(Format(c), Arguments(c))
         IN <<s, IF s = Error THEN NotUnpacked ELSE str_unpack(Format(c), s, 1), str_packsize(Format(c))>>

\* Little-endian bytes stand for an integer in two's complement, of which
\* unpack can tell those of a Lua integer.
Sum(w) == FoldRight(LAMBDA b, r : r * Byte1 + b, w, 0)
Within(n, all) == IF 2 * n >= all THEN n - all ELSE n
Denotes(w, k) == IF k = "int" THEN Within(Sum(w), Byte1^Len(w))
                 ELSE IF Len(w) >= SZINT /\ Sum(w) < Byte1^SZINT THEN Within(Sum(w), Byte1^SZINT) ELSE Sum(w)
\* What an option means: its size, and whether it is one.
SizeOf(o) == CASE o.k = "float" -> SZFLOAT [] o.k = "pad" -> 1 [] o.k \in {"zstr", "padalign"} -> 0
               [] OTHER -> IF o.n = NoNum THEN SZINT ELSE o.n
Valid(o) == CASE o.k \in {"int", "uint", "string"} -> o.n \in {NoNum} \cup 1..MAXINTSIZE
              [] o.k = "char" -> o.n # NoNum
              [] OTHER -> TRUE
Unit(o) == IF o.k \in {"int", "uint", "string", "float"} THEN SizeOf(o) ELSE IF o.k = "pad" THEN 1 ELSE 0
\* The bytes a value can be packed into: none, if it does not fit.
Bodies(o, v, Dir(_)) ==
    LET Ints(k, n) == {Dir(w) : w \in {x \in [1..SizeOf(o) -> 0..(Byte1 - 1)] : Denotes(x, k) = n}} IN
    CASE o.k \in {"int", "uint"} -> Ints(o.k, v[1])
      [] o.k = "string" -> {w \o v : w \in Ints("uint", Len(v))}
      [] o.k = "float" -> {Dir(v)}
      [] o.k = "char" -> IF Len(v) > o.n THEN {} ELSE {v \o [j \in 1..(o.n - Len(v)) |-> 0]}
      [] o.k = "zstr" -> IF 0 \in ToSet(v) THEN {} ELSE {Append(v, 0)}
      [] o.k = "pad" -> {<<0>>}
      [] o.k = "padalign" -> {<<>>}
Meant(c) ==
    LET big == O("big", NoNum) \in ToSet(c.set) /\ O("little", NoNum) \notin ToSet(c.set)
        as  == {o \in ToSet(c.set) : o.k = "align"}
        max == IF as = {} THEN 1 ELSE Max({IF o.n = NoNum THEN MAXALIGN ELSE o.n : o \in as})
        Dir(w) == IF big THEN Reverse(w) ELSE w
        Step(out, n) ==
            LET o == c.fields[n].o
                isX == o.k = "padalign"
                last == n = Len(c.fields)
                unit == IF isX /\ ~last THEN Unit(c.fields[n + 1].o) ELSE Unit(o)
                a    == Least(unit, max)
                gap  == IF a <= 1 THEN 0 ELSE CHOOSE g \in 0..(a - 1) : (Len(out) + g) % a = 0
                bodies == Bodies(o, c.fields[n].v, Dir)
            IN IF out = Error \/ ~Valid(o) THEN Error
               ELSE IF n > 1 /\ c.fields[n - 1].o.k = "padalign" THEN out
               ELSE IF (isX /\ unit = 0) \/ a = 3 THEN Error
               ELSE IF isX /\ ~Valid(c.fields[n + 1].o) THEN Error
               ELSE IF bodies = {} THEN Error
               ELSE out \o [j \in 1..gap |-> 0] \o CHOOSE b \in bodies : TRUE
    IN FoldLeft(Step, <<>>, [n \in DOMAIN c.fields |-> n])
Back(o, v) == IF o.k = "char" THEN v \o [j \in 1..(o.n - Len(v)) |-> 0] ELSE v
\* Where an option that is read at i ends, with its value.
ReadAt(o, data, i) ==
    LET rest == SubSeq(data, i, Len(data))
        n    == SizeOf(o)
        num  == Denotes(SubSeq(rest, 1, n), IF o.k = "string" THEN "uint" ELSE o.k)
        zero == {j \in DOMAIN rest : rest[j] = 0} \cup {Len(rest) + 1}
    IN CASE o.k = "zstr" -> <<SubSeq(rest, 1, Min(zero) - 1), <<i + Min(zero)>>>>
         [] o.k = "padalign" \/ ~Valid(o) -> NotUnpacked
         [] o.k # "padalign" /\ Valid(o) /\ o.k # "zstr" /\ Len(rest) < n -> NotUnpacked
         [] o.k = "pad" /\ Len(rest) >= n -> <<<<i + n>>>>
         [] o.k = "char" /\ Valid(o) /\ Len(rest) >= n -> <<SubSeq(rest, 1, n), <<i + n>>>>
         [] o.k \in {"int", "uint"} /\ Valid(o) /\ Len(rest) >= n ->
               IF num \in Integer THEN <<<<num>>, <<i + n>>>> ELSE NotUnpacked
         [] o.k = "string" /\ Valid(o) /\ Len(rest) >= n ->
               IF num \in 0..(Len(rest) - n) THEN <<SubSeq(rest, n + 1, n + num), <<i + n + num>>>> ELSE NotUnpacked
\* A value is packed into the bytes that mean it, each on its alignment, or
\* refused when there are none; unpack gives the values back and stops where
\* the string ends; packsize tells the size before; and of any string unpack
\* reads what its bytes mean, and nothing behind its end.
PackAgrees(c, r) ==
    IF c.f = "unpack" THEN
        LET i == PlaceOf(c.init, c.data) IN
        r[1] = IF i \in 1..(Len(c.data) + 1) THEN ReadAt(c.fmt[1], c.data, i) ELSE NotUnpacked
    ELSE LET m     == Meant(c)
             taken == SelectSeq([n \in DOMAIN c.fields |-> n], LAMBDA n : Taken(c, n))
             text  == \E j \in DOMAIN taken : c.fields[taken[j]].o.k \in {"string", "zstr"}
         IN /\ r[1] = m
            /\ m # Error => /\ r[2] = [j \in DOMAIN taken |-> Back(c.fields[taken[j]].o, c.fields[taken[j]].v)] \o <<<<Len(m) + 1>>>>
                            /\ r[3] = IF text \/ Len(m) > MAXSIZE THEN Error ELSE <<Len(m)>>
=============================================================================
