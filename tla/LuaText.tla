------------------------------ MODULE LuaText ------------------------------
(***************************************************************************)
(* Strings as sequences of bytes: comparison (lvm.c), UTF-8 (lobject.c,    *)
(* lutf8lib.c), and the functions of lstrlib.c that take positions.  The   *)
(* byte behind the last one is 0.  An error is <<-1>>, nil is <<-2>>.      *)
(***************************************************************************)
EXTENDS Integers, Sequences, SequencesExt, FiniteSets, FiniteSetsExt

CONSTANTS MAXINTEGER, INT_MAX,
          MAXSIZE            \* of a string

MININTEGER == -MAXINTEGER - 1
Byte(s, k) == IF k \in DOMAIN s THEN s[k] ELSE 0
Error == <<-1>>
Nil   == <<-2>>
Before(k) == k - 1

(* l_strcmp, in the C locale, where strcoll compares up to the first 0.    *)
Segment(s) == LET zeros == {k \in DOMAIN s : s[k] = 0} IN IF zeros = {} THEN s ELSE SubSeq(s, 1, Before(Min(zeros)))
strcoll(l, r) ==
    LET ds == {k \in 1..(Len(l) + 1) : Byte(l, k) # Byte(r, k)} IN
    IF ds = {} THEN 0 ELSE IF Byte(l, Min(ds)) < Byte(r, Min(ds)) THEN -1 ELSE 1
RECURSIVE l_strcmp(_, _)
l_strcmp(l, r) ==
    LET temp == strcoll(Segment(l), Segment(r)) len == Len(Segment(l)) IN
    IF temp # 0 THEN temp
    ELSE IF len = Len(r) THEN (IF len = Len(l) THEN 0 ELSE 1)
    ELSE IF len = Len(l) THEN -1
    ELSE l_strcmp(SubSeq(l, len + 2, Len(l)), SubSeq(r, len + 2, Len(r)))

(* Positions.                                                              *)
posrelat(pos, len) == IF pos >= 0 THEN pos ELSE IF -pos > len THEN 0 ELSE len + pos + 1
Least(a, b) == IF a < b THEN a ELSE b
Most(a, b)  == IF a > b THEN a ELSE b
Interval(s, i, j) == <<Most(posrelat(i, Len(s)), 1), Least(posrelat(j, Len(s)), Len(s))>>
str_sub(s, i, j) ==
    LET r == Interval(s, i, j) IN IF r[1] <= r[2] THEN [k \in 1..(r[2] - r[1] + 1) |-> Byte(s, r[1] + k - 1)] ELSE <<>>
str_byte(s, i, j) ==
    LET r == Interval(s, i, j) IN IF r[1] <= r[2] /\ r[2] - r[1] >= INT_MAX THEN Error ELSE str_sub(s, i, j)
str_rep(s, n, sep) ==
    IF n <= 0 THEN <<>> ELSE IF Len(s) + Len(sep) > MAXSIZE \div n THEN Error
    ELSE FlattenSeq([k \in 1..Before(n) |-> s \o sep]) \o s
\* A plain search: where s2 is in s1, from s on in l bytes.
RECURSIVE lmemfind(_, _, _, _)
lmemfind(s1, s, l, s2) ==
    LET firsts == {k \in s..(s + l - Len(s2)) : Byte(s1, k) = s2[1]}      \* memchr
    IN IF s2 = <<>> THEN s
       ELSE IF Len(s2) > l \/ firsts = {} THEN 0
       ELSE LET init == Min(firsts) IN
            IF SubSeq(s1, init + 1, init + Len(s2) - 1) = Tail(s2) THEN init
            ELSE lmemfind(s1, init + 1, l - (init + 1 - s), s2)
str_find(s, p, init) ==
    LET from == Most(posrelat(init, Len(s)), 1) at == lmemfind(s, from, Len(s) - from + 1, p) IN
    IF from > Len(s) + 1 \/ at = 0 THEN Nil ELSE <<at, at + Len(p) - 1>>

----------------------------------------------------------------------------
(* UTF-8.                                                                  *)
MAXUNICODE == 1114111
RECURSIVE Escaped(_, _, _)
\* x with the bytes after it, mfb being the largest x that fits in the first.
Escaped(x, mfb, after) == IF x > mfb THEN Escaped(x \div 64, mfb \div 2, <<128 + (x % 64)>> \o after)
                          ELSE <<2 * (127 - mfb) + x>> \o after
luaO_utf8esc(x) == IF x < 128 THEN <<x>> ELSE Escaped(x \div 64, 31, <<128 + (x % 64)>>)
utfchar(codes) == IF \E n \in DOMAIN codes : codes[n] \notin 0..MAXUNICODE THEN Error
                  ELSE FlattenSeq([n \in DOMAIN codes |-> luaO_utf8esc(codes[n])])

iscont(s, k) == Byte(s, k) \in 128..191
limits == <<255, 127, 2047, 65535>>
\* utf8_decode: the code at position o and the position behind it, or Error.
Continuations(c) == CHOOSE n \in 0..7 : /\ \A m \in 0..(n - 1) : (c \div 2^(6 - m)) % 2 = 1
                                        /\ n < 7 => (c \div 2^(6 - n)) % 2 = 0
utf8_decode(s, o) ==
    LET c     == Byte(s, o)
        count == Continuations(c)
        res   == FoldLeft(LAMBDA r, k : r * 64 + (Byte(s, o + k) % 64), 0, [k \in 1..count |-> k])
                 + ((c * 2^count) % 128) * 32^count
    IN IF c < 128 THEN <<c, o + 1>>
       ELSE IF (\E k \in 1..count : ~iscont(s, o + k)) \/ count > 3 THEN Error
       ELSE IF res > MAXUNICODE \/ res <= limits[count + 1] THEN Error
       ELSE <<res, o + count + 1>>

RECURSIVE CountTo(_, _, _, _), CodesTo(_, _, _)
\* From the position posi on: the count n, or nil and where it went wrong.
CountTo(s, posi, posj, n) ==
    LET d == utf8_decode(s, posi) IN
    IF posi > posj THEN <<n>> ELSE IF d = Error THEN Nil \o <<posi>> ELSE CountTo(s, d[2], posj, n + 1)
utflen(s, i, j) ==
    LET posi == posrelat(i, Len(s)) posj == posrelat(j, Len(s)) IN
    IF posi \notin 1..(Len(s) + 1) \/ posj > Len(s) THEN Error ELSE CountTo(s, posi, posj, 0)
CodesTo(s, posi, pose) ==
    LET d == utf8_decode(s, posi) rest == CodesTo(s, d[2], pose) IN
    IF posi > pose THEN <<>> ELSE IF d = Error \/ rest = Error THEN Error ELSE <<d[1]>> \o rest
codepoint(s, i, j) ==
    LET posi == posrelat(i, Len(s)) pose == posrelat(j, Len(s)) IN
    IF posi < 1 \/ pose > Len(s) \/ (posi <= pose /\ pose - posi >= INT_MAX) THEN Error ELSE CodesTo(s, posi, pose)
\* Where a character begins, going back, and where the next one does.
RECURSIVE Start(_, _), NextStart(_, _), Move(_, _, _)
Start(s, p)     == IF p > 1 /\ iscont(s, p) THEN Start(s, p - 1) ELSE p
NextStart(s, p) == IF iscont(s, p) THEN NextStart(s, p + 1) ELSE p
Move(s, n, p) ==
    CASE n = 0 -> <<p>>
      [] n < 0 -> IF p > 1 THEN Move(s, n + 1, Start(s, p - 1)) ELSE Nil
      [] n > 0 -> IF p <= Len(s) THEN Move(s, n - 1, NextStart(s, p + 1)) ELSE Nil
byteoffset(s, n, i) ==
    LET posi == posrelat(i, Len(s)) IN
    IF posi \notin 1..(Len(s) + 1) THEN Error
    ELSE IF n = 0 THEN <<Start(s, posi)>>
    ELSE IF iscont(s, posi) THEN Error
    ELSE Move(s, IF n > 0 THEN n - 1 ELSE n, posi)
\* iter_aux, after the position p (0 at first), until it ends or fails.
RECURSIVE Iterated(_, _)
Iterated(s, p) ==
    LET q == IF p = 0 THEN 1 ELSE IF p <= Len(s) THEN NextStart(s, p + 1) ELSE p
        d == utf8_decode(s, q)
    IN IF q > Len(s) THEN <<>>
       ELSE IF d = Error THEN <<Error>>
       ELSE IF iscont(s, d[2]) THEN <<Error>>
       ELSE <<<<q, d[1]>>>> \o Iterated(s, q)

----------------------------------------------------------------------------
(* What is asked, what the code answers, and what that means.              *)
CONSTANTS Bytes,             \* the bytes of strings that may not be UTF-8
          Codes              \* characters
Strings(A, n) == UNION {[1..k -> A] : k \in 0..n}
Around(n) == {MININTEGER, MAXINTEGER} \cup (-n)..n
TextCalls ==
    {[f |-> "compare", l |-> l, r |-> r] : l, r \in Strings({0, 1, 2}, 3)}
      \cup {[f |-> "slice", s |-> s, i |-> i, j |-> j] : s \in {SubSeq(<<6, 7, 8, 9, 9>>, 1, n) : n \in 0..5}, i, j \in Around(6)}
      \cup {[f |-> "repeat", s |-> s, n |-> n, sep |-> sep] : s, sep \in Strings({1}, 3), n \in {MININTEGER} \cup (-1)..6}
      \cup {[f |-> "find", s |-> s, p |-> p, i |-> i] : s \in Strings({1, 2}, 4), p \in Strings({1, 2}, 3), i \in Around(6)}
      \cup {[f |-> "bytes", s |-> s] : s \in Strings(Bytes, 3) \cup {<<b>> \o s : b \in Bytes \cap 224..255, s \in [1..3 -> Bytes]}}
      \cup {[f |-> "chars", codes |-> c, i |-> i, j |-> j] : c \in Strings(Codes, 2), i \in (-3)..7, j \in (-3)..7}
TextResult(c) ==
    CASE c.f = "compare" -> <<l_strcmp(c.l, c.r)>>
      [] c.f = "slice"   -> <<str_sub(c.s, c.i, c.j), str_byte(c.s, c.i, c.j)>>
      [] c.f = "repeat"  -> str_rep(c.s, c.n, c.sep)
      [] c.f = "find"    -> str_find(c.s, c.p, c.i)
      [] c.f = "bytes"   -> <<utf8_decode(c.s, 1), utflen(c.s, 1, -1), codepoint(c.s, 1, Len(c.s)), Iterated(c.s, 0)>>
      [] c.f = "chars"   -> LET s == utfchar(c.codes) IN <<s, utflen(s, c.i, c.j), codepoint(s, c.i, c.j), byteoffset(s, c.j, c.i)>>

\* A place in a string, from the end if negative: maybe outside it.
PlaceOf(pos, s) == IF pos < 0 THEN Len(s) + pos + 1 ELSE pos
Slice(s, i, j) == LET ks == {k \in DOMAIN s : PlaceOf(i, s) <= k /\ k <= PlaceOf(j, s)}
                  IN [k \in 1..Cardinality(ks) |-> s[Min(ks) + k - 1]]
\* The table of the UTF-8 standard.
Cont(n) == 128 + (n % 64)
Encoding(x) ==
    CASE x < 128 -> <<x>>
      [] x \in 128..2047 -> <<192 + x \div 64, Cont(x)>>
      [] x \in 2048..65535 -> <<224 + x \div 4096, Cont(x \div 64), Cont(x)>>
      [] x > 65535 -> <<240 + x \div 262144, Cont(x \div 4096), Cont(x \div 64), Cont(x)>>
\* The character at p, if there is one.
Payload(t) == FoldLeft(LAMBDA r, b : r * 64 + (b % 64), t[1] % 2^(IF Len(t) = 1 THEN 7 ELSE 7 - Len(t)), Tail(t))
CharAt(s, p) == {x \in {Payload(SubSeq(s, p, p + n)) : n \in 0..(Least(Len(s) - p, 3))} :
                    x <= MAXUNICODE /\ IsPrefix(Encoding(x), SubSeq(s, p, Len(s)))}
RECURSIVE CharsFrom(_, _)
\* [position, code] of the characters from p on, up to what is none.
CharsFrom(s, p) == LET cs == CharAt(s, p) IN
                   IF p > Len(s) \/ cs = {} THEN <<>>
                   ELSE LET x == CHOOSE x \in cs : TRUE IN <<<<p, x>>>> \o CharsFrom(s, p + Len(Encoding(x)))
Behind(s, cs) == IF cs = <<>> THEN 1 ELSE Last(cs)[1] + Len(Encoding(Last(cs)[2]))
\* What each answer has to be: strings are ordered byte by byte, with zeros
\* in them or not; a slice has the places between its ends, wherever they
\* are; no string is longer than MAXSIZE; a search finds the first place; the
\* bytes of a string are decoded if and only if they are what UTF-8 says, in
\* one pass or by iteration, and the place of the first error is told; and
\* the positions of characters are those of their first bytes.
TextAgrees(c, r) ==
    CASE c.f = "compare" ->
            LET common == {k \in 0..Least(Len(c.l), Len(c.r)) : SubSeq(c.l, 1, k) = SubSeq(c.r, 1, k)}
                n == Max(common) + 1
            IN r = <<IF c.l = c.r THEN 0 ELSE IF n > Len(c.l) THEN -1 ELSE IF n > Len(c.r) THEN 1 ELSE IF c.l[n] < c.r[n] THEN -1 ELSE 1>>
      [] c.f = "slice" ->
            LET t == Slice(c.s, c.i, c.j) IN r = <<t, IF Len(t) > INT_MAX THEN Error ELSE t>>
      [] c.f = "repeat" ->
            IF c.n > 0 /\ c.n * (Len(c.s) + Len(c.sep)) > MAXSIZE THEN r = Error
            ELSE r = FlattenSeq([k \in 1..(IF c.n > 0 THEN 2 * c.n - 1 ELSE 0) |-> IF k % 2 = 1 THEN c.s ELSE c.sep])
      [] c.f = "find" ->
            LET ks == {k \in 1..(Len(c.s) + 1) : k >= PlaceOf(c.i, c.s) /\ IsPrefix(c.p, SubSeq(c.s, k, Len(c.s)))}
            IN r = IF ks = {} THEN Nil ELSE <<Min(ks), Min(ks) + Len(c.p) - 1>>
      [] c.f = "bytes" ->
            LET cs == CharsFrom(c.s, 1) valid == Behind(c.s, cs) > Len(c.s) codes == [n \in DOMAIN cs |-> cs[n][2]] IN
            /\ c.s # <<>> => r[1] = IF cs = <<>> THEN Error ELSE <<cs[1][2], Behind(c.s, <<cs[1]>>)>>
            /\ r[2] = IF valid THEN <<Len(cs)>> ELSE Nil \o <<Behind(c.s, cs)>>
            /\ r[3] = IF valid /\ Len(c.s) <= INT_MAX THEN codes ELSE Error
            /\ IF valid THEN r[4] = cs ELSE Last(r[4]) = Error /\ IsPrefix(Front(r[4]), cs)
      [] c.f = "chars" ->
            LET s  == FlattenSeq([n \in DOMAIN c.codes |-> Encoding(c.codes[n])])
                cs == CharsFrom(s, 1)
                i  == PlaceOf(c.i, s)
                j  == PlaceOf(c.j, s)
                starts == {cs[n][1] : n \in DOMAIN cs} \cup {Len(s) + 1}
                from == SelectSeq(cs, LAMBDA x : x[1] \in i..j)
                Nth(n) == {k \in starts : Cardinality({x \in starts : x < k}) = n}
                sought == Nth(Cardinality({x \in starts : x < i}) + (IF c.j > 0 THEN c.j - 1 ELSE c.j))
            IN /\ r[1] = s
               /\ i \in starts /\ j <= Len(s) => r[2] = <<Len(from)>>
               /\ i \in starts /\ j <= Len(s) /\ j - i < INT_MAX => r[3] = [n \in DOMAIN from |-> from[n][2]]
               /\ i \in 1..(Len(s) + 1) /\ c.j = 0 => r[4] = <<Max({k \in starts : k <= i})>>
               /\ i \in starts /\ c.j # 0 => r[4] = IF sought = {} THEN Nil ELSE <<Max(sought)>>
               /\ i \in 2..Len(s) /\ i \notin starts /\ c.j # 0 => r[4] = Error
=============================================================================
