----------------------------- MODULE LuaTabLib -----------------------------
(***************************************************************************)
(* The functions of ltablib.c that move fields: insert, remove, move,      *)
(* concat and unpack, with integers of a fixed width and every argument.   *)
(*                                                                         *)
(* A table is a function from the integers; a result is [T, value, error], *)
(* where error is None, "argument", or "overflow" if the C code computed an*)
(* integer there is none for.                                              *)
(***************************************************************************)
EXTENDS Integers, Sequences, SequencesExt, FiniteSetsExt

CONSTANTS MAXINTEGER, INT_MAX

Ints == (-MAXINTEGER - 1)..MAXINTEGER
Nil  == MAXINTEGER + 1
None == "none"
New  == MAXINTEGER + 2
Fresh == [k \in Ints |-> k]         \* t[k] = k: where each value comes from
Done(T, v) == [T |-> T, value |-> v, error |-> None]
Fails(T, e) == [T |-> T, value |-> <<>>, error |-> e]

\* "t[to] = t[from]" for each pair, one after the other.
CopyAll(T, pairs) ==
    IF \E n \in DOMAIN pairs : pairs[n][1] \notin Ints \/ pairs[n][2] \notin Ints THEN Fails(T, "overflow")
    ELSE Done(FoldLeft(LAMBDA G, c : [G EXCEPT ![c[2]] = G[c[1]]], T, pairs), <<>>)
Upwards(n, from, to)   == [k \in 1..n |-> <<from + k - 1, to + k - 1>>]
Downwards(n, from, to) == Reverse(Upwards(n, from, to))
Count(n) == IF n > 0 THEN n ELSE 0
Then(r, k, v, value) == IF r.error # None THEN r ELSE Done([r.T EXCEPT ![k] = v], value)

\* Size is what luaL_len says, below MAXINTEGER.
tinsert(T, size, pos, v) ==
    LET e == size + 1 IN
    IF pos \notin 1..e THEN Fails(T, "argument")
    ELSE Then(CopyAll(T, Downwards(e - pos, pos, pos + 1)), pos, v, <<>>)
tremove(T, size, pos) ==
    IF pos # size /\ pos \notin 1..(size + 1) THEN Fails(T, "argument")
    ELSE Then(CopyAll(T, Upwards(Count(size - pos), pos + 1, pos)), IF pos < size THEN size ELSE pos, Nil, <<T[pos]>>)

\* "destination after original range, or smaller than origin, or copying to
\* another table"
MoveUpwards(f, e, t, same) == t > e \/ t <= f \/ ~same
\* Into is the other table; it is T when they are the same.
tmove(T, f, e, t, same) ==
    LET n     == e - f + 1
        dest  == IF same THEN T ELSE [k \in Ints |-> Nil]
        pairs == IF MoveUpwards(f, e, t, same) THEN Upwards(n, f, t) ELSE Downwards(n, f, t)
    IN CASE e < f -> Done(dest, <<>>)
         [] e >= f /\ ~(f > 0 \/ e < MAXINTEGER + f) -> Fails(dest, "argument")
         [] e >= f /\ (f > 0 \/ e < MAXINTEGER + f) /\ ~(t <= MAXINTEGER - n + 1) -> Fails(dest, "argument")
         [] OTHER -> IF same THEN CopyAll(T, pairs)
                     ELSE IF \E k \in 1..n : t + k - 1 \notin Ints THEN Fails(dest, "overflow")
                     ELSE Done(FoldLeft(LAMBDA G, c : [G EXCEPT ![c[2]] = T[c[1]]], dest, pairs), <<>>)

\* The loop ends before the last element, "to avoid overflows".
ToLast(T, i, e) == [k \in 1..Count(e - i) |-> T[i + k - 1]] \o (IF i <= e THEN <<T[e]>> ELSE <<>>)
tconcat(T, i, last) == Done(T, ToLast(T, i, last))
unpack(T, i, e) ==
    LET n == (e - i) % (2 * MAXINTEGER + 2) IN
    IF i > e THEN Done(T, <<>>) ELSE IF n >= INT_MAX THEN Fails(T, "argument") ELSE Done(T, ToLast(T, i, e))

----------------------------------------------------------------------------
TableSizes == 0..(MAXINTEGER - 1)
TableCalls ==
    {[f |-> "insert", size |-> n, pos |-> p] : n \in TableSizes, p \in Ints}
      \cup {[f |-> "remove", size |-> n, pos |-> p] : n \in TableSizes, p \in Ints}
      \cup {[f |-> "move", from |-> f, last |-> e, to |-> t, same |-> b] : f, e, t \in Ints, b \in BOOLEAN}
      \cup {[f |-> g, from |-> i, last |-> e] : g \in {"concat", "unpack"}, i, e \in Ints}
TableResult(c) ==
    LET T == Fresh IN
    CASE c.f = "insert" -> tinsert(T, c.size, c.pos, New)
      [] c.f = "remove" -> tremove(T, c.size, c.pos)
      [] c.f = "move"   -> tmove(T, c.from, c.last, c.to, c.same)
      [] c.f = "concat" -> tconcat(T, c.from, c.last)
      [] c.f = "unpack" -> unpack(T, c.from, c.last)

\* What the manual says of them: the fields behind the position move as one,
\* those that are moved arrive as they were though the ranges overlap, and a
\* call is refused if and only if its integers cannot be counted or counted
\* up to (tinsert, tremove, tmove, unpack).
TableMeaning(c) ==
    LET T == Fresh
        range == IF c.f \in {"concat", "unpack", "move"} THEN c.last - c.from + 1 ELSE 0
    IN CASE c.f = "insert" ->
              IF c.pos \notin 1..(c.size + 1) THEN Fails(T, "argument")
              ELSE Done([k \in Ints |-> IF k = c.pos THEN New ELSE IF k \in c.pos..(c.size + 1) THEN T[k - 1] ELSE T[k]], <<>>)
         [] c.f = "remove" ->
              IF c.pos \notin 1..(c.size + 1) \cup {c.size} THEN Fails(T, "argument")
              ELSE Done([k \in Ints |-> IF k \in c.pos..(c.size - 1) THEN T[k + 1]
                                        ELSE IF k \in {c.pos, c.size} /\ k >= c.pos THEN Nil ELSE T[k]], <<T[c.pos]>>)
         [] c.f = "move" ->
              LET dest == IF c.same THEN T ELSE [k \in Ints |-> Nil] IN
              IF range > 0 /\ (range > MAXINTEGER \/ c.to + range - 1 > MAXINTEGER) THEN Fails(dest, "argument")
              ELSE Done([k \in Ints |-> IF k - c.to \in 0..(range - 1) THEN T[c.from + k - c.to] ELSE dest[k]], <<>>)
         [] OTHER -> IF c.f = "unpack" /\ range > INT_MAX THEN Fails(T, "argument")
                     ELSE Done(T, [k \in 1..Count(range) |-> T[c.from + k - 1]])
TableAgrees(c, r) == r = TableMeaning(c)
=============================================================================
