------------------------------ MODULE LuaSort ------------------------------
(***************************************************************************)
(* table.sort (ltablib.c): quicksort with an order function that may answer*)
(* anything.  The comparisons are the steps: between two of them the order *)
(* function has control, and may leave the sort by an error.               *)
(*                                                                         *)
(* The elements are 1..Size.  Each activation of auxsort has the interval  *)
(* lo..up; calls are the activations that wait for the one they called.    *)
(***************************************************************************)
EXTENDS Integers, Sequences, FiniteSets

CONSTANTS Sizes,       \* the lengths of the arrays
          Ranks,       \* for the orders that are orders: how many classes of equal elements
          RANLIMIT,    \* intervals from here on may have random pivots
          Imbalance    \* 128: how many times larger one part has to be for that

VARIABLES a,           \* the array
          order,       \* [elements -> Ranks], or AnyOrder
          at,          \* where auxsort is: "ends", "middle", "up", "down", "split", "sorted" or "invalid"
          lo, up, rnd, p, i, j, pivot,
          calls
sortvars == <<a, order, at, lo, up, rnd, p, i, j, pivot, calls>>

AnyOrder == <<>>
Size == Len(a)
Nil == 0
Get(k) == IF k \in 1..Size THEN a[k] ELSE Nil
Swap(b, k, l) == [b EXCEPT ![k] = b[l], ![l] = b[k]]

\* sort_comp: whether x comes before y.
Answers(x, y) == IF order = AnyOrder \/ Nil \in {x, y} THEN BOOLEAN ELSE {order[x] < order[y]}

SortInitWith(n, o) ==
            /\ a = [k \in 1..n |-> k] /\ order = o
            /\ at = IF Size > 1 THEN "ends" ELSE "sorted"
            /\ lo = 1 /\ up = Size /\ rnd = FALSE
            /\ p = 0 /\ i = 0 /\ j = 0 /\ pivot = Nil /\ calls = <<>>
SortInit == \E n \in Sizes : \E o \in [1..n -> Ranks] \cup {AnyOrder} : SortInitWith(n, o)

\* auxsort goes on with lo..up, or returns to the activations that have no
\* more than one element left.  n is the size of the part it has sorted.
Unbalanced(f) == (f.up - f.lo) \div Imbalance > f.n
Waiting == {k \in DOMAIN calls : calls[k].lo < calls[k].up}
Return == LET last == CHOOSE k \in Waiting : \A l \in Waiting : l <= k IN
          IF Waiting = {} THEN at' = "sorted" /\ calls' = <<>> /\ UNCHANGED <<lo, up, rnd>>
          ELSE /\ at' = "ends" /\ lo' = calls[last].lo /\ up' = calls[last].up
               /\ rnd' \in IF Unbalanced(calls[last]) THEN BOOLEAN ELSE {calls[last].rnd}
               /\ calls' = SubSeq(calls, 1, last - 1)

\* "sort elements 'lo', 'p', and 'up'"
Pivots == LET r4 == (up - lo) \div 4 IN
          IF up - lo < RANLIMIT \/ ~rnd THEN {(lo + up) \div 2} ELSE (lo + r4)..(lo + 3 * r4 - 1)
SortEnds ==
    /\ at = "ends"
    /\ \E less \in Answers(Get(up), Get(lo)) : a' = IF less THEN Swap(a, lo, up) ELSE a
    /\ IF up - lo = 1 THEN Return /\ UNCHANGED p
       ELSE at' = "middle" /\ p' \in Pivots /\ UNCHANGED <<lo, up, rnd, calls>>
    /\ UNCHANGED <<order, i, j, pivot>>
SortMiddle ==
    /\ at = "middle"
    /\ \E b \in {Swap(a, p, lo) : x \in {TRUE} \cap Answers(Get(p), Get(lo))}
                \cup {IF x THEN Swap(a, p, up) ELSE a : x \in IF FALSE \in Answers(Get(p), Get(lo)) THEN Answers(Get(up), Get(p)) ELSE {}} :
          IF up - lo = 2 THEN a' = b /\ Return /\ UNCHANGED <<i, j, pivot>>
          ELSE /\ pivot' = b[p] /\ a' = Swap(b, p, up - 1)
               /\ i' = lo /\ j' = up - 1 /\ at' = "up" /\ UNCHANGED <<lo, up, rnd, calls>>
    /\ UNCHANGED <<order, p>>

Part == UNCHANGED <<order, lo, up, rnd, pivot, calls>>
\* "repeat ++i while a[i] < P"
\* Fault: without the test for the end.
PartitionUp_faulty ==
    /\ at = "up"
    /\ i' = i + 1
    /\ \E less \in Answers(Get(i + 1), pivot) : at' = IF ~less THEN "down" ELSE "up"
    /\ Part /\ UNCHANGED <<a, p, j>>
PartitionUp ==
    /\ at = "up"
    /\ i' = i + 1
    /\ \E less \in Answers(Get(i + 1), pivot) :
          at' = IF ~less THEN "down" ELSE IF i + 1 = up - 1 THEN "invalid" ELSE "up"
    /\ Part /\ UNCHANGED <<a, p, j>>
\* "repeat --j while P < a[j]"
PartitionDown ==
    /\ at = "down"
    /\ j' = j - 1
    /\ \E less \in Answers(pivot, Get(j - 1)) :
          \/ less /\ at' = (IF j - 1 < i THEN "invalid" ELSE "down") /\ UNCHANGED <<a, p>>
          \/ ~less /\ j - 1 < i /\ a' = Swap(a, up - 1, i) /\ p' = i /\ at' = "split"
          \/ ~less /\ j - 1 >= i /\ a' = Swap(a, i, j - 1) /\ at' = "up" /\ UNCHANGED p
    /\ Part /\ UNCHANGED i
\* "call recursively for" the smaller interval, the other is a tail call.
Recurse == IF p - lo < up - p
           THEN <<[lo |-> lo, up |-> p - 1], [lo |-> p + 1, up |-> up, n |-> p - lo, rnd |-> rnd]>>
           ELSE <<[lo |-> p + 1, up |-> up], [lo |-> lo, up |-> p - 1, n |-> up - p, rnd |-> rnd]>>
Split ==
    /\ at = "split"
    /\ LET called == Recurse[1] rest == Recurse[2] IN
       IF called.lo < called.up
       THEN /\ lo' = called.lo /\ up' = called.up /\ calls' = Append(calls, rest) /\ at' = "ends" /\ UNCHANGED rnd
       ELSE /\ lo' = rest.lo /\ up' = rest.up /\ at' = "ends" /\ UNCHANGED calls
            /\ rnd' \in IF Unbalanced(rest) THEN BOOLEAN ELSE {rnd}
    /\ UNCHANGED <<a, order, p, i, j, pivot>>
SortNext == SortEnds \/ SortMiddle \/ PartitionUp \/ PartitionDown \/ Split
SortSpec == SortInit /\ [][SortNext]_sortvars

----------------------------------------------------------------------------
\* Whatever the order function answers, and whenever it gets control, the
\* array holds the elements it was given, each once; no place outside the
\* interval is read or written; and the activations are never more than the
\* logarithm of the size, as the smaller part is the one called for.  If the
\* answers come from an order the sort ends, without an error, in that order
\* ("invalid order function for sorting", partition and auxsort).
SortRight ==
    /\ {a[k] : k \in DOMAIN a} = DOMAIN a
    /\ at = "up" => i \in lo..(up - 2)
    /\ at \in {"down", "split"} => i \in (lo + 1)..(up - 1) /\ j \in (lo - 1)..(up - 1)
    /\ at = "down" => j > lo
    /\ calls # <<>> => 2^Len(calls) < Size
    /\ order # AnyOrder => at # "invalid"
    /\ at = "sorted" /\ order # AnyOrder => \A k \in 1..(Size - 1) : order[a[k]] <= order[a[k + 1]]
=============================================================================
