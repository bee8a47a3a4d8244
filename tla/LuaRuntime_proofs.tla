------------------------- MODULE LuaRuntime_proofs -------------------------
(***************************************************************************)
(* Theorems about parts of the run-time system: the input (LuaZio), the    *)
(* table of strings (LuaStrTab), the upvalues and what they keep alive,    *)
(* how long garbage lasts (LuaUpval), and table.sort (LuaSort).  Each has  *)
(* inductive invariants that its steps keep, and is left alone by the      *)
(* steps of the others.                                                    *)
(***************************************************************************)
EXTENDS LuaRuntime_MC, LuaInduction, SequenceTheorems

-----------------------------------------------------------------------------
(* The input.                                                              *)

Ends(g) == g # <<>> /\ g[Len(g)] = EOZ
Buffers == [n : Nat, p : Nat, given : 0 .. Length]

\* What has been read are bytes from before p, in their order, and in the end
\* EOZ; the buffer holds the bytes that z.n counts, and perhaps more.
Reads(b, g) ==
  /\ b \in Buffers /\ g \in Seq(Int)
  /\ 1 <= b.p /\ b.p <= b.given + 1
  /\ ~Ends(g) => b.n <= b.given - b.p + 1
  /\ \A k \in 1 .. Len(g) : g[k] < b.p /\ (g[k] = EOZ => k = Len(g))
  /\ \A k, l \in 1 .. Len(g) : k < l => g[l] = EOZ \/ g[k] < g[l]
\* And none is left out.
ReadsAll(b, g) ==
  /\ \A k \in 1 .. Len(g) : g[k] = IF k <= Length THEN k ELSE EOZ
  /\ Len(g) <= Length + 1
  /\ ~Ends(g) => b.p = Len(g) + 1 /\ b.n = b.given - b.p + 1
ReadsWell(b, g) == Reads(b, g) /\ (~looks => ReadsAll(b, g))

\* The inductive invariant.
InputInv ==
  /\ cuts \subseteq 1 .. Length - 1 /\ looks \in BOOLEAN
  /\ ReadsWell(z, got)
  /\ ~looks => looked = Nothing

\* A buffer after bytes were taken from it or put back.
LEMMA Changed ==
  ASSUME NEW b, NEW n0, NEW p0, NEW v, b = [n |-> n0, p |-> p0, given |-> v], NEW k
  PROVE  took(b, k) = [n |-> n0 - k, p |-> p0 + k, given |-> v]
<1> DEFINE x == n0 - k
           y == p0 + k
<1>1. [b EXCEPT !.n = x] = [n |-> x, p |-> p0, given |-> v]
  OBVIOUS
<1>2. [[n |-> x, p |-> p0, given |-> v] EXCEPT !.p = y] = [n |-> x, p |-> y, given |-> v]
  OBVIOUS
<1>3. [b EXCEPT !.n = x, !.p = y] = [[b EXCEPT !.n = x] EXCEPT !.p = y]
  OBVIOUS
<1>4. b.n = n0 /\ b.p = p0
  OBVIOUS
<1>5. took(b, k) = [b EXCEPT !.n = x, !.p = y]
  BY <1>4 DEF took
<1> QED BY <1>1, <1>2, <1>3, <1>5

\* Bytes are taken from the buffer, in their order.
LEMMA Taken ==
  ASSUME NEW b, NEW g, ReadsWell(b, g), ~Ends(g), NEW k \in 1 .. b.n, NEW s \in Seq(Int), Len(s) = k,
         \A m \in 1 .. k : s[m] = b.p + m - 1
  PROVE  ReadsWell(took(b, k), g \o s) /\ ~Ends(g \o s)
<1> DEFINE c == took(b, k)
           e == g \o s
<1>1. /\ b \in Buffers /\ g \in Seq(Int) /\ Len(g) \in Nat /\ k \in Nat /\ Length \in Nat
      /\ b.n \in Nat /\ b.p \in Nat /\ b.given \in 0 .. Length /\ 1 <= b.p /\ b.n <= b.given - b.p + 1
      /\ 1 <= k /\ k <= b.n
  BY SizeAssumption DEF ReadsWell, Reads, Buffers
<1>2. c \in Buffers /\ c.n = b.n - k /\ c.p = b.p + k /\ c.given = b.given
  <2>1. c = [n |-> b.n - k, p |-> b.p + k, given |-> b.given]
    <3>1. b = [n |-> b.n, p |-> b.p, given |-> b.given]
      BY <1>1 DEF Buffers
    <3> QED BY <3>1, Changed
  <2>2. b.n - k \in Nat /\ b.p + k \in Nat
    BY <1>1
  <2> HIDE DEF c
  <2> QED BY <1>1, <2>1, <2>2 DEF Buffers
<1>3. /\ e \in Seq(Int) /\ Len(e) = Len(g) + k
      /\ \A m \in 1 .. Len(g) : e[m] = g[m]
      /\ \A m \in Len(g) + 1 .. Len(g) + k : e[m] = s[m - Len(g)] /\ m - Len(g) \in 1 .. k
  <2>1. Len(s) = k /\ s \in Seq(Int) /\ g \in Seq(Int) /\ Len(g) \in Nat
    BY <1>1
  <2>2. e \in Seq(Int) /\ Len(e) = Len(g) + k
    <3>1. g \o s \in Seq(Int) /\ Len(g \o s) = Len(g) + Len(s)
      BY ONLY <2>1, ConcatProperties
    <3> QED BY <2>1, <3>1
  <2>3. \A m \in 1 .. Len(g) : e[m] = g[m]
    BY <2>1
  <2>4. ASSUME NEW m \in Len(g) + 1 .. Len(g) + k
        PROVE  e[m] = s[m - Len(g)] /\ m - Len(g) \in 1 .. k
    BY <1>1, <2>1
  <2> HIDE DEF e
  <2> QED BY <2>2, <2>3, <2>4
<1>4. \A m \in Len(g) + 1 .. Len(g) + k : e[m] = b.p + (m - Len(g)) - 1
  BY <1>3
<1>5. \A m \in 1 .. Len(e) : m \in 1 .. Len(g) \/ m \in Len(g) + 1 .. Len(g) + k
  BY <1>1, <1>3
<1> HIDE DEF c, e
<1>6. ~Ends(e)
  <2>1. Len(e) \in Len(g) + 1 .. Len(g) + k
    BY <1>1, <1>3
  <2>2. e[Len(e)] = b.p + k - 1
    <3>1. e[Len(e)] = b.p + (Len(e) - Len(g)) - 1
      BY <1>4, <2>1
    <3>2. Len(e) - Len(g) = k
      BY <1>1, <1>3
    <3> QED BY <3>1, <3>2
  <2> QED BY <1>1, <2>2 DEF Ends, EOZ
<1>7. \A m \in 1 .. Len(g) : g[m] \in Int /\ g[m] < b.p /\ g[m] # EOZ
  <2>1. \A m \in 1 .. Len(g) : g[m] \in Int /\ g[m] < b.p /\ (g[m] = EOZ => m = Len(g))
    BY <1>1 DEF ReadsWell, Reads
  <2>2. Len(g) \in 1 .. Len(g) => g[Len(g)] # EOZ
    BY <1>1 DEF Ends
  <2> QED BY <2>1, <2>2
<1>8. Reads(c, e)
  <2>1. ASSUME NEW m \in 1 .. Len(e)
        PROVE  e[m] < c.p /\ e[m] # EOZ
    <3>1. CASE m \in 1 .. Len(g)
      <4>1. e[m] \in Int /\ e[m] < b.p /\ e[m] # EOZ
        BY <1>3, <1>7, <3>1
      <4> QED BY <1>1, <1>2, <4>1
    <3>2. CASE m \in Len(g) + 1 .. Len(g) + k
      <4>1. e[m] = b.p + (m - Len(g)) - 1 /\ m - Len(g) \in 1 .. k
        BY <1>3, <1>4, <3>2
      <4>2. m - Len(g) >= 1 /\ m - Len(g) <= k /\ m - Len(g) \in Int
        BY <1>1, <4>1
      <4>3. e[m] < c.p /\ e[m] > 0
        <5> DEFINE d == m - Len(g)
        <5>1. e[m] = b.p + d - 1 /\ d \in Int /\ 1 <= d /\ d <= k
          BY <4>1, <4>2
        <5> HIDE DEF d
        <5> QED BY <1>1, <1>2, <5>1
      <4> QED BY <4>3 DEF EOZ
    <3> QED BY <1>5, <3>1, <3>2
  <2>2. ASSUME NEW m \in 1 .. Len(e), NEW l \in 1 .. Len(e), m < l
        PROVE  e[m] < e[l]
    <3>1. CASE l \in 1 .. Len(g)
      <4>1. m \in 1 .. Len(g)
        BY <2>2, <3>1
      <4>2. g[l] = EOZ \/ g[m] < g[l]
        BY <2>2, <3>1, <4>1 DEF ReadsWell, Reads
      <4> QED BY <1>3, <1>7, <3>1, <4>1, <4>2
    <3>2. CASE l \in Len(g) + 1 .. Len(g) + k
      <4>1. e[l] = b.p + (l - Len(g)) - 1
        BY <1>4, <3>2
      <4>2. CASE m \in 1 .. Len(g)
        <5>1. e[m] \in Int /\ e[m] < b.p
          BY <1>3, <1>7, <4>2
        <5>2. l - Len(g) \in Int /\ l - Len(g) >= 1
          BY <1>1, <3>2
        <5> DEFINE d == l - Len(g)
        <5>3. e[l] = b.p + d - 1 /\ d \in Int /\ d >= 1
          BY <4>1, <5>2
        <5> HIDE DEF d
        <5> QED BY <1>1, <5>1, <5>3
      <4>3. CASE m \in Len(g) + 1 .. Len(g) + k
        BY <1>1, <1>4, <2>2, <3>2, <4>1, <4>3
      <4> QED BY <1>5, <4>2, <4>3
    <3> QED BY <1>5, <3>1, <3>2
  <2>3. 1 <= c.p /\ c.p <= c.given + 1 /\ c.n <= c.given - c.p + 1
    <3>1. 1 <= b.p + k /\ b.p + k <= b.given + 1 /\ b.n - k <= b.given - (b.p + k) + 1
      <4>1. /\ b.n \in Int /\ b.p \in Int /\ b.given \in Int /\ k \in Int
            /\ 1 <= b.p /\ b.n <= b.given - b.p + 1 /\ 1 <= k /\ k <= b.n
        BY <1>1
      <4> QED BY ONLY <4>1
    <3> QED BY <1>2, <3>1
  <2> QED BY <1>2, <1>3, <2>1, <2>2, <2>3 DEF Reads
<1>9. ASSUME ~looks
      PROVE  ReadsAll(c, e)
  <2>1. ReadsAll(b, g)
    BY <1>9 DEF ReadsWell
  <2>2. b.p = Len(g) + 1 /\ b.n = b.given - b.p + 1
    BY <2>1 DEF ReadsAll
  <2>3. Len(e) <= Length
    BY <1>1, <1>3, <2>2
  <2>4. ASSUME NEW m \in 1 .. Len(e)
        PROVE  e[m] = m
    <3>1. CASE m \in 1 .. Len(g)
      <4>1. Len(g) <= b.given /\ b.given <= Length /\ b.given \in Int
        BY <1>1, <2>2
      <4>2. m <= Length
        BY <1>1, <3>1, <4>1
      <4> QED BY <1>3, <2>1, <3>1, <4>2 DEF ReadsAll
    <3>2. CASE m \in Len(g) + 1 .. Len(g) + k
      BY <1>1, <1>4, <2>2, <3>2
    <3> QED BY <1>5, <3>1, <3>2
  <2>5. c.p = Len(e) + 1 /\ c.n = c.given - c.p + 1
    <3>1. c.n = b.n - k /\ c.p = b.p + k /\ c.given = b.given /\ Len(e) = Len(g) + k
      BY <1>2, <1>3
    <3>2. b.p \in Nat /\ b.n \in Nat /\ b.given \in Int /\ k \in Nat /\ Len(g) \in Nat
      BY <1>1
    <3> QED BY <2>2, <3>1, <3>2
  <2>6. \A m \in 1 .. Len(e) : m <= Length
    BY <1>1, <1>3, <2>3
  <2>7. \A m \in 1 .. Len(e) : e[m] = IF m <= Length THEN m ELSE EOZ
    BY <2>4, <2>6
  <2>8. Len(e) <= Length + 1
    BY <1>1, <1>3, <2>3
  <2> QED BY <2>5, <2>7, <2>8 DEF ReadsAll
<1> QED BY <1>6, <1>8, <1>9 DEF ReadsWell, c, e

\* A byte is taken.
LEMMA TakenOne ==
  ASSUME NEW b, NEW g, ReadsWell(b, g), ~Ends(g), b.n > 0
  PROVE  /\ ReadsWell(took(b, 1), Append(g, Byte(b)))
         /\ b.p <= b.given
<1>1. b \in Buffers /\ g \in Seq(Int) /\ b.n <= b.given - b.p + 1 /\ b.n \in Nat /\ b.p \in Nat /\ b.given \in Int
  BY SizeAssumption DEF ReadsWell, Reads, Buffers
<1>2. Byte(b) = b.p /\ b.p \in Int /\ 1 \in 1 .. b.n /\ b.p <= b.given
  BY <1>1 DEF Byte
<1>3. /\ <<Byte(b)>> \in Seq(Int) /\ Len(<<Byte(b)>>) = 1
      /\ \A m \in 1 .. 1 : <<Byte(b)>>[m] = b.p + m - 1
  BY <1>2
<1>4. ReadsWell(took(b, 1), g \o <<Byte(b)>>)
  BY <1>2, <1>3, Taken
<1>5. g \o <<Byte(b)>> = Append(g, Byte(b))
  BY <1>1, <1>2
<1> QED BY <1>2, <1>4, <1>5

\* The end is read, once.
LEMMA TakenEnd ==
  ASSUME NEW b, NEW g, ReadsWell(b, g), ~Ends(g), b.n = 0, AtEnd(b), NEW c \in Buffers,
         c.p = b.p, c.given = b.given
  PROVE  ReadsWell(c, Append(g, EOZ))
<1> DEFINE e == Append(g, EOZ)
<1>1. /\ b \in Buffers /\ g \in Seq(Int) /\ Len(g) \in Nat /\ Length \in Nat
      /\ b.n \in Nat /\ b.p \in Nat /\ b.given \in 0 .. Length /\ 1 <= b.p /\ b.p <= b.given + 1
  BY SizeAssumption DEF ReadsWell, Reads, Buffers
<1>2. /\ e \in Seq(Int) /\ Len(e) = Len(g) + 1 /\ e[Len(g) + 1] = EOZ
      /\ \A m \in 1 .. Len(g) : e[m] = g[m]
      /\ \A m \in 1 .. Len(e) : m \in 1 .. Len(g) \/ m = Len(g) + 1
  BY <1>1 DEF EOZ
<1> HIDE DEF e
<1>3. Ends(e)
  BY <1>1, <1>2 DEF Ends
<1>4. \A m \in 1 .. Len(g) : g[m] < b.p /\ g[m] # EOZ
  <2>1. \A m \in 1 .. Len(g) : g[m] < b.p /\ (g[m] = EOZ => m = Len(g))
    BY DEF ReadsWell, Reads
  <2>2. Len(g) \in 1 .. Len(g) => g[Len(g)] # EOZ
    BY <1>1 DEF Ends
  <2> QED BY <2>1, <2>2
<1>5. Reads(c, e)
  <2>1. ASSUME NEW m \in 1 .. Len(e)
        PROVE  e[m] < c.p /\ (e[m] = EOZ => m = Len(e))
    <3>1. CASE m \in 1 .. Len(g)
      BY <1>1, <1>2, <1>4, <3>1
    <3>2. CASE m = Len(g) + 1
      <4>1. e[m] = EOZ /\ EOZ < b.p
        BY <1>1, <1>2, <3>2 DEF EOZ
      <4> QED BY <1>2, <3>2, <4>1
    <3> QED BY <1>2, <3>1, <3>2
  <2>2. ASSUME NEW m \in 1 .. Len(e), NEW l \in 1 .. Len(e), m < l
        PROVE  e[l] = EOZ \/ e[m] < e[l]
    <3>1. CASE l \in 1 .. Len(g)
      <4>1. m \in 1 .. Len(g)
        BY <2>2, <3>1
      <4>2. g[l] = EOZ \/ g[m] < g[l]
        BY <2>2, <3>1, <4>1 DEF ReadsWell, Reads
      <4> QED BY <1>2, <3>1, <4>1, <4>2
    <3> QED BY <1>2, <3>1
  <2>3. 1 <= c.p /\ c.p <= c.given + 1
    BY <1>1
  <2> QED BY <1>2, <1>3, <2>1, <2>2, <2>3 DEF Reads
<1>6. ASSUME ~looks
      PROVE  ReadsAll(c, e)
  <2>1. ReadsAll(b, g)
    BY <1>6 DEF ReadsWell
  <2>2. Len(g) = Length
    BY <1>1, <2>1 DEF ReadsAll, AtEnd
  <2> QED BY <1>1, <1>2, <1>3, <2>1, <2>2 DEF ReadsAll
<1> QED BY <1>5, <1>6 DEF ReadsWell, e

\* The next chunk is not empty, and within the input.
LEMMA NextChunk ==
  ASSUME NEW b \in Buffers, cuts \subseteq 1 .. Length - 1, ~AtEnd(b)
  PROVE  ChunkEnd(b) \in b.given + 1 .. Length
<1> DEFINE C == {c \in cuts \cup {Length} : c > b.given}
<1>1. Length \in Nat /\ b.given \in 0 .. Length /\ b.given # Length
  BY SizeAssumption DEF Buffers, AtEnd
<1>2. C \in SUBSET Nat /\ Length \in C /\ \A c \in C : c <= Length /\ c > b.given /\ c \in Nat
  <2>1. ASSUME NEW c \in C
        PROVE  c <= Length /\ c > b.given /\ c \in Nat
    <3>1. c \in cuts \/ c = Length
      OBVIOUS
    <3>2. c \in cuts => c \in 1 .. Length - 1
      OBVIOUS
    <3> QED BY <1>1, <3>1, <3>2
  <2>2. Length \in C
    BY <1>1
  <2> HIDE DEF C
  <2> QED BY <2>1, <2>2
<1> HIDE DEF C
<1>3. \E n \in C : \A m \in C : n <= m
  BY <1>2, Least
<1>4. Min(C) \in C
  BY <1>3 DEF Min
<1>5. ChunkEnd(b) = Min(C)
  BY DEF ChunkEnd, C
<1>6. Min(C) <= Length /\ Min(C) > b.given /\ Min(C) \in Nat
  BY <1>2, <1>4
<1> QED BY <1>1, <1>5, <1>6

\* The buffer with the new chunk: as luaZ_read has it, nothing is left out.
LEMMA Refilled ==
  ASSUME NEW b, NEW g, ReadsWell(b, g), ~Ends(g), cuts \subseteq 1 .. Length - 1, ~AtEnd(b)
  PROVE  /\ filled(b) \in Buffers /\ Reads(filled(b), g)
         /\ b.n = 0 => ReadsWell(putback(b), g)
         /\ putback(b).n > 0 /\ putback(b) \in Buffers
         /\ luaZ_fill(b) = took(putback(b), 1)
         /\ Byte(filled(b)) = Byte(putback(b))
<1>1. /\ b \in Buffers /\ g \in Seq(Int) /\ Length \in Nat
      /\ b.n \in Nat /\ b.p \in Nat /\ b.given \in 0 .. Length /\ 1 <= b.p /\ b.p <= b.given + 1
      /\ b.n <= b.given - b.p + 1 /\ Len(g) \in Nat
  BY SizeAssumption DEF ReadsWell, Reads, Buffers
<1>2. PICK e : e = ChunkEnd(b) /\ e \in Int /\ b.given + 1 <= e /\ e <= Length
  BY <1>1, NextChunk
<1>3. filled(b) = [n |-> e - b.given - 1, p |-> b.given + 1, given |-> e]
  BY <1>2 DEF filled
<1>4. luaZ_fill(b) = [n |-> e - b.given - 1, p |-> b.given + 1 + 1, given |-> e]
  BY <1>3 DEF luaZ_fill
<1>5. putback(b) = [n |-> e - b.given, p |-> b.given + 1, given |-> e]
  <2>1. putback(b) = [n |-> e - b.given - 1 + 1, p |-> b.given + 1 + 1 - 1, given |-> e]
    <3> DEFINE f == luaZ_fill(b)
    <3>1. f = [n |-> e - b.given - 1, p |-> b.given + 1 + 1, given |-> e]
      BY <1>4
    <3>2. putback(b) = took(f, -1)
      BY DEF putback
    <3> HIDE DEF f
    <3>3. took(f, -1) = [n |-> e - b.given - 1 - (-1), p |-> b.given + 1 + 1 + (-1), given |-> e]
      BY <3>1, Changed
    <3>4. e - b.given - 1 - (-1) = e - b.given - 1 + 1 /\ b.given + 1 + 1 + (-1) = b.given + 1 + 1 - 1
      BY <1>1, <1>2
    <3> QED BY <3>2, <3>3, <3>4
  <2> QED BY <1>1, <1>2, <2>1
<1>6. filled(b) \in Buffers /\ putback(b) \in Buffers /\ putback(b).n > 0
  BY <1>1, <1>2, <1>3, <1>5 DEF Buffers
<1>7. luaZ_fill(b) = took(putback(b), 1)
  <2>1. took(putback(b), 1) =
          [n |-> e - b.given - 1, p |-> b.given + 1 + 1, given |-> e]
    <3>1. took(putback(b), 1) =
            [n |-> e - b.given - 1, p |-> b.given + 1 + 1, given |-> e]
      BY <1>5, Changed
    <3> QED BY <3>1
  <2> QED BY <1>4, <2>1
<1>8. Byte(filled(b)) = Byte(putback(b))
  BY <1>3, <1>5 DEF Byte
<1>9. Reads(filled(b), g) /\ Reads(putback(b), g)
  <2>1. \A k \in 1 .. Len(g) : g[k] \in Int /\ g[k] < b.p /\ (g[k] = EOZ => k = Len(g))
    BY <1>1 DEF ReadsWell, Reads
  <2>2. \A k \in 1 .. Len(g) : g[k] < b.given + 1 /\ (g[k] = EOZ => k = Len(g))
    BY <1>1, <2>1
  <2>3. \A k, l \in 1 .. Len(g) : k < l => g[l] = EOZ \/ g[k] < g[l]
    BY DEF ReadsWell, Reads
  <2>4. 1 <= b.given + 1 /\ b.given + 1 <= e + 1 /\ e - b.given - 1 <= e - (b.given + 1) + 1 /\ e - b.given <= e - (b.given + 1) + 1
    BY <1>1, <1>2
  <2> QED BY <1>1, <1>3, <1>5, <1>6, <2>2, <2>3, <2>4 DEF Reads
<1>10. ASSUME ~looks, b.n = 0
       PROVE  ReadsAll(putback(b), g)
  <2>1. ReadsAll(b, g)
    BY <1>10 DEF ReadsWell
  <2>2. b.p = Len(g) + 1 /\ b.given - b.p + 1 = 0
    BY <1>10, <2>1 DEF ReadsAll
  <2>3. putback(b).p = Len(g) + 1 /\ putback(b).n = putback(b).given - putback(b).p + 1
    BY <1>1, <1>2, <1>5, <2>2
  <2> QED BY <2>1, <2>3 DEF ReadsAll
<1> QED BY <1>6, <1>7, <1>8, <1>9, <1>10 DEF ReadsWell

\* Once around the loop of luaZ_read.
GoesRound(b, m, g) ==
  \E c, e : \E l \in Nat :
     /\ Round([z |-> b, missing |-> m, got |-> g]) = [z |-> c, missing |-> l, got |-> e]
     /\ ReadsWell(c, e) /\ (l # 0 => ~Ends(e))
LEMMA RoundReads ==
  ASSUME cuts \subseteq 1 .. Length - 1, NEW b, NEW g, NEW m \in Nat, m # 0, ReadsWell(b, g), ~Ends(g)
  PROVE  GoesRound(b, m, g)
<1> DEFINE r == [z |-> b, missing |-> m, got |-> g]
           b0 == IF b.n = 0 THEN putback(b) ELSE b
           k == Min({m, b0.n})
           s == [x \in 1 .. k |-> Byte([b0 EXCEPT !.p = @ + x - 1])]
<1>1. b \in Buffers /\ g \in Seq(Int) /\ b.n \in Nat
  BY DEF ReadsWell, Reads, Buffers
<1>2. CASE b.n = 0 /\ AtEnd(b)
  <2>1. Round(r) = [z |-> b, missing |-> 0, got |-> Append(g, EOZ)]
    BY <1>2 DEF Round
  <2>2. ReadsWell(b, Append(g, EOZ))
    BY <1>1, <1>2, TakenEnd
  <2> QED BY <2>1, <2>2 DEF GoesRound
<1>3. CASE ~(b.n = 0 /\ AtEnd(b))
  <2>1. ReadsWell(b0, g) /\ b0.n > 0 /\ b0 \in Buffers
    <3>1. CASE b.n = 0
      BY <1>3, <3>1, Refilled
    <3>2. CASE b.n # 0
      BY <1>1, <3>2
    <3> QED BY <3>1, <3>2
  <2>2. Round(r) = [z |-> took(b0, k), missing |-> m - k, got |-> g \o s]
    BY <1>3 DEF Round
  <2> HIDE DEF b0
  <2>3. b0.n \in Nat /\ b0.p \in Nat /\ b0.given \in Int /\ b0.n <= b0.given - b0.p + 1
    BY <2>1, SizeAssumption DEF ReadsWell, Reads, Buffers
  <2>4. k \in 1 .. b0.n /\ k <= m
    <3>1. \E x \in {m, b0.n} : \A y \in {m, b0.n} : x <= y
      <4>1. CASE m <= b0.n
        BY <2>3, <4>1
      <4>2. CASE ~(m <= b0.n)
        BY <2>3, <4>2
      <4> QED BY <4>1, <4>2
    <3>2. k \in {m, b0.n} /\ k <= m /\ k <= b0.n
      BY <3>1 DEF Min
    <3> QED BY <2>1, <2>3, <3>2
  <2> HIDE DEF k
  <2>5. \A x \in 1 .. k : s[x] = b0.p + x - 1 /\ s[x] \in Int
    <3> SUFFICES ASSUME NEW x \in 1 .. k
                 PROVE  s[x] = b0.p + x - 1 /\ s[x] \in Int
      OBVIOUS
    <3>1. b0 = [n |-> b0.n, p |-> b0.p, given |-> b0.given]
      BY <2>1 DEF Buffers
    <3> DEFINE d == [b0 EXCEPT !.p = @ + x - 1]
    <3>2. d.p = b0.p + x - 1 /\ d.given = b0.given
      BY <3>1
    <3>3. b0.p + x - 1 <= b0.given
      BY <2>3, <2>4
    <3>4. s[x] = Byte(d)
      OBVIOUS
    <3> HIDE DEF d, s
    <3>5. Byte(d) = b0.p + x - 1
      BY <3>2, <3>3 DEF Byte
    <3> QED BY <2>3, <2>4, <3>4, <3>5
  <2>6. s \in Seq(Int) /\ Len(s) = k
    <3>1. DOMAIN s = 1 .. k /\ k \in Nat
      BY <2>3, <2>4
    <3>2. s \in [1 .. k -> Int]
      BY <2>5
    <3> HIDE DEF s
    <3> QED BY <3>1, <3>2
  <2> HIDE DEF s
  <2>7. ReadsWell(took(b0, k), g \o s) /\ ~Ends(g \o s)
    BY <2>1, <2>4, <2>5, <2>6, Taken
  <2>8. m - k \in Nat
    BY <2>3, <2>4
  <2> QED BY <2>2, <2>7, <2>8 DEF GoesRound
<1> QED BY <1>2, <1>3

\* All that luaZ_read reads.
LEMMA ReadKeeps ==
  ASSUME InputInv, NEW m \in 1 .. Length, luaZ_read(m)
  PROVE  ReadsWell(z', got')
<1> DEFINE first == [z |-> z, missing |-> m, got |-> got]
           read == CHOOSE read : read = [n \in 0 .. m |->
                     IF n = 0 THEN first
                     ELSE IF read[n - 1].missing = 0 THEN read[n - 1]
                     ELSE Round(read[n - 1])]
           States == {r \in [z : Buffers, missing : Nat, got : Seq(Int)] :
                        ReadsWell(r.z, r.got) /\ (r.missing # 0 => ~Ends(r.got))}
           step == [n \in 1 .. m |-> [r \in States |-> IF r.missing = 0 THEN r ELSE Round(r)]]
           T == [n \in 0 .. m |-> States]
<1>1. /\ ~Ends(got) /\ ReadsWell(z, got) /\ cuts \subseteq 1 .. Length - 1 /\ m \in Nat /\ m # 0
      /\ z' = read[m].z /\ got' = read[m].got
  BY SizeAssumption DEF luaZ_read, InputInv, Ended, Ends
<1>2. first \in States
  BY <1>1 DEF ReadsWell, Reads
<1>3. ASSUME NEW r \in States
      PROVE  (IF r.missing = 0 THEN r ELSE Round(r)) \in States
  <2>1. CASE r.missing = 0
    BY <2>1
  <2>2. CASE r.missing # 0
    <3>1. r = [z |-> r.z, missing |-> r.missing, got |-> r.got] /\ r.missing \in Nat
      OBVIOUS
    <3>2. ReadsWell(r.z, r.got) /\ ~Ends(r.got)
      BY <2>2
    <3>3. PICK c, e : \E l \in Nat :
              /\ Round(r) = [z |-> c, missing |-> l, got |-> e]
              /\ ReadsWell(c, e) /\ (l # 0 => ~Ends(e))
      <4>1. GoesRound(r.z, r.missing, r.got)
        BY <1>1, <2>2, <3>1, <3>2, RoundReads
      <4> QED BY <3>1, <4>1 DEF GoesRound
    <3>4. c \in Buffers /\ e \in Seq(Int)
      BY <3>3 DEF ReadsWell, Reads
    <3> QED BY <2>2, <3>3, <3>4
  <2> QED BY <2>1, <2>2
<1> HIDE DEF first, States
<1>4. PICK f : f = [n \in 0 .. m |-> IF n = 0 THEN first ELSE step[n][f[n - 1]]]
  <2> HIDE DEF step
  <2>1. Iterable(m, first, step)
    BY <1>1, Iterated
  <2> QED BY <2>1 DEF Iterable
<1>5. \A n \in 0 .. m : f[n] \in States
  <2>1. f[0] \in T[0]
    BY <1>1, <1>2, <1>4
  <2>2. ASSUME NEW n \in 1 .. m, f[n - 1] \in T[n - 1]
        PROVE  f[n] \in T[n]
    <3>1. n \in 0 .. m /\ n - 1 \in 0 .. m /\ n # 0
      BY <1>1
    <3>2. f[n - 1] \in States
      BY <2>2, <3>1
    <3>3. f[n] = IF f[n - 1].missing = 0 THEN f[n - 1] ELSE Round(f[n - 1])
      BY <1>4, <3>1, <3>2
    <3> QED BY <1>3, <3>1, <3>2, <3>3
  <2>3. \A n \in 0 .. m : f[n] \in T[n]
    <3> HIDE DEF T
    <3> QED BY <1>1, <2>1, <2>2, Inductively
  <2> QED BY <2>3
<1>6. f = [n \in 0 .. m |-> IF n = 0 THEN first
                            ELSE IF f[n - 1].missing = 0 THEN f[n - 1] ELSE Round(f[n - 1])]
  <2> DEFINE f1 == [n \in 0 .. m |-> IF n = 0 THEN first
                            ELSE IF f[n - 1].missing = 0 THEN f[n - 1] ELSE Round(f[n - 1])]
  <2>1. ASSUME NEW n \in 0 .. m
        PROVE  f[n] = f1[n]
    <3>1. CASE n = 0
      BY <1>4, <3>1
    <3>2. CASE n # 0
      <4>1. n \in 1 .. m /\ n - 1 \in 0 .. m
        BY <1>1, <3>2
      <4>2. f[n - 1] \in States
        BY <1>5, <4>1
      <4> QED BY <1>4, <3>2, <4>1, <4>2
    <3> QED BY <3>1, <3>2
  <2>2. f = [n \in 0 .. m |-> f[n]]
    BY <1>4
  <2> QED BY <2>1, <2>2
<1>7. read = [n \in 0 .. m |-> IF n = 0 THEN first
                               ELSE IF read[n - 1].missing = 0 THEN read[n - 1] ELSE Round(read[n - 1])]
  BY <1>6
<1> HIDE DEF read
<1>8. \A n \in 0 .. m : read[n] \in States
  <2>1. read[0] \in T[0]
    BY <1>1, <1>2, <1>7
  <2>2. ASSUME NEW n \in 1 .. m, read[n - 1] \in T[n - 1]
        PROVE  read[n] \in T[n]
    <3>1. n \in 0 .. m /\ n - 1 \in 0 .. m /\ n # 0
      BY <1>1
    <3>2. read[n - 1] \in States
      BY <2>2, <3>1
    <3>3. read[n] = IF read[n - 1].missing = 0 THEN read[n - 1] ELSE Round(read[n - 1])
      BY <1>7, <3>1
    <3> QED BY <1>3, <3>1, <3>2, <3>3
  <2>3. \A n \in 0 .. m : read[n] \in T[n]
    <3> HIDE DEF T
    <3> QED BY <1>1, <2>1, <2>2, Inductively
  <2> QED BY <2>3
<1>9. read[m] \in States
  BY <1>1, <1>8
<1> QED BY <1>1, <1>9 DEF States

\* The invariant holds in the initial state.
LEMMA InputInit == Init => InputInv
<1> SUFFICES ASSUME Init
             PROVE  InputInv
  OBVIOUS
<1>1. /\ z = [n |-> 0, p |-> 1, given |-> 0] /\ got = <<>> /\ Length \in Nat
      /\ cuts \subseteq 1 .. Length - 1 /\ looks = FALSE /\ looked = Nothing
  BY SizeAssumption DEF Init
<1>2. z \in Buffers /\ z.n = 0 /\ z.p = 1 /\ z.given = 0 /\ got \in Seq(Int) /\ Len(got) = 0
  BY <1>1 DEF Buffers
<1>3. Reads(z, got)
  BY <1>2 DEF Reads
<1>4. ReadsAll(z, got)
  BY <1>1, <1>2 DEF ReadsAll
<1> QED BY <1>1, <1>3, <1>4 DEF InputInv, ReadsWell

\* Every step that reads keeps it, and so does a look ahead, which may leave
\* bytes out.
LEMMA InputKept == InputInv /\ Next => InputInv'
<1> SUFFICES ASSUME InputInv, Next
             PROVE  InputInv'
  OBVIOUS
<1>1. /\ cuts \subseteq 1 .. Length - 1 /\ looks \in BOOLEAN /\ ReadsWell(z, got) /\ Reads(z, got)
      /\ ~looks => looked = Nothing
  BY DEF InputInv, ReadsWell
<1>2. z \in Buffers /\ z.n \in Nat /\ got \in Seq(Int)
  BY <1>1 DEF Reads, Buffers
<1>3. Ended <=> Ends(got)
  BY DEF Ended, Ends
<1>4. ASSUME UNCHANGED <<cuts, looks>>, ReadsWell(z', got'), looked' = looked \/ looked' = Nothing
      PROVE  InputInv'
  BY <1>1, <1>4 DEF InputInv, ReadsWell, Reads, ReadsAll
<1>5. CASE zgetc
  <2>1. ~Ends(got) /\ UNCHANGED <<cuts, looks>> /\ looked' = Nothing
    BY <1>3, <1>5 DEF zgetc
  <2>2. CASE z.n > 0
    <3>1. z' = took(z, 1) /\ got' = Append(got, Byte(z))
      BY <1>5, <2>2 DEF zgetc
    <3> QED BY <1>1, <1>4, <2>1, <2>2, <3>1, TakenOne
  <2>3. CASE ~(z.n > 0) /\ AtEnd(z)
    <3>1. z' = [z EXCEPT !.n = minus1(@)] /\ got' = Append(got, EOZ)
      BY <1>5, <2>3 DEF zgetc
    <3>2. z.n = 0
      BY <1>2, <2>3
    <3>3. z' \in Buffers /\ z'.p = z.p /\ z'.given = z.given
      <4>1. z = [n |-> z.n, p |-> z.p, given |-> z.given]
        BY <1>2 DEF Buffers
      <4>2. z' = [n |-> SIZE_MAX, p |-> z.p, given |-> z.given]
        BY <3>1, <3>2, <4>1 DEF minus1
      <4> QED BY <1>2, <4>2, SizeAssumption DEF Buffers
    <3>4. ReadsWell(z', got')
      BY <1>1, <2>1, <2>3, <3>1, <3>2, <3>3, TakenEnd
    <3> QED BY <1>4, <2>1, <3>4
  <2>4. CASE ~(z.n > 0) /\ ~AtEnd(z)
    <3>1. z' = luaZ_fill(z) /\ got' = Append(got, Byte(filled(z))) /\ z.n = 0
      BY <1>2, <1>5, <2>4 DEF zgetc
    <3>2. /\ ReadsWell(putback(z), got) /\ putback(z).n > 0
          /\ z' = took(putback(z), 1) /\ got' = Append(got, Byte(putback(z)))
      BY <1>1, <2>1, <2>4, <3>1, Refilled
    <3>3. ReadsWell(z', got')
      BY <2>1, <3>2, TakenOne
    <3> QED BY <1>4, <2>1, <3>3
  <2> QED BY <2>2, <2>3, <2>4
<1>6. CASE zlookc
  <2>1. ~Ends(got) /\ UNCHANGED <<cuts, got>> /\ looks' = TRUE
    BY <1>3, <1>6 DEF zlookc
  <2>2. z' = z \/ (z' = filled(z) /\ ~AtEnd(z))
    BY <1>6 DEF zlookc
  <2>3. Reads(z', got)
    BY <1>1, <2>1, <2>2, Refilled
  <2>4. Reads(z, got)'
    BY <2>1, <2>3 DEF Reads
  <2> QED BY <1>1, <2>1, <2>4 DEF InputInv, ReadsWell
<1>7. CASE \E m \in 1 .. Length : luaZ_read(m)
  <2>1. PICK m \in 1 .. Length : luaZ_read(m)
    BY <1>7
  <2>2. UNCHANGED <<cuts, looked, looks>>
    BY <2>1 DEF luaZ_read
  <2>3. ReadsWell(z', got')
    BY <2>1, ReadKeeps
  <2> QED BY <1>4, <2>2, <2>3
<1> QED BY <1>5, <1>6, <1>7 DEF Next

\* The invariant always holds, whichever part runs.
LEMMA InputAlways == RuntimeSpec => []InputInv
<1>1. RuntimeInit => InputInv
  BY InputInit DEF RuntimeInit
<1>2. InputInv /\ [RuntimeNext]_rvars => InputInv'
  <2>1. ASSUME InputInv, UNCHANGED vars
        PROVE  InputInv'
    BY <2>1 DEF vars, InputInv, ReadsWell, Reads, ReadsAll
  <2> QED BY <2>1, InputKept DEF RuntimeNext, rvars
<1> QED BY <1>1, <1>2, PTL DEF RuntimeSpec

\* For input of any length, cut into chunks anywhere: as long as the lexer does
\* not look ahead, every byte arrives once and in its place, then the end, and
\* z->n counts the unread bytes in the buffer.
THEOREM InputFaithful == RuntimeSpec => []FaithfulWithoutLook
<1>1. InputInv => FaithfulWithoutLook
  <2> SUFFICES ASSUME InputInv, ~looks
               PROVE  Faithful /\ (~Ended => z.n = Cardinality(z.p .. z.given))
    BY DEF FaithfulWithoutLook
  <2>1. Reads(z, got) /\ ReadsAll(z, got) /\ looked = Nothing
    BY DEF InputInv, ReadsWell
  <2>2. got \in Seq(Int) /\ DOMAIN got = 1 .. Len(got) /\ z \in Buffers /\ z.p \in Int /\ z.given \in Int /\ z.p <= z.given + 1
    BY <2>1, SizeAssumption DEF Reads, Buffers
  <2>3. Faithful
    BY <2>1, <2>2 DEF Faithful, ReadsAll
  <2>4. ASSUME ~Ended
        PROVE  z.n = Cardinality(z.p .. z.given)
    <3>1. z.n = z.given - z.p + 1
      BY <2>1, <2>4 DEF ReadsAll, Ended, Ends
    <3>2. Cardinality(z.p .. z.given) = IF z.p > z.given THEN 0 ELSE z.given - z.p + 1
      BY <2>2, FS_Interval
    <3> QED BY <2>2, <3>1, <3>2
  <2> QED BY <2>3, <2>4
<1> QED BY <1>1, InputAlways, PTL

\* For the same input, also when the lexer looks ahead: no byte is read twice or
\* out of order, and none after the end.
THEOREM InputOrdered == RuntimeSpec => []InOrder
<1>1. InputInv => InOrder
  <2> SUFFICES ASSUME InputInv
               PROVE  InOrder
    OBVIOUS
  <2>1. Reads(z, got)
    BY DEF InputInv, ReadsWell
  <2>2. got \in Seq(Int) /\ DOMAIN got = 1 .. Len(got) /\ Len(got) \in Nat
    BY <2>1 DEF Reads
  <2>3. ASSUME NEW k \in 1 .. Len(got), NEW l \in 1 .. Len(got), k < l
        PROVE  got[k] # EOZ /\ (got[l] = EOZ \/ got[k] < got[l])
    <3>1. k < Len(got)
      BY <2>2, <2>3
    <3>2. got[k] # EOZ
      BY <2>1, <2>3, <3>1 DEF Reads
    <3>3. got[l] = EOZ \/ got[k] < got[l]
      BY <2>1, <2>3, <3>2 DEF Reads
    <3> QED BY <3>2, <3>3
  <2> QED BY <2>2, <2>3 DEF InOrder
<1> QED BY <1>1, InputAlways, PTL

-----------------------------------------------------------------------------
(* The chains of the string table.                                         *)

\* What a chain holds, and that it holds it once.
Holds(s, x) == \E n \in DOMAIN s : s[n] = x
Once(s) == \A k, l \in DOMAIN s : s[k] = s[l] => k = l

\* Every chain of H holds, once, the strings whose place it is.
Housed(H, D, place) ==
  /\ H \in [D -> Seq(Addresses)]
  /\ \A b \in D : Once(H[b]) /\ \A x \in Addresses : Holds(H[b], x) <=> place[x] = b

\* A string comes to the front of a chain.
LEMMA Front ==
  ASSUME NEW s \in Seq(Addresses), Once(s), NEW x \in Addresses, ~Holds(s, x)
  PROVE  /\ <<x>> \o s \in Seq(Addresses) /\ Once(<<x>> \o s)
         /\ \A y \in Addresses : Holds(<<x>> \o s, y) <=> y = x \/ Holds(s, y)
<1> DEFINE t == <<x>> \o s
<1>1. /\ t \in Seq(Addresses) /\ Len(t) = Len(s) + 1 /\ Len(s) \in Nat
      /\ \A k \in 1 .. Len(s) + 1 : t[k] = IF k = 1 THEN x ELSE s[k - 1]
  OBVIOUS
<1> HIDE DEF t
<1>2. DOMAIN t = 1 .. Len(s) + 1 /\ DOMAIN s = 1 .. Len(s)
  BY <1>1
<1>3. Once(t)
  <2> SUFFICES ASSUME NEW k \in DOMAIN t, NEW l \in DOMAIN t, t[k] = t[l]
               PROVE  k = l
    BY DEF Once
  <2>1. \A m \in 1 .. Len(s) : s[m] # x
    BY <1>2 DEF Holds
  <2>2. \A m \in 1 .. Len(s) + 1 : m # 1 => m - 1 \in 1 .. Len(s) /\ t[m] = s[m - 1]
    BY <1>1
  <2>3. t[1] = x
    BY <1>1
  <2>4. CASE k = 1 \/ l = 1
    BY <1>2, <2>1, <2>2, <2>3, <2>4
  <2>5. CASE k # 1 /\ l # 1
    <3>1. k - 1 = l - 1
      BY <1>2, <2>2, <2>5 DEF Once
    <3> QED BY <1>1, <1>2, <3>1
  <2> QED BY <2>4, <2>5
<1>4. ASSUME NEW y \in Addresses
      PROVE  Holds(t, y) <=> y = x \/ Holds(s, y)
  <2>1. ASSUME Holds(t, y)
        PROVE  y = x \/ Holds(s, y)
    <3>1. PICK k \in 1 .. Len(s) + 1 : t[k] = y
      BY <1>2, <2>1 DEF Holds
    <3>2. k # 1 => k - 1 \in 1 .. Len(s)
      BY <1>1
    <3> QED BY <1>1, <1>2, <3>1, <3>2 DEF Holds
  <2>2. ASSUME y = x
        PROVE  Holds(t, y)
    <3>1. 1 \in DOMAIN t /\ t[1] = y
      BY <1>1, <1>2, <2>2
    <3> QED BY <3>1 DEF Holds
  <2>3. ASSUME Holds(s, y)
        PROVE  Holds(t, y)
    <3>1. PICK k \in 1 .. Len(s) : s[k] = y
      BY <1>2, <2>3 DEF Holds
    <3>2. k + 1 \in DOMAIN t /\ t[k + 1] = y
      BY <1>1, <1>2, <3>1
    <3> QED BY <3>2 DEF Holds
  <2> QED BY <2>1, <2>2, <2>3
<1> QED BY <1>1, <1>3, <1>4 DEF t

\* A string is taken out of a chain.
LEMMA Out ==
  ASSUME NEW s \in Seq(Addresses), Once(s), NEW x \in Addresses, Holds(s, x)
  PROVE  /\ S!Without(s, x) \in Seq(Addresses) /\ Once(S!Without(s, x))
         /\ \A y \in Addresses : Holds(S!Without(s, x), y) <=> y # x /\ Holds(s, y)
<1>1. Len(s) \in Nat /\ DOMAIN s = 1 .. Len(s) /\ \A k \in 1 .. Len(s) : s[k] \in Addresses
  OBVIOUS
<1>2. PICK m \in 1 .. Len(s) : s[m] = x
  BY <1>1 DEF Holds
<1>3. \A k \in 1 .. Len(s) : s[k] = x => k = m
  BY <1>1, <1>2 DEF Once
<1>4. S!Without(s, x) = SubSeq(s, 1, m - 1) \o SubSeq(s, m + 1, Len(s))
  <2>1. {n \in DOMAIN s : s[n] = x} = {m}
    BY <1>1, <1>2, <1>3
  <2>2. S!Min({m}) = m
    BY DEF S!Min
  <2> QED BY <2>1, <2>2 DEF S!Without, S!RemoveAt
<1> DEFINE l == SubSeq(s, 1, m - 1)
           r == SubSeq(s, m + 1, Len(s))
           t == l \o r
<1>5. l \in Seq(Addresses) /\ Len(l) = m - 1 /\ \A k \in 1 .. m - 1 : l[k] = s[k]
  BY <1>1
<1>6. r \in Seq(Addresses) /\ Len(r) = Len(s) - m /\ \A k \in 1 .. Len(s) - m : r[k] = s[k + m]
  <2>1. m + 1 \in Int /\ Len(s) \in Int /\ \A k \in m + 1 .. Len(s) : s[k] \in Addresses
    BY <1>1
  <2>2. /\ r \in Seq(Addresses) /\ Len(r) = IF m + 1 <= Len(s) THEN Len(s) - (m + 1) + 1 ELSE 0
        /\ \A k \in 1 .. Len(s) - (m + 1) + 1 : r[k] = s[m + 1 + k - 1]
    BY <2>1, SubSeqProperties
  <2> HIDE DEF r
  <2>3. Len(s) - (m + 1) + 1 = Len(s) - m /\ \A k \in 1 .. Len(s) - m : m + 1 + k - 1 = k + m
    BY <1>1
  <2>4. \A k \in 1 .. Len(s) - m : r[k] = s[k + m]
    BY <2>2, <2>3
  <2>5. Len(r) = Len(s) - m
    BY <1>1, <2>2
  <2> QED BY <2>2, <2>4, <2>5
<1> HIDE DEF l, r
<1>7. /\ t \in Seq(Addresses) /\ Len(t) = Len(s) - 1
      /\ \A k \in 1 .. Len(s) - 1 : t[k] = IF k < m THEN s[k] ELSE s[k + 1]
  <2>1. /\ t \in Seq(Addresses) /\ Len(t) = Len(s) - 1
        /\ \A k \in 1 .. Len(s) - 1 : t[k] = IF k < m THEN l[k] ELSE r[k - m + 1]
    <3>1. /\ t \in Seq(Addresses) /\ Len(t) = Len(l) + Len(r)
          /\ \A k \in 1 .. Len(l) + Len(r) : t[k] = IF k <= Len(l) THEN l[k] ELSE r[k - Len(l)]
      BY <1>5, <1>6, ConcatProperties
    <3> HIDE DEF t
    <3>2. Len(l) + Len(r) = Len(s) - 1
      BY <1>1, <1>5, <1>6
    <3>3. \A k \in 1 .. Len(s) - 1 : (k <= Len(l) <=> k < m) /\ k - Len(l) = k - m + 1
      BY <1>1, <1>5
    <3> QED BY <3>1, <3>2, <3>3
  <2> HIDE DEF t
  <2>2. ASSUME NEW k \in 1 .. Len(s) - 1
        PROVE  t[k] = IF k < m THEN s[k] ELSE s[k + 1]
    <3>1. CASE k < m
      BY <1>1, <1>5, <2>1, <3>1
    <3>2. CASE ~(k < m)
      <4>1. k - m + 1 \in 1 .. Len(s) - m /\ k - m + 1 + m = k + 1
        BY <1>1, <3>2
      <4>2. r[k - m + 1] = s[k + 1]
        BY <1>6, <4>1
      <4> QED BY <2>1, <3>2, <4>2
    <3> QED BY <3>1, <3>2
  <2> QED BY <2>1, <2>2
<1> HIDE DEF t
<1> DEFINE from == [k \in 1 .. Len(s) - 1 |-> IF k < m THEN k ELSE k + 1]
<1>8. DOMAIN t = 1 .. Len(s) - 1
  BY <1>1, <1>7
<1>9. \A k \in DOMAIN t : from[k] \in 1 .. Len(s) /\ from[k] # m /\ t[k] = s[from[k]]
  BY <1>1, <1>7, <1>8
<1>10. \A k, n \in DOMAIN t : from[k] = from[n] => k = n
  BY <1>1, <1>8
<1>11. \A k \in 1 .. Len(s) : k # m => \E n \in DOMAIN t : from[n] = k
  <2> SUFFICES ASSUME NEW k \in 1 .. Len(s), k # m
               PROVE  \E n \in DOMAIN t : from[n] = k
    OBVIOUS
  <2>1. CASE k < m
    <3>1. k \in DOMAIN t /\ from[k] = k
      BY <1>1, <1>8, <2>1
    <3> HIDE DEF from
    <3> QED BY <3>1
  <2>2. CASE ~(k < m)
    <3>1. k - 1 \in DOMAIN t /\ from[k - 1] = k
      BY <1>1, <1>8, <2>2
    <3> HIDE DEF from
    <3> QED BY <3>1
  <2> QED BY <2>1, <2>2
<1> HIDE DEF from
<1>12. Once(t)
  BY <1>1, <1>9, <1>10 DEF Once
<1>13. ASSUME NEW y \in Addresses
       PROVE  Holds(t, y) <=> y # x /\ Holds(s, y)
  <2>1. ASSUME Holds(t, y)
        PROVE  y # x /\ Holds(s, y)
    BY <1>1, <1>3, <1>9, <2>1 DEF Holds
  <2>2. ASSUME y # x, Holds(s, y)
        PROVE  Holds(t, y)
    <3>1. PICK k \in 1 .. Len(s) : s[k] = y
      BY <1>1, <2>2 DEF Holds
    <3>2. PICK n \in DOMAIN t : from[n] = k
      BY <1>2, <1>11, <2>2, <3>1
    <3> QED BY <1>9, <3>1, <3>2 DEF Holds
  <2> QED BY <2>1, <2>2
<1>14. S!Without(s, x) = t
  BY <1>4 DEF t, l, r
<1> QED BY <1>7, <1>12, <1>13, <1>14

\* A string that is nowhere gets into a chain.
Push(H, x, m) == [H EXCEPT ![m] = <<x>> \o @]
GetsTo(place, x, m, place2) == \A y \in Addresses : place2[y] = IF y = x THEN m ELSE place[y]
LEMMA Pushed ==
  ASSUME NEW H, NEW D, NEW place, Housed(H, D, place),
         NEW x \in Addresses, place[x] \notin D, NEW m \in D, NEW place2, GetsTo(place, x, m, place2)
  PROVE  Housed(Push(H, x, m), D, place2)
<1> DEFINE G == [H EXCEPT ![m] = <<x>> \o @]
<1>1. H \in [D -> Seq(Addresses)]
  BY DEF Housed
<1>2. /\ <<x>> \o H[m] \in Seq(Addresses) /\ Once(<<x>> \o H[m])
      /\ \A y \in Addresses : Holds(<<x>> \o H[m], y) <=> y = x \/ Holds(H[m], y)
  <2>1. H[m] \in Seq(Addresses) /\ Once(H[m]) /\ ~Holds(H[m], x)
    BY <1>1 DEF Housed
  <2> QED BY <2>1, Front
<1>3. G[m] = <<x>> \o H[m] /\ \A b \in D : b # m => G[b] = H[b]
  BY <1>1
<1>4. G \in [D -> Seq(Addresses)]
  BY <1>1, <1>2
<1> HIDE DEF G
<1>5. ASSUME NEW b \in D
      PROVE  Once(G[b]) /\ \A y \in Addresses : Holds(G[b], y) <=> place2[y] = b
  <2>1. CASE b = m
    <3>1. Once(G[b])
      BY <1>2, <1>3, <2>1
    <3>2. ASSUME NEW y \in Addresses
          PROVE  Holds(G[b], y) <=> place2[y] = b
      <4>1. Holds(G[b], y) <=> y = x \/ Holds(H[m], y)
        BY <1>2, <1>3, <2>1
      <4>2. Holds(H[m], y) <=> place[y] = m
        BY DEF Housed
      <4> QED BY <2>1, <4>1, <4>2 DEF GetsTo
    <3> QED BY <3>1, <3>2
  <2>2. CASE b # m
    <3>1. Once(G[b])
      BY <1>3, <2>2 DEF Housed
    <3>2. ASSUME NEW y \in Addresses
          PROVE  Holds(G[b], y) <=> place2[y] = b
      <4>1. Holds(G[b], y) <=> place[y] = b
        BY <1>3, <2>2 DEF Housed
      <4> QED BY <2>2, <4>1 DEF GetsTo
    <3> QED BY <3>1, <3>2
  <2> QED BY <2>1, <2>2
<1> QED BY <1>4, <1>5 DEF Housed, Push, G

\* A string gets out of its chain.
LEMMA Pulled ==
  ASSUME NEW H, NEW D, NEW place, Housed(H, D, place),
         NEW x \in Addresses, NEW m \in D, place[x] = m, NEW place2,
         \A y \in Addresses : y # x => place2[y] = place[y], place2[x] \notin D
  PROVE  Housed([H EXCEPT ![m] = S!Without(@, x)], D, place2)
<1> DEFINE G == [H EXCEPT ![m] = S!Without(@, x)]
<1>1. H \in [D -> Seq(Addresses)]
  BY DEF Housed
<1>2. /\ S!Without(H[m], x) \in Seq(Addresses) /\ Once(S!Without(H[m], x))
      /\ \A y \in Addresses : Holds(S!Without(H[m], x), y) <=> y # x /\ Holds(H[m], y)
  <2>1. H[m] \in Seq(Addresses) /\ Once(H[m]) /\ Holds(H[m], x)
    BY <1>1 DEF Housed
  <2> QED BY <2>1, Out
<1>3. G[m] = S!Without(H[m], x) /\ \A b \in D : b # m => G[b] = H[b]
  BY <1>1
<1>4. G \in [D -> Seq(Addresses)]
  BY <1>1, <1>2
<1> HIDE DEF G
<1>5. ASSUME NEW b \in D
      PROVE  Once(G[b]) /\ \A y \in Addresses : Holds(G[b], y) <=> place2[y] = b
  <2>1. CASE b = m
    <3>1. Once(G[b])
      BY <1>2, <1>3, <2>1
    <3>2. ASSUME NEW y \in Addresses
          PROVE  Holds(G[b], y) <=> place2[y] = b
      <4>1. Holds(G[b], y) <=> y # x /\ Holds(H[m], y)
        BY <1>2, <1>3, <2>1
      <4>2. Holds(H[m], y) <=> place[y] = m
        BY DEF Housed
      <4> QED BY <2>1, <4>1, <4>2
    <3> QED BY <3>1, <3>2
  <2>2. CASE b # m
    <3>1. Once(G[b])
      BY <1>3, <2>2 DEF Housed
    <3>2. ASSUME NEW y \in Addresses
          PROVE  Holds(G[b], y) <=> place2[y] = b
      <4>1. Holds(G[b], y) <=> place[y] = b
        BY <1>3, <2>2 DEF Housed
      <4> QED BY <2>2, <4>1
    <3> QED BY <3>1, <3>2
  <2> QED BY <2>1, <2>2
<1> QED BY <1>4, <1>5 DEF Housed, G

\* The strings of a chain get off it.
LEMMA Emptied ==
  ASSUME NEW H, NEW D, NEW place, Housed(H, D, place), NEW m \in D, NEW place2,
         \A y \in Addresses : IF place[y] = m THEN place2[y] \notin D ELSE place2[y] = place[y]
  PROVE  Housed([H EXCEPT ![m] = <<>>], D, place2)
<1> DEFINE G == [H EXCEPT ![m] = <<>>]
<1>1. H \in [D -> Seq(Addresses)]
  BY DEF Housed
<1>2. G[m] = <<>> /\ \A b \in D : b # m => G[b] = H[b]
  BY <1>1
<1>3. G \in [D -> Seq(Addresses)]
  BY <1>1
<1> HIDE DEF G
<1>4. ASSUME NEW b \in D
      PROVE  Once(G[b]) /\ \A y \in Addresses : Holds(G[b], y) <=> place2[y] = b
  <2>1. CASE b = m
    <3>1. DOMAIN G[b] = {}
      BY <1>2, <2>1
    <3>2. \A y \in Addresses : place2[y] # b
      BY <2>1
    <3> QED BY <3>1, <3>2 DEF Once, Holds
  <2>2. CASE b # m
    <3>1. G[b] = H[b]
      BY <1>2, <2>2
    <3>2. \A y \in Addresses : place2[y] = b <=> place[y] = b
      BY <2>2
    <3> QED BY <3>1, <3>2 DEF Housed
  <2> QED BY <2>1, <2>2
<1> QED BY <1>3, <1>4 DEF Housed, G

\* A chain is moved: what was on it is where the new size wants it.
LEMMA ChainMoved ==
  ASSUME NEW H, NEW D, NEW place, Housed(H, D, place), -1 \notin D, NEW b \in D, NEW new,
         \A x \in Addresses : place[x] = b => S!Bucket(text[x], new) \in D,
         NEW place2,
         \A x \in Addresses : place2[x] = IF place[x] = b THEN S!Bucket(text[x], new) ELSE place[x]
  PROVE  Housed(S!MoveChain(H, b, new), D, place2)
<1> DEFINE chain == H[b]
           N == Len(chain)
           Put(G, x) == [G EXCEPT ![S!Bucket(text[x], new)] = <<x>> \o @]
           base == [H EXCEPT ![b] = <<>>]
           moved == CHOOSE moved : moved = [n \in 0 .. N |->
                      IF n = 0 THEN base ELSE Put(moved[n - 1], chain[n])]
           All == [D -> Seq(Addresses)]
           then == [n \in 0 .. N |-> [x \in Addresses |->
                     IF place[x] # b THEN place[x]
                     ELSE IF \E k \in 1 .. n : chain[k] = x THEN S!Bucket(text[x], new) ELSE -1]]
           T == [n \in 0 .. N |-> {G \in All : Housed(G, D, then[n])}]
           step == [n \in 1 .. N |-> [G \in All |-> Put(G, chain[n])]]
<1>1. S!MoveChain(H, b, new) = moved[N]
  BY DEF S!MoveChain
<1>2. /\ chain \in Seq(Addresses) /\ N \in Nat /\ DOMAIN chain = 1 .. N /\ Once(chain)
      /\ \A x \in Addresses : Holds(chain, x) <=> place[x] = b
      /\ \A n \in 1 .. N : chain[n] \in Addresses
  <2>1. /\ chain \in Seq(Addresses) /\ Once(chain)
        /\ \A x \in Addresses : Holds(chain, x) <=> place[x] = b
    BY DEF Housed
  <2> HIDE DEF chain
  <2> QED BY <2>1
<1>3. \A n \in 1 .. N : place[chain[n]] = b
  BY <1>2 DEF Holds
<1> HIDE DEF chain
<1>4. base \in T[0]
  <2>1. \A y \in Addresses : IF place[y] = b THEN then[0][y] \notin D ELSE then[0][y] = place[y]
    BY <1>2
  <2> HIDE DEF then
  <2>2. Housed(base, D, then[0])
    BY <2>1, Emptied
  <2> HIDE DEF base
  <2>3. base \in All
    BY <2>2 DEF Housed
  <2> QED BY <1>2, <2>2, <2>3
<1> HIDE DEF base
<1>5. ASSUME NEW n \in 1 .. N, NEW G \in T[n - 1]
      PROVE  Put(G, chain[n]) \in T[n] /\ G \in All
  <2> DEFINE x == chain[n]
             m == S!Bucket(text[x], new)
  <2>1. n - 1 \in 0 .. N /\ n \in 0 .. N
    BY <1>2
  <2>2. G \in All /\ Housed(G, D, then[n - 1])
    <3> HIDE DEF then, All
    <3> QED BY <2>1
  <2>3. x \in Addresses /\ place[x] = b /\ m \in D
    BY <1>2, <1>3
  <2>4. \A k \in 1 .. n - 1 : chain[k] # x
    BY <1>2 DEF Once
  <2>5. then[n - 1][x] = -1
    BY <2>1, <2>3, <2>4
  <2>6. ASSUME NEW y \in Addresses
        PROVE  then[n][y] = IF y = x THEN m ELSE then[n - 1][y]
    <3>1. (\E k \in 1 .. n : chain[k] = y) <=> y = x \/ \E k \in 1 .. n - 1 : chain[k] = y
      <4>1. n \in 1 .. n /\ \A k \in 1 .. n : k = n \/ k \in 1 .. n - 1
        BY <1>2
      <4>2. \A k \in 1 .. n - 1 : k \in 1 .. n
        BY <1>2
      <4> QED BY <4>1, <4>2
    <3>2. CASE place[y] = b
      <4>1. /\ then[n][y] = IF \E k \in 1 .. n : chain[k] = y THEN S!Bucket(text[y], new) ELSE -1
            /\ then[n - 1][y] = IF \E k \in 1 .. n - 1 : chain[k] = y THEN S!Bucket(text[y], new) ELSE -1
        BY <2>1, <3>2
      <4> HIDE DEF then, x
      <4> QED BY <3>1, <4>1
    <3>3. CASE place[y] # b
      <4>1. y # x
        BY <2>3, <3>3
      <4> QED BY <2>1, <3>3, <4>1
    <3> QED BY <3>2, <3>3
  <2> HIDE DEF then, m, x
  <2>7. Housed(Push(G, x, m), D, then[n])
    <3>1. then[n - 1][x] \notin D
      BY <2>5
    <3>2. GetsTo(then[n - 1], x, m, then[n])
      BY <2>6 DEF GetsTo
    <3> QED BY <2>2, <2>3, <3>1, <3>2, Pushed
  <2>8. Put(G, x) = Push(G, x, m)
    BY DEF m, Push
  <2>9. Put(G, x) \in All
    BY <2>7, <2>8 DEF Housed
  <2> HIDE DEF Put, All
  <2>10. Put(G, x) \in T[n]
    BY <2>1, <2>7, <2>8, <2>9
  <2> QED BY <2>2, <2>10 DEF x
<1> HIDE DEF Put, All, then
<1>6. PICK f : /\ f = [n \in 0 .. N |-> IF n = 0 THEN base ELSE step[n][f[n - 1]]]
               /\ \A n \in 0 .. N : f[n] \in T[n]
  <2>1. \A n \in 1 .. N : \A G \in T[n - 1] : step[n][G] \in T[n]
    <3> SUFFICES ASSUME NEW n \in 1 .. N, NEW G \in T[n - 1]
                 PROVE  step[n][G] \in T[n]
      OBVIOUS
    <3>1. Put(G, chain[n]) \in T[n] /\ G \in All
      BY <1>5
    <3> HIDE DEF T
    <3> QED BY <3>1
  <2> HIDE DEF step, T
  <2>2. Stepwise(N, base, step, T)
    BY <1>2, <1>4, <2>1, Stepped
  <2> QED BY <2>2 DEF Stepwise
<1>7. moved = [n \in 0 .. N |-> IF n = 0 THEN base ELSE Put(moved[n - 1], chain[n])]
  <2>1. ASSUME NEW n \in 1 .. N
        PROVE  step[n][f[n - 1]] = Put(f[n - 1], chain[n])
    <3>1. n - 1 \in 0 .. N
      BY <1>2
    <3>2. f[n - 1] \in All
      <4>1. f[n - 1] \in T[n - 1]
        BY <1>6, <3>1
      <4> QED BY <1>5, <4>1
    <3> QED BY <3>2
  <2> DEFINE f1 == [n \in 0 .. N |-> IF n = 0 THEN base ELSE Put(f[n - 1], chain[n])]
  <2>2. ASSUME NEW n \in 0 .. N
        PROVE  f[n] = f1[n]
    <3>1. CASE n = 0
      BY <1>6, <3>1
    <3>2. CASE n # 0
      <4>1. n \in 1 .. N
        BY <1>2, <3>2
      <4> HIDE DEF step
      <4>2. f[n] = step[n][f[n - 1]]
        BY <1>6, <3>2
      <4> QED BY <2>1, <3>2, <4>1, <4>2
    <3> QED BY <3>1, <3>2
  <2>3. f = [n \in 0 .. N |-> f[n]]
    BY <1>6
  <2>4. f = f1
    BY <2>2, <2>3
  <2> QED BY <2>4
<1> HIDE DEF moved
<1>8. \A n \in 0 .. N : moved[n] \in T[n]
  <2>1. moved[0] \in T[0]
    BY <1>2, <1>4, <1>7
  <2>2. ASSUME NEW n \in 1 .. N, moved[n - 1] \in T[n - 1]
        PROVE  moved[n] \in T[n]
    <3>1. moved[n] = Put(moved[n - 1], chain[n])
      <4>1. n \in 0 .. N /\ n # 0
        BY <1>2
      <4> QED BY <1>7, <4>1
    <3> QED BY <1>5, <2>2, <3>1
  <2> HIDE DEF T
  <2> QED BY <1>2, <2>1, <2>2, Inductively
<1>9. Housed(moved[N], D, then[N])
  BY <1>2, <1>8
<1>10. ASSUME NEW x \in Addresses
       PROVE  then[N][x] = place2[x]
  <2>1. then[N][x] = IF place[x] # b THEN place[x]
                     ELSE IF \E k \in 1 .. N : chain[k] = x THEN S!Bucket(text[x], new) ELSE -1
    BY <1>2 DEF then
  <2>2. place[x] = b => \E k \in 1 .. N : chain[k] = x
    BY <1>2 DEF Holds
  <2> QED BY <2>1, <2>2
<1> QED BY <1>1, <1>9, <1>10 DEF Housed

\* The strings of the old chains are at home in new ones.
Moves(place, old, new, place2) ==
  \A x \in Addresses : \/ /\ place[x] \in 0 .. old - 1
                          /\ place2[x] = S!Bucket(text[x], new) /\ place2[x] \in 0 .. new - 1
                       \/ place[x] = -1 /\ place2[x] = -1
LEMMA Rehashed ==
  ASSUME NEW old \in Nat \ {0}, NEW new \in Nat \ {0}, NEW H, NEW place,
         Housed(H, 0 .. old - 1, place), NEW place2, Moves(place, old, new, place2)
  PROVE  Housed(S!Rehash(H, old, new), 0 .. new - 1, place2)
<1> DEFINE top == IF old > new THEN old ELSE new
           D == 0 .. top - 1
           wide == [b \in D |-> IF b < old THEN H[b] ELSE <<>>]
           each == CHOOSE each : each = [b \in 0 .. old |->
                     IF b = 0 THEN wide ELSE S!MoveChain(each[b - 1], b - 1, new)]
           All == [D -> Seq(Addresses)]
           then == [b \in 0 .. old |-> [x \in Addresses |->
                     IF place[x] \in 0 .. b - 1 THEN place2[x] ELSE place[x]]]
           T == [b \in 0 .. old |-> {G \in All : Housed(G, D, then[b])}]
           step == [b \in 1 .. old |-> [G \in All |-> S!MoveChain(G, b - 1, new)]]
<1>1. S!Rehash(H, old, new) = [b \in 0 .. new - 1 |-> each[old][b]]
  BY DEF S!Rehash
<1>2. /\ top \in Nat /\ 0 .. old - 1 \subseteq D /\ 0 .. new - 1 \subseteq D /\ -1 \notin D
      /\ D \subseteq Nat /\ old \in Nat /\ new \in Nat
  OBVIOUS
<1> HIDE DEF top
<1>3. \A x \in Addresses : place[x] \in Int /\ (place[x] >= 0 => place[x] \in 0 .. old - 1)
  BY DEF Moves
<1>4. wide \in T[0]
  <2>1. H \in [0 .. old - 1 -> Seq(Addresses)]
    BY DEF Housed
  <2>2. \A b \in D : wide[b] = IF b < old THEN H[b] ELSE <<>>
    OBVIOUS
  <2>3. wide \in All
    BY <1>2, <2>1
  <2> HIDE DEF wide
  <2>4. \A x \in Addresses : then[0][x] = place[x]
    BY <1>2, <1>3
  <2> HIDE DEF then
  <2>5. ASSUME NEW b \in D
        PROVE  Once(wide[b]) /\ \A x \in Addresses : Holds(wide[b], x) <=> then[0][x] = b
    <3>1. CASE b < old
      <4>1. b \in 0 .. old - 1
        BY <1>2, <3>1
      <4> QED BY <2>2, <2>4, <3>1, <4>1 DEF Housed
    <3>2. CASE ~(b < old)
      <4>1. wide[b] = <<>>
        BY <2>2, <3>2
      <4>2. ASSUME NEW x \in Addresses
            PROVE  then[0][x] # b
        <5>1. place[x] # b
          BY <1>2, <1>3, <3>2
        <5> QED BY <2>4, <5>1
      <4> QED BY <4>1, <4>2 DEF Once, Holds
    <3> QED BY <3>1, <3>2
  <2>6. Housed(wide, D, then[0])
    BY <2>3, <2>5 DEF Housed
  <2> HIDE DEF All
  <2> QED BY <1>2, <2>3, <2>6
<1> HIDE DEF wide
<1>5. ASSUME NEW b \in 1 .. old, NEW G \in T[b - 1]
      PROVE  S!MoveChain(G, b - 1, new) \in T[b] /\ G \in All
  <2>1. b - 1 \in 0 .. old /\ b \in 0 .. old /\ b - 1 \in D
    <3>1. b - 1 \in 0 .. old - 1 /\ b - 1 \in 0 .. old /\ b \in 0 .. old
      BY <1>2
    <3> HIDE DEF D
    <3> QED BY <1>2, <3>1
  <2>2. G \in All /\ Housed(G, D, then[b - 1])
    <3> HIDE DEF then, All
    <3> QED BY <2>1
  <2>3. ASSUME NEW x \in Addresses
        PROVE  /\ then[b - 1][x] = b - 1 => S!Bucket(text[x], new) \in D
               /\ then[b][x] = IF then[b - 1][x] = b - 1 THEN S!Bucket(text[x], new)
                               ELSE then[b - 1][x]
    <3>1. /\ then[b][x] = IF place[x] \in 0 .. b - 1 THEN place2[x] ELSE place[x]
          /\ then[b - 1][x] = IF place[x] \in 0 .. b - 1 - 1 THEN place2[x] ELSE place[x]
      BY <2>1
    <3> HIDE DEF then, D
    <3>2. CASE place[x] = -1
      <4>1. then[b][x] = -1 /\ then[b - 1][x] = -1 /\ b - 1 # -1
        BY <1>2, <3>1, <3>2
      <4> QED BY <4>1
    <3>3. CASE place[x] # -1
      <4>1. /\ place[x] \in 0 .. old - 1 /\ place2[x] = S!Bucket(text[x], new) /\ place2[x] \in 0 .. new - 1
        BY <3>3 DEF Moves
      <4>2. CASE place[x] = b - 1
        <5>1. then[b][x] = place2[x] /\ then[b - 1][x] = b - 1
          BY <1>2, <3>1, <4>1, <4>2
        <5> QED BY <1>2, <4>1, <5>1
      <4>3. CASE place[x] # b - 1
        <5>1. then[b][x] = then[b - 1][x]
          BY <1>2, <3>1, <4>1, <4>3
        <5>2. then[b - 1][x] = b - 1 => then[b - 1][x] = place2[x]
          BY <3>1, <4>3
        <5> QED BY <1>2, <4>1, <5>1, <5>2
      <4> QED BY <4>2, <4>3
    <3> QED BY <3>2, <3>3
  <2> HIDE DEF then, All, D
  <2>4. Housed(S!MoveChain(G, b - 1, new), D, then[b])
    BY <1>2, <2>1, <2>2, <2>3, ChainMoved
  <2>5. S!MoveChain(G, b - 1, new) \in All
    BY <2>4 DEF Housed, All
  <2> QED BY <2>1, <2>2, <2>4, <2>5
<1> HIDE DEF All, then
<1>6. PICK f : /\ f = [b \in 0 .. old |-> IF b = 0 THEN wide ELSE step[b][f[b - 1]]]
               /\ \A b \in 0 .. old : f[b] \in T[b]
  <2>1. \A b \in 1 .. old : \A G \in T[b - 1] : step[b][G] \in T[b]
    <3> SUFFICES ASSUME NEW b \in 1 .. old, NEW G \in T[b - 1]
                 PROVE  step[b][G] \in T[b]
      OBVIOUS
    <3>1. S!MoveChain(G, b - 1, new) \in T[b] /\ G \in All
      BY <1>5
    <3> HIDE DEF T
    <3> QED BY <3>1
  <2> HIDE DEF step, T
  <2>2. Stepwise(old, wide, step, T)
    BY <1>2, <1>4, <2>1, Stepped
  <2> QED BY <2>2 DEF Stepwise
<1>7. each = [b \in 0 .. old |-> IF b = 0 THEN wide ELSE S!MoveChain(each[b - 1], b - 1, new)]
  <2>1. ASSUME NEW b \in 1 .. old
        PROVE  step[b][f[b - 1]] = S!MoveChain(f[b - 1], b - 1, new)
    <3>1. b - 1 \in 0 .. old
      BY <1>2
    <3>2. f[b - 1] \in All
      <4>1. f[b - 1] \in T[b - 1]
        BY <1>6, <3>1
      <4> QED BY <1>5, <4>1
    <3> QED BY <3>2
  <2> DEFINE f1 == [b \in 0 .. old |-> IF b = 0 THEN wide ELSE S!MoveChain(f[b - 1], b - 1, new)]
  <2>2. ASSUME NEW b \in 0 .. old
        PROVE  f[b] = f1[b]
    <3>1. CASE b = 0
      BY <1>6, <3>1
    <3>2. CASE b # 0
      <4>1. b \in 1 .. old
        BY <1>2, <3>2
      <4> HIDE DEF step
      <4>2. f[b] = step[b][f[b - 1]]
        BY <1>6, <3>2
      <4> QED BY <2>1, <3>2, <4>1, <4>2
    <3> QED BY <3>1, <3>2
  <2>3. f = [b \in 0 .. old |-> f[b]]
    BY <1>6
  <2>4. f = f1
    BY <2>2, <2>3
  <2> QED BY <2>4
<1> HIDE DEF each
<1>8. \A b \in 0 .. old : each[b] \in T[b]
  <2>1. each[0] \in T[0]
    BY <1>2, <1>4, <1>7
  <2>2. ASSUME NEW b \in 1 .. old, each[b - 1] \in T[b - 1]
        PROVE  each[b] \in T[b]
    <3>1. each[b] = S!MoveChain(each[b - 1], b - 1, new)
      <4>1. b \in 0 .. old /\ b # 0
        BY <1>2
      <4> QED BY <1>7, <4>1
    <3> QED BY <1>5, <2>2, <3>1
  <2> HIDE DEF T
  <2> QED BY <1>2, <2>1, <2>2, Inductively
<1>9. Housed(each[old], D, then[old])
  BY <1>2, <1>8
<1>10. ASSUME NEW x \in Addresses
       PROVE  then[old][x] = place2[x]
  <2>1. then[old][x] = IF place[x] \in 0 .. old - 1 THEN place2[x] ELSE place[x]
    BY <1>2 DEF then
  <2> QED BY <2>1 DEF Moves
<1> DEFINE G == [b \in 0 .. new - 1 |-> each[old][b]]
<1>11. each[old] \in [D -> Seq(Addresses)] /\ \A b \in 0 .. new - 1 : G[b] = each[old][b]
  BY <1>9 DEF Housed
<1>12. G \in [0 .. new - 1 -> Seq(Addresses)]
  <2> HIDE DEF D
  <2> QED BY <1>2, <1>11
<1> HIDE DEF D, G
<1>13. Housed(G, 0 .. new - 1, place2)
  BY <1>2, <1>9, <1>10, <1>11, <1>12 DEF Housed
<1> QED BY <1>1, <1>13 DEF G

-----------------------------------------------------------------------------
(* The string table and its cache.                                         *)

\* The types of what says which strings there are.
StringTypes ==
  /\ text \in [Addresses -> Texts \cup {"free"}]
  /\ colour \in [Addresses -> {"now", "old", "black"}]
  /\ strcache \in [1 .. 2 -> Addresses \cup {S!memerrmsg}]
  /\ refs \subseteq Addresses /\ unswept \subseteq Addresses

\* A string that stays.
Kept(x) == text[x] # "free" /\ ~S!IsDead(x)

\* The inductive invariant.
StringsInv == StringTypes /\ S!StringsStay

\* StringsStay, element by element.
LEMMA StaysElementwise ==
  ASSUME StringTypes
  PROVE  S!StringsStay <=> /\ \A x \in refs : Kept(x)
                           /\ \A k \in 1 .. 2 : strcache[k] # S!memerrmsg => Kept(strcache[k])
<1>1. DOMAIN strcache = 1 .. 2 /\ \A x \in refs : x # S!memerrmsg
  BY TextAssumption DEF StringTypes
<1> QED BY <1>1 DEF S!StringsStay, Kept

\* A string that internshrstr returns is there and will stay; those that were
\* kept still are, and no other text changes.
LEMMA Interned ==
  ASSUME StringsInv, NEW t \in Texts, NEW G \in S!InternShrStr(t), S!Becomes(G)
  PROVE  /\ text' \in [Addresses -> Texts \cup {"free"}]
         /\ colour' \in [Addresses -> {"now", "old", "black"}]
         /\ G.a \in Addresses /\ refs' = refs \cup {G.a}
         /\ Kept(G.a)'
         /\ \A x \in Addresses : Kept(x) => Kept(x)'
<1>1. StringTypes
  BY DEF StringsInv
<1>2. ASSUME NEW x \in Addresses, text[x] = t, G = S!Resurrect(x)
      PROVE  /\ text' = text /\ G.a = x /\ refs' = refs \cup {x}
             /\ colour' = [colour EXCEPT ![x] = IF S!IsDead(x) THEN "now" ELSE @]
  BY <1>2 DEF S!Resurrect, S!Reuse, S!Becomes
<1>3. ASSUME NEW x \in Addresses, text[x] = "free", NEW grown, G = S!Create(t, x, grown)
      PROVE  /\ text' = [text EXCEPT ![x] = t] /\ G.a = x /\ refs' = refs \cup {x}
             /\ colour' = [colour EXCEPT ![x] = "now"]
  BY <1>3 DEF S!Create, S!Becomes
<1>4. \/ \E x \in Addresses : text[x] = t /\ G = S!Resurrect(x)
      \/ \E x \in Addresses : text[x] = "free" /\ G = S!Create(t, x, S!MustGrow)
  BY DEF S!InternShrStr, S!Found
<1>5. CASE \E x \in Addresses : text[x] = t /\ G = S!Resurrect(x)
  BY <1>1, <1>2, <1>5, TextAssumption DEF StringTypes, Kept, S!IsDead
<1>6. CASE \E x \in Addresses : text[x] = "free" /\ G = S!Create(t, x, S!MustGrow)
  BY <1>1, <1>3, <1>6, TextAssumption DEF StringTypes, Kept, S!IsDead
<1> QED BY <1>4, <1>5, <1>6

\* The invariant holds in the initial state.
LEMMA StringsInit == S!Init => StringsInv
<1> SUFFICES ASSUME S!Init
             PROVE  StringsInv
  OBVIOUS
<1>1. StringTypes
  BY DEF S!Init, StringTypes
<1>2. S!StringsStay
  BY <1>1, StaysElementwise DEF S!Init
<1> QED BY <1>1, <1>2 DEF StringsInv

\* Every step of the table, its cache and the sweep keeps the invariant.
LEMMA StringsKept == StringsInv /\ S!Next => StringsInv'
<1> SUFFICES ASSUME StringsInv, S!Next
             PROVE  StringsInv'
  OBVIOUS
<1>1. /\ StringTypes /\ \A x \in refs : Kept(x)
      /\ \A k \in 1 .. 2 : strcache[k] # S!memerrmsg => Kept(strcache[k])
  BY StaysElementwise DEF StringsInv
<1>2. SUFFICES /\ StringTypes' /\ \A x \in refs' : Kept(x)'
               /\ \A k \in 1 .. 2 : strcache'[k] # S!memerrmsg => Kept(strcache[k])'
  <2>1. ASSUME StringTypes', \A x \in refs' : Kept(x)',
               \A k \in 1 .. 2 : strcache'[k] # S!memerrmsg => Kept(strcache[k])'
        PROVE  S!StringsStay'
    <3>1. DOMAIN strcache' = 1 .. 2
      BY <2>1 DEF StringTypes
    <3> QED BY <2>1, <3>1 DEF S!StringsStay, Kept, S!IsDead
  <2> QED BY <2>1 DEF StringsInv
\* Nothing is freed and nothing dies.
<1>3. CASE S!NewLStr
  <2>1. PICK t \in Texts : \E G \in S!InternShrStr(t) : S!Becomes(G)
    BY <1>3 DEF S!NewLStr
  <2>2. PICK G \in S!InternShrStr(t) : S!Becomes(G)
    BY <2>1
  <2> QED BY <1>1, <1>3, <2>2, Interned DEF S!NewLStr, StringTypes
<1>4. CASE S!NewMiss
  <2>1. PICK t \in Texts : \E G \in S!InternShrStr(t) :
          S!Becomes(G) /\ strcache' = <<G.a, strcache[1]>>
    BY <1>4 DEF S!NewMiss
  <2>2. PICK G \in S!InternShrStr(t) : S!Becomes(G) /\ strcache' = <<G.a, strcache[1]>>
    BY <2>1
  <2> QED BY <1>1, <1>4, <2>2, Interned DEF S!NewMiss, StringTypes
<1>5. CASE S!NewHit
  <2>1. PICK t \in Texts : /\ S!Hits(t) # {}
                           /\ refs' = refs \cup {strcache[CHOOSE k \in S!Hits(t) :
                                                           \A m \in S!Hits(t) : k <= m]}
    BY <1>5 DEF S!NewHit
  <2>2. S!Hits(t) = {k \in 1 .. 2 : strcache[k] # S!memerrmsg /\ text[strcache[k]] = t}
    BY <1>1 DEF S!Hits, StringTypes
  <2>3. \E k \in S!Hits(t) : \A m \in S!Hits(t) : k <= m
    <3>1. S!Hits(t) \subseteq 1 .. 2
      BY <2>2
    <3>2. CASE 1 \in S!Hits(t)
      BY <3>1, <3>2
    <3>3. CASE 1 \notin S!Hits(t)
      BY <2>1, <3>1, <3>3
    <3> QED BY <3>2, <3>3
  <2>4. PICK k \in S!Hits(t) : refs' = refs \cup {strcache[k]}
    BY <2>1, <2>3
  <2> QED BY <1>1, <1>5, <2>2, <2>4 DEF S!NewHit, StringTypes, Kept, S!IsDead
<1>6. CASE S!NewFails \/ S!Forget \/ S!CheckSizes
  BY <1>1, <1>6 DEF S!NewFails, S!Forget, S!CheckSizes, StringTypes, Kept, S!IsDead
\* The cache keeps what is marked, and all that the program refers to is.
<1>7. CASE S!Atomic
  <2>1. PICK marked \in SUBSET {x \in Addresses : text[x] # "free"} :
          /\ refs \subseteq marked
          /\ colour' = [x \in Addresses |-> IF x \in marked THEN "black" ELSE "old"]
          /\ strcache' = S!ClearCache(marked)
    BY <1>7 DEF S!Atomic
  <2>2. /\ UNCHANGED <<text, refs>> /\ unswept' \subseteq Addresses
    BY <1>7 DEF S!Atomic
  <2>3. strcache' = [k \in 1 .. 2 |-> IF strcache[k] \in marked THEN strcache[k]
                                     ELSE S!memerrmsg]
    BY <1>1, <2>1 DEF S!ClearCache, StringTypes
  <2> QED BY <1>1, <2>1, <2>2, <2>3, TextAssumption DEF StringTypes, Kept, S!IsDead
\* Only what is dead is freed.
<1>8. CASE S!SweepStep
  <2>1. PICK x \in unswept :
          /\ IF S!IsDead(x) THEN text' = [text EXCEPT ![x] = "free"] /\ UNCHANGED colour
             ELSE colour' = [colour EXCEPT ![x] = "now"] /\ UNCHANGED text
          /\ unswept' = unswept \ {x}
    BY <1>8 DEF S!SweepStep
  <2>2. UNCHANGED <<strcache, refs>>
    BY <1>8 DEF S!SweepStep
  <2> QED BY <1>1, <2>1, <2>2 DEF StringTypes, Kept, S!IsDead
<1> QED BY <1>3, <1>4, <1>5, <1>6, <1>7, <1>8 DEF S!Next

\* Whatever the sizes of the table and of the cache's contents, no string that
\* the program refers to or luaS_new would return from its cache is one the
\* sweep is going to free.
THEOREM StringsSafe == RuntimeSpec => []StringsStay
<1>1. RuntimeInit => StringsInv
  BY StringsInit DEF RuntimeInit
<1>2. StringsInv /\ [RuntimeNext]_rvars => StringsInv'
  <2>1. ASSUME StringsInv, UNCHANGED svars
        PROVE  StringsInv'
    BY <2>1 DEF svars, StringsInv, StringTypes, S!StringsStay, S!IsDead
  <2> QED BY <2>1, StringsKept DEF RuntimeNext, rvars
<1>3. StringsInv => StringsStay
  BY DEF StringsInv, StringsStay
<1> QED BY <1>1, <1>2, <1>3, PTL DEF RuntimeSpec

-----------------------------------------------------------------------------
(* Equal strings are one object.                                           *)

\* The strings there are, and the chain where a table of n chains has them.
Used == {x \in Addresses : text[x] # "free"}
Home(n) == [x \in Addresses |-> IF text[x] = "free" THEN -1 ELSE S!Bucket(text[x], n)]

\* The inductive invariant, in a state of StringsInv.
Chained == Housed(hash, 0 .. size - 1, Home(size))
OneObject == \A x, y \in Used : text[x] = text[y] => x = y
InternInv ==
  /\ size \in Nat \ {0} /\ Chained /\ OneObject
  /\ nuse = Cardinality(Used) /\ unswept \subseteq Used

\* The chain of a text is one of the table's.
LEMMA BucketThere ==
  ASSUME NEW n \in Nat \ {0}, NEW t \in Texts
  PROVE  S!Bucket(t, n) \in 0 .. n - 1
<1>1. Hash[t] \in Nat
  BY TextAssumption
<1> HIDE DEF S!Bucket
<1>2. \A x \in Nat : x % n \in 0 .. n - 1
  OBVIOUS
<1> QED BY <1>1, <1>2 DEF S!Bucket

\* When the size changes, the strings are at home in the new chains.
LEMMA Rehomed ==
  ASSUME StringTypes, InternInv, NEW n \in Nat \ {0}
  PROVE  Housed(S!Rehash(hash, size, n), 0 .. n - 1, Home(n))
<1>1. size \in Nat \ {0} /\ Housed(hash, 0 .. size - 1, Home(size))
  BY DEF InternInv, Chained
<1>2. ASSUME NEW x \in Addresses
      PROVE  \/ /\ Home(size)[x] \in 0 .. size - 1
                /\ Home(n)[x] = S!Bucket(text[x], n) /\ Home(n)[x] \in 0 .. n - 1
             \/ Home(size)[x] = -1 /\ Home(n)[x] = -1
  <2>1. CASE text[x] = "free"
    BY <2>1 DEF Home
  <2>2. CASE text[x] # "free"
    <3>1. text[x] \in Texts
      BY <2>2 DEF StringTypes
    <3>2. S!Bucket(text[x], n) \in 0 .. n - 1 /\ S!Bucket(text[x], size) \in 0 .. size - 1
      BY <1>1, <3>1, BucketThere
    <3>3. Home(size)[x] = S!Bucket(text[x], size) /\ Home(n)[x] = S!Bucket(text[x], n)
      BY <2>2 DEF Home
    <3> QED BY <3>2, <3>3
  <2> QED BY <2>1, <2>2
<1>3. Moves(Home(size), size, n, Home(n))
  BY <1>2 DEF Moves
<1> QED BY <1>1, <1>3, Rehashed

\* A text that is not found in its chain is not that of a string.
LEMMA NotFound ==
  ASSUME StringTypes, InternInv, NEW t \in Texts, S!Found(t) = {}
  PROVE  \A x \in Used : text[x] # t
<1> SUFFICES ASSUME NEW x \in Used, text[x] = t
             PROVE  S!Found(t) # {}
  OBVIOUS
<1>1. x \in Addresses /\ text[x] # "free"
  BY DEF Used
<1>2. S!Bucket(t, size) \in 0 .. size - 1
  BY BucketThere DEF InternInv
<1>3. Home(size)[x] = S!Bucket(t, size)
  BY <1>1 DEF Home
<1>4. Holds(hash[S!Bucket(t, size)], x) /\ hash[S!Bucket(t, size)] \in Seq(Addresses)
  BY <1>1, <1>2, <1>3 DEF InternInv, Chained, Housed
<1>5. S!Contains(hash[S!Bucket(t, size)], x)
  BY <1>4 DEF S!Contains, Holds
<1> QED BY <1>1, <1>5 DEF S!Found

\* A new string.
LEMMA Created ==
  ASSUME StringTypes, InternInv, NEW t \in Texts, S!Found(t) = {},
         NEW x \in Addresses, text[x] = "free", NEW grown \in BOOLEAN,
         S!Becomes(S!Create(t, x, grown)), unswept' = unswept
  PROVE  InternInv'
<1> DEFINE n == IF grown THEN size * 2 ELSE size
           H == IF grown THEN S!Rehash(hash, size, n) ELSE hash
           m == S!Bucket(t, n)
<1>1. /\ text' = [text EXCEPT ![x] = t] /\ size' = n /\ nuse' = nuse + 1
      /\ hash' = Push(H, x, m)
  BY DEF S!Becomes, S!Create, Push
<1>2. /\ size \in Nat \ {0} /\ Housed(hash, 0 .. size - 1, Home(size)) /\ OneObject
      /\ nuse = Cardinality(Used) /\ unswept \subseteq Used
  BY DEF InternInv, Chained
<1>3. n \in Nat \ {0} /\ Housed(H, 0 .. n - 1, Home(n))
  BY <1>2, Rehomed
<1> HIDE DEF n, H
<1>4. m \in 0 .. n - 1
  BY <1>3, BucketThere
<1>5. Home(n)[x] \notin 0 .. n - 1
  BY <1>3 DEF Home
<1>6. text'[x] = t /\ t # "free" /\ \A y \in Addresses : y # x => text'[y] = text[y]
  BY <1>1, TextAssumption DEF StringTypes
<1>7. Chained'
  <2> DEFINE place2 == [y \in Addresses |-> IF text'[y] = "free" THEN -1 ELSE S!Bucket(text'[y], n)]
  <2>1. GetsTo(Home(n), x, m, place2)
    BY <1>6 DEF GetsTo, Home
  <2> HIDE DEF place2, m
  <2>2. Housed(Push(H, x, m), 0 .. n - 1, place2)
    BY <1>3, <1>4, <1>5, <2>1, Pushed
  <2>3. Home(size)' = place2
    BY <1>1 DEF Home, place2, S!Bucket
  <2> QED BY <1>1, <2>2, <2>3 DEF Chained
<1>8. Used' = Used \cup {x} /\ x \notin Used
  BY <1>6 DEF Used
<1>9. OneObject'
  <2>1. \A y \in Used : text[y] # t
    BY NotFound
  <2>2. \A y \in Used : y \in Addresses /\ y # x
    BY <1>8 DEF Used
  <2> QED BY <1>2, <1>6, <1>8, <2>1, <2>2 DEF OneObject
<1>10. nuse' = Cardinality(Used')
  <2>1. IsFiniteSet(Used)
    BY TextAssumption, FS_Subset DEF Used
  <2>2. Cardinality(Used \cup {x}) = Cardinality(Used) + 1
    BY <1>8, <2>1, FS_AddElement
  <2> QED BY <1>1, <1>2, <1>8, <2>2
<1> QED BY <1>1, <1>2, <1>3, <1>7, <1>8, <1>9, <1>10 DEF InternInv

\* A step that leaves the strings where they are.
LEMMA Undisturbed ==
  ASSUME InternInv, UNCHANGED <<text, hash, size, nuse>>, unswept' \subseteq Used
  PROVE  InternInv'
<1>1. Home(size)' = Home(size) /\ Used' = Used
  BY DEF Home, Used, S!Bucket
<1>2. Chained' /\ OneObject'
  BY <1>1 DEF InternInv, Chained, OneObject
<1> QED BY <1>1, <1>2 DEF InternInv

\* A step that changes the size of the table only.
LEMMA Resized ==
  ASSUME StringTypes, InternInv, NEW n \in Nat \ {0}, size' = n, hash' = S!Rehash(hash, size, n),
         UNCHANGED <<text, nuse, unswept>>
  PROVE  InternInv'
<1>1. Home(size)' = Home(n) /\ Used' = Used
  BY DEF Home, Used, S!Bucket
<1>2. Chained'
  BY <1>1, Rehomed DEF Chained
<1>3. OneObject'
  BY <1>1 DEF InternInv, OneObject
<1> QED BY <1>1, <1>2, <1>3 DEF InternInv

\* The sweep frees a string.
LEMMA Freed ==
  ASSUME StringTypes, InternInv, NEW x \in unswept, text' = [text EXCEPT ![x] = "free"],
         hash' = S!RemoveStr(x), nuse' = nuse - 1, size' = size, unswept' = unswept \ {x}
  PROVE  InternInv'
<1>1. /\ size \in Nat \ {0} /\ Housed(hash, 0 .. size - 1, Home(size)) /\ OneObject
      /\ nuse = Cardinality(Used) /\ unswept \subseteq Used
  BY DEF InternInv, Chained
<1>2. x \in Used /\ x \in Addresses /\ text[x] # "free" /\ text[x] \in Texts
  BY <1>1 DEF Used, StringTypes
<1> DEFINE m == S!Bucket(text[x], size)
<1>3. m \in 0 .. size - 1
  BY <1>1, <1>2, BucketThere
<1>4. Home(size)[x] = m
  BY <1>2 DEF Home
<1>5. text'[x] = "free" /\ \A y \in Addresses : y # x => text'[y] = text[y]
  BY <1>2 DEF StringTypes
<1>6. Chained'
  <2> DEFINE place2 == [y \in Addresses |-> IF text'[y] = "free" THEN -1 ELSE S!Bucket(text'[y], size)]
             G == [hash EXCEPT ![m] = S!Without(@, x)]
  <2>1. \A y \in Addresses : y # x => place2[y] = Home(size)[y]
    BY <1>5 DEF Home
  <2>2. place2[x] \notin 0 .. size - 1
    BY <1>1, <1>2, <1>5
  <2> HIDE DEF place2, m
  <2>3. Housed(G, 0 .. size - 1, place2)
    BY <1>1, <1>2, <1>3, <1>4, <2>1, <2>2, Pulled
  <2>4. hash' = G
    BY DEF S!RemoveStr, m
  <2>5. Home(size)' = place2
    BY DEF Home, place2, S!Bucket
  <2> HIDE DEF G
  <2> QED BY <2>3, <2>4, <2>5 DEF Chained
<1>7. Used' = Used \ {x}
  BY <1>2, <1>5 DEF Used
<1>8. OneObject'
  <2>1. \A y \in Used' : y \in Used /\ text'[y] = text[y]
    BY <1>5, <1>7 DEF Used
  <2> QED BY <1>1, <2>1 DEF OneObject
<1>9. nuse' = Cardinality(Used')
  <2>1. IsFiniteSet(Used)
    BY TextAssumption, FS_Subset DEF Used
  <2>2. Cardinality(Used \ {x}) = Cardinality(Used) - 1
    BY <1>2, <2>1, FS_RemoveElement
  <2> QED BY <1>1, <1>7, <2>2
<1> QED BY <1>1, <1>6, <1>7, <1>8, <1>9 DEF InternInv

\* The invariant holds in the initial state.
LEMMA InternInit == S!Init => InternInv
<1> SUFFICES ASSUME S!Init
             PROVE  InternInv
  OBVIOUS
<1>1. /\ text = [x \in Addresses |-> "free"] /\ hash = [b \in 0 .. MinSize - 1 |-> <<>>]
      /\ size = MinSize /\ nuse = 0 /\ unswept = {} /\ MinSize \in Nat \ {0}
  BY TextAssumption DEF S!Init
<1>2. Used = {}
  BY <1>1 DEF Used
<1>3. Cardinality(Used) = 0
  BY <1>2, FS_EmptySet
<1>4. Chained
  <2>1. hash \in [0 .. size - 1 -> Seq(Addresses)]
    BY <1>1
  <2>2. \A x \in Addresses : Home(size)[x] = -1
    BY <1>1 DEF Home
  <2>3. ASSUME NEW b \in 0 .. size - 1
        PROVE  Once(hash[b]) /\ \A x \in Addresses : Holds(hash[b], x) <=> Home(size)[x] = b
    <3>1. hash[b] = <<>> /\ b # -1
      BY <1>1
    <3> QED BY <2>2, <3>1 DEF Once, Holds
  <2> QED BY <2>1, <2>3 DEF Chained, Housed
<1> QED BY <1>1, <1>2, <1>3, <1>4 DEF InternInv, OneObject

\* The strings stay where they belong when one is made or found again.
LEMMA InternKeeps ==
  ASSUME StringTypes, InternInv, NEW t \in Texts, NEW G \in S!InternShrStr(t),
         S!Becomes(G), unswept' = unswept
  PROVE  InternInv'
<1>1. CASE S!Found(t) # {}
  <2>1. PICK x : G = S!Resurrect(x)
    BY <1>1 DEF S!InternShrStr
  <2>2. UNCHANGED <<text, hash, size, nuse>>
    BY <2>1 DEF S!Becomes, S!Resurrect, S!Reuse
  <2> QED BY <2>2, Undisturbed DEF InternInv
<1>2. CASE S!Found(t) = {}
  <2>1. PICK x \in Addresses : text[x] = "free" /\ G = S!Create(t, x, S!MustGrow)
    BY <1>2 DEF S!InternShrStr
  <2>2. S!MustGrow \in BOOLEAN
    BY DEF S!MustGrow
  <2>3. S!Becomes(S!Create(t, x, S!MustGrow))
    BY <2>1
  <2> QED BY <1>2, <2>1, <2>2, <2>3, Created
<1> QED BY <1>1, <1>2

\* Every step of the table, its cache and the sweep keeps it.
LEMMA InternKept == StringsInv /\ InternInv /\ S!Next => InternInv'
<1> SUFFICES ASSUME StringsInv, InternInv, S!Next
             PROVE  InternInv'
  OBVIOUS
<1>1. StringTypes
  BY DEF StringsInv
<1>2. CASE S!NewLStr
  <2>1. PICK t \in Texts : \E G \in S!InternShrStr(t) : S!Becomes(G)
    BY <1>2 DEF S!NewLStr
  <2>2. PICK G \in S!InternShrStr(t) : S!Becomes(G)
    BY <2>1
  <2>3. unswept' = unswept
    BY <1>2 DEF S!NewLStr
  <2> QED BY <1>1, <2>2, <2>3, InternKeeps
<1>3. CASE S!NewMiss
  <2>1. PICK t \in Texts : \E G \in S!InternShrStr(t) : S!Becomes(G)
    BY <1>3 DEF S!NewMiss
  <2>2. PICK G \in S!InternShrStr(t) : S!Becomes(G)
    BY <2>1
  <2>3. unswept' = unswept
    BY <1>3 DEF S!NewMiss
  <2> QED BY <1>1, <2>2, <2>3, InternKeeps
<1>4. CASE S!NewHit \/ S!Forget
  <2>1. UNCHANGED <<text, hash, size, nuse, unswept>>
    BY <1>4 DEF S!NewHit, S!Forget
  <2> QED BY <2>1, Undisturbed DEF InternInv
<1>5. CASE S!NewFails
  <2>1. UNCHANGED <<text, nuse, unswept>>
    BY <1>5 DEF S!NewFails
  <2>2. CASE UNCHANGED <<hash, size>>
    BY <2>1, <2>2, Undisturbed DEF InternInv
  <2>3. CASE size' = size * 2 /\ hash' = S!Rehash(hash, size, size * 2)
    <3>1. size * 2 \in Nat \ {0}
      BY DEF InternInv
    <3> QED BY <1>1, <2>1, <2>3, <3>1, Resized
  <2> QED BY <1>5, <2>2, <2>3 DEF S!NewFails
<1>6. CASE S!Atomic
  <2>1. UNCHANGED <<text, hash, size, nuse>> /\ unswept' = Used
    BY <1>6 DEF S!Atomic, Used
  <2> QED BY <2>1, Undisturbed
<1>7. CASE S!SweepStep
  <2>1. PICK x \in unswept :
          /\ IF S!IsDead(x) THEN /\ text' = [text EXCEPT ![x] = "free"]
                                 /\ hash' = S!RemoveStr(x) /\ nuse' = nuse - 1
             ELSE UNCHANGED <<text, hash, nuse>>
          /\ unswept' = unswept \ {x}
    BY <1>7 DEF S!SweepStep
  <2>2. size' = size
    BY <1>7 DEF S!SweepStep
  <2>3. CASE S!IsDead(x)
    BY <1>1, <2>1, <2>2, <2>3, Freed
  <2>4. CASE ~S!IsDead(x)
    BY <2>1, <2>2, <2>4, Undisturbed DEF InternInv
  <2> QED BY <2>3, <2>4
<1>8. CASE S!CheckSizes
  <2>1. UNCHANGED <<text, nuse, unswept>>
    BY <1>8 DEF S!CheckSizes
  <2>2. CASE UNCHANGED <<hash, size>>
    BY <2>1, <2>2, Undisturbed DEF InternInv
  <2>3. CASE ~UNCHANGED <<hash, size>>
    <3>1. nuse < size \div 4 /\ size' = size \div 2 /\ hash' = S!Rehash(hash, size, size \div 2)
      BY <1>8, <2>3 DEF S!CheckSizes
    <3>2. nuse \in Nat /\ size \in Nat
      <4>1. IsFiniteSet(Used)
        BY TextAssumption, FS_Subset DEF Used
      <4> QED BY <4>1, FS_CardinalityType DEF InternInv
    <3>3. size \div 2 \in Nat \ {0}
      BY <3>1, <3>2
    <3> QED BY <1>1, <2>1, <3>1, <3>3, Resized
  <2> QED BY <2>2, <2>3
<1> QED BY <1>2, <1>3, <1>4, <1>5, <1>6, <1>7, <1>8 DEF S!Next

\* How often a chain holds a string.
LEMMA CountOnce ==
  ASSUME NEW s, Once(s), NEW x
  PROVE  Cardinality({n \in DOMAIN s : s[n] = x}) = IF Holds(s, x) THEN 1 ELSE 0
<1>1. CASE Holds(s, x)
  <2>1. PICK k \in DOMAIN s : s[k] = x
    BY <1>1 DEF Holds
  <2>2. {n \in DOMAIN s : s[n] = x} = {k}
    BY <2>1 DEF Once
  <2>3. Cardinality({k}) = 1
    BY FS_Singleton
  <2> QED BY <1>1, <2>2, <2>3
<1>2. CASE ~Holds(s, x)
  <2>1. {n \in DOMAIN s : s[n] = x} = {}
    BY <1>2 DEF Holds
  <2> QED BY <1>2, <2>1, FS_EmptySet
<1> QED BY <1>1, <1>2

\* The invariant says what internshrstr promises.
LEMMA InternSays == StringTypes /\ InternInv => S!InternedOnce
<1> SUFFICES ASSUME StringTypes, InternInv
             PROVE  S!InternedOnce
  OBVIOUS
<1> DEFINE Times(x, b) == Cardinality({n \in DOMAIN hash[b] : hash[b][n] = x})
<1>1. /\ size \in Nat \ {0} /\ Housed(hash, 0 .. size - 1, Home(size)) /\ OneObject
      /\ nuse = Cardinality(Used)
  BY DEF InternInv, Chained
<1>2. ASSUME NEW x \in Addresses, NEW b \in 0 .. size - 1
      PROVE  Times(x, b) = IF Home(size)[x] = b THEN 1 ELSE 0
  <2>1. Once(hash[b]) /\ (Holds(hash[b], x) <=> Home(size)[x] = b)
    BY <1>1 DEF Housed
  <2>2. Times(x, b) = IF Holds(hash[b], x) THEN 1 ELSE 0
    BY <2>1, CountOnce
  <2> HIDE DEF Times
  <2> QED BY <2>1, <2>2
<1> HIDE DEF Times
<1>3. ASSUME NEW x \in Used, NEW b \in 0 .. size - 1
      PROVE  Times(x, b) = IF b = S!Bucket(text[x], size) THEN 1 ELSE 0
  <2>1. x \in Addresses /\ Home(size)[x] = S!Bucket(text[x], size)
    BY DEF Used, Home
  <2> QED BY <1>2, <2>1
<1>4. ASSUME NEW x \in Addresses \ Used, NEW b \in 0 .. size - 1
      PROVE  Times(x, b) = 0
  <2>1. Home(size)[x] = -1 /\ b # -1
    BY DEF Used, Home
  <2> QED BY <1>2, <2>1
<1>5. DOMAIN hash = 0 .. size - 1
  BY <1>1 DEF Housed
<1>6. /\ \A x \in Used : \A b \in 0 .. size - 1 : Times(x, b) = IF b = S!Bucket(text[x], size) THEN 1 ELSE 0
      /\ \A x, y \in Used : text[x] = text[y] => x = y
      /\ nuse = Cardinality(Used) /\ DOMAIN hash = 0 .. size - 1
      /\ \A x \in Addresses \ Used : \A b \in 0 .. size - 1 : Times(x, b) = 0
  BY <1>1, <1>3, <1>4, <1>5 DEF OneObject
<1>7. S!InternedOnce <=>
      /\ \A x \in Used : \A b \in 0 .. size - 1 : Times(x, b) = IF b = S!Bucket(text[x], size) THEN 1 ELSE 0
      /\ \A x, y \in Used : text[x] = text[y] => x = y
      /\ nuse = Cardinality(Used)
      /\ DOMAIN hash = 0 .. size - 1 /\ \A x \in Addresses \ Used : \A b \in 0 .. size - 1 : Times(x, b) = 0
  <2>1. \A X : S!Cardinality(X) = Cardinality(X)
    BY DEF S!Cardinality, Cardinality
  <2> QED BY <2>1 DEF S!InternedOnce, Times, Used
<1> QED BY <1>6, <1>7

\* However often the table grows and shrinks, whether memory is refused or not,
\* and wherever the sweep is: equal short strings are one object, which is once
\* in the table, in the chain its hash says, and nuse counts them.
THEOREM StringsInterned == RuntimeSpec => []InternedOnce
<1>1. RuntimeInit => StringsInv /\ InternInv
  BY StringsInit, InternInit DEF RuntimeInit
<1>2. StringsInv /\ InternInv /\ [RuntimeNext]_rvars => StringsInv' /\ InternInv'
  <2> SUFFICES ASSUME StringsInv, InternInv, [RuntimeNext]_rvars
               PROVE  StringsInv' /\ InternInv'
    OBVIOUS
  <2>1. CASE S!Next
    BY <2>1, StringsKept, InternKept
  <2>2. CASE UNCHANGED svars
    <3>1. UNCHANGED <<text, colour, hash, size, nuse, strcache, refs, unswept>>
      BY <2>2 DEF svars
    <3>2. StringsInv'
      BY <3>1 DEF StringsInv, StringTypes, S!StringsStay, S!IsDead
    <3>3. InternInv'
      BY <3>1, Undisturbed DEF InternInv
    <3> QED BY <3>2, <3>3
  <2>3. S!Next \/ UNCHANGED svars
    BY DEF RuntimeNext, rvars
  <2> QED BY <2>1, <2>2, <2>3
<1>3. StringsInv /\ InternInv => InternedOnce
  BY InternSays DEF StringsInv, InternedOnce
<1> QED BY <1>1, <1>2, <1>3, PTL DEF RuntimeSpec

-----------------------------------------------------------------------------
(* Upvalues: lemmas about lists and about what is accessible.              *)

\* What InsertAt returns: the list with one more element at k + 1.
LEMMA Inserted ==
  ASSUME NEW s \in Seq(UpVals), NEW e \in UpVals, NEW k \in 0 .. Len(s)
  PROVE  /\ U!InsertAt(s, k + 1, e) \in Seq(UpVals)
         /\ Len(U!InsertAt(s, k + 1, e)) = Len(s) + 1
         /\ \A n \in 1 .. k : U!InsertAt(s, k + 1, e)[n] = s[n]
         /\ U!InsertAt(s, k + 1, e)[k + 1] = e
         /\ \A n \in k + 2 .. Len(s) + 1 : U!InsertAt(s, k + 1, e)[n] = s[n - 1]
<1> DEFINE b == SubSeq(s, 1, k)
           c == SubSeq(s, k + 1, Len(s))
           d == b \o <<e>>
<1>1. Len(s) \in Nat /\ k \in Nat /\ k <= Len(s) /\ (k + 1) - 1 = k
  OBVIOUS
<1>2. b \in Seq(UpVals) /\ Len(b) = k /\ \A n \in 1 .. k : b[n] = s[n]
  BY <1>1
<1>3. c \in Seq(UpVals) /\ Len(c) = Len(s) - k /\ \A n \in 1 .. (Len(s) - k) : c[n] = s[n + k]
  BY <1>1
<1>4. U!InsertAt(s, k + 1, e) = d \o c
  BY <1>1 DEF U!InsertAt
<1> HIDE DEF b, c
<1>5. d \in Seq(UpVals) /\ Len(d) = k + 1 /\ d[k + 1] = e /\ \A n \in 1 .. k : d[n] = s[n]
  BY <1>1, <1>2
<1> HIDE DEF d
<1>6. d \o c \in Seq(UpVals) /\ Len(d \o c) = Len(s) + 1
  BY <1>1, <1>3, <1>5
<1>7. \A n \in 1 .. k + 1 : (d \o c)[n] = d[n]
  BY <1>1, <1>3, <1>5
<1>8. ASSUME NEW n \in k + 2 .. Len(s) + 1
      PROVE  (d \o c)[n] = s[n - 1]
  <2>1. (d \o c)[n] = c[n - (k + 1)]
    BY <1>1, <1>3, <1>5
  <2>2. n - (k + 1) \in 1 .. (Len(s) - k) /\ (n - (k + 1)) + k = n - 1
    BY <1>1
  <2> QED BY <1>3, <2>1, <2>2
<1>9. /\ \A n \in 1 .. k : (d \o c)[n] = s[n]
      /\ (d \o c)[k + 1] = e
  <2>1. k + 1 \in 1 .. k + 1 /\ \A n \in 1 .. k : n \in 1 .. k + 1
    BY <1>1
  <2> QED BY <1>5, <1>7, <2>1
<1> QED BY ONLY <1>4, <1>6, <1>8, <1>9

\* How far luaF_findupval and luaF_close walk down the list: over all upvalues
\* at the level or above, to the first below it.
LEMMA DownToFacts ==
  ASSUME U!TypeOK, NEW t \in U!Threads, NEW l \in Nat
  PROVE  /\ U!DownTo(t, l) \in 0 .. Len(openupval[t])
         /\ \A n \in 1 .. U!DownTo(t, l) : uv[openupval[t][n]].level >= l
         /\ U!DownTo(t, l) < Len(openupval[t]) =>
              uv[openupval[t][U!DownTo(t, l) + 1]].level < l
<1> DEFINE s == openupval[t]
           T == {k \in 0 .. Len(s) : k < Len(s) => uv[s[k + 1]].level < l}
<1>1. s \in Seq(UpVals) /\ Len(s) \in Nat /\ \A n \in 1 .. Len(s) : uv[s[n]].level \in Nat
  BY DEF U!TypeOK, U!UpVal
<1>2. T \in SUBSET Nat /\ T # {}
  <2>1. Len(s) \in T
    BY <1>1
  <2> QED BY <1>1, <2>1
<1>3. PICK k \in T : \A m \in T : k <= m
  <2> HIDE DEF T
  <2> QED BY <1>2, Least
<1>4. ASSUME NEW n \in 1 .. k PROVE uv[s[n]].level >= l
  <2>0. k \in 0 .. Len(s)
    OBVIOUS
  <2>1. n - 1 \in 0 .. Len(s) /\ (n - 1) + 1 = n /\ n - 1 < k /\ n \in 1 .. Len(s)
    BY <1>1, <2>0
  <2>2. n - 1 \notin T
    <3> HIDE DEF T
    <3>1. k \in Nat /\ n - 1 \in Nat
      BY <2>0, <2>1
    <3>2. ASSUME n - 1 \in T PROVE FALSE
      <4>1. k <= n - 1
        BY <1>3, <3>2
      <4> QED BY <4>1, <2>1, <3>1
    <3> QED BY <3>2
  <2>3. ~(uv[s[(n - 1) + 1]].level < l)
    BY <2>1, <2>2
  <2>4. uv[s[n]].level \in Nat
    BY <1>1, <2>1
  <2> HIDE DEF s
  <2> QED BY <2>1, <2>3, <2>4
<1>5. \E m \in 0 .. Len(s) : /\ \A n \in 1 .. m : uv[s[n]].level >= l
                             /\ m < Len(s) => uv[s[m + 1]].level < l
  BY <1>3, <1>4
<1> QED BY <1>5 DEF U!DownTo

\* Everything a set of objects refers to and the objects themselves.
StepFrom(T) == T \cup UNION {U!Refs(o) : o \in T}
\* The sets with everything of T that are closed under references.
Within(T) == {C \in SUBSET U!Objs : T \subseteq C /\ \A o \in C : U!Refs(o) \subseteq C}

\* The recursive function that defines what is accessible satisfies its
\* equation: the least closed set around T is a solution of it.
LEMMA ReachEquation ==
  \A T \in SUBSET U!Objs : U!ReachFrom[T] = IF StepFrom(T) = T THEN T ELSE U!ReachFrom[StepFrom(T)]
<1> DEFINE Least1(T) == {o \in U!Objs : \A C \in Within(T) : o \in C}
           f == [T \in SUBSET U!Objs |-> Least1(T)]
<1>1. ASSUME NEW T \in SUBSET U!Objs
      PROVE  /\ StepFrom(T) \in SUBSET U!Objs
             /\ T \subseteq StepFrom(T)
             /\ \A o \in T : U!Refs(o) \subseteq StepFrom(T)
  BY DEF StepFrom, U!Refs
<1>2. ASSUME NEW T \in SUBSET U!Objs, NEW C \in SUBSET U!Objs
      PROVE  C \in Within(T) <=> C \in Within(StepFrom(T))
  BY DEF Within, StepFrom
<1>3. ASSUME NEW T \in SUBSET U!Objs
      PROVE  Least1(StepFrom(T)) = Least1(T)
  BY <1>2 DEF Within
<1>4. ASSUME NEW T \in SUBSET U!Objs, StepFrom(T) = T
      PROVE  Least1(T) = T
  <2>1. T \in Within(T)
    BY <1>1, <1>4 DEF Within
  <2>2. \A C \in Within(T) : T \subseteq C
    BY DEF Within
  <2> QED BY <2>1, <2>2
<1>5. ASSUME NEW T \in SUBSET U!Objs
      PROVE  f[T] = IF StepFrom(T) = T THEN T ELSE f[StepFrom(T)]
  <2>1. f[T] = Least1(T) /\ f[StepFrom(T)] = Least1(StepFrom(T))
    BY <1>1
  <2> HIDE DEF Least1
  <2> QED BY <2>1, <1>3, <1>4
<1> HIDE DEF Least1
<1>6. f = [T \in SUBSET U!Objs |-> IF StepFrom(T) = T THEN T ELSE f[StepFrom(T)]]
  <2> DEFINE g == [T \in SUBSET U!Objs |-> IF StepFrom(T) = T THEN T ELSE f[StepFrom(T)]]
  <2>1. ASSUME NEW T \in SUBSET U!Objs PROVE f[T] = g[T]
    <3>1. g[T] = IF StepFrom(T) = T THEN T ELSE f[StepFrom(T)]
      OBVIOUS
    <3> QED BY <1>5, <3>1
  <2> QED BY <2>1, ZenonT(30)
<1> HIDE DEF f
<1>7. f = [T \in SUBSET U!Objs |-> LET V == T \cup UNION {U!Refs(o) : o \in T} IN IF V = T THEN T ELSE f[V]]
  BY <1>6 DEF StepFrom
<1>8. U!ReachFrom = [T \in SUBSET U!Objs |-> IF StepFrom(T) = T THEN T ELSE U!ReachFrom[StepFrom(T)]]
  BY <1>7 DEF U!ReachFrom, StepFrom
<1> HIDE DEF StepFrom
<1> QED BY <1>8

\* What a set reaches is the least set that is closed under references and has
\* everything of it: by the number of objects that are not in the set.
LEMMA LeastClosed ==
  \A T \in SUBSET U!Objs :
     U!ReachFrom[T] \in Within(T) /\ \A C \in Within(T) : U!ReachFrom[T] \subseteq C
<1> DEFINE Good(T) == U!ReachFrom[T] \in Within(T) /\ \A C \in Within(T) : U!ReachFrom[T] \subseteq C
           Left(T) == Cardinality(U!Objs \ T)
           Bad == {T \in SUBSET U!Objs : ~Good(T)}
           B == {Left(T) : T \in Bad}
<1>1. ASSUME NEW T \in SUBSET U!Objs
      PROVE  /\ T \subseteq StepFrom(T) /\ StepFrom(T) \in SUBSET U!Objs
             /\ U!ReachFrom[T] = IF StepFrom(T) = T THEN T ELSE U!ReachFrom[StepFrom(T)]
             /\ Within(StepFrom(T)) = Within(T)
  <2>1. StepFrom(T) \in SUBSET U!Objs /\ T \subseteq StepFrom(T)
    BY DEF StepFrom, U!Refs
  <2>2. \A C \in SUBSET U!Objs : C \in Within(T) <=> C \in Within(StepFrom(T))
    BY DEF Within, StepFrom
  <2>3. Within(StepFrom(T)) = Within(T)
    BY <2>2 DEF Within
  <2>4. U!ReachFrom[T] = IF StepFrom(T) = T THEN T ELSE U!ReachFrom[StepFrom(T)]
    BY ReachEquation
  <2> QED BY <2>1, <2>3, <2>4
<1>2. \A T \in SUBSET U!Objs : IsFiniteSet(U!Objs \ T) /\ Left(T) \in Nat
  <2>1. \A T \in SUBSET U!Objs : IsFiniteSet(U!Objs \ T)
    BY UpvalAssumption, FS_Subset
  <2> QED BY <2>1, FS_CardinalityType
<1>3. Bad = {}
  <2> SUFFICES ASSUME Bad # {} PROVE FALSE
    OBVIOUS
  <2>1. B \in SUBSET Nat /\ B # {}
    <3> HIDE DEF Good, Left
    <3> QED BY <1>2
  <2>2. PICK n \in B : \A m \in B : n <= m
    <3> HIDE DEF B
    <3> QED BY <2>1, Least
  <2>3. PICK T \in Bad : n = Left(T)
    BY <2>2
  <2>4. T \in SUBSET U!Objs /\ ~Good(T)
    OBVIOUS
  <2>5. StepFrom(T) # T
    <3>1. ASSUME StepFrom(T) = T PROVE Good(T)
      <4>1. U!ReachFrom[T] = T
        BY <1>1, <2>4, <3>1
      <4>2. T \in Within(T)
        BY <2>4, <3>1 DEF Within, StepFrom
      <4>3. \A C \in Within(T) : T \subseteq C
        BY DEF Within
      <4> QED BY <4>1, <4>2, <4>3
    <3> QED BY <2>4, <3>1
  <2>6. StepFrom(T) \in Bad
    <3>1. U!ReachFrom[T] = U!ReachFrom[StepFrom(T)] /\ Within(StepFrom(T)) = Within(T)
          /\ StepFrom(T) \in SUBSET U!Objs
      BY <1>1, <2>4, <2>5
    <3> QED BY <2>4, <3>1
  <2>7. n <= Left(StepFrom(T))
    <3>1. Left(StepFrom(T)) \in B
      <4> HIDE DEF Left, Bad
      <4> QED BY <2>6
    <3> HIDE DEF B, Left
    <3> QED BY <2>2, <3>1
  <2>8. Left(StepFrom(T)) < Left(T)
    <3>1. T \subseteq StepFrom(T) /\ StepFrom(T) \in SUBSET U!Objs
      BY <1>1, <2>4
    <3>2. U!Objs \ StepFrom(T) \subseteq U!Objs \ T /\ U!Objs \ StepFrom(T) # U!Objs \ T
      BY <2>4, <2>5, <3>1
    <3>3. Left(StepFrom(T)) <= Left(T) /\ (Left(T) = Left(StepFrom(T)) => U!Objs \ T = U!Objs \ StepFrom(T))
      BY <1>2, <2>4, <3>2, FS_Subset
    <3>4. Left(StepFrom(T)) \in Nat /\ Left(T) \in Nat
      BY <1>2, <2>4, <3>1
    <3> HIDE DEF Left
    <3> QED BY <3>2, <3>3, <3>4
  <2>9. n \in Nat /\ Left(StepFrom(T)) \in Nat
    <3>1. StepFrom(T) \in SUBSET U!Objs
      BY <1>1, <2>4
    <3> HIDE DEF Left
    <3> QED BY <1>2, <2>3, <2>4, <3>1
  <2> HIDE DEF Left
  <2> QED BY <2>3, <2>7, <2>8, <2>9
<1> HIDE DEF Good
<1>4. \A T \in SUBSET U!Objs : Good(T)
  BY <1>3
<1> USE DEF Good
<1> QED BY <1>4

\* What the program can get at is closed under references.
LEMMA AccessibleClosed ==
  Main \in U!Accessible /\ U!Accessible \subseteq U!Objs /\ \A o \in U!Accessible : U!Refs(o) \subseteq U!Accessible
<1>1. {Main} \in SUBSET U!Objs
  BY DEF U!Objs, U!Threads
<1> QED BY <1>1, LeastClosed DEF Within, U!Accessible

\* If what is kept refers only to what is kept, so much is all the program can
\* get at.
LEMMA AccessibleSafe ==
  ASSUME U!TypeOK, U!NoDangling
  PROVE  U!Accessible \subseteq alive \ dead
<1>1. alive \ dead \in Within({Main})
  BY DEF Within, U!NoDangling, U!TypeOK
<1>2. {Main} \in SUBSET U!Objs
  BY DEF U!Objs, U!Threads
<1> QED BY <1>1, <1>2, LeastClosed DEF U!Accessible

-----------------------------------------------------------------------------
(* Counting, and the steps of the collector that free nothing.             *)

\* The closures that have an upvalue, and the clauses of UpvaluesCounted and
\* InPlace for one upvalue or thread.
Holders(w) == {c \in alive \cap Closures : upvals[c] = w}
CountRight(w) == uv[w].st # "free" => uv[w].count = U!Cardinality(Holders(w))
ListRight(t) ==
  /\ {openupval[t][n] : n \in DOMAIN openupval[t]} = {w \in UpVals : U!IsOpen(w) /\ uv[w].th = t}
  /\ \A m, n \in DOMAIN openupval[t] : m < n => uv[openupval[t][m]].level > uv[openupval[t][n]].level
Placed(w) == U!IsOpen(w) => uv[w].th \in alive \cap U!Threads /\ uv[w].level \in Levels

\* But for the mark of remarkupvals, an upvalue stays what it is.
ButTouched(w) == /\ uv'[w].st = uv[w].st /\ uv'[w].th = uv[w].th /\ uv'[w].level = uv[w].level
                 /\ uv'[w].value = uv[w].value /\ uv'[w].count = uv[w].count

\* The two instances of Cardinality agree.
LEMMA SameCardinality ==
  ASSUME NEW T
  PROVE  U!Cardinality(T) = Cardinality(T)
BY DEF U!Cardinality, Cardinality

\* An object is a thread or a closure, never both.
LEMMA Kinds ==
  /\ U!Objs = U!Threads \cup Closures /\ Main \in U!Threads
  /\ \A o \in U!Objs : o \in Closures <=> o \notin U!Threads
BY UpvalAssumption DEF U!Objs, U!Threads

\* UpvaluesCounted, clause by clause.
LEMMA Counted ==
  U!UpvaluesCounted <=>
    /\ \A w \in UpVals : CountRight(w)
    /\ \A w \in UpVals : uv[w].st = "closed" => uv[w].count > 0
    /\ \A c \in alive \cap Closures : uv[upvals[c]].st # "free"
    /\ \A t \in U!Threads : ListRight(t)
BY DEF U!UpvaluesCounted, CountRight, Holders, ListRight

\* A step of the collector that sweeps nothing.
Steady == /\ UNCHANGED <<stack, openupval, upvals, alive>>
          /\ uv' \in [UpVals -> U!UpVal] /\ \A w \in UpVals : ButTouched(w)

\* Where nothing moves, every upvalue has the value it had.
LEMMA SteadyValues ==
  ASSUME U!InPlace, Steady
  PROVE  /\ \A w \in UpVals : U!IsOpen(w)' <=> U!IsOpen(w)
         /\ \A w \in UpVals : U!ValueOf(w)' = U!ValueOf(w)
         /\ \A o \in alive \cap U!Objs : U!Refs(o)' = U!Refs(o)
<1>1. ASSUME NEW w \in UpVals
      PROVE  (U!IsOpen(w)' <=> U!IsOpen(w)) /\ U!ValueOf(w)' = U!ValueOf(w)
  BY DEF Steady, ButTouched, U!IsOpen, U!ValueOf
<1>2. ASSUME NEW o \in alive \cap U!Objs
      PROVE  U!Refs(o)' = U!Refs(o)
  <2>1. CASE o \in U!Threads
    BY <2>1 DEF Steady, U!Refs
  <2>2. CASE o \notin U!Threads
    <3>1. upvals[o] \in UpVals /\ upvals' = upvals
      BY <2>2, Kinds DEF U!InPlace, Steady
    <3>2. U!ValueOf(upvals[o])' = U!ValueOf(upvals[o])
      BY <1>1, <3>1
    <3> QED BY <2>2, <3>1, <3>2 DEF U!Refs
  <2> QED BY <2>1, <2>2
<1> QED BY <1>1, <1>2

\* Where nothing moves, the counts, lists and places stay right.
LEMMA SteadyCounted ==
  ASSUME U!UpvaluesCounted, U!InPlace, U!TypeOK, Steady
  PROVE  U!UpvaluesCounted' /\ U!InPlace'
<1>0. upvals' = upvals /\ alive' = alive /\ openupval' = openupval /\ stack' = stack
  BY DEF Steady
<1>1. ASSUME NEW w \in UpVals
      PROVE  /\ CountRight(w)'
             /\ (uv[w].st = "closed" => uv[w].count > 0)'
             /\ Placed(w)'
  <2>1. ButTouched(w) /\ Holders(w)' = Holders(w)
    BY DEF Steady, Holders
  <2>2. CountRight(w) /\ (uv[w].st = "closed" => uv[w].count > 0)
    BY Counted
  <2>3. Placed(w)
    BY DEF U!InPlace, Placed
  <2> QED BY <1>0, <2>1, <2>2, <2>3 DEF CountRight, ButTouched, Placed, U!IsOpen
<1>2. ASSUME NEW c \in alive \cap Closures
      PROVE  uv'[upvals[c]].st # "free" /\ upvals[c] \in UpVals
  <2>1. upvals[c] \in UpVals
    BY DEF U!InPlace
  <2>2. uv[upvals[c]].st # "free"
    BY Counted
  <2> QED BY <2>1, <2>2 DEF Steady, ButTouched
<1>3. ASSUME NEW t \in U!Threads
      PROVE  ListRight(t)'
  <2>1. ListRight(t)
    BY Counted
  <2>2. openupval[t] \in Seq(UpVals)
    BY DEF U!TypeOK
  <2>3. \A w \in UpVals : (U!IsOpen(w)' <=> U!IsOpen(w)) /\ uv'[w].th = uv[w].th /\ uv'[w].level = uv[w].level
    BY DEF Steady, ButTouched, U!IsOpen
  <2>4. \A n \in DOMAIN openupval[t] : openupval[t][n] \in UpVals
    BY <2>2
  <2>5. {w \in UpVals : U!IsOpen(w)' /\ uv'[w].th = t} = {w \in UpVals : U!IsOpen(w) /\ uv[w].th = t}
    BY <2>3
  <2> QED BY <1>0, <2>1, <2>3, <2>4, <2>5 DEF ListRight
<1>4. U!UpvaluesCounted'
  BY <1>0, <1>1, <1>2, <1>3 DEF U!UpvaluesCounted, CountRight, Holders, ListRight
<1>5. U!InPlace'
  BY <1>0, <1>1, <1>2 DEF U!InPlace, Placed
<1> QED BY <1>4, <1>5

\* Where nothing moves and nothing new is dead, nothing dangles.
LEMMA SteadyDangling ==
  ASSUME U!InPlace, U!NoDangling, U!TypeOK, Steady, dead' = dead,
         gcstate' # "sweep" => dead = {},
         gcstate' \in {"pause", "sweep"} => gray' = {} /\ grayagain' = {}
  PROVE  U!NoDangling'
<1>1. alive' = alive /\ dead' = dead /\ alive \subseteq U!Objs
  BY DEF Steady, U!TypeOK
<1>2. \A o \in alive \ dead : U!Refs(o)' \subseteq alive \ dead
  BY <1>1, SteadyValues DEF U!NoDangling
<1> QED BY <1>1, <1>2 DEF U!NoDangling

\* restartcollection keeps the invariant.
LEMMA RestartKeeps ==
  ASSUME U!IInv, U!RestartCollection
  PROVE  U!IInv'
<1>0. U!TypeOK /\ U!UpvaluesCounted /\ U!InPlace /\ U!NoDangling /\ U!AllListed
  BY DEF U!IInv
<1>1. /\ gcstate = "pause" /\ gcstate' = "propagate" /\ gray' = {Main} /\ grayagain' = {} /\ dead' = dead
      /\ color' = [o \in U!Objs |-> IF o = Main THEN "gray" ELSE "white"]
      /\ UNCHANGED <<stack, openupval, upvals, alive, uv, twups>>
  BY DEF U!RestartCollection, U!Collect
<1>2. Steady
  BY <1>0, <1>1 DEF Steady, ButTouched, U!TypeOK
<1>3. U!UpvaluesCounted' /\ U!InPlace'
  BY <1>0, <1>2, SteadyCounted
<1>4. U!TypeOK'
  BY <1>0, <1>1, Kinds DEF U!TypeOK
<1>5. U!NoDangling'
  BY <1>0, <1>1, <1>2, SteadyDangling DEF U!NoDangling
<1>6. U!Marking'
  <2>1. (Main \in alive)' /\ \A c \in Closures : c # Main /\ c \in U!Objs
    BY <1>0, <1>1, Kinds DEF U!NoDangling
  <2>2. \A c \in Closures : color'[c] = "white"
    BY <1>1, <2>1
  <2>3. \A t \in U!Threads \ {Main} : color'[t] = "white"
    BY <1>1, Kinds
  <2>4. color'[Main] = "gray"
    BY <1>1, Kinds
  <2>5. \A c \in Closures : U!ClosureMarked(c)'
    BY <2>2 DEF U!ClosureMarked
  <2>6. \A t \in U!Threads : U!ThreadMarked(t)'
    BY <2>3, <1>1 DEF U!ThreadMarked
  <2> QED BY <1>1, <2>1, <2>4, <2>5, <2>6 DEF U!Marking, U!Grayed
<1>7. U!AllListed'
  BY <1>0, <1>1 DEF U!AllListed, U!Listed
<1> QED BY <1>3, <1>4, <1>5, <1>6, <1>7 DEF U!IInv

\* What a step of marking does to a closure or thread that it does not traverse.
Coloured(o) == color'[o] = color[o] \/ (color[o] = "white" /\ color'[o] = "gray" /\ o \in gray')
\* No mark is taken away.
MoreGrayed == \A v \in U!Objs : U!Grayed(v) => U!Grayed(v)'

\* What Marking says of a closure that is not traversed stays true.
LEMMA ClosureStaysMarked ==
  ASSUME U!InPlace, Steady, MoreGrayed, gcstate' = gcstate,
         \A w \in UpVals : uv[w].touched => uv'[w].touched,
         NEW c \in alive \cap Closures, U!ClosureMarked(c), Coloured(c),
         c \in gray => c \in gray'
  PROVE  U!ClosureMarked(c)'
<1> DEFINE w == upvals[c]
<1>1. w \in UpVals /\ upvals' = upvals /\ Placed(w)
  BY DEF U!InPlace, Steady, Placed
<1>2. /\ U!IsOpen(w)' <=> U!IsOpen(w)
      /\ U!ValueOf(w)' = U!ValueOf(w)
      /\ uv'[w].th = uv[w].th
      /\ uv[w].touched => uv'[w].touched
  BY <1>1, SteadyValues DEF Steady, ButTouched
<1>3. U!Grayed(U!ValueOf(w)) => color'[U!ValueOf(w)] # "white" \/ U!ValueOf(w) \notin U!Objs
  BY DEF MoreGrayed, U!Grayed
<1>4. U!IsOpen(w) /\ U!Grayed(uv[w].th) => color'[uv[w].th] # "white"
  BY <1>1, Kinds DEF MoreGrayed, U!Grayed, Placed
<1>5. color'[c] = "gray" => c \in gray'
  BY DEF U!ClosureMarked, Coloured
<1>6. CASE color'[c] # "black"
  BY <1>5, <1>6 DEF U!ClosureMarked
<1>7. CASE color'[c] = "black"
  <2>1. color[c] = "black"
    BY <1>7 DEF Coloured
  <2>2. CASE U!IsOpen(w)
    <3>1. CASE gcstate = "propagate"
      <4>1. uv[w].touched
        BY <2>1, <2>2, <3>1 DEF U!ClosureMarked
      <4> QED BY <1>1, <1>2, <1>7, <2>2, <3>1, <4>1 DEF U!ClosureMarked
    <3>2. CASE gcstate # "propagate"
      <4>1. U!Grayed(U!ValueOf(w)) \/ U!Grayed(uv[w].th)
        BY <2>1, <2>2, <3>2 DEF U!ClosureMarked
      <4>2. U!Grayed(U!ValueOf(w))' \/ U!Grayed(uv[w].th)'
        BY <1>1, <1>2, <1>3, <1>4, <2>2, <4>1 DEF U!Grayed
      <4> QED BY <1>1, <1>2, <1>7, <2>2, <3>2, <4>2 DEF U!ClosureMarked
    <3> QED BY <3>1, <3>2
  <2>3. CASE ~U!IsOpen(w)
    <3>1. U!Grayed(U!ValueOf(w))
      BY <2>1, <2>3 DEF U!ClosureMarked
    <3> QED BY <1>1, <1>2, <1>3, <1>7, <2>3, <3>1 DEF U!ClosureMarked, U!Grayed
  <2> QED BY <2>2, <2>3
<1> QED BY <1>6, <1>7

\* What Marking says of a thread that is not traversed stays true.
LEMMA ThreadStaysMarked ==
  ASSUME U!TypeOK, UNCHANGED <<stack, openupval>>, MoreGrayed, gcstate' = gcstate, twups \subseteq twups',
         NEW t \in U!Threads, U!ThreadMarked(t), Coloured(t),
         t \in gray \cup grayagain => t \in gray' \cup grayagain'
  PROVE  U!ThreadMarked(t)'
<1>1. CASE color[t] = "white"
  BY <1>1 DEF Coloured, U!ThreadMarked
<1>2. CASE t \in gray \cup grayagain
  BY <1>2 DEF U!ThreadMarked
<1>3. CASE color[t] # "white" /\ t \notin gray \cup grayagain
  <2>1. gcstate = "insideatomic" /\ U!Listed(t) /\ \A l \in Levels : U!Grayed(stack[t][l])
    BY <1>3 DEF U!ThreadMarked
  <2>2. \A l \in Levels : U!Grayed(stack[t][l])'
    BY <2>1 DEF MoreGrayed, U!Grayed
  <2>3. U!Listed(t)'
    BY <2>1 DEF U!Listed
  <2> QED BY <2>1, <2>2, <2>3 DEF U!ThreadMarked
<1> QED BY <1>1, <1>2, <1>3

\* While marking, what an object that is not freed refers to is not freed.
LEMMA RefsAlive ==
  ASSUME U!IInv, gcstate \in {"propagate", "insideatomic"}
  PROVE  /\ dead = {}
         /\ \A o \in alive : o \in U!Objs /\ U!Refs(o) \subseteq alive
         /\ \A c \in alive \cap Closures : {U!ValueOf(upvals[c])} \cap U!Objs \subseteq alive
         /\ \A t \in alive \cap U!Threads, l \in Levels : {stack[t][l]} \cap U!Objs \subseteq alive
<1>1. dead = {} /\ \A o \in alive : o \in U!Objs /\ U!Refs(o) \subseteq alive
  BY DEF U!IInv, U!NoDangling, U!TypeOK
<1> QED BY <1>1, Kinds DEF U!Refs

\* traverseLclosure keeps the invariant.
LEMMA LclosureKeeps ==
  ASSUME U!IInv, NEW c \in gray, c \notin U!Threads, gcstate \in {"propagate", "insideatomic"},
         U!TraverseLclosure(c), U!Collect, UNCHANGED <<alive, gcstate, dead, age, cycles>>
  PROVE  U!IInv'
<1> DEFINE w == upvals[c]
<1>0. U!TypeOK /\ U!UpvaluesCounted /\ U!InPlace /\ U!NoDangling /\ U!AllListed /\ U!Marking
  BY DEF U!IInv
<1>1. c \in alive \cap Closures /\ c \in U!Objs /\ w \in UpVals
  BY <1>0, Kinds DEF U!TypeOK, U!Marking, U!InPlace
<1>2. /\ UNCHANGED <<stack, openupval, upvals, alive, gcstate, dead, grayagain, twups>>
      /\ color' \in [U!Objs -> {"white", "gray", "black"}] /\ gray' \subseteq U!Objs
      /\ color'[c] = "black"
      /\ \A o \in U!Objs \ {c} : Coloured(o) /\ (o \in gray => o \in gray')
      /\ gray' \subseteq gray \cup ({U!ValueOf(w)} \cap U!Objs)
      /\ U!IsOpen(w) /\ gcstate = "propagate" => uv'[w].touched
      /\ ~(U!IsOpen(w) /\ gcstate = "propagate") => \A v \in U!Objs : v = U!ValueOf(w) => color'[v] # "white"
      /\ uv' \in [UpVals -> U!UpVal]
      /\ \A x \in UpVals : ButTouched(x) /\ (uv[x].touched => uv'[x].touched)
  <2>1. CASE U!IsOpen(w) /\ gcstate # "insideatomic"
    <3>1. /\ uv' = [uv EXCEPT ![w].touched = TRUE] /\ color' = [color EXCEPT ![c] = "black"] /\ gray' = gray \ {c}
          /\ UNCHANGED <<grayagain, twups>>
      BY <2>1 DEF U!TraverseLclosure
    <3>2. uv' \in [UpVals -> U!UpVal] /\ \A x \in UpVals : ButTouched(x) /\ (uv[x].touched => uv'[x].touched)
      <4>1. \A x \in UpVals : uv'[x] = IF x = w THEN [uv[x] EXCEPT !.touched = TRUE] ELSE uv[x]
        BY <1>0, <1>1, <3>1 DEF U!TypeOK
      <4>2. ASSUME NEW x \in UpVals
            PROVE  uv'[x] \in U!UpVal /\ ButTouched(x) /\ (uv[x].touched => uv'[x].touched)
        <5>1. uv[x] \in U!UpVal
          BY <1>0 DEF U!TypeOK
        <5>2. CASE x # w
          BY <4>1, <5>1, <5>2 DEF ButTouched
        <5>3. CASE x = w
          <6>1. uv'[x] = [uv[x] EXCEPT !.touched = TRUE]
            BY <4>1, <5>3
          <6> QED BY <5>1, <6>1 DEF ButTouched, U!UpVal
        <5> QED BY <5>2, <5>3
      <4>3. uv' \in [UpVals -> U!UpVal]
        BY <1>0, <3>1, <4>2 DEF U!TypeOK
      <4> QED BY <4>2, <4>3
    <3>3. uv'[w].touched
      BY <1>0, <1>1, <3>1 DEF U!TypeOK, U!UpVal
    <3>4. color' \in [U!Objs -> {"white", "gray", "black"}] /\ color'[c] = "black"
      BY <1>0, <1>1, <3>1 DEF U!TypeOK
    <3>5. \A o \in U!Objs \ {c} : Coloured(o) /\ (o \in gray => o \in gray')
      BY <1>0, <3>1 DEF U!TypeOK, Coloured
    <3>6. gray' \subseteq gray /\ gray \subseteq U!Objs
      BY <1>0, <3>1 DEF U!TypeOK
    <3>7. gcstate = "propagate"
      BY <2>1
    <3> QED BY <2>1, <3>1, <3>2, <3>3, <3>4, <3>5, <3>6, <3>7 DEF U!Collect
  <2>2. CASE ~(U!IsOpen(w) /\ gcstate # "insideatomic")
    <3>1. /\ color' = [[o \in U!Objs |-> IF o = U!ValueOf(w) /\ U!White(o) THEN "gray" ELSE color[o]]
                         EXCEPT ![c] = "black"]
          /\ gray' = (gray \ {c}) \cup {o \in {U!ValueOf(w)} : U!White(o)}
          /\ UNCHANGED <<uv, grayagain, twups>>
      BY <2>2 DEF U!TraverseLclosure
    <3>2. color' \in [U!Objs -> {"white", "gray", "black"}] /\ color'[c] = "black"
      BY <1>0, <1>1, <3>1 DEF U!TypeOK
    <3>3. \A o \in U!Objs \ {c} : color'[o] = IF o = U!ValueOf(w) /\ U!White(o) THEN "gray" ELSE color[o]
      BY <1>1, <3>1
    <3>4. \A o \in U!Objs \ {c} : Coloured(o) /\ (o \in gray => o \in gray')
      BY <3>1, <3>3 DEF Coloured, U!White
    <3>5. gray' \subseteq gray \cup ({U!ValueOf(w)} \cap U!Objs)
      BY <3>1 DEF U!White
    <3>6. \A v \in U!Objs : v = U!ValueOf(w) => color'[v] # "white"
      BY <3>2, <3>3 DEF U!White
    <3>7. uv' \in [UpVals -> U!UpVal] /\ \A x \in UpVals : ButTouched(x) /\ (uv[x].touched => uv'[x].touched)
      BY <1>0, <3>1 DEF U!TypeOK, ButTouched
    <3> QED BY <1>0, <2>2, <3>1, <3>2, <3>4, <3>5, <3>6, <3>7 DEF U!TypeOK, U!Collect
  <2> QED BY <2>1, <2>2
<1>3. Steady
  BY <1>2 DEF Steady
<1>4. U!UpvaluesCounted' /\ U!InPlace'
  BY <1>0, <1>3, SteadyCounted
<1>5. U!TypeOK'
  BY <1>0, <1>2 DEF U!TypeOK
<1>6. U!NoDangling'
  BY <1>0, <1>2, <1>3, SteadyDangling DEF U!NoDangling
<1>7. U!Marking'
  <2>1. MoreGrayed
    <3>1. \A v \in U!Objs \ {c} : color[v] # "white" => color'[v] # "white"
      BY <1>2 DEF Coloured
    <3> QED BY <1>2, <3>1 DEF MoreGrayed, U!Grayed
  <2>2. U!Grayed(Main)'
    BY <1>0, <2>1, Kinds DEF MoreGrayed, U!Marking
  <2>3. gray' \subseteq alive
    <3>1. {U!ValueOf(w)} \cap U!Objs \subseteq alive
      BY <1>1, RefsAlive
    <3> QED BY <1>0, <1>2, <3>1 DEF U!Marking
  <2>4. grayagain' \subseteq alive \cap U!Threads
    BY <1>0, <1>2 DEF U!Marking
  <2>5. ASSUME NEW d \in alive \cap Closures PROVE U!ClosureMarked(d)'
    <3>1. CASE d = c
      <4>1. (U!IsOpen(w)' <=> U!IsOpen(w)) /\ U!ValueOf(w)' = U!ValueOf(w) /\ upvals' = upvals
        BY <1>1, <1>2, <1>3, <1>0, SteadyValues
      <4>2. CASE U!IsOpen(w) /\ gcstate = "propagate"
        BY <1>2, <3>1, <4>1, <4>2 DEF U!ClosureMarked
      <4>3. CASE ~(U!IsOpen(w) /\ gcstate = "propagate")
        <5>1. U!Grayed(U!ValueOf(w))'
          BY <1>2, <4>1, <4>3 DEF U!Grayed
        <5> QED BY <1>2, <3>1, <4>1, <4>3, <5>1 DEF U!ClosureMarked
      <4> QED BY <4>2, <4>3
    <3>2. CASE d # c
      <4>1. U!ClosureMarked(d) /\ Coloured(d) /\ (d \in gray => d \in gray')
        BY <1>0, <1>2, <3>2, Kinds DEF U!Marking
      <4> QED BY <1>0, <1>2, <1>3, <2>1, <4>1, ClosureStaysMarked
    <3> QED BY <3>1, <3>2
  <2>6. ASSUME NEW t \in alive \cap U!Threads PROVE U!ThreadMarked(t)'
    <3>1. t \in U!Objs \ {c}
      BY <1>1, Kinds
    <3>2. U!ThreadMarked(t) /\ Coloured(t)
      BY <1>0, <1>2, <3>1 DEF U!Marking
    <3>3. t \in gray \cup grayagain => t \in gray' \cup grayagain'
      BY <1>2, <3>1
    <3> QED BY <1>0, <1>2, <2>1, <3>2, <3>3, ThreadStaysMarked
  <2> QED BY <1>2, <2>2, <2>3, <2>4, <2>5, <2>6 DEF U!Marking
<1>8. U!AllListed'
  BY <1>0, <1>2 DEF U!AllListed, U!Listed
<1> QED BY <1>4, <1>5, <1>6, <1>7, <1>8 DEF U!IInv

\* traversethread keeps the invariant.
LEMMA ThreadKeeps ==
  ASSUME U!IInv, NEW t \in gray, t \in U!Threads, gcstate \in {"propagate", "insideatomic"},
         U!TraverseThread(t), U!Collect, UNCHANGED <<alive, gcstate, dead, age, cycles>>
  PROVE  U!IInv'
<1> DEFINE vs == {stack[t][l] : l \in Levels}
<1>0. U!TypeOK /\ U!UpvaluesCounted /\ U!InPlace /\ U!NoDangling /\ U!AllListed /\ U!Marking
  BY DEF U!IInv
<1>1. t \in alive \cap U!Threads /\ t \in U!Objs
  BY <1>0, Kinds DEF U!Marking
<1>2. /\ UNCHANGED <<stack, openupval, upvals, alive, gcstate, dead, uv>>
      /\ color' = [o \in U!Objs |-> IF o \in vs /\ U!White(o) THEN "gray" ELSE color[o]]
      /\ gray' = (gray \ {t}) \cup {v \in vs : U!White(v)}
      /\ grayagain' = IF gcstate = "propagate" THEN grayagain \cup {t} ELSE grayagain
      /\ twups' = U!Relisted(t)
  BY DEF U!TraverseThread, U!Collect
<1> HIDE DEF vs
<1>3. Steady
  BY <1>0, <1>2 DEF Steady, ButTouched, U!TypeOK
<1>4. /\ color' \in [U!Objs -> {"white", "gray", "black"}]
      /\ \A o \in U!Objs : Coloured(o)
      /\ \A o \in U!Objs : o \in vs => color'[o] # "white"
      /\ MoreGrayed
  <2>1. \A o \in U!Objs : color'[o] = IF o \in vs /\ U!White(o) THEN "gray" ELSE color[o]
    BY <1>2
  <2>2. color' \in [U!Objs -> {"white", "gray", "black"}]
    BY <1>0, <1>2 DEF U!TypeOK
  <2>3. \A o \in U!Objs : Coloured(o)
    BY <2>1, <1>2 DEF Coloured, U!White
  <2>4. \A o \in U!Objs : o \in vs => color'[o] # "white"
    BY <2>1 DEF U!White
  <2> QED BY <2>2, <2>3, <2>4 DEF MoreGrayed, U!Grayed, Coloured
<1>5. gray' \subseteq gray \cup (vs \cap U!Objs) /\ vs \cap U!Objs \subseteq alive
  <2>1. gray' \subseteq gray \cup (vs \cap U!Objs)
    BY <1>2 DEF U!White
  <2>2. \A l \in Levels : {stack[t][l]} \cap U!Objs \subseteq alive
    BY <1>1, RefsAlive
  <2> QED BY <2>1, <2>2 DEF vs
<1>6. /\ twups \subseteq twups' /\ twups' \subseteq U!Threads
      /\ gcstate = "propagate" => twups' = twups
      /\ gcstate = "insideatomic" => U!Listed(t)'
  BY <1>0, <1>1, <1>2 DEF U!Relisted, U!TypeOK, U!Listed
<1>7. U!UpvaluesCounted' /\ U!InPlace'
  BY <1>0, <1>3, SteadyCounted
<1>8. U!TypeOK'
  BY <1>0, <1>1, <1>2, <1>4, <1>5, <1>6 DEF U!TypeOK
<1>9. U!NoDangling'
  BY <1>0, <1>2, <1>3, SteadyDangling DEF U!NoDangling
<1>10. U!Marking'
  <2>1. U!Grayed(Main)'
    BY <1>0, <1>4, Kinds DEF MoreGrayed, U!Marking
  <2>2. gray' \subseteq alive /\ grayagain' \subseteq alive \cap U!Threads
    BY <1>0, <1>1, <1>2, <1>5 DEF U!Marking
  <2>3. ASSUME NEW c \in alive \cap Closures PROVE U!ClosureMarked(c)'
    <3>1. c # t /\ c \in U!Objs
      BY <1>1, Kinds
    <3>2. U!ClosureMarked(c) /\ Coloured(c) /\ (c \in gray => c \in gray')
      BY <1>0, <1>2, <1>4, <3>1 DEF U!Marking
    <3> QED BY <1>0, <1>2, <1>3, <1>4, <3>2, ClosureStaysMarked
  <2>4. ASSUME NEW o \in alive \cap U!Threads PROVE U!ThreadMarked(o)'
    <3>0. o \in U!Objs
      BY Kinds
    <3>1. CASE o = t /\ gcstate = "propagate"
      BY <1>2, <3>1 DEF U!ThreadMarked
    <3>2. CASE o = t /\ gcstate = "insideatomic"
      <4>1. \A l \in Levels : U!Grayed(stack[t][l])'
        BY <1>2, <1>4 DEF vs, U!Grayed
      <4> QED BY <1>2, <1>6, <3>2, <4>1 DEF U!ThreadMarked
    <3>3. CASE o # t
      <4>1. U!ThreadMarked(o) /\ Coloured(o)
        BY <1>0, <1>4, <3>0 DEF U!Marking
      <4>2. o \in gray \cup grayagain => o \in gray' \cup grayagain'
        BY <1>2, <3>3
      <4> QED BY <1>0, <1>2, <1>4, <1>6, <4>1, <4>2, ThreadStaysMarked
    <3> QED BY <3>1, <3>2, <3>3
  <2> QED BY <1>2, <2>1, <2>2, <2>3, <2>4 DEF U!Marking
<1>11. U!AllListed'
  BY <1>0, <1>2, <1>6 DEF U!AllListed, U!Listed
<1> QED BY <1>7, <1>8, <1>9, <1>10, <1>11 DEF U!IInv

\* propagatemark keeps the invariant.
LEMMA PropagateKeeps ==
  ASSUME U!IInv, U!PropagateMark
  PROVE  U!IInv'
<1>1. /\ gcstate \in {"propagate", "insideatomic"} /\ U!Collect
      /\ UNCHANGED <<alive, gcstate, dead, age, cycles>>
  BY DEF U!PropagateMark
<1>2. PICK o \in gray : IF o \in U!Threads THEN U!TraverseThread(o) ELSE U!TraverseLclosure(o)
  BY DEF U!PropagateMark
<1>3. CASE o \in U!Threads
  BY <1>1, <1>2, <1>3, ThreadKeeps
<1>4. CASE o \notin U!Threads
  BY <1>1, <1>2, <1>4, LclosureKeeps
<1> QED BY <1>3, <1>4

\* An open upvalue is in the list of its thread.
LEMMA OpenListed ==
  ASSUME U!UpvaluesCounted, U!InPlace, NEW w \in UpVals, U!IsOpen(w)
  PROVE  openupval[uv[w].th] # <<>>
<1>1. uv[w].th \in U!Threads
  BY DEF U!InPlace
<1>2. ListRight(uv[w].th)
  BY <1>1, Counted
<1> QED BY <1>2 DEF ListRight

\* remarkupvals keeps the invariant: a closure that was traversed before atomic
\* has a touched upvalue, whose value is marked here or with its thread.
LEMMA RemarkKeeps ==
  ASSUME U!IInv, U!RemarkUpvals
  PROVE  U!IInv'
<1> DEFINE stay == {t \in twups : color[t] # "white" /\ openupval[t] # <<>>}
           seen == {w \in UpVals : U!IsOpen(w) /\ uv[w].th \in twups \ stay /\ uv[w].touched}
           vs   == {U!ValueOf(w) : w \in seen}
<1>0. U!TypeOK /\ U!UpvaluesCounted /\ U!InPlace /\ U!NoDangling /\ U!AllListed /\ U!Marking
  BY DEF U!IInv
<1>1. /\ gcstate = "propagate" /\ gray = {} /\ gcstate' = "insideatomic" /\ twups' = stay
      /\ uv' = [w \in UpVals |-> IF w \in seen THEN U!Untouched(w) ELSE uv[w]]
      /\ UNCHANGED <<stack, openupval, upvals, alive, grayagain, dead>>
      /\ color' = [o \in U!Objs |-> IF o \in vs /\ U!White(o) THEN "gray" ELSE color[o]]
      /\ gray' = gray \cup {v \in vs : U!White(v)}
  BY DEF U!RemarkUpvals, U!Collect, U!MarkAll
<1>2. stay \subseteq twups /\ \A t \in twups : color[t] # "white" /\ openupval[t] # <<>> => t \in stay
  OBVIOUS
<1>3. /\ \A t \in stay : color[t] # "white"
      /\ \A w \in UpVals : U!IsOpen(w) /\ uv[w].th \in twups \ stay /\ uv[w].touched => w \in seen
      /\ \A w \in seen : w \in UpVals /\ U!IsOpen(w)
  OBVIOUS
<1> HIDE DEF stay, seen
<1>4. ASSUME NEW w \in UpVals
      PROVE  uv'[w] \in U!UpVal /\ ButTouched(w)
  <2>1. uv[w] \in U!UpVal
    BY <1>0 DEF U!TypeOK
  <2>2. uv'[w] = uv[w] \/ uv'[w] = [uv[w] EXCEPT !.touched = FALSE]
    BY <1>1 DEF U!Untouched
  <2> QED BY <2>1, <2>2 DEF ButTouched, U!UpVal
<1>5. Steady
  BY <1>1, <1>4 DEF Steady
<1>6. /\ color' \in [U!Objs -> {"white", "gray", "black"}]
      /\ \A o \in U!Objs : Coloured(o)
      /\ \A o \in U!Objs : o \in vs => color'[o] # "white"
      /\ MoreGrayed
  <2> HIDE DEF vs
  <2>1. \A o \in U!Objs : color'[o] = IF o \in vs /\ U!White(o) THEN "gray" ELSE color[o]
    BY <1>1
  <2>2. color' \in [U!Objs -> {"white", "gray", "black"}]
    BY <1>0, <1>1 DEF U!TypeOK
  <2>3. \A o \in U!Objs : Coloured(o)
    BY <2>1, <1>1 DEF Coloured, U!White
  <2>4. \A o \in U!Objs : o \in vs => color'[o] # "white"
    BY <2>1 DEF U!White
  <2> QED BY <2>2, <2>3, <2>4 DEF MoreGrayed, U!Grayed, Coloured
<1>7. gray' \subseteq vs \cap U!Objs /\ vs \cap U!Objs \subseteq alive
  <2>1. gray' \subseteq vs \cap U!Objs
    BY <1>1 DEF U!White
  <2>2. ASSUME NEW w \in seen PROVE {U!ValueOf(w)} \cap U!Objs \subseteq alive
    <3>1. uv[w].th \in alive \cap U!Threads /\ uv[w].level \in Levels /\ U!ValueOf(w) = stack[uv[w].th][uv[w].level]
      BY <1>0, <1>3 DEF U!InPlace, U!ValueOf
    <3> QED BY <1>1, <3>1, RefsAlive
  <2> QED BY <2>1, <2>2
<1>8. U!UpvaluesCounted' /\ U!InPlace'
  BY <1>0, <1>5, SteadyCounted
<1>9. U!TypeOK'
  <2>1. uv' \in [UpVals -> U!UpVal]
    BY <1>1, <1>4
  <2> QED BY <1>0, <1>1, <1>2, <1>6, <1>7, <2>1 DEF U!TypeOK
<1>10. U!NoDangling'
  BY <1>0, <1>1, <1>5, SteadyDangling DEF U!NoDangling
<1>11. U!Marking'
  <2>1. U!Grayed(Main)'
    BY <1>0, <1>1, <1>6, Kinds DEF MoreGrayed, U!Marking
  <2>2. gray' \subseteq alive /\ grayagain' \subseteq alive \cap U!Threads
    BY <1>0, <1>1, <1>7 DEF U!Marking
  <2>3. ASSUME NEW c \in alive \cap Closures PROVE U!ClosureMarked(c)'
    <3> DEFINE w == upvals[c]
    <3>1. c \in U!Objs /\ w \in UpVals /\ upvals' = upvals /\ U!ClosureMarked(c) /\ Coloured(c)
      BY <1>0, <1>1, <1>6, Kinds DEF U!InPlace, U!Marking
    <3>2. color[c] # "gray"
      BY <1>1, <3>1 DEF U!ClosureMarked
    <3>3. CASE color[c] = "white"
      BY <3>1, <3>3 DEF Coloured, U!ClosureMarked
    <3>4. CASE color[c] = "black" /\ ~U!IsOpen(w)
      <4>1. color'[c] = "black" /\ ~U!IsOpen(w)' /\ U!ValueOf(w)' = U!ValueOf(w)
        BY <1>0, <1>5, <3>1, <3>4, SteadyValues DEF Coloured
      <4>2. U!Grayed(U!ValueOf(w))
        BY <3>1, <3>4 DEF U!ClosureMarked
      <4>3. U!Grayed(U!ValueOf(w))'
        BY <1>6, <3>1, <4>1, <4>2 DEF MoreGrayed, U!Grayed
      <4> QED BY <3>1, <4>1, <4>3 DEF U!ClosureMarked
    <3>5. CASE color[c] = "black" /\ U!IsOpen(w)
      <4>1. color'[c] = "black" /\ U!IsOpen(w)' /\ U!ValueOf(w)' = U!ValueOf(w) /\ uv'[w].th = uv[w].th
        BY <1>0, <1>4, <1>5, <3>1, <3>5, SteadyValues DEF Coloured, ButTouched
      <4>2. uv[w].touched
        BY <1>1, <3>1, <3>5 DEF U!ClosureMarked
      <4>3. uv[w].th \in twups /\ uv[w].th \in U!Objs
        <5>1. uv[w].th \in alive \cap U!Threads /\ openupval[uv[w].th] # <<>>
          BY <1>0, <3>1, <3>5, OpenListed DEF U!InPlace
        <5>2. U!Listed(uv[w].th)
          BY <1>0, <1>1, <5>1, RefsAlive DEF U!AllListed
        <5> QED BY <5>1, <5>2, Kinds DEF U!Listed
      <4>4. U!Grayed(U!ValueOf(w))' \/ U!Grayed(uv[w].th)'
        <5>1. CASE uv[w].th \in stay
          <6>1. color[uv[w].th] # "white"
            BY <1>3, <5>1
          <6>2. color'[uv[w].th] # "white"
            BY <1>6, <4>3, <6>1 DEF MoreGrayed, U!Grayed
          <6> QED BY <3>1, <4>1, <6>2 DEF U!Grayed
        <5>2. CASE uv[w].th \notin stay
          <6>1. U!ValueOf(w) \in vs
            BY <1>3, <3>1, <3>5, <4>2, <4>3, <5>2
          <6> HIDE DEF vs
          <6> QED BY <1>6, <3>1, <4>1, <6>1 DEF U!Grayed
        <5> QED BY <5>1, <5>2
      <4> QED BY <1>1, <3>1, <4>1, <4>4 DEF U!ClosureMarked
    <3> QED BY <1>0, <3>1, <3>2, <3>3, <3>4, <3>5 DEF U!TypeOK
  <2>4. ASSUME NEW t \in alive \cap U!Threads PROVE U!ThreadMarked(t)'
    <3>1. U!ThreadMarked(t) /\ Coloured(t)
      BY <1>0, <1>1, <1>6, Kinds DEF U!Marking
    <3>2. color[t] = "white" \/ t \in grayagain
      BY <1>1, <3>1 DEF U!ThreadMarked
    <3> QED BY <1>1, <3>1, <3>2 DEF U!ThreadMarked, Coloured
  <2> QED BY <1>1, <2>1, <2>2, <2>3, <2>4 DEF U!Marking
<1>12. U!AllListed'
  BY <1>1 DEF U!AllListed
<1> QED BY <1>8, <1>9, <1>10, <1>11, <1>12 DEF U!IInv

\* Traversing grayagain keeps the invariant.
LEMMA GrayAgainKeeps ==
  ASSUME U!IInv, U!GrayAgain
  PROVE  U!IInv'
<1>0. U!TypeOK /\ U!UpvaluesCounted /\ U!InPlace /\ U!NoDangling /\ U!AllListed /\ U!Marking
  BY DEF U!IInv
<1>1. /\ gcstate = "insideatomic" /\ gcstate' = gcstate /\ gray = {} /\ gray' = grayagain /\ grayagain' = {}
      /\ UNCHANGED <<stack, openupval, upvals, alive, uv, twups, color, dead>>
  BY DEF U!GrayAgain, U!Collect
<1>2. Steady
  BY <1>0, <1>1 DEF Steady, ButTouched, U!TypeOK
<1>3. U!UpvaluesCounted' /\ U!InPlace'
  BY <1>0, <1>2, SteadyCounted
<1>4. U!TypeOK'
  BY <1>0, <1>1 DEF U!TypeOK
<1>5. U!NoDangling'
  BY <1>0, <1>1, <1>2, SteadyDangling DEF U!NoDangling
<1>6. MoreGrayed
  BY <1>1 DEF MoreGrayed, U!Grayed
<1>7. U!Marking'
  <2>1. U!Grayed(Main)'
    BY <1>0, <1>1, <1>6, Kinds DEF MoreGrayed, U!Marking
  <2>2. gray' \subseteq alive /\ grayagain' \subseteq alive \cap U!Threads
    BY <1>0, <1>1 DEF U!Marking
  <2>3. ASSUME NEW c \in alive \cap Closures PROVE U!ClosureMarked(c)'
    <3>1. U!ClosureMarked(c) /\ Coloured(c)
      BY <1>0, <1>1 DEF U!Marking, Coloured
    <3> QED BY <1>0, <1>1, <1>2, <1>6, <3>1, ClosureStaysMarked
  <2>4. ASSUME NEW t \in alive \cap U!Threads PROVE U!ThreadMarked(t)'
    <3>1. U!ThreadMarked(t) /\ Coloured(t)
      BY <1>0, <1>1 DEF U!Marking, Coloured
    <3> QED BY <1>0, <1>1, <1>6, <3>1, ThreadStaysMarked
  <2> QED BY <1>1, <2>1, <2>2, <2>3, <2>4 DEF U!Marking
<1>8. U!AllListed'
  BY <1>0, <1>1 DEF U!AllListed, U!Listed
<1> QED BY <1>3, <1>4, <1>5, <1>7, <1>8 DEF U!IInv

\* The end of atomic keeps the invariant: when nothing is gray, what is marked
\* refers only to what is marked.
LEMMA EndAtomicKeeps ==
  ASSUME U!IInv, U!EndAtomic
  PROVE  U!IInv'
<1>0. U!TypeOK /\ U!UpvaluesCounted /\ U!InPlace /\ U!NoDangling /\ U!AllListed /\ U!Marking
  BY DEF U!IInv
<1>1. /\ gcstate = "insideatomic" /\ gcstate' = "sweep" /\ gray = {} /\ grayagain = {}
      /\ dead' = {o \in alive : U!White(o)}
      /\ UNCHANGED <<stack, openupval, upvals, alive, uv, twups, color, gray, grayagain>>
  BY DEF U!EndAtomic, U!Collect
<1>2. Steady
  BY <1>0, <1>1 DEF Steady, ButTouched, U!TypeOK
<1>3. U!UpvaluesCounted' /\ U!InPlace'
  BY <1>0, <1>2, SteadyCounted
<1>4. U!TypeOK'
  BY <1>0, <1>1 DEF U!TypeOK
<1>5. \A o \in alive : o \in dead' <=> color[o] = "white"
  BY <1>0, <1>1 DEF U!White, U!TypeOK
<1>6. ASSUME NEW t \in alive \cap U!Threads, color[t] # "white"
      PROVE  U!Listed(t) /\ \A l \in Levels : U!Grayed(stack[t][l])
  BY <1>0, <1>1, <1>6 DEF U!Marking, U!ThreadMarked
<1>7. U!NoDangling'
  <2>1. Main \in alive /\ color[Main] # "white"
    BY <1>0, <1>1, Kinds DEF U!NoDangling, U!Marking, U!Grayed
  <2>2. ASSUME NEW o \in alive \ dead'
        PROVE  U!Refs(o)' \subseteq alive \ dead'
    <3>1. o \in U!Objs /\ color[o] # "white" /\ U!Refs(o) \subseteq alive /\ U!Refs(o)' = U!Refs(o)
      BY <1>0, <1>1, <1>2, <1>5, SteadyValues, RefsAlive
    <3>2. CASE o \in U!Threads
      <4>1. \A l \in Levels : U!Grayed(stack[o][l])
        BY <1>6, <3>1, <3>2
      <4>2. \A v \in U!Refs(o) : color[v] # "white"
        BY <3>2, <4>1 DEF U!Refs, U!Grayed
      <4> QED BY <1>5, <3>1, <4>2
    <3>3. CASE o \notin U!Threads
      <4> DEFINE w == upvals[o]
      <4>1. o \in alive \cap Closures /\ w \in UpVals /\ U!ClosureMarked(o)
        BY <1>0, <1>1, <3>1, <3>3, Kinds DEF U!InPlace, U!Marking
      <4>2. color[o] = "black"
        BY <1>0, <1>1, <3>1, <4>1 DEF U!ClosureMarked, U!TypeOK
      <4>3. U!Grayed(U!ValueOf(w))
        <5>1. CASE ~U!IsOpen(w)
          BY <4>1, <4>2, <5>1 DEF U!ClosureMarked
        <5>2. CASE U!IsOpen(w)
          <6>1. U!Grayed(U!ValueOf(w)) \/ U!Grayed(uv[w].th)
            BY <1>1, <4>1, <4>2, <5>2 DEF U!ClosureMarked
          <6>2. uv[w].th \in alive \cap U!Threads /\ uv[w].level \in Levels
            BY <1>0, <4>1, <5>2 DEF U!InPlace
          <6>3. U!Grayed(uv[w].th) => U!Grayed(stack[uv[w].th][uv[w].level])
            BY <1>6, <6>2, Kinds DEF U!Grayed
          <6> QED BY <5>2, <6>1, <6>3 DEF U!ValueOf
        <5> QED BY <5>1, <5>2
      <4>4. \A v \in U!Refs(o) : color[v] # "white"
        BY <3>3, <4>3 DEF U!Refs, U!Grayed
      <4> QED BY <1>5, <3>1, <4>4
    <3> QED BY <3>2, <3>3
  <2> QED BY <1>1, <1>5, <2>1, <2>2 DEF U!NoDangling
<1>8. U!Marking'
  BY <1>1 DEF U!Marking
<1>9. U!AllListed'
  BY <1>1, <1>5, <1>6 DEF U!AllListed, U!Listed
<1> QED BY <1>3, <1>4, <1>7, <1>8, <1>9 DEF U!IInv

\* The end of the sweep keeps the invariant.
LEMMA EndSweepKeeps ==
  ASSUME U!IInv, U!EndSweep
  PROVE  U!IInv'
<1>0. U!TypeOK /\ U!UpvaluesCounted /\ U!InPlace /\ U!NoDangling /\ U!AllListed
  BY DEF U!IInv
<1>1. /\ gcstate = "sweep" /\ gcstate' = "pause" /\ dead = {}
      /\ UNCHANGED <<stack, openupval, upvals, alive, uv, twups, color, gray, grayagain, dead>>
  BY DEF U!EndSweep, U!Collect
<1>2. Steady
  BY <1>0, <1>1 DEF Steady, ButTouched, U!TypeOK
<1>3. U!UpvaluesCounted' /\ U!InPlace'
  BY <1>0, <1>2, SteadyCounted
<1>4. U!TypeOK'
  BY <1>0, <1>1 DEF U!TypeOK
<1>5. U!NoDangling'
  BY <1>0, <1>1, <1>2, SteadyDangling DEF U!NoDangling
<1>6. U!Marking' /\ U!AllListed'
  BY <1>0, <1>1 DEF U!Marking, U!AllListed, U!Listed
<1> QED BY <1>3, <1>4, <1>5, <1>6 DEF U!IInv

-----------------------------------------------------------------------------
(* Closing and freeing.                                                    *)

\* Sets of objects are finite.
LEMMA HoldersFinite ==
  ASSUME NEW T, T \subseteq U!Objs
  PROVE  IsFiniteSet(T) /\ U!Cardinality(T) \in Nat
BY UpvalAssumption, FS_Subset, FS_CardinalityType, SameCardinality

\* One more closure counts one more.
LEMMA OneMore ==
  ASSUME NEW T, T \subseteq U!Objs, NEW c \in U!Objs, c \notin T
  PROVE  U!Cardinality(T \cup {c}) = U!Cardinality(T) + 1
<1>1. IsFiniteSet(T)
  BY HoldersFinite
<1>2. Cardinality(T \cup {c}) = Cardinality(T) + 1
  BY <1>1, FS_AddElement
<1> QED BY <1>2, SameCardinality

\* One closure less counts one less, and the last leaves none.
LEMMA OneLess ==
  ASSUME NEW T, T \subseteq U!Objs, NEW c \in T
  PROVE  /\ U!Cardinality(T) \in Nat /\ U!Cardinality(T) >= 1
         /\ U!Cardinality(T \ {c}) = U!Cardinality(T) - 1
         /\ U!Cardinality(T) = 1 => T = {c}
<1>1. IsFiniteSet(T) /\ T \ {c} \subseteq U!Objs /\ c \in U!Objs
  BY HoldersFinite
<1>2. Cardinality(T \ {c}) = Cardinality(T) - 1
  BY <1>1, FS_RemoveElement
<1>3. Cardinality(T \ {c}) \in Nat /\ Cardinality(T) \in Nat /\ IsFiniteSet(T \ {c})
  BY <1>1, HoldersFinite, SameCardinality
<1>4. Cardinality(T \ {c}) = 0 => T \ {c} = {}
  BY <1>3, FS_EmptySet
<1>5. Cardinality(T) >= 1 /\ (Cardinality(T) = 1 => Cardinality(T \ {c}) = 0)
  BY <1>2, <1>3
<1> QED BY <1>2, <1>3, <1>4, <1>5, SameCardinality

\* A list stays right when its upvalues stay as they are.
LEMMA ListStays ==
  ASSUME U!TypeOK, NEW t \in U!Threads, ListRight(t), openupval'[t] = openupval[t],
         \A w \in UpVals : (U!IsOpen(w) /\ uv[w].th = t) <=> (U!IsOpen(w)' /\ uv'[w].th = t),
         \A w \in UpVals : U!IsOpen(w) /\ uv[w].th = t => uv'[w].level = uv[w].level
  PROVE  ListRight(t)'
<1>1. {w \in UpVals : U!IsOpen(w)' /\ uv'[w].th = t} = {w \in UpVals : U!IsOpen(w) /\ uv[w].th = t}
  OBVIOUS
<1>2. \A n \in DOMAIN openupval[t] : LET w == openupval[t][n] IN w \in UpVals /\ U!IsOpen(w) /\ uv[w].th = t
  BY DEF ListRight
<1>3. \A n \in DOMAIN openupval[t] : uv'[openupval[t][n]].level = uv[openupval[t][n]].level
  BY <1>2
<1> QED BY <1>1, <1>3 DEF ListRight

\* What luaF_close makes of an open upvalue.
LEMMA ClosedType ==
  ASSUME NEW v \in U!Objs \cup {U!Nil}, NEW n \in Nat
  PROVE  LET q == [U!Freed EXCEPT !.st = "closed", !.value = v, !.count = n]
         IN  q \in U!UpVal /\ q.st = "closed" /\ q.value = v /\ q.count = n
BY DEF U!UpVal, U!Freed

\* The open upvalues of a thread from a level up.
Closing(t, l) == {w \in UpVals : U!IsOpen(w) /\ uv[w].th = t /\ uv[w].level >= l}

\* What luaF_close does: the upvalues of the thread from the level up, and no
\* others, are closed with the value they had, or freed.
LEMMA CloseFacts ==
  ASSUME U!TypeOK, U!UpvaluesCounted, U!InPlace, NEW t \in U!Threads, NEW l \in Nat, U!Becomes(U!Close(t, l))
  PROVE  /\ twups' = twups
         /\ openupval' \in [U!Threads -> Seq(UpVals)] /\ \A o \in U!Threads \ {t} : openupval'[o] = openupval[o]
         /\ \A w \in UpVals \ Closing(t, l) : uv'[w] = uv[w]
         /\ \A w \in Closing(t, l) : ~U!IsOpen(w)'
         /\ \A w \in Closing(t, l) :
              /\ uv[w].count = 0 => uv'[w].st = "free"
              /\ uv[w].count # 0 => /\ uv'[w].st = "closed" /\ uv'[w].count = uv[w].count
                                    /\ uv'[w].value = stack[t][uv[w].level]
         /\ uv' \in [UpVals -> U!UpVal]
         /\ openupval'[t] # <<>> => openupval[t] # <<>>
         /\ \A o \in U!Threads : ListRight(o)'
<1> DEFINE s == openupval[t]
           k == U!DownTo(t, l)
           closing == {s[n] : n \in 1 .. k}
           Closed(r) == IF r.count = 0 THEN U!Freed
                        ELSE [U!Freed EXCEPT !.st = "closed", !.value = stack[t][r.level], !.count = r.count]
           s2 == SubSeq(s, k + 1, Len(s))
<1>1. /\ twups' = twups
      /\ openupval' = [openupval EXCEPT ![t] = s2]
      /\ uv' = [w \in UpVals |-> IF w \in closing THEN Closed(uv[w]) ELSE uv[w]]
  BY DEF U!Becomes, U!Close, U!State
<1>2. s \in Seq(UpVals) /\ Len(s) \in Nat /\ k \in 0 .. Len(s) /\ DOMAIN s = 1 .. Len(s)
  BY DownToFacts DEF U!TypeOK
<1>3. /\ \A n \in 1 .. k : uv[s[n]].level >= l
      /\ k < Len(s) => uv[s[k + 1]].level < l
  BY DownToFacts
<1>4. ListRight(t)
  BY Counted
<1>5. \A n \in 1 .. Len(s) : s[n] \in UpVals /\ U!IsOpen(s[n]) /\ uv[s[n]].th = t /\ uv[s[n]].level \in Nat
  <2> SUFFICES ASSUME NEW n \in 1 .. Len(s)
               PROVE  s[n] \in UpVals /\ U!IsOpen(s[n]) /\ uv[s[n]].th = t /\ uv[s[n]].level \in Nat
    OBVIOUS
  <2>1. s[n] \in {w \in UpVals : U!IsOpen(w) /\ uv[w].th = t}
    BY <1>2, <1>4 DEF ListRight
  <2>2. s[n] \in UpVals /\ U!IsOpen(s[n]) /\ uv[s[n]].th = t
    BY <2>1
  <2>3. uv[s[n]] \in U!UpVal
    BY <2>2 DEF U!TypeOK
  <2>4. uv[s[n]].level \in Nat
    BY <2>3 DEF U!UpVal
  <2> QED BY <2>2, <2>4
<1>6. \A m, n \in 1 .. Len(s) : m < n => uv[s[m]].level > uv[s[n]].level
  BY <1>2, <1>4 DEF ListRight
<1>7. \A w \in UpVals : U!IsOpen(w) /\ uv[w].th = t => \E n \in 1 .. Len(s) : w = s[n]
  BY <1>2, <1>4 DEF ListRight
<1> HIDE DEF s, k
<1>8. ASSUME NEW n \in k + 1 .. Len(s)
      PROVE  uv[s[n]].level < l
  <2>1. k + 1 \in 1 .. Len(s) /\ n \in 1 .. Len(s) /\ k < Len(s) /\ (n = k + 1 \/ k + 1 < n)
    BY <1>2
  <2>2. uv[s[k + 1]].level < l
    BY <1>3, <2>1
  <2>3. n = k + 1 \/ uv[s[k + 1]].level > uv[s[n]].level
    BY <1>6, <2>1
  <2>4. uv[s[n]].level \in Nat /\ uv[s[k + 1]].level \in Nat
    BY <1>5, <2>1
  <2> QED BY <2>2, <2>3, <2>4
<1>9. \A n \in 1 .. Len(s) : n \in 1 .. k \/ n \in k + 1 .. Len(s)
  BY <1>2
<1>10. closing = Closing(t, l)
  <2>1. \A n \in 1 .. k : s[n] \in Closing(t, l)
    <3>1. \A n \in 1 .. k : n \in 1 .. Len(s)
      BY <1>2
    <3> QED BY <1>3, <1>5, <3>1 DEF Closing
  <2>2. ASSUME NEW w \in Closing(t, l) PROVE w \in closing
    <3>1. PICK n \in 1 .. Len(s) : w = s[n]
      BY <1>7 DEF Closing
    <3>2. ~(n \in k + 1 .. Len(s))
      <4>1. uv[s[n]].level >= l /\ uv[s[n]].level \in Nat
        BY <1>5, <3>1 DEF Closing
      <4> QED BY <1>8, <4>1
    <3> QED BY <1>9, <3>1, <3>2
  <2> QED BY <2>1, <2>2
<1> HIDE DEF closing
<1>11. s2 \in Seq(UpVals) /\ Len(s2) = Len(s) - k /\ \A n \in 1 .. Len(s) - k : s2[n] = s[n + k]
  BY <1>2
<1> HIDE DEF s2
<1>12. DOMAIN s2 = 1 .. Len(s) - k
  <2>1. DOMAIN s2 = 1 .. Len(s2)
    BY <1>11
  <2> QED BY <1>11, <2>1
<1>13. \A w \in Closing(t, l) : uv[w].th = t /\ w \in UpVals /\ uv[w].level \in Levels
  BY DEF Closing, U!InPlace
<1>14. ASSUME NEW w \in UpVals
       PROVE  /\ w \notin Closing(t, l) => uv'[w] = uv[w]
              /\ w \in Closing(t, l) => uv'[w] = Closed(uv[w])
  BY <1>1, <1>10
<1>15. ASSUME NEW w \in UpVals
       PROVE  uv'[w] \in U!UpVal
  <2>1. uv[w] \in U!UpVal
    BY DEF U!TypeOK
  <2>2. CASE w \in Closing(t, l)
    <3>1. stack[t][uv[w].level] \in U!Objs \cup {U!Nil}
      BY <1>13, <2>2 DEF U!TypeOK
    <3>2. uv'[w] = Closed(uv[w])
      BY <1>14, <2>2
    <3>3. U!Freed \in U!UpVal /\ uv[w].count \in Nat
      BY <2>1 DEF U!UpVal, U!Freed
    <3>4. [U!Freed EXCEPT !.st = "closed", !.value = stack[t][uv[w].level], !.count = uv[w].count] \in U!UpVal
      BY <3>1, <3>3, ClosedType
    <3> QED BY <3>2, <3>3, <3>4
  <2>3. CASE w \notin Closing(t, l)
    BY <1>14, <2>1, <2>3
  <2> QED BY <2>2, <2>3
<1>16. ASSUME NEW w \in Closing(t, l) PROVE ~U!IsOpen(w)'
  <2>1. uv'[w] = Closed(uv[w])
    BY <1>13, <1>14
  <2>2. Closed(uv[w]).st # "open"
    BY DEF U!Freed
  <2> QED BY <2>1, <2>2 DEF U!IsOpen
<1>17. ASSUME NEW w \in UpVals \ Closing(t, l)
       PROVE  uv'[w] = uv[w] /\ (U!IsOpen(w)' <=> U!IsOpen(w))
  BY <1>14 DEF U!IsOpen
<1>18. openupval' \in [U!Threads -> Seq(UpVals)] /\ openupval'[t] = s2
        /\ \A o \in U!Threads \ {t} : openupval'[o] = openupval[o]
  BY <1>1, <1>11 DEF U!TypeOK
<1>19. ASSUME NEW o \in U!Threads \ {t} PROVE ListRight(o)'
  <2>1. ListRight(o) /\ openupval'[o] = openupval[o]
    BY <1>18, Counted
  <2>2. \A w \in UpVals : (U!IsOpen(w) /\ uv[w].th = o) <=> (U!IsOpen(w)' /\ uv'[w].th = o)
    BY <1>13, <1>16, <1>17
  <2>3. \A w \in UpVals : U!IsOpen(w) /\ uv[w].th = o => uv'[w].level = uv[w].level
    BY <1>13, <1>17
  <2> QED BY <2>1, <2>2, <2>3, ListStays
<1>20. ListRight(t)'
  <2>1. ASSUME NEW n \in 1 .. Len(s) - k
        PROVE  /\ n + k \in 1 .. Len(s) /\ n + k \in k + 1 .. Len(s)
               /\ s[n + k] \in UpVals /\ uv'[s[n + k]].st = "open" /\ uv'[s[n + k]] = uv[s[n + k]] /\ uv[s[n + k]].th = t
    <3>1. n + k \in 1 .. Len(s) /\ n + k \in k + 1 .. Len(s)
      BY <1>2
    <3>2. uv[s[n + k]].level < l /\ s[n + k] \in UpVals /\ U!IsOpen(s[n + k]) /\ uv[s[n + k]].th = t
          /\ uv[s[n + k]].level \in Nat
      BY <1>5, <1>8, <3>1
    <3>3. s[n + k] \notin Closing(t, l)
      BY <3>2 DEF Closing
    <3> QED BY <1>17, <3>1, <3>2, <3>3 DEF U!IsOpen
  <2>2. ASSUME NEW w \in UpVals, U!IsOpen(w)', uv'[w].th = t
        PROVE  \E n \in 1 .. Len(s) - k : w = s[n + k]
    <3>1. w \notin Closing(t, l)
      BY <1>16, <2>2
    <3>2. U!IsOpen(w) /\ uv[w].th = t
      BY <1>17, <2>2, <3>1
    <3>3. PICK m \in 1 .. Len(s) : w = s[m]
      BY <1>7, <3>2
    <3>4. m \notin 1 .. k
      BY <1>10, <3>1, <3>3 DEF closing
    <3>5. m - k \in 1 .. Len(s) - k /\ (m - k) + k = m
      BY <1>2, <3>4
    <3> QED BY <3>3, <3>5
  <2>3. {s2[n] : n \in 1 .. Len(s) - k} = {w \in UpVals : U!IsOpen(w)' /\ uv'[w].th = t}
    <3>1. \A n \in 1 .. Len(s) - k : /\ s2[n] = s[n + k] /\ s[n + k] \in UpVals
                                     /\ uv'[s[n + k]].st = "open" /\ uv'[s[n + k]].th = t
      BY <1>11, <2>1
    <3>2. ASSUME NEW w \in UpVals, U!IsOpen(w)', uv'[w].th = t
          PROVE  w \in {s2[n] : n \in 1 .. Len(s) - k}
      BY <2>2, <3>1, <3>2
    <3>3. \A n \in 1 .. Len(s) - k : s2[n] \in {w \in UpVals : U!IsOpen(w)' /\ uv'[w].th = t}
      BY <3>1 DEF U!IsOpen
    <3> QED BY <3>2, <3>3
  <2>4. ASSUME NEW m \in 1 .. Len(s) - k, NEW n \in 1 .. Len(s) - k, m < n
        PROVE  uv'[s2[m]].level > uv'[s2[n]].level
    <3>1. s2[m] = s[m + k] /\ s2[n] = s[n + k] /\ m + k \in 1 .. Len(s) /\ n + k \in 1 .. Len(s)
          /\ uv'[s[m + k]] = uv[s[m + k]] /\ uv'[s[n + k]] = uv[s[n + k]]
      BY <1>11, <2>1
    <3>2. m + k < n + k
      BY <1>2, <2>4
    <3> QED BY <1>6, <3>1, <3>2
  <2> QED BY <1>12, <1>18, <2>3, <2>4 DEF ListRight
<1>21. s2 # <<>> => s # <<>>
  <2>1. ASSUME Len(s) = 0 PROVE Len(s2) = 0
    <3>1. Len(s2) = Len(s) - k
      BY <1>11
    <3>2. k = 0
      BY <1>2, <2>1
    <3> QED BY <2>1, <3>1, <3>2
  <2>2. s = <<>> => Len(s) = 0
    OBVIOUS
  <2>3. Len(s2) = 0 => s2 = <<>>
    BY <1>11
  <2> QED BY <2>1, <2>2, <2>3
<1>22. ASSUME NEW w \in Closing(t, l)
       PROVE  /\ uv[w].count = 0 => uv'[w].st = "free"
              /\ uv[w].count # 0 => /\ uv'[w].st = "closed" /\ uv'[w].count = uv[w].count
                                    /\ uv'[w].value = stack[t][uv[w].level]
  <2>1. uv'[w] = Closed(uv[w])
    BY <1>13, <1>14
  <2>2. CASE uv[w].count = 0
    BY <2>1, <2>2 DEF U!Freed
  <2>3. CASE uv[w].count # 0
    <3>1. uv'[w] = [U!Freed EXCEPT !.st = "closed", !.value = stack[t][uv[w].level], !.count = uv[w].count]
      BY <2>1, <2>3
    <3> QED BY <2>3, <3>1 DEF U!Freed
  <2> QED BY <2>2, <2>3
<1>23. uv' \in [UpVals -> U!UpVal]
  BY <1>1, <1>15
<1>24. \A w \in UpVals \ Closing(t, l) : uv'[w] = uv[w]
  BY <1>14
<1> HIDE DEF Closed
<1> QED BY <1>1, <1>16, <1>18, <1>19, <1>20, <1>21, <1>22, <1>23, <1>24 DEF s

\* After luaF_close the counts are still right and every closure sees the value it
\* saw.
LEMMA CloseKeeps ==
  ASSUME U!TypeOK, U!UpvaluesCounted, U!InPlace, NEW t \in U!Threads, NEW l \in Nat, U!Becomes(U!Close(t, l)),
         upvals' = upvals, alive' \cap Closures = alive \cap Closures,
         \A o \in U!Threads \ {t} : stack'[o] = stack[o],
         \A x \in Levels : x < l => stack'[t][x] = stack[t][x]
  PROVE  /\ U!UpvaluesCounted'
         /\ \A c \in alive \cap Closures : U!ValueOf(upvals[c])' = U!ValueOf(upvals[c])
         /\ \A c \in alive \cap Closures : U!IsOpen(upvals[c]) => upvals[c] \in Closing(t, l) \/ U!IsOpen(upvals[c])'
<1> DEFINE Rest == UpVals \ Closing(t, l)
<1>1. ASSUME NEW w \in UpVals
      PROVE  Holders(w)' = Holders(w)
  BY DEF Holders
<1>2. \A w \in Rest : uv'[w] = uv[w]
  BY CloseFacts
<1>3. ASSUME NEW w \in Closing(t, l)
      PROVE  /\ w \in UpVals /\ uv[w].count \in Nat /\ uv[w].st = "open" /\ uv[w].th = t
             /\ uv[w].count = 0 => uv'[w].st = "free"
             /\ uv[w].count # 0 => uv'[w].st = "closed" /\ uv'[w].count = uv[w].count
                                   /\ uv'[w].value = stack[t][uv[w].level]
  <2>1. w \in UpVals /\ uv[w].count \in Nat /\ uv[w].st = "open" /\ uv[w].th = t /\ uv[w].level \in Levels
    BY DEF Closing, U!TypeOK, U!UpVal, U!IsOpen, U!InPlace
  <2> QED BY <2>1, CloseFacts
<1>4. ASSUME NEW c \in alive \cap Closures
      PROVE  upvals[c] \in UpVals /\ uv[upvals[c]].st # "free" /\ uv[upvals[c]].count # 0
  <2>1. upvals[c] \in UpVals /\ uv[upvals[c]].st # "free" /\ CountRight(upvals[c])
    BY Counted DEF U!InPlace
  <2>2. c \in Holders(upvals[c]) /\ Holders(upvals[c]) \subseteq U!Objs
    BY DEF Holders, U!TypeOK
  <2>3. U!Cardinality(Holders(upvals[c])) \in Nat /\ U!Cardinality(Holders(upvals[c])) >= 1
    BY <2>2, OneLess
  <2>4. uv[upvals[c]].count = U!Cardinality(Holders(upvals[c]))
    BY <2>1 DEF CountRight
  <2> QED BY <2>1, <2>3, <2>4
<1>5. ASSUME NEW w \in UpVals
      PROVE  CountRight(w)' /\ (uv[w].st = "closed" => uv[w].count > 0)'
  <2>1. CountRight(w) /\ (uv[w].st = "closed" => uv[w].count > 0)
    BY Counted
  <2>2. CASE w \in Rest
    <3>1. uv'[w] = uv[w] /\ Holders(w)' = Holders(w)
      BY <1>1, <1>2, <2>2
    <3> QED BY <2>1, <3>1 DEF CountRight
  <2>3. CASE w \in Closing(t, l)
    <3>1. CASE uv[w].count = 0
      BY <1>3, <2>3, <3>1 DEF CountRight
    <3>2. CASE uv[w].count # 0
      <4>1. uv'[w].count = uv[w].count /\ uv[w].count > 0 /\ Holders(w)' = Holders(w) /\ uv[w].st # "free"
        BY <1>1, <1>3, <2>3, <3>2
      <4> QED BY <2>1, <4>1 DEF CountRight
    <3> QED BY <3>1, <3>2
  <2> QED BY <2>2, <2>3
<1>6. ASSUME NEW c \in alive \cap Closures
      PROVE  uv'[upvals[c]].st # "free"
  <2>1. CASE upvals[c] \in Rest
    BY <1>2, <1>4, <2>1
  <2>2. CASE upvals[c] \in Closing(t, l)
    BY <1>3, <1>4, <2>2
  <2> QED BY <1>4, <2>1, <2>2
<1>7. \A o \in U!Threads : ListRight(o)'
  BY CloseFacts
<1>8. U!UpvaluesCounted'
  BY <1>5, <1>6, <1>7 DEF U!UpvaluesCounted, CountRight, Holders, ListRight
<1>9. ASSUME NEW w \in UpVals, uv[w].st # "free", uv[w].count # 0
      PROVE  /\ U!ValueOf(w)' = U!ValueOf(w)
             /\ U!IsOpen(w) => w \in Closing(t, l) \/ U!IsOpen(w)'
  <2>1. CASE w \in Closing(t, l)
    <3>1. U!ValueOf(w) = stack[t][uv[w].level]
      BY <1>3, <2>1 DEF U!ValueOf, U!IsOpen
    <3>2. U!ValueOf(w)' = stack[t][uv[w].level]
      BY <1>3, <1>9, <2>1 DEF U!ValueOf, U!IsOpen
    <3> QED BY <2>1, <3>1, <3>2
  <2>2. CASE w \in Rest
    <3>1. uv'[w] = uv[w]
      BY <1>2, <2>2
    <3>2. CASE U!IsOpen(w)
      <4>1. uv[w].th \in U!Threads /\ uv[w].level \in Levels /\ uv[w].level \in Nat
        BY <3>2 DEF U!InPlace, U!TypeOK, U!UpVal
      <4>2. uv[w].th = t => ~(uv[w].level >= l)
        BY <2>2, <3>2 DEF Closing
      <4>3. stack'[uv[w].th][uv[w].level] = stack[uv[w].th][uv[w].level]
        <5>1. CASE uv[w].th = t
          <6>1. uv[w].level < l
            BY <4>1, <4>2, <5>1
          <6> QED BY <4>1, <5>1, <6>1
        <5>2. CASE uv[w].th # t
          BY <4>1, <5>2
        <5> QED BY <5>1, <5>2
      <4> QED BY <3>1, <3>2, <4>3 DEF U!ValueOf, U!IsOpen
    <3>3. CASE ~U!IsOpen(w)
      BY <3>1, <3>3 DEF U!ValueOf, U!IsOpen
    <3> QED BY <3>2, <3>3
  <2> QED BY <2>1, <2>2
<1>10. ASSUME NEW c \in alive \cap Closures
       PROVE  /\ U!ValueOf(upvals[c])' = U!ValueOf(upvals[c])
              /\ U!IsOpen(upvals[c]) => upvals[c] \in Closing(t, l) \/ U!IsOpen(upvals[c])'
  <2> DEFINE w == upvals[c]
  <2>1. w \in UpVals /\ uv[w].st # "free" /\ uv[w].count # 0 /\ w' = w
    BY <1>4
  <2> HIDE DEF w
  <2>2. \A v \in UpVals : uv[v].st # "free" /\ uv[v].count # 0 =>
          /\ U!ValueOf(v)' = U!ValueOf(v)
          /\ U!IsOpen(v) => v \in Closing(t, l) \/ U!IsOpen(v)'
    BY <1>9
  <2>3. U!ValueOf(w)' = U!ValueOf(w) /\ (U!IsOpen(w) => w \in Closing(t, l) \/ U!IsOpen(w)')
    BY <2>1, <2>2 DEF U!ValueOf, U!IsOpen
  <2> QED BY <2>3 DEF w
<1> QED BY <1>8, <1>10

\* Freeing a thread (luaE_freethread) keeps the invariant.
LEMMA SweepThreadKeeps ==
  ASSUME U!IInv, NEW t \in dead, t \in U!Threads, gcstate = "sweep",
         dead' = dead \ {t}, alive' = alive \ {t}, U!Becomes(U!Close(t, 0)),
         stack' = [stack EXCEPT ![t] = [l \in Levels |-> U!Nil]], upvals' = upvals,
         UNCHANGED <<color, gray, grayagain, gcstate>>
  PROVE  U!IInv'
<1>0. U!TypeOK /\ U!UpvaluesCounted /\ U!InPlace /\ U!NoDangling /\ U!AllListed
  BY DEF U!IInv
<1>1. t \notin Closures /\ Main # t /\ t \in alive
  BY <1>0, Kinds DEF U!NoDangling, U!TypeOK
<1>2. /\ \A o \in U!Threads \ {t} : stack'[o] = stack[o]
      /\ \A l \in Levels : stack'[t][l] = U!Nil
      /\ stack' \in [U!Threads -> [Levels -> U!Objs \cup {U!Nil}]]
  BY <1>0 DEF U!TypeOK
<1>3. /\ twups' = twups /\ uv' \in [UpVals -> U!UpVal] /\ openupval' \in [U!Threads -> Seq(UpVals)]
      /\ \A o \in U!Threads \ {t} : openupval'[o] = openupval[o]
      /\ \A w \in UpVals \ Closing(t, 0) : uv'[w] = uv[w]
      /\ \A w \in Closing(t, 0) : ~U!IsOpen(w)'
  BY <1>0, CloseFacts
<1>4. /\ U!UpvaluesCounted'
      /\ \A c \in alive \cap Closures : U!ValueOf(upvals[c])' = U!ValueOf(upvals[c])
  <2>1. alive' \cap Closures = alive \cap Closures
    BY <1>1
  <2>2. \A x \in Levels : x < 0 => stack'[t][x] = stack[t][x]
    BY UpvalAssumption
  <2> QED BY <1>0, <1>2, <2>1, <2>2, CloseKeeps
<1>5. U!TypeOK'
  BY <1>0, <1>2, <1>3 DEF U!TypeOK
<1>6. U!InPlace'
  <2>1. ASSUME NEW w \in UpVals, U!IsOpen(w)'
        PROVE  uv'[w].th \in alive' \cap U!Threads /\ uv'[w].level \in Levels
    <3>1. w \notin Closing(t, 0) /\ uv'[w] = uv[w] /\ U!IsOpen(w)
      BY <1>3, <2>1 DEF U!IsOpen
    <3>2. uv[w].th \in alive \cap U!Threads /\ uv[w].level \in Levels /\ uv[w].level >= 0
      <4>1. uv[w].level \in Nat
        BY <1>0 DEF U!TypeOK, U!UpVal
      <4> QED BY <1>0, <3>1, <4>1 DEF U!InPlace
    <3>3. uv[w].th # t
      BY <3>1, <3>2 DEF Closing
    <3> QED BY <3>1, <3>2, <3>3
  <2>2. \A o \in U!Threads \ alive' : \A l \in Levels : stack'[o][l] = U!Nil
    BY <1>0, <1>2 DEF U!InPlace
  <2>3. \A c \in alive' \cap Closures : upvals'[c] \in UpVals
    BY <1>0 DEF U!InPlace
  <2> QED BY <2>1, <2>2, <2>3 DEF U!InPlace
<1>7. alive' \ dead' = alive \ dead
  BY <1>0, <1>1 DEF U!NoDangling
<1>8. U!NoDangling'
  <2>1. ASSUME NEW o \in alive \ dead PROVE U!Refs(o)' \subseteq alive \ dead
    <3>1. U!Refs(o) \subseteq alive \ dead /\ o \in U!Objs
      BY <1>0 DEF U!NoDangling, U!TypeOK
    <3>2. CASE o \in U!Threads
      <4>1. stack'[o] = stack[o]
        BY <1>2, <3>2
      <4> QED BY <3>1, <3>2, <4>1 DEF U!Refs
    <3>3. CASE o \notin U!Threads
      <4>1. U!ValueOf(upvals[o])' = U!ValueOf(upvals[o])
        BY <1>4, <3>1, <3>3, Kinds
      <4> QED BY <3>1, <3>3, <4>1 DEF U!Refs
    <3> QED BY <3>2, <3>3
  <2> QED BY <1>0, <1>1, <1>7, <2>1 DEF U!NoDangling
<1>9. U!Marking'
  BY DEF U!Marking
<1>10. U!AllListed'
  BY <1>0, <1>3, <1>7 DEF U!AllListed, U!Listed
<1> QED BY <1>4, <1>5, <1>6, <1>8, <1>9, <1>10 DEF U!IInv

\* luaC_upvdeccount changes one upvalue.
LEMMA DecFacts ==
  ASSUME NEW w \in UpVals
  PROVE  /\ U!DecCount(U!State, w).uv = [uv EXCEPT ![w] = U!Less(uv[w])]
         /\ U!DecCount(U!State, w).open = openupval
         /\ U!DecCount(U!State, w).twups = twups
BY DEF U!DecCount, U!State

\* What is left of an upvalue with one closure less.
LEMMA LessFacts ==
  ASSUME NEW r \in U!UpVal, r.count >= 1
  PROVE  /\ U!Less(r) \in U!UpVal
         /\ r.count = 1 /\ r.st = "closed" => U!Less(r).st = "free"
         /\ ~(r.count = 1 /\ r.st = "closed") =>
              /\ U!Less(r).st = r.st /\ U!Less(r).th = r.th /\ U!Less(r).level = r.level
              /\ U!Less(r).value = r.value /\ U!Less(r).touched = r.touched /\ U!Less(r).count = r.count - 1
<1>1. CASE r.count = 1 /\ r.st = "closed"
  BY <1>1 DEF U!Less, U!Freed, U!UpVal
<1>2. CASE ~(r.count = 1 /\ r.st = "closed")
  <2>1. r.count - 1 \in Nat
    BY DEF U!UpVal
  <2>2. U!Less(r) = [r EXCEPT !.count = r.count - 1]
    BY <1>2 DEF U!Less
  <2> QED BY <1>2, <2>1, <2>2 DEF U!UpVal
<1> QED BY <1>1, <1>2

\* The upvalue of a closure that is not freed is counted.
LEMMA Held ==
  ASSUME U!TypeOK, U!UpvaluesCounted, U!InPlace, NEW c \in alive \cap Closures
  PROVE  /\ upvals[c] \in UpVals /\ uv[upvals[c]] \in U!UpVal
         /\ uv[upvals[c]].st \in {"open", "closed"}
         /\ c \in Holders(upvals[c]) /\ Holders(upvals[c]) \subseteq U!Objs
         /\ uv[upvals[c]].count = U!Cardinality(Holders(upvals[c])) /\ uv[upvals[c]].count \in Nat
         /\ uv[upvals[c]].count >= 1
         /\ uv[upvals[c]].count = 1 => Holders(upvals[c]) = {c}
<1>1. upvals[c] \in UpVals /\ uv[upvals[c]].st # "free" /\ CountRight(upvals[c])
  BY Counted DEF U!InPlace
<1>2. c \in Holders(upvals[c]) /\ Holders(upvals[c]) \subseteq U!Objs
  BY DEF Holders, U!TypeOK
<1>3. uv[upvals[c]].count = U!Cardinality(Holders(upvals[c]))
  BY <1>1 DEF CountRight
<1>4. uv[upvals[c]] \in U!UpVal /\ uv[upvals[c]].st \in {"open", "closed"}
  BY <1>1 DEF U!TypeOK, U!UpVal
<1> QED BY <1>1, <1>2, <1>3, <1>4, OneLess

\* Freeing a closure (freeLclosure) keeps the invariant.
LEMMA SweepClosureKeeps ==
  ASSUME U!IInv, NEW c \in dead, c \in Closures, gcstate = "sweep",
         dead' = dead \ {c}, alive' = alive \ {c}, U!Becomes(U!DecCount(U!State, upvals[c])),
         stack' = stack, upvals' = [upvals EXCEPT ![c] = U!None],
         UNCHANGED <<color, gray, grayagain, gcstate>>
  PROVE  U!IInv'
<1> DEFINE w == upvals[c]
<1>0. U!TypeOK /\ U!UpvaluesCounted /\ U!InPlace /\ U!NoDangling /\ U!AllListed
  BY DEF U!IInv
<1>1. c \in alive \cap Closures /\ c \notin U!Threads
  BY <1>0, Kinds DEF U!NoDangling, U!TypeOK
<1>2. PICK v \in UpVals : v = upvals[c]
  BY <1>0, <1>1, Held
<1>3. /\ uv[v] \in U!UpVal /\ uv[v].st \in {"open", "closed"} /\ c \in Holders(v) /\ Holders(v) \subseteq U!Objs
      /\ uv[v].count = U!Cardinality(Holders(v)) /\ uv[v].count \in Nat /\ uv[v].count >= 1
      /\ uv[v].count = 1 => Holders(v) = {c}
  BY <1>0, <1>1, <1>2, Held
<1>4. openupval' = openupval /\ twups' = twups /\ uv' = [uv EXCEPT ![v] = U!Less(uv[v])]
  BY <1>2, DecFacts DEF U!Becomes
<1>5. \A x \in UpVals : uv'[x] = IF x = v THEN U!Less(uv[v]) ELSE uv[x]
  BY <1>0, <1>4 DEF U!TypeOK
<1>6. uv'[v] \in U!UpVal /\ (uv'[v].st = "free" <=> uv[v].count = 1 /\ uv[v].st = "closed")
      /\ (uv'[v].st # "free" => /\ uv'[v].st = uv[v].st /\ uv'[v].th = uv[v].th /\ uv'[v].level = uv[v].level
                                /\ uv'[v].value = uv[v].value /\ uv'[v].count = uv[v].count - 1)
  BY <1>3, <1>5, LessFacts
<1>7. \A d \in alive' \cap Closures : d # c /\ d \in alive \cap Closures /\ upvals'[d] = upvals[d]
  BY <1>0 DEF U!TypeOK
<1>8. Holders(v)' = Holders(v) \ {c} /\ \A x \in UpVals \ {v} : Holders(x)' = Holders(x)
  <2>1. ASSUME NEW x \in UpVals, NEW d \in Closures
        PROVE  d \in Holders(x)' <=> d \in Holders(x) /\ d # c
    BY <1>7, <1>0 DEF Holders, U!TypeOK
  <2>2. \A x \in UpVals \ {v} : c \notin Holders(x)
    BY <1>2 DEF Holders
  <2>3. \A x \in UpVals : Holders(x) \subseteq Closures /\ Holders(x)' \subseteq Closures
    BY DEF Holders
  <2> QED BY <2>1, <2>2, <2>3
<1>9. ASSUME NEW d \in alive' \cap Closures
      PROVE  upvals'[d] \in UpVals /\ uv'[upvals'[d]].st # "free" /\ U!ValueOf(upvals[d])' = U!ValueOf(upvals[d])
  <2>1. PICK x \in UpVals : x = upvals[d] /\ x = upvals'[d]
    BY <1>0, <1>7, Held
  <2>2. uv[x].st \in {"open", "closed"} /\ d \in Holders(x) /\ d # c
    BY <1>0, <1>7, <2>1, Held
  <2>3. uv'[x].st # "free" /\ uv'[x].st = uv[x].st /\ uv'[x].th = uv[x].th /\ uv'[x].level = uv[x].level
        /\ uv'[x].value = uv[x].value
    <3>1. CASE x # v
      BY <1>5, <2>2, <3>1
    <3>2. CASE x = v
      BY <1>3, <1>6, <2>2, <3>2
    <3> QED BY <3>1, <3>2
  <2>4. U!ValueOf(x)' = U!ValueOf(x)
    BY <2>3 DEF U!ValueOf, U!IsOpen
  <2> QED BY <2>1, <2>3, <2>4 DEF U!ValueOf, U!IsOpen
<1>10. ASSUME NEW x \in UpVals
       PROVE  /\ CountRight(x)' /\ (uv[x].st = "closed" => uv[x].count > 0)'
              /\ uv'[x] \in U!UpVal
              /\ U!IsOpen(x)' <=> U!IsOpen(x)
              /\ U!IsOpen(x) => uv'[x].th = uv[x].th /\ uv'[x].level = uv[x].level
  <2>1. CountRight(x) /\ (uv[x].st = "closed" => uv[x].count > 0) /\ uv[x] \in U!UpVal
    BY <1>0, Counted DEF U!TypeOK
  <2>2. CASE x # v
    <3>1. uv'[x] = uv[x] /\ Holders(x)' = Holders(x)
      BY <1>5, <1>8, <2>2
    <3> QED BY <2>1, <3>1 DEF CountRight, U!IsOpen
  <2>3. CASE x = v
    <3>1. U!Cardinality(Holders(v) \ {c}) = U!Cardinality(Holders(v)) - 1
      BY <1>3, OneLess
    <3>2. uv'[v].st # "free" => uv'[v].count = U!Cardinality(Holders(v) \ {c})
      BY <1>3, <1>6, <3>1
    <3>3. CountRight(v)'
      BY <1>8, <3>2 DEF CountRight
    <3>4. uv'[v].st = "closed" => uv'[v].count > 0
      BY <1>3, <1>6
    <3>5. (uv'[v].st = "open" <=> uv[v].st = "open")
      BY <1>3, <1>6
    <3> QED BY <1>6, <2>3, <3>3, <3>4, <3>5 DEF U!IsOpen
  <2> QED BY <2>2, <2>3
<1>11. U!UpvaluesCounted'
  <2>1. ASSUME NEW t \in U!Threads PROVE ListRight(t)'
    <3>1. ListRight(t)
      BY <1>0, Counted
    <3>2. \A x \in UpVals : (U!IsOpen(x) /\ uv[x].th = t) <=> (U!IsOpen(x)' /\ uv'[x].th = t)
      BY <1>10
    <3>3. \A x \in UpVals : U!IsOpen(x) /\ uv[x].th = t => uv'[x].level = uv[x].level
      BY <1>10
    <3> QED BY <1>0, <1>4, <3>1, <3>2, <3>3, ListStays
  <2> QED BY <1>9, <1>10, <2>1 DEF U!UpvaluesCounted, CountRight, Holders, ListRight
<1>12. U!TypeOK'
  <2>1. uv' \in [UpVals -> U!UpVal]
    BY <1>4, <1>10, <1>0 DEF U!TypeOK
  <2>2. upvals' \in [Closures -> UpVals \cup {U!None}]
    BY <1>0 DEF U!TypeOK
  <2> QED BY <1>0, <1>4, <2>1, <2>2 DEF U!TypeOK
<1>13. U!InPlace'
  <2>1. ASSUME NEW x \in UpVals, U!IsOpen(x)'
        PROVE  uv'[x].th \in alive' \cap U!Threads /\ uv'[x].level \in Levels
    BY <1>0, <1>1, <1>10, <2>1 DEF U!InPlace
  <2>2. \A t \in U!Threads \ alive' : \A l \in Levels : stack'[t][l] = U!Nil
    BY <1>0, <1>1 DEF U!InPlace
  <2> QED BY <1>9, <2>1, <2>2 DEF U!InPlace
<1>14. alive' \ dead' = alive \ dead /\ Main # c
  BY <1>0, <1>1, Kinds DEF U!NoDangling
<1>15. U!NoDangling'
  <2>1. ASSUME NEW o \in alive \ dead PROVE U!Refs(o)' \subseteq alive \ dead
    <3>1. U!Refs(o) \subseteq alive \ dead /\ o \in U!Objs /\ o # c /\ o \in alive'
      BY <1>0 DEF U!NoDangling, U!TypeOK
    <3>2. CASE o \in U!Threads
      BY <3>1, <3>2 DEF U!Refs
    <3>3. CASE o \notin U!Threads
      <4>1. o \in alive' \cap Closures
        BY <3>1, <3>3, Kinds
      <4>2. U!ValueOf(upvals[o])' = U!ValueOf(upvals[o])
        BY <1>9, <4>1
      <4> QED BY <3>1, <3>3, <4>2 DEF U!Refs
    <3> QED BY <3>2, <3>3
  <2> QED BY <1>0, <1>14, <2>1 DEF U!NoDangling
<1>16. U!Marking'
  BY DEF U!Marking
<1>17. U!AllListed'
  BY <1>0, <1>4, <1>14 DEF U!AllListed, U!Listed
<1> QED BY <1>11, <1>12, <1>13, <1>15, <1>16, <1>17 DEF U!IInv

\* A step of the sweep keeps the invariant.
LEMMA SweepKeeps ==
  ASSUME U!IInv, U!Sweep
  PROVE  U!IInv'
<1>1. gcstate = "sweep" /\ UNCHANGED <<color, gray, grayagain, gcstate>>
  BY DEF U!Sweep
<1>2. PICK o \in dead :
        /\ dead' = dead \ {o} /\ alive' = alive \ {o}
        /\ IF o \in Closures THEN U!Becomes(U!DecCount(U!State, upvals[o])) /\ UNCHANGED stack
           ELSE U!Becomes(U!Close(o, 0)) /\ stack' = [stack EXCEPT ![o] = [l \in Levels |-> U!Nil]]
        /\ upvals' = IF o \in Closures THEN [upvals EXCEPT ![o] = U!None] ELSE upvals
  BY DEF U!Sweep
<1>3. CASE o \in Closures
  BY <1>1, <1>2, <1>3, SweepClosureKeeps
<1>4. CASE o \notin Closures
  <2>1. o \in U!Threads
    BY <1>4, Kinds DEF U!IInv, U!TypeOK
  <2> QED BY <1>1, <1>2, <1>4, <2>1, SweepThreadKeeps
<1> QED BY <1>3, <1>4

-----------------------------------------------------------------------------
(* The steps of the program.                                               *)

\* What the steps of the program have in common.
Program == /\ gcstate \in {"pause", "propagate", "sweep"}
           /\ UNCHANGED <<grayagain, gcstate, dead>>

\* What Marking says of a closure before atomic.
Shaded(c) == /\ color[c] = "gray" => c \in gray
             /\ color[c] = "black" /\ U!IsOpen(upvals[c]) => uv[upvals[c]].touched
             /\ color[c] = "black" /\ ~U!IsOpen(upvals[c]) => U!Grayed(U!ValueOf(upvals[c]))

\* Marking, before atomic.
LEMMA Propagating ==
  ASSUME U!Marking, gcstate = "propagate"
  PROVE  /\ U!Grayed(Main) /\ gray \subseteq alive /\ grayagain \subseteq alive \cap U!Threads
         /\ \A c \in alive \cap Closures : Shaded(c)
         /\ \A t \in alive \cap U!Threads : color[t] = "white" \/ t \in gray \cup grayagain
BY DEF U!Marking, U!ClosureMarked, U!ThreadMarked, Shaded

\* For a step of the program, Marking has to be shown only before atomic.
LEMMA StillMarking ==
  ASSUME Program,
         gcstate = "propagate" =>
           /\ U!Grayed(Main)' /\ gray' \subseteq alive' /\ grayagain \subseteq alive' \cap U!Threads
           /\ \A c \in alive' \cap Closures : Shaded(c)'
           /\ \A t \in alive' \cap U!Threads : color'[t] = "white" \/ t \in gray' \cup grayagain
  PROVE  U!Marking'
<1>1. CASE gcstate # "propagate"
  BY <1>1 DEF Program, U!Marking
<1>2. CASE gcstate = "propagate"
  <2>1. gcstate' = "propagate" /\ grayagain' = grayagain
    BY <1>2 DEF Program
  <2>2. ASSUME NEW c \in alive' \cap Closures PROVE U!ClosureMarked(c)'
    BY <1>2, <2>1 DEF U!ClosureMarked, Shaded
  <2>3. ASSUME NEW t \in alive' \cap U!Threads PROVE U!ThreadMarked(t)'
    BY <1>2, <2>1 DEF U!ThreadMarked
  <2> QED BY <1>2, <2>1, <2>2, <2>3 DEF U!Marking
<1> QED BY <1>1, <1>2

\* A closure that keeps its upvalue keeps what Marking says of it, if the upvalue
\* stays open and touched or its value is marked.
LEMMA ShadedStill ==
  ASSUME NEW c \in Closures, NEW w \in UpVals, w = upvals[c], upvals'[c] = w, Shaded(c),
         color'[c] = color[c] \/ (color'[c] = "gray" /\ c \in gray'),
         c \in gray => c \in gray',
         U!IsOpen(w)' => U!IsOpen(w),
         U!IsOpen(w) /\ uv[w].touched => ~U!IsOpen(w)' \/ uv'[w].touched,
         ~U!IsOpen(w)' /\ (U!IsOpen(w) \/ U!Grayed(U!ValueOf(w))) => U!Grayed(U!ValueOf(w))'
  PROVE  Shaded(c)'
<1>1. color'[c] = "gray" => c \in gray'
  BY DEF Shaded
<1>2. ASSUME color'[c] = "black", U!IsOpen(w)' PROVE uv'[w].touched
  BY <1>2 DEF Shaded
<1>3. ASSUME color'[c] = "black", ~U!IsOpen(w)' PROVE U!Grayed(U!ValueOf(w))'
  BY <1>3 DEF Shaded
<1> QED BY <1>1, <1>2, <1>3 DEF Shaded, U!IsOpen, U!ValueOf, U!Grayed

\* Steps that leave the upvalues alone and change the stack of a thread that
\* is not freed.
LEMMA SameUpvalues ==
  ASSUME U!TypeOK, U!UpvaluesCounted, U!InPlace, UNCHANGED <<uv, openupval>>,
         \A c \in alive \cap Closures : upvals'[c] = upvals[c],
         alive' \cap Closures = alive \cap Closures, alive \subseteq alive'
  PROVE  U!UpvaluesCounted' /\ \A w \in UpVals : U!IsOpen(w)' <=> U!IsOpen(w)
<1>1. \A w \in UpVals : Holders(w)' = Holders(w)
  BY DEF Holders
<1>2. \A w \in UpVals : CountRight(w)' /\ (uv[w].st = "closed" => uv[w].count > 0)' /\ (U!IsOpen(w)' <=> U!IsOpen(w))
  BY <1>1, Counted DEF CountRight, U!IsOpen
<1>3. \A c \in alive' \cap Closures : uv'[upvals'[c]].st # "free"
  BY Counted
<1>4. ASSUME NEW t \in U!Threads PROVE ListRight(t)'
  BY <1>2, Counted, ListStays
<1> QED BY <1>2, <1>3, <1>4 DEF U!UpvaluesCounted, CountRight, Holders, ListRight

\* lua_newthread keeps the invariant.
LEMMA NewThreadKeeps ==
  ASSUME U!IInv, U!NewThread
  PROVE  U!IInv'
<1>0. U!TypeOK /\ U!UpvaluesCounted /\ U!InPlace /\ U!NoDangling /\ U!AllListed /\ U!Marking
  BY DEF U!IInv
<1>1. Program /\ UNCHANGED <<uv, openupval, twups, upvals, gray>>
  BY DEF U!NewThread, U!Mutate, Program
<1>2. PICK t \in U!Threads \ alive, l \in Levels :
        /\ alive' = alive \cup {t} /\ stack' = [stack EXCEPT ![Main][l] = t]
        /\ color' = [color EXCEPT ![t] = "white"]
  BY DEF U!NewThread
<1>3. t \notin Closures /\ t # Main /\ t \in U!Objs /\ t \notin dead /\ Main \in U!Threads /\ Main \in alive \ dead
  BY <1>0, Kinds DEF U!NoDangling
<1>4. /\ \A o \in U!Threads \ {Main} : stack'[o] = stack[o]
      /\ \A x \in Levels : stack'[Main][x] = stack[Main][x] \/ stack'[Main][x] = t
      /\ stack' \in [U!Threads -> [Levels -> U!Objs \cup {U!Nil}]]
  BY <1>0, <1>2, <1>3 DEF U!TypeOK
<1>5. /\ \A o \in U!Objs \ {t} : color'[o] = color[o]
      /\ color'[t] = "white" /\ color' \in [U!Objs -> {"white", "gray", "black"}]
  BY <1>0, <1>2, <1>3 DEF U!TypeOK
<1>6. alive' \cap Closures = alive \cap Closures /\ alive' \cap U!Threads = (alive \cap U!Threads) \cup {t}
  BY <1>2, <1>3
<1>7. U!UpvaluesCounted' /\ \A w \in UpVals : U!IsOpen(w)' <=> U!IsOpen(w)
  BY <1>0, <1>1, <1>2, <1>6, SameUpvalues
<1>8. U!TypeOK'
  BY <1>0, <1>1, <1>2, <1>3, <1>4, <1>5 DEF U!TypeOK, Program
<1>9. U!InPlace'
  BY <1>0, <1>1, <1>2, <1>3, <1>4, <1>7 DEF U!InPlace
<1>10. \A w \in UpVals : U!ValueOf(w)' \in {U!ValueOf(w), t}
  <2> SUFFICES ASSUME NEW w \in UpVals PROVE U!ValueOf(w)' \in {U!ValueOf(w), t}
    OBVIOUS
  <2>1. CASE U!IsOpen(w)
    <3>1. uv[w].th \in U!Threads /\ uv[w].level \in Levels
      BY <1>0, <2>1 DEF U!InPlace
    <3>2. stack'[uv[w].th][uv[w].level] \in {stack[uv[w].th][uv[w].level], t}
      BY <1>4, <3>1
    <3> QED BY <1>1, <1>7, <2>1, <3>2 DEF U!ValueOf
  <2>2. CASE ~U!IsOpen(w)
    BY <1>1, <1>7, <2>2 DEF U!ValueOf
  <2> QED BY <2>1, <2>2
<1>11. U!NoDangling'
  <2>1. ASSUME NEW o \in alive \ dead PROVE U!Refs(o)' \subseteq U!Refs(o) \cup {t}
    <3>1. o \in U!Objs
      BY <1>0 DEF U!TypeOK
    <3>2. CASE o \in U!Threads
      <4>1. \A x \in Levels : stack'[o][x] \in {stack[o][x], t}
        BY <1>4, <3>2
      <4> QED BY <3>2, <4>1 DEF U!Refs
    <3>3. CASE o \notin U!Threads
      <4>1. upvals[o] \in UpVals
        BY <1>0, <3>1, <3>3, Kinds DEF U!InPlace
      <4>2. U!ValueOf(upvals[o])' \in {U!ValueOf(upvals[o]), t}
        BY <1>1, <1>10, <4>1
      <4> QED BY <3>3, <4>2 DEF U!Refs
    <3> QED BY <3>2, <3>3
  <2>2. U!Refs(t)' = {}
    <3>1. \A x \in Levels : stack'[t][x] = U!Nil
      BY <1>0, <1>2, <1>3, <1>4 DEF U!InPlace
    <3> QED BY <1>2, <3>1, UpvalAssumption DEF U!Refs
  <2>3. alive' \ dead' = (alive \ dead) \cup {t}
    BY <1>1, <1>2, <1>3 DEF Program
  <2>4. \A o \in alive \ dead : U!Refs(o) \subseteq alive \ dead
    BY <1>0 DEF U!NoDangling
  <2>5. \A o \in alive' \ dead' : U!Refs(o)' \subseteq alive' \ dead'
    BY <2>1, <2>2, <2>3, <2>4
  <2> QED BY <1>0, <1>1, <1>2, <1>3, <2>5 DEF U!NoDangling, Program
<1>12. U!Marking'
  <2> SUFFICES ASSUME gcstate = "propagate"
               PROVE  /\ U!Grayed(Main)' /\ gray' \subseteq alive' /\ grayagain \subseteq alive' \cap U!Threads
                      /\ \A c \in alive' \cap Closures : Shaded(c)'
                      /\ \A o \in alive' \cap U!Threads : color'[o] = "white" \/ o \in gray' \cup grayagain
    BY <1>1, StillMarking
  <2>1. U!Grayed(Main)' /\ gray' \subseteq alive' /\ grayagain \subseteq alive' \cap U!Threads
    BY <1>0, <1>1, <1>2, <1>3, <1>5, Propagating DEF U!Grayed
  <2>2. ASSUME NEW c \in alive \cap Closures PROVE Shaded(c)'
    <3>1. PICK w \in UpVals : w = upvals[c] /\ upvals'[c] = w
      BY <1>0, <1>1 DEF U!InPlace
    <3>2. c \in U!Objs \ {t} /\ color'[c] = color[c] /\ Shaded(c)
      BY <1>0, <1>3, <1>5, Kinds, Propagating
    <3>3. ASSUME ~U!IsOpen(w), U!Grayed(U!ValueOf(w)) PROVE U!Grayed(U!ValueOf(w))'
      <4>1. U!ValueOf(w)' = U!ValueOf(w)
        BY <1>1, <1>7, <3>3 DEF U!ValueOf
      <4>2. {U!ValueOf(w)} \cap U!Objs \subseteq alive
        BY <1>0, <3>1, RefsAlive
      <4>3. U!ValueOf(w) \in U!Objs => U!ValueOf(w) # t /\ color[U!ValueOf(w)] # "white"
        BY <1>2, <3>3, <4>2 DEF U!Grayed
      <4> QED BY <1>5, <4>1, <4>3 DEF U!Grayed
    <3> QED BY <1>1, <1>7, <3>1, <3>2, <3>3, ShadedStill
  <2>3. ASSUME NEW o \in alive' \cap U!Threads
        PROVE  color'[o] = "white" \/ o \in gray' \cup grayagain
    BY <1>0, <1>1, <1>5, <1>6, Propagating, Kinds
  <2> QED BY <1>6, <2>1, <2>2, <2>3
<1>13. U!AllListed'
  <2>1. openupval[t] = <<>>
    <3>1. ListRight(t) /\ openupval[t] \in Seq(UpVals)
      BY <1>0, Counted DEF U!TypeOK
    <3>2. \A w \in UpVals : ~(U!IsOpen(w) /\ uv[w].th = t)
      BY <1>0, <1>2 DEF U!InPlace
    <3>3. \A n \in DOMAIN openupval[t] : FALSE
      BY <3>1, <3>2 DEF ListRight
    <3>4. openupval[t] = <<>> \/ 1 \in DOMAIN openupval[t]
      BY <3>1
    <3> QED BY <3>3, <3>4
  <2>2. alive' \ dead' \subseteq (alive \ dead) \cup {t}
    BY <1>1, <1>2 DEF Program
  <2> QED BY <1>0, <1>1, <2>1, <2>2 DEF U!AllListed, U!Listed, Program
<1> QED BY <1>7, <1>8, <1>9, <1>11, <1>12, <1>13 DEF U!IInv

\* One value written in the stack of a thread.
LEMMA WriteKeeps ==
  ASSUME U!IInv, Program, NEW t \in alive \cap U!Threads, NEW l \in Levels, NEW v \in (alive \ dead) \cup {U!Nil},
         stack' = [stack EXCEPT ![t][l] = v],
         UNCHANGED <<uv, openupval, twups, upvals, alive, color, gray>>
  PROVE  U!IInv'
<1>0. U!TypeOK /\ U!UpvaluesCounted /\ U!InPlace /\ U!NoDangling /\ U!AllListed /\ U!Marking
  BY DEF U!IInv
<1>1. v \in U!Objs \cup {U!Nil}
  BY <1>0 DEF U!TypeOK
<1>2. /\ \A o \in U!Threads \ {t} : stack'[o] = stack[o]
      /\ \A x \in Levels : stack'[t][x] = stack[t][x] \/ stack'[t][x] = v
      /\ stack' \in [U!Threads -> [Levels -> U!Objs \cup {U!Nil}]]
  BY <1>0, <1>1 DEF U!TypeOK
<1>3. U!UpvaluesCounted' /\ \A w \in UpVals : U!IsOpen(w)' <=> U!IsOpen(w)
  BY <1>0, SameUpvalues
<1>4. U!TypeOK'
  BY <1>0, <1>2 DEF U!TypeOK, Program
<1>5. U!InPlace'
  BY <1>0, <1>2, <1>3 DEF U!InPlace
<1>6. \A w \in UpVals : U!ValueOf(w)' \in {U!ValueOf(w), v} /\ (~U!IsOpen(w) => U!ValueOf(w)' = U!ValueOf(w))
  <2> SUFFICES ASSUME NEW w \in UpVals
               PROVE  U!ValueOf(w)' \in {U!ValueOf(w), v} /\ (~U!IsOpen(w) => U!ValueOf(w)' = U!ValueOf(w))
    OBVIOUS
  <2>1. CASE U!IsOpen(w)
    <3>1. uv[w].th \in U!Threads /\ uv[w].level \in Levels
      BY <1>0, <2>1 DEF U!InPlace
    <3>2. stack'[uv[w].th][uv[w].level] \in {stack[uv[w].th][uv[w].level], v}
      BY <1>2, <3>1
    <3> QED BY <1>3, <2>1, <3>2 DEF U!ValueOf
  <2>2. CASE ~U!IsOpen(w)
    BY <1>3, <2>2 DEF U!ValueOf
  <2> QED BY <2>1, <2>2
<1>7. U!NoDangling'
  <2>1. ASSUME NEW o \in alive \ dead PROVE U!Refs(o)' \subseteq U!Refs(o) \cup ({v} \cap U!Objs)
    <3>1. o \in U!Objs
      BY <1>0 DEF U!TypeOK
    <3>2. CASE o \in U!Threads
      <4>1. \A x \in Levels : stack'[o][x] \in {stack[o][x], v}
        BY <1>2, <3>2
      <4> QED BY <3>2, <4>1 DEF U!Refs
    <3>3. CASE o \notin U!Threads
      <4>1. upvals[o] \in UpVals
        BY <1>0, <3>1, <3>3, Kinds DEF U!InPlace
      <4>2. U!ValueOf(upvals[o])' \in {U!ValueOf(upvals[o]), v}
        BY <1>6, <4>1
      <4> QED BY <3>3, <4>2 DEF U!Refs
    <3> QED BY <3>2, <3>3
  <2>2. {v} \cap U!Objs \subseteq alive \ dead
    BY UpvalAssumption
  <2>3. \A o \in alive \ dead : U!Refs(o)' \subseteq alive \ dead
    BY <1>0, <2>1, <2>2 DEF U!NoDangling
  <2> QED BY <1>0, <2>3 DEF U!NoDangling, Program
<1>8. U!Marking'
  <2> SUFFICES ASSUME gcstate = "propagate"
               PROVE  /\ U!Grayed(Main)' /\ gray' \subseteq alive' /\ grayagain \subseteq alive' \cap U!Threads
                      /\ \A c \in alive' \cap Closures : Shaded(c)'
                      /\ \A o \in alive' \cap U!Threads : color'[o] = "white" \/ o \in gray' \cup grayagain
    BY StillMarking
  <2>1. /\ U!Grayed(Main)' /\ gray' \subseteq alive' /\ grayagain \subseteq alive' \cap U!Threads
        /\ \A o \in alive' \cap U!Threads : color'[o] = "white" \/ o \in gray' \cup grayagain
    BY <1>0, Propagating DEF U!Grayed
  <2>2. ASSUME NEW c \in alive \cap Closures PROVE Shaded(c)'
    <3>1. PICK w \in UpVals : w = upvals[c] /\ upvals'[c] = w
      BY <1>0 DEF U!InPlace
    <3>2. Shaded(c)
      BY <1>0, Propagating
    <3>3. ~U!IsOpen(w) /\ U!Grayed(U!ValueOf(w)) => U!Grayed(U!ValueOf(w))'
      BY <1>6 DEF U!Grayed
    <3> QED BY <1>3, <3>1, <3>2, <3>3, ShadedStill
  <2> QED BY <2>1, <2>2
<1>9. U!AllListed'
  BY <1>0 DEF U!AllListed, U!Listed, Program
<1> QED BY <1>3, <1>4, <1>5, <1>7, <1>8, <1>9 DEF U!IInv

\* Moving a value in a stack keeps the invariant.
LEMMA SetStackKeeps ==
  ASSUME U!IInv, U!SetStack
  PROVE  U!IInv'
<1>1. Program /\ UNCHANGED <<uv, openupval, twups, upvals, alive, color, gray>>
  BY DEF U!SetStack, U!Mutate, Program
<1>2. PICK t \in U!Accessible \cap U!Threads, l \in Levels, v \in U!Accessible \cup {U!Nil} :
        stack' = [stack EXCEPT ![t][l] = v]
  BY DEF U!SetStack
<1>3. U!Accessible \subseteq alive \ dead
  BY AccessibleSafe DEF U!IInv
<1>4. t \in alive \cap U!Threads /\ v \in (alive \ dead) \cup {U!Nil}
  BY <1>3
<1> QED BY <1>1, <1>2, <1>4, WriteKeeps

\* A barrier marks some values and takes no mark away.
LEMMA BarrierFacts ==
  ASSUME U!TypeOK, NEW vs, U!Barrier(vs)
  PROVE  /\ color' \in [U!Objs -> {"white", "gray", "black"}]
         /\ MoreGrayed /\ \A o \in U!Objs : Coloured(o)
         /\ gray \subseteq gray' /\ gray' \subseteq gray \cup (vs \cap U!Objs)
         /\ gcstate # "propagate" => gray' = gray
         /\ gcstate = "propagate" => \A o \in vs \cap U!Objs : color'[o] # "white"
<1>1. CASE gcstate # "propagate"
  BY <1>1 DEF U!Barrier, MoreGrayed, U!Grayed, Coloured, U!TypeOK
<1>2. CASE gcstate = "propagate"
  <2>1. /\ color' = [o \in U!Objs |-> IF o \in vs /\ U!White(o) THEN "gray" ELSE color[o]]
        /\ gray' = gray \cup {v \in vs : U!White(v)}
    BY <1>2 DEF U!Barrier, U!MarkAll
  <2>2. \A o \in U!Objs : color'[o] = IF o \in vs /\ U!White(o) THEN "gray" ELSE color[o]
    BY <2>1
  <2>3. color' \in [U!Objs -> {"white", "gray", "black"}]
    BY <2>1 DEF U!TypeOK
  <2>4. \A o \in U!Objs : Coloured(o)
    BY <2>1, <2>2 DEF Coloured, U!White
  <2>5. \A o \in vs \cap U!Objs : color'[o] # "white"
    BY <2>2 DEF U!White
  <2>6. gray \subseteq gray' /\ gray' \subseteq gray \cup (vs \cap U!Objs)
    BY <2>1 DEF U!White
  <2>7. MoreGrayed
    BY <2>4 DEF MoreGrayed, U!Grayed, Coloured
  <2> QED BY <1>2, <2>3, <2>4, <2>5, <2>6, <2>7
<1> QED BY <1>1, <1>2

\* The value of a closed upvalue.
LEMMA AssignKeeps ==
  ASSUME U!IInv, Program, NEW x \in UpVals, uv[x].st = "closed", NEW v \in (alive \ dead) \cup {U!Nil},
         uv' = [uv EXCEPT ![x].value = v], U!Barrier({v}),
         UNCHANGED <<stack, openupval, twups, upvals, alive>>
  PROVE  U!IInv'
<1>0. U!TypeOK /\ U!UpvaluesCounted /\ U!InPlace /\ U!NoDangling /\ U!AllListed /\ U!Marking
  BY DEF U!IInv
<1>1. v \in U!Objs \cup {U!Nil} /\ {v} \cap U!Objs \subseteq alive \ dead /\ alive \subseteq U!Objs
  BY <1>0, UpvalAssumption DEF U!TypeOK
<1>2. ASSUME NEW w \in UpVals
      PROVE  /\ uv'[w] \in U!UpVal /\ uv'[w].st = uv[w].st /\ uv'[w].th = uv[w].th /\ uv'[w].level = uv[w].level
             /\ uv'[w].count = uv[w].count /\ uv'[w].touched = uv[w].touched
             /\ uv'[w].value = IF w = x THEN v ELSE uv[w].value
  <2>1. uv[w] \in U!UpVal
    BY <1>0 DEF U!TypeOK
  <2>2. CASE w # x
    <3>1. uv'[w] = uv[w]
      BY <1>0, <2>2 DEF U!TypeOK
    <3> QED BY <2>1, <2>2, <3>1
  <2>3. CASE w = x
    <3>1. uv'[w] = [uv[w] EXCEPT !.value = v]
      BY <1>0, <2>3 DEF U!TypeOK
    <3> QED BY <1>1, <2>1, <2>3, <3>1 DEF U!UpVal
  <2> QED BY <2>2, <2>3
<1>3. \A w \in UpVals : U!IsOpen(w)' <=> U!IsOpen(w)
  BY <1>2 DEF U!IsOpen
<1>4. ~U!IsOpen(x) /\ \A w \in UpVals : U!ValueOf(w)' = IF w = x THEN v ELSE U!ValueOf(w)
  <2>1. ~U!IsOpen(x)
    BY DEF U!IsOpen
  <2>2. ASSUME NEW w \in UpVals PROVE U!ValueOf(w)' = IF w = x THEN v ELSE U!ValueOf(w)
    <3>1. CASE U!IsOpen(w)
      BY <1>2, <1>3, <2>1, <3>1 DEF U!ValueOf
    <3>2. CASE ~U!IsOpen(w)
      BY <1>2, <1>3, <3>2 DEF U!ValueOf
    <3> QED BY <3>1, <3>2
  <2> QED BY <2>1, <2>2
<1>5. U!UpvaluesCounted'
  <2>1. \A w \in UpVals : CountRight(w)' /\ (uv[w].st = "closed" => uv[w].count > 0)'
    <3>1. ASSUME NEW w \in UpVals PROVE CountRight(w)' /\ (uv[w].st = "closed" => uv[w].count > 0)'
      <4>1. Holders(w)' = Holders(w)
        BY DEF Holders
      <4>2. CountRight(w) /\ (uv[w].st = "closed" => uv[w].count > 0)
        BY <1>0, Counted
      <4> QED BY <1>2, <4>1, <4>2 DEF CountRight
    <3> QED BY <3>1
  <2>2. ASSUME NEW c \in alive \cap Closures PROVE uv'[upvals[c]].st # "free"
    BY <1>0, <1>2, Held
  <2>3. ASSUME NEW t \in U!Threads PROVE ListRight(t)'
    <3>1. ListRight(t)
      BY <1>0, Counted
    <3> QED BY <1>0, <1>2, <1>3, <3>1, ListStays
  <2> QED BY <2>1, <2>2, <2>3 DEF U!UpvaluesCounted, CountRight, Holders, ListRight
<1>6. /\ color' \in [U!Objs -> {"white", "gray", "black"}]
      /\ MoreGrayed /\ \A o \in U!Objs : Coloured(o)
      /\ gray \subseteq gray' /\ gray' \subseteq gray \cup ({v} \cap U!Objs)
      /\ gcstate # "propagate" => gray' = gray
      /\ gcstate = "propagate" => \A o \in {v} \cap U!Objs : color'[o] # "white"
  BY <1>0, BarrierFacts
<1>7. U!TypeOK'
  <2>1. uv' \in [UpVals -> U!UpVal]
    BY <1>0, <1>2 DEF U!TypeOK
  <2> QED BY <1>0, <1>6, <2>1 DEF U!TypeOK, Program
<1>8. U!InPlace'
  BY <1>0, <1>2, <1>3 DEF U!InPlace
<1>9. U!NoDangling'
  <2>1. ASSUME NEW o \in alive \ dead PROVE U!Refs(o)' \subseteq U!Refs(o) \cup ({v} \cap U!Objs)
    <3>1. o \in U!Objs
      BY <1>1
    <3>2. CASE o \in U!Threads
      BY <3>2 DEF U!Refs
    <3>3. CASE o \notin U!Threads
      <4>1. upvals[o] \in UpVals
        BY <1>0, <3>1, <3>3, Kinds DEF U!InPlace
      <4>2. U!ValueOf(upvals[o])' \in {U!ValueOf(upvals[o]), v}
        BY <1>4, <4>1
      <4> QED BY <3>3, <4>2 DEF U!Refs
    <3> QED BY <3>2, <3>3
  <2>2. \A o \in alive \ dead : U!Refs(o)' \subseteq alive \ dead
    BY <1>0, <1>1, <2>1 DEF U!NoDangling
  <2> QED BY <1>0, <1>6, <2>2 DEF U!NoDangling, Program
<1>10. U!Marking'
  <2> SUFFICES ASSUME gcstate = "propagate"
               PROVE  /\ U!Grayed(Main)' /\ gray' \subseteq alive' /\ grayagain \subseteq alive' \cap U!Threads
                      /\ \A c \in alive' \cap Closures : Shaded(c)'
                      /\ \A o \in alive' \cap U!Threads : color'[o] = "white" \/ o \in gray' \cup grayagain
    BY StillMarking
  <2>1. U!Grayed(Main)' /\ gray' \subseteq alive' /\ grayagain \subseteq alive' \cap U!Threads
    BY <1>0, <1>1, <1>6, Kinds, Propagating DEF MoreGrayed
  <2>2. ASSUME NEW o \in alive' \cap U!Threads PROVE color'[o] = "white" \/ o \in gray' \cup grayagain
    <3>1. o \in alive \cap U!Threads /\ o \in U!Objs
      BY <1>1
    <3> QED BY <1>0, <1>6, <3>1, Propagating DEF Coloured
  <2>3. ASSUME NEW c \in alive \cap Closures PROVE Shaded(c)'
    <3>1. PICK w \in UpVals : w = upvals[c] /\ upvals'[c] = w
      BY <1>0 DEF U!InPlace
    <3>2. Shaded(c) /\ c \in U!Objs
      BY <1>0, <1>1, Propagating
    <3>3. ~U!IsOpen(w) /\ U!Grayed(U!ValueOf(w)) => U!Grayed(U!ValueOf(w))'
      <4>1. CASE w = x
        BY <1>4, <1>6, <4>1 DEF U!Grayed
      <4>2. CASE w # x
        <5>1. U!ValueOf(w)' = U!ValueOf(w)
          BY <1>4, <4>2
        <5> QED BY <1>6, <5>1 DEF U!Grayed, MoreGrayed
      <4> QED BY <4>1, <4>2
    <3>4. color'[c] = color[c] \/ (color'[c] = "gray" /\ c \in gray')
      BY <1>6, <3>2 DEF Coloured
    <3> QED BY <1>2, <1>3, <1>6, <3>1, <3>2, <3>3, <3>4, ShadedStill
  <2> QED BY <2>1, <2>2, <2>3
<1>11. U!AllListed'
  BY <1>0 DEF U!AllListed, U!Listed, Program
<1> QED BY <1>5, <1>7, <1>8, <1>9, <1>10, <1>11 DEF U!IInv

\* OP_SETUPVAL and lua_setupvalue keep the invariant.
LEMMA SetUpvalKeeps ==
  ASSUME U!IInv, U!SetUpval
  PROVE  U!IInv'
<1>0. U!TypeOK /\ U!UpvaluesCounted /\ U!InPlace /\ U!NoDangling
  BY DEF U!IInv
<1>1. Program /\ UNCHANGED <<openupval, twups, upvals, alive>>
  BY DEF U!SetUpval, U!Mutate, Program
<1>2. PICK c \in U!Accessible \cap Closures, v \in U!Accessible \cup {U!Nil} :
        IF U!IsOpen(upvals[c])
        THEN stack' = [stack EXCEPT ![uv[upvals[c]].th][uv[upvals[c]].level] = v] /\ UNCHANGED <<uv, color, gray>>
        ELSE uv' = [uv EXCEPT ![upvals[c]].value = v] /\ U!Barrier({v}) /\ UNCHANGED stack
  BY DEF U!SetUpval
<1>3. U!Accessible \subseteq alive \ dead
  BY <1>0, AccessibleSafe
<1>4. c \in alive \cap Closures /\ v \in (alive \ dead) \cup {U!Nil}
  BY <1>3
<1>5. PICK x \in UpVals : x = upvals[c]
  BY <1>0, <1>4, Held
<1>6. uv[x].st \in {"open", "closed"}
  BY <1>0, <1>4, <1>5, Held
<1>7. CASE U!IsOpen(x)
  <2>1. PICK t \in alive \cap U!Threads, l \in Levels : t = uv[x].th /\ l = uv[x].level
    BY <1>0, <1>7 DEF U!InPlace
  <2>2. stack' = [stack EXCEPT ![t][l] = v] /\ UNCHANGED <<uv, color, gray>>
    BY <1>2, <1>5, <1>7, <2>1
  <2> QED BY <1>1, <1>4, <2>2, WriteKeeps
<1>8. CASE ~U!IsOpen(x)
  <2>1. uv[x].st = "closed"
    BY <1>6, <1>8 DEF U!IsOpen
  <2>2. uv' = [uv EXCEPT ![x].value = v] /\ U!Barrier({v}) /\ UNCHANGED stack
    BY <1>2, <1>5, <1>8
  <2> QED BY <1>1, <1>4, <2>1, <2>2, AssignKeeps
<1> QED BY <1>7, <1>8

\* Leaving a scope (luaF_close) keeps the invariant.
LEMMA LeaveScopeKeeps ==
  ASSUME U!IInv, U!LeaveScope
  PROVE  U!IInv'
<1>0. U!TypeOK /\ U!UpvaluesCounted /\ U!InPlace /\ U!NoDangling /\ U!AllListed /\ U!Marking
  BY DEF U!IInv
<1>1. Program /\ UNCHANGED <<upvals, alive>>
  BY DEF U!LeaveScope, U!Mutate, Program
<1>2. PICK t \in U!Accessible \cap U!Threads, l \in Levels :
        /\ U!Becomes(U!Close(t, l))
        /\ stack' = [stack EXCEPT ![t] = [x \in Levels |-> IF x >= l THEN U!Nil ELSE stack[t][x]]]
        /\ U!Barrier({U!ValueOf(w) : w \in {x \in Closing(t, l) : uv[x].count > 0}})
  BY DEF U!LeaveScope, Closing
<1> DEFINE vs == {U!ValueOf(w) : w \in {x \in Closing(t, l) : uv[x].count > 0}}
<1>3. t \in alive \cap U!Threads /\ l \in Nat /\ t \in U!Objs
  <2>1. t \in alive \ dead
    BY <1>0, AccessibleSafe
  <2> QED BY <2>1, UpvalAssumption, Kinds
<1>4. /\ \A o \in U!Threads \ {t} : stack'[o] = stack[o]
      /\ \A x \in Levels : x < l => stack'[t][x] = stack[t][x]
      /\ \A x \in Levels : stack'[t][x] \in {stack[t][x], U!Nil}
      /\ stack' \in [U!Threads -> [Levels -> U!Objs \cup {U!Nil}]]
  <2>1. stack[t] \in [Levels -> U!Objs \cup {U!Nil}] /\ Levels \subseteq Nat
    BY <1>0, <1>3, UpvalAssumption DEF U!TypeOK
  <2>2. stack'[t] = [x \in Levels |-> IF x >= l THEN U!Nil ELSE stack[t][x]]
    BY <1>0, <1>2, <1>3 DEF U!TypeOK
  <2>3. ASSUME NEW x \in Levels, x < l PROVE ~(x >= l)
    <3>1. x \in Nat
      BY <2>1
    <3> QED BY <1>3, <2>3, <3>1
  <2>4. \A x \in Levels : x < l => stack'[t][x] = stack[t][x]
    BY <2>2, <2>3
  <2>5. \A x \in Levels : stack'[t][x] \in {stack[t][x], U!Nil}
    BY <2>2
  <2>6. stack'[t] \in [Levels -> U!Objs \cup {U!Nil}]
    BY <2>1, <2>2
  <2>7. \A o \in U!Threads \ {t} : stack'[o] = stack[o]
    BY <1>0, <1>2 DEF U!TypeOK
  <2>8. stack' \in [U!Threads -> [Levels -> U!Objs \cup {U!Nil}]]
    BY <1>0, <1>2, <2>1, <2>2, <2>6 DEF U!TypeOK
  <2> QED BY <2>4, <2>5, <2>7, <2>8
<1>5. /\ twups' = twups /\ uv' \in [UpVals -> U!UpVal] /\ openupval' \in [U!Threads -> Seq(UpVals)]
      /\ \A o \in U!Threads \ {t} : openupval'[o] = openupval[o]
      /\ openupval'[t] # <<>> => openupval[t] # <<>>
      /\ \A w \in UpVals \ Closing(t, l) : uv'[w] = uv[w]
      /\ \A w \in Closing(t, l) : ~U!IsOpen(w)'
  BY <1>0, <1>2, <1>3, CloseFacts
<1>6. /\ U!UpvaluesCounted'
      /\ \A c \in alive \cap Closures : U!ValueOf(upvals[c])' = U!ValueOf(upvals[c])
      /\ \A c \in alive \cap Closures : U!IsOpen(upvals[c]) => upvals[c] \in Closing(t, l) \/ U!IsOpen(upvals[c])'
  BY <1>0, <1>1, <1>2, <1>3, <1>4, CloseKeeps
<1>7. \A w \in UpVals : U!IsOpen(w)' => w \notin Closing(t, l) /\ U!IsOpen(w) /\ uv'[w] = uv[w]
  BY <1>5 DEF U!IsOpen
<1> HIDE DEF vs
<1>8. /\ color' \in [U!Objs -> {"white", "gray", "black"}]
      /\ MoreGrayed /\ \A o \in U!Objs : Coloured(o)
      /\ gray \subseteq gray' /\ gray' \subseteq gray \cup (vs \cap U!Objs)
      /\ gcstate # "propagate" => gray' = gray
      /\ gcstate = "propagate" => \A o \in vs \cap U!Objs : color'[o] # "white"
  <2>1. U!Barrier(vs)
    BY <1>2 DEF vs
  <2> QED BY <1>0, <2>1, BarrierFacts
<1>9. U!TypeOK'
  BY <1>0, <1>1, <1>4, <1>5, <1>8 DEF U!TypeOK, Program
<1>10. U!InPlace'
  <2>1. \A w \in UpVals : U!IsOpen(w)' => uv'[w].th \in alive' \cap U!Threads /\ uv'[w].level \in Levels
    BY <1>0, <1>1, <1>7 DEF U!InPlace
  <2>2. \A o \in U!Threads \ alive' : \A x \in Levels : stack'[o][x] = U!Nil
    BY <1>0, <1>1, <1>3, <1>4 DEF U!InPlace
  <2>3. \A c \in alive' \cap Closures : upvals'[c] \in UpVals
    BY <1>0, <1>1 DEF U!InPlace
  <2> QED BY <2>1, <2>2, <2>3 DEF U!InPlace
<1>11. U!NoDangling'
  <2>1. ASSUME NEW o \in alive \ dead PROVE U!Refs(o)' \subseteq U!Refs(o)
    <3>1. o \in U!Objs
      BY <1>0 DEF U!TypeOK
    <3>2. CASE o \in U!Threads
      <4>1. \A x \in Levels : stack'[o][x] \in {stack[o][x], U!Nil}
        BY <1>4, <3>2
      <4> QED BY <3>2, <4>1, UpvalAssumption DEF U!Refs
    <3>3. CASE o \notin U!Threads
      <4>1. U!ValueOf(upvals[o])' = U!ValueOf(upvals[o])
        BY <1>6, <3>1, <3>3, Kinds
      <4> QED BY <3>3, <4>1 DEF U!Refs
    <3> QED BY <3>2, <3>3
  <2>2. \A o \in alive \ dead : U!Refs(o)' \subseteq alive \ dead
    BY <1>0, <2>1 DEF U!NoDangling
  <2> QED BY <1>0, <1>1, <1>8, <2>2 DEF U!NoDangling, Program
<1>12. U!Marking'
  <2> SUFFICES ASSUME gcstate = "propagate"
               PROVE  /\ U!Grayed(Main)' /\ gray' \subseteq alive' /\ grayagain \subseteq alive' \cap U!Threads
                      /\ \A c \in alive' \cap Closures : Shaded(c)'
                      /\ \A o \in alive' \cap U!Threads : color'[o] = "white" \/ o \in gray' \cup grayagain
    BY <1>1, StillMarking
  <2>1. vs \cap U!Objs \subseteq alive
    <3>1. ASSUME NEW w \in Closing(t, l) PROVE {U!ValueOf(w)} \cap U!Objs \subseteq alive
      <4>1. w \in UpVals /\ U!IsOpen(w) /\ uv[w].th = t
        BY DEF Closing
      <4>2. uv[w].level \in Levels /\ U!ValueOf(w) = stack[t][uv[w].level]
        BY <1>0, <4>1 DEF U!InPlace, U!ValueOf
      <4> QED BY <1>3, <4>2, RefsAlive
    <3> QED BY <3>1 DEF vs
  <2>2. U!Grayed(Main)' /\ gray' \subseteq alive' /\ grayagain \subseteq alive' \cap U!Threads
    BY <1>0, <1>1, <1>8, <2>1, Kinds, Propagating DEF MoreGrayed
  <2>3. ASSUME NEW o \in alive' \cap U!Threads PROVE color'[o] = "white" \/ o \in gray' \cup grayagain
    <3>1. o \in alive \cap U!Threads /\ o \in U!Objs
      BY <1>1, Kinds
    <3> QED BY <1>0, <1>8, <3>1, Propagating DEF Coloured
  <2>4. ASSUME NEW c \in alive \cap Closures PROVE Shaded(c)'
    <3>1. PICK w \in UpVals : w = upvals[c] /\ upvals'[c] = w
      BY <1>0, <1>1 DEF U!InPlace
    <3>2. Shaded(c) /\ c \in U!Objs /\ uv[w].count >= 1 /\ uv[w].count \in Nat
      BY <1>0, <3>1, Kinds, Propagating, Held
    <3>3. U!ValueOf(w)' = U!ValueOf(w) /\ (U!IsOpen(w) => w \in Closing(t, l) \/ U!IsOpen(w)')
      <4>1. U!ValueOf(upvals[c])' = U!ValueOf(upvals[c])
            /\ (U!IsOpen(upvals[c]) => upvals[c] \in Closing(t, l) \/ U!IsOpen(upvals[c])')
        BY <1>6
      <4> QED BY <3>1, <4>1 DEF U!ValueOf, U!IsOpen
    <3>4. ~U!IsOpen(w)' /\ (U!IsOpen(w) \/ U!Grayed(U!ValueOf(w))) => U!Grayed(U!ValueOf(w))'
      <4>1. CASE U!IsOpen(w) /\ ~U!IsOpen(w)'
        <5>1. w \in Closing(t, l) /\ uv[w].count > 0
          BY <3>2, <3>3, <4>1
        <5>2. U!ValueOf(w) \in vs
          BY <5>1 DEF vs
        <5> QED BY <1>8, <3>3, <5>2 DEF U!Grayed
      <4>2. CASE U!Grayed(U!ValueOf(w))
        BY <1>8, <3>3, <4>2 DEF U!Grayed, MoreGrayed
      <4> QED BY <4>1, <4>2
    <3>5. color'[c] = color[c] \/ (color'[c] = "gray" /\ c \in gray')
      BY <1>8, <3>2 DEF Coloured
    <3>6. (U!IsOpen(w)' => U!IsOpen(w)) /\ (U!IsOpen(w) /\ uv[w].touched => ~U!IsOpen(w)' \/ uv'[w].touched)
      BY <1>7, <3>1
    <3> QED BY <1>8, <3>1, <3>2, <3>4, <3>5, <3>6, ShadedStill
  <2> QED BY <1>1, <2>2, <2>3, <2>4
<1>13. U!AllListed'
  <2>1. \A o \in U!Threads : openupval'[o] # <<>> => openupval[o] # <<>>
    BY <1>5
  <2> QED BY <1>0, <1>1, <1>5, <2>1 DEF U!AllListed, U!Listed, Program
<1> QED BY <1>6, <1>9, <1>10, <1>11, <1>12, <1>13 DEF U!IInv

\* The two ways to an upvalue for a new closure: one that is there, or a new
\* open one in its place in the list.
Shares(x) == /\ uv[x].st # "free" /\ {U!ValueOf(x)} \cap U!Objs \subseteq U!Accessible
             /\ uv' = [uv EXCEPT ![x].count = uv[x].count + 1]
             /\ UNCHANGED <<openupval, twups>>
Opens(x, t, l) ==
  /\ uv[x].st = "free" /\ \A n \in 1 .. U!DownTo(t, l) : uv[openupval[t][n]].level > l
  /\ uv' \in [UpVals -> U!UpVal] /\ \A w \in UpVals \ {x} : uv'[w] = uv[w]
  /\ uv'[x].st = "open" /\ uv'[x].th = t /\ uv'[x].level = l /\ uv'[x].count = 1 /\ uv'[x].touched
  /\ openupval' = [openupval EXCEPT ![t] = U!InsertAt(openupval[t], U!DownTo(t, l) + 1, x)]
  /\ twups' = twups \cup {t}

\* luaF_findupval returns an upvalue that is there or opens a new one.
LEMMA FoundUpval ==
  ASSUME U!TypeOK, U!UpvaluesCounted, U!InPlace, U!NoDangling,
         NEW t \in U!Accessible \cap U!Threads, NEW l \in Levels, NEW f \in U!FindUpval(t, l),
         U!Becomes([f.F EXCEPT !.uv[f.u].count = @ + 1])
  PROVE  f.u \in UpVals /\ (Shares(f.u) \/ Opens(f.u, t, l))
<1> DEFINE s == openupval[t]
           k == U!DownTo(t, l)
<1>1. l \in Nat
  BY UpvalAssumption
<1>2. s \in Seq(UpVals) /\ k \in 0 .. Len(s) /\ Len(s) \in Nat /\ DOMAIN s = 1 .. Len(s)
  BY <1>1, DownToFacts DEF U!TypeOK
<1>3. \A n \in 1 .. k : uv[s[n]].level >= l
  BY <1>1, DownToFacts
<1>4. ListRight(t)
  BY Counted
<1>5. CASE k > 0 /\ uv[s[k]].level = l
  <2>1. f = [F |-> U!State, u |-> s[k]]
    BY <1>5 DEF U!FindUpval
  <2>2. k \in 1 .. Len(s) /\ s[k] \in UpVals /\ U!IsOpen(s[k]) /\ uv[s[k]].th = t
    BY <1>2, <1>4, <1>5 DEF ListRight
  <2>3. uv' = [uv EXCEPT ![s[k]].count = uv[s[k]].count + 1] /\ UNCHANGED <<openupval, twups>>
    BY <2>1 DEF U!Becomes, U!State
  <2>4. {U!ValueOf(s[k])} \cap U!Objs \subseteq U!Accessible
    <3>1. U!ValueOf(s[k]) = stack[t][l]
      BY <1>5, <2>2 DEF U!ValueOf
    <3>2. U!Refs(t) \subseteq U!Accessible
      BY AccessibleClosed
    <3> QED BY <3>1, <3>2 DEF U!Refs
  <2>5. f.u = s[k] /\ uv[s[k]].st # "free"
    BY <2>1, <2>2 DEF U!IsOpen
  <2> HIDE DEF s, k
  <2> QED BY <2>2, <2>3, <2>4, <2>5 DEF Shares
<1>6. CASE ~(k > 0 /\ uv[s[k]].level = l)
  <2>1. PICK x \in UpVals :
          /\ uv[x].st = "free"
          /\ f = [F |-> [uv    |-> [uv EXCEPT ![x] = [U!Freed EXCEPT !.st = "open", !.th = t, !.level = l, !.touched = TRUE]],
                         open  |-> [openupval EXCEPT ![t] = U!InsertAt(s, k + 1, x)],
                         twups |-> twups \cup {t}],
                  u |-> x]
    BY <1>6 DEF U!FindUpval
  <2>2. f.u = x
    BY <2>1
  <2>3. openupval' = [openupval EXCEPT ![t] = U!InsertAt(s, k + 1, x)] /\ twups' = twups \cup {t}
    BY <2>1 DEF U!Becomes
  <2>4. /\ uv' \in [UpVals -> U!UpVal] /\ \A w \in UpVals \ {x} : uv'[w] = uv[w]
        /\ uv'[x].st = "open" /\ uv'[x].th = t /\ uv'[x].level = l /\ uv'[x].count = 1 /\ uv'[x].touched
    <3> DEFINE r == [U!Freed EXCEPT !.st = "open", !.th = t, !.level = l, !.touched = TRUE]
               g == [uv EXCEPT ![x] = r]
    <3>1. f.F.uv = g /\ g[x] = r
      BY <2>1 DEF U!TypeOK
    <3>2. /\ r.st = "open" /\ r.th = t /\ r.level = l /\ r.count = 0 /\ r.touched
          /\ r \in U!UpVal
      BY <1>1, Kinds DEF U!Freed, U!UpVal
    <3>3. uv' = [f.F.uv EXCEPT ![x].count = f.F.uv[x].count + 1]
      BY <2>1 DEF U!Becomes
    <3>4. g \in [UpVals -> U!UpVal] /\ \A w \in UpVals \ {x} : g[w] = uv[w]
      BY <3>2 DEF U!TypeOK
    <3> HIDE DEF g
    <3>5. uv' = [g EXCEPT ![x] = [r EXCEPT !.count = r.count + 1]]
      BY <3>1, <3>3
    <3>6. uv'[x] = [r EXCEPT !.count = r.count + 1] /\ \A w \in UpVals \ {x} : uv'[w] = g[w]
      BY <3>4, <3>5
    <3> HIDE DEF r
    <3>7. /\ uv'[x] \in U!UpVal /\ uv'[x].st = "open" /\ uv'[x].th = t /\ uv'[x].level = l
          /\ uv'[x].count = 1 /\ uv'[x].touched
      BY <3>2, <3>6 DEF U!UpVal
    <3>8. uv' \in [UpVals -> U!UpVal]
      BY <3>4, <3>5, <3>6, <3>7
    <3> QED BY <3>4, <3>6, <3>7, <3>8
  <2>5. \A n \in 1 .. k : uv[s[n]].level > l
    <3> SUFFICES ASSUME NEW n \in 1 .. k PROVE uv[s[n]].level > l
      OBVIOUS
    <3>1. n \in 1 .. Len(s) /\ k \in 1 .. Len(s) /\ k > 0 /\ (n = k \/ n < k)
      BY <1>2
    <3>2. uv[s[n]].level \in Nat /\ uv[s[k]].level \in Nat
      BY <1>2, <3>1 DEF U!TypeOK, U!UpVal
    <3>3. uv[s[k]].level > l
      <4>1. k \in 1 .. k
        BY <3>1
      <4>2. uv[s[k]].level >= l /\ uv[s[k]].level # l
        BY <1>3, <1>6, <3>1, <4>1
      <4> QED BY <1>1, <3>2, <4>2
    <3>4. n < k => uv[s[n]].level > uv[s[k]].level
      BY <1>2, <1>4, <3>1 DEF ListRight
    <3> QED BY <1>1, <3>1, <3>2, <3>3, <3>4
  <2> QED BY <2>1, <2>2, <2>3, <2>4, <2>5 DEF Opens
<1> QED BY <1>5, <1>6

\* A new upvalue goes to its place in the list.
LEMMA OpensList ==
  ASSUME U!TypeOK, U!UpvaluesCounted, NEW x \in UpVals, NEW t \in U!Threads, NEW l \in Levels, Opens(x, t, l)
  PROVE  /\ openupval' \in [U!Threads -> Seq(UpVals)] /\ \A o \in U!Threads \ {t} : openupval'[o] = openupval[o]
         /\ \A o \in U!Threads : ListRight(o)'
<1> DEFINE s == openupval[t]
           k == U!DownTo(t, l)
           s2 == U!InsertAt(s, k + 1, x)
           N == Len(s)
<1>0. l \in Nat
  BY UpvalAssumption
<1>1. s \in Seq(UpVals) /\ N \in Nat /\ k \in 0 .. N /\ DOMAIN s = 1 .. N
  BY <1>0, DownToFacts DEF U!TypeOK
<1>2. k < N => uv[s[k + 1]].level < l
  BY <1>0, DownToFacts
<1>3. /\ uv[x].st = "free" /\ \A n \in 1 .. k : uv[s[n]].level > l
      /\ \A w \in UpVals \ {x} : uv'[w] = uv[w]
      /\ uv'[x].st = "open" /\ uv'[x].th = t /\ uv'[x].level = l
      /\ openupval' = [openupval EXCEPT ![t] = s2]
  BY DEF Opens
<1>4. ListRight(t)
  BY Counted
<1>5. \A n \in 1 .. N : /\ s[n] \in UpVals \ {x} /\ uv[s[n]].st = "open" /\ uv[s[n]].th = t
                        /\ uv[s[n]].level \in Nat
  <2> SUFFICES ASSUME NEW n \in 1 .. N
               PROVE  s[n] \in UpVals \ {x} /\ uv[s[n]].st = "open" /\ uv[s[n]].th = t
                      /\ uv[s[n]].level \in Nat
    OBVIOUS
  <2>1. s[n] \in {w \in UpVals : U!IsOpen(w) /\ uv[w].th = t}
    BY <1>1, <1>4 DEF ListRight
  <2>2. s[n] \in UpVals /\ uv[s[n]].st = "open" /\ uv[s[n]].th = t
    BY <2>1 DEF U!IsOpen
  <2>3. uv[s[n]] \in U!UpVal
    BY <2>2 DEF U!TypeOK
  <2>4. uv[s[n]].level \in Nat
    BY <2>3 DEF U!UpVal
  <2>5. s[n] # x
    BY <1>3, <2>2
  <2> QED BY <2>2, <2>4, <2>5
<1>6. \A m, n \in 1 .. N : m < n => uv[s[m]].level > uv[s[n]].level
  BY <1>1, <1>4 DEF ListRight
<1>7. \A w \in UpVals : U!IsOpen(w) /\ uv[w].th = t => \E n \in 1 .. N : w = s[n]
  BY <1>1, <1>4 DEF ListRight
<1>8. /\ s2 \in Seq(UpVals) /\ Len(s2) = N + 1
      /\ \A n \in 1 .. k : s2[n] = s[n]
      /\ s2[k + 1] = x
      /\ \A n \in k + 2 .. N + 1 : s2[n] = s[n - 1]
  <2>1. N = Len(s) /\ s2 = U!InsertAt(s, k + 1, x)
    OBVIOUS
  <2> HIDE DEF s, k, N, s2
  <2>2. /\ U!InsertAt(s, k + 1, x) \in Seq(UpVals)
        /\ Len(U!InsertAt(s, k + 1, x)) = Len(s) + 1
        /\ \A n \in 1 .. k : U!InsertAt(s, k + 1, x)[n] = s[n]
        /\ U!InsertAt(s, k + 1, x)[k + 1] = x
        /\ \A n \in k + 2 .. Len(s) + 1 : U!InsertAt(s, k + 1, x)[n] = s[n - 1]
    BY <1>1, <2>1, Inserted
  <2> QED BY <2>1, <2>2
<1>9. openupval' \in [U!Threads -> Seq(UpVals)] /\ openupval'[t] = s2
       /\ \A o \in U!Threads \ {t} : openupval'[o] = openupval[o]
  BY <1>3, <1>8 DEF U!TypeOK
<1> HIDE DEF s2
<1>10. DOMAIN s2 = 1 .. N + 1
  <2>1. DOMAIN s2 = 1 .. Len(s2)
    BY <1>8
  <2> QED BY <1>8, <2>1
<1> HIDE DEF s, k, N
<1>11. ASSUME NEW n \in k + 1 .. N PROVE uv[s[n]].level < l
  <2>1. k + 1 \in 1 .. N /\ n \in 1 .. N /\ k < N /\ (n = k + 1 \/ k + 1 < n)
    BY <1>1
  <2>2. uv[s[k + 1]].level < l /\ uv[s[n]].level \in Nat /\ uv[s[k + 1]].level \in Nat
    BY <1>2, <1>5, <2>1
  <2>3. n = k + 1 \/ uv[s[k + 1]].level > uv[s[n]].level
    BY <1>6, <2>1
  <2> QED BY <1>0, <2>2, <2>3
<1>12. ASSUME NEW n \in 1 .. k
       PROVE  /\ n \in 1 .. N /\ s2[n] = s[n] /\ uv'[s2[n]] = uv[s[n]] /\ s2[n] \in UpVals
              /\ uv[s[n]].st = "open" /\ uv[s[n]].th = t /\ uv[s[n]].level > l
  <2>1. n \in 1 .. N
    BY <1>1
  <2>2. s2[n] = s[n] /\ s[n] \in UpVals \ {x}
    BY <1>5, <1>8, <2>1
  <2> QED BY <1>3, <1>5, <2>1, <2>2
<1>13. ASSUME NEW n \in k + 2 .. N + 1
       PROVE  /\ n - 1 \in 1 .. N /\ s2[n] = s[n - 1] /\ uv'[s2[n]] = uv[s[n - 1]] /\ s2[n] \in UpVals
              /\ uv[s[n - 1]].st = "open" /\ uv[s[n - 1]].th = t /\ uv[s[n - 1]].level < l
  <2>1. n - 1 \in 1 .. N /\ n - 1 \in k + 1 .. N
    BY <1>1
  <2>2. s2[n] = s[n - 1] /\ s[n - 1] \in UpVals \ {x}
    BY <1>5, <1>8, <2>1
  <2> QED BY <1>3, <1>5, <1>11, <2>1, <2>2
<1>14. ASSUME NEW n \in 1 .. N + 1 PROVE n \in 1 .. k \/ n = k + 1 \/ n \in k + 2 .. N + 1
  BY <1>1
<1>15. ASSUME NEW n \in 1 .. N + 1
       PROVE  s2[n] \in UpVals /\ uv'[s2[n]].st = "open" /\ uv'[s2[n]].th = t
  <2>1. CASE n \in 1 .. k
    BY <1>12, <2>1
  <2>2. CASE n = k + 1
    BY <1>3, <1>8, <2>2
  <2>3. CASE n \in k + 2 .. N + 1
    BY <1>13, <2>3
  <2> QED BY <1>14, <2>1, <2>2, <2>3
<1>16. ASSUME NEW w \in UpVals, uv'[w].st = "open", uv'[w].th = t
       PROVE  \E n \in 1 .. N + 1 : s2[n] = w
  <2>1. CASE w = x
    <3>1. k + 1 \in 1 .. N + 1
      BY <1>1
    <3> QED BY <1>8, <2>1, <3>1
  <2>2. CASE w # x
    <3>1. uv'[w] = uv[w]
      BY <1>3, <2>2
    <3>2. PICK n \in 1 .. N : w = s[n]
      BY <1>7, <1>16, <3>1 DEF U!IsOpen
    <3>3. CASE n \in 1 .. k
      <4>1. n \in 1 .. N + 1
        BY <1>1
      <4> QED BY <1>12, <3>2, <3>3, <4>1
    <3>4. CASE n \notin 1 .. k
      <4>1. n + 1 \in k + 2 .. N + 1 /\ n + 1 \in 1 .. N + 1 /\ (n + 1) - 1 = n
        BY <1>1, <3>4
      <4>2. s2[n + 1] = s[(n + 1) - 1]
        BY <1>13, <4>1
      <4> QED BY <3>2, <4>1, <4>2
    <3> QED BY <3>3, <3>4
  <2> QED BY <2>1, <2>2
<1>17. ASSUME NEW m \in 1 .. N + 1, NEW n \in 1 .. N + 1, m < n
       PROVE  uv'[s2[m]].level > uv'[s2[n]].level
  <2>1. CASE m \in 1 .. k /\ n \in 1 .. k
    <3>1. uv[s[m]].level > uv[s[n]].level
      BY <1>6, <1>12, <1>17, <2>1
    <3> QED BY <1>12, <2>1, <3>1
  <2>2. CASE m \in 1 .. k /\ n = k + 1
    <3>1. uv'[s2[m]].level > l
      BY <1>12, <2>2
    <3> QED BY <1>3, <1>8, <2>2, <3>1
  <2>3. CASE m \in 1 .. k /\ n \in k + 2 .. N + 1
    <3>1. uv'[s2[m]].level > l /\ uv'[s2[m]].level \in Nat
      BY <1>5, <1>12, <2>3
    <3>2. uv'[s2[n]].level < l /\ uv'[s2[n]].level \in Nat
      BY <1>5, <1>13, <2>3
    <3> QED BY <1>0, <3>1, <3>2
  <2>4. CASE m = k + 1 /\ n \in k + 2 .. N + 1
    <3>1. uv'[s2[n]].level < l /\ uv'[s2[n]].level \in Nat
      BY <1>5, <1>13, <2>4
    <3>2. uv'[s2[m]].level = l
      BY <1>3, <1>8, <2>4
    <3> QED BY <1>0, <3>1, <3>2
  <2>5. CASE m \in k + 2 .. N + 1 /\ n \in k + 2 .. N + 1
    <3>1. m - 1 < n - 1
      BY <1>1, <1>17
    <3>2. uv[s[m - 1]].level > uv[s[n - 1]].level
      BY <1>6, <1>13, <2>5, <3>1
    <3> QED BY <1>13, <2>5, <3>2
  <2>6. ~(m = k + 1 /\ n = k + 1) /\ ~(m = k + 1 /\ n \in 1 .. k) /\ ~(m \in k + 2 .. N + 1 /\ n \in 1 .. k)
        /\ ~(m \in k + 2 .. N + 1 /\ n = k + 1)
    BY <1>1, <1>17
  <2> QED BY <1>14, <2>1, <2>2, <2>3, <2>4, <2>5, <2>6
<1>18. ListRight(t)'
  <2>1. {s2[n] : n \in 1 .. N + 1} = {w \in UpVals : U!IsOpen(w)' /\ uv'[w].th = t}
    <3>1. \A n \in 1 .. N + 1 : s2[n] \in {w \in UpVals : U!IsOpen(w)' /\ uv'[w].th = t}
      BY <1>15 DEF U!IsOpen
    <3>2. \A w \in UpVals : U!IsOpen(w)' /\ uv'[w].th = t => w \in {s2[n] : n \in 1 .. N + 1}
      BY <1>16 DEF U!IsOpen
    <3> QED BY <3>1, <3>2
  <2> QED BY <1>9, <1>10, <1>17, <2>1 DEF ListRight
<1>19. ASSUME NEW o \in U!Threads \ {t} PROVE ListRight(o)'
  <2>1. ListRight(o) /\ openupval'[o] = openupval[o]
    BY <1>9, Counted
  <2>2. \A w \in UpVals : (U!IsOpen(w) /\ uv[w].th = o) <=> (U!IsOpen(w)' /\ uv'[w].th = o)
    BY <1>3 DEF U!IsOpen
  <2>3. \A w \in UpVals : U!IsOpen(w) /\ uv[w].th = o => uv'[w].level = uv[w].level
    BY <1>3 DEF U!IsOpen
  <2> QED BY <2>1, <2>2, <2>3, ListStays
<1> QED BY <1>9, <1>18, <1>19

\* What both ways have in common.
LEMMA Obtained ==
  ASSUME U!IInv, NEW x \in UpVals, NEW t \in (alive \ dead) \cap U!Threads, NEW l \in Levels,
         Shares(x) \/ Opens(x, t, l)
  PROVE  /\ uv' \in [UpVals -> U!UpVal] /\ \A w \in UpVals \ {x} : uv'[w] = uv[w]
         /\ uv'[x].st \in {"open", "closed"}
         /\ uv'[x].count = U!Cardinality(Holders(x)) + 1
         /\ uv[x].st # "free" => /\ uv'[x].st = uv[x].st /\ uv'[x].th = uv[x].th /\ uv'[x].level = uv[x].level
                                 /\ uv'[x].value = uv[x].value /\ uv'[x].touched = uv[x].touched
         /\ uv'[x].st = "open" => uv'[x].th \in alive \cap U!Threads /\ uv'[x].level \in Levels
         /\ uv[x].st = "free" => uv'[x].st = "open" /\ uv'[x].th = t /\ uv'[x].level = l
         /\ uv[x].st # "free" => {U!ValueOf(x)} \cap U!Objs \subseteq alive \ dead
         /\ openupval' \in [U!Threads -> Seq(UpVals)] /\ twups' \subseteq U!Threads
         /\ \A o \in U!Threads : ListRight(o)' /\ (U!Listed(o) => U!Listed(o)')
<1>0. U!TypeOK /\ U!UpvaluesCounted /\ U!InPlace
  BY DEF U!IInv
<1>1. uv[x] \in U!UpVal /\ CountRight(x)
  BY <1>0, Counted DEF U!TypeOK
<1>2. CASE Shares(x)
  <2>1. uv[x].st # "free" /\ uv' = [uv EXCEPT ![x].count = uv[x].count + 1] /\ UNCHANGED <<openupval, twups>>
        /\ {U!ValueOf(x)} \cap U!Objs \subseteq alive \ dead
    BY <1>0, <1>2, AccessibleSafe DEF Shares, U!IInv
  <2>2. uv'[x] = [uv[x] EXCEPT !.count = uv[x].count + 1] /\ \A w \in UpVals \ {x} : uv'[w] = uv[w]
    BY <1>0, <2>1 DEF U!TypeOK
  <2>3. /\ uv'[x] \in U!UpVal /\ uv'[x].st = uv[x].st /\ uv'[x].th = uv[x].th /\ uv'[x].level = uv[x].level
        /\ uv'[x].value = uv[x].value /\ uv'[x].touched = uv[x].touched /\ uv'[x].count = uv[x].count + 1
    BY <1>1, <2>2 DEF U!UpVal
  <2>4. uv'[x].st \in {"open", "closed"} /\ uv'[x].count = U!Cardinality(Holders(x)) + 1
    BY <1>1, <2>1, <2>3 DEF CountRight, U!UpVal
  <2>5. uv' \in [UpVals -> U!UpVal]
    BY <1>0, <2>1, <2>2, <2>3 DEF U!TypeOK
  <2>6. ASSUME NEW o \in U!Threads PROVE ListRight(o)'
    <3>1. ListRight(o)
      BY <1>0, Counted
    <3>2. \A w \in UpVals : uv'[w].st = uv[w].st /\ uv'[w].th = uv[w].th /\ uv'[w].level = uv[w].level
      BY <2>2, <2>3
    <3> QED BY <1>0, <2>1, <3>1, <3>2, ListStays DEF U!IsOpen
  <2>7. uv'[x].st = "open" => uv'[x].th \in alive \cap U!Threads /\ uv'[x].level \in Levels
    BY <1>0, <2>3 DEF U!InPlace, U!IsOpen
  <2>8. openupval' \in [U!Threads -> Seq(UpVals)] /\ twups' \subseteq U!Threads
    BY <1>0, <2>1 DEF U!TypeOK
  <2>9. \A o \in U!Threads : U!Listed(o) => U!Listed(o)'
    BY <2>1 DEF U!Listed
  <2> QED BY <2>1, <2>2, <2>3, <2>4, <2>5, <2>6, <2>7, <2>8, <2>9
<1>3. CASE Opens(x, t, l)
  <2>1. /\ uv[x].st = "free" /\ twups' = twups \cup {t}
        /\ uv' \in [UpVals -> U!UpVal] /\ \A w \in UpVals \ {x} : uv'[w] = uv[w]
        /\ uv'[x].st = "open" /\ uv'[x].th = t /\ uv'[x].level = l /\ uv'[x].count = 1
    BY <1>3 DEF Opens
  <2>2. U!Cardinality(Holders(x)) = 0
    <3>1. Holders(x) = {}
      BY <1>0, <2>1, Held DEF Holders
    <3> QED BY <3>1, SameCardinality, FS_EmptySet
  <2>3. /\ openupval' \in [U!Threads -> Seq(UpVals)] /\ \A o \in U!Threads \ {t} : openupval'[o] = openupval[o]
        /\ \A o \in U!Threads : ListRight(o)'
    BY <1>0, <1>3, OpensList
  <2>4. \A o \in U!Threads : U!Listed(o) => U!Listed(o)'
    BY <2>1, <2>3 DEF U!Listed
  <2> QED BY <1>0, <2>1, <2>2, <2>3, <2>4 DEF U!TypeOK
<1> QED BY <1>2, <1>3

\* pushclosure gets its upvalue in one of the two ways.
LEMMA PushClosureWays ==
  ASSUME U!IInv, U!PushClosure
  PROVE  \E c \in Closures \ alive, t \in U!Accessible \cap U!Threads, dst \in Levels, x \in UpVals, l \in Levels :
           /\ Shares(x) \/ Opens(x, t, l)
           /\ upvals' = [upvals EXCEPT ![c] = x]
           /\ stack' = [stack EXCEPT ![t][dst] = c]
           /\ alive' = alive \cup {c} /\ color' = [color EXCEPT ![c] = "white"]
<1>0. U!TypeOK /\ U!UpvaluesCounted /\ U!InPlace /\ U!NoDangling
  BY DEF U!IInv
<1>1. PICK c \in Closures \ alive, t \in U!Accessible \cap U!Threads, dst \in Levels :
        /\ \E f \in (UNION {U!FindUpval(t, l) : l \in Levels})
                  \cup {[F |-> U!State, u |-> upvals[e]] : e \in U!Accessible \cap Closures} :
             /\ U!Becomes([f.F EXCEPT !.uv[f.u].count = @ + 1])
             /\ upvals' = [upvals EXCEPT ![c] = f.u]
        /\ stack' = [stack EXCEPT ![t][dst] = c]
        /\ alive' = alive \cup {c} /\ color' = [color EXCEPT ![c] = "white"]
  BY DEF U!PushClosure
<1>2. U!Accessible \subseteq alive \ dead
  BY <1>0, AccessibleSafe
<1>3. PICK f \in (UNION {U!FindUpval(t, l) : l \in Levels})
                  \cup {[F |-> U!State, u |-> upvals[e]] : e \in U!Accessible \cap Closures} :
        /\ U!Becomes([f.F EXCEPT !.uv[f.u].count = @ + 1])
        /\ upvals' = [upvals EXCEPT ![c] = f.u]
  BY <1>1
<1>4. CASE f \in UNION {U!FindUpval(t, l) : l \in Levels}
  <2>1. PICK l \in Levels : f \in U!FindUpval(t, l)
    BY <1>4
  <2>2. f.u \in UpVals /\ (Shares(f.u) \/ Opens(f.u, t, l))
    BY <1>0, <1>3, <2>1, FoundUpval
  <2> QED BY <1>1, <1>3, <2>2
<1>5. CASE f \in {[F |-> U!State, u |-> upvals[e]] : e \in U!Accessible \cap Closures}
  <2>1. PICK e \in U!Accessible \cap Closures : f = [F |-> U!State, u |-> upvals[e]]
    BY <1>5
  <2>2. e \in (alive \ dead) \cap Closures /\ e \in U!Objs /\ e \notin U!Threads
    BY <1>2, Kinds
  <2>3. PICK x \in UpVals : x = upvals[e]
    BY <1>0, <2>2, Held
  <2>4. f.u = x /\ f.F = U!State
    BY <2>1, <2>3
  <2>5. uv' = [uv EXCEPT ![x].count = uv[x].count + 1] /\ UNCHANGED <<openupval, twups>>
    BY <1>3, <2>4 DEF U!Becomes, U!State
  <2>6. uv[x].st # "free"
    BY <1>0, <2>2, <2>3, Held
  <2>7. {U!ValueOf(x)} \cap U!Objs \subseteq U!Accessible
    <3>1. U!Refs(e) \subseteq U!Accessible
      BY <2>1, AccessibleClosed
    <3> QED BY <2>2, <2>3, <3>1 DEF U!Refs
  <2>8. Shares(x)
    BY <2>5, <2>6, <2>7 DEF Shares
  <2> QED BY <1>1, <1>3, <2>4, <2>8
<1> QED BY <1>3, <1>4, <1>5, ZenonT(30)

\* pushclosure keeps the invariant.
LEMMA PushClosureKeeps ==
  ASSUME U!IInv, U!PushClosure
  PROVE  U!IInv'
<1>0. U!TypeOK /\ U!UpvaluesCounted /\ U!InPlace /\ U!NoDangling /\ U!AllListed /\ U!Marking
  BY DEF U!IInv
<1>1. Program /\ gray' = gray
  BY DEF U!PushClosure, U!Mutate, Program
<1>2. PICK c \in Closures \ alive, t \in (alive \ dead) \cap U!Threads, dst \in Levels, x \in UpVals, l \in Levels :
        /\ Shares(x) \/ Opens(x, t, l)
        /\ upvals' = [upvals EXCEPT ![c] = x]
        /\ stack' = [stack EXCEPT ![t][dst] = c]
        /\ alive' = alive \cup {c} /\ color' = [color EXCEPT ![c] = "white"]
  <2>1. U!Accessible \cap U!Threads \subseteq (alive \ dead) \cap U!Threads
    BY <1>0, AccessibleSafe
  <2> QED BY <2>1, PushClosureWays
<1>3. c \in U!Objs /\ c \notin U!Threads /\ c \notin dead /\ c # Main
  BY <1>0, Kinds DEF U!NoDangling
<1>4. /\ uv' \in [UpVals -> U!UpVal] /\ \A w \in UpVals \ {x} : uv'[w] = uv[w]
      /\ uv'[x].st \in {"open", "closed"}
      /\ uv'[x].count = U!Cardinality(Holders(x)) + 1
      /\ uv[x].st # "free" => /\ uv'[x].st = uv[x].st /\ uv'[x].th = uv[x].th /\ uv'[x].level = uv[x].level
                              /\ uv'[x].value = uv[x].value /\ uv'[x].touched = uv[x].touched
      /\ uv'[x].st = "open" => uv'[x].th \in alive \cap U!Threads /\ uv'[x].level \in Levels
      /\ uv[x].st = "free" => uv'[x].st = "open" /\ uv'[x].th = t /\ uv'[x].level = l
      /\ uv[x].st # "free" => {U!ValueOf(x)} \cap U!Objs \subseteq alive \ dead
      /\ openupval' \in [U!Threads -> Seq(UpVals)] /\ twups' \subseteq U!Threads
      /\ \A o \in U!Threads : ListRight(o)' /\ (U!Listed(o) => U!Listed(o)')
  BY <1>2, Obtained
<1>5. /\ upvals'[c] = x /\ \A d \in Closures \ {c} : upvals'[d] = upvals[d]
      /\ upvals' \in [Closures -> UpVals \cup {U!None}]
  BY <1>0, <1>2 DEF U!TypeOK
<1>6. /\ \A o \in U!Threads \ {t} : stack'[o] = stack[o]
      /\ \A y \in Levels : stack'[t][y] \in {stack[t][y], c}
      /\ stack' \in [U!Threads -> [Levels -> U!Objs \cup {U!Nil}]]
  BY <1>0, <1>2, <1>3 DEF U!TypeOK
<1>7. /\ \A o \in U!Objs \ {c} : color'[o] = color[o]
      /\ color'[c] = "white" /\ color' \in [U!Objs -> {"white", "gray", "black"}]
  BY <1>0, <1>2, <1>3 DEF U!TypeOK
<1>8. /\ alive' \cap Closures = (alive \cap Closures) \cup {c} /\ alive' \cap U!Threads = alive \cap U!Threads
      /\ c \notin alive
  BY <1>2, <1>3
<1>9. Holders(x)' = Holders(x) \cup {c} /\ c \notin Holders(x) /\ \A w \in UpVals \ {x} : Holders(w)' = Holders(w)
  BY <1>5, <1>8 DEF Holders
\* An upvalue that is there stays what it is, but for its count.
<1>10. ASSUME NEW w \in UpVals, uv[w].st # "free"
       PROVE  /\ uv'[w].st = uv[w].st /\ uv'[w].th = uv[w].th /\ uv'[w].level = uv[w].level
              /\ uv'[w].value = uv[w].value /\ uv'[w].touched = uv[w].touched
              /\ U!IsOpen(w)' <=> U!IsOpen(w)
              /\ U!ValueOf(w)' \in {U!ValueOf(w), c}
              /\ ~U!IsOpen(w) => U!ValueOf(w)' = U!ValueOf(w)
  <2>1. /\ uv'[w].st = uv[w].st /\ uv'[w].th = uv[w].th /\ uv'[w].level = uv[w].level
        /\ uv'[w].value = uv[w].value /\ uv'[w].touched = uv[w].touched
    <3>1. CASE w = x
      BY <1>4, <1>10, <3>1
    <3>2. CASE w # x
      BY <1>4, <3>2
    <3> QED BY <3>1, <3>2
  <2>2. U!IsOpen(w)' <=> U!IsOpen(w)
    BY <2>1 DEF U!IsOpen
  <2>3. CASE U!IsOpen(w)
    <3>1. uv[w].th \in U!Threads /\ uv[w].level \in Levels
      BY <1>0, <2>3 DEF U!InPlace
    <3>2. stack'[uv[w].th][uv[w].level] \in {stack[uv[w].th][uv[w].level], c}
      BY <1>6, <3>1
    <3> QED BY <2>1, <2>2, <2>3, <3>2 DEF U!ValueOf
  <2>4. CASE ~U!IsOpen(w)
    BY <2>1, <2>2, <2>4 DEF U!ValueOf
  <2> QED BY <2>1, <2>2, <2>3, <2>4
<1>11. {U!ValueOf(x)'} \cap U!Objs \subseteq (alive \ dead) \cup {c}
  <2>1. CASE uv[x].st # "free"
    BY <1>4, <1>10, <2>1
  <2>2. CASE uv[x].st = "free"
    <3>1. U!ValueOf(x)' = stack'[t][l]
      BY <1>4, <2>2 DEF U!ValueOf, U!IsOpen
    <3>2. stack'[t][l] \in {stack[t][l], c}
      BY <1>6
    <3>3. U!Refs(t) \subseteq alive \ dead
      BY <1>0 DEF U!NoDangling
    <3>4. {stack[t][l]} \cap U!Objs \subseteq alive \ dead
      BY <3>3 DEF U!Refs
    <3> QED BY <3>1, <3>2, <3>4
  <2> QED BY <2>1, <2>2
<1>12. ASSUME NEW d \in alive \cap Closures
       PROVE  \E w \in UpVals : w = upvals[d] /\ w = upvals'[d] /\ uv[w].st # "free"
  BY <1>0, <1>5, <1>8, Held
<1>13. U!UpvaluesCounted'
  <2>1. ASSUME NEW w \in UpVals PROVE CountRight(w)' /\ (uv[w].st = "closed" => uv[w].count > 0)'
    <3>1. CASE w = x
      <4>1. Holders(x) \subseteq U!Objs
        BY <1>0 DEF Holders, U!TypeOK
      <4>2. U!Cardinality(Holders(x) \cup {c}) = U!Cardinality(Holders(x)) + 1 /\ U!Cardinality(Holders(x)) \in Nat
        BY <1>3, <1>9, <4>1, OneMore, HoldersFinite
      <4>3. uv'[x].count = U!Cardinality(Holders(x)') /\ uv'[x].count > 0
        BY <1>4, <1>9, <4>2
      <4> QED BY <3>1, <4>3 DEF CountRight
    <3>2. CASE w # x
      <4>1. CountRight(w) /\ (uv[w].st = "closed" => uv[w].count > 0) /\ uv'[w] = uv[w] /\ Holders(w)' = Holders(w)
        BY <1>0, <1>4, <1>9, <3>2, Counted
      <4> QED BY <4>1 DEF CountRight
    <3> QED BY <3>1, <3>2
  <2>2. ASSUME NEW d \in alive' \cap Closures PROVE uv'[upvals'[d]].st # "free"
    <3>1. CASE d = c
      BY <1>4, <1>5, <3>1
    <3>2. CASE d # c
      <4>1. d \in alive \cap Closures
        BY <1>8, <3>2
      <4> QED BY <1>10, <1>12, <4>1
    <3> QED BY <3>1, <3>2
  <2> QED BY <1>4, <2>1, <2>2 DEF U!UpvaluesCounted, CountRight, Holders, ListRight
<1>14. U!TypeOK'
  BY <1>0, <1>1, <1>2, <1>3, <1>4, <1>5, <1>6, <1>7 DEF U!TypeOK, Program
<1>15. U!InPlace'
  <2>1. ASSUME NEW w \in UpVals, U!IsOpen(w)' PROVE uv'[w].th \in alive' \cap U!Threads /\ uv'[w].level \in Levels
    <3>1. CASE w = x
      BY <1>4, <1>8, <2>1, <3>1 DEF U!IsOpen
    <3>2. CASE w # x
      <4>1. uv'[w] = uv[w] /\ U!IsOpen(w)
        BY <1>4, <2>1, <3>2 DEF U!IsOpen
      <4> QED BY <1>0, <1>8, <4>1 DEF U!InPlace
    <3> QED BY <3>1, <3>2
  <2>2. \A d \in alive' \cap Closures : upvals'[d] \in UpVals
    BY <1>0, <1>5, <1>8 DEF U!InPlace
  <2>3. \A o \in U!Threads \ alive' : \A y \in Levels : stack'[o][y] = U!Nil
    BY <1>0, <1>2, <1>6 DEF U!InPlace
  <2> QED BY <2>1, <2>2, <2>3 DEF U!InPlace
<1>16. U!NoDangling'
  <2>1. ASSUME NEW o \in alive \ dead PROVE U!Refs(o)' \subseteq U!Refs(o) \cup {c}
    <3>1. o \in U!Objs
      BY <1>0 DEF U!TypeOK
    <3>2. CASE o \in U!Threads
      <4>1. \A y \in Levels : stack'[o][y] \in {stack[o][y], c}
        BY <1>6, <3>2
      <4> QED BY <3>2, <4>1 DEF U!Refs
    <3>3. CASE o \notin U!Threads
      <4>1. o \in alive \cap Closures
        BY <3>1, <3>3, Kinds
      <4>2. PICK w \in UpVals : w = upvals[o] /\ w = upvals'[o] /\ uv[w].st # "free"
        BY <1>12, <4>1
      <4>3. U!ValueOf(w)' \in {U!ValueOf(w), c}
        BY <1>10, <4>2
      <4>4. U!ValueOf(upvals[o])' \in {U!ValueOf(upvals[o]), c}
        BY <4>2, <4>3 DEF U!ValueOf, U!IsOpen
      <4> QED BY <3>3, <4>4 DEF U!Refs
    <3> QED BY <3>2, <3>3
  <2>2. U!Refs(c)' \subseteq (alive \ dead) \cup {c}
    <3>1. U!ValueOf(upvals[c])' = U!ValueOf(x)'
      BY <1>5 DEF U!ValueOf, U!IsOpen
    <3> QED BY <1>3, <1>11, <3>1 DEF U!Refs
  <2>3. alive' \ dead' = (alive \ dead) \cup {c} /\ dead' \subseteq alive'
    BY <1>0, <1>1, <1>2, <1>3 DEF Program, U!NoDangling
  <2>4. \A o \in alive \ dead : U!Refs(o) \subseteq alive \ dead
    BY <1>0 DEF U!NoDangling
  <2>5. \A o \in alive' \ dead' : U!Refs(o)' \subseteq alive' \ dead'
    BY <2>1, <2>2, <2>3, <2>4
  <2> QED BY <1>0, <1>1, <2>3, <2>5 DEF U!NoDangling, Program
<1>17. U!Marking'
  <2> SUFFICES ASSUME gcstate = "propagate"
               PROVE  /\ U!Grayed(Main)' /\ gray' \subseteq alive' /\ grayagain \subseteq alive' \cap U!Threads
                      /\ \A d \in alive' \cap Closures : Shaded(d)'
                      /\ \A o \in alive' \cap U!Threads : color'[o] = "white" \/ o \in gray' \cup grayagain
    BY <1>1, StillMarking
  <2>1. U!Grayed(Main)' /\ gray' \subseteq alive' /\ grayagain \subseteq alive' \cap U!Threads
    BY <1>0, <1>1, <1>2, <1>3, <1>7, Propagating DEF U!Grayed
  <2>2. ASSUME NEW o \in alive' \cap U!Threads PROVE color'[o] = "white" \/ o \in gray' \cup grayagain
    <3>1. o \in alive \cap U!Threads /\ color'[o] = color[o]
      BY <1>3, <1>7, <1>8, Kinds
    <3> QED BY <1>0, <1>1, <3>1, Propagating
  <2>3. Shaded(c)'
    BY <1>7 DEF Shaded
  <2>4. ASSUME NEW d \in alive \cap Closures PROVE Shaded(d)'
    <3>1. PICK w \in UpVals : w = upvals[d] /\ w = upvals'[d] /\ uv[w].st # "free"
      BY <1>12
    <3>2. d \in U!Objs \ {c} /\ color'[d] = color[d] /\ Shaded(d)
      BY <1>0, <1>7, <1>8, Kinds, Propagating
    <3>3. ASSUME ~U!IsOpen(w), U!Grayed(U!ValueOf(w)) PROVE U!Grayed(U!ValueOf(w))'
      <4>1. U!ValueOf(w)' = U!ValueOf(w)
        BY <1>10, <3>1, <3>3
      <4>2. {U!ValueOf(w)} \cap U!Objs \subseteq alive
        BY <3>1, RefsAlive
      <4>3. U!ValueOf(w) \in U!Objs => U!ValueOf(w) # c /\ color[U!ValueOf(w)] # "white"
        BY <1>8, <3>3, <4>2 DEF U!Grayed
      <4> QED BY <1>7, <4>1, <4>3 DEF U!Grayed
    <3>4. (U!IsOpen(w)' <=> U!IsOpen(w)) /\ uv'[w].touched = uv[w].touched
      BY <1>10, <3>1
    <3> QED BY <1>1, <3>1, <3>2, <3>3, <3>4, ShadedStill
  <2> QED BY <1>8, <2>1, <2>2, <2>3, <2>4
<1>18. U!AllListed'
  <2>1. alive' \cap U!Threads = alive \cap U!Threads /\ dead' = dead /\ gcstate' = gcstate
    BY <1>1, <1>8 DEF Program
  <2> QED BY <1>0, <1>4, <2>1 DEF U!AllListed
<1> QED BY <1>13, <1>14, <1>15, <1>16, <1>17, <1>18 DEF U!IInv

\* The upvalue a closure is joined to.
OneMoreTo(r, w) == [r EXCEPT !.count = r.count + 1, !.touched = r.touched \/ U!IsOpen(w)]
\* One closure less has x and one more has w.
Moved(x, w) ==
  /\ openupval' = openupval /\ twups' = twups /\ uv' \in [UpVals -> U!UpVal]
  /\ \A y \in UpVals \ {x, w} : uv'[y] = uv[y]
  /\ x # w => uv'[x] = U!Less(uv[x])
  /\ uv'[w].st = uv[w].st /\ uv'[w].th = uv[w].th /\ uv'[w].level = uv[w].level /\ uv'[w].value = uv[w].value
  /\ uv'[w].touched <=> uv[w].touched \/ U!IsOpen(w)
  /\ x = w => uv'[w].count = uv[w].count
  /\ x # w => uv'[w].count = uv[w].count + 1

\* lua_upvaluejoin counts one upvalue down and the other up.
LEMMA JoinedUpvalue ==
  ASSUME U!TypeOK, NEW x \in UpVals, NEW w \in UpVals, uv[x].count >= 1, x = w => U!Less(uv[x]).st # "free",
         U!Becomes([U!DecCount(U!State, x) EXCEPT !.uv[w] = OneMoreTo(U!DecCount(U!State, x).uv[w], w)])
  PROVE  Moved(x, w)
<1> DEFINE G == [uv EXCEPT ![x] = U!Less(uv[x])]
           r == OneMoreTo(G[w], w)
<1>1. openupval' = openupval /\ twups' = twups /\ uv' = [G EXCEPT ![w] = r]
  BY DEF U!Becomes, U!DecCount, U!State
<1>2. uv[x] \in U!UpVal /\ uv[w] \in U!UpVal /\ U!Less(uv[x]) \in U!UpVal
  BY LessFacts DEF U!TypeOK
<1>3. G \in [UpVals -> U!UpVal] /\ G[x] = U!Less(uv[x]) /\ \A y \in UpVals \ {x} : G[y] = uv[y]
  BY <1>2 DEF U!TypeOK
<1>4. /\ G[w] \in U!UpVal
      /\ G[w].st = uv[w].st /\ G[w].th = uv[w].th /\ G[w].level = uv[w].level /\ G[w].value = uv[w].value
      /\ G[w].touched = uv[w].touched
      /\ x = w => G[w].count + 1 = uv[w].count
      /\ x # w => G[w].count + 1 = uv[w].count + 1
  <2>1. CASE x # w
    BY <1>2, <1>3, <2>1
  <2>2. CASE x = w
    <3>1. /\ U!Less(uv[x]).st = uv[x].st /\ U!Less(uv[x]).th = uv[x].th /\ U!Less(uv[x]).level = uv[x].level
          /\ U!Less(uv[x]).value = uv[x].value /\ U!Less(uv[x]).touched = uv[x].touched
          /\ U!Less(uv[x]).count = uv[x].count - 1
      BY <1>2, <2>2, LessFacts
    <3>2. uv[x].count - 1 + 1 = uv[x].count
      BY <1>2 DEF U!UpVal
    <3> HIDE DEF G
    <3> QED BY <1>2, <1>3, <2>2, <3>1, <3>2
  <2> QED BY <2>1, <2>2
<1> HIDE DEF G
<1>5. /\ r \in U!UpVal
      /\ r.st = G[w].st /\ r.th = G[w].th /\ r.level = G[w].level /\ r.value = G[w].value
      /\ r.count = G[w].count + 1 /\ (r.touched <=> G[w].touched \/ U!IsOpen(w))
  <2>1. G[w].count + 1 \in Nat /\ (G[w].touched \/ U!IsOpen(w)) \in BOOLEAN
    BY <1>4 DEF U!UpVal, U!IsOpen
  <2> QED BY <1>4, <2>1 DEF U!UpVal, OneMoreTo
<1> HIDE DEF r
<1>6. uv' \in [UpVals -> U!UpVal] /\ uv'[w] = r /\ \A y \in UpVals \ {w} : uv'[y] = G[y]
  BY <1>1, <1>3, <1>5
<1> QED BY <1>1, <1>3, <1>4, <1>5, <1>6 DEF Moved

\* What lua_upvaluejoin does to the upvalues.
Rejoined(c, w) ==
  /\ openupval' = openupval /\ twups' = twups /\ uv' \in [UpVals -> U!UpVal]
  /\ upvals'[c] = w /\ \A e \in Closures \ {c} : upvals'[e] = upvals[e]
  /\ \A y \in UpVals : /\ U!IsOpen(y)' <=> U!IsOpen(y)
                       /\ U!IsOpen(y) => /\ uv'[y].th = uv[y].th /\ uv'[y].level = uv[y].level
                                         /\ uv[y].touched => uv'[y].touched
                                         /\ y # w /\ uv'[y].touched => uv[y].touched
                       /\ uv'[y].st # "free" => uv'[y].value = uv[y].value
  /\ U!IsOpen(w) => uv'[w].touched
  /\ \A y \in UpVals : CountRight(y)' /\ (uv[y].st = "closed" => uv[y].count > 0)'
  /\ \A e \in alive \cap Closures : upvals'[e] \in UpVals /\ uv'[upvals'[e]].st # "free"

\* lua_upvaluejoin, for closures that are not freed.
LEMMA Joined ==
  ASSUME U!TypeOK, U!UpvaluesCounted, U!InPlace, NEW c \in alive \cap Closures, NEW d \in alive \cap Closures,
         NEW x \in UpVals, NEW w \in UpVals, x = upvals[c], w = upvals[d],
         U!DecCount(U!State, x).uv[w].st # "free",
         upvals' = [upvals EXCEPT ![c] = w], alive' = alive,
         U!Becomes([U!DecCount(U!State, x) EXCEPT !.uv[w] = OneMoreTo(U!DecCount(U!State, x).uv[w], w)])
  PROVE  Rejoined(c, w)
<1>1. /\ uv[x] \in U!UpVal /\ uv[x].st \in {"open", "closed"} /\ c \in Holders(x) /\ Holders(x) \subseteq U!Objs
      /\ uv[x].count = U!Cardinality(Holders(x)) /\ uv[x].count \in Nat /\ uv[x].count >= 1
      /\ uv[x].count = 1 => Holders(x) = {c}
  BY Held
<1>2. /\ uv[w] \in U!UpVal /\ uv[w].st \in {"open", "closed"} /\ d \in Holders(w) /\ Holders(w) \subseteq U!Objs
      /\ uv[w].count = U!Cardinality(Holders(w)) /\ uv[w].count \in Nat /\ uv[w].count >= 1
  BY Held
<1>3. x = w => U!Less(uv[x]).st # "free"
  BY DecFacts DEF U!TypeOK
<1>4. /\ openupval' = openupval /\ twups' = twups /\ uv' \in [UpVals -> U!UpVal]
      /\ \A y \in UpVals \ {x, w} : uv'[y] = uv[y]
      /\ x # w => uv'[x] = U!Less(uv[x])
      /\ uv'[w].st = uv[w].st /\ uv'[w].th = uv[w].th /\ uv'[w].level = uv[w].level /\ uv'[w].value = uv[w].value
      /\ uv'[w].touched <=> uv[w].touched \/ U!IsOpen(w)
      /\ x = w => uv'[w].count = uv[w].count
      /\ x # w => uv'[w].count = uv[w].count + 1
  <2>1. Moved(x, w)
    BY <1>1, <1>3, JoinedUpvalue
  <2> QED BY <2>1 DEF Moved
<1>5. upvals'[c] = w /\ \A e \in Closures \ {c} : upvals'[e] = upvals[e]
  BY DEF U!TypeOK
<1>6. x # w => /\ uv'[x].st = "free" <=> uv[x].count = 1 /\ uv[x].st = "closed"
               /\ uv'[x].st # "free" => /\ uv'[x].st = uv[x].st /\ uv'[x].th = uv[x].th /\ uv'[x].level = uv[x].level
                                        /\ uv'[x].value = uv[x].value /\ uv'[x].touched = uv[x].touched
                                        /\ uv'[x].count = uv[x].count - 1
  BY <1>1, <1>4, LessFacts
<1>7. ASSUME NEW y \in UpVals
      PROVE  /\ U!IsOpen(y)' <=> U!IsOpen(y)
             /\ U!IsOpen(y) => /\ uv'[y].th = uv[y].th /\ uv'[y].level = uv[y].level
                               /\ uv[y].touched => uv'[y].touched
                               /\ y # w /\ uv'[y].touched => uv[y].touched
             /\ uv'[y].st # "free" => uv'[y].value = uv[y].value
  <2>1. CASE y \notin {x, w}
    BY <1>4, <2>1 DEF U!IsOpen
  <2>2. CASE y = w
    BY <1>4, <2>2 DEF U!IsOpen
  <2>3. CASE y = x /\ x # w
    BY <1>1, <1>6, <2>3 DEF U!IsOpen
  <2> QED BY <2>1, <2>2, <2>3
<1>8. Holders(w)' = Holders(w) \cup {c} /\ (x # w => Holders(x)' = Holders(x) \ {c} /\ c \notin Holders(w))
      /\ \A y \in UpVals \ {x, w} : Holders(y)' = Holders(y)
  BY <1>5 DEF Holders
<1>9. ASSUME NEW y \in UpVals PROVE CountRight(y)' /\ (uv[y].st = "closed" => uv[y].count > 0)'
  <2>1. CASE y \notin {x, w}
    <3>1. uv'[y] = uv[y] /\ Holders(y)' = Holders(y) /\ CountRight(y) /\ (uv[y].st = "closed" => uv[y].count > 0)
      BY <1>4, <1>8, <2>1, Counted
    <3> QED BY <3>1 DEF CountRight
  <2>2. CASE y = w /\ x = w
    <3>1. Holders(y)' = Holders(y) /\ uv'[y].count = uv[y].count /\ uv[y].count = U!Cardinality(Holders(y))
          /\ uv[y].count > 0
      BY <1>1, <1>4, <1>8, <2>2
    <3> QED BY <3>1 DEF CountRight
  <2>3. CASE y = w /\ x # w
    <3>1. c \in U!Objs
      BY Kinds
    <3>2. U!Cardinality(Holders(w) \cup {c}) = U!Cardinality(Holders(w)) + 1
      BY <1>2, <1>8, <2>3, <3>1, OneMore
    <3>3. uv'[w].count = U!Cardinality(Holders(w)') /\ uv'[w].count > 0
      BY <1>2, <1>4, <1>8, <2>3, <3>2
    <3> QED BY <2>3, <3>3 DEF CountRight
  <2>4. CASE y = x /\ x # w
    <3>1. U!Cardinality(Holders(x) \ {c}) = U!Cardinality(Holders(x)) - 1
      BY <1>1, OneLess
    <3>2. uv'[x].st # "free" => uv'[x].count = U!Cardinality(Holders(x)')
      BY <1>1, <1>6, <1>8, <2>4, <3>1
    <3>3. uv'[x].st = "closed" => uv'[x].count > 0
      BY <1>1, <1>6, <2>4
    <3> QED BY <2>4, <3>2, <3>3 DEF CountRight
  <2> QED BY <2>1, <2>2, <2>3, <2>4
<1>10. ASSUME NEW e \in alive \cap Closures PROVE upvals'[e] \in UpVals /\ uv'[upvals'[e]].st # "free"
  <2>1. CASE e = c
    BY <1>2, <1>4, <1>5, <2>1
  <2>2. CASE e # c
    <3>1. PICK y \in UpVals : y = upvals[e] /\ y = upvals'[e]
      BY <1>5, <2>2, Held
    <3>2. uv[y].st \in {"open", "closed"} /\ e \in Holders(y)
      BY <3>1, Held
    <3>3. CASE y \notin {x, w}
      BY <1>4, <3>1, <3>2, <3>3
    <3>4. CASE y = w
      BY <1>2, <1>4, <3>1, <3>4
    <3>5. CASE y = x /\ x # w
      <4>1. uv[x].count # 1
        BY <1>1, <2>2, <3>2, <3>5
      <4> QED BY <1>6, <3>1, <3>5, <4>1
    <3> QED BY <3>3, <3>4, <3>5
  <2> QED BY <2>1, <2>2
<1> QED BY <1>4, <1>5, <1>7, <1>9, <1>10 DEF Rejoined

\* lua_upvaluejoin keeps the invariant.
LEMMA UpvalueJoinKeeps ==
  ASSUME U!IInv, U!UpvalueJoin
  PROVE  U!IInv'
<1>0. U!TypeOK /\ U!UpvaluesCounted /\ U!InPlace /\ U!NoDangling /\ U!AllListed /\ U!Marking
  BY DEF U!IInv
<1>1. Program /\ stack' = stack /\ alive' = alive
  BY DEF U!UpvalueJoin, U!Mutate, Program
<1>2. PICK c \in U!Accessible \cap Closures, d \in U!Accessible \cap Closures :
        /\ U!DecCount(U!State, upvals[c]).uv[upvals[d]].st # "free"
        /\ upvals' = [upvals EXCEPT ![c] = upvals[d]]
        /\ U!Becomes([U!DecCount(U!State, upvals[c]) EXCEPT
                        !.uv[upvals[d]] = OneMoreTo(U!DecCount(U!State, upvals[c]).uv[upvals[d]], upvals[d])])
        /\ IF U!IsOpen(upvals[d]) THEN UNCHANGED <<color, gray>> ELSE U!Barrier({uv[upvals[d]].value})
  BY DEF U!UpvalueJoin, OneMoreTo
<1>3. c \in (alive \ dead) \cap Closures /\ d \in (alive \ dead) \cap Closures
  BY <1>0, AccessibleSafe
<1>4. PICK x \in UpVals, w \in UpVals : x = upvals[c] /\ w = upvals[d]
  BY <1>0, <1>3, Held
<1>5. /\ openupval' = openupval /\ twups' = twups /\ uv' \in [UpVals -> U!UpVal]
      /\ upvals'[c] = w /\ \A e \in Closures \ {c} : upvals'[e] = upvals[e]
      /\ \A y \in UpVals : /\ U!IsOpen(y)' <=> U!IsOpen(y)
                           /\ U!IsOpen(y) => /\ uv'[y].th = uv[y].th /\ uv'[y].level = uv[y].level
                                             /\ uv[y].touched => uv'[y].touched
                           /\ uv'[y].st # "free" => uv'[y].value = uv[y].value
      /\ U!IsOpen(w) => uv'[w].touched
      /\ \A y \in UpVals : CountRight(y)' /\ (uv[y].st = "closed" => uv[y].count > 0)'
      /\ \A e \in alive \cap Closures : upvals'[e] \in UpVals /\ uv'[upvals'[e]].st # "free"
  <2>1. /\ U!DecCount(U!State, x).uv[w].st # "free"
        /\ upvals' = [upvals EXCEPT ![c] = w]
        /\ U!Becomes([U!DecCount(U!State, x) EXCEPT !.uv[w] = OneMoreTo(U!DecCount(U!State, x).uv[w], w)])
    BY <1>2, <1>4
  <2>2. Rejoined(c, w)
    BY <1>0, <1>1, <1>3, <1>4, <2>1, Joined
  <2> QED BY <2>2 DEF Rejoined
<1>6. /\ color' \in [U!Objs -> {"white", "gray", "black"}]
      /\ MoreGrayed /\ \A o \in U!Objs : Coloured(o)
      /\ gray \subseteq gray' /\ gray' \subseteq gray \cup ({U!ValueOf(w)} \cap U!Objs)
      /\ gcstate # "propagate" => gray' = gray
      /\ gcstate = "propagate" /\ ~U!IsOpen(w) => U!Grayed(U!ValueOf(w))'
  <2>1. CASE U!IsOpen(w)
    <3>1. UNCHANGED <<color, gray>>
      BY <1>2, <1>4, <2>1
    <3> QED BY <1>0, <2>1, <3>1 DEF U!TypeOK, MoreGrayed, Coloured, U!Grayed
  <2>2. CASE ~U!IsOpen(w)
    <3>1. U!Barrier({uv[w].value})
      BY <1>2, <1>4, <2>2
    <3>2. /\ color' \in [U!Objs -> {"white", "gray", "black"}]
          /\ MoreGrayed /\ \A o \in U!Objs : Coloured(o)
          /\ gray \subseteq gray' /\ gray' \subseteq gray \cup ({uv[w].value} \cap U!Objs)
          /\ gcstate # "propagate" => gray' = gray
          /\ gcstate = "propagate" => \A o \in {uv[w].value} \cap U!Objs : color'[o] # "white"
      BY <1>0, <3>1, BarrierFacts
    <3>3. U!ValueOf(w) = uv[w].value /\ ~U!IsOpen(w)'
      BY <1>5, <2>2 DEF U!ValueOf
    <3>4. uv'[w].st # "free"
      BY <1>3, <1>5
    <3>5. U!ValueOf(w)' = uv[w].value
      BY <1>5, <3>3, <3>4 DEF U!ValueOf
    <3>6. gcstate = "propagate" => U!Grayed(U!ValueOf(w))'
      BY <3>2, <3>5 DEF U!Grayed
    <3> QED BY <3>2, <3>3, <3>6
  <2> QED BY <2>1, <2>2
\* The value of an upvalue that is still there.
<1>7. ASSUME NEW y \in UpVals, uv'[y].st # "free" PROVE U!ValueOf(y)' = U!ValueOf(y)
  BY <1>1, <1>5, <1>7 DEF U!ValueOf
<1>8. U!UpvaluesCounted'
  <2>1. ASSUME NEW t \in U!Threads PROVE ListRight(t)'
    <3>1. ListRight(t)
      BY <1>0, Counted
    <3> QED BY <1>0, <1>5, <3>1, ListStays
  <2> QED BY <1>1, <1>5, <2>1 DEF U!UpvaluesCounted, CountRight, Holders, ListRight
<1>9. U!TypeOK'
  <2>1. upvals' \in [Closures -> UpVals \cup {U!None}]
    BY <1>0, <1>2, <1>4 DEF U!TypeOK
  <2> QED BY <1>0, <1>1, <1>5, <1>6, <2>1 DEF U!TypeOK, Program
<1>10. U!InPlace'
  BY <1>0, <1>1, <1>5 DEF U!InPlace
<1>11. {U!ValueOf(w)} \cap U!Objs \subseteq alive \ dead
  <2>1. U!Refs(d) \subseteq alive \ dead /\ d \notin U!Threads
    BY <1>0, <1>3, Kinds DEF U!NoDangling
  <2> QED BY <1>4, <2>1 DEF U!Refs
<1>12. U!NoDangling'
  <2>1. ASSUME NEW o \in alive \ dead PROVE U!Refs(o)' \subseteq alive \ dead
    <3>1. o \in U!Objs /\ U!Refs(o) \subseteq alive \ dead
      BY <1>0 DEF U!TypeOK, U!NoDangling
    <3>2. CASE o \in U!Threads
      BY <1>1, <3>1, <3>2 DEF U!Refs
    <3>3. CASE o = c
      <4>1. uv'[w].st # "free"
        BY <1>3, <1>5
      <4>2. U!ValueOf(w)' = U!ValueOf(w) /\ c \notin U!Threads
        BY <1>3, <1>7, <4>1, Kinds
      <4>3. U!ValueOf(upvals[c])' = U!ValueOf(w)'
        BY <1>5 DEF U!ValueOf, U!IsOpen
      <4> QED BY <1>11, <3>3, <4>2, <4>3 DEF U!Refs
    <3>4. CASE o \notin U!Threads /\ o # c
      <4>1. o \in alive \cap Closures
        BY <3>1, <3>4, Kinds
      <4>2. PICK y \in UpVals : y = upvals[o] /\ y = upvals'[o] /\ uv'[y].st # "free"
        BY <1>0, <1>5, <3>4, <4>1, Held
      <4>3. U!ValueOf(y)' = U!ValueOf(y)
        BY <1>7, <4>2
      <4>4. U!ValueOf(upvals[o])' = U!ValueOf(upvals[o])
        BY <4>2, <4>3 DEF U!ValueOf, U!IsOpen
      <4> QED BY <3>1, <3>4, <4>4 DEF U!Refs
    <3> QED BY <3>2, <3>3, <3>4
  <2> QED BY <1>0, <1>1, <1>6, <2>1 DEF U!NoDangling, Program
<1>13. U!Marking'
  <2> SUFFICES ASSUME gcstate = "propagate"
               PROVE  /\ U!Grayed(Main)' /\ gray' \subseteq alive' /\ grayagain \subseteq alive' \cap U!Threads
                      /\ \A e \in alive' \cap Closures : Shaded(e)'
                      /\ \A o \in alive' \cap U!Threads : color'[o] = "white" \/ o \in gray' \cup grayagain
    BY <1>1, StillMarking
  <2>1. U!Grayed(Main)' /\ gray' \subseteq alive' /\ grayagain \subseteq alive' \cap U!Threads
    BY <1>0, <1>1, <1>6, <1>11, Kinds, Propagating DEF MoreGrayed
  <2>2. ASSUME NEW o \in alive' \cap U!Threads PROVE color'[o] = "white" \/ o \in gray' \cup grayagain
    <3>1. o \in alive \cap U!Threads /\ o \in U!Objs
      BY <1>0, <1>1 DEF U!TypeOK
    <3> QED BY <1>0, <1>6, <3>1, Propagating DEF Coloured
  <2>3. ASSUME NEW e \in alive \cap Closures PROVE Shaded(e)'
    <3>1. Shaded(e) /\ e \in U!Objs
      BY <1>0, Kinds, Propagating
    <3>2. color'[e] = color[e] \/ (color'[e] = "gray" /\ e \in gray')
      BY <1>6, <3>1 DEF Coloured
    <3>3. CASE e = c
      <4>1. color'[c] = "gray" => c \in gray'
        BY <1>6, <3>1, <3>2, <3>3 DEF Shaded
      <4>2. (U!IsOpen(w)' => uv'[w].touched) /\ (~U!IsOpen(w)' => U!Grayed(U!ValueOf(w))')
        BY <1>5, <1>6
      <4> QED BY <1>5, <3>3, <4>1, <4>2 DEF Shaded, U!IsOpen, U!ValueOf, U!Grayed
    <3>4. CASE e # c
      <4>1. PICK y \in UpVals : y = upvals[e] /\ upvals'[e] = y /\ uv'[y].st # "free"
        BY <1>0, <1>5, <3>4, Held
      <4>2. U!Grayed(U!ValueOf(y)) => U!Grayed(U!ValueOf(y))'
        <5>1. U!ValueOf(y)' = U!ValueOf(y)
          BY <1>7, <4>1
        <5> QED BY <1>6, <5>1 DEF U!Grayed, MoreGrayed
      <4>3. (U!IsOpen(y)' <=> U!IsOpen(y)) /\ (U!IsOpen(y) /\ uv[y].touched => uv'[y].touched)
        BY <1>5
      <4> QED BY <1>6, <3>1, <3>2, <4>1, <4>2, <4>3, ShadedStill
    <3> QED BY <3>3, <3>4
  <2> QED BY <1>1, <2>1, <2>2, <2>3
<1>14. U!AllListed'
  BY <1>0, <1>1, <1>5 DEF U!AllListed, U!Listed, Program
<1> QED BY <1>8, <1>9, <1>10, <1>12, <1>13, <1>14 DEF U!IInv

-----------------------------------------------------------------------------
(* The theorems.                                                           *)

\* The invariant holds in the initial state.
LEMMA UpvaluesInit == U!Init => U!IInv
<1> SUFFICES ASSUME U!Init
             PROVE  U!IInv
  OBVIOUS
<1>1. /\ stack = [t \in U!Threads |-> [l \in Levels |-> U!Nil]]
      /\ uv = [w \in UpVals |-> U!Freed] /\ openupval = [t \in U!Threads |-> <<>>] /\ twups = {}
      /\ upvals = [c \in Closures |-> U!None] /\ alive = {Main}
      /\ color = [o \in U!Objs |-> "white"] /\ gray = {} /\ grayagain = {} /\ gcstate = "pause" /\ dead = {}
  BY DEF U!Init
<1>2. alive \cap Closures = {} /\ Main \in U!Threads /\ Main \in U!Objs
  BY <1>1, Kinds
<1>3. U!Freed \in U!UpVal /\ U!Freed.st = "free"
  BY DEF U!Freed, U!UpVal
<1>4. U!TypeOK
  BY <1>1, <1>2, <1>3 DEF U!TypeOK
<1>5. \A w \in UpVals : uv[w].st = "free" /\ ~U!IsOpen(w)
  BY <1>1, <1>3 DEF U!IsOpen
<1>6. U!UpvaluesCounted
  <2>1. \A w \in UpVals : CountRight(w) /\ (uv[w].st = "closed" => uv[w].count > 0)
    BY <1>5 DEF CountRight
  <2>2. \A t \in U!Threads : ListRight(t)
    BY <1>1, <1>5 DEF ListRight
  <2> QED BY <1>2, <2>1, <2>2, Counted
<1>7. U!InPlace
  BY <1>1, <1>2, <1>5 DEF U!InPlace
<1>8. U!NoDangling
  <2>1. U!Refs(Main) = {}
    BY <1>1, <1>2, UpvalAssumption DEF U!Refs
  <2> QED BY <1>1, <2>1 DEF U!NoDangling
<1>9. U!Marking /\ U!AllListed
  BY <1>1 DEF U!Marking, U!AllListed, U!Listed
<1> QED BY <1>4, <1>6, <1>7, <1>8, <1>9 DEF U!IInv

\* Every step of the program and of the collector keeps the invariant.
LEMMA UpvaluesKept == U!IInv /\ U!Next => U!IInv'
<1> SUFFICES ASSUME U!IInv, U!Next
             PROVE  U!IInv'
  OBVIOUS
<1>1. CASE U!NewThread
  BY <1>1, NewThreadKeeps
<1>2. CASE U!SetStack
  BY <1>2, SetStackKeeps
<1>3. CASE U!PushClosure
  BY <1>3, PushClosureKeeps
<1>4. CASE U!SetUpval
  BY <1>4, SetUpvalKeeps
<1>5. CASE U!LeaveScope
  BY <1>5, LeaveScopeKeeps
<1>6. CASE U!UpvalueJoin
  BY <1>6, UpvalueJoinKeeps
<1>7. CASE U!RestartCollection
  BY <1>7, RestartKeeps
<1>8. CASE U!PropagateMark
  BY <1>8, PropagateKeeps
<1>9. CASE U!RemarkUpvals
  BY <1>9, RemarkKeeps
<1>10. CASE U!GrayAgain
  BY <1>10, GrayAgainKeeps
<1>11. CASE U!EndAtomic
  BY <1>11, EndAtomicKeeps
<1>12. CASE U!Sweep
  BY <1>12, SweepKeeps
<1>13. CASE U!EndSweep
  BY <1>13, EndSweepKeeps
<1> QED BY <1>1, <1>2, <1>3, <1>4, <1>5, <1>6, <1>7, <1>8, <1>9, <1>10, <1>11, <1>12, <1>13 DEF U!Next

\* The invariant is about the variables of LuaUpval alone.
LEMMA UpvaluesStay == U!IInv /\ UNCHANGED uvars => U!IInv'
<1> SUFFICES ASSUME U!IInv, UNCHANGED uvars
             PROVE  U!IInv'
  OBVIOUS
<1>0. UNCHANGED <<stack, uv, openupval, twups, upvals, alive, color, gray, grayagain, gcstate, dead>>
  BY DEF uvars
<1>1. U!TypeOK' /\ U!InPlace' /\ U!AllListed'
  BY <1>0 DEF U!IInv, U!TypeOK, U!InPlace, U!AllListed, U!Listed, U!IsOpen
<1>2. U!UpvaluesCounted'
  BY <1>0 DEF U!IInv, U!UpvaluesCounted, U!IsOpen
<1>3. U!NoDangling'
  BY <1>0 DEF U!IInv, U!NoDangling, U!Refs, U!ValueOf, U!IsOpen
<1>4. U!Marking'
  BY <1>0 DEF U!IInv, U!Marking, U!Grayed, U!ClosureMarked, U!ThreadMarked, U!Listed, U!ValueOf, U!IsOpen
<1> QED BY <1>1, <1>2, <1>3, <1>4 DEF U!IInv

\* The inductive invariant is an invariant.
LEMMA UpvaluesAlways == RuntimeSpec => []U!IInv
<1>1. RuntimeInit => U!IInv
  BY UpvaluesInit DEF RuntimeInit
<1>2. U!IInv /\ [RuntimeNext]_rvars => U!IInv'
  BY UpvaluesKept, UpvaluesStay DEF RuntimeNext, rvars
<1> QED BY <1>1, <1>2, PTL DEF RuntimeSpec

\* For any number of coroutines, closures, upvalues and stack levels, and any
\* program: an upvalue is counted once for each closure that has it, is not freed
\* while one has, and is in its place in the list of its thread while it is open.
THEOREM UpvaluesSafe == RuntimeSpec => []UpvaluesCounted
<1>1. U!IInv => UpvaluesCounted
  BY DEF U!IInv, UpvaluesCounted
<1> QED BY <1>1, UpvaluesAlways, PTL

\* For the same: no object the program can still get at is freed or going to be,
\* also through the open upvalue of a thread that nothing marks, and every thread
\* with open upvalues is where remarkupvals looks for it.
THEOREM ValuesSafe == RuntimeSpec => []ValuesKept
<1>1. U!IInv => ValuesKept
  <2> SUFFICES ASSUME U!IInv
               PROVE  U!ValuesKept
    BY DEF ValuesKept
  <2>1. U!Accessible \subseteq alive \ dead
    BY AccessibleSafe DEF U!IInv
  <2>2. gcstate # "insideatomic" => \A t \in U!Accessible \cap U!Threads : openupval[t] # <<>> => t \in twups
    BY <2>1 DEF U!IInv, U!AllListed, U!Listed
  <2> QED BY <2>1, <2>2 DEF U!ValuesKept
<1> QED BY <1>1, UpvaluesAlways, PTL

-----------------------------------------------------------------------------
(* How many collections garbage lasts.                                     *)

\* Ages are counts; what is not there and what the program can get at have 0.
Counts == /\ age \in [U!Objs -> Nat] /\ age[Main] = 0
          /\ \A o \in U!Objs \ alive : age[o] = 0
\* What became garbage later does not refer to what became garbage earlier.
Downhill == \A o \in alive : \A v \in U!Refs(o) : age[v] <= age[o]

\* What marking has found: before atomic only what was not garbage when the
\* collection began, and in atomic what was not when the one before began.
Found == {o \in U!Objs : color[o] # "white"} \cup gray \cup grayagain
FoundYoung == gcstate \in {"propagate", "insideatomic"} =>
                \A o \in Found : age[o] <= IF gcstate = "propagate" THEN 0 ELSE 1
\* So is the value of a touched upvalue, which remarkupvals may mark; what it
\* marks by itself is not touched any more.
Young(v, n) == v \in U!Objs => age[v] <= n
TouchedYoung == \A w \in UpVals : U!IsOpen(w) /\ uv[w].touched =>
                   Young(U!ValueOf(w), IF gcstate = "propagate" THEN 1 ELSE 0)
\* What a collection leaves.
LeftYoung == gcstate \in {"pause", "sweep"} => \A o \in alive \ dead : age[o] <= 1

AgesInv == Counts /\ Downhill /\ FoundYoung /\ TouchedYoung /\ LeftYoung /\ U!NoCycleForEver

\* What the program can get at is no garbage.
LEMMA AccessibleYoung ==
  ASSUME U!IInv, Counts, Downhill, NEW o \in U!Accessible
  PROVE  /\ o \in U!Objs /\ o \in alive /\ o \notin dead /\ age[o] = 0 /\ Young(o, 0)
         /\ o \in U!Threads => \A l \in Levels : Young(stack[o][l], 0)
         /\ o \in Closures => upvals[o] \in UpVals /\ Young(U!ValueOf(upvals[o]), 0)
<1> DEFINE C == {x \in alive \ dead : age[x] = 0}
<1>0. U!TypeOK /\ U!InPlace /\ U!NoDangling
  BY DEF U!IInv
<1>1. \A x \in U!Objs : age[x] \in Nat
  BY DEF Counts
<1>2. ASSUME NEW x \in C, NEW v \in U!Refs(x)
      PROVE  v \in C
  <2>1. v \in alive \ dead /\ v \in U!Objs
    BY <1>0 DEF U!NoDangling, U!TypeOK
  <2>2. age[v] <= age[x] /\ age[x] = 0
    BY DEF Downhill
  <2> QED BY <1>1, <2>1, <2>2
<1>3. C \in Within({Main}) /\ {Main} \in SUBSET U!Objs
  <2>1. C \subseteq U!Objs /\ Main \in C
    BY <1>0 DEF U!TypeOK, U!NoDangling, Counts
  <2> HIDE DEF C
  <2> QED BY <1>2, <2>1 DEF Within
<1>4. U!Accessible \subseteq C
  <2> HIDE DEF C
  <2> QED BY <1>3, LeastClosed DEF U!Accessible
<1>5. o \in U!Objs /\ o \in alive /\ o \notin dead /\ age[o] = 0 /\ Young(o, 0)
  BY <1>0, <1>4 DEF U!TypeOK, Young
<1>6. \A v \in U!Refs(o) : Young(v, 0)
  BY <1>5 DEF Downhill, Young
<1>7. o \in U!Threads => \A l \in Levels : Young(stack[o][l], 0)
  BY <1>6 DEF U!Refs, Young
<1>8. o \in Closures => upvals[o] \in UpVals /\ Young(U!ValueOf(upvals[o]), 0)
  BY <1>0, <1>5, <1>6, Kinds DEF U!Refs, Young, U!InPlace
<1> QED BY <1>5, <1>7, <1>8

\* A step of the program keeps the ages right if whatever it refers to anew is
\* no garbage, and if it marks no garbage.
LEMMA ProgramAges ==
  ASSUME U!IInv, U!IInv', AgesInv, Program, age' = age, alive \subseteq alive',
         \A t \in U!Threads, l \in Levels : stack'[t][l] = stack[t][l] \/ Young(stack'[t][l], 0),
         \A c \in alive' \cap Closures :
            (c \in alive /\ U!ValueOf(upvals[c])' = U!ValueOf(upvals[c])) \/ Young(U!ValueOf(upvals[c]), 0)',
         \A w \in UpVals : U!IsOpen(w)' /\ uv'[w].touched =>
            (U!IsOpen(w) /\ uv[w].touched /\ U!ValueOf(w)' = U!ValueOf(w)) \/ Young(U!ValueOf(w), 0)',
         gcstate = "propagate" => \A o \in Found' : o \in Found \/ age[o] = 0
  PROVE  AgesInv'
<1>0. /\ \A o \in U!Objs : age[o] \in Nat
      /\ U!TypeOK' /\ U!InPlace
      /\ gcstate' = gcstate /\ dead' = dead /\ gcstate \in {"pause", "propagate", "sweep"}
  BY DEF AgesInv, Counts, Program, U!IInv
<1>1. Counts' /\ U!NoCycleForEver'
  BY DEF AgesInv, Counts, U!NoCycleForEver
<1>2. ASSUME NEW o \in alive', NEW v \in U!Refs(o)'
      PROVE  age[v] <= age[o]
  <2>0. o \in U!Objs /\ v \in U!Objs
    BY <1>0 DEF U!TypeOK, U!Refs
  <2>1. ASSUME Young(v, 0) PROVE age[v] <= age[o]
    BY <1>0, <2>0, <2>1 DEF Young
  <2>2. CASE o \in U!Threads
    <3>1. PICK l \in Levels : v = stack'[o][l]
      BY <2>2 DEF U!Refs
    <3>2. CASE stack'[o][l] = stack[o][l]
      <4>1. o \in alive
        BY <1>0, <2>0, <2>2, <3>1, <3>2, UpvalAssumption DEF U!InPlace
      <4>2. v \in U!Refs(o)
        BY <2>0, <2>2, <3>1, <3>2 DEF U!Refs
      <4> QED BY <4>1, <4>2 DEF AgesInv, Downhill
    <3> QED BY <2>1, <2>2, <3>1, <3>2
  <2>3. CASE o \notin U!Threads
    <3>1. o \in Closures /\ v = U!ValueOf(upvals[o])'
      BY <2>0, <2>3, Kinds DEF U!Refs
    <3>2. CASE o \in alive /\ U!ValueOf(upvals[o])' = U!ValueOf(upvals[o])
      <4>1. v \in U!Refs(o)
        BY <2>0, <2>3, <3>1, <3>2 DEF U!Refs
      <4> QED BY <3>2, <4>1 DEF AgesInv, Downhill
    <3>3. CASE Young(U!ValueOf(upvals[o]), 0)'
      <4>1. Young(v, 0)
        BY <3>1, <3>3 DEF Young
      <4> QED BY <2>1, <4>1
    <3> QED BY <3>1, <3>2, <3>3
  <2> QED BY <2>2, <2>3
<1>3. Downhill'
  BY <1>2 DEF Downhill
<1>4. FoundYoung'
  <2> SUFFICES ASSUME gcstate = "propagate", NEW o \in Found'
               PROVE  age[o] <= 0
    BY <1>0 DEF FoundYoung
  <2>1. CASE o \in Found
    BY <2>1 DEF AgesInv, FoundYoung
  <2>2. CASE age[o] = 0
    BY <2>2
  <2> QED BY <2>1, <2>2
<1>5. TouchedYoung'
  <2> SUFFICES ASSUME NEW w \in UpVals, U!IsOpen(w)', uv'[w].touched
               PROVE  Young(U!ValueOf(w), IF gcstate = "propagate" THEN 1 ELSE 0)'
    BY <1>0 DEF TouchedYoung
  <2>1. CASE U!IsOpen(w) /\ uv[w].touched /\ U!ValueOf(w)' = U!ValueOf(w)
    <3>1. Young(U!ValueOf(w), IF gcstate = "propagate" THEN 1 ELSE 0)
      BY <2>1 DEF AgesInv, TouchedYoung
    <3> QED BY <1>0, <2>1, <3>1 DEF Young
  <2>2. CASE Young(U!ValueOf(w), 0)'
    BY <1>0, <2>2 DEF Young
  <2> QED BY <2>1, <2>2
<1>6. LeftYoung'
  <2> SUFFICES ASSUME gcstate \in {"pause", "sweep"}, NEW o \in alive' \ dead
               PROVE  age[o] <= 1
    BY <1>0 DEF LeftYoung
  <2>1. CASE o \in alive
    BY <2>1 DEF AgesInv, LeftYoung
  <2>2. CASE o \notin alive
    BY <1>0, <2>2 DEF AgesInv, Counts, U!TypeOK
  <2> QED BY <2>1, <2>2
<1> QED BY <1>1, <1>3, <1>4, <1>5, <1>6 DEF AgesInv

\* The values of upvalues and the places of a stack where one value is written.
Writes(t, l, v) == stack' = [stack EXCEPT ![t][l] = v]
LEMMA Written ==
  ASSUME U!TypeOK, U!InPlace, NEW t \in U!Threads, NEW l \in Levels, NEW v, Writes(t, l, v)
  PROVE  /\ \A o \in U!Threads, x \in Levels : stack'[o][x] = stack[o][x] \/ stack'[o][x] = v
         /\ \A w \in UpVals :
              /\ uv'[w].st = uv[w].st /\ uv'[w].th = uv[w].th /\ uv'[w].level = uv[w].level /\ uv'[w].value = uv[w].value
              => (U!IsOpen(w)' <=> U!IsOpen(w)) /\ (U!ValueOf(w)' = U!ValueOf(w) \/ U!ValueOf(w)' = v)
<1>1. \A o \in U!Threads, x \in Levels : stack'[o][x] = stack[o][x] \/ stack'[o][x] = v
  BY DEF U!TypeOK, Writes
<1>2. ASSUME NEW w \in UpVals, uv'[w].st = uv[w].st, uv'[w].th = uv[w].th, uv'[w].level = uv[w].level,
             uv'[w].value = uv[w].value
      PROVE  (U!IsOpen(w)' <=> U!IsOpen(w)) /\ (U!ValueOf(w)' = U!ValueOf(w) \/ U!ValueOf(w)' = v)
  <2>1. U!IsOpen(w)' <=> U!IsOpen(w)
    BY <1>2 DEF U!IsOpen
  <2>2. CASE U!IsOpen(w)
    <3>1. uv[w].th \in U!Threads /\ uv[w].level \in Levels
      BY <2>2 DEF U!InPlace
    <3>2. stack'[uv[w].th][uv[w].level] = stack[uv[w].th][uv[w].level] \/ stack'[uv[w].th][uv[w].level] = v
      BY <1>1, <3>1
    <3> QED BY <1>2, <2>1, <2>2, <3>2 DEF U!ValueOf
  <2>3. CASE ~U!IsOpen(w)
    BY <1>2, <2>1, <2>3 DEF U!ValueOf
  <2> QED BY <2>1, <2>2, <2>3
<1> QED BY <1>1, <1>2

\* A barrier marks no garbage if what it is called for is none.
LEMMA BarrierFound ==
  ASSUME U!TypeOK, Counts, NEW vs, U!Barrier(vs), \A v \in vs : Young(v, 0), grayagain' = grayagain
  PROVE  \A o \in Found' : o \in Found \/ age[o] = 0
<1>1. /\ \A o \in U!Objs : Coloured(o)
      /\ gray' \subseteq gray \cup (vs \cap U!Objs)
  BY BarrierFacts
<1>2. \A o \in vs \cap U!Objs : age[o] = 0
  BY DEF Young, Counts
<1>3. \A o \in Found' : o \in Found \/ o \in gray'
  BY <1>1 DEF Found, Coloured
<1>4. \A o \in gray' : o \in Found \/ o \in vs \cap U!Objs
  BY <1>1 DEF Found
<1> QED BY <1>2, <1>3, <1>4

\* One value written in the stack of a thread.
LEMMA WriteAges ==
  ASSUME U!IInv, U!IInv', AgesInv, Program, age' = age, NEW t \in U!Threads, NEW l \in Levels, NEW v, Young(v, 0),
         stack' = [stack EXCEPT ![t][l] = v], UNCHANGED <<uv, upvals, alive, color, gray>>
  PROVE  AgesInv'
<1>1. U!TypeOK /\ U!InPlace
  BY DEF U!IInv
<1>2. \A o \in U!Threads, x \in Levels : stack'[o][x] = stack[o][x] \/ Young(stack'[o][x], 0)
  BY <1>1, Written DEF Writes
<1>3. ASSUME NEW w \in UpVals
      PROVE  (U!IsOpen(w)' <=> U!IsOpen(w)) /\ (U!ValueOf(w)' = U!ValueOf(w) \/ Young(U!ValueOf(w), 0)')
  <2>1. (U!IsOpen(w)' <=> U!IsOpen(w)) /\ (U!ValueOf(w)' = U!ValueOf(w) \/ U!ValueOf(w)' = v)
    BY <1>1, Written DEF Writes
  <2> QED BY <2>1 DEF Young
<1>4. ASSUME NEW c \in alive' \cap Closures
      PROVE  (c \in alive /\ U!ValueOf(upvals[c])' = U!ValueOf(upvals[c])) \/ Young(U!ValueOf(upvals[c]), 0)'
  <2>1. PICK w \in UpVals : w = upvals[c] /\ upvals'[c] = w
    BY <1>1 DEF U!InPlace
  <2> QED BY <1>3, <2>1
<1>5. Found' = Found
  BY DEF Found, Program
<1> QED BY <1>2, <1>3, <1>4, <1>5, ProgramAges

\* lua_newthread: the thread is new.
LEMMA NewThreadAges ==
  ASSUME U!IInv, U!IInv', AgesInv, U!NewThread
  PROVE  AgesInv'
<1>0. U!TypeOK /\ U!InPlace /\ Counts
  BY DEF U!IInv, AgesInv
<1>1. Program /\ age' = age /\ UNCHANGED <<uv, openupval, twups, upvals, gray>>
  BY DEF U!NewThread, U!Mutate, Program
<1>2. PICK t \in U!Threads \ alive, l \in Levels :
        /\ alive' = alive \cup {t} /\ stack' = [stack EXCEPT ![Main][l] = t]
        /\ color' = [color EXCEPT ![t] = "white"]
  BY DEF U!NewThread
<1>3. Young(t, 0) /\ t \notin Closures /\ Main \in U!Threads
  BY <1>0, Kinds DEF Counts, Young
<1>4. \A o \in U!Threads, x \in Levels : stack'[o][x] = stack[o][x] \/ Young(stack'[o][x], 0)
  BY <1>0, <1>2, <1>3, Written DEF Writes
<1>5. ASSUME NEW w \in UpVals
      PROVE  (U!IsOpen(w)' <=> U!IsOpen(w)) /\ (U!ValueOf(w)' = U!ValueOf(w) \/ Young(U!ValueOf(w), 0)')
  <2>1. (U!IsOpen(w)' <=> U!IsOpen(w)) /\ (U!ValueOf(w)' = U!ValueOf(w) \/ U!ValueOf(w)' = t)
    BY <1>0, <1>1, <1>2, <1>3, Written DEF Writes
  <2> QED BY <1>1, <1>3, <2>1 DEF Young
<1>6. ASSUME NEW c \in alive' \cap Closures
      PROVE  (c \in alive /\ U!ValueOf(upvals[c])' = U!ValueOf(upvals[c])) \/ Young(U!ValueOf(upvals[c]), 0)'
  <2>1. c \in alive
    BY <1>2, <1>3
  <2>2. PICK w \in UpVals : w = upvals[c] /\ upvals'[c] = w
    BY <1>0, <1>1, <2>1 DEF U!InPlace
  <2> QED BY <1>5, <2>1, <2>2
<1>7. Found' \subseteq Found
  <2>1. \A o \in U!Objs : color'[o] # "white" => color[o] # "white"
    BY <1>0, <1>2 DEF U!TypeOK
  <2> QED BY <1>1, <2>1 DEF Found, Program
<1>8. alive \subseteq alive'
  BY <1>2
<1> QED BY <1>1, <1>4, <1>5, <1>6, <1>7, <1>8, ProgramAges

\* A value moved in a stack is one the program can get at, or nil.
LEMMA SetStackAges ==
  ASSUME U!IInv, U!IInv', AgesInv, U!SetStack
  PROVE  AgesInv'
<1>1. Program /\ age' = age /\ UNCHANGED <<uv, openupval, twups, upvals, alive, color, gray>>
  BY DEF U!SetStack, U!Mutate, Program
<1>2. PICK t \in U!Accessible \cap U!Threads, l \in Levels, v \in U!Accessible \cup {U!Nil} :
        stack' = [stack EXCEPT ![t][l] = v]
  BY DEF U!SetStack
<1>3. Young(v, 0)
  <2>1. CASE v = U!Nil
    BY <2>1, UpvalAssumption DEF Young
  <2>2. CASE v \in U!Accessible
    BY <2>2, AccessibleYoung DEF AgesInv
  <2> QED BY <2>1, <2>2
<1> QED BY <1>1, <1>2, <1>3, WriteAges

\* OP_SETUPVAL and lua_setupvalue, for open upvalues and closed ones.
LEMMA SetUpvalAges ==
  ASSUME U!IInv, U!IInv', AgesInv, U!SetUpval
  PROVE  AgesInv'
<1>0. U!TypeOK /\ U!InPlace /\ Counts /\ Downhill
  BY DEF U!IInv, AgesInv
<1>1. Program /\ age' = age /\ UNCHANGED <<openupval, twups, upvals, alive>>
  BY DEF U!SetUpval, U!Mutate, Program
<1>2. PICK c \in U!Accessible \cap Closures, v \in U!Accessible \cup {U!Nil} :
        IF U!IsOpen(upvals[c])
        THEN stack' = [stack EXCEPT ![uv[upvals[c]].th][uv[upvals[c]].level] = v] /\ UNCHANGED <<uv, color, gray>>
        ELSE uv' = [uv EXCEPT ![upvals[c]].value = v] /\ U!Barrier({v}) /\ UNCHANGED stack
  BY DEF U!SetUpval
<1>3. Young(v, 0)
  <2>1. CASE v = U!Nil
    BY <2>1, UpvalAssumption DEF Young
  <2>2. CASE v \in U!Accessible
    BY <1>0, <2>2, AccessibleYoung
  <2> QED BY <2>1, <2>2
<1>4. PICK x \in UpVals : x = upvals[c]
  BY <1>0, AccessibleYoung
<1>5. CASE U!IsOpen(x)
  <2>1. PICK t \in U!Threads, l \in Levels : t = uv[x].th /\ l = uv[x].level
    BY <1>0, <1>5 DEF U!InPlace
  <2>2. stack' = [stack EXCEPT ![t][l] = v] /\ UNCHANGED <<uv, color, gray>>
    BY <1>2, <1>4, <1>5, <2>1
  <2> QED BY <1>1, <1>3, <2>2, WriteAges
<1>6. CASE ~U!IsOpen(x)
  <2>1. uv' = [uv EXCEPT ![x].value = v] /\ U!Barrier({v}) /\ stack' = stack
    BY <1>2, <1>4, <1>6
  <2>2. \A w \in UpVals \ {x} : uv'[w] = uv[w]
    BY <1>0, <2>1 DEF U!TypeOK
  <2>3. uv'[x].st = uv[x].st /\ uv'[x].value = v
    <3>1. uv[x] \in U!UpVal /\ uv'[x] = [uv[x] EXCEPT !.value = v]
      BY <1>0, <2>1 DEF U!TypeOK
    <3> QED BY <3>1 DEF U!UpVal
  <2>4. ~U!IsOpen(x)' /\ U!ValueOf(x)' = v
    BY <1>6, <2>3 DEF U!ValueOf, U!IsOpen
  <2>5. \A w \in UpVals \ {x} : (U!IsOpen(w)' <=> U!IsOpen(w)) /\ U!ValueOf(w)' = U!ValueOf(w)
    BY <2>1, <2>2 DEF U!ValueOf, U!IsOpen
  <2>6. ASSUME NEW d \in alive' \cap Closures
        PROVE  (d \in alive /\ U!ValueOf(upvals[d])' = U!ValueOf(upvals[d])) \/ Young(U!ValueOf(upvals[d]), 0)'
    <3>1. PICK w \in UpVals : w = upvals[d] /\ upvals'[d] = w
      BY <1>0, <1>1 DEF U!InPlace
    <3>2. CASE w = x
      BY <1>1, <1>3, <2>4, <3>1, <3>2 DEF Young
    <3>3. CASE w # x
      BY <1>1, <2>5, <3>1, <3>3
    <3> QED BY <3>2, <3>3
  <2>7. ASSUME NEW w \in UpVals, U!IsOpen(w)', uv'[w].touched
        PROVE  U!IsOpen(w) /\ uv[w].touched /\ U!ValueOf(w)' = U!ValueOf(w)
    <3>1. w # x
      BY <2>4, <2>7
    <3> QED BY <2>2, <2>5, <2>7, <3>1
  <2>8. \A o \in Found' : o \in Found \/ age[o] = 0
    BY <1>0, <1>1, <1>3, <2>1, BarrierFound DEF Program
  <2>9. \A t \in U!Threads, l \in Levels : stack'[t][l] = stack[t][l]
    BY <2>1
  <2> QED BY <1>1, <2>6, <2>7, <2>8, <2>9, ProgramAges
<1> QED BY <1>5, <1>6

\* pushclosure: the closure is new, and its upvalue is one of an enclosing
\* closure or has a place in a stack the program can get at.
LEMMA PushClosureAges ==
  ASSUME U!IInv, U!IInv', AgesInv, U!PushClosure
  PROVE  AgesInv'
<1>0. U!TypeOK /\ U!InPlace /\ U!UpvaluesCounted /\ U!NoDangling /\ Counts /\ Downhill
  BY DEF U!IInv, AgesInv
<1>1. Program /\ age' = age /\ gray' = gray
  BY DEF U!PushClosure, U!Mutate, Program
<1>2. PICK c \in Closures \ alive, t \in U!Accessible \cap U!Threads, dst \in Levels, x \in UpVals, l \in Levels :
        /\ Shares(x) \/ Opens(x, t, l)
        /\ upvals' = [upvals EXCEPT ![c] = x]
        /\ stack' = [stack EXCEPT ![t][dst] = c]
        /\ alive' = alive \cup {c} /\ color' = [color EXCEPT ![c] = "white"]
  BY PushClosureWays
<1>3. Young(c, 0) /\ c \in U!Objs /\ c \notin U!Threads
  BY <1>0, Kinds DEF Counts, Young
<1>4. /\ \A o \in U!Threads, y \in Levels : stack'[o][y] = stack[o][y] \/ Young(stack'[o][y], 0)
      /\ \A y \in UpVals :
            /\ uv'[y].st = uv[y].st /\ uv'[y].th = uv[y].th /\ uv'[y].level = uv[y].level /\ uv'[y].value = uv[y].value
            => (U!IsOpen(y)' <=> U!IsOpen(y)) /\ (U!ValueOf(y)' = U!ValueOf(y) \/ U!ValueOf(y)' = c)
  <2>1. U!TypeOK /\ U!InPlace /\ t \in U!Threads /\ dst \in Levels /\ Writes(t, dst, c)
    BY <1>0, <1>2 DEF Writes
  <2>2. /\ \A o \in U!Threads, y \in Levels : stack'[o][y] = stack[o][y] \/ stack'[o][y] = c
        /\ \A y \in UpVals :
            /\ uv'[y].st = uv[y].st /\ uv'[y].th = uv[y].th /\ uv'[y].level = uv[y].level /\ uv'[y].value = uv[y].value
            => (U!IsOpen(y)' <=> U!IsOpen(y)) /\ (U!ValueOf(y)' = U!ValueOf(y) \/ U!ValueOf(y)' = c)
    BY <2>1, Written
  <2> QED BY <1>3, <2>2
<1>5. /\ \A w \in UpVals \ {x} : uv'[w] = uv[w]
      /\ uv[x].st # "free" => /\ uv'[x].st = uv[x].st /\ uv'[x].th = uv[x].th /\ uv'[x].level = uv[x].level
                              /\ uv'[x].value = uv[x].value /\ uv'[x].touched = uv[x].touched
      /\ uv[x].st = "free" => uv'[x].st = "open" /\ uv'[x].th = t /\ uv'[x].level = l
  <2>1. t \in (alive \ dead) \cap U!Threads
    BY <1>0, AccessibleSafe
  <2> QED BY <1>2, <2>1, Obtained
<1>6. ASSUME NEW w \in UpVals, w # x \/ uv[w].st # "free"
      PROVE  /\ U!IsOpen(w)' <=> U!IsOpen(w)
             /\ U!ValueOf(w)' = U!ValueOf(w) \/ U!ValueOf(w)' = c
             /\ uv'[w].touched = uv[w].touched
  <2>1. /\ uv'[w].st = uv[w].st /\ uv'[w].th = uv[w].th /\ uv'[w].level = uv[w].level
        /\ uv'[w].value = uv[w].value /\ uv'[w].touched = uv[w].touched
    BY <1>5, <1>6
  <2>2. (U!IsOpen(w)' <=> U!IsOpen(w)) /\ (U!ValueOf(w)' = U!ValueOf(w) \/ U!ValueOf(w)' = c)
    BY <1>4, <2>1
  <2> QED BY <2>1, <2>2
<1>7. Young(U!ValueOf(x), 0)'
  <2>1. CASE Shares(x)
    <3>1. Young(U!ValueOf(x), 0)
      BY <1>0, <2>1, AccessibleYoung DEF Shares, Young
    <3>2. U!ValueOf(x)' = U!ValueOf(x) \/ U!ValueOf(x)' = c
      BY <1>6, <2>1 DEF Shares
    <3> QED BY <1>1, <1>3, <3>1, <3>2 DEF Young
  <2>2. CASE Opens(x, t, l)
    <3>1. U!ValueOf(x)' = stack'[t][l]
      BY <1>5, <2>2 DEF Opens, U!ValueOf, U!IsOpen
    <3>2. Young(stack[t][l], 0)
      BY <1>0, AccessibleYoung
    <3>3. Young(stack'[t][l], 0)
      BY <1>4, <3>2
    <3> QED BY <1>1, <3>1, <3>3 DEF Young
  <2> QED BY <1>2, <2>1, <2>2
<1>8. /\ upvals'[c] = x /\ \A d \in Closures \ {c} : upvals'[d] = upvals[d]
      /\ alive \subseteq alive' /\ \A d \in alive' : d = c \/ d \in alive
  BY <1>0, <1>2 DEF U!TypeOK
<1>9. ASSUME NEW d \in alive' \cap Closures
      PROVE  (d \in alive /\ U!ValueOf(upvals[d])' = U!ValueOf(upvals[d])) \/ Young(U!ValueOf(upvals[d]), 0)'
  <2>1. CASE d = c
    BY <1>7, <1>8, <2>1
  <2>2. CASE d # c
    <3>1. d \in alive \cap Closures
      BY <1>8, <2>2
    <3>2. PICK w \in UpVals : w = upvals[d] /\ upvals'[d] = w
      BY <1>0, <1>8, <2>2, <3>1, Held
    <3>3. uv[w].st # "free"
      BY <1>0, <3>1, <3>2, Held
    <3>4. U!ValueOf(w)' = U!ValueOf(w) \/ U!ValueOf(w)' = c
      BY <1>6, <3>3
    <3> QED BY <1>1, <1>3, <3>1, <3>2, <3>4 DEF Young
  <2> QED BY <2>1, <2>2
<1>10. ASSUME NEW w \in UpVals, U!IsOpen(w)', uv'[w].touched
       PROVE  (U!IsOpen(w) /\ uv[w].touched /\ U!ValueOf(w)' = U!ValueOf(w)) \/ Young(U!ValueOf(w), 0)'
  <2>1. CASE w = x
    BY <1>7, <2>1
  <2>2. CASE w # x
    BY <1>1, <1>3, <1>6, <1>10, <2>2 DEF Young
  <2> QED BY <2>1, <2>2
<1>11. Found' \subseteq Found
  <2>1. \A o \in U!Objs : color'[o] # "white" => color[o] # "white"
    BY <1>0, <1>2 DEF U!TypeOK
  <2> QED BY <1>1, <2>1 DEF Found, Program
<1> QED BY <1>1, <1>4, <1>8, <1>9, <1>10, <1>11, ProgramAges

\* Leaving a scope: the values of the upvalues that are closed lie in a stack the
\* program can get at.
LEMMA LeaveScopeAges ==
  ASSUME U!IInv, U!IInv', AgesInv, U!LeaveScope
  PROVE  AgesInv'
<1>0. U!TypeOK /\ U!InPlace /\ U!UpvaluesCounted /\ U!NoDangling /\ Counts /\ Downhill
  BY DEF U!IInv, AgesInv
<1>1. Program /\ age' = age /\ UNCHANGED <<upvals, alive>>
  BY DEF U!LeaveScope, U!Mutate, Program
<1>2. PICK t \in U!Accessible \cap U!Threads, l \in Levels :
        /\ U!Becomes(U!Close(t, l))
        /\ stack' = [stack EXCEPT ![t] = [x \in Levels |-> IF x >= l THEN U!Nil ELSE stack[t][x]]]
        /\ U!Barrier({U!ValueOf(w) : w \in {x \in Closing(t, l) : uv[x].count > 0}})
  BY DEF U!LeaveScope, Closing
<1> DEFINE vs == {U!ValueOf(w) : w \in {x \in Closing(t, l) : uv[x].count > 0}}
<1>3. /\ \A o \in U!Threads \ {t} : stack'[o] = stack[o]
      /\ \A x \in Levels : x < l => stack'[t][x] = stack[t][x]
      /\ \A x \in Levels : stack'[t][x] \in {stack[t][x], U!Nil}
  <2>1. l \in Nat /\ Levels \subseteq Nat
    BY UpvalAssumption
  <2>2. stack'[t] = [x \in Levels |-> IF x >= l THEN U!Nil ELSE stack[t][x]]
    BY <1>0, <1>2 DEF U!TypeOK
  <2>3. ASSUME NEW x \in Levels, x < l PROVE stack'[t][x] = stack[t][x]
    <3>1. ~(x >= l)
      BY <2>1, <2>3
    <3> QED BY <2>2, <3>1
  <2>4. \A x \in Levels : stack'[t][x] \in {stack[t][x], U!Nil}
    BY <2>2
  <2>5. \A o \in U!Threads \ {t} : stack'[o] = stack[o]
    BY <1>0, <1>2 DEF U!TypeOK
  <2> QED BY <2>3, <2>4, <2>5
<1>4. \A o \in U!Threads, x \in Levels : stack'[o][x] = stack[o][x] \/ Young(stack'[o][x], 0)
  BY <1>3, UpvalAssumption DEF Young
<1>5. /\ l \in Nat /\ \A w \in UpVals \ Closing(t, l) : uv'[w] = uv[w]
      /\ \A w \in Closing(t, l) : ~U!IsOpen(w)'
  <2>1. l \in Nat
    BY UpvalAssumption
  <2> QED BY <1>0, <1>2, <2>1, CloseFacts
<1>6. ASSUME NEW c \in alive' \cap Closures
      PROVE  c \in alive /\ U!ValueOf(upvals[c])' = U!ValueOf(upvals[c])
  BY <1>0, <1>1, <1>2, <1>3, <1>5, <1>6, CloseKeeps
<1>7. ASSUME NEW w \in UpVals, U!IsOpen(w)', uv'[w].touched
      PROVE  (U!IsOpen(w) /\ uv[w].touched /\ U!ValueOf(w)' = U!ValueOf(w)) \/ Young(U!ValueOf(w), 0)'
  <2>1. uv'[w] = uv[w] /\ U!IsOpen(w)
    <3>1. uv'[w] = uv[w]
      BY <1>5, <1>7
    <3> QED BY <1>7, <3>1 DEF U!IsOpen
  <2>2. uv[w].th \in U!Threads /\ uv[w].level \in Levels
    BY <1>0, <2>1 DEF U!InPlace
  <2>3. U!ValueOf(w)' = stack'[uv[w].th][uv[w].level] /\ U!ValueOf(w) = stack[uv[w].th][uv[w].level]
    BY <1>7, <2>1 DEF U!ValueOf
  <2>4. U!ValueOf(w)' = U!ValueOf(w) \/ Young(stack'[uv[w].th][uv[w].level], 0)
    BY <1>4, <2>2, <2>3
  <2> QED BY <1>1, <1>7, <2>1, <2>3, <2>4 DEF Young
<1>8. \A v \in vs : Young(v, 0)
  <2> SUFFICES ASSUME NEW x \in Closing(t, l)
               PROVE  Young(U!ValueOf(x), 0)
    OBVIOUS
  <2>1. x \in UpVals /\ U!IsOpen(x) /\ uv[x].th = t
    BY DEF Closing
  <2>2. U!ValueOf(x) = stack[t][uv[x].level] /\ uv[x].level \in Levels
    BY <1>0, <2>1 DEF U!ValueOf, U!InPlace
  <2> QED BY <1>0, <2>2, AccessibleYoung
<1> HIDE DEF vs
<1>9. \A o \in Found' : o \in Found \/ age[o] = 0
  <2>1. U!Barrier(vs)
    BY <1>2 DEF vs
  <2> QED BY <1>0, <1>1, <1>8, <2>1, BarrierFound DEF Program
<1> QED BY <1>1, <1>4, <1>6, <1>7, <1>9, ProgramAges

\* lua_upvaluejoin: the upvalue is one the program can get at.
LEMMA UpvalueJoinAges ==
  ASSUME U!IInv, U!IInv', AgesInv, U!UpvalueJoin
  PROVE  AgesInv'
<1>0. U!TypeOK /\ U!InPlace /\ U!UpvaluesCounted /\ U!NoDangling /\ Counts /\ Downhill
  BY DEF U!IInv, AgesInv
<1>1. Program /\ age' = age /\ stack' = stack /\ alive' = alive
  BY DEF U!UpvalueJoin, U!Mutate, Program
<1>2. PICK c \in U!Accessible \cap Closures, d \in U!Accessible \cap Closures :
        /\ U!DecCount(U!State, upvals[c]).uv[upvals[d]].st # "free"
        /\ upvals' = [upvals EXCEPT ![c] = upvals[d]]
        /\ U!Becomes([U!DecCount(U!State, upvals[c]) EXCEPT
                        !.uv[upvals[d]] = OneMoreTo(U!DecCount(U!State, upvals[c]).uv[upvals[d]], upvals[d])])
        /\ IF U!IsOpen(upvals[d]) THEN UNCHANGED <<color, gray>> ELSE U!Barrier({uv[upvals[d]].value})
  BY DEF U!UpvalueJoin, OneMoreTo
<1>3. c \in alive \cap Closures /\ d \in alive \cap Closures
  BY <1>0, AccessibleSafe
<1>4. PICK x \in UpVals, w \in UpVals : x = upvals[c] /\ w = upvals[d]
  BY <1>0, <1>3, Held
<1>5. Rejoined(c, w)
  <2>1. /\ U!DecCount(U!State, x).uv[w].st # "free"
        /\ upvals' = [upvals EXCEPT ![c] = w]
        /\ U!Becomes([U!DecCount(U!State, x) EXCEPT !.uv[w] = OneMoreTo(U!DecCount(U!State, x).uv[w], w)])
    BY <1>2, <1>4
  <2> QED BY <1>0, <1>1, <1>3, <1>4, <2>1, Joined
<1>6. Young(U!ValueOf(w), 0)
  BY <1>0, <1>2, <1>4, AccessibleYoung
<1>7. ASSUME NEW y \in UpVals, uv'[y].st # "free" PROVE U!ValueOf(y)' = U!ValueOf(y)
  <2>1. /\ U!IsOpen(y)' <=> U!IsOpen(y)
        /\ U!IsOpen(y) => uv'[y].th = uv[y].th /\ uv'[y].level = uv[y].level
        /\ uv'[y].value = uv[y].value
    BY <1>5, <1>7 DEF Rejoined
  <2> QED BY <1>1, <2>1 DEF U!ValueOf
<1>8. ASSUME NEW e \in alive' \cap Closures
      PROVE  (e \in alive /\ U!ValueOf(upvals[e])' = U!ValueOf(upvals[e])) \/ Young(U!ValueOf(upvals[e]), 0)'
  <2>1. PICK y \in UpVals : y = upvals'[e] /\ uv'[y].st # "free"
    BY <1>1, <1>5 DEF Rejoined
  <2>2. U!ValueOf(y)' = U!ValueOf(y)
    BY <1>7, <2>1
  <2>3. CASE e = c
    <3>1. y = w
      BY <1>5, <2>1, <2>3 DEF Rejoined
    <3> QED BY <1>1, <1>6, <2>1, <2>2, <3>1 DEF Young
  <2>4. CASE e # c
    <3>1. y = upvals[e]
      BY <1>5, <2>1, <2>4 DEF Rejoined
    <3> QED BY <1>1, <2>1, <2>2, <3>1
  <2> QED BY <2>3, <2>4
<1>9. ASSUME NEW y \in UpVals, U!IsOpen(y)', uv'[y].touched
      PROVE  (U!IsOpen(y) /\ uv[y].touched /\ U!ValueOf(y)' = U!ValueOf(y)) \/ Young(U!ValueOf(y), 0)'
  <2>1. U!IsOpen(y) /\ U!ValueOf(y)' = U!ValueOf(y)
    BY <1>5, <1>7, <1>9 DEF Rejoined, U!IsOpen
  <2>2. CASE y = w
    BY <1>1, <1>6, <2>1, <2>2 DEF Young
  <2>3. CASE y # w
    BY <1>5, <1>9, <2>1, <2>3 DEF Rejoined
  <2> QED BY <2>2, <2>3
<1>10. \A o \in Found' : o \in Found \/ age[o] = 0
  <2>1. CASE U!IsOpen(w)
    BY <1>1, <1>2, <1>4, <2>1 DEF Found, Program
  <2>2. CASE ~U!IsOpen(w)
    <3>1. U!Barrier({uv[w].value}) /\ Young(uv[w].value, 0)
      BY <1>2, <1>4, <1>6, <2>2 DEF U!ValueOf
    <3> QED BY <1>0, <1>1, <3>1, BarrierFound DEF Program
  <2> QED BY <2>1, <2>2
<1> QED BY <1>1, <1>8, <1>9, <1>10, ProgramAges

\* A step of the collector that sweeps nothing and begins no collection.
LEMMA SteadyAges ==
  ASSUME U!IInv, AgesInv, Steady, age' = age
  PROVE  Counts' /\ Downhill' /\ U!NoCycleForEver'
<1>1. alive' = alive /\ alive \subseteq U!Objs /\ U!InPlace
  BY DEF Steady, U!IInv, U!TypeOK
<1>2. \A o \in alive : U!Refs(o)' = U!Refs(o)
  BY <1>1, SteadyValues
<1>3. Downhill'
  BY <1>1, <1>2 DEF AgesInv, Downhill
<1> QED BY <1>1, <1>3 DEF AgesInv, Counts, U!NoCycleForEver

\* restartcollection: what no one can get at grows older, and what one can get
\* at refers to nothing of it.
LEMMA RestartAges ==
  ASSUME U!IInv, AgesInv, U!RestartCollection
  PROVE  AgesInv'
<1>0. U!TypeOK /\ U!InPlace /\ U!NoDangling /\ Counts /\ Downhill /\ LeftYoung /\ TouchedYoung
  BY DEF U!IInv, AgesInv
<1>1. /\ gcstate = "pause" /\ gcstate' = "propagate" /\ gray' = {Main} /\ grayagain' = {}
      /\ color' = [o \in U!Objs |-> IF o = Main THEN "gray" ELSE "white"]
      /\ age' = [o \in U!Objs |-> IF o \in alive \ U!Accessible THEN age[o] + 1 ELSE 0]
      /\ UNCHANGED <<stack, openupval, upvals, alive, uv, dead>>
  BY DEF U!RestartCollection, U!Collect
<1>2. dead = {} /\ alive \subseteq U!Objs /\ Main \in U!Objs /\ Main \in U!Accessible
  BY <1>0, <1>1, AccessibleClosed DEF U!NoDangling, U!TypeOK
<1>3. \A o \in U!Objs : age[o] \in Nat /\ age'[o] \in Nat
                        /\ age'[o] = IF o \in alive \ U!Accessible THEN age[o] + 1 ELSE 0
  BY <1>0, <1>1 DEF Counts
<1>4. Steady
  BY <1>0, <1>1 DEF Steady, ButTouched, U!TypeOK
<1>5. Counts'
  <2>1. age' \in [U!Objs -> Nat]
    BY <1>1, <1>3
  <2> QED BY <1>1, <1>2, <1>3, <2>1 DEF Counts
<1>6. Downhill'
  <2>1. ASSUME NEW o \in alive, NEW v \in U!Refs(o)
        PROVE  age'[v] <= age'[o]
    <3>1. o \in U!Objs /\ v \in U!Objs /\ v \in alive
      BY <1>0, <1>2 DEF U!NoDangling
    <3>2. CASE v \in U!Accessible
      BY <1>3, <3>1, <3>2
    <3>3. CASE v \notin U!Accessible
      <4>1. o \notin U!Accessible
        BY <3>3, AccessibleClosed
      <4>2. age[v] <= age[o]
        BY <1>0 DEF Downhill
      <4> QED BY <1>3, <3>1, <3>3, <4>1, <4>2
    <3> QED BY <3>2, <3>3
  <2>2. \A o \in alive : U!Refs(o)' = U!Refs(o)
    BY <1>0, <1>2, <1>4, SteadyValues
  <2> QED BY <1>1, <2>1, <2>2 DEF Downhill
<1>7. FoundYoung'
  <2>1. Found' = {Main}
    BY <1>1, <1>2 DEF Found
  <2>2. age'[Main] = 0
    BY <1>5 DEF Counts
  <2> QED BY <1>1, <2>1, <2>2 DEF FoundYoung
<1>8. TouchedYoung'
  <2> SUFFICES ASSUME NEW w \in UpVals, U!IsOpen(w), uv[w].touched
               PROVE  U!ValueOf(w) \in U!Objs => age'[U!ValueOf(w)] <= 1
    <3>1. \A w \in UpVals : (U!IsOpen(w)' <=> U!IsOpen(w)) /\ U!ValueOf(w)' = U!ValueOf(w) /\ uv'[w] = uv[w]
      BY <1>0, <1>1, <1>4, SteadyValues
    <3> QED BY <1>1, <3>1 DEF TouchedYoung, Young
  <2>1. Young(U!ValueOf(w), 0)
    BY <1>0, <1>1 DEF TouchedYoung
  <2> QED BY <1>3, <2>1 DEF Young
<1>9. LeftYoung' /\ U!NoCycleForEver'
  <2>1. ASSUME NEW o \in U!Objs PROVE age'[o] <= 2
    <3>1. o \in alive => age[o] <= 1
      BY <1>0, <1>1, <1>2 DEF LeftYoung
    <3> QED BY <1>3, <3>1
  <2> QED BY <1>1, <2>1 DEF LeftYoung, U!NoCycleForEver
<1> QED BY <1>5, <1>6, <1>7, <1>8, <1>9 DEF AgesInv

\* Traversing an object finds nothing older than the object.
LEMMA TraverseAges ==
  ASSUME U!IInv, AgesInv, gcstate \in {"propagate", "insideatomic"}, NEW o \in gray,
         Steady, UNCHANGED <<gcstate, dead, age>>,
         Found' \subseteq Found \cup U!Refs(o),
         \A w \in UpVals : U!IsOpen(w) /\ uv'[w].touched =>
            uv[w].touched \/ (gcstate = "propagate" /\ {U!ValueOf(w)} \cap U!Objs \subseteq U!Refs(o))
  PROVE  AgesInv'
<1>0. U!TypeOK /\ U!InPlace /\ Counts /\ Downhill /\ FoundYoung /\ TouchedYoung
  BY DEF U!IInv, AgesInv
<1>1. Counts' /\ Downhill' /\ U!NoCycleForEver'
  BY SteadyAges
<1>2. o \in alive /\ o \in U!Objs /\ o \in Found
  BY <1>0 DEF U!IInv, U!Marking, U!TypeOK, Found
<1>3. \A v \in U!Objs : age[v] \in Nat
  BY <1>0 DEF Counts
<1>4. age[o] <= IF gcstate = "propagate" THEN 0 ELSE 1
  BY <1>0, <1>2 DEF FoundYoung
<1>5. ASSUME NEW v \in U!Refs(o)
      PROVE  age[v] <= IF gcstate = "propagate" THEN 0 ELSE 1
  <2>1. age[v] <= age[o] /\ v \in U!Objs
    BY <1>0, <1>2 DEF Downhill, U!Refs
  <2> QED BY <1>2, <1>3, <1>4, <2>1
<1>6. FoundYoung'
  <2>1. \A v \in Found' : age[v] <= IF gcstate = "propagate" THEN 0 ELSE 1
    BY <1>0, <1>5 DEF FoundYoung
  <2> QED BY <2>1 DEF FoundYoung
<1>7. TouchedYoung'
  <2>1. \A w \in UpVals : (U!IsOpen(w)' <=> U!IsOpen(w)) /\ U!ValueOf(w)' = U!ValueOf(w)
    BY <1>0, SteadyValues
  <2>2. ASSUME NEW w \in UpVals, U!IsOpen(w), uv'[w].touched
        PROVE  Young(U!ValueOf(w), IF gcstate = "propagate" THEN 1 ELSE 0)
    <3>1. CASE uv[w].touched
      BY <1>0, <2>2, <3>1 DEF TouchedYoung
    <3>2. CASE gcstate = "propagate" /\ {U!ValueOf(w)} \cap U!Objs \subseteq U!Refs(o)
      <4>1. U!ValueOf(w) \in U!Objs => age[U!ValueOf(w)] <= 0
        BY <1>5, <3>2
      <4> QED BY <1>3, <3>2, <4>1 DEF Young
    <3> QED BY <2>2, <3>1, <3>2
  <2> QED BY <2>1, <2>2 DEF TouchedYoung, Young
<1>8. LeftYoung'
  BY DEF LeftYoung
<1> QED BY <1>1, <1>6, <1>7, <1>8 DEF AgesInv

\* propagatemark, for closures and threads.
LEMMA PropagateAges ==
  ASSUME U!IInv, AgesInv, U!PropagateMark
  PROVE  AgesInv'
<1>0. U!TypeOK /\ U!InPlace
  BY DEF U!IInv
<1>1. /\ gcstate \in {"propagate", "insideatomic"} /\ UNCHANGED <<stack, openupval, upvals>>
      /\ UNCHANGED <<alive, gcstate, dead, age>>
  BY DEF U!PropagateMark, U!Collect
<1>2. PICK o \in gray : IF o \in U!Threads THEN U!TraverseThread(o) ELSE U!TraverseLclosure(o)
  BY DEF U!PropagateMark
<1>3. o \in U!Objs /\ o \in alive /\ gray \subseteq U!Objs
  BY <1>0, <1>1 DEF U!IInv, U!Marking, U!TypeOK
<1>4. CASE o \in U!Threads
  <2> DEFINE vs == {stack[o][l] : l \in Levels}
  <2>1. /\ color' = [x \in U!Objs |-> IF x \in vs /\ U!White(x) THEN "gray" ELSE color[x]]
        /\ gray' = (gray \ {o}) \cup {v \in vs : U!White(v)}
        /\ grayagain' = (IF gcstate = "propagate" THEN grayagain \cup {o} ELSE grayagain)
        /\ uv' = uv
    BY <1>2, <1>4 DEF U!TraverseThread
  <2>2. U!Refs(o) = vs \cap U!Objs
    BY <1>4 DEF U!Refs
  <2> HIDE DEF vs
  <2>3. Steady
    BY <1>0, <1>1, <2>1 DEF Steady, ButTouched, U!TypeOK
  <2>4. Found' \subseteq Found \cup U!Refs(o)
    <3>1. \A x \in U!Objs : color'[x] # "white" => x \in Found \cup U!Refs(o)
      BY <2>1, <2>2 DEF Found
    <3>2. gray' \cup grayagain' \subseteq Found \cup U!Refs(o)
      BY <2>1, <2>2 DEF Found, U!White
    <3> QED BY <3>1, <3>2 DEF Found
  <2> QED BY <1>1, <2>1, <2>3, <2>4, TraverseAges
<1>5. CASE o \notin U!Threads
  <2>1. PICK w \in UpVals : w = upvals[o]
    BY <1>0, <1>3, <1>5, Kinds DEF U!InPlace
  <2>2. U!Refs(o) = {U!ValueOf(w)} \cap U!Objs
    BY <1>5, <2>1 DEF U!Refs
  <2>3. CASE U!IsOpen(w) /\ gcstate # "insideatomic"
    <3>1. /\ uv' = [uv EXCEPT ![w].touched = TRUE] /\ color' = [color EXCEPT ![o] = "black"] /\ gray' = gray \ {o}
          /\ grayagain' = grayagain
      BY <1>2, <1>5, <2>1, <2>3 DEF U!TraverseLclosure
    <3>2. uv' \in [UpVals -> U!UpVal] /\ \A x \in UpVals : ButTouched(x) /\ (x # w => uv'[x] = uv[x])
      <4>1. ASSUME NEW x \in UpVals PROVE uv'[x] \in U!UpVal /\ ButTouched(x) /\ (x # w => uv'[x] = uv[x])
        <5>1. uv[x] \in U!UpVal /\ uv'[x] = IF x = w THEN [uv[x] EXCEPT !.touched = TRUE] ELSE uv[x]
          BY <1>0, <3>1 DEF U!TypeOK
        <5> QED BY <5>1 DEF ButTouched, U!UpVal
      <4>2. uv' \in [UpVals -> U!UpVal]
        BY <1>0, <3>1, <4>1 DEF U!TypeOK
      <4> QED BY <4>1, <4>2
    <3>3. Steady
      BY <1>1, <3>2 DEF Steady
    <3>4. Found' \subseteq Found
      <4>1. \A x \in U!Objs : x # o => color'[x] = color[x]
        BY <1>0, <3>1 DEF U!TypeOK
      <4> QED BY <3>1, <4>1 DEF Found
    <3> QED BY <1>1, <2>2, <2>3, <3>2, <3>3, <3>4, TraverseAges
  <2>4. CASE ~(U!IsOpen(w) /\ gcstate # "insideatomic")
    <3>1. /\ color' = [[x \in U!Objs |-> IF x = U!ValueOf(w) /\ U!White(x) THEN "gray" ELSE color[x]]
                         EXCEPT ![o] = "black"]
          /\ gray' = (gray \ {o}) \cup {x \in {U!ValueOf(w)} : U!White(x)}
          /\ UNCHANGED <<uv, grayagain>>
      BY <1>2, <1>5, <2>1, <2>4 DEF U!TraverseLclosure
    <3>2. Steady
      BY <1>0, <1>1, <3>1 DEF Steady, ButTouched, U!TypeOK
    <3>3. Found' \subseteq Found \cup U!Refs(o)
      <4>1. \A x \in U!Objs : x # o /\ color'[x] # "white" => x \in Found \cup U!Refs(o)
        BY <2>2, <3>1 DEF Found
      <4>2. gray' \cup grayagain' \subseteq Found \cup U!Refs(o)
        BY <2>2, <3>1 DEF Found, U!White
      <4>3. o \in Found
        BY DEF Found
      <4> QED BY <4>1, <4>2, <4>3 DEF Found
    <3> QED BY <1>1, <3>1, <3>2, <3>3, TraverseAges
  <2> QED BY <2>3, <2>4
<1> QED BY <1>4, <1>5

\* remarkupvals: what it marks may have become garbage before the collection, but
\* not before the last one; and the threads of the upvalues that stay touched are
\* no garbage.
LEMMA RemarkAges ==
  ASSUME U!IInv, AgesInv, U!RemarkUpvals
  PROVE  AgesInv'
<1> DEFINE stay == {t \in twups : color[t] # "white" /\ openupval[t] # <<>>}
           seen == {w \in UpVals : U!IsOpen(w) /\ uv[w].th \in twups \ stay /\ uv[w].touched}
           vs   == {U!ValueOf(w) : w \in seen}
<1>0. /\ U!TypeOK /\ U!InPlace /\ U!UpvaluesCounted /\ U!NoDangling /\ U!AllListed
      /\ Counts /\ Downhill /\ FoundYoung /\ TouchedYoung
  BY DEF U!IInv, AgesInv
<1>1. /\ gcstate = "propagate" /\ gray = {} /\ gcstate' = "insideatomic"
      /\ uv' = [w \in UpVals |-> IF w \in seen THEN U!Untouched(w) ELSE uv[w]]
      /\ UNCHANGED <<stack, openupval, upvals, alive, grayagain, dead, age>>
      /\ color' = [o \in U!Objs |-> IF o \in vs /\ U!White(o) THEN "gray" ELSE color[o]]
      /\ gray' = gray \cup {v \in vs : U!White(v)}
  BY DEF U!RemarkUpvals, U!Collect, U!MarkAll
<1>2. \A w \in seen : w \in UpVals /\ U!IsOpen(w) /\ uv[w].touched
  OBVIOUS
<1>3. ASSUME NEW w \in UpVals, U!IsOpen(w), uv[w].touched, w \notin seen
      PROVE  uv[w].th \in alive /\ uv[w].th \in U!Threads /\ color[uv[w].th] # "white"
  <2>1. uv[w].th \in alive \cap U!Threads /\ openupval[uv[w].th] # <<>>
    BY <1>0, <1>3, OpenListed DEF U!InPlace
  <2>2. dead = {}
    BY <1>0, <1>1 DEF U!NoDangling
  <2>3. uv[w].th \in twups
    BY <1>0, <1>1, <2>1, <2>2 DEF U!AllListed, U!Listed
  <2> QED BY <1>3, <2>1, <2>3
<1> HIDE DEF stay, seen
<1>4. \A w \in UpVals : uv[w] \in U!UpVal
                        /\ uv'[w] = IF w \in seen THEN [uv[w] EXCEPT !.touched = FALSE] ELSE uv[w]
  BY <1>0, <1>1 DEF U!Untouched, U!TypeOK
<1>5. ASSUME NEW w \in UpVals
      PROVE  uv'[w] \in U!UpVal /\ ButTouched(w) /\ (uv'[w].touched => w \notin seen /\ uv[w].touched)
  <2>1. CASE w \in seen
    <3>1. uv[w] \in U!UpVal /\ uv'[w] = [uv[w] EXCEPT !.touched = FALSE]
      BY <1>4, <2>1
    <3> QED BY <3>1 DEF ButTouched, U!UpVal
  <2>2. CASE w \notin seen
    BY <1>4, <2>2 DEF ButTouched
  <2> QED BY <2>1, <2>2
<1>6. Steady
  BY <1>1, <1>5 DEF Steady
<1>7. Counts' /\ Downhill' /\ U!NoCycleForEver'
  BY <1>1, <1>6, SteadyAges
<1>8. \A o \in U!Objs : age[o] \in Nat
  BY <1>0 DEF Counts
<1>9. \A o \in Found : o \in U!Objs /\ age[o] = 0
  <2>1. Found \subseteq U!Objs
    BY <1>0 DEF Found, U!TypeOK
  <2>2. \A o \in Found : age[o] <= 0
    BY <1>0, <1>1 DEF FoundYoung
  <2> QED BY <1>8, <2>1, <2>2
<1>10. \A v \in vs : Young(v, 1)
  BY <1>0, <1>1, <1>2 DEF TouchedYoung
<1> HIDE DEF vs
<1>11. FoundYoung'
  <2>1. Found' \subseteq Found \cup (vs \cap U!Objs)
    <3>1. \A o \in U!Objs : color'[o] # "white" => o \in vs \/ color[o] # "white"
      BY <1>1
    <3>2. gray' \cup grayagain' \subseteq gray \cup grayagain \cup (vs \cap U!Objs)
      BY <1>1 DEF U!White
    <3> QED BY <3>1, <3>2 DEF Found
  <2>2. \A o \in Found' : age[o] <= 1
    BY <1>9, <1>10, <2>1 DEF Young
  <2> QED BY <1>1, <2>2 DEF FoundYoung
<1>12. TouchedYoung'
  <2>1. ASSUME NEW w \in UpVals, U!IsOpen(w), uv'[w].touched
        PROVE  Young(U!ValueOf(w), 0)
    <3>1. w \notin seen /\ uv[w].touched
      BY <1>5, <2>1
    <3>2. PICK t \in U!Threads : t = uv[w].th /\ t \in alive /\ color[t] # "white"
      BY <1>3, <2>1, <3>1
    <3>3. t \in Found /\ age[t] = 0
      BY <1>9, <3>2, Kinds DEF Found
    <3>4. uv[w].level \in Levels /\ U!ValueOf(w) = stack[t][uv[w].level]
      BY <1>0, <2>1, <3>2 DEF U!InPlace, U!ValueOf
    <3>5. U!ValueOf(w) \in U!Objs => U!ValueOf(w) \in U!Refs(t)
      BY <3>2, <3>4 DEF U!Refs
    <3> QED BY <1>0, <3>2, <3>3, <3>5 DEF Downhill, Young
  <2>2. \A w \in UpVals : (U!IsOpen(w)' <=> U!IsOpen(w)) /\ U!ValueOf(w)' = U!ValueOf(w)
    BY <1>0, <1>6, SteadyValues
  <2> QED BY <1>1, <2>1, <2>2 DEF TouchedYoung, Young
<1>13. LeftYoung'
  BY <1>1 DEF LeftYoung
<1> QED BY <1>7, <1>11, <1>12, <1>13 DEF AgesInv

\* The other steps of atomic, and the end of the sweep: what is not white at the
\* end of atomic is what the collection leaves.
LEMMA AtomicAges ==
  ASSUME U!IInv, AgesInv, U!GrayAgain \/ U!EndAtomic \/ U!EndSweep
  PROVE  AgesInv'
<1>0. U!TypeOK /\ U!InPlace /\ U!NoDangling /\ FoundYoung /\ TouchedYoung /\ LeftYoung
  BY DEF U!IInv, AgesInv
<1>1. UNCHANGED <<stack, openupval, upvals, alive, uv, color, age>>
  BY DEF U!GrayAgain, U!EndAtomic, U!EndSweep, U!Collect
<1>2. Steady
  BY <1>0, <1>1 DEF Steady, ButTouched, U!TypeOK
<1>3. Counts' /\ Downhill' /\ U!NoCycleForEver'
  BY <1>1, <1>2, SteadyAges
<1>4. gcstate # "propagate" /\ gcstate' # "propagate"
  BY DEF U!GrayAgain, U!EndAtomic, U!EndSweep
<1>5. TouchedYoung'
  <2>1. \A w \in UpVals : (U!IsOpen(w)' <=> U!IsOpen(w)) /\ U!ValueOf(w)' = U!ValueOf(w)
    BY <1>0, <1>2, SteadyValues
  <2> QED BY <1>0, <1>1, <1>4, <2>1 DEF TouchedYoung, Young
<1>6. FoundYoung' /\ LeftYoung'
  <2>1. CASE U!GrayAgain
    <3>1. gcstate = "insideatomic" /\ gcstate' = gcstate /\ gray' = grayagain /\ grayagain' = {}
      BY <2>1 DEF U!GrayAgain
    <3>2. Found' \subseteq Found
      BY <1>1, <3>1 DEF Found
    <3> QED BY <1>0, <1>1, <3>1, <3>2 DEF FoundYoung, LeftYoung
  <2>2. CASE U!EndAtomic
    <3>1. gcstate = "insideatomic" /\ gcstate' = "sweep" /\ dead' = {o \in alive : U!White(o)}
      BY <2>2 DEF U!EndAtomic
    <3>2. \A o \in alive \ dead' : o \in Found
      BY <1>0, <3>1 DEF Found, U!White, U!TypeOK
    <3>3. \A o \in alive \ dead' : age[o] <= 1
      BY <1>0, <3>1, <3>2 DEF FoundYoung
    <3> QED BY <1>1, <3>1, <3>3 DEF FoundYoung, LeftYoung
  <2>3. CASE U!EndSweep
    <3>1. gcstate = "sweep" /\ gcstate' = "pause" /\ dead' = dead
      BY <2>3 DEF U!EndSweep
    <3> QED BY <1>0, <1>1, <3>1 DEF FoundYoung, LeftYoung
  <2> QED BY <2>1, <2>2, <2>3
<1> QED BY <1>3, <1>5, <1>6 DEF AgesInv

\* What the sweep does to references: what stays keeps what it refers to, and an
\* upvalue that is still open keeps its value and is no more touched than it was.
Swept(o) == /\ alive' = alive \ {o} /\ dead' = dead \ {o}
            /\ \A x \in alive \ {o} : U!Refs(x)' = U!Refs(x)
            /\ \A w \in UpVals : U!IsOpen(w)' /\ uv'[w].touched =>
                 U!IsOpen(w) /\ uv[w].touched /\ U!ValueOf(w)' = U!ValueOf(w)

\* freeLclosure.
LEMMA SweptClosure ==
  ASSUME U!IInv, U!IInv', NEW c \in dead, c \in Closures, U!Becomes(U!DecCount(U!State, upvals[c])),
         dead' = dead \ {c}, alive' = alive \ {c}, stack' = stack, upvals' = [upvals EXCEPT ![c] = U!None]
  PROVE  Swept(c)
<1>0. U!TypeOK /\ U!UpvaluesCounted /\ U!InPlace /\ U!NoDangling
  BY DEF U!IInv
<1>1. c \in alive \cap Closures /\ c \notin U!Threads
  BY <1>0, Kinds DEF U!NoDangling, U!TypeOK
<1>2. PICK v \in UpVals : v = upvals[c]
  BY <1>0, <1>1, Held
<1>3. uv[v] \in U!UpVal /\ uv[v].st \in {"open", "closed"} /\ uv[v].count >= 1
  BY <1>0, <1>1, <1>2, Held
<1>4. uv' = [uv EXCEPT ![v] = U!Less(uv[v])]
  BY <1>2, DecFacts DEF U!Becomes
<1>5. \A w \in UpVals : uv'[w] = IF w = v THEN U!Less(uv[v]) ELSE uv[w]
  BY <1>0, <1>4 DEF U!TypeOK
<1>6. uv'[v].st # "free" => /\ uv'[v].st = uv[v].st /\ uv'[v].th = uv[v].th /\ uv'[v].level = uv[v].level
                            /\ uv'[v].value = uv[v].value /\ uv'[v].touched = uv[v].touched
  BY <1>3, <1>5, LessFacts
<1>7. ASSUME NEW w \in UpVals, uv'[w].st # "free"
      PROVE  /\ U!IsOpen(w)' <=> U!IsOpen(w)
             /\ U!ValueOf(w)' = U!ValueOf(w) /\ uv'[w].touched = uv[w].touched
  <2>1. /\ uv'[w].st = uv[w].st /\ uv'[w].th = uv[w].th /\ uv'[w].level = uv[w].level
        /\ uv'[w].value = uv[w].value /\ uv'[w].touched = uv[w].touched
    BY <1>5, <1>6, <1>7
  <2> QED BY <2>1 DEF U!IsOpen, U!ValueOf
<1>8. ASSUME NEW x \in alive \ {c}
      PROVE  U!Refs(x)' = U!Refs(x)
  <2>1. CASE x \in U!Threads
    BY <2>1 DEF U!Refs
  <2>2. CASE x \notin U!Threads
    <3>1. x \in alive \cap Closures
      BY <1>0, <2>2, Kinds DEF U!TypeOK
    <3>2. upvals'[x] = upvals[x]
      BY <1>0, <3>1 DEF U!TypeOK
    <3>3. PICK w \in UpVals : w = upvals[x] /\ w = upvals'[x]
      BY <1>0, <3>1, <3>2, Held
    <3>4. uv'[w].st # "free"
      BY <3>1, <3>3 DEF U!IInv, U!UpvaluesCounted
    <3>5. U!ValueOf(w)' = U!ValueOf(w)
      BY <1>7, <3>4
    <3> QED BY <2>2, <3>3, <3>5 DEF U!Refs
  <2> QED BY <2>1, <2>2
<1>9. ASSUME NEW w \in UpVals, U!IsOpen(w)', uv'[w].touched
      PROVE  U!IsOpen(w) /\ uv[w].touched /\ U!ValueOf(w)' = U!ValueOf(w)
  <2>1. uv'[w].st # "free"
    BY <1>9 DEF U!IsOpen
  <2> QED BY <1>7, <1>9, <2>1
<1> QED BY <1>8, <1>9 DEF Swept

\* luaE_freethread, which closes the upvalues of the thread.
LEMMA SweptThread ==
  ASSUME U!IInv, NEW t \in dead, t \in U!Threads, U!Becomes(U!Close(t, 0)),
         dead' = dead \ {t}, alive' = alive \ {t}, upvals' = upvals,
         stack' = [stack EXCEPT ![t] = [l \in Levels |-> U!Nil]]
  PROVE  Swept(t)
<1>0. U!TypeOK /\ U!UpvaluesCounted /\ U!InPlace /\ U!NoDangling
  BY DEF U!IInv
<1>1. t \notin Closures /\ 0 \in Nat /\ \A l \in Levels : l \in Nat /\ l >= 0 /\ ~(l < 0)
  BY UpvalAssumption, Kinds
<1>2. \A o \in U!Threads \ {t} : stack'[o] = stack[o]
  BY <1>0 DEF U!TypeOK
<1>3. \A w \in UpVals \ Closing(t, 0) : uv'[w] = uv[w]
  BY <1>0, <1>1, CloseFacts
<1>4. \A w \in Closing(t, 0) : ~U!IsOpen(w)'
  BY <1>0, <1>1, CloseFacts
<1>5. \A c \in alive \cap Closures : U!ValueOf(upvals[c])' = U!ValueOf(upvals[c])
  <2>1. alive' \cap Closures = alive \cap Closures /\ \A x \in Levels : x < 0 => stack'[t][x] = stack[t][x]
    BY <1>1
  <2> QED BY <1>0, <1>1, <1>2, <2>1, CloseKeeps
<1>6. ASSUME NEW x \in alive \ {t}
      PROVE  U!Refs(x)' = U!Refs(x)
  <2>1. CASE x \in U!Threads
    BY <1>2, <2>1 DEF U!Refs
  <2>2. CASE x \notin U!Threads
    <3>1. x \in alive \cap Closures
      BY <1>0, <2>2, Kinds DEF U!TypeOK
    <3> QED BY <1>5, <2>2, <3>1 DEF U!Refs
  <2> QED BY <2>1, <2>2
<1>7. ASSUME NEW w \in UpVals, U!IsOpen(w)', uv'[w].touched
      PROVE  U!IsOpen(w) /\ uv[w].touched /\ U!ValueOf(w)' = U!ValueOf(w)
  <2>1. w \notin Closing(t, 0) /\ uv'[w] = uv[w]
    BY <1>3, <1>4, <1>7
  <2>2. U!IsOpen(w) /\ uv[w].touched
    BY <1>7, <2>1 DEF U!IsOpen
  <2>3. uv[w].th \in U!Threads /\ uv[w].level \in Levels /\ uv[w].th # t
    BY <1>0, <1>1, <2>1, <2>2 DEF U!InPlace, Closing
  <2>4. stack'[uv[w].th] = stack[uv[w].th]
    BY <1>2, <2>3
  <2> QED BY <1>7, <2>1, <2>2, <2>4 DEF U!ValueOf
<1> QED BY <1>6, <1>7 DEF Swept

\* The sweep forgets the age of what it frees.
LEMMA SweepAges ==
  ASSUME U!IInv, U!IInv', AgesInv, U!Sweep
  PROVE  AgesInv'
<1>0. U!TypeOK /\ U!NoDangling /\ Counts /\ Downhill /\ TouchedYoung /\ LeftYoung
  BY DEF U!IInv, AgesInv
<1>1. gcstate = "sweep" /\ gcstate' = gcstate
  BY DEF U!Sweep
<1>2. PICK o \in dead :
        /\ dead' = dead \ {o} /\ alive' = alive \ {o} /\ age' = [age EXCEPT ![o] = 0]
        /\ IF o \in Closures THEN U!Becomes(U!DecCount(U!State, upvals[o])) /\ UNCHANGED stack
           ELSE U!Becomes(U!Close(o, 0)) /\ stack' = [stack EXCEPT ![o] = [l \in Levels |-> U!Nil]]
        /\ upvals' = IF o \in Closures THEN [upvals EXCEPT ![o] = U!None] ELSE upvals
  BY DEF U!Sweep
<1>3. Swept(o)
  <2>1. CASE o \in Closures
    BY <1>2, <2>1, SweptClosure
  <2>2. CASE o \notin Closures
    <3>1. o \in U!Threads
      BY <1>0, <2>2, Kinds DEF U!TypeOK
    <3> QED BY <1>2, <2>2, <3>1, SweptThread
  <2> QED BY <2>1, <2>2
<1>4. /\ age' \in [U!Objs -> Nat] /\ \A x \in U!Objs : age[x] \in Nat /\ age'[x] <= age[x]
      /\ \A x \in U!Objs \ {o} : age'[x] = age[x]
      /\ age'[o] = 0 /\ o \in U!Objs /\ o # Main
  <2>1. o \in U!Objs /\ o # Main
    BY <1>0 DEF U!TypeOK, U!NoDangling
  <2>2. age' \in [U!Objs -> Nat] /\ age'[o] = 0 /\ \A x \in U!Objs \ {o} : age'[x] = age[x]
    BY <1>0, <1>2, <2>1 DEF Counts
  <2>3. \A x \in U!Objs : age[x] \in Nat /\ age'[x] <= age[x]
    <3>1. \A x \in U!Objs : age[x] \in Nat /\ (age'[x] = 0 \/ age'[x] = age[x])
      BY <1>0, <2>2 DEF Counts
    <3> QED BY <3>1
  <2> QED BY <2>1, <2>2, <2>3
<1>5. Counts'
  BY <1>0, <1>2, <1>4, Kinds DEF Counts
<1>6. Downhill'
  <2>1. ASSUME NEW x \in alive', NEW v \in U!Refs(x)'
        PROVE  age'[v] <= age'[x]
    <3>1. x \in alive \ {o} /\ v \in U!Refs(x) /\ x \in U!Objs \ {o} /\ v \in U!Objs
      BY <1>0, <1>3 DEF Swept, U!Refs, U!TypeOK
    <3>2. age[v] <= age[x] /\ age'[x] = age[x] /\ age'[v] <= age[v]
      BY <1>0, <1>4, <3>1 DEF Downhill
    <3>3. age'[v] \in Nat /\ age[v] \in Nat /\ age[x] \in Nat
      BY <1>4, <3>1
    <3> QED BY <3>2, <3>3
  <2> QED BY <2>1 DEF Downhill
<1>7. TouchedYoung'
  <2>1. ASSUME NEW w \in UpVals, U!IsOpen(w)', uv'[w].touched
        PROVE  U!ValueOf(w)' \in U!Objs => age'[U!ValueOf(w)'] <= 0
    <3>1. U!IsOpen(w) /\ uv[w].touched /\ U!ValueOf(w)' = U!ValueOf(w)
      BY <1>3, <2>1 DEF Swept
    <3>2. U!ValueOf(w) \in U!Objs => age[U!ValueOf(w)] <= 0
      BY <1>0, <1>1, <3>1 DEF TouchedYoung, Young
    <3>3. U!ValueOf(w) \in U!Objs => age'[U!ValueOf(w)] <= age[U!ValueOf(w)] /\ age'[U!ValueOf(w)] \in Nat
                                     /\ age[U!ValueOf(w)] \in Nat
      BY <1>4
    <3> HIDE DEF U!ValueOf
    <3> QED BY <3>1, <3>2, <3>3
  <2> QED BY <1>1, <2>1 DEF TouchedYoung, Young
<1>8. LeftYoung' /\ FoundYoung' /\ U!NoCycleForEver'
  <2>1. \A x \in alive' \ dead' : x \in alive \ dead /\ x \in U!Objs \ {o}
    BY <1>0, <1>2 DEF U!TypeOK
  <2>2. \A x \in alive' \ dead' : age'[x] <= 1
    BY <1>0, <1>1, <1>4, <2>1 DEF LeftYoung
  <2>3. \A x \in U!Objs : age'[x] <= 2
    <3>1. \A x \in U!Objs : age[x] <= 2 /\ (age'[x] = 0 \/ age'[x] = age[x])
      BY <1>4 DEF AgesInv, U!NoCycleForEver
    <3> QED BY <3>1
  <2> QED BY <1>1, <2>2, <2>3 DEF LeftYoung, FoundYoung, U!NoCycleForEver
<1> QED BY <1>5, <1>6, <1>7, <1>8 DEF AgesInv

\* Nothing is there but the main thread, and nothing is old.
LEMMA AgesInit == U!Init => AgesInv
<1> SUFFICES ASSUME U!Init
             PROVE  AgesInv
  OBVIOUS
<1>1. /\ stack = [t \in U!Threads |-> [l \in Levels |-> U!Nil]] /\ uv = [w \in UpVals |-> U!Freed]
      /\ alive = {Main} /\ gcstate = "pause" /\ age = [o \in U!Objs |-> 0]
  BY DEF U!Init
<1>2. \A o \in U!Objs : age[o] = 0
  BY <1>1
<1>3. U!Refs(Main) = {}
  BY <1>1, Kinds, UpvalAssumption DEF U!Refs
<1>4. \A w \in UpVals : ~U!IsOpen(w)
  BY <1>1 DEF U!IsOpen, U!Freed
<1>5. Main \in U!Objs
  BY Kinds
<1> QED BY <1>1, <1>2, <1>3, <1>4, <1>5
        DEF AgesInv, Counts, Downhill, FoundYoung, TouchedYoung, LeftYoung, U!NoCycleForEver

\* Every step keeps the ages right.
LEMMA AgesKept == U!IInv /\ U!IInv' /\ AgesInv /\ U!Next => AgesInv'
<1> SUFFICES ASSUME U!IInv, U!IInv', AgesInv, U!Next
             PROVE  AgesInv'
  OBVIOUS
<1>1. CASE U!NewThread
  BY <1>1, NewThreadAges
<1>2. CASE U!SetStack
  BY <1>2, SetStackAges
<1>3. CASE U!PushClosure
  BY <1>3, PushClosureAges
<1>4. CASE U!SetUpval
  BY <1>4, SetUpvalAges
<1>5. CASE U!LeaveScope
  BY <1>5, LeaveScopeAges
<1>6. CASE U!UpvalueJoin
  BY <1>6, UpvalueJoinAges
<1>7. CASE U!RestartCollection
  BY <1>7, RestartAges
<1>8. CASE U!PropagateMark
  BY <1>8, PropagateAges
<1>9. CASE U!RemarkUpvals
  BY <1>9, RemarkAges
<1>10. CASE U!GrayAgain \/ U!EndAtomic \/ U!EndSweep
  BY <1>10, AtomicAges
<1>11. CASE U!Sweep
  BY <1>11, SweepAges
<1> QED BY <1>1, <1>2, <1>3, <1>4, <1>5, <1>6, <1>7, <1>8, <1>9, <1>10, <1>11 DEF U!Next

\* The ages are those of LuaUpval alone.
LEMMA AgesStay == AgesInv /\ UNCHANGED uvars => AgesInv'
<1> SUFFICES ASSUME AgesInv, UNCHANGED uvars
             PROVE  AgesInv'
  OBVIOUS
<1>1. UNCHANGED <<stack, uv, upvals, alive, color, gray, grayagain, gcstate, dead, age>>
  BY DEF uvars
<1>2. Counts' /\ LeftYoung' /\ U!NoCycleForEver'
  BY <1>1 DEF AgesInv, Counts, LeftYoung, U!NoCycleForEver
<1>3. Downhill'
  BY <1>1 DEF AgesInv, Downhill, U!Refs, U!ValueOf, U!IsOpen
<1>4. FoundYoung'
  BY <1>1 DEF AgesInv, FoundYoung, Found
<1>5. TouchedYoung'
  BY <1>1 DEF AgesInv, TouchedYoung, Young, U!ValueOf, U!IsOpen
<1> QED BY <1>2, <1>3, <1>4, <1>5 DEF AgesInv

\* For any number of coroutines, closures, upvalues and stack levels, and any
\* program: garbage sees at most two collections begin, a closure and a dead thread
\* that refer to each other through an open upvalue included, for remarkupvals marks
\* the value of an upvalue of a dead thread only once.
THEOREM CyclesFreed == RuntimeSpec => []NoCycleForEver
<1>1. RuntimeInit => AgesInv
  BY AgesInit DEF RuntimeInit
<1>2. U!IInv /\ U!IInv' /\ AgesInv /\ [RuntimeNext]_rvars => AgesInv'
  BY AgesKept, AgesStay DEF RuntimeNext, rvars
<1>3. AgesInv => NoCycleForEver
  BY DEF AgesInv, NoCycleForEver
<1> QED BY <1>1, <1>2, <1>3, UpvaluesAlways, PTL DEF RuntimeSpec

-----------------------------------------------------------------------------
(* table.sort: whatever the order function answers, the array keeps its    *)
(* elements, no place outside the interval is touched and few activations  *)
(* wait; and if the answers come from an order, the array ends up in that  *)
(* order.                                                                  *)

\* The sort goes on, with the interval lo..up.
Working == at \notin {"sorted", "invalid"}

\* The types.  The array holds its elements, each once.
SortTypes ==
  /\ a \in Seq(Nat) /\ Q!Size \in Nat /\ DOMAIN a = 1 .. Q!Size
  /\ {a[k] : k \in 1 .. Q!Size} = 1 .. Q!Size
  /\ order = Q!AnyOrder \/ order \in [1 .. Q!Size -> Int]
  /\ at \in {"ends", "middle", "up", "down", "split", "sorted", "invalid"}
  /\ lo \in Int /\ up \in Int /\ p \in Int /\ i \in Int /\ j \in Int
  /\ rnd \in BOOLEAN
  /\ calls \in Seq([lo : Int, up : Int, n : Int, rnd : BOOLEAN])

\* Where lo, up, p, i and j can be at each place.
Places ==
  /\ Working => 1 <= lo /\ lo < up /\ up <= Q!Size
  /\ at = "middle" => up - lo >= 2 /\ lo < p /\ p < up
  /\ at \in {"up", "down", "split"} => up - lo >= 3
  /\ at \in {"up", "down"} => a[up - 1] = pivot
  /\ at = "up" => i \in lo .. (up - 2) /\ j \in (lo + 1) .. (up - 1)
  /\ at = "down" => i \in (lo + 1) .. (up - 1) /\ j \in (lo + 1) .. (up - 1)
  /\ at = "split" => p = i /\ i \in (lo + 1) .. (up - 1) /\ j \in lo .. (up - 1)

\* An activation that waits has the larger part of what it divided; the other
\* part, with n elements, is what is being sorted.
Halved(c) ==
  /\ 1 <= calls[c].lo /\ calls[c].up <= Q!Size
  /\ 2 <= calls[c].n /\ calls[c].n <= calls[c].up - calls[c].lo + 1
  /\ 2^c * calls[c].n < Q!Size
  /\ \A d \in DOMAIN calls : d < c =>
        \/ calls[c].up < calls[d].lo
        \/ calls[d].up < calls[c].lo
Nested ==
  /\ \A c \in DOMAIN calls : Halved(c)
  /\ \A c \in DOMAIN calls : c > 1 =>
        calls[c].n + (calls[c].up - calls[c].lo + 1) < calls[c - 1].n
  /\ Working => \A c \in DOMAIN calls : up < calls[c].lo \/ calls[c].up < lo
  /\ Working /\ calls # <<>> => up - lo + 1 <= calls[Len(calls)].n
  /\ at = "sorted" => calls = <<>>

\* Two places are in one interval that is still to be sorted.
Together(k, l) ==
  \/ Working /\ {k, l} \subseteq lo .. up
  \/ \E c \in DOMAIN calls : {k, l} \subseteq calls[c].lo .. calls[c].up

\* With answers from an order, what is not in one interval is in order, and
\* within the current one the partition gets on.
Divided ==
  /\ at = "middle" => order[a[lo]] <= order[a[up]]
  /\ at = "up" => \A k \in lo .. i : order[a[k]] <= order[pivot]
  /\ at = "down" => /\ \A k \in lo .. (i - 1) : order[a[k]] <= order[pivot]
                    /\ order[pivot] <= order[a[i]]
  /\ at \in {"up", "down"} => \A k \in j .. up : order[pivot] <= order[a[k]]
  /\ at = "split" => /\ \A k \in lo .. p : order[a[k]] <= order[a[p]]
                     /\ \A k \in p .. up : order[a[p]] <= order[a[k]]
Ordered ==
  order # Q!AnyOrder =>
    /\ at # "invalid"
    /\ \A k, l \in 1 .. Q!Size : k < l /\ ~Together(k, l) => order[a[k]] <= order[a[l]]
    /\ Divided

SortInv == SortTypes /\ Places /\ Nested /\ Ordered

\* What the activations that wait have recorded.
LEMMA CallsTyped ==
  ASSUME SortTypes, NEW c \in DOMAIN calls
  PROVE  /\ c \in 1 .. Len(calls) /\ Len(calls) \in Nat
         /\ calls[c].lo \in Int /\ calls[c].up \in Int /\ calls[c].n \in Int
         /\ calls[c].rnd \in BOOLEAN
<1> DEFINE R == [lo : Int, up : Int, n : Int, rnd : BOOLEAN]
<1>1. calls \in Seq(R)
  BY DEF SortTypes
<1>2. calls[c] \in R /\ c \in 1 .. Len(calls) /\ Len(calls) \in Nat
  <2> HIDE DEF R
  <2> QED BY <1>1
<1> QED BY <1>2

\* Enough is known to be right.
LEMMA SortInvEnough == SortInv => Q!SortRight
<1> SUFFICES ASSUME SortInv
             PROVE  Q!SortRight
  OBVIOUS
<1> USE DEF SortInv, SortTypes
<1>1. at = "up" => i \in lo..(up - 2)
  BY DEF Places
<1>2. /\ at \in {"down", "split"} => i \in (lo + 1)..(up - 1) /\ j \in (lo - 1)..(up - 1)
      /\ at = "down" => j > lo
  BY DEF Places
<1>3. calls # <<>> => 2^Len(calls) < Q!Size
  <2> SUFFICES ASSUME calls # <<>>
               PROVE  2^Len(calls) < Q!Size
    OBVIOUS
  <2>1. Len(calls) \in DOMAIN calls /\ Len(calls) \in Nat
    OBVIOUS
  <2>2. calls[Len(calls)].n \in Int
    BY <2>1, CallsTyped
  <2> DEFINE e == 2^Len(calls)  n == calls[Len(calls)].n
  <2>3. e \in Nat
    BY <2>1, PowerOfTwo
  <2>4. e * n < Q!Size /\ 2 <= n
    BY <2>1 DEF Nested, Halved
  <2>5. e <= e * n
    <3> HIDE DEF e, n
    <3>1. n - 1 \in Nat
      BY <2>2, <2>4 DEF n
    <3> DEFINE m == n - 1
    <3>2. n = 1 + m /\ m \in Nat
      BY <3>1, <2>2 DEF n
    <3> HIDE DEF m
    <3>3. e * (1 + m) = e + e * m /\ e * m \in Nat
      BY <2>3, <3>2
    <3> QED BY <2>3, <3>2, <3>3
  <2> HIDE DEF e, n
  <2>6. e < Q!Size
    BY <2>2, <2>3, <2>4, <2>5 DEF n
  <2> QED BY <2>6 DEF e
<1>4. order # Q!AnyOrder => at # "invalid"
  BY DEF Ordered
<1>5. at = "sorted" /\ order # Q!AnyOrder => \A k \in 1..(Q!Size - 1) : order[a[k]] <= order[a[k + 1]]
  <2> SUFFICES ASSUME at = "sorted", order # Q!AnyOrder, NEW k \in 1..(Q!Size - 1)
               PROVE  order[a[k]] <= order[a[k + 1]]
    OBVIOUS
  <2>1. ~Together(k, k + 1)
    BY DEF Together, Working, Nested
  <2> QED BY <2>1 DEF Ordered
<1> QED BY <1>1, <1>2, <1>3, <1>4, <1>5 DEF Q!SortRight

-----------------------------------------------------------------------------
(* What the swaps do to the array.                                         *)

\* b is the array with the places x..y rearranged.
Rearranged(b, x, y) ==
  /\ b \in Seq(Nat) /\ Len(b) = Q!Size /\ DOMAIN b = 1 .. Q!Size
  /\ \A k \in 1 .. Q!Size : k \notin x .. y => b[k] = a[k]
  /\ \A k \in x .. y : \E l \in x .. y : b[k] = a[l]
  /\ {b[k] : k \in 1 .. Q!Size} = 1 .. Q!Size

\* The array as it is counts as rearranged.
LEMMA AsItIs ==
  ASSUME SortTypes, NEW x \in Int, NEW y \in Int
  PROVE  Rearranged(a, x, y)
BY DEF SortTypes, Rearranged, Q!Size

\* A swap rearranges, and moves two elements.
LEMMA Swapped ==
  ASSUME SortTypes, NEW x \in Int, NEW y \in Int, 1 <= x, y <= Q!Size,
         NEW b, Rearranged(b, x, y), NEW k \in x .. y, NEW l \in x .. y
  PROVE  /\ Rearranged(Q!Swap(b, k, l), x, y)
         /\ Q!Swap(b, k, l)[k] = b[l] /\ Q!Swap(b, k, l)[l] = b[k]
         /\ \A m \in 1 .. Q!Size : m # k /\ m # l => Q!Swap(b, k, l)[m] = b[m]
<1> DEFINE c == [b EXCEPT ![k] = b[l], ![l] = b[k]]
           n == Q!Size
<1>1. /\ n \in Nat /\ b \in Seq(Nat) /\ Len(b) = n /\ DOMAIN b = 1 .. n
      /\ \A m \in 1 .. n : m \notin x .. y => b[m] = a[m]
      /\ \A m \in x .. y : \E q \in x .. y : b[m] = a[q]
      /\ {b[m] : m \in 1 .. n} = 1 .. n
  BY DEF Rearranged, SortTypes
<1> HIDE DEF n
<1>2. k \in 1 .. n /\ l \in 1 .. n /\ \A m \in x .. y : m \in 1 .. n
  <2>1. n \in Nat /\ y <= n
    BY DEF n, SortTypes
  <2> QED BY <2>1
<1>3. b[k] \in Nat /\ b[l] \in Nat
  <2>1. b[k] \in 1 .. n /\ b[l] \in 1 .. n
    BY <1>1, <1>2
  <2> QED BY <2>1
<1>4. c \in Seq(Nat) /\ Len(c) = n /\ DOMAIN c = 1 .. n
  <2> DEFINE b1 == [b EXCEPT ![k] = b[l]]
  <2>1. b1 \in Seq(Nat) /\ Len(b1) = n /\ DOMAIN b1 = 1 .. n
    BY <1>1, <1>2, <1>3, ExceptSeq
  <2> HIDE DEF b1
  <2>2. [b1 EXCEPT ![l] = b[k]] \in Seq(Nat) /\ Len([b1 EXCEPT ![l] = b[k]]) = n
    BY <2>1, <1>2, <1>3, ExceptSeq
  <2> QED BY <2>1, <2>2, <1>1 DEF b1
<1>5. /\ c[k] = b[l] /\ c[l] = b[k]
      /\ \A m \in 1 .. n : m # k /\ m # l => c[m] = b[m]
  BY <1>1, <1>2
<1> HIDE DEF c
<1>6. \A m \in 1 .. n : m \notin x .. y => c[m] = a[m]
  BY <1>1, <1>5
<1>7. ASSUME NEW m \in x .. y
      PROVE  \E q \in x .. y : c[m] = a[q]
  <2>1. PICK q \in x .. y : c[m] = b[q]
    BY <1>2, <1>5
  <2> QED BY <1>1, <2>1
<1>8. {c[m] : m \in 1 .. n} = 1 .. n
  <2>1. ASSUME NEW m \in 1 .. n
        PROVE  c[m] \in 1 .. n
    <3>1. PICK q \in 1 .. n : c[m] = b[q]
      BY <1>2, <1>5
    <3> QED BY <1>1, <3>1
  <2>2. ASSUME NEW v \in 1 .. n
        PROVE  \E m \in 1 .. n : c[m] = v
    <3>1. PICK q \in 1 .. n : b[q] = v
      BY <1>1
    <3>2. CASE q = k
      BY <1>2, <1>5, <3>1, <3>2
    <3>3. CASE q = l
      BY <1>2, <1>5, <3>1, <3>3
    <3>4. CASE q # k /\ q # l
      <4>1. c[q] = b[q]
        BY <1>5, <3>4
      <4> QED BY <3>1, <4>1
    <3> QED BY <3>2, <3>3, <3>4
  <2> QED BY <2>1, <2>2
<1>9. Q!Swap(b, k, l) = c
  BY DEF c, Q!Swap
<1>10. Rearranged(c, x, y)
  BY <1>4, <1>6, <1>7, <1>8 DEF Rearranged, n
<1>11. \A m \in 1 .. Q!Size : m # k /\ m # l => c[m] = b[m]
  BY <1>5 DEF n
<1> QED BY <1>5, <1>9, <1>10, <1>11

\* What is swapped once, where the array is as it is.
LEMMA SwappedOnce ==
  ASSUME SortTypes, NEW x \in Int, NEW y \in Int, 1 <= x, y <= Q!Size,
         NEW k \in x .. y, NEW l \in x .. y
  PROVE  /\ Rearranged(Q!Swap(a, k, l), x, y)
         /\ Q!Swap(a, k, l)[k] = a[l] /\ Q!Swap(a, k, l)[l] = a[k]
         /\ \A m \in 1 .. Q!Size : m # k /\ m # l => Q!Swap(a, k, l)[m] = a[m]
BY AsItIs, Swapped

\* The elements of an array that is rearranged have a rank in the order.
LEMMA Ranked ==
  ASSUME SortTypes, NEW b, NEW x, NEW y, Rearranged(b, x, y), NEW k \in 1 .. Q!Size
  PROVE  b[k] \in 1 .. Q!Size /\ (order # Q!AnyOrder => order[b[k]] \in Int)
BY DEF SortTypes, Rearranged

\* A rearranged array has the type and the size of the array.
LEMMA SameSize ==
  ASSUME SortTypes, NEW x, NEW y, Rearranged(a', x, y), order' = order
  PROVE  /\ Q!Size' = Q!Size /\ a' \in Seq(Nat) /\ Q!Size' \in Nat /\ DOMAIN a' = 1 .. Q!Size'
         /\ {a'[k] : k \in 1 .. Q!Size'} = 1 .. Q!Size'
         /\ order' = Q!AnyOrder \/ order' \in [1 .. Q!Size' -> Int]
         /\ Q!AnyOrder' = Q!AnyOrder
<1>1. Q!Size' = Q!Size
  BY DEF Rearranged, Q!Size
<1> QED BY <1>1 DEF SortTypes, Rearranged, Q!AnyOrder

\* An answer that comes from an order.
LEMMA AnswerIs ==
  ASSUME SortTypes, NEW x \in 1 .. Q!Size, NEW y \in 1 .. Q!Size, NEW less \in Q!Answers(x, y)
  PROVE  less \in BOOLEAN /\ (order # Q!AnyOrder => (less <=> order[x] < order[y]))
<1>1. x # Q!Nil /\ y # Q!Nil
  BY DEF Q!Nil, SortTypes
<1>2. CASE order = Q!AnyOrder
  BY <1>2 DEF Q!Answers
<1>3. CASE order # Q!AnyOrder
  <2>1. less \in {order[x] < order[y]}
    BY <1>1, <1>3 DEF Q!Answers
  <2>2. less = (order[x] < order[y])
    BY <2>1
  <2>3. (order[x] < order[y]) \in BOOLEAN
    BY <1>3 DEF SortTypes
  <2> QED BY <2>2, <2>3
<1> QED BY <1>2, <1>3

\* What Get reads within the array.
LEMMA Gets ==
  ASSUME SortTypes, NEW k \in 1 .. Q!Size
  PROVE  Q!Get(k) = a[k] /\ Q!Get(k) \in 1 .. Q!Size
BY DEF SortTypes, Q!Get

-----------------------------------------------------------------------------
(* What lies in different intervals stays in order.                        *)

\* A place in the interval is not together with one outside.
LEMMA Apart ==
  ASSUME SortInv, Working, NEW k \in lo .. up, NEW l \in 1 .. Q!Size, l \notin lo .. up
  PROVE  ~Together(k, l) /\ ~Together(l, k)
<1>1. lo \in Int /\ up \in Int
  BY DEF SortInv, SortTypes
<1>2. ASSUME NEW c \in DOMAIN calls
      PROVE  k \notin calls[c].lo .. calls[c].up
  <2>1. calls[c].lo \in Int /\ calls[c].up \in Int
    BY CallsTyped DEF SortInv
  <2>2. up < calls[c].lo \/ calls[c].up < lo
    BY DEF SortInv, Nested
  <2> QED BY <1>1, <2>1, <2>2
<1> QED BY <1>2 DEF Together

\* However the interval is rearranged.
LEMMA StillOrdered ==
  ASSUME SortInv, Working, order # Q!AnyOrder, NEW b, Rearranged(b, lo, up),
         NEW k \in 1 .. Q!Size, NEW l \in 1 .. Q!Size, k < l, ~Together(k, l)
  PROVE  order[b[k]] <= order[b[l]]
<1>1. lo \in Int /\ up \in Int /\ Q!Size \in Nat /\ 1 <= lo /\ up <= Q!Size
  BY DEF SortInv, SortTypes, Places
<1>2. \A x, y \in 1 .. Q!Size : x < y /\ ~Together(x, y) => order[a[x]] <= order[a[y]]
  BY DEF SortInv, Ordered
<1>3. \A m \in lo .. up : m \in 1 .. Q!Size
  BY <1>1
<1>4. /\ \A m \in 1 .. Q!Size : m \notin lo .. up => b[m] = a[m]
      /\ \A m \in lo .. up : \E q \in lo .. up : b[m] = a[q]
  BY DEF Rearranged
<1>5. CASE k \in lo .. up /\ l \notin lo .. up
  <2>1. PICK q \in lo .. up : b[k] = a[q]
    BY <1>4, <1>5
  <2>2. q < l
    BY <1>1, <1>5
  <2>3. ~Together(q, l)
    BY <1>5, Apart
  <2> QED BY <1>2, <1>3, <1>4, <1>5, <2>1, <2>2, <2>3
<1>6. CASE k \notin lo .. up /\ l \in lo .. up
  <2>1. PICK q \in lo .. up : b[l] = a[q]
    BY <1>4, <1>6
  <2>2. k < q
    BY <1>1, <1>6
  <2>3. ~Together(k, q)
    BY <1>6, Apart
  <2> QED BY <1>2, <1>3, <1>4, <1>6, <2>1, <2>2, <2>3
<1>7. CASE k \notin lo .. up /\ l \notin lo .. up
  BY <1>2, <1>4, <1>7
<1>8. ~(k \in lo .. up /\ l \in lo .. up)
  BY DEF Together
<1> QED BY <1>5, <1>6, <1>7, <1>8

\* A step that keeps the interval keeps the types, what the activations that
\* wait have, and the order between the intervals.
LEMMA OnTheWay ==
  ASSUME SortInv, Working, Rearranged(a', lo, up),
         UNCHANGED <<order, lo, up, calls>>, rnd' \in BOOLEAN, p' \in Int, i' \in Int, j' \in Int,
         at' \in {"ends", "middle", "up", "down", "split", "invalid"}
  PROVE  /\ SortTypes' /\ Nested'
         /\ 1 <= lo' /\ lo' < up' /\ up' <= Q!Size'
         /\ (at # "invalid" /\ order # Q!AnyOrder)' =>
               \A k, l \in 1 .. Q!Size' : k < l /\ ~Together(k, l)' => order'[a'[k]] <= order'[a'[l]]
<1>1. SortTypes
  BY DEF SortInv
<1>2. Q!Size' = Q!Size /\ Q!AnyOrder' = Q!AnyOrder
  BY <1>1, SameSize
<1>3. SortTypes'
  BY <1>1, SameSize DEF SortTypes
<1>4. 1 <= lo' /\ lo' < up' /\ up' <= Q!Size'
  BY <1>2 DEF SortInv, Places
<1>5. Nested'
  <2>1. \A c \in DOMAIN calls : Halved(c)'
    BY <1>2 DEF SortInv, Nested, Halved
  <2> QED BY <2>1 DEF SortInv, Nested, Working
<1>6. ASSUME at' # "invalid", order # Q!AnyOrder,
             NEW k \in 1 .. Q!Size, NEW l \in 1 .. Q!Size, k < l, ~Together(k, l)'
      PROVE  order[a'[k]] <= order[a'[l]]
  <2>1. ~Together(k, l)
    BY <1>6 DEF Together, Working
  <2> QED BY <1>6, <2>1, StillOrdered
<1> QED BY <1>2, <1>3, <1>4, <1>5, <1>6

-----------------------------------------------------------------------------
(* The activations that wait.                                              *)

\* A sequence without its last element.
LEMMA Popped ==
  ASSUME NEW R, NEW s \in Seq(R), s # <<>>
  PROVE  /\ SubSeq(s, 1, Len(s) - 1) \in Seq(R)
         /\ Len(SubSeq(s, 1, Len(s) - 1)) = Len(s) - 1
         /\ \A c \in 1 .. Len(s) - 1 : SubSeq(s, 1, Len(s) - 1)[c] = s[c]
<1>1. Len(s) \in Nat /\ Len(s) >= 1
  BY EmptySeq
<1> DEFINE m == Len(s) - 1
           u == SubSeq(s, 1, m)
<1>2. m \in Int /\ \A c \in 1 .. m : s[c] \in R
  BY <1>1
<1>3. m \in Nat
  BY <1>1
<1> HIDE DEF m
<1>4. /\ u \in Seq(R) /\ Len(u) = (IF 1 <= m THEN m - 1 + 1 ELSE 0)
      /\ \A c \in 1 .. m - 1 + 1 : u[c] = s[1 + c - 1]
  BY <1>2, SubSeqProperties
<1> HIDE DEF u
<1>5. Len(u) = m
  BY <1>3, <1>4
<1>6. \A c \in 1 .. m : u[c] = s[c]
  <2> SUFFICES ASSUME NEW c \in 1 .. m
               PROVE  u[c] = s[c]
    OBVIOUS
  <2>1. c \in 1 .. m - 1 + 1 /\ 1 + c - 1 = c
    BY <1>3
  <2> QED BY <1>4, <2>1
<1> QED BY <1>4, <1>5, <1>6 DEF u, m

\* All activations on the list have something left to do, and the last one
\* goes on.
LEMMA ReturnsToLast ==
  ASSUME SortInv, Q!Return
  PROVE  \/ calls = <<>> /\ at' = "sorted" /\ calls' = <<>> /\ UNCHANGED <<lo, up, rnd>>
         \/ /\ calls # <<>> /\ at' = "ends" /\ rnd' \in BOOLEAN
            /\ lo' = calls[Len(calls)].lo /\ up' = calls[Len(calls)].up
            /\ calls' = SubSeq(calls, 1, Len(calls) - 1)
<1>1. SortTypes /\ DOMAIN calls = 1 .. Len(calls) /\ Len(calls) \in Nat
  <2> DEFINE R == [lo : Int, up : Int, n : Int, rnd : BOOLEAN]
  <2>1. SortTypes /\ calls \in Seq(R)
    BY DEF SortInv, SortTypes
  <2> HIDE DEF R
  <2> QED BY <2>1
<1>2. \A c \in DOMAIN calls : calls[c].lo < calls[c].up
  <2> SUFFICES ASSUME NEW c \in DOMAIN calls
               PROVE  calls[c].lo < calls[c].up
    OBVIOUS
  <2>1. calls[c].lo \in Int /\ calls[c].up \in Int /\ calls[c].n \in Int
    BY <1>1, CallsTyped
  <2>2. 2 <= calls[c].n /\ calls[c].n <= calls[c].up - calls[c].lo + 1
    BY DEF SortInv, Nested, Halved
  <2> QED BY <2>1, <2>2
<1>3. Q!Waiting = DOMAIN calls
  BY <1>2 DEF Q!Waiting
<1>4. CASE calls = <<>>
  <2>1. Q!Waiting = {}
    BY <1>1, <1>3, <1>4
  <2> QED BY <2>1, <1>4 DEF Q!Return
<1>5. CASE calls # <<>>
  <2>1. Len(calls) >= 1
    BY <1>5, EmptySeq DEF SortInv, SortTypes
  <2>2. Len(calls) \in Q!Waiting /\ \A l \in Q!Waiting : l <= Len(calls)
    BY <1>1, <1>3, <2>1
  <2>3. (CHOOSE k \in Q!Waiting : \A l \in Q!Waiting : l <= k) = Len(calls)
    <3> DEFINE P(k) == \A l \in Q!Waiting : l <= k
    <3>1. \A k \in Q!Waiting : P(k) => k = Len(calls)
      BY <1>1, <1>3, <2>2
    <3>2. \E k \in Q!Waiting : P(k)
      BY <2>2
    <3> HIDE DEF P
    <3>3. (CHOOSE k \in Q!Waiting : P(k)) = Len(calls)
      BY <3>1, <3>2
    <3> QED BY <3>3 DEF P
  <2>4. Len(calls) \in DOMAIN calls /\ Q!Waiting # {}
    BY <1>3, <2>2
  <2>5. rnd' \in BOOLEAN
    <3>1. calls[Len(calls)].rnd \in BOOLEAN
      BY <1>1, <2>4, CallsTyped
    <3>2. rnd' \in IF Q!Unbalanced(calls[Len(calls)]) THEN BOOLEAN ELSE {calls[Len(calls)].rnd}
      BY <2>3, <2>4 DEF Q!Return
    <3> QED BY <3>1, <3>2
  <2> QED BY <1>5, <2>3, <2>4, <2>5 DEF Q!Return
<1> QED BY <1>4, <1>5

\* An interval that is sorted is left for that of the last activation that
\* waits; when there is none, all is sorted.
LEMMA ReturnKeeps ==
  ASSUME SortInv, Working, Q!Return, Rearranged(a', lo, up), order' = order,
         p' \in Int, i' \in Int, j' \in Int,
         order # Q!AnyOrder => \A k, l \in lo .. up : k < l => order[a'[k]] <= order[a'[l]]
  PROVE  SortInv'
<1> DEFINE m == Len(calls)
<1>1. SortTypes /\ Places /\ Nested
  BY DEF SortInv
<1>2. Q!Size' = Q!Size /\ Q!AnyOrder' = Q!AnyOrder /\ Q!Size \in Nat
  BY <1>1, SameSize DEF SortTypes
<1>3. /\ lo' \in Int /\ up' \in Int /\ rnd' \in BOOLEAN /\ at' \in {"ends", "sorted"}
      /\ calls' \in Seq([lo : Int, up : Int, n : Int, rnd : BOOLEAN])
      /\ \A c \in DOMAIN calls' : c \in DOMAIN calls /\ calls'[c] = calls[c]
      /\ at' = "sorted" => calls' = <<>> /\ calls = <<>>
      /\ at' = "ends" => /\ m \in DOMAIN calls /\ m \in Nat
                         /\ Len(calls') = m - 1 /\ DOMAIN calls' = 1 .. m - 1
                         /\ lo' = calls[m].lo /\ up' = calls[m].up
  <2> DEFINE R == [lo : Int, up : Int, n : Int, rnd : BOOLEAN]
  <2>0. lo \in Int /\ up \in Int /\ rnd \in BOOLEAN /\ calls \in Seq(R)
    BY <1>1 DEF SortTypes
  <2> HIDE DEF R
  <2>1. CASE calls = <<>>
    <3>1. at' = "sorted" /\ calls' = <<>> /\ UNCHANGED <<lo, up, rnd>>
      BY <2>1, ReturnsToLast
    <3> QED BY <2>0, <2>1, <3>1 DEF R
  <2>2. CASE calls # <<>>
    <3>1. /\ at' = "ends" /\ rnd' \in BOOLEAN
          /\ lo' = calls[Len(calls)].lo /\ up' = calls[Len(calls)].up
          /\ calls' = SubSeq(calls, 1, Len(calls) - 1)
      BY <2>2, ReturnsToLast
    <3>2. /\ calls' \in Seq(R) /\ Len(calls') = m - 1
          /\ \A c \in 1 .. m - 1 : calls'[c] = calls[c]
      BY <2>0, <2>2, <3>1, Popped
    <3>3. m \in Nat /\ m >= 1 /\ DOMAIN calls = 1 .. m
      BY <2>0, <2>2, EmptySeq
    <3>4. DOMAIN calls' = 1 .. m - 1
      BY <3>2
    <3>5. m \in DOMAIN calls /\ \A c \in DOMAIN calls' : c \in DOMAIN calls
      BY <3>3, <3>4
    <3>6. lo' \in Int /\ up' \in Int
      BY <1>1, <3>1, <3>5, CallsTyped
    <3> HIDE DEF m
    <3> QED BY <2>0, <3>1, <3>2, <3>3, <3>4, <3>5, <3>6 DEF R, m
  <2> QED BY <2>1, <2>2
<1> HIDE DEF m
<1>4. SortTypes'
  BY <1>1, <1>3, SameSize DEF SortTypes
<1>5. ASSUME at' = "ends"
      PROVE  /\ 1 <= lo' /\ lo' < up' /\ up' <= Q!Size'
             /\ \A c \in DOMAIN calls' : up' < calls'[c].lo \/ calls'[c].up < lo'
             /\ calls' # <<>> => up' - lo' + 1 <= calls'[Len(calls')].n
  <2>1. /\ calls[m].lo \in Int /\ calls[m].up \in Int /\ calls[m].n \in Int
        /\ m \in Nat /\ DOMAIN calls' = 1 .. m - 1
    BY <1>1, <1>3, <1>5, CallsTyped
  <2>2. /\ 1 <= calls[m].lo /\ calls[m].up <= Q!Size
        /\ 2 <= calls[m].n /\ calls[m].n <= calls[m].up - calls[m].lo + 1
        /\ \A d \in DOMAIN calls : d < m => calls[m].up < calls[d].lo \/ calls[d].up < calls[m].lo
    BY <1>1, <1>3, <1>5 DEF Nested, Halved
  <2>3. 1 <= lo' /\ lo' < up' /\ up' <= Q!Size'
    BY <1>2, <1>3, <1>5, <2>1, <2>2
  <2>4. \A c \in DOMAIN calls' : up' < calls'[c].lo \/ calls'[c].up < lo'
    <3>1. \A c \in DOMAIN calls' : c < m
      BY <2>1
    <3> QED BY <1>3, <1>5, <2>2, <3>1
  <2>5. ASSUME calls' # <<>>
        PROVE  up' - lo' + 1 <= calls'[Len(calls')].n
    <3>1. Len(calls') = m - 1 /\ m - 1 \in DOMAIN calls' /\ m > 1
      <4>1. Len(calls') # 0
        BY <1>3, <2>5, EmptySeq
      <4> QED BY <1>3, <1>5, <2>1, <4>1
    <3>2. calls[m].n + (calls[m].up - calls[m].lo + 1) < calls[m - 1].n
      BY <1>1, <1>3, <1>5, <3>1 DEF Nested
    <3>3. calls'[m - 1] = calls[m - 1] /\ calls[m - 1].n \in Int
      BY <1>1, <1>3, <3>1, CallsTyped
    <3>4. up' = calls[m].up /\ lo' = calls[m].lo
      BY <1>3, <1>5
    <3>5. calls'[Len(calls')].n = calls[m - 1].n
      BY <3>1, <3>3
    <3>6. calls[m].up - calls[m].lo + 1 <= calls[m - 1].n
      BY <2>1, <2>2, <3>2, <3>3
    <3> QED BY <3>4, <3>5, <3>6
  <2> QED BY <2>3, <2>4, <2>5
<1>6. Places'
  BY <1>3, <1>5 DEF Places, Working
<1>7. Nested'
  <2>1. \A c \in DOMAIN calls' : Halved(c)'
    BY <1>1, <1>2, <1>3 DEF Nested, Halved
  <2>2. \A c \in DOMAIN calls' : c > 1 =>
          calls'[c].n + (calls'[c].up - calls'[c].lo + 1) < calls'[c - 1].n
    <3> SUFFICES ASSUME NEW c \in DOMAIN calls', c > 1
                 PROVE  calls'[c].n + (calls'[c].up - calls'[c].lo + 1) < calls'[c - 1].n
      OBVIOUS
    <3>1. c - 1 \in DOMAIN calls'
      <4> DEFINE R == [lo : Int, up : Int, n : Int, rnd : BOOLEAN]
      <4>1. calls' \in Seq(R)
        BY <1>3
      <4> HIDE DEF R
      <4> QED BY <4>1
    <3>2. /\ c \in DOMAIN calls /\ calls'[c] = calls[c] /\ calls'[c - 1] = calls[c - 1]
          /\ calls[c].n + (calls[c].up - calls[c].lo + 1) < calls[c - 1].n
      BY <1>1, <1>3, <3>1 DEF Nested
    <3> QED BY <3>2
  <2> QED BY <1>3, <1>5, <2>1, <2>2 DEF Nested, Working
<1>8. Ordered'
  <2> SUFFICES ASSUME order # Q!AnyOrder
               PROVE  \A k, l \in 1 .. Q!Size : k < l /\ ~Together(k, l)' => order[a'[k]] <= order[a'[l]]
    BY <1>2, <1>3 DEF Ordered, Divided
  <2> SUFFICES ASSUME NEW k \in 1 .. Q!Size, NEW l \in 1 .. Q!Size, k < l, ~Together(k, l)'
               PROVE  order[a'[k]] <= order[a'[l]]
    OBVIOUS
  <2>1. CASE {k, l} \subseteq lo .. up
    BY <2>1
  <2>2. CASE ~({k, l} \subseteq lo .. up)
    <3>1. ASSUME NEW c \in DOMAIN calls, {k, l} \subseteq calls[c].lo .. calls[c].up
          PROVE  FALSE
      <4>1. at' = "ends" /\ (c \in DOMAIN calls' \/ c = m)
        <5> DEFINE R == [lo : Int, up : Int, n : Int, rnd : BOOLEAN]
        <5>1. calls \in Seq(R) /\ at' = "ends"
          BY <1>1, <1>3, <3>1 DEF SortTypes
        <5> HIDE DEF R
        <5>2. c \in 1 .. m /\ m \in Nat
          BY <5>1, <3>1 DEF m
        <5> QED BY <1>3, <5>1, <5>2
      <4> QED BY <1>3, <3>1, <4>1 DEF Together, Working
    <3>2. ~Together(k, l)
      BY <2>2, <3>1 DEF Together
    <3> QED BY <3>2, StillOrdered
  <2> QED BY <2>1, <2>2
<1> QED BY <1>4, <1>6, <1>7, <1>8 DEF SortInv

-----------------------------------------------------------------------------
(* The steps.                                                              *)

\* The sort of an array of any size begins right.
LEMMA SortBegins ==
  ASSUME NEW n \in Nat, NEW o \in [1 .. n -> Int] \cup {Q!AnyOrder}, Q!SortInitWith(n, o)
  PROVE  SortInv
<1>1. /\ a = [k \in 1 .. n |-> k] /\ order = o /\ at = (IF Q!Size > 1 THEN "ends" ELSE "sorted")
      /\ lo = 1 /\ up = Q!Size /\ rnd = FALSE /\ p = 0 /\ i = 0 /\ j = 0 /\ calls = <<>>
  BY DEF Q!SortInitWith
<1>2. a \in Seq(Nat) /\ Q!Size = n /\ DOMAIN a = 1 .. n
  <2>1. a \in [1 .. n -> Nat]
    BY <1>1
  <2>2. a \in Seq(Nat)
    BY <2>1, SeqDef
  <2>3. DOMAIN a = 1 .. Len(a) /\ Len(a) \in Nat /\ DOMAIN a = 1 .. n
    BY <2>1, <2>2, LenProperties
  <2>4. Len(a) = n
    <3>1. Len(a) <= n
      BY <2>3
    <3>2. n <= Len(a)
      BY <2>3
    <3>3. Len(a) \in Nat
      BY <2>3
    <3> QED BY <3>1, <3>2, <3>3
  <2> QED BY <2>2, <2>3, <2>4 DEF Q!Size
<1>3. SortTypes
  <2>1. {a[k] : k \in 1 .. Q!Size} = 1 .. Q!Size
    BY <1>1, <1>2
  <2>2. calls \in Seq([lo : Int, up : Int, n : Int, rnd : BOOLEAN])
    BY <1>1, EmptySeq
  <2>3. order = Q!AnyOrder \/ order \in [1 .. Q!Size -> Int]
    BY <1>1, <1>2
  <2>4. at \in {"ends", "middle", "up", "down", "split", "sorted", "invalid"}
    BY <1>1
  <2>5. Q!Size \in Nat /\ lo \in Int /\ up \in Int /\ p \in Int /\ i \in Int /\ j \in Int
    BY <1>1, <1>2
  <2>6. rnd \in BOOLEAN
    BY <1>1
  <2> QED BY <1>2, <2>1, <2>2, <2>3, <2>4, <2>5, <2>6 DEF SortTypes
<1>4. Places
  BY <1>1, <1>2 DEF Places, Working
<1>5. DOMAIN calls = {}
  BY <1>1
<1>6. Nested
  BY <1>1, <1>5 DEF Nested
<1>7. Ordered
  <2>1. ASSUME NEW k \in 1 .. n, NEW l \in 1 .. n, k < l
        PROVE  Together(k, l)
    BY <1>1, <1>2, <2>1 DEF Together, Working
  <2> QED BY <1>1, <1>2, <2>1 DEF Ordered, Divided
<1> QED BY <1>3, <1>4, <1>6, <1>7 DEF SortInv

\* A pivot, random or not, is between the ends.
LEMMA PivotsInside ==
  ASSUME lo \in Int, up \in Int, up - lo >= 2, NEW q \in Q!Pivots
  PROVE  q \in Int /\ lo < q /\ q < up
<1> DEFINE r4 == (up - lo) \div 4
<1>1. r4 \in Int /\ 4 * r4 <= up - lo
  OBVIOUS
<1>2. CASE q = (lo + up) \div 2
  <2>1. q \in Int /\ 2 * q <= lo + up /\ lo + up <= 2 * q + 1
    BY <1>2
  <2> QED BY <2>1
<1>3. CASE q \in (lo + r4) .. (lo + 3 * r4 - 1)
  <2> HIDE DEF r4
  <2>1. q \in Int /\ lo + r4 <= q /\ q <= lo + 3 * r4 - 1
    BY <1>1, <1>3
  <2>2. r4 >= 1
    BY <1>1, <2>1
  <2> QED BY <1>1, <2>1, <2>2
<1> QED BY <1>2, <1>3, SortAssumption DEF Q!Pivots

\* What a step of the sort begins with.
LEMMA AtWork ==
  ASSUME SortInv, Working
  PROVE  /\ SortTypes /\ Places /\ Nested /\ Ordered
         /\ lo \in Int /\ up \in Int /\ p \in Int /\ i \in Int /\ j \in Int
         /\ rnd \in BOOLEAN /\ Q!Size \in Nat /\ 1 <= lo /\ lo < up /\ up <= Q!Size
<1>1. SortTypes /\ Places /\ Nested /\ Ordered
  BY DEF SortInv
<1>2. 1 <= lo /\ lo < up /\ up <= Q!Size
  BY <1>1 DEF Places
<1>3. /\ lo \in Int /\ up \in Int /\ p \in Int /\ i \in Int /\ j \in Int
      /\ rnd \in BOOLEAN /\ Q!Size \in Nat
  BY <1>1 DEF SortTypes
<1> QED BY <1>1, <1>2, <1>3

\* The ends are put in order.
LEMMA SortEndsKeeps == SortInv /\ Q!SortEnds => SortInv'
<1> SUFFICES ASSUME SortInv, Q!SortEnds
             PROVE  SortInv'
  OBVIOUS
<1>1. /\ SortTypes /\ Working /\ lo \in Int /\ up \in Int /\ p \in Int /\ i \in Int /\ j \in Int
      /\ rnd \in BOOLEAN /\ Q!Size \in Nat /\ 1 <= lo /\ lo < up /\ up <= Q!Size
      /\ UNCHANGED <<order, i, j, pivot>>
  <2>1. at = "ends" /\ Working /\ UNCHANGED <<order, i, j, pivot>>
    BY DEF Q!SortEnds, Working
  <2> QED BY <2>1, AtWork
<1>2. lo \in 1 .. Q!Size /\ up \in 1 .. Q!Size /\ lo \in lo .. up /\ up \in lo .. up
  BY <1>1
<1>3. PICK less \in Q!Answers(Q!Get(up), Q!Get(lo)) : a' = IF less THEN Q!Swap(a, lo, up) ELSE a
  BY DEF Q!SortEnds
<1>4. /\ Rearranged(a', lo, up)
      /\ order # Q!AnyOrder => order[a'[lo]] \in Int /\ order[a'[up]] \in Int /\ order[a'[lo]] <= order[a'[up]]
  <2>1. less \in BOOLEAN /\ (order # Q!AnyOrder => (less <=> order[a[up]] < order[a[lo]]))
    BY <1>1, <1>2, <1>3, Gets, AnswerIs
  <2>2. order # Q!AnyOrder => order[a[lo]] \in Int /\ order[a[up]] \in Int
    BY <1>1, <1>2, AsItIs, Ranked
  <2>3. CASE less
    <3>1. Rearranged(a', lo, up) /\ a'[lo] = a[up] /\ a'[up] = a[lo]
      BY <1>1, <1>2, <1>3, <2>3, SwappedOnce
    <3> QED BY <2>1, <2>2, <2>3, <3>1
  <2>4. CASE ~less
    <3>1. Rearranged(a', lo, up) /\ a' = a
      BY <1>1, <1>3, <2>4, AsItIs
    <3> QED BY <2>1, <2>2, <2>4, <3>1
  <2> QED BY <2>1, <2>3, <2>4
<1>5. CASE up - lo = 1
  <2>1. Q!Return /\ p' = p
    BY <1>5 DEF Q!SortEnds
  <2>2. order # Q!AnyOrder => \A k, l \in lo .. up : k < l => order[a'[k]] <= order[a'[l]]
    <3>1. \A k, l \in lo .. up : k < l => k = lo /\ l = up
      BY <1>1, <1>5
    <3> QED BY <1>4, <3>1
  <2> QED BY <1>1, <1>4, <2>1, <2>2, ReturnKeeps
<1>6. CASE up - lo # 1
  <2>1. at' = "middle" /\ p' \in Q!Pivots /\ UNCHANGED <<lo, up, rnd, calls>>
    BY <1>6 DEF Q!SortEnds
  <2>2. p' \in Int /\ lo < p' /\ p' < up /\ up - lo >= 2
    BY <1>1, <1>6, <2>1, PivotsInside
  <2>3. /\ SortTypes' /\ Nested'
        /\ 1 <= lo' /\ lo' < up' /\ up' <= Q!Size'
        /\ (at # "invalid" /\ order # Q!AnyOrder)' =>
             \A k, l \in 1 .. Q!Size' : k < l /\ ~Together(k, l)' => order'[a'[k]] <= order'[a'[l]]
    BY <1>1, <1>4, <2>1, <2>2, OnTheWay
  <2>4. Places'
    BY <2>1, <2>2, <2>3 DEF Places
  <2>5. Ordered'
    BY <1>1, <1>4, <2>1, <2>3 DEF Ordered, Divided, Q!AnyOrder
  <2> QED BY <2>3, <2>4, <2>5 DEF SortInv
<1> QED BY <1>5, <1>6

\* The middle element is put between the ends, and becomes the pivot.
LEMMA SortMiddleKeeps == SortInv /\ Q!SortMiddle => SortInv'
<1> SUFFICES ASSUME SortInv, Q!SortMiddle
             PROVE  SortInv'
  OBVIOUS
<1>1. /\ SortTypes /\ Working /\ lo \in Int /\ up \in Int /\ p \in Int /\ i \in Int /\ j \in Int
      /\ rnd \in BOOLEAN /\ Q!Size \in Nat /\ 1 <= lo /\ lo < up /\ up <= Q!Size
      /\ up - lo >= 2 /\ lo < p /\ p < up /\ UNCHANGED <<order, p>>
      /\ order # Q!AnyOrder => order[a[lo]] <= order[a[up]]
  <2>1. at = "middle" /\ Working /\ UNCHANGED <<order, p>>
    BY DEF Q!SortMiddle, Working
  <2>2. Places /\ Ordered
    BY <2>1, AtWork
  <2>3. up - lo >= 2 /\ lo < p /\ p < up
    BY <2>1, <2>2 DEF Places
  <2>4. order # Q!AnyOrder => order[a[lo]] <= order[a[up]]
    BY <2>1, <2>2 DEF Ordered, Divided
  <2> QED BY <2>1, <2>3, <2>4, AtWork
<1>2. /\ lo \in 1 .. Q!Size /\ up \in 1 .. Q!Size /\ p \in 1 .. Q!Size
      /\ lo \in lo .. up /\ up \in lo .. up /\ p \in lo .. up
  BY <1>1
<1>3. PICK b \in {Q!Swap(a, p, lo) : x \in {TRUE} \cap Q!Answers(Q!Get(p), Q!Get(lo))}
                \cup {IF x THEN Q!Swap(a, p, up) ELSE a :
                        x \in IF FALSE \in Q!Answers(Q!Get(p), Q!Get(lo)) THEN Q!Answers(Q!Get(up), Q!Get(p)) ELSE {}} :
        IF up - lo = 2 THEN a' = b /\ Q!Return /\ UNCHANGED <<i, j, pivot>>
        ELSE /\ pivot' = b[p] /\ a' = Q!Swap(b, p, up - 1)
             /\ i' = lo /\ j' = up - 1 /\ at' = "up" /\ UNCHANGED <<lo, up, rnd, calls>>
  BY DEF Q!SortMiddle
<1> DEFINE EndsInOrder == /\ order[b[lo]] \in Int /\ order[b[p]] \in Int /\ order[b[up]] \in Int
                      /\ order[b[lo]] <= order[b[p]] /\ order[b[p]] <= order[b[up]]
<1>4. Rearranged(b, lo, up) /\ (order # Q!AnyOrder => EndsInOrder)
  <2>1. order # Q!AnyOrder => order[a[lo]] \in Int /\ order[a[up]] \in Int /\ order[a[p]] \in Int
    BY <1>1, <1>2, AsItIs, Ranked
  <2>2. \A less \in Q!Answers(Q!Get(p), Q!Get(lo)) :
          less \in BOOLEAN /\ (order # Q!AnyOrder => (less <=> order[a[p]] < order[a[lo]]))
    BY <1>1, <1>2, Gets, AnswerIs
  <2>3. \A less \in Q!Answers(Q!Get(up), Q!Get(p)) :
          less \in BOOLEAN /\ (order # Q!AnyOrder => (less <=> order[a[up]] < order[a[p]]))
    BY <1>1, <1>2, Gets, AnswerIs
  <2>4. CASE TRUE \in Q!Answers(Q!Get(p), Q!Get(lo)) /\ b = Q!Swap(a, p, lo)
    <3>1. Rearranged(b, lo, up) /\ b[p] = a[lo] /\ b[lo] = a[p] /\ b[up] = a[up]
      BY <1>1, <1>2, <2>4, SwappedOnce
    <3>2. order # Q!AnyOrder => order[a[p]] < order[a[lo]]
      BY <2>2, <2>4
    <3> QED BY <1>1, <2>1, <3>1, <3>2
  <2>5. ASSUME FALSE \in Q!Answers(Q!Get(p), Q!Get(lo)),
               NEW less \in Q!Answers(Q!Get(up), Q!Get(p)),
               b = IF less THEN Q!Swap(a, p, up) ELSE a
        PROVE  Rearranged(b, lo, up) /\ (order # Q!AnyOrder => EndsInOrder)
    <3>1. order # Q!AnyOrder => ~(order[a[p]] < order[a[lo]])
      BY <2>2, <2>5
    <3>2. less \in BOOLEAN /\ (order # Q!AnyOrder => (less <=> order[a[up]] < order[a[p]]))
      BY <2>3, <2>5
    <3>3. CASE less
      <4>1. Rearranged(b, lo, up) /\ b[p] = a[up] /\ b[up] = a[p] /\ b[lo] = a[lo]
        BY <1>1, <1>2, <2>5, <3>3, SwappedOnce
      <4> QED BY <1>1, <2>1, <3>1, <3>2, <3>3, <4>1
    <3>4. CASE ~less
      <4>1. Rearranged(b, lo, up) /\ b = a
        BY <1>1, <2>5, <3>4, AsItIs
      <4> QED BY <1>1, <2>1, <3>1, <3>2, <3>4, <4>1
    <3> QED BY <3>2, <3>3, <3>4
  <2> HIDE DEF EndsInOrder
  <2> QED BY <1>3, <2>4, <2>5
<1>5. CASE up - lo = 2
  <2>1. Q!Return /\ a' = b /\ UNCHANGED <<i, j>>
    BY <1>3, <1>5
  <2>2. order # Q!AnyOrder => \A k, l \in lo .. up : k < l => order[a'[k]] <= order[a'[l]]
    <3>1. \A k, l \in lo .. up : k < l => (k = lo /\ l = up) \/ (k = lo /\ l = p) \/ (k = p /\ l = up)
      BY <1>1, <1>5
    <3>2. ASSUME order # Q!AnyOrder
          PROVE  /\ order[b[lo]] <= order[b[up]]
                 /\ order[b[lo]] <= order[b[p]] /\ order[b[p]] <= order[b[up]]
      BY <1>4, <3>2
    <3> QED BY <2>1, <3>1, <3>2
  <2> QED BY <1>1, <1>4, <2>1, <2>2, ReturnKeeps
<1>6. CASE up - lo # 2
  <2>1. /\ pivot' = b[p] /\ a' = Q!Swap(b, p, up - 1)
        /\ i' = lo /\ j' = up - 1 /\ at' = "up" /\ UNCHANGED <<lo, up, rnd, calls>>
    BY <1>3, <1>6
  <2>2. up - 1 \in lo .. up /\ up - lo >= 3
    BY <1>1, <1>6
  <2>3. /\ Rearranged(a', lo, up) /\ a'[up - 1] = b[p]
        /\ \A m \in 1 .. Q!Size : m # p /\ m # up - 1 => a'[m] = b[m]
    <3> DEFINE c == Q!Swap(b, p, up - 1)
    <3>1. /\ Rearranged(c, lo, up) /\ c[up - 1] = b[p]
          /\ \A m \in 1 .. Q!Size : m # p /\ m # up - 1 => c[m] = b[m]
      BY <1>1, <1>2, <1>4, <2>2, Swapped
    <3> QED BY <2>1, <3>1
  <2>4. a'[lo] = b[lo] /\ a'[up] = b[up]
    BY <1>1, <1>2, <2>2, <2>3
  <2>5. /\ SortTypes' /\ Nested'
        /\ 1 <= lo' /\ lo' < up' /\ up' <= Q!Size'
        /\ (at # "invalid" /\ order # Q!AnyOrder)' =>
             \A k, l \in 1 .. Q!Size' : k < l /\ ~Together(k, l)' => order'[a'[k]] <= order'[a'[l]]
    <3>1. i' \in Int /\ j' \in Int
      BY <1>1, <2>1
    <3> QED BY <1>1, <2>1, <2>3, <3>1, OnTheWay
  <2>6. Places'
    BY <1>1, <2>1, <2>2, <2>3, <2>5 DEF Places
  <2>7. Ordered'
    <3>1. ASSUME order # Q!AnyOrder
          PROVE  /\ \A k \in lo .. lo : order[a'[k]] <= order[b[p]]
                 /\ \A k \in (up - 1) .. up : order[b[p]] <= order[a'[k]]
      <4>1. \A k \in lo .. lo : k = lo
        BY <1>1
      <4>2. \A k \in (up - 1) .. up : k = up - 1 \/ k = up
        BY <1>1
      <4> QED BY <1>4, <2>3, <2>4, <3>1, <4>1, <4>2
    <3>2. order' = order /\ Q!AnyOrder' = Q!AnyOrder
      BY <1>1 DEF Q!AnyOrder
    <3> QED BY <2>1, <2>5, <3>1, <3>2 DEF Ordered, Divided
  <2> QED BY <2>5, <2>6, <2>7 DEF SortInv
<1> QED BY <1>5, <1>6

\* i goes up to an element that is not less than the pivot: the pivot itself
\* at the latest, or the order function is told to be invalid.
LEMMA PartitionUpKeeps == SortInv /\ Q!PartitionUp => SortInv'
<1> SUFFICES ASSUME SortInv, Q!PartitionUp
             PROVE  SortInv'
  OBVIOUS
<1>1. /\ SortTypes /\ Working /\ lo \in Int /\ up \in Int /\ p \in Int /\ i \in Int /\ j \in Int
      /\ rnd \in BOOLEAN /\ Q!Size \in Nat /\ 1 <= lo /\ lo < up /\ up <= Q!Size
      /\ up - lo >= 3 /\ lo <= i /\ i <= up - 2 /\ lo + 1 <= j /\ j <= up - 1
      /\ a[up - 1] = pivot
      /\ i' = i + 1 /\ UNCHANGED <<order, lo, up, rnd, pivot, calls, a, p, j>>
  <2>1. /\ at = "up" /\ Working
        /\ i' = i + 1 /\ UNCHANGED <<order, lo, up, rnd, pivot, calls, a, p, j>>
    BY DEF Q!PartitionUp, Q!Part, Working
  <2>2. Places /\ i \in Int /\ j \in Int /\ lo \in Int /\ up \in Int
    BY <2>1, AtWork
  <2>3. /\ up - lo >= 3 /\ a[up - 1] = pivot
        /\ i \in lo .. (up - 2) /\ j \in (lo + 1) .. (up - 1)
    BY <2>1, <2>2 DEF Places
  <2> QED BY <2>1, <2>2, <2>3, AtWork
<1>2. order # Q!AnyOrder => /\ \A k \in lo .. i : order[a[k]] <= order[pivot]
                            /\ \A k \in j .. up : order[pivot] <= order[a[k]]
  BY DEF SortInv, Ordered, Divided, Q!PartitionUp
<1>3. i + 1 \in 1 .. Q!Size /\ up - 1 \in 1 .. Q!Size
  BY <1>1
<1>4. PICK less \in Q!Answers(Q!Get(i + 1), pivot) :
        at' = IF ~less THEN "down" ELSE IF i + 1 = up - 1 THEN "invalid" ELSE "up"
  BY DEF Q!PartitionUp
<1>5. /\ less \in BOOLEAN /\ (order # Q!AnyOrder => (less <=> order[a[i + 1]] < order[pivot]))
      /\ order # Q!AnyOrder => order[a[i + 1]] \in Int /\ order[pivot] \in Int
  <2>1. Q!Get(i + 1) = a[i + 1] /\ Q!Get(i + 1) \in 1 .. Q!Size /\ pivot \in 1 .. Q!Size
    BY <1>1, <1>3, Gets
  <2>2. order # Q!AnyOrder => order[a[i + 1]] \in Int /\ order[a[up - 1]] \in Int
    BY <1>1, <1>3, AsItIs, Ranked
  <2> QED BY <1>1, <1>4, <2>1, <2>2, AnswerIs
<1>6. /\ SortTypes' /\ Nested'
      /\ 1 <= lo' /\ lo' < up' /\ up' <= Q!Size'
      /\ (at # "invalid" /\ order # Q!AnyOrder)' =>
           \A k, l \in 1 .. Q!Size' : k < l /\ ~Together(k, l)' => order'[a'[k]] <= order'[a'[l]]
  <2>1. Rearranged(a', lo, up)
    BY <1>1, AsItIs
  <2>2. i' \in Int /\ at' \in {"up", "down", "invalid"}
    BY <1>1, <1>4
  <2> QED BY <1>1, <2>1, <2>2, OnTheWay
<1>7. CASE ~less
  <2>1. at' = "down"
    BY <1>4, <1>7
  <2>2. Places'
    BY <1>1, <1>6, <2>1 DEF Places
  <2>3. Ordered'
    <3>1. order # Q!AnyOrder => order[pivot] <= order[a[i + 1]]
      BY <1>5, <1>7
    <3>2. order' = order /\ Q!AnyOrder' = Q!AnyOrder /\ i' - 1 = i
      BY <1>1 DEF Q!AnyOrder
    <3> QED BY <1>1, <1>2, <1>6, <2>1, <3>1, <3>2 DEF Ordered, Divided
  <2> QED BY <1>6, <2>2, <2>3 DEF SortInv
<1>8. CASE less /\ i + 1 = up - 1
  <2>1. order = Q!AnyOrder
    BY <1>1, <1>5, <1>8
  <2>2. at' = "invalid"
    BY <1>4, <1>8
  <2>3. Places'
    BY <2>2 DEF Places, Working
  <2>4. Ordered'
    BY <1>1, <2>1 DEF Ordered, Q!AnyOrder
  <2> QED BY <1>6, <2>3, <2>4 DEF SortInv
<1>9. CASE less /\ i + 1 # up - 1
  <2>1. at' = "up"
    BY <1>4, <1>9
  <2>2. Places'
    BY <1>1, <1>6, <1>9, <2>1 DEF Places
  <2>3. Ordered'
    <3>1. order # Q!AnyOrder => \A k \in lo .. i + 1 : order[a[k]] <= order[pivot]
      <4>1. \A k \in lo .. i + 1 : k = i + 1 \/ k \in lo .. i
        BY <1>1
      <4> QED BY <1>2, <1>5, <1>9, <4>1
    <3>2. order' = order /\ Q!AnyOrder' = Q!AnyOrder
      BY <1>1 DEF Q!AnyOrder
    <3> QED BY <1>1, <1>2, <1>6, <2>1, <3>1, <3>2 DEF Ordered, Divided
  <2> QED BY <1>6, <2>2, <2>3 DEF SortInv
<1> QED BY <1>5, <1>7, <1>8, <1>9

\* j goes down to an element that is not greater than the pivot, which is
\* above lo; there the two elements are swapped, or the partition is done.
LEMMA PartitionDownKeeps == SortInv /\ Q!PartitionDown => SortInv'
<1> SUFFICES ASSUME SortInv, Q!PartitionDown
             PROVE  SortInv'
  OBVIOUS
<1>1. /\ SortTypes /\ Working /\ lo \in Int /\ up \in Int /\ p \in Int /\ i \in Int /\ j \in Int
      /\ rnd \in BOOLEAN /\ Q!Size \in Nat /\ 1 <= lo /\ lo < up /\ up <= Q!Size
      /\ up - lo >= 3 /\ lo + 1 <= i /\ i <= up - 1 /\ lo + 1 <= j /\ j <= up - 1
      /\ a[up - 1] = pivot
      /\ j' = j - 1 /\ UNCHANGED <<order, lo, up, rnd, pivot, calls, i>>
  <2>1. /\ at = "down" /\ Working
        /\ j' = j - 1 /\ UNCHANGED <<order, lo, up, rnd, pivot, calls, i>>
    BY DEF Q!PartitionDown, Q!Part, Working
  <2>2. Places /\ i \in Int /\ j \in Int /\ lo \in Int /\ up \in Int
    BY <2>1, AtWork
  <2>3. /\ up - lo >= 3 /\ a[up - 1] = pivot
        /\ i \in (lo + 1) .. (up - 1) /\ j \in (lo + 1) .. (up - 1)
    BY <2>1, <2>2 DEF Places
  <2> QED BY <2>1, <2>2, <2>3, AtWork
<1>2. order # Q!AnyOrder => /\ \A k \in lo .. (i - 1) : order[a[k]] <= order[pivot]
                            /\ order[pivot] <= order[a[i]]
                            /\ \A k \in j .. up : order[pivot] <= order[a[k]]
  <2>1. at = "down" /\ Ordered
    BY DEF SortInv, Q!PartitionDown
  <2>2. order # Q!AnyOrder => Divided
    BY <2>1 DEF Ordered
  <2> QED BY <2>1, <2>2 DEF Divided
<1>3. /\ j - 1 \in 1 .. Q!Size /\ up - 1 \in 1 .. Q!Size /\ i \in 1 .. Q!Size
      /\ up - 1 \in lo .. up /\ i \in lo .. up /\ j - 1 \in lo .. up
      /\ \A k \in lo .. up : k \in 1 .. Q!Size
  BY <1>1
<1>4. PICK less \in Q!Answers(pivot, Q!Get(j - 1)) :
          \/ less /\ at' = (IF j - 1 < i THEN "invalid" ELSE "down") /\ UNCHANGED <<a, p>>
          \/ ~less /\ j - 1 < i /\ a' = Q!Swap(a, up - 1, i) /\ p' = i /\ at' = "split"
          \/ ~less /\ j - 1 >= i /\ a' = Q!Swap(a, i, j - 1) /\ at' = "up" /\ UNCHANGED p
  BY DEF Q!PartitionDown
<1>5. /\ less \in BOOLEAN /\ (order # Q!AnyOrder => (less <=> order[pivot] < order[a[j - 1]]))
      /\ order # Q!AnyOrder => order[a[j - 1]] \in Int /\ order[pivot] \in Int
  <2>1. Q!Get(j - 1) = a[j - 1] /\ Q!Get(j - 1) \in 1 .. Q!Size /\ pivot \in 1 .. Q!Size
    BY <1>1, <1>3, Gets
  <2>2. order # Q!AnyOrder => order[a[j - 1]] \in Int /\ order[a[up - 1]] \in Int
    BY <1>1, <1>3, AsItIs, Ranked
  <2> QED BY <1>1, <1>4, <2>1, <2>2, AnswerIs
<1> DEFINE Goes == /\ SortTypes' /\ Nested'
                   /\ 1 <= lo' /\ lo' < up' /\ up' <= Q!Size'
                   /\ (at # "invalid" /\ order # Q!AnyOrder)' =>
                        \A k, l \in 1 .. Q!Size' : k < l /\ ~Together(k, l)' => order'[a'[k]] <= order'[a'[l]]
<1>6. ASSUME Rearranged(a', lo, up), p' \in Int, at' \in {"up", "down", "split", "invalid"}
      PROVE  Goes
  <2>1. j' \in Int /\ i' \in Int /\ rnd' \in BOOLEAN
    BY <1>1
  <2> QED BY <1>1, <1>6, <2>1, OnTheWay
<1>7. order' = order /\ Q!AnyOrder' = Q!AnyOrder
  BY <1>1 DEF Q!AnyOrder
<1>8. CASE less /\ j - 1 < i
  <2>1. order = Q!AnyOrder
    <3> SUFFICES ASSUME order # Q!AnyOrder
                 PROVE  FALSE
      OBVIOUS
    <3>1. j - 1 \in lo .. (i - 1)
      BY <1>1, <1>8
    <3> QED BY <1>2, <1>5, <1>8, <3>1
  <2>2. at' = "invalid" /\ a' = a /\ p' = p
    BY <1>4, <1>8
  <2>3. Places'
    BY <2>2 DEF Places, Working
  <2>4. Ordered'
    BY <1>7, <2>1 DEF Ordered
  <2>5. Goes
    BY <1>1, <1>6, <2>2, AsItIs
  <2> QED BY <2>3, <2>4, <2>5 DEF SortInv
<1>9. CASE less /\ ~(j - 1 < i)
  <2>1. at' = "down" /\ a' = a /\ p' = p
    BY <1>4, <1>9
  <2>2. Goes
    BY <1>1, <1>6, <2>1, AsItIs
  <2>3. Places'
    BY <1>1, <1>9, <2>1, <2>2 DEF Places
  <2>4. Ordered'
    <3>1. order # Q!AnyOrder => \A k \in (j - 1) .. up : order[pivot] <= order[a[k]]
      <4>1. \A k \in (j - 1) .. up : k = j - 1 \/ k \in j .. up
        BY <1>1
      <4> QED BY <1>2, <1>5, <1>9, <4>1
    <3> QED BY <1>1, <1>2, <1>7, <2>1, <2>2, <3>1 DEF Ordered, Divided
  <2> QED BY <2>2, <2>3, <2>4 DEF SortInv
<1>10. CASE ~less /\ j - 1 < i
  <2>1. a' = Q!Swap(a, up - 1, i) /\ p' = i /\ at' = "split"
    BY <1>1, <1>4, <1>10
  <2>2. /\ Rearranged(a', lo, up) /\ a'[up - 1] = a[i] /\ a'[i] = pivot
        /\ \A m \in 1 .. Q!Size : m # up - 1 /\ m # i => a'[m] = a[m]
    BY <1>1, <1>3, <2>1, SwappedOnce
  <2>3. Goes
    BY <1>1, <1>6, <2>1, <2>2
  <2>4. Places'
    BY <1>1, <2>1, <2>3 DEF Places
  <2>5. Ordered'
    <3>1. ASSUME order # Q!AnyOrder, NEW k \in lo .. i
          PROVE  order[a'[k]] <= order[pivot]
      <4>1. CASE k = i
        BY <1>5, <2>2, <3>1, <4>1
      <4>2. CASE k # i
        <5>1. k \in lo .. (i - 1) /\ k # up - 1 /\ k \in 1 .. Q!Size
          BY <1>1, <4>2
        <5>2. a'[k] = a[k]
          BY <2>2, <4>2, <5>1
        <5> QED BY <1>2, <3>1, <5>1, <5>2
      <4> QED BY <4>1, <4>2
    <3>2. ASSUME order # Q!AnyOrder, NEW k \in i .. up
          PROVE  order[pivot] <= order[a'[k]]
      <4>1. CASE k = i
        BY <1>5, <2>2, <3>2, <4>1
      <4>2. CASE k # i /\ k = up - 1
        BY <1>2, <2>2, <3>2, <4>2
      <4>3. CASE k # i /\ k # up - 1
        <5>1. k \in j .. up /\ k \in lo .. up
          BY <1>1, <1>10, <4>3
        <5> QED BY <1>2, <1>3, <2>2, <3>2, <4>3, <5>1
      <4> QED BY <4>1, <4>2, <4>3
    <3>3. lo' = lo /\ up' = up /\ p' = i /\ a'[p'] = pivot
      BY <1>1, <2>1, <2>2
    <3> QED BY <1>7, <2>1, <2>3, <3>1, <3>2, <3>3 DEF Ordered, Divided
  <2> QED BY <2>3, <2>4, <2>5 DEF SortInv
<1>11. CASE ~less /\ ~(j - 1 < i)
  <2>1. a' = Q!Swap(a, i, j - 1) /\ at' = "up" /\ p' = p
    BY <1>1, <1>4, <1>11
  <2>2. /\ Rearranged(a', lo, up) /\ a'[i] = a[j - 1] /\ a'[j - 1] = a[i]
        /\ \A m \in 1 .. Q!Size : m # i /\ m # j - 1 => a'[m] = a[m]
    BY <1>1, <1>3, <2>1, SwappedOnce
  <2>3. Goes
    BY <1>1, <1>6, <2>1, <2>2
  <2>4. i <= j - 1
    BY <1>1, <1>11
  <2>5. Places'
    <3>1. a'[up - 1] = pivot
      BY <1>1, <1>3, <2>2, <2>4
    <3> QED BY <1>1, <2>1, <2>3, <2>4, <3>1 DEF Places
  <2>6. Ordered'
    <3>1. ASSUME order # Q!AnyOrder, NEW k \in lo .. i
          PROVE  order[a'[k]] <= order[pivot]
      <4>1. CASE k = i
        BY <1>5, <1>11, <2>2, <3>1, <4>1
      <4>2. CASE k # i
        <5>1. k \in lo .. (i - 1) /\ k # j - 1 /\ k \in lo .. up
          BY <1>1, <2>4, <4>2
        <5> QED BY <1>2, <1>3, <2>2, <3>1, <4>2, <5>1
      <4> QED BY <4>1, <4>2
    <3>2. ASSUME order # Q!AnyOrder, NEW k \in (j - 1) .. up
          PROVE  order[pivot] <= order[a'[k]]
      <4>1. CASE k = j - 1
        BY <1>2, <2>2, <3>2, <4>1
      <4>2. CASE k # j - 1
        <5>1. k \in j .. up /\ k # i /\ k \in lo .. up
          BY <1>1, <2>4, <4>2
        <5> QED BY <1>2, <1>3, <2>2, <3>2, <4>2, <5>1
      <4> QED BY <4>1, <4>2
    <3>3. lo' = lo /\ up' = up /\ i' = i /\ j' = j - 1 /\ pivot' = pivot
      BY <1>1
    <3> QED BY <1>7, <2>1, <2>3, <3>1, <3>2, <3>3 DEF Ordered, Divided
  <2> QED BY <2>3, <2>5, <2>6 DEF SortInv
<1> QED BY <1>5, <1>8, <1>9, <1>10, <1>11

\* The two parts of an interval: what they have in common with it.
LEMMA SplitParts ==
  ASSUME SortInv, at = "split"
  PROVE  LET called == Q!Recurse[1]
             rest == Q!Recurse[2]
         IN  /\ called.lo \in Int /\ called.up \in Int
             /\ rest \in [lo : Int, up : Int, n : Int, rnd : BOOLEAN]
             /\ lo <= called.lo /\ called.up <= up
             /\ lo <= rest.lo /\ rest.up <= up /\ rest.lo < rest.up
             /\ rest.n = called.up - called.lo + 1
             /\ rest.n <= rest.up - rest.lo + 1
             /\ rest.n + (rest.up - rest.lo + 1) = up - lo
             /\ called.up < rest.lo \/ rest.up < called.lo
             /\ \A k \in lo .. up : \/ k = p
                                    \/ k \in called.lo .. called.up
                                    \/ k \in rest.lo .. rest.up
             /\ p \notin called.lo .. called.up /\ p \notin rest.lo .. rest.up
             /\ \/ \A k \in called.lo .. called.up : k < p /\ \A l \in rest.lo .. rest.up : p < l
                \/ \A k \in called.lo .. called.up : p < k /\ \A l \in rest.lo .. rest.up : l < p
<1>1. /\ lo \in Int /\ up \in Int /\ p \in Int /\ rnd \in BOOLEAN
      /\ up - lo >= 3 /\ lo + 1 <= p /\ p <= up - 1
  BY DEF SortInv, SortTypes, Places
<1>2. CASE p - lo < up - p
  <2>1. /\ Q!Recurse[1] = [lo |-> lo, up |-> p - 1]
        /\ Q!Recurse[2] = [lo |-> p + 1, up |-> up, n |-> p - lo, rnd |-> rnd]
    BY <1>2 DEF Q!Recurse
  <2> QED BY <1>1, <1>2, <2>1
<1>3. CASE ~(p - lo < up - p)
  <2>1. /\ Q!Recurse[1] = [lo |-> p + 1, up |-> up]
        /\ Q!Recurse[2] = [lo |-> lo, up |-> p - 1, n |-> up - p, rnd |-> rnd]
    BY <1>3 DEF Q!Recurse
  <2> QED BY <1>1, <1>3, <2>1
<1> QED BY <1>2, <1>3

\* A part that is divided again is less than half of what it was a part of.
LEMMA HalvedAgain ==
  ASSUME SortInv, at = "split", NEW n \in Int, 2 * n < up - lo + 1, n >= 2
  PROVE  2^(Len(calls) + 1) * n < Q!Size
<1> DEFINE m == Len(calls)
           e == 2^m
<1>1. m \in Nat /\ m + 1 \in Nat /\ (calls # <<>> => m \in DOMAIN calls)
  <2> DEFINE R == [lo : Int, up : Int, n : Int, rnd : BOOLEAN]
  <2>1. calls \in Seq(R)
    BY DEF SortInv, SortTypes
  <2> HIDE DEF R
  <2> QED BY <2>1, EmptySeq
<1>2. /\ lo \in Int /\ up \in Int /\ Q!Size \in Nat /\ 1 <= lo /\ up <= Q!Size
      /\ Working /\ SortTypes /\ Nested
  BY AtWork DEF Working
<1>3. e \in Nat /\ 2^(m + 1) = e + e
  BY <1>1, PowerOfTwo
<1>4. CASE calls = <<>>
  <2>1. m = 0
    BY <1>4
  <2>2. e = 1
    BY <2>1
  <2>3. 2^(m + 1) = 2
    BY <1>3, <2>2
  <2> HIDE DEF e, m
  <2> QED BY <1>2, <2>3 DEF m
<1>5. CASE calls # <<>>
  <2> DEFINE x == calls[m].n
  <2>1. x \in Int
    BY <1>1, <1>2, <1>5, CallsTyped
  <2>2. e * x < Q!Size
    BY <1>1, <1>2, <1>5 DEF Nested, Halved
  <2>3. up - lo + 1 <= x
    BY <1>2, <1>5 DEF Nested
  <2>4. 2^(m + 1) * n = e * (n + n) /\ e * (n + n) <= e * x
    <3> HIDE DEF e, x
    <3>1. (e + e) * n = e * (n + n)
      BY <1>3
    <3> DEFINE y == x - (n + n)
    <3>2. y \in Nat /\ x = (n + n) + y
      BY <1>2, <2>1, <2>3
    <3> HIDE DEF y
    <3>3. e * ((n + n) + y) = e * (n + n) + e * y /\ e * y \in Nat /\ e * (n + n) \in Int
      BY <1>3, <3>2
    <3> QED BY <1>3, <3>1, <3>2, <3>3
  <2> HIDE DEF e, x
  <2>5. e * (n + n) \in Int /\ e * x \in Int
    BY <1>3, <2>1
  <2> QED BY <1>2, <2>2, <2>4, <2>5 DEF m
<1> QED BY <1>4, <1>5

\* The smaller part is called for and the larger one waits, or, when the
\* smaller one has nothing left to do, the larger one is gone on with.
LEMMA SplitKeeps == SortInv /\ Q!Split => SortInv'
<1> SUFFICES ASSUME SortInv, Q!Split
             PROVE  SortInv'
  OBVIOUS
<1> DEFINE cl == Q!Recurse[1].lo
           cu == Q!Recurse[1].up
           rest == Q!Recurse[2]
           m == Len(calls)
           R == [lo : Int, up : Int, n : Int, rnd : BOOLEAN]
<1>1. /\ SortTypes /\ Nested /\ Working /\ at = "split" /\ at' = "ends"
      /\ lo \in Int /\ up \in Int /\ p \in Int /\ i \in Int /\ j \in Int /\ rnd \in BOOLEAN
      /\ Q!Size \in Nat /\ 1 <= lo /\ lo < up /\ up <= Q!Size /\ lo < p /\ p < up
      /\ calls \in Seq(R)
      /\ UNCHANGED <<a, order, p, i, j, pivot>>
  <2>1. /\ at = "split" /\ at' = "ends" /\ Working
        /\ UNCHANGED <<a, order, p, i, j, pivot>>
    BY DEF Q!Split, Working
  <2>2. SortTypes /\ Places /\ Nested
    BY <2>1, AtWork
  <2>3. p = i /\ i \in (lo + 1) .. (up - 1)
    BY <2>1, <2>2 DEF Places
  <2>4. calls \in Seq(R)
    BY <2>2 DEF SortTypes
  <2> HIDE DEF R
  <2> QED BY <2>1, <2>2, <2>3, <2>4, AtWork
<1>2. /\ cl \in Int /\ cu \in Int /\ rest \in R
      /\ lo <= cl /\ cu <= up
      /\ lo <= rest.lo /\ rest.up <= up /\ rest.lo < rest.up
      /\ rest.n = cu - cl + 1
      /\ rest.n <= rest.up - rest.lo + 1
      /\ rest.n + (rest.up - rest.lo + 1) = up - lo
      /\ cu < rest.lo \/ rest.up < cl
      /\ \A k \in lo .. up : k = p \/ k \in cl .. cu \/ k \in rest.lo .. rest.up
      /\ p \notin cl .. cu /\ p \notin rest.lo .. rest.up
      /\ \/ \A k \in cl .. cu : k < p /\ \A l \in rest.lo .. rest.up : p < l
         \/ \A k \in cl .. cu : p < k /\ \A l \in rest.lo .. rest.up : l < p
  BY <1>1, SplitParts
<1>3. \/ cl < cu /\ lo' = cl /\ up' = cu /\ calls' = Append(calls, rest) /\ rnd' = rnd
      \/ ~(cl < cu) /\ lo' = rest.lo /\ up' = rest.up /\ calls' = calls /\ rnd' \in BOOLEAN
  BY <1>1 DEF Q!Split
<1> HIDE DEF cl, cu, rest, R
<1>4. rest.lo \in Int /\ rest.up \in Int /\ rest.n \in Int /\ rest.rnd \in BOOLEAN
  BY <1>2 DEF R
<1>5. /\ m \in Nat /\ DOMAIN calls = 1 .. m /\ (calls # <<>> => m \in DOMAIN calls)
      /\ \A c \in DOMAIN calls : up < calls[c].lo \/ calls[c].up < lo
      /\ calls # <<>> => up - lo + 1 <= calls[m].n
  <2>1. m \in Nat /\ DOMAIN calls = 1 .. m /\ (calls # <<>> => m \in DOMAIN calls)
    BY <1>1, EmptySeq
  <2> QED BY <1>1, <2>1 DEF Nested
<1>6. \A c \in DOMAIN calls : calls[c].lo \in Int /\ calls[c].up \in Int /\ calls[c].n \in Int
  BY <1>1, CallsTyped
<1>7. /\ calls' \in Seq(R)
      /\ \A c \in DOMAIN calls : c \in DOMAIN calls' /\ calls'[c] = calls[c]
      /\ cl < cu => /\ Len(calls') = m + 1 /\ DOMAIN calls' = 1 .. m + 1
                    /\ m + 1 \in DOMAIN calls' /\ calls'[m + 1] = rest
  <2>1. CASE cl < cu
    <3>1. calls' = Append(calls, rest)
      BY <1>3, <2>1
    <3>2. /\ calls' \in Seq(R) /\ Len(calls') = m + 1 /\ calls'[m + 1] = rest
          /\ \A c \in 1 .. m : calls'[c] = calls[c]
      BY <1>1, <1>2, <3>1, AppendProperties
    <3> HIDE DEF m
    <3>3. DOMAIN calls' = 1 .. m + 1
      BY <3>2
    <3> QED BY <1>5, <2>1, <3>2, <3>3
  <2>2. CASE ~(cl < cu)
    BY <1>1, <1>3, <2>2
  <2> QED BY <2>1, <2>2
<1> HIDE DEF m
<1>8. Q!Size' = Q!Size /\ Q!AnyOrder' = Q!AnyOrder /\ a' = a /\ order' = order
  BY <1>1 DEF Q!Size, Q!AnyOrder
<1>9. /\ lo' \in Int /\ up' \in Int /\ lo <= lo' /\ lo' < up' /\ up' <= up
      /\ rnd' \in BOOLEAN
  BY <1>1, <1>2, <1>3, <1>4
<1>10. SortTypes'
  BY <1>1, <1>7, <1>8, <1>9 DEF SortTypes, R
<1>11. Places'
  BY <1>1, <1>8, <1>9 DEF Places
<1>12. \A c \in DOMAIN calls' : c \in DOMAIN calls \/ (cl < cu /\ c = m + 1)
  <2>1. CASE cl < cu
    <3>1. DOMAIN calls' = 1 .. m + 1 /\ DOMAIN calls = 1 .. m
      BY <1>5, <1>7, <2>1
    <3>2. \A c \in 1 .. m + 1 : c \in 1 .. m \/ c = m + 1
      BY <1>5
    <3> QED BY <2>1, <3>1, <3>2
  <2>2. CASE ~(cl < cu)
    BY <1>3, <2>2
  <2> QED BY <2>1, <2>2
<1>13. Nested'
  <2>1. ASSUME NEW c \in DOMAIN calls
        PROVE  Halved(c)'
    <3>1. \A d \in DOMAIN calls' : d < c => d \in DOMAIN calls
      BY <1>5, <1>12
    <3>2. Halved(c)
      BY <1>1 DEF Nested
    <3> QED BY <1>7, <1>8, <3>1, <3>2 DEF Halved
  <2>2. ASSUME cl < cu, NEW c \in DOMAIN calls', c = m + 1
        PROVE  Halved(c)'
    <3>1. 2^c * rest.n < Q!Size
      <4>1. rest.n >= 2 /\ 2 * rest.n < up - lo + 1
        BY <1>2, <1>4, <2>2
      <4>2. 2^(m + 1) * rest.n < Q!Size
        BY <1>1, <1>4, <4>1, HalvedAgain DEF m
      <4> QED BY <2>2, <4>2
    <3>2. ASSUME NEW d \in DOMAIN calls', d < c
          PROVE  rest.up < calls'[d].lo \/ calls'[d].up < rest.lo
      <4>1. d \in DOMAIN calls /\ calls'[d] = calls[d]
        <5>1. d # m + 1
          BY <1>5, <1>7, <2>2, <3>2
        <5> QED BY <1>7, <1>12, <5>1
      <4>2. calls[d].lo \in Int /\ calls[d].up \in Int /\ (up < calls[d].lo \/ calls[d].up < lo)
        BY <1>5, <1>6, <4>1
      <4>3. lo <= rest.lo /\ rest.up <= up
        BY <1>2
      <4> QED BY <1>1, <1>4, <4>1, <4>2, <4>3
    <3>3. /\ 1 <= rest.lo /\ rest.up <= Q!Size
          /\ 2 <= rest.n /\ rest.n <= rest.up - rest.lo + 1
      BY <1>1, <1>2, <1>4, <2>2
    <3>4. calls'[c] = rest
      BY <1>7, <2>2
    <3> QED BY <1>8, <3>1, <3>2, <3>3, <3>4 DEF Halved
  <2>3. \A c \in DOMAIN calls' : Halved(c)'
    BY <1>12, <2>1, <2>2
  <2>4. ASSUME NEW c \in DOMAIN calls', c > 1
        PROVE  calls'[c].n + (calls'[c].up - calls'[c].lo + 1) < calls'[c - 1].n
    <3>1. CASE c \in DOMAIN calls
      <4>1. c - 1 \in DOMAIN calls
        BY <1>5, <2>4, <3>1
      <4> QED BY <1>1, <1>7, <2>4, <3>1, <4>1 DEF Nested
    <3>2. CASE cl < cu /\ c = m + 1
      <4>1. calls # <<>> /\ m \in DOMAIN calls /\ c - 1 = m
        <5>1. m # 0
          BY <1>5, <2>4, <3>2
        <5>2. calls # <<>>
          BY <1>1, <5>1 DEF m
        <5> QED BY <1>5, <3>2, <5>2
      <4>2. calls'[c] = rest /\ calls'[c - 1] = calls[m]
        BY <1>7, <3>2, <4>1
      <4>3. up - lo + 1 <= calls[m].n /\ calls[m].n \in Int
        BY <1>5, <1>6, <4>1
      <4> QED BY <1>1, <1>2, <1>4, <4>2, <4>3
    <3> QED BY <1>12, <3>1, <3>2
  <2>5. ASSUME NEW c \in DOMAIN calls'
        PROVE  up' < calls'[c].lo \/ calls'[c].up < lo'
    <3>1. CASE c \in DOMAIN calls
      <4>1. calls'[c] = calls[c] /\ calls[c].lo \in Int /\ calls[c].up \in Int
            /\ (up < calls[c].lo \/ calls[c].up < lo)
        BY <1>5, <1>6, <1>7, <3>1
      <4> QED BY <1>1, <1>9, <4>1
    <3>2. CASE cl < cu /\ c = m + 1
      BY <1>2, <1>3, <1>4, <1>7, <3>2
    <3> QED BY <1>12, <3>1, <3>2
  <2>6. ASSUME calls' # <<>>
        PROVE  up' - lo' + 1 <= calls'[Len(calls')].n
    <3>1. CASE cl < cu
      <4>1. lo' = cl /\ up' = cu /\ calls'[Len(calls')] = rest
        BY <1>3, <1>7, <3>1
      <4> QED BY <1>2, <1>4, <4>1
    <3>2. CASE ~(cl < cu)
      <4>1. calls' = calls
        BY <1>3, <3>2
      <4>2. calls # <<>> /\ calls'[Len(calls')] = calls[m] /\ up - lo + 1 <= calls[m].n /\ calls[m].n \in Int
        BY <1>5, <1>6, <2>6, <4>1 DEF m
      <4> QED BY <1>1, <1>9, <4>2
    <3> QED BY <3>1, <3>2
  <2> QED BY <1>1, <2>3, <2>4, <2>5, <2>6 DEF Nested
<1>14. Ordered'
  <2> SUFFICES ASSUME order # Q!AnyOrder
               PROVE  \A k, l \in 1 .. Q!Size : k < l /\ ~Together(k, l)' => order[a[k]] <= order[a[l]]
    BY <1>1, <1>8 DEF Ordered, Divided
  <2> SUFFICES ASSUME NEW k \in 1 .. Q!Size, NEW l \in 1 .. Q!Size, k < l, ~Together(k, l)'
               PROVE  order[a[k]] <= order[a[l]]
    OBVIOUS
  <2>1. ~(\E c \in DOMAIN calls : {k, l} \subseteq calls[c].lo .. calls[c].up)
    BY <1>7 DEF Together
  <2>2. ~({k, l} \subseteq rest.lo .. rest.up)
    <3>1. CASE cl < cu
      BY <1>7, <3>1 DEF Together
    <3>2. CASE ~(cl < cu)
      BY <1>1, <1>3, <3>2 DEF Together, Working
    <3> QED BY <3>1, <3>2
  <2>3. ~({k, l} \subseteq cl .. cu)
    <3>1. CASE cl < cu
      BY <1>1, <1>3, <3>1 DEF Together, Working
    <3>2. CASE ~(cl < cu)
      BY <1>2, <3>2
    <3> QED BY <3>1, <3>2
  <2>4. CASE ~({k, l} \subseteq lo .. up)
    <3>1. ~Together(k, l)
      BY <2>1, <2>4 DEF Together
    <3> QED BY <3>1 DEF SortInv, Ordered
  <2>5. CASE {k, l} \subseteq lo .. up
    <3>0. /\ k = p \/ k \in cl .. cu \/ k \in rest.lo .. rest.up
          /\ l = p \/ l \in cl .. cu \/ l \in rest.lo .. rest.up
      BY <1>2, <2>5
    <3>1. k <= p /\ p <= l
      <4>1. CASE \A x \in cl .. cu : x < p /\ \A y \in rest.lo .. rest.up : p < y
        BY <1>1, <2>2, <2>3, <3>0, <4>1
      <4>2. CASE \A x \in cl .. cu : p < x /\ \A y \in rest.lo .. rest.up : y < p
        BY <1>1, <2>2, <2>3, <3>0, <4>2
      <4> QED BY <1>2, <4>1, <4>2
    <3>2. order[a[k]] <= order[a[p]] /\ order[a[p]] <= order[a[l]]
      <4>1. k \in lo .. p /\ l \in p .. up
        BY <1>1, <2>5, <3>1
      <4> QED BY <1>1, <4>1 DEF SortInv, Ordered, Divided
    <3>3. order[a[k]] \in Int /\ order[a[l]] \in Int /\ order[a[p]] \in Int
      <4>1. p \in 1 .. Q!Size
        BY <1>1
      <4> QED BY <1>1, <4>1, AsItIs, Ranked
    <3> QED BY <3>2, <3>3
  <2> QED BY <2>4, <2>5
<1> QED BY <1>10, <1>11, <1>13, <1>14 DEF SortInv

-----------------------------------------------------------------------------
(* The theorem.                                                            *)

\* All that a sort does is done by these steps.
LEMMA SortKeeps == SortInv /\ Q!SortNext => SortInv'
BY SortEndsKeeps, SortMiddleKeeps, PartitionUpKeeps, PartitionDownKeeps, SplitKeeps DEF Q!SortNext

\* The invariant is about the variables of the sort.
LEMMA SortStays == SortInv /\ UNCHANGED qvars => SortInv'
<1> SUFFICES ASSUME SortInv, UNCHANGED qvars
             PROVE  SortInv'
  OBVIOUS
<1>1. UNCHANGED <<a, order, at, lo, up, rnd, p, i, j, pivot, calls>>
  BY DEF qvars
<1>2. Q!Size' = Q!Size /\ Q!AnyOrder' = Q!AnyOrder
  BY <1>1 DEF Q!Size, Q!AnyOrder
<1>3. SortTypes' /\ Places'
  BY <1>1, <1>2 DEF SortInv, SortTypes, Places, Working
<1>4. Nested'
  BY <1>1, <1>2 DEF SortInv, Nested, Halved, Working
<1>5. Ordered'
  BY <1>1, <1>2 DEF SortInv, Ordered, Divided, Together, Working
<1> QED BY <1>3, <1>4, <1>5 DEF SortInv

\* A sort starts with the array and an order, or with any answers.
LEMMA SortStarts == RuntimeInit => SortInv
<1> SUFFICES ASSUME RuntimeInit
             PROVE  SortInv
  OBVIOUS
<1>1. CASE part = "sort"
  <2>1. PICK n \in Sizes : \E o \in [1 .. n -> Ranks] \cup {Q!AnyOrder} : Q!SortInitWith(n, o)
    BY <1>1 DEF RuntimeInit, Q!SortInit
  <2>2. PICK o \in [1 .. n -> Ranks] \cup {Q!AnyOrder} : Q!SortInitWith(n, o)
    BY <2>1
  <2>3. n \in Nat /\ o \in [1 .. n -> Int] \cup {Q!AnyOrder}
    BY SortAssumption
  <2> QED BY <2>2, <2>3, SortBegins
<1>2. CASE part # "sort"
  <2>1. Q!SortInitWith(0, Q!AnyOrder)
    BY <1>2 DEF RuntimeInit
  <2> QED BY <2>1, SortBegins
<1> QED BY <1>1, <1>2

\* For any array, whatever the order function answers and whatever pivots are
\* chosen: a sort keeps the elements, stays in its interval and nests no deeper
\* than the logarithm of the size; when the answers come from an order it never
\* calls the function invalid, and ends with the array in that order.
THEOREM Sorts == RuntimeSpec => []SortRight
<1>1. SortInv /\ [RuntimeNext]_rvars => SortInv'
  BY SortKeeps, SortStays DEF RuntimeNext, rvars
<1>2. SortInv => SortRight
  BY SortInvEnough DEF SortRight
<1> QED BY <1>1, <1>2, SortStarts, PTL DEF RuntimeSpec

=============================================================================
