--------------------------- MODULE LuaTable_proofs ---------------------------
(***************************************************************************)
(* Theorems about LuaTable, for tables of any size and any keys.           *)
(***************************************************************************)
EXTENDS LuaTable, LuaInduction, SequenceTheorems

-----------------------------------------------------------------------------
(* Chains.                                                                 *)

\* The nodes of a chain are nodes of the table, and no chain is a circle: nodes
\* are ranked, and next leads to a lower rank.
Linked(T) == T \in Table /\ \A n \in 1 .. sizenode(T) : T.node[n].next \in 0 .. sizenode(T)
Ranks(T, r) ==
  /\ r \in [0 .. sizenode(T) -> Nat] /\ r[0] = 0
  /\ \A n \in 1 .. sizenode(T) : r[T.node[n].next] < r[n]
Chained(T) == Linked(T) /\ \E r : Ranks(T, r)

\* Finitely many numbers have a bound.
LEMMA Bound ==
  ASSUME NEW N \in Nat, NEW r \in [0 .. N -> Nat]
  PROVE  \E R \in Nat : \A n \in 0 .. N : r[n] <= R
<1> DEFINE step == [k \in 1 .. N |-> [m \in Nat |-> IF r[k] <= m THEN m ELSE r[k]]]
           T == [k \in 0 .. N |-> {m \in Nat : \A n \in 0 .. k : r[n] <= m}]
<1>1. r[0] \in T[0]
  OBVIOUS
<1>2. ASSUME NEW k \in 1 .. N, NEW m \in T[k - 1]
      PROVE  step[k][m] \in T[k]
  <2>1. k \in 0 .. N /\ k - 1 \in 0 .. N /\ r[k] \in Nat
    OBVIOUS
  <2>2. m \in Nat /\ \A n \in 0 .. k - 1 : r[n] <= m
    BY <2>1
  <2> DEFINE s == IF r[k] <= m THEN m ELSE r[k]
  <2>3. step[k][m] = s
    BY <2>2
  <2>4. s \in Nat /\ m <= s /\ r[k] <= s
    BY <2>1, <2>2
  <2> HIDE DEF s
  <2>5. ASSUME NEW n \in 0 .. k
        PROVE  r[n] <= s
    <3>1. CASE n = k
      BY <2>4, <3>1
    <3>2. CASE n # k
      <4>1. n \in 0 .. k - 1 /\ r[n] \in Nat
        BY <3>2
      <4> QED BY <2>2, <2>4, <4>1
    <3> QED BY <3>1, <3>2
  <2> QED BY <2>1, <2>3, <2>4, <2>5
<1>3. PICK f : \A k \in 0 .. N : f[k] \in T[k]
  <2> HIDE DEF T, step
  <2>1. Stepwise(N, r[0], step, T)
    BY <1>1, <1>2, Stepped
  <2> QED BY <2>1 DEF Stepwise
<1>4. f[N] \in T[N]
  <2> HIDE DEF T
  <2> QED BY <1>3
<1>5. f[N] \in Nat /\ \A n \in 0 .. N : r[n] <= f[N]
  BY <1>4
<1> HIDE DEF T
<1> QED BY <1>5

\* The search along a chain, whatever it looks for: it ends, at what it looks
\* for or at the end of the chain, and goes on with the next node.
Goal(n, A) == n = 0 \/ n \in A
LEMMA Search ==
  ASSUME NEW T, Chained(T), NEW A
  PROVE  \A n \in 0 .. sizenode(T) :
           /\ FirstInChain(T, n, A) \in 0 .. sizenode(T)
           /\ Goal(FirstInChain(T, n, A), A)
           /\ FirstInChain(T, n, A) = IF Goal(n, A) THEN n ELSE FirstInChain(T, T.node[n].next, A)
<1> DEFINE N == sizenode(T)
           D == 0 .. N
           nx(n) == T.node[n].next
           find == CHOOSE find : find = [n \in D |-> IF n = 0 \/ n \in A THEN n ELSE find[nx(n)]]
           All == [D -> D]
           Go(g) == [n \in D |-> IF n = 0 \/ n \in A THEN n ELSE g[nx(n)]]
<1>1. \A n : FirstInChain(T, n, A) = find[n]
  BY DEF FirstInChain
<1>2. N \in Nat /\ \A n \in D : n = 0 \/ n \in 1 .. N
  BY DEF Chained, Linked, Table, sizenode
<1>3. \A n \in 1 .. N : nx(n) \in D
  BY DEF Chained, Linked
<1>4. PICK r : r \in [D -> Nat] /\ \A n \in 1 .. N : r[nx(n)] < r[n]
  BY DEF Chained, Ranks
<1> HIDE DEF N, nx
<1>5. PICK R \in Nat : \A n \in D : r[n] <= R
  BY <1>2, <1>4, Bound
<1>6. \A g \in All : Go(g) \in All
  BY <1>2, <1>3
<1> DEFINE Right(g, k) == \A n \in D : r[n] <= k => Go(g)[n] = g[n]
           Goods == [k \in 0 .. R |-> {g \in All : Right(g, k)}]
           base == [n \in D |-> 0]
           step == [k \in 1 .. R |-> [g \in All |-> Go(g)]]
<1>7. base \in Goods[0]
  <2>1. base \in All
    BY <1>2
  <2>2. ASSUME NEW n \in D, r[n] <= 0
        PROVE  Go(base)[n] = base[n]
    <3>1. n = 0
      <4>1. CASE n # 0
        <5>1. r[nx(n)] \in Nat /\ r[nx(n)] < r[n] /\ r[n] \in Nat
          BY <1>2, <1>3, <1>4, <4>1
        <5> QED BY <2>2, <5>1
      <4> QED BY <4>1
    <3> QED BY <2>1, <3>1
  <2> HIDE DEF base, Go, All
  <2> QED BY <2>1, <2>2
<1>8. ASSUME NEW k \in 1 .. R, NEW g \in Goods[k - 1]
      PROVE  step[k][g] \in Goods[k]
  <2>1. k \in 0 .. R /\ k - 1 \in 0 .. R
    OBVIOUS
  <2>2. g \in All /\ Right(g, k - 1)
    <3> HIDE DEF Right, All
    <3> QED BY <2>1
  <2> DEFINE g1 == Go(g)
  <2>3. g1 \in All
    BY <1>6, <2>2
  <2>4. ASSUME NEW n \in D, r[n] <= k
        PROVE  Go(g1)[n] = g1[n]
    <3>1. CASE n = 0 \/ n \in A
      BY <2>3, <3>1
    <3>2. CASE ~(n = 0 \/ n \in A)
      <4>1. n \in 1 .. N /\ nx(n) \in D
        BY <1>2, <1>3, <3>2
      <4>2. r[nx(n)] <= k - 1
        <5>1. r[nx(n)] \in Nat /\ r[n] \in Nat /\ r[nx(n)] < r[n]
          BY <1>4, <4>1
        <5> QED BY <2>4, <5>1
      <4>3. Go(g)[nx(n)] = g[nx(n)]
        <5> HIDE DEF Go
        <5> QED BY <2>2, <4>1, <4>2
      <4>4. Go(g1)[n] = g1[nx(n)] /\ Go(g)[n] = g[nx(n)]
        <5> HIDE DEF g1
        <5> QED BY <3>2, <4>1
      <4> HIDE DEF Go
      <4> QED BY <4>3, <4>4
    <3> QED BY <3>1, <3>2
  <2> HIDE DEF g1
  <2>5. Right(g1, k)
    BY <2>4
  <2>6. g1 \in Goods[k]
    <3> HIDE DEF Right, All
    <3> QED BY <2>1, <2>3, <2>5
  <2>7. step[k][g] = g1
    <3> HIDE DEF Go, All
    <3> QED BY <2>2 DEF g1
  <2> QED BY <2>6, <2>7
<1>9. PICK f : \A k \in 0 .. R : f[k] \in Goods[k]
  <2> HIDE DEF Goods, step, base
  <2>1. Stepwise(R, base, step, Goods)
    BY <1>7, <1>8, Stepped
  <2> QED BY <2>1 DEF Stepwise
<1>10. PICK g : g \in All /\ Right(g, R)
  <2>1. f[R] \in Goods[R] /\ R \in 0 .. R
    <3> HIDE DEF Goods
    <3> QED BY <1>9
  <2> HIDE DEF Right, All
  <2> QED BY <2>1
<1>11. g = Go(g)
  <2>1. \A n \in D : Go(g)[n] = g[n]
    <3> HIDE DEF Go
    <3> QED BY <1>5, <1>10
  <2>2. Go(g) \in All
    BY <1>6, <1>10
  <2>3. ASSUME NEW h \in All, \A n \in D : h[n] = g[n]
        PROVE  h = g
    <3>1. g \in All
      BY <1>10
    <3> HIDE DEF Right, D, Go
    <3> QED BY <2>3, <3>1
  <2> HIDE DEF Go, All, D
  <2> QED BY <2>1, <2>2, <2>3
<1>12. find = [n \in D |-> IF n = 0 \/ n \in A THEN n ELSE find[nx(n)]]
  <2>1. g = [n \in D |-> IF n = 0 \/ n \in A THEN n ELSE g[nx(n)]]
    BY <1>11
  <2> QED BY <2>1
<1> HIDE DEF find, D
<1>13. ASSUME NEW n \in D
       PROVE  find[n] \in D /\ Goal(find[n], A)
  <2> DEFINE Bad == {m \in D : ~(find[m] \in D /\ Goal(find[m], A))}
  <2>1. SUFFICES ASSUME Bad # {}
                 PROVE  FALSE
    OBVIOUS
  <2>2. PICK m \in Bad : \A l \in Bad : r[m] <= r[l]
    <3>1. \A l \in Bad : r[l] \in Nat
      BY <1>4
    <3> HIDE DEF Bad
    <3> QED BY <2>1, <3>1, LeastRanked
  <2>3. m \in D /\ ~(find[m] \in D /\ Goal(find[m], A))
    OBVIOUS
  <2>4. ~(m = 0 \/ m \in A)
    BY <1>12, <2>3 DEF Goal
  <2>5. m \in 1 .. N /\ nx(m) \in D /\ find[m] = find[nx(m)]
    BY <1>2, <1>3, <1>12, <2>3, <2>4 DEF D
  <2>6. nx(m) \in Bad
    BY <2>3, <2>5
  <2>7. r[nx(m)] < r[m] /\ r[nx(m)] \in Nat /\ r[m] \in Nat
    BY <1>4, <2>3, <2>5
  <2> HIDE DEF Bad
  <2> QED BY <2>2, <2>6, <2>7
<1>14. \A n \in D : find[n] = IF Goal(n, A) THEN n ELSE find[nx(n)]
  BY <1>12 DEF Goal
<1> QED BY <1>1, <1>13, <1>14 DEF D, N, nx

-----------------------------------------------------------------------------
(* What a change of one node leaves of the others.                         *)

\* The table has e in node i, and the other nodes as before.
Changed(T, i, e, S) ==
  /\ S \in Table
  /\ S.array = T.array /\ S.lastfree = T.lastfree
  /\ sizenode(S) = sizenode(T) /\ sizearray(S) = sizearray(T)
  /\ \A n \in 1 .. sizenode(T) : S.node[n] = IF n = i THEN e ELSE T.node[n]

LEMMA SetNodeChanges ==
  ASSUME NEW T \in Table, NEW i, NEW e \in Node
  PROVE  Changed(T, i, e, SetNode(T, i, e))
<1> DEFINE S == SetNode(T, i, e)
           N == Len(T.node)
           nodes == [T.node EXCEPT ![i] = e]
<1>1. /\ T = [array |-> T.array, node |-> T.node, lastfree |-> T.lastfree]
      /\ T.array \in Seq(Value \cup {"nil"}) /\ T.node \in Seq(Node) /\ T.lastfree \in Nat
  BY DEF Table
<1>2. S = [array |-> T.array, node |-> nodes, lastfree |-> T.lastfree]
  <2>1. S = [T EXCEPT !.node = nodes]
    BY DEF SetNode
  <2> HIDE DEF S, nodes
  <2> QED BY <1>1, <2>1
<1>3. /\ N \in Nat /\ DOMAIN T.node = 1 .. N
      /\ \A n \in 1 .. N : T.node[n] \in Node
  BY <1>1
<1>4. /\ nodes \in Seq(Node) /\ Len(nodes) = N
      /\ \A n \in 1 .. N : nodes[n] = IF n = i THEN e ELSE T.node[n]
  <2>1. nodes \in [1 .. N -> Node]
    BY <1>1, <1>3
  <2>2. \A n \in 1 .. N : nodes[n] = IF n = i THEN e ELSE T.node[n]
    BY <1>3
  <2> HIDE DEF nodes
  <2> QED BY <1>3, <2>1, <2>2
<1> HIDE DEF nodes, S
<1>5. S \in Table
  BY <1>1, <1>2, <1>4 DEF Table
<1>6. S.array = T.array /\ S.lastfree = T.lastfree /\ S.node = nodes
  BY <1>2
<1> QED BY <1>4, <1>5, <1>6 DEF Changed, sizenode, sizearray, S

\* A node is its three fields.
Entry(k, v, n) == [key |-> k, val |-> v, next |-> n]
NodeKeys == Keys \cup {DeadKey(a) : a \in Address} \cup {nil}
LEMMA Fields ==
  ASSUME NEW T \in Table, NEW n \in 1 .. sizenode(T)
  PROVE  /\ T.node[n] \in Node
         /\ T.node[n].key \in NodeKeys /\ T.node[n].val \in Value \cup {"nil"} /\ T.node[n].next \in Nat
         /\ T.node[n] = Entry(T.node[n].key, T.node[n].val, T.node[n].next)
<1>1. T.node[n] \in Node
  BY DEF Table, sizenode
<1> QED BY <1>1 DEF Node, NodeKeys, Entry

\* A node with another value, or another successor.
LEMMA SetValChanges ==
  ASSUME NEW T \in Table, NEW n \in 1 .. sizenode(T), NEW v \in Value \cup {"nil"}
  PROVE  Changed(T, n, Entry(T.node[n].key, v, T.node[n].next), SetVal(T, n, v))
<1> DEFINE e == T.node[n]
           e2 == Entry(e.key, v, e.next)
<1>1. e \in Node /\ e = Entry(e.key, e.val, e.next) /\ e.key \in NodeKeys /\ e.next \in Nat
  BY Fields
<1>2. SetVal(T, n, v) = SetNode(T, n, [e EXCEPT !.val = v])
  BY DEF SetVal
<1> HIDE DEF e
<1>3. [e EXCEPT !.val = v] = e2 /\ e2 \in Node
  BY <1>1 DEF Entry, Node, NodeKeys
<1> QED BY <1>2, <1>3, SetNodeChanges DEF e

LEMMA RechainChanges ==
  ASSUME NEW T \in Table, NEW n \in 1 .. sizenode(T), NEW j \in Nat
  PROVE  Changed(T, n, Entry(T.node[n].key, T.node[n].val, j), Rechain(T, n, j))
<1> DEFINE e == T.node[n]
           e2 == Entry(e.key, e.val, j)
<1>1. e \in Node /\ e = Entry(e.key, e.val, e.next) /\ e.key \in NodeKeys /\ e.val \in Value \cup {"nil"}
  BY Fields
<1>2. Rechain(T, n, j) = SetNode(T, n, [e EXCEPT !.next = j])
  BY DEF Rechain
<1> HIDE DEF e
<1>3. [e EXCEPT !.next = j] = e2 /\ e2 \in Node
  BY <1>1 DEF Entry, Node, NodeKeys
<1> QED BY <1>2, <1>3, SetNodeChanges DEF e

\* Where there is no node, nothing changes.
LEMMA RechainNowhere ==
  ASSUME NEW T \in Table, NEW j
  PROVE  Rechain(T, 0, j) = T
<1> DEFINE e == [T.node[0] EXCEPT !.next = j]
           nodes == [T.node EXCEPT ![0] = e]
<1>1. /\ T = [array |-> T.array, node |-> T.node, lastfree |-> T.lastfree]
      /\ T.node \in Seq(Node)
  BY DEF Table
<1> HIDE DEF e
<1>2. nodes = T.node
  BY <1>1
<1>3. Rechain(T, 0, j) = [T EXCEPT !.node = nodes]
  BY DEF Rechain, SetNode, e
<1> HIDE DEF nodes
<1> QED BY <1>1, <1>2, <1>3

\* getfreepos goes on elsewhere.
LEMMA Searched ==
  ASSUME NEW T \in Table, NEW f \in Nat
  PROVE  LET S == [T EXCEPT !.lastfree = f]
         IN  /\ S \in Table /\ S.array = T.array /\ S.node = T.node /\ S.lastfree = f
             /\ sizenode(S) = sizenode(T) /\ sizearray(S) = sizearray(T)
<1>1. T = [array |-> T.array, node |-> T.node, lastfree |-> T.lastfree]
  BY DEF Table
<1>2. [T EXCEPT !.lastfree = f] = [array |-> T.array, node |-> T.node, lastfree |-> f]
  BY <1>1
<1> QED BY <1>2 DEF Table, sizenode, sizearray

-----------------------------------------------------------------------------
(* The invariant of one table.                                             *)

\* A field has a key.
Used(T) == \A n \in 1 .. sizenode(T) : T.node[n].val # "nil" => T.node[n].key \in Keys
\* From lastfree on no node is free.
Keyed(T) ==
  /\ T.lastfree <= sizenode(T) + 1
  /\ \A n \in 1 .. sizenode(T) : n >= T.lastfree => T.node[n].key # nil
\* In the main position of a key there is a key, whose main position it is
\* unless it is dead.
AtHome(T, m) == T.node[m].key # nil /\ (T.node[m].key \in Keys => mainposition(T, T.node[m].key) = m)
Homes(T) ==
  \A n \in 1 .. sizenode(T) : T.node[n].key \in Keys => AtHome(T, mainposition(T, T.node[n].key))
\* Nobody's next one is free.
Behind(T) ==
  \A n \in 1 .. sizenode(T) : T.node[n].next # 0 => T.node[T.node[n].next].key # nil
\* The array part has fields for the keys of the program.
Numbered(T) == \A i \in 1 .. sizearray(T) : T.array[i] # "nil" => i \in Number

Good(T) == Chained(T) /\ Used(T) /\ Keyed(T) /\ Behind(T) /\ Homes(T) /\ Numbered(T)
Tables == {T \in Table : Good(T)}

\* A key is not nil, and not dead.
LEMMA KeysApart ==
  /\ nil \notin Keys
  /\ \A a : DeadKey(a) \notin Keys
  /\ \A a : DeadKey(a) # nil
  /\ \A k \in Keys : k # nil /\ k \in NodeKeys
<1>1. ASSUME NEW k \in Keys
      PROVE  k.tt \in {"LUA_TNUMINT", "LUA_TSHRSTR", "LUA_TTABLE"} /\ k \in NodeKeys
  <2>1. CASE \E n \in Number : k = IntKey(n)
    BY <2>1 DEF IntKey, NodeKeys
  <2>2. CASE k \in [tt : {"LUA_TSHRSTR"}, v : Address, hash : StringHash]
    BY <2>2 DEF NodeKeys
  <2>3. CASE k \in [tt : {"LUA_TTABLE"}, v : Address]
    BY <2>3 DEF NodeKeys
  <2> QED BY <2>1, <2>2, <2>3 DEF Keys, Objects
<1>2. nil.tt = "LUA_TNIL" /\ \A a : DeadKey(a).tt = "LUA_TDEADKEY"
  BY DEF nil, DeadKey
<1> QED BY <1>1, <1>2

\* The main position is a node.
LEMMA MainPosition ==
  ASSUME NEW T, sizenode(T) \in Nat \ {0}, NEW k \in Keys \cup {IntKey(n) : n \in Nat}
  PROVE  mainposition(T, k) \in 1 .. sizenode(T)
<1> DEFINE N == sizenode(T)
<1>1. OddModulus(N) \in 1 .. N
  BY DEF OddModulus
<1>2. /\ k.tt = "LUA_TNUMINT" => k.v \in Nat
      /\ k.tt = "LUA_TSHRSTR" => k.hash \in Nat
      /\ k.tt \notin {"LUA_TNUMINT", "LUA_TSHRSTR"} => k.v \in Nat
  <2>1. CASE \E n \in Nat : k = IntKey(n)
    BY <2>1 DEF IntKey
  <2>2. CASE k \in [tt : {"LUA_TSHRSTR"}, v : Address, hash : StringHash]
    BY <2>2, KeyAssumption
  <2>3. CASE k \in [tt : {"LUA_TTABLE"}, v : Address]
    BY <2>3, KeyAssumption
  <2> QED BY <2>1, <2>2, <2>3, KeyAssumption DEF Keys, Objects
<1> HIDE DEF N
<1>3. \A x \in Nat, m \in 1 .. N : x % m \in 0 .. m - 1
  BY SMTT(30) DEF N
<1>4. N \in 1 .. N
  BY DEF N
<1>5. CASE k.tt = "LUA_TNUMINT"
  <2>1. k.v % N \in 0 .. N - 1
    BY <1>2, <1>3, <1>4, <1>5
  <2> QED BY <1>5, <2>1 DEF mainposition, N
<1>6. CASE k.tt = "LUA_TSHRSTR"
  <2>1. k.hash % N \in 0 .. N - 1
    BY <1>2, <1>3, <1>4, <1>6
  <2> QED BY <1>6, <2>1 DEF mainposition, N
<1>7. CASE k.tt \notin {"LUA_TNUMINT", "LUA_TSHRSTR"}
  <2>1. k.v % OddModulus(N) \in 0 .. OddModulus(N) - 1
    BY <1>1, <1>2, <1>3, <1>7
  <2> DEFINE M == OddModulus(N)
             x == k.v % M
  <2>2. mainposition(T, k) = 1 + x
    BY <1>7 DEF mainposition, N
  <2>3. N \in Nat
    BY DEF N
  <2> HIDE DEF M, x
  <2>4. 1 + x \in 1 .. N
    BY <1>1, <2>1, <2>3 DEF M, x
  <2> QED BY <2>2, <2>4 DEF N
<1> QED BY <1>5, <1>6, <1>7

\* The main position depends on nothing but the key and the size.
LEMMA MainPositionStays ==
  ASSUME NEW T, NEW S, sizenode(S) = sizenode(T), NEW k
  PROVE  mainposition(S, k) = mainposition(T, k)
BY DEF mainposition

\* A finite set of numbers has a largest one.
LEMMA Largest ==
  ASSUME NEW N \in Nat, NEW A \in SUBSET (0 .. N), A # {}
  PROVE  Max(A) \in A /\ \A n \in A : n <= Max(A)
<1> DEFINE r == [n \in A |-> N - n]
<1>1. PICK n \in A : \A m \in A : r[n] <= r[m]
  <2>1. \A m \in A : r[m] \in Nat
    OBVIOUS
  <2> HIDE DEF r
  <2> QED BY <2>1, LeastRanked
<1>2. \A m \in A : n >= m
  BY <1>1
<1>3. Max(A) \in A /\ \A m \in A : Max(A) >= m
  BY <1>2 DEF Max
<1> QED BY <1>3

\* getfreepos gives the last free node.
LEMMA FreePosition ==
  ASSUME NEW T, Good(T), FreeNodes(T) # {}
  PROVE  LET f == getfreepos(T)
         IN  /\ f \in 1 .. sizenode(T) /\ f < T.lastfree /\ T.node[f].key = nil
             /\ \A n \in 1 .. sizenode(T) : n > f => T.node[n].key # nil
<1> DEFINE A == FreeNodes(T)
           N == sizenode(T)
           f == getfreepos(T)
<1>1. N \in Nat /\ T.lastfree \in Nat /\ T.lastfree <= N + 1
  BY DEF Good, Chained, Linked, Keyed, Table, sizenode
<1>2. A \in SUBSET (0 .. N)
  BY <1>1 DEF FreeNodes
<1>3. f \in A /\ \A n \in A : n <= f
  BY <1>1, <1>2, Largest DEF getfreepos
<1>4. f \in 1 .. N /\ f < T.lastfree /\ T.node[f].key = nil
  BY <1>1, <1>3 DEF FreeNodes
<1>5. ASSUME NEW n \in 1 .. N, n > f
      PROVE  T.node[n].key # nil
  <2>1. CASE n < T.lastfree
    BY <1>1, <1>3, <1>4, <1>5, <2>1 DEF FreeNodes
  <2>2. CASE n >= T.lastfree
    BY <2>2 DEF Good, Keyed
  <2> QED BY <1>1, <2>1, <2>2
<1> QED BY <1>4, <1>5

-----------------------------------------------------------------------------
(* What luaH_newkey makes of the nodes.                                    *)

\* A table of the same parts, except for the nodes.
Alike(T, S) ==
  /\ S \in Table /\ sizenode(S) = sizenode(T)
  /\ S.array = T.array /\ sizearray(S) = sizearray(T)

\* The new key takes its main position, which is free.
TakesPlace(T, k, v, mp, S) ==
  /\ Alike(T, S) /\ S.lastfree = T.lastfree
  /\ \A n \in 1 .. sizenode(T) :
       S.node[n] = IF n = mp THEN Entry(k, v, T.node[mp].next) ELSE T.node[n]
\* The node that is there goes to f, behind the previous one of its chain.
MovesOther(T, k, v, mp, f, previous, S) ==
  /\ Alike(T, S) /\ S.lastfree = f
  /\ \A n \in 1 .. sizenode(T) :
       S.node[n] = IF n = mp THEN Entry(k, v, 0)
                   ELSE IF n = f THEN T.node[mp]
                   ELSE IF n = previous THEN Entry(T.node[n].key, T.node[n].val, f)
                   ELSE T.node[n]
\* The new key goes to f, behind the node that is there.
GoesBehind(T, k, v, mp, f, S) ==
  /\ Alike(T, S) /\ S.lastfree = f
  /\ \A n \in 1 .. sizenode(T) :
       S.node[n] = IF n = f THEN Entry(k, v, T.node[mp].next)
                   ELSE IF n = mp THEN Entry(T.node[mp].key, T.node[mp].val, f)
                   ELSE T.node[n]

\* What getfreepos finds.
Free(T, f) ==
  /\ f \in 1 .. sizenode(T) /\ f < T.lastfree /\ T.node[f].key = nil
  /\ \A n \in 1 .. sizenode(T) : n > f => T.node[n].key # nil
\* The node that precedes another one, when there is one.
Precedes(T, p, m) == p \in 0 .. sizenode(T) /\ (p = 0 \/ T.node[p].next = m)

\* The new key in its main position.
LEMMA PlaceTaken ==
  ASSUME NEW T, Good(T), NEW k \in Keys, NEW v, NEW mp \in 1 .. sizenode(T), mp = mainposition(T, k),
         NEW S, TakesPlace(T, k, v, mp, S)
  PROVE  Good(S)
<1> DEFINE N == sizenode(T)
<1>1. T \in Table /\ N \in Nat /\ k # nil
  BY KeysApart DEF Good, Chained, Linked, Table, sizenode
<1>2. \A n \in 1 .. N : S.node[n] = IF n = mp THEN Entry(k, v, T.node[mp].next) ELSE T.node[n]
  BY DEF TakesPlace
<1>3. Alike(T, S) /\ S.lastfree = T.lastfree
  BY DEF TakesPlace
<1>4. /\ \A n \in 1 .. N : S.node[n].next = T.node[n].next
      /\ \A n \in 1 .. N : n # mp => S.node[n] = T.node[n]
      /\ S.node[mp].key = k
  BY <1>2 DEF Entry
<1>5. sizenode(S) = N /\ \A j : mainposition(S, j) = mainposition(T, j)
  BY <1>3, MainPositionStays DEF Alike
<1> HIDE DEF N
<1>6. Chained(S)
  <2>1. \A n \in 1 .. N : T.node[n].next \in 0 .. N
    BY DEF Good, Chained, Linked, N
  <2>2. PICK r : Ranks(T, r)
    BY DEF Good, Chained
  <2>3. Ranks(S, r)
    BY <1>4, <1>5, <2>2 DEF Ranks, N
  <2> QED BY <1>3, <1>4, <1>5, <2>1, <2>3 DEF Chained, Linked, Alike
<1>7. Used(S)
  BY <1>4, <1>5 DEF Good, Used, N
<1>8. Keyed(S)
  BY <1>1, <1>3, <1>4, <1>5 DEF Good, Keyed, N
<1>9. Behind(S)
  <2>1. ASSUME NEW n \in 1 .. N, T.node[n].next # 0
        PROVE  S.node[T.node[n].next].key # nil
    <3>1. T.node[n].next \in 1 .. N /\ T.node[T.node[n].next].key # nil
      BY <1>1, <2>1 DEF Good, Chained, Linked, Behind, N
    <3> QED BY <1>1, <1>4, <3>1
  <2> QED BY <1>4, <1>5, <2>1 DEF Behind
<1>10. Homes(S)
  <2>1. AtHome(S, mp)
    BY <1>1, <1>4, <1>5 DEF AtHome
  <2>2. ASSUME NEW n \in 1 .. N, S.node[n].key \in Keys
        PROVE  AtHome(S, mainposition(T, S.node[n].key))
    <3> DEFINE m == mainposition(T, S.node[n].key)
    <3>1. CASE n = mp \/ m = mp
      BY <1>4, <2>1, <3>1
    <3>2. CASE n # mp /\ m # mp
      <4>1. S.node[n].key = T.node[n].key
        BY <1>4, <3>2
      <4>2. m \in 1 .. N
        BY <1>1, <2>2, MainPosition DEF N
      <4>3. AtHome(T, m)
        BY <2>2, <4>1 DEF Good, Homes, N
      <4>4. S.node[m].key = T.node[m].key
        BY <1>4, <3>2, <4>2
      <4> HIDE DEF m
      <4> QED BY <1>5, <4>3, <4>4 DEF AtHome, m
    <3> QED BY <3>1, <3>2
  <2> QED BY <1>5, <2>2 DEF Homes
<1>11. Numbered(S)
  BY <1>3 DEF Good, Numbered, Alike
<1> QED BY <1>6, <1>7, <1>8, <1>9, <1>10, <1>11 DEF Good

\* The colliding node in the free one.
LEMMA OtherMoved ==
  ASSUME NEW T, Good(T), NEW k \in Keys, NEW v, NEW mp \in 1 .. sizenode(T), mp = mainposition(T, k),
         T.node[mp].val # "nil", mainposition(T, T.node[mp].key) # mp,
         NEW f, Free(T, f), NEW p, Precedes(T, p, mp), NEW S, MovesOther(T, k, v, mp, f, p, S)
  PROVE  Good(S)
<1> DEFINE N == sizenode(T)
           othern == mainposition(T, T.node[mp].key)
<1>1. T \in Table /\ N \in Nat /\ k # nil
  BY KeysApart DEF Good, Chained, Linked, Table, sizenode
<1>2. \A n \in 1 .. N : S.node[n] = IF n = mp THEN Entry(k, v, 0)
                   ELSE IF n = f THEN T.node[mp]
                   ELSE IF n = p THEN Entry(T.node[n].key, T.node[n].val, f)
                   ELSE T.node[n]
  BY DEF MovesOther
<1>3. Alike(T, S) /\ S.lastfree = f
  BY DEF MovesOther
<1>4. T.node[mp].key \in Keys /\ T.node[mp].key # nil
  BY KeysApart DEF Good, Used
<1>5. f \in 1 .. N /\ f # mp /\ T.node[f].key = nil
  BY <1>4 DEF Free
<1>6. /\ S.node[mp].key = k /\ S.node[mp].next = 0
      /\ S.node[f] = T.node[mp]
      /\ \A n \in 1 .. N : n \notin {mp, f} => S.node[n].key = T.node[n].key /\ S.node[n].val = T.node[n].val
      /\ \A n \in 1 .. N : n \notin {mp, f} => S.node[n].next = T.node[n].next \/ (n = p /\ S.node[n].next = f)
  <2>1. S.node[mp] = Entry(k, v, 0) /\ S.node[f] = T.node[mp]
    BY <1>2, <1>5
  <2>2. ASSUME NEW n \in 1 .. N, n \notin {mp, f}
        PROVE  /\ S.node[n].key = T.node[n].key /\ S.node[n].val = T.node[n].val
               /\ S.node[n].next = T.node[n].next \/ (n = p /\ S.node[n].next = f)
    <3>1. CASE n = p
      <4>1. S.node[n] = Entry(T.node[n].key, T.node[n].val, f)
        BY <1>2, <2>2, <3>1
      <4> QED BY <3>1, <4>1 DEF Entry
    <3>2. CASE n # p
      <4>1. S.node[n] = T.node[n]
        BY <1>2, <2>2, <3>2
      <4> QED BY <4>1
    <3> QED BY <3>1, <3>2
  <2>3. S.node[mp].key = k /\ S.node[mp].next = 0
    BY <2>1 DEF Entry
  <2> QED BY <2>1, <2>2, <2>3
<1>7. sizenode(S) = N /\ \A j : mainposition(S, j) = mainposition(T, j)
  BY <1>3, MainPositionStays DEF Alike
<1>8. /\ \A n \in 1 .. N : T.node[n].next \in 0 .. N
      /\ \A n \in 1 .. N : T.node[n].next # f
  <2>1. \A n \in 1 .. N : T.node[n].next \in 0 .. N
    BY DEF Good, Chained, Linked, N
  <2>2. f # 0
    BY <1>5
  <2>3. \A n \in 1 .. N : T.node[n].next # f
    BY <1>5, <2>2 DEF Good, Behind, N
  <2> QED BY <2>1, <2>3
<1>9. othern # mp
  OBVIOUS
<1> HIDE DEF N, othern
<1>10. \A n \in 1 .. N : S.node[n].next \in 0 .. N
  BY <1>1, <1>5, <1>6, <1>8 DEF N
<1>11. \A n \in 1 .. N : S.node[n].key # nil <=> T.node[n].key # nil \/ n = f
  BY <1>1, <1>4, <1>5, <1>6
<1>12. Chained(S)
  <2>1. PICK r : r \in [0 .. N -> Nat] /\ r[0] = 0 /\ \A n \in 1 .. N : r[T.node[n].next] < r[n]
    BY DEF Good, Chained, Ranks, N
  <2> DEFINE s == [n \in 0 .. N |-> IF n = f THEN r[mp] ELSE r[n]]
  <2>2. r[mp] \in Nat /\ r[mp] > 0 /\ mp \in 1 .. N
    <3>1. mp \in 1 .. N /\ r[T.node[mp].next] < r[mp] /\ r[T.node[mp].next] \in Nat /\ r[mp] \in Nat
      BY <1>8, <2>1 DEF N
    <3> QED BY <3>1
  <2>3. s \in [0 .. N -> Nat] /\ s[0] = 0 /\ s[f] = r[mp] /\ s[mp] = r[mp]
    BY <1>1, <1>5, <2>1, <2>2
  <2>4. \A n \in 0 .. N : n # f => s[n] = r[n]
    BY <2>1
  <2> HIDE DEF s
  <2>5. ASSUME NEW n \in 1 .. N
        PROVE  s[S.node[n].next] < s[n]
    <3>1. CASE n = mp
      BY <1>6, <2>2, <2>3, <3>1
    <3>2. CASE n = f
      BY <1>6, <1>8, <2>1, <2>2, <2>3, <2>4, <3>2
    <3>3. CASE n \notin {mp, f} /\ S.node[n].next = T.node[n].next
      BY <1>8, <2>1, <2>4, <3>3
    <3>4. CASE n \notin {mp, f} /\ n = p /\ S.node[n].next = f
      <4>1. T.node[p].next = mp
        BY <3>4 DEF Precedes, N
      <4> QED BY <2>1, <2>3, <2>4, <3>4, <4>1
    <3> QED BY <1>6, <3>1, <3>2, <3>3, <3>4
  <2>6. Ranks(S, s)
    BY <1>7, <2>3, <2>5 DEF Ranks
  <2> QED BY <1>3, <1>7, <1>10, <2>6 DEF Chained, Linked, Alike
<1>13. Used(S)
  <2>1. \A n \in 1 .. N : T.node[n].val # "nil" => T.node[n].key \in Keys
    BY DEF Good, Used, N
  <2> QED BY <1>4, <1>6, <1>7, <2>1 DEF Used
<1>14. Keyed(S)
  <2>1. \A n \in 1 .. N : n > f => T.node[n].key # nil
    BY DEF Free, N
  <2>2. f <= N + 1
    BY <1>1, <1>5
  <2> QED BY <1>1, <1>3, <1>5, <1>7, <1>11, <2>1, <2>2 DEF Keyed
<1>15. Behind(S)
  <2>1. ASSUME NEW n \in 1 .. N, S.node[n].next # 0
        PROVE  S.node[S.node[n].next].key # nil
    <3> DEFINE x == S.node[n].next
    <3>1. x \in 1 .. N
      BY <1>1, <1>10, <2>1
    <3>2. x = f \/ \E j \in 1 .. N : x = T.node[j].next
      <4>1. mp \in 1 .. N
        BY DEF N
      <4> QED BY <1>6, <2>1, <4>1
    <3>3. T.node[x].key # nil \/ x = f
      BY <2>1, <3>2 DEF Good, Behind, N
    <3> HIDE DEF x
    <3>4. S.node[x].key # nil
      BY <1>11, <3>1, <3>3
    <3> QED BY <3>4 DEF x
  <2> QED BY <1>7, <2>1 DEF Behind
<1>16. Homes(S)
  <2>1. AtHome(S, mp)
    BY <1>1, <1>6, <1>7 DEF AtHome
  <2>2. ASSUME NEW n \in 1 .. N, T.node[n].key \in Keys, mainposition(T, T.node[n].key) # mp
        PROVE  AtHome(S, mainposition(T, T.node[n].key))
    <3> DEFINE m == mainposition(T, T.node[n].key)
    <3>1. m \in 1 .. N
      BY <1>1, <2>2, MainPosition DEF N
    <3>2. AtHome(T, m)
      BY <2>2 DEF Good, Homes, N
    <3>3. m # f
      BY <1>5, <3>2 DEF AtHome
    <3> HIDE DEF m
    <3>4. S.node[m].key = T.node[m].key
      BY <1>6, <2>2, <3>1, <3>3 DEF m
    <3>5. AtHome(S, m)
      BY <1>7, <3>2, <3>4 DEF AtHome
    <3> QED BY <3>5 DEF m
  <2>3. ASSUME NEW n \in 1 .. N, S.node[n].key \in Keys
        PROVE  AtHome(S, mainposition(T, S.node[n].key))
    <3>1. CASE mainposition(T, S.node[n].key) = mp
      BY <2>1, <3>1
    <3>2. CASE mainposition(T, S.node[n].key) # mp /\ n = f
      <4>1. mp \in 1 .. N /\ S.node[n].key = T.node[mp].key
        BY <1>6, <3>2 DEF N
      <4> QED BY <2>2, <2>3, <3>2, <4>1
    <3>3. CASE mainposition(T, S.node[n].key) # mp /\ n # f
      <4>1. n # mp /\ S.node[n].key = T.node[n].key
        BY <1>6, <3>3
      <4> QED BY <2>2, <2>3, <3>3, <4>1
    <3> QED BY <3>1, <3>2, <3>3
  <2> QED BY <1>7, <2>3 DEF Homes
<1>17. Numbered(S)
  BY <1>3 DEF Good, Numbered, Alike
<1> QED BY <1>12, <1>13, <1>14, <1>15, <1>16, <1>17 DEF Good

\* The new key in the free node.
LEMMA BehindOther ==
  ASSUME NEW T, Good(T), NEW k \in Keys, NEW v, NEW mp \in 1 .. sizenode(T), mp = mainposition(T, k),
         T.node[mp].val # "nil", mainposition(T, T.node[mp].key) = mp,
         NEW f, Free(T, f), NEW S, GoesBehind(T, k, v, mp, f, S)
  PROVE  Good(S)
<1> DEFINE N == sizenode(T)
<1>1. T \in Table /\ N \in Nat /\ k # nil
  BY KeysApart DEF Good, Chained, Linked, Table, sizenode
<1>2. \A n \in 1 .. N : S.node[n] = IF n = f THEN Entry(k, v, T.node[mp].next)
                   ELSE IF n = mp THEN Entry(T.node[mp].key, T.node[mp].val, f)
                   ELSE T.node[n]
  BY DEF GoesBehind
<1>3. Alike(T, S) /\ S.lastfree = f
  BY DEF GoesBehind
<1>4. T.node[mp].key \in Keys /\ T.node[mp].key # nil
  BY KeysApart DEF Good, Used
<1>5. f \in 1 .. N /\ f # mp /\ T.node[f].key = nil
  BY <1>4 DEF Free
<1>6. /\ S.node[f].key = k /\ S.node[f].next = T.node[mp].next
      /\ S.node[mp].next = f
      /\ \A n \in 1 .. N : n # f => S.node[n].key = T.node[n].key /\ S.node[n].val = T.node[n].val
      /\ \A n \in 1 .. N : n \notin {mp, f} => S.node[n].next = T.node[n].next
  BY <1>2, <1>5 DEF Entry
<1>7. sizenode(S) = N /\ \A j : mainposition(S, j) = mainposition(T, j)
  BY <1>3, MainPositionStays DEF Alike
<1>8. /\ \A n \in 1 .. N : T.node[n].next \in 0 .. N
      /\ \A n \in 1 .. N : T.node[n].next # f
  <2>1. \A n \in 1 .. N : T.node[n].next \in 0 .. N
    BY DEF Good, Chained, Linked, N
  <2>2. f # 0
    BY <1>5
  <2>3. \A n \in 1 .. N : T.node[n].next # f
    BY <1>5, <2>2 DEF Good, Behind, N
  <2> QED BY <2>1, <2>3
<1>9. mp \in 1 .. N
  OBVIOUS
<1> HIDE DEF N
<1>10. \A n \in 1 .. N : S.node[n].next \in 0 .. N
  BY <1>1, <1>5, <1>6, <1>8, <1>9
<1>11. \A n \in 1 .. N : S.node[n].key # nil <=> T.node[n].key # nil \/ n = f
  BY <1>1, <1>5, <1>6
<1>12. Chained(S)
  <2>1. PICK r : r \in [0 .. N -> Nat] /\ r[0] = 0 /\ \A n \in 1 .. N : r[T.node[n].next] < r[n]
    BY DEF Good, Chained, Ranks, N
  <2> DEFINE s == [n \in 0 .. N |-> IF n = f THEN r[mp] + r[mp] - 1 ELSE r[n] + r[n]]
  <2>2. r[mp] \in Nat /\ r[T.node[mp].next] \in Nat /\ r[T.node[mp].next] < r[mp]
    BY <1>8, <1>9, <2>1
  <2>3. s \in [0 .. N -> Nat] /\ s[0] = 0 /\ s[f] = r[mp] + r[mp] - 1
    <3>1. r[mp] + r[mp] - 1 \in Nat /\ \A n \in 0 .. N : r[n] + r[n] \in Nat
      BY <2>1, <2>2
    <3>2. s \in [0 .. N -> Nat]
      BY <3>1
    <3>3. 0 \in 0 .. N /\ f \in 0 .. N /\ f # 0
      BY <1>1, <1>5
    <3>4. s[0] = 0
      BY <2>1, <3>3
    <3>5. s[f] = r[mp] + r[mp] - 1
      BY <3>3
    <3> HIDE DEF s
    <3> QED BY <3>2, <3>4, <3>5
  <2>4. \A n \in 0 .. N : n # f => s[n] = r[n] + r[n]
    BY <2>1
  <2> HIDE DEF s
  <2>5. ASSUME NEW n \in 1 .. N
        PROVE  s[S.node[n].next] < s[n]
    <3>1. CASE n = mp
      <4>1. s[n] = r[mp] + r[mp]
        BY <1>5, <1>9, <2>4, <3>1
      <4> QED BY <1>6, <2>2, <2>3, <3>1, <4>1
    <3>2. CASE n = f
      <4> DEFINE x == T.node[mp].next
      <4>1. s[x] = r[x] + r[x]
        BY <1>8, <1>9, <2>4
      <4>2. S.node[n].next = x
        BY <1>6, <3>2
      <4> HIDE DEF x
      <4>3. r[x] \in Nat /\ r[x] < r[mp]
        BY <2>2 DEF x
      <4> QED BY <2>2, <2>3, <3>2, <4>1, <4>2, <4>3
    <3>3. CASE n \notin {mp, f}
      <4> DEFINE x == T.node[n].next
      <4>1. x \in 0 .. N /\ x # f /\ S.node[n].next = x
        BY <1>6, <1>8, <3>3
      <4>2. r[x] \in Nat /\ r[n] \in Nat /\ r[x] < r[n]
        BY <1>8, <2>1
      <4> HIDE DEF x
      <4>3. s[x] = r[x] + r[x] /\ s[n] = r[n] + r[n]
        BY <2>4, <3>3, <4>1
      <4> QED BY <4>1, <4>2, <4>3
    <3> QED BY <3>1, <3>2, <3>3
  <2>6. Ranks(S, s)
    BY <1>7, <2>3, <2>5 DEF Ranks
  <2> QED BY <1>3, <1>7, <1>10, <2>6 DEF Chained, Linked, Alike
<1>13. Used(S)
  <2>1. \A n \in 1 .. N : T.node[n].val # "nil" => T.node[n].key \in Keys
    BY DEF Good, Used, N
  <2> QED BY <1>4, <1>6, <1>7, <2>1 DEF Used
<1>14. Keyed(S)
  <2>1. \A n \in 1 .. N : n > f => T.node[n].key # nil
    BY DEF Free, N
  <2>2. f <= N + 1
    BY <1>1, <1>5
  <2> QED BY <1>1, <1>3, <1>5, <1>7, <1>11, <2>1, <2>2 DEF Keyed
<1>15. Behind(S)
  <2>1. ASSUME NEW n \in 1 .. N, S.node[n].next # 0
        PROVE  S.node[S.node[n].next].key # nil
    <3> DEFINE x == S.node[n].next
    <3>1. x \in 1 .. N
      BY <1>1, <1>10, <2>1
    <3>2. x = f \/ \E j \in 1 .. N : x = T.node[j].next
      BY <1>6, <1>9, <2>1
    <3>3. T.node[x].key # nil \/ x = f
      BY <2>1, <3>2 DEF Good, Behind, N
    <3> HIDE DEF x
    <3>4. S.node[x].key # nil
      BY <1>11, <3>1, <3>3
    <3> QED BY <3>4 DEF x
  <2> QED BY <1>7, <2>1 DEF Behind
<1>16. Homes(S)
  <2>1. AtHome(S, mp)
    BY <1>4, <1>5, <1>6, <1>7, <1>9 DEF AtHome
  <2>2. ASSUME NEW n \in 1 .. N, S.node[n].key \in Keys
        PROVE  AtHome(S, mainposition(T, S.node[n].key))
    <3>1. CASE n = f
      BY <1>6, <2>1, <3>1
    <3>2. CASE n # f
      <4> DEFINE m == mainposition(T, T.node[n].key)
      <4>1. S.node[n].key = T.node[n].key
        BY <1>6, <3>2
      <4>2. m \in 1 .. N
        BY <1>1, <2>2, <4>1, MainPosition DEF N
      <4>3. AtHome(T, m)
        BY <2>2, <4>1 DEF Good, Homes, N
      <4>4. m # f
        BY <1>5, <4>3 DEF AtHome
      <4> HIDE DEF m
      <4>5. S.node[m].key = T.node[m].key
        BY <1>6, <4>2, <4>4
      <4>6. AtHome(S, m)
        BY <1>7, <4>3, <4>5 DEF AtHome
      <4> QED BY <4>1, <4>6 DEF m
    <3> QED BY <3>1, <3>2
  <2> QED BY <1>7, <2>2 DEF Homes
<1>17. Numbered(S)
  BY <1>3 DEF Good, Numbered, Alike
<1> QED BY <1>12, <1>13, <1>14, <1>15, <1>16, <1>17 DEF Good

\* The nodes that luaH_newkey changes.
LEMMA NewKeyTakes ==
  ASSUME NEW T \in Table, NEW k \in Keys, NEW v \in Value \cup {"nil"},
         NEW mp \in 1 .. sizenode(T), mp = mainposition(T, k), ~MainPositionTaken(T, k)
  PROVE  TakesPlace(T, k, v, mp, luaH_newkey(T, k, v))
<1> DEFINE e == Entry(k, v, T.node[mp].next)
<1>1. e \in Node
  BY Fields, KeysApart DEF Entry, Node, NodeKeys
<1>2. luaH_newkey(T, k, v) = SetNode(T, mp, e)
  BY DEF luaH_newkey, Entry
<1> HIDE DEF e
<1>3. Changed(T, mp, e, SetNode(T, mp, e))
  BY <1>1, SetNodeChanges
<1> QED BY <1>2, <1>3 DEF TakesPlace, Changed, Alike, e

LEMMA NewKeyMoves ==
  ASSUME NEW T \in Table, NEW k \in Keys, NEW v \in Value \cup {"nil"},
         NEW mp \in 1 .. sizenode(T), mp = mainposition(T, k), MainPositionTaken(T, k),
         NEW f \in 1 .. sizenode(T), f = getfreepos(T), f # mp,
         NEW othern, othern = mainposition(T, T.node[mp].key), othern # mp,
         NEW p \in 0 .. sizenode(T),
         p = FirstInChain(T, othern, {n \in DOMAIN T.node : T.node[n].next = mp})
  PROVE  MovesOther(T, k, v, mp, f, p, luaH_newkey(T, k, v))
<1> DEFINE N == sizenode(T)
           A == [T EXCEPT !.lastfree = f]
           B == Rechain(A, p, f)
           C == SetNode(B, f, T.node[mp])
           e == Entry(k, v, 0)
           D == SetNode(C, mp, e)
<1>1. luaH_newkey(T, k, v) = D
  BY DEF luaH_newkey, Entry
<1>2. e \in Node /\ T.node[mp] \in Node /\ N \in Nat /\ f \in Nat
  <2>1. T.node[mp] \in Node /\ T.node[mp].next \in Nat
    BY Fields
  <2>2. k \in NodeKeys
    BY KeysApart
  <2>3. e \in Node
    BY <2>1, <2>2 DEF Entry, Node, NodeKeys
  <2>4. N \in Nat /\ f \in Nat
    BY DEF sizenode, Table
  <2> QED BY <2>1, <2>3, <2>4
<1> HIDE DEF e, D, C, B, A, N
<1>3. Alike(T, A) /\ A.node = T.node /\ A.lastfree = f
  BY <1>2, Searched DEF A, Alike
<1>4. /\ Alike(T, B) /\ B.lastfree = f
      /\ \A n \in 1 .. N : B.node[n] = IF n = p THEN Entry(T.node[n].key, T.node[n].val, f) ELSE T.node[n]
  <2>1. CASE p = 0
    <3>1. B = A
      BY <1>3, <2>1, RechainNowhere DEF B, Alike
    <3>2. \A n \in 1 .. N : n # p
      BY <1>2, <2>1
    <3> QED BY <1>3, <3>1, <3>2
  <2>2. CASE p # 0
    <3>1. p \in 1 .. sizenode(A) /\ A \in Table
      BY <1>2, <1>3, <2>2 DEF Alike, N
    <3>2. Changed(A, p, Entry(A.node[p].key, A.node[p].val, f), B)
      BY <1>2, <3>1, RechainChanges DEF B
    <3>3. Alike(T, B) /\ B.lastfree = f
      BY <1>3, <3>2 DEF Changed, Alike
    <3>4. \A n \in 1 .. N : B.node[n] = IF n = p THEN Entry(T.node[p].key, T.node[p].val, f) ELSE T.node[n]
      BY <1>3, <3>2 DEF Changed, Alike, N
    <3> QED BY <3>3, <3>4
  <2> QED BY <2>1, <2>2
<1>5. /\ Alike(T, C) /\ C.lastfree = f
      /\ \A n \in 1 .. N : C.node[n] = IF n = f THEN T.node[mp] ELSE B.node[n]
  <2>1. Changed(B, f, T.node[mp], C)
    BY <1>2, <1>4, SetNodeChanges DEF Alike, C
  <2> QED BY <1>4, <2>1 DEF Changed, Alike, N
<1>6. /\ Alike(T, D) /\ D.lastfree = f
      /\ \A n \in 1 .. N : D.node[n] = IF n = mp THEN e ELSE C.node[n]
  <2>1. Changed(C, mp, e, D)
    BY <1>2, <1>5, SetNodeChanges DEF Alike, D
  <2> QED BY <1>5, <2>1 DEF Changed, Alike, N
<1> QED BY <1>1, <1>4, <1>5, <1>6 DEF MovesOther, e, N

LEMMA NewKeyGoesBehind ==
  ASSUME NEW T \in Table, NEW k \in Keys, NEW v \in Value \cup {"nil"},
         NEW mp \in 1 .. sizenode(T), mp = mainposition(T, k), MainPositionTaken(T, k),
         NEW f \in 1 .. sizenode(T), f = getfreepos(T), f # mp,
         mainposition(T, T.node[mp].key) = mp
  PROVE  GoesBehind(T, k, v, mp, f, luaH_newkey(T, k, v))
<1> DEFINE N == sizenode(T)
           A == [T EXCEPT !.lastfree = f]
           B == Rechain(A, mp, f)
           e == Entry(k, v, T.node[mp].next)
           D == SetNode(B, f, e)
<1>1. luaH_newkey(T, k, v) = D
  BY DEF luaH_newkey, Entry
<1>2. e \in Node /\ T.node[mp] \in Node /\ N \in Nat /\ f \in Nat
  <2>1. T.node[mp] \in Node /\ T.node[mp].next \in Nat
    BY Fields
  <2>2. k \in NodeKeys
    BY KeysApart
  <2>3. e \in Node
    BY <2>1, <2>2 DEF Entry, Node, NodeKeys
  <2>4. N \in Nat /\ f \in Nat
    BY DEF sizenode, Table
  <2> QED BY <2>1, <2>3, <2>4
<1> HIDE DEF e, D, B, A, N
<1>3. Alike(T, A) /\ A.node = T.node /\ A.lastfree = f
  BY <1>2, Searched DEF A, Alike
<1>4. /\ Alike(T, B) /\ B.lastfree = f
      /\ \A n \in 1 .. N : B.node[n] = IF n = mp THEN Entry(T.node[mp].key, T.node[mp].val, f) ELSE T.node[n]
  <2>1. Changed(A, mp, Entry(A.node[mp].key, A.node[mp].val, f), B)
    BY <1>2, <1>3, RechainChanges DEF B, Alike
  <2> QED BY <1>3, <2>1 DEF Changed, Alike, N
<1>5. /\ Alike(T, D) /\ D.lastfree = f
      /\ \A n \in 1 .. N : D.node[n] = IF n = f THEN e ELSE B.node[n]
  <2>1. Changed(B, f, e, D)
    BY <1>2, <1>4, SetNodeChanges DEF Alike, D
  <2> QED BY <1>4, <2>1 DEF Changed, Alike, N
<1> QED BY <1>1, <1>4, <1>5 DEF GoesBehind, e, N

\* A new key fits in.
LEMMA NewKey ==
  ASSUME NEW T, Good(T), NEW k \in Keys, NEW v \in Value \cup {"nil"}, ~MustRehash(T, k)
  PROVE  Good(luaH_newkey(T, k, v))
<1> DEFINE N == sizenode(T)
           mp == mainposition(T, k)
           f == getfreepos(T)
           othern == mainposition(T, T.node[mp].key)
           p == FirstInChain(T, othern, {n \in DOMAIN T.node : T.node[n].next = mp})
           S == luaH_newkey(T, k, v)
<1>1. T \in Table /\ N \in Nat \ {0} /\ DOMAIN T.node = 1 .. N
  BY DEF Good, Chained, Linked, Table, sizenode, MustRehash, isdummy
<1>2. mp \in 1 .. N
  BY <1>1, MainPosition
<1>3. CASE ~MainPositionTaken(T, k)
  <2> HIDE DEF mp, S, N
  <2>1. TakesPlace(T, k, v, mp, S)
    BY <1>1, <1>2, <1>3, NewKeyTakes DEF mp, S, N
  <2> QED BY <1>2, <2>1, PlaceTaken DEF mp, S, N
<1>4. CASE MainPositionTaken(T, k)
  <2>1. Free(T, f)
    BY <1>4, FreePosition DEF MustRehash, Free
  <2>2. T.node[mp].val # "nil"
    BY <1>4 DEF MainPositionTaken
  <2>3. T.node[mp].key \in Keys
    BY <1>2, <2>2 DEF Good, Used
  <2> HIDE DEF mp, S, N, f
  <2>4. f \in 1 .. N /\ f # mp
    BY <2>1, <2>3, KeysApart DEF Free, N
  <2>5. othern \in 1 .. N
    BY <1>1, <2>3, MainPosition DEF N
  <2>6. CASE othern = mp
    <3>1. GoesBehind(T, k, v, mp, f, S)
      BY <1>1, <1>2, <1>4, <2>4, <2>6, NewKeyGoesBehind DEF mp, f, S, N
    <3> QED BY <1>2, <2>1, <2>2, <2>6, <3>1, BehindOther DEF mp, N, S
  <2>7. CASE othern # mp
    <3> HIDE DEF othern
    <3>1. p \in 0 .. N /\ Goal(p, {n \in DOMAIN T.node : T.node[n].next = mp})
      <4>1. othern \in 0 .. N
        BY <1>1, <2>5
      <4> QED BY <4>1, Search DEF Good, N
    <3>2. Precedes(T, p, mp)
      BY <3>1 DEF Precedes, Goal, N
    <3> HIDE DEF p
    <3>3. MovesOther(T, k, v, mp, f, p, S)
      BY <1>1, <1>2, <1>4, <2>4, <2>7, <3>1, NewKeyMoves DEF mp, f, othern, p, S, N
    <3> QED BY <1>2, <2>1, <2>2, <2>7, <3>2, <3>3, OtherMoved DEF mp, othern, N, S
  <2> QED BY <2>6, <2>7
<1> QED BY <1>3, <1>4

-----------------------------------------------------------------------------
(* luaH_set.                                                               *)

\* The parts change together.
LEMMA WithArray ==
  ASSUME NEW T \in Table, NEW a \in Seq(Value \cup {"nil"}), NEW S, S = [T EXCEPT !.array = a]
  PROVE  /\ S \in Table /\ S.array = a /\ S.node = T.node /\ S.lastfree = T.lastfree
         /\ sizenode(S) = sizenode(T) /\ sizearray(S) = Len(a)
<1>1. T = [array |-> T.array, node |-> T.node, lastfree |-> T.lastfree]
  BY DEF Table
<1>2. S = [array |-> a, node |-> T.node, lastfree |-> T.lastfree]
  BY <1>1
<1> QED BY <1>2 DEF Table, sizenode, sizearray

\* A table with the nodes of a good one is good when its array is.
LEMMA SameNodes ==
  ASSUME NEW T, Good(T), NEW S \in Table, S.node = T.node, S.lastfree = T.lastfree, Numbered(S)
  PROVE  Good(S)
<1>1. sizenode(S) = sizenode(T) /\ \A k : mainposition(S, k) = mainposition(T, k)
  BY DEF sizenode, mainposition
<1>2. Chained(S)
  <2>1. PICK r : Ranks(T, r)
    BY DEF Good, Chained
  <2>2. Ranks(S, r)
    BY <1>1, <2>1 DEF Ranks
  <2>3. Linked(S)
    BY <1>1 DEF Good, Chained, Linked
  <2> QED BY <2>2, <2>3 DEF Chained
<1>3. Used(S) /\ Keyed(S) /\ Behind(S)
  BY <1>1 DEF Good, Used, Keyed, Behind
<1>4. Homes(S)
  BY <1>1 DEF Good, Homes, AtHome
<1> QED BY <1>2, <1>3, <1>4 DEF Good

LEMMA SetInArray ==
  ASSUME NEW T, Good(T), NEW k \in Keys, InArray(T, k), NEW v \in Value \cup {"nil"}
  PROVE  Good([T EXCEPT !.array[k.v] = v])
<1> DEFINE a == [T.array EXCEPT ![k.v] = v]
           S == [T EXCEPT !.array = a]
           M == Len(T.array)
<1>1. T \in Table /\ T.array \in Seq(Value \cup {"nil"}) /\ M \in Nat
  BY DEF Good, Chained, Linked, Table
<1>2. k.v \in 1 .. M /\ k.v \in Number
  <2>1. k.tt = "LUA_TNUMINT"
    BY DEF InArray, ttisinteger
  <2>2. \E n \in Number : k = IntKey(n)
    BY <2>1 DEF Keys, Objects
  <2> QED BY <2>2 DEF IntKey, InArray, sizearray
<1>3. a \in Seq(Value \cup {"nil"}) /\ Len(a) = M
  BY <1>1, <1>2
<1>4. \A i \in 1 .. M : a[i] = IF i = k.v THEN v ELSE T.array[i]
  BY <1>1, <1>2
<1> HIDE DEF a
<1>5. /\ S \in Table /\ S.array = a /\ S.node = T.node /\ S.lastfree = T.lastfree /\ sizearray(S) = M
  BY <1>1, <1>3, WithArray
<1>6. Numbered(S)
  <2>1. \A i \in 1 .. M : T.array[i] # "nil" => i \in Number
    BY DEF Good, Numbered, sizearray
  <2> HIDE DEF S
  <2> QED BY <1>2, <1>4, <1>5, <2>1 DEF Numbered
<1>7. Good(S)
  <2> HIDE DEF S
  <2> QED BY <1>5, <1>6, SameNodes
<1> QED BY <1>7 DEF a

LEMMA SetInNode ==
  ASSUME NEW T, Good(T), NEW n \in 1 .. sizenode(T), T.node[n].key \in Keys, NEW v \in Value \cup {"nil"}
  PROVE  Good(SetVal(T, n, v))
<1> DEFINE N == sizenode(T)
           S == SetVal(T, n, v)
<1>1. T \in Table
  BY DEF Good, Chained, Linked
<1>2. Changed(T, n, Entry(T.node[n].key, v, T.node[n].next), S)
  BY <1>1, SetValChanges
<1> HIDE DEF S, N
<1>3. \A m \in 1 .. N : /\ S.node[m].key = T.node[m].key /\ S.node[m].next = T.node[m].next
                        /\ m # n => S.node[m].val = T.node[m].val
  BY <1>2 DEF Changed, Entry, N
<1>4. S \in Table /\ sizenode(S) = N /\ sizearray(S) = sizearray(T) /\ S.array = T.array /\ S.lastfree = T.lastfree
  BY <1>2 DEF Changed, N
<1>5. \A k : mainposition(S, k) = mainposition(T, k)
  BY <1>4, MainPositionStays DEF N
<1>6. Chained(S)
  <2>1. PICK r : Ranks(T, r)
    BY DEF Good, Chained
  <2>2. Ranks(S, r)
    BY <1>3, <1>4, <2>1 DEF Ranks, N
  <2>3. Linked(S)
    BY <1>3, <1>4 DEF Good, Chained, Linked, N
  <2> QED BY <2>2, <2>3 DEF Chained
<1>7. Used(S)
  BY <1>3, <1>4 DEF Good, Used, N
<1>8. Keyed(S)
  BY <1>3, <1>4 DEF Good, Keyed, N
<1>9. \A m \in 1 .. N : T.node[m].next \in 0 .. N
  BY DEF Good, Chained, Linked, N
<1>10. N \in Nat
  BY <1>1 DEF Table, N, sizenode
<1>11. Behind(S)
  <2>1. ASSUME NEW m \in 1 .. N, T.node[m].next # 0
        PROVE  S.node[T.node[m].next].key # nil
    <3>1. T.node[m].next \in 1 .. N
      BY <1>9, <1>10, <2>1
    <3>2. T.node[T.node[m].next].key # nil
      BY <2>1 DEF Good, Behind, N
    <3> QED BY <1>3, <3>1, <3>2
  <2> QED BY <1>3, <1>4, <2>1 DEF Behind
<1>12. Homes(S)
  <2>1. ASSUME NEW m \in 1 .. N, T.node[m].key \in Keys
        PROVE  AtHome(S, mainposition(T, T.node[m].key))
    <3> DEFINE h == mainposition(T, T.node[m].key)
    <3>1. AtHome(T, h) /\ h \in 1 .. N
      <4>1. N # 0
        BY <1>10, <2>1
      <4> QED BY <1>10, <2>1, <4>1, MainPosition DEF Good, Homes, N
    <3> HIDE DEF h
    <3>2. AtHome(S, h)
      BY <1>3, <1>5, <3>1 DEF AtHome
    <3> QED BY <3>2 DEF h
  <2> QED BY <1>3, <1>4, <1>5, <2>1 DEF Homes
<1>13. Numbered(S)
  BY <1>4 DEF Good, Numbered
<1> QED BY <1>6, <1>7, <1>8, <1>11, <1>12, <1>13 DEF Good, S

\* FindNode finds the key, if anything.
LEMMA NodeFound ==
  ASSUME NEW T, Good(T), NEW k \in Keys \cup {IntKey(n) : n \in Nat}
  PROVE  /\ FindNode(T, k) \in 0 .. sizenode(T)
         /\ FindNode(T, k) # 0 => T.node[FindNode(T, k)].key = k
<1> DEFINE A == {n \in DOMAIN T.node : T.node[n].key = k}
           N == sizenode(T)
<1>1. N \in Nat /\ DOMAIN T.node = 1 .. N
  BY DEF Good, Chained, Linked, Table, sizenode
<1>2. CASE isdummy(T)
  BY <1>1, <1>2 DEF FindNode
<1>3. CASE ~isdummy(T)
  <2>1. N \in Nat \ {0}
    BY <1>1, <1>3 DEF Good, Chained, Linked, Table, isdummy, sizenode
  <2>2. mainposition(T, k) \in 0 .. N
    BY <2>1, MainPosition
  <2>3. FindNode(T, k) = FirstInChain(T, mainposition(T, k), A)
    BY <1>3 DEF FindNode
  <2> HIDE DEF A
  <2>4. FindNode(T, k) \in 0 .. N /\ Goal(FindNode(T, k), A)
    BY <2>2, <2>3, Search DEF Good
  <2> QED BY <2>4 DEF Goal, A
<1> QED BY <1>2, <1>3

LEMMA SetGood ==
  ASSUME NEW T, Good(T), NEW k \in Keys, NEW v \in Value \cup {"nil"}
  PROVE  Good(luaH_set(T, k, v))
<1>1. CASE InArray(T, k)
  BY <1>1, SetInArray DEF luaH_set
<1>2. CASE ~InArray(T, k) /\ FindNode(T, k) # 0
  <2> DEFINE n == FindNode(T, k)
  <2>1. n \in 1 .. sizenode(T) /\ T.node[n].key \in Keys
    <3>1. sizenode(T) \in Nat
      BY DEF Good, Chained, Linked, Table, sizenode
    <3> QED BY <1>2, <3>1, NodeFound
  <2>2. luaH_set(T, k, v) = SetVal(T, n, v)
    BY <1>2 DEF luaH_set
  <2> HIDE DEF n
  <2> QED BY <2>1, <2>2, SetInNode
<1>3. CASE ~InArray(T, k) /\ FindNode(T, k) = 0 /\ MustRehash(T, k)
  BY <1>3 DEF luaH_set
<1>4. CASE ~InArray(T, k) /\ FindNode(T, k) = 0 /\ ~MustRehash(T, k)
  BY <1>4, NewKey DEF luaH_set
<1> QED BY <1>1, <1>2, <1>3, <1>4

-----------------------------------------------------------------------------
(* New parts, and the fields put into them.                                *)

\* The array part of another size.
LEMMA ArrayVector ==
  ASSUME NEW T \in Table, Numbered(T), NEW size \in Nat
  PROVE  LET S == setarrayvector(T, size)
         IN  /\ S \in Table /\ S.node = T.node /\ S.lastfree = T.lastfree
             /\ sizearray(S) = size /\ Numbered(S)
             /\ \A i \in 1 .. size : S.array[i] = IF i <= sizearray(T) THEN T.array[i] ELSE "nil"
<1> DEFINE M == sizearray(T)
           a == [i \in 1 .. size |-> IF i <= M THEN T.array[i] ELSE "nil"]
           S == setarrayvector(T, size)
<1>1. T.array \in Seq(Value \cup {"nil"}) /\ M \in Nat /\ M = Len(T.array)
  BY DEF Table, sizearray
<1>2. \A i \in 1 .. size : i <= M => i \in 1 .. M /\ T.array[i] \in Value \cup {"nil"}
  BY <1>1
<1>3. a \in [1 .. size -> Value \cup {"nil"}]
  BY <1>2
<1>4. a \in Seq(Value \cup {"nil"}) /\ Len(a) = size
  BY <1>3
<1>5. S = [T EXCEPT !.array = a]
  BY DEF setarrayvector
<1>6. /\ \A i \in 1 .. size : a[i] # "nil" => i \in 1 .. M /\ a[i] = T.array[i]
      /\ \A i \in 1 .. size : a[i] = IF i <= M THEN T.array[i] ELSE "nil"
  BY <1>2
<1> HIDE DEF a, S, M
<1>7. S \in Table /\ S.array = a /\ S.node = T.node /\ S.lastfree = T.lastfree /\ sizearray(S) = size
  BY <1>4, <1>5, WithArray
<1>8. Numbered(S)
  BY <1>6, <1>7 DEF Numbered, M
<1> QED BY <1>6, <1>7, <1>8 DEF S, M

\* A power of two is above its exponent.
LEMMA PowerAbove ==
  ASSUME NEW n \in Nat
  PROVE  2^n \in Nat /\ n <= 2^n /\ 2^n # 0
<1> DEFINE power == [i \in 0 .. n |-> 2^i]
           Above == [i \in 0 .. n |-> {m \in Nat : i <= m /\ m # 0}]
<1>1. power[0] \in Above[0]
  <2>1. 2^0 = 1
    OBVIOUS
  <2> QED BY <2>1
<1>2. ASSUME NEW i \in 1 .. n, power[i - 1] \in Above[i - 1]
      PROVE  power[i] \in Above[i]
  <2>1. i - 1 \in 0 .. n /\ i \in 0 .. n /\ i - 1 \in Nat /\ (i - 1) + 1 = i
    OBVIOUS
  <2>2. 2^(i - 1) \in Nat /\ i - 1 <= 2^(i - 1) /\ 2^(i - 1) # 0
    BY <1>2, <2>1
  <2>3. 2^i = 2^(i - 1) + 2^(i - 1)
    BY <2>1, PowerOfTwo
  <2> QED BY <2>1, <2>2, <2>3
<1>3. power[n] \in Above[n]
  <2>1. \A i \in 0 .. n : power[i] \in Above[i]
    <3> HIDE DEF power, Above
    <3> QED BY <1>1, <1>2, Inductively
  <2> HIDE DEF power, Above
  <2> QED BY <2>1
<1> QED BY <1>3

\* The exponent of a size.
LEMMA CeilLog2 ==
  ASSUME NEW n \in Nat \ {0}
  PROVE  luaO_ceillog2(n) \in 0 .. n /\ n <= 2^luaO_ceillog2(n)
<1> DEFINE A == {i \in 0 .. n : n <= 2^i}
<1>3. 2^n \in Nat /\ n <= 2^n
  BY PowerAbove
<1>4. n \in A
  BY <1>3
<1>5. PICK i \in A : \A m \in A : i <= m
  <2>1. A \in SUBSET Nat /\ A # {}
    BY <1>4
  <2> HIDE DEF A
  <2> QED BY <2>1, Least
<1>6. i \in 0 .. n /\ n <= 2^i /\ (i = 0 \/ 2^(i - 1) < n)
  <2>1. i \in 0 .. n /\ n <= 2^i
    OBVIOUS
  <2>2. ASSUME i # 0
        PROVE  2^(i - 1) < n
    <3>1. i - 1 \in 0 .. n /\ i - 1 \notin A
      BY <1>5, <2>1, <2>2
    <3>2. 2^(i - 1) \in Nat
      BY <3>1, PowerOfTwo
    <3> QED BY <3>1, <3>2
  <2> QED BY <2>1, <2>2
<1> HIDE DEF A
<1> QED BY <1>6 DEF luaO_ceillog2

\* The hash part of another size is empty, and has at least that size.
LEMMA NodeVector ==
  ASSUME NEW T \in Table, Numbered(T), NEW size \in Nat
  PROVE  LET S == setnodevector(T, size)
         IN  /\ Good(S) /\ S.array = T.array /\ sizenode(S) >= size
             /\ \A n \in 1 .. sizenode(S) : S.node[n] = Entry(nil, "nil", 0)
<1> DEFINE S == setnodevector(T, size)
           N == 2^luaO_ceillog2(size)
           e == Entry(nil, "nil", 0)
           nodes == [i \in 1 .. N |-> e]
<1>1. /\ S \in Table /\ S.array = T.array
      /\ sizenode(S) \in Nat /\ S.lastfree <= sizenode(S) + 1 /\ sizenode(S) >= size
      /\ \A n \in 1 .. sizenode(S) : S.node[n] = e /\ n < S.lastfree
  <2>1. CASE size = 0
    <3>1. S = [array |-> T.array, node |-> <<>>, lastfree |-> 0]
      BY <2>1 DEF setnodevector
    <3> HIDE DEF S
    <3>2. T.array \in Seq(Value \cup {"nil"}) /\ <<>> \in Seq(Node)
      BY DEF Table
    <3>3. S \in Table
      BY <3>1, <3>2 DEF Table
    <3>4. sizenode(S) = 0 /\ S.lastfree = 0 /\ S.array = T.array
      BY <3>1 DEF sizenode
    <3>5. \A n \in 1 .. 0 : FALSE
      OBVIOUS
    <3> HIDE DEF e
    <3> QED BY <2>1, <3>3, <3>4, <3>5
  <2>2. CASE size # 0
    <3>1. S = [array |-> T.array, node |-> nodes, lastfree |-> N + 1]
      BY <2>2 DEF setnodevector, Entry
    <3>2. N \in Nat /\ N >= size
      BY <2>2, CeilLog2, PowerOfTwo
    <3>3. e \in Node
      BY DEF Entry, Node
    <3> HIDE DEF N, e
    <3>4. nodes \in Seq(Node) /\ Len(nodes) = N /\ \A n \in 1 .. N : nodes[n] = e
      BY <3>2, <3>3
    <3> HIDE DEF S, nodes
    <3>5. S.array = T.array /\ S.node = nodes /\ S.lastfree = N + 1
      BY <3>1
    <3>6. S \in Table
      BY <3>1, <3>2, <3>4 DEF Table
    <3> QED BY <3>2, <3>4, <3>5, <3>6 DEF sizenode
  <2> QED BY <2>1, <2>2
<1> HIDE DEF S
<1>2. \A n \in 1 .. sizenode(S) : S.node[n].key = nil /\ S.node[n].val = "nil" /\ S.node[n].next = 0
  BY <1>1 DEF Entry
<1>3. Chained(S)
  <2> DEFINE r == [n \in 0 .. sizenode(S) |-> IF n = 0 THEN 0 ELSE 1]
  <2>1. r \in [0 .. sizenode(S) -> Nat] /\ r[0] = 0
    BY <1>1
  <2>2. \A n \in 1 .. sizenode(S) : r[n] = 1
    BY <1>1
  <2> HIDE DEF r
  <2>3. Ranks(S, r)
    BY <1>2, <2>1, <2>2 DEF Ranks
  <2>4. Linked(S)
    BY <1>1, <1>2 DEF Linked
  <2> QED BY <2>3, <2>4 DEF Chained
<1>4. Used(S) /\ Behind(S)
  BY <1>2 DEF Used, Behind
<1>5. Keyed(S)
  <2>1. S.lastfree \in Nat
    BY <1>1 DEF Table
  <2> QED BY <1>1, <2>1 DEF Keyed
<1>6. Homes(S)
  BY <1>2, KeysApart DEF Homes
<1>7. Numbered(S)
  BY <1>1 DEF Numbered, sizearray
<1> QED BY <1>1, <1>3, <1>4, <1>5, <1>6, <1>7 DEF Good, S

\* Entries are put in one after the other.
LEMMA ReinsertedIn ==
  ASSUME NEW T, NEW es, Len(es) \in Nat, NEW Gs, T \in Gs[0],
         \A i \in 1 .. Len(es) : \A S \in Gs[i - 1] : Reinsert(S, es[i]) \in Gs[i]
  PROVE  ReinsertAll(T, es) \in Gs[Len(es)]
<1> DEFINE n == Len(es)
           step == [i \in 1 .. n |-> [S \in Gs[i - 1] |-> Reinsert(S, es[i])]]
           up == CHOOSE up : up = [i \in 0 .. n |-> IF i = 0 THEN T ELSE Reinsert(up[i - 1], es[i])]
<1>1. ReinsertAll(T, es) = up[n]
  BY DEF ReinsertAll
<1> HIDE DEF n
<1>2. n \in Nat
  BY DEF n
<1>3. ASSUME NEW i \in 1 .. n, NEW S \in Gs[i - 1]
      PROVE  Reinsert(S, es[i]) \in Gs[i]
  BY DEF n
<1>4. PICK f : /\ f = [i \in 0 .. n |-> IF i = 0 THEN T ELSE step[i][f[i - 1]]]
               /\ \A i \in 0 .. n : f[i] \in Gs[i]
  <2>1. ASSUME NEW i \in 1 .. n, NEW S \in Gs[i - 1]
        PROVE  step[i][S] \in Gs[i]
    <3>1. step[i][S] = Reinsert(S, es[i])
      OBVIOUS
    <3> HIDE DEF step
    <3> QED BY <1>3, <3>1
  <2> HIDE DEF step
  <2>2. Stepwise(n, T, step, Gs)
    BY <1>2, <2>1, Stepped
  <2> QED BY <2>2 DEF Stepwise
<1>5. f = [i \in 0 .. n |-> IF i = 0 THEN T ELSE Reinsert(f[i - 1], es[i])]
  <2>1. ASSUME NEW i \in 0 .. n, i # 0
        PROVE  step[i][f[i - 1]] = Reinsert(f[i - 1], es[i])
    <3>1. i \in 1 .. n /\ i - 1 \in 0 .. n
      BY <1>2, <2>1
    <3>2. f[i - 1] \in Gs[i - 1]
      BY <1>4, <3>1
    <3> QED BY <3>1, <3>2
  <2> DEFINE h == [i \in 0 .. n |-> IF i = 0 THEN T ELSE Reinsert(f[i - 1], es[i])]
             g == [i \in 0 .. n |-> IF i = 0 THEN T ELSE step[i][f[i - 1]]]
  <2> HIDE DEF step
  <2>2. \A i \in 0 .. n : g[i] = h[i]
    BY <2>1
  <2>3. g = h
    <3>1. g = [i \in 0 .. n |-> g[i]] /\ h = [i \in 0 .. n |-> h[i]]
      OBVIOUS
    <3> HIDE DEF g, h
    <3> QED BY <2>2, <3>1
  <2> QED BY <1>4, <2>3
<1>6. up = [i \in 0 .. n |-> IF i = 0 THEN T ELSE Reinsert(up[i - 1], es[i])]
  BY <1>5
<1> HIDE DEF up
<1>7. up[0] \in Gs[0]
  BY <1>2, <1>6
<1>8. ASSUME NEW i \in 1 .. n, up[i - 1] \in Gs[i - 1]
      PROVE  up[i] \in Gs[i]
  <2>1. i \in 0 .. n /\ i # 0
    BY <1>2
  <2>2. up[i] = Reinsert(up[i - 1], es[i])
    BY <1>6, <2>1
  <2> QED BY <1>3, <1>8, <2>2
<1>9. \A i \in 0 .. n : up[i] \in Gs[i]
  BY <1>2, <1>7, <1>8, Inductively
<1>10. up[n] \in Gs[n]
  BY <1>2, <1>9
<1> QED BY <1>1, <1>10 DEF n

\* They leave a good table.
Sound(e) == e.val \in Value \cup {"nil"} /\ (e.val # "nil" => e.key \in Keys)
LEMMA Reinserted ==
  ASSUME NEW T, Good(T), NEW es, Len(es) \in Nat, \A i \in 1 .. Len(es) : Sound(es[i])
  PROVE  Good(ReinsertAll(T, es))
<1> DEFINE n == Len(es)
           Gs == [i \in 0 .. n |-> Tables]
<1>1. n \in Nat /\ \A i \in 1 .. n : Sound(es[i])
  OBVIOUS
<1> HIDE DEF n
<1>2. ASSUME NEW i \in 1 .. n, NEW S \in Tables
      PROVE  Reinsert(S, es[i]) \in Tables
  <2> DEFINE k == es[i].key
             v == es[i].val
  <2>1. Good(S) /\ v \in Value \cup {"nil"} /\ (v # "nil" => k \in Keys)
    BY <1>1 DEF Tables, Sound
  <2>2. Reinsert(S, es[i]) = IF v = "nil" THEN S ELSE luaH_set(S, k, v)
    BY DEF Reinsert
  <2> HIDE DEF v, k
  <2>3. v # "nil" => Good(luaH_set(S, k, v))
    BY <2>1, SetGood
  <2> QED BY <2>1, <2>2, <2>3 DEF Tables, Good, Chained, Linked
<1>3. \A i \in 0 .. n : Gs[i] = Tables
  OBVIOUS
<1> HIDE DEF Gs
<1>4. T \in Gs[0]
  BY <1>1, <1>3 DEF Tables, Good, Chained, Linked
<1>5. ASSUME NEW i \in 1 .. n, NEW S \in Gs[i - 1]
      PROVE  Reinsert(S, es[i]) \in Gs[i]
  <2>1. i \in 0 .. n /\ i - 1 \in 0 .. n
    BY <1>1
  <2> QED BY <1>2, <1>3, <2>1
<1>6. ReinsertAll(T, es) \in Gs[n]
  BY <1>1, <1>4, <1>5, ReinsertedIn DEF n
<1>7. n \in 0 .. n
  BY <1>1
<1> QED BY <1>3, <1>6, <1>7 DEF Tables

\* luaH_resize leaves a good table.
LEMMA ResizeGood ==
  ASSUME NEW T, Good(T), NEW nasize \in Nat, NEW nhsize \in Nat
  PROVE  Good(luaH_resize(T, nasize, nhsize))
<1> DEFINE M == sizearray(T)
           fields == [i \in 1 .. M |-> [key |-> IntKey(i), val |-> T.array[i]]]
           slice == SubSeq(fields, nasize + 1, M)
           nodes == Reverse(T.node)
           new == setnodevector(setarrayvector(T, nasize), nhsize)
<1>1. T \in Table /\ Numbered(T) /\ M \in Nat
  BY DEF Good, Chained, Linked, Table, sizearray
<1>2. Good(new)
  BY <1>1, ArrayVector, NodeVector
<1>3. luaH_resize(T, nasize, nhsize) = ReinsertAll(new, slice \o nodes)
  BY DEF luaH_resize
<1> HIDE DEF new
<1>4. \A i \in 1 .. M : Sound(fields[i])
  <2>1. ASSUME NEW i \in 1 .. M
        PROVE  Sound(fields[i])
    <3>1. T.array[i] \in Value \cup {"nil"}
      BY <1>1 DEF Table, sizearray
    <3>2. T.array[i] # "nil" => IntKey(i) \in Keys
      BY <1>1 DEF Numbered, Keys
    <3>3. fields[i].key = IntKey(i) /\ fields[i].val = T.array[i]
      OBVIOUS
    <3> HIDE DEF fields
    <3> QED BY <3>1, <3>2, <3>3 DEF Sound
  <2> QED BY <2>1
<1> DEFINE E == {e \in {fields[i] : i \in 1 .. M} \cup {T.node[n] : n \in 1 .. sizenode(T)} : Sound(e)}
<1>5. slice \in Seq(E)
  <2>1. \A i \in 1 .. M : fields[i] \in E
    BY <1>4
  <2>2. fields \in Seq(E)
    <3> DEFINE F == [i \in 1 .. M |-> fields[i]]
    <3>1. F \in [1 .. M -> E]
      BY <2>1
    <3>2. F \in Seq(E)
      BY <1>1, <3>1
    <3>3. F = fields
      OBVIOUS
    <3> QED BY <3>2, <3>3
  <2>3. Len(fields) = M
    BY <1>1
  <2> HIDE DEF fields, E
  <2>4. \A i \in nasize + 1 .. M : fields[i] \in E
    BY <2>1
  <2> QED BY <1>1, <2>2, <2>3, <2>4, SubSeqProperties
<1>6. nodes \in Seq(E)
  <2>1. sizenode(T) \in Nat /\ sizenode(T) = Len(T.node)
    BY <1>1 DEF Table, sizenode
  <2>2. \A n \in 1 .. sizenode(T) : T.node[n] \in E
    <3>1. ASSUME NEW n \in 1 .. sizenode(T)
          PROVE  Sound(T.node[n])
      BY <1>1, Fields DEF Good, Used, Sound
    <3> QED BY <3>1
  <2> HIDE DEF E
  <2>3. \A i \in 1 .. sizenode(T) : T.node[sizenode(T) - i + 1] \in E
    <3>1. \A i \in 1 .. sizenode(T) : sizenode(T) - i + 1 \in 1 .. sizenode(T)
      BY <2>1
    <3> QED BY <2>2, <3>1
  <2> QED BY <2>1, <2>3 DEF Reverse
<1>7. slice \o nodes \in Seq(E)
  <2> HIDE DEF slice, nodes, E
  <2> QED BY <1>5, <1>6
<1>8. Len(slice \o nodes) \in Nat /\ \A i \in 1 .. Len(slice \o nodes) : Sound((slice \o nodes)[i])
  <2> DEFINE es == slice \o nodes
  <2> HIDE DEF slice, nodes
  <2>1. Len(es) \in Nat /\ \A i \in 1 .. Len(es) : es[i] \in E
    <3> HIDE DEF E, es
    <3> QED BY <1>7 DEF es
  <2> HIDE DEF es
  <2> QED BY <2>1 DEF es
<1> HIDE DEF slice, nodes, E
<1> QED BY <1>2, <1>3, <1>8, Reinserted

\* The sizes that rehash computes are numbers.
LEMMA Sizes ==
  ASSUME NEW T, Good(T), NEW k \in Keys
  PROVE  NewArraySize(T, k) \in Nat /\ NewHashSize(T, k) \in Nat
<1> DEFINE A == UsedArray(T)
           B == UsedIntNodes(T)
           C == UsedNodes(T)
           one == IF ttisinteger(k) THEN 1 ELSE 0
           pna == Cardinality(A) + Cardinality(B) + one
<1>1. T \in Table /\ sizearray(T) \in Nat /\ sizenode(T) \in Nat
  BY DEF Good, Chained, Linked, Table, sizearray, sizenode
<1>2. IsFiniteSet(1 .. sizearray(T)) /\ IsFiniteSet(1 .. sizenode(T))
  BY <1>1, FS_Interval
<1>3. IsFiniteSet(A) /\ IsFiniteSet(B) /\ IsFiniteSet(C) /\ B \subseteq C
  <2>1. A \subseteq 1 .. sizearray(T) /\ C \subseteq 1 .. sizenode(T) /\ B \subseteq C
    BY DEF UsedArray, UsedNodes, UsedIntNodes
  <2> HIDE DEF A, B, C
  <2>2. IsFiniteSet(A) /\ IsFiniteSet(C)
    BY <1>2, <2>1, FS_Subset
  <2> QED BY <2>1, <2>2, FS_Subset
<1> HIDE DEF A, B, C
<1>4. Cardinality(A) \in Nat /\ Cardinality(B) \in Nat /\ Cardinality(C) \in Nat /\ Cardinality(B) <= Cardinality(C)
  BY <1>3, FS_CardinalityType, FS_Subset
<1>5. pna \in Nat
  BY <1>4
<1>6. NewArraySize(T, k) \in Nat
  <2> DEFINE optimal == {twotoi \in {2^i : i \in 0 .. pna} :
                           /\ pna > twotoi \div 2
                           /\ CountUpTo(T, k, twotoi) > twotoi \div 2}
  <2>1. NewArraySize(T, k) = IF optimal = {} THEN 0 ELSE Max(optimal)
    BY DEF NewArraySize, computesizes, A, B
  <2> HIDE DEF pna
  <2>2. ASSUME optimal # {}
        PROVE  Max(optimal) \in Nat
    <3> DEFINE r == [i \in 0 .. pna |-> 2^i]
    <3>1. r \in [0 .. pna -> Nat]
      BY <1>5, PowerOfTwo
    <3>2. PICK R \in Nat : \A i \in 0 .. pna : r[i] <= R
      <4> HIDE DEF r
      <4> QED BY <1>5, <3>1, Bound
    <3>3. \A x \in optimal : \E i \in 0 .. pna : x = r[i]
      OBVIOUS
    <3> HIDE DEF r, optimal
    <3>4. optimal \in SUBSET (0 .. R)
      BY <3>1, <3>2, <3>3
    <3>5. Max(optimal) \in optimal
      BY <2>2, <3>4, Largest
    <3>6. \A x \in 0 .. R : x \in Nat
      BY <3>2
    <3>7. \A x \in optimal : x \in 0 .. R
      BY <3>4
    <3> QED BY <3>5, <3>6, <3>7, Zenon
  <2> QED BY <2>1, <2>2
<1>7. NewHashSize(T, k) \in Nat
  <2> DEFINE n == NewArraySize(T, k)
             A2 == {i \in A : i <= n}
             B2 == {i \in B : T.node[i].key.v <= n}
             one2 == IF ttisinteger(k) /\ k.v <= n THEN 1 ELSE 0
  <2>1. NewHashSize(T, k) = Cardinality(A) + Cardinality(C) + 1 - (Cardinality(A2) + Cardinality(B2) + one2)
    BY DEF NewHashSize, CountUpTo, A, B, C
  <2>2. Cardinality(A2) <= Cardinality(A) /\ Cardinality(A2) \in Nat
    <3>1. A2 \subseteq A
      OBVIOUS
    <3> HIDE DEF A2
    <3> QED BY <1>3, <3>1, FS_Subset, FS_CardinalityType
  <2>3. Cardinality(B2) <= Cardinality(B) /\ Cardinality(B2) \in Nat
    <3>1. B2 \subseteq B
      OBVIOUS
    <3> HIDE DEF B2
    <3> QED BY <1>3, <3>1, FS_Subset, FS_CardinalityType
  <2>4. one2 \in {0, 1}
    OBVIOUS
  <2> HIDE DEF A2, B2, one2
  <2> QED BY <1>4, <2>1, <2>2, <2>3, <2>4
<1> QED BY <1>6, <1>7

LEMMA RehashGood ==
  ASSUME NEW T, Good(T), NEW k \in Keys
  PROVE  Good(rehash(T, k))
BY Sizes, ResizeGood DEF rehash

\* When there is no memory for a part the table is good, too.
LEMMA FailedGood ==
  ASSUME NEW T, Good(T), NEW k \in Keys, MustRehash(T, k), NEW S \in TablesAfterError(T, k)
  PROVE  Good(S)
<1> DEFINE searched == IF isdummy(T) THEN T ELSE [T EXCEPT !.lastfree = 1]
           size == NewArraySize(T, k)
<1>1. T \in Table /\ Numbered(T) /\ size \in Nat
  BY Sizes DEF Good, Chained, Linked
<1>2. Good(searched)
  <2>1. CASE isdummy(T)
    BY <2>1
  <2>2. CASE ~isdummy(T)
    <3> DEFINE U == [T EXCEPT !.lastfree = 1]
    <3>1. /\ U \in Table /\ U.array = T.array /\ U.node = T.node /\ U.lastfree = 1
          /\ sizenode(U) = sizenode(T) /\ sizearray(U) = sizearray(T)
      BY <1>1, Searched
    <3> HIDE DEF U
    <3>2. \A k2 : mainposition(U, k2) = mainposition(T, k2)
      BY <3>1, MainPositionStays
    <3>3. Chained(U)
      <4>1. PICK r : Ranks(T, r)
        BY DEF Good, Chained
      <4>2. Ranks(U, r)
        BY <3>1, <4>1 DEF Ranks
      <4>3. Linked(U)
        BY <3>1 DEF Good, Chained, Linked
      <4> QED BY <4>2, <4>3 DEF Chained
    <3>4. Used(U) /\ Behind(U) /\ Numbered(U)
      BY <3>1 DEF Good, Used, Behind, Numbered
    <3>5. Homes(U)
      BY <3>1, <3>2 DEF Good, Homes, AtHome
    <3>6. Keyed(U)
      <4>1. FreeNodes(T) = {}
        BY <2>2 DEF MustRehash
      <4>2. sizenode(T) \in Nat /\ T.lastfree \in Nat
        BY <1>1 DEF Table, sizenode
      <4>3. ASSUME NEW n \in 1 .. sizenode(T)
            PROVE  T.node[n].key # nil
        <5>1. CASE n < T.lastfree
          BY <4>1, <4>2, <5>1 DEF FreeNodes
        <5>2. CASE n >= T.lastfree
          BY <5>2 DEF Good, Keyed
        <5> QED BY <4>2, <5>1, <5>2
      <4> QED BY <3>1, <4>2, <4>3 DEF Keyed
    <3>7. Good(U)
      BY <3>3, <3>4, <3>5, <3>6 DEF Good
    <3> QED BY <2>2, <3>7 DEF U
  <2> QED BY <2>1, <2>2
<1>3. S = searched \/ S = setarrayvector(searched, size)
  BY DEF TablesAfterError
<1> HIDE DEF searched, size
<1>4. searched \in Table /\ Numbered(searched)
  BY <1>2 DEF Good, Chained, Linked
<1>5. CASE S = setarrayvector(searched, size)
  BY <1>1, <1>2, <1>4, <1>5, ArrayVector, SameNodes
<1> QED BY <1>2, <1>3, <1>5

-----------------------------------------------------------------------------
(* The invariant holds.                                                    *)

\* A table of luaH_new, with the sizes given to lua_createtable.
LEMMA NewGood ==
  ASSUME NEW na \in Nat, NEW nh \in Nat
  PROVE  Good(setnodevector(setarrayvector([array |-> <<>>, node |-> <<>>, lastfree |-> 0], na), nh))
<1> DEFINE T == [array |-> <<>>, node |-> <<>>, lastfree |-> 0]
<1>1. T.array = <<>> /\ T.array \in Seq(Value \cup {"nil"}) /\ T.node \in Seq(Node) /\ T.lastfree \in Nat
  OBVIOUS
<1>2. T \in Table
  <2>1. T = [array |-> T.array, node |-> T.node, lastfree |-> T.lastfree]
    OBVIOUS
  <2> HIDE DEF T
  <2> QED BY <1>1, <2>1 DEF Table
<1>3. Numbered(T)
  BY <1>1 DEF Numbered, sizearray
<1> HIDE DEF T
<1>4. LET U == setarrayvector(T, na)
      IN  U \in Table /\ Numbered(U)
  BY <1>2, <1>3, ArrayVector
<1>5. Good(setnodevector(setarrayvector(T, na), nh))
  BY <1>4, NodeVector
<1> QED BY <1>5 DEF T

\* The collector makes the key of an empty entry a dead key.
Removed(T, i, S) ==
  /\ Good(S) /\ sizenode(S) = sizenode(T) /\ sizearray(S) = sizearray(T) /\ S.array = T.array
  /\ \A n \in 1 .. sizenode(T) : S.node[n].next = T.node[n].next /\ (n # i => S.node[n] = T.node[n])
  /\ S.node[i].key = DeadKey(T.node[i].key.v) /\ T.node[i].key \in Objects

LEMMA EntryRemoved ==
  ASSUME NEW T, Good(T), NEW i \in DOMAIN T.node, T.node[i].val = "nil", iscollectable(T.node[i].key)
  PROVE  Removed(T, i, SetNode(T, i, [T.node[i] EXCEPT !.key = DeadKey(@.v)]))
<1> DEFINE N == sizenode(T)
           a == T.node[i].key.v
           e == Entry(DeadKey(a), "nil", T.node[i].next)
           S == SetNode(T, i, [T.node[i] EXCEPT !.key = DeadKey(@.v)])
<1>1. T \in Table /\ N \in Nat /\ i \in 1 .. N
  BY DEF Good, Chained, Linked, Table, sizenode
<1>2. /\ T.node[i] = Entry(T.node[i].key, "nil", T.node[i].next)
      /\ T.node[i].key \in NodeKeys /\ T.node[i].next \in Nat
  BY <1>1, Fields
<1>3. T.node[i].key \in Objects /\ a \in Address
  <2> DEFINE k == T.node[i].key
  <2>1. k.tt \in {"LUA_TSHRSTR", "LUA_TTABLE"}
    BY DEF iscollectable
  <2> HIDE DEF k
  <2>2. k \in NodeKeys
    BY <1>2 DEF k
  <2>3. k \in Objects
    BY <2>1, <2>2 DEF NodeKeys, Keys, IntKey, DeadKey, nil
  <2>4. k.v \in Address
    BY <2>3 DEF Objects
  <2> QED BY <2>3, <2>4 DEF k
<1>4. [T.node[i] EXCEPT !.key = DeadKey(@.v)] = e
  <2>1. [T.node[i] EXCEPT !.key = DeadKey(@.v)] = [T.node[i] EXCEPT !.key = DeadKey(a)]
    OBVIOUS
  <2> QED BY <1>2, <2>1 DEF Entry
<1>5. e \in Node
  BY <1>2, <1>3 DEF Entry, Node
<1>6. S = SetNode(T, i, e)
  BY <1>4
<1> HIDE DEF e, S, N
<1>7. Changed(T, i, e, S)
  BY <1>1, <1>5, <1>6, SetNodeChanges
<1>8. /\ S \in Table /\ sizenode(S) = N /\ sizearray(S) = sizearray(T) /\ S.array = T.array /\ S.lastfree = T.lastfree
      /\ \A n \in 1 .. N : n # i => S.node[n] = T.node[n]
      /\ S.node[i].key = DeadKey(a) /\ S.node[i].val = "nil" /\ S.node[i].next = T.node[i].next
  BY <1>1, <1>7 DEF Changed, Entry, e, N
<1>9. \A n \in 1 .. N : S.node[n].next = T.node[n].next /\ (S.node[n].key # nil <=> T.node[n].key # nil)
  <2>1. T.node[i].key # nil
    BY <1>3, KeysApart DEF Keys
  <2>2. S.node[i].key # nil
    BY <1>8, KeysApart
  <2> QED BY <1>8, <2>1, <2>2
<1>10. \A k : mainposition(S, k) = mainposition(T, k)
  BY <1>8, MainPositionStays DEF N
<1>11. DeadKey(a) \notin Keys
  BY KeysApart
<1>12. Chained(S)
  <2>1. PICK r : Ranks(T, r)
    BY DEF Good, Chained
  <2>2. Ranks(S, r)
    BY <1>8, <1>9, <2>1 DEF Ranks, N
  <2>3. Linked(S)
    BY <1>8, <1>9 DEF Good, Chained, Linked, N
  <2> QED BY <2>2, <2>3 DEF Chained
<1>13. Used(S)
  BY <1>8 DEF Good, Used, N
<1>14. Keyed(S)
  BY <1>8, <1>9 DEF Good, Keyed, N
<1>15. Behind(S)
  <2>1. ASSUME NEW m \in 1 .. N, T.node[m].next # 0
        PROVE  S.node[T.node[m].next].key # nil
    <3>1. T.node[m].next \in 1 .. N
      BY <1>1, <2>1 DEF Good, Chained, Linked, N
    <3>2. T.node[T.node[m].next].key # nil
      BY <2>1 DEF Good, Behind, N
    <3> QED BY <1>9, <3>1, <3>2
  <2> QED BY <1>8, <1>9, <2>1 DEF Behind
<1>16. Homes(S)
  <2>1. ASSUME NEW m \in 1 .. N, S.node[m].key \in Keys
        PROVE  AtHome(S, mainposition(T, S.node[m].key))
    <3> DEFINE h == mainposition(T, S.node[m].key)
    <3>1. S.node[m] = T.node[m]
      BY <1>8, <1>11, <2>1
    <3>2. AtHome(T, h) /\ h \in 1 .. N
      <4>1. N # 0
        BY <1>1
      <4> QED BY <1>1, <2>1, <3>1, <4>1, MainPosition DEF Good, Homes, N
    <3> HIDE DEF h
    <3>3. AtHome(S, h)
      BY <1>8, <1>9, <1>10, <1>11, <3>2 DEF AtHome
    <3> QED BY <3>3 DEF h
  <2> QED BY <1>8, <1>10, <2>1 DEF Homes
<1>17. Numbered(S)
  BY <1>8 DEF Good, Numbered
<1>18. Good(S)
  BY <1>12, <1>13, <1>14, <1>15, <1>16, <1>17 DEF Good
<1> QED BY <1>3, <1>8, <1>9, <1>18 DEF Removed, S, N

\* The invariant: the table is good, and the traversal is at a key of the
\* program.
IInv ==
  /\ Good(t)
  /\ objects \subseteq Objects
  /\ key \in Keys \cup {nil, NoTraversal, Invalid}

\* A finite set of numbers has a smallest one.
LEMMA Smallest ==
  ASSUME NEW A \in SUBSET Nat, A # {}
  PROVE  Min(A) \in A /\ \A n \in A : Min(A) <= n
<1>1. \E n \in A : \A m \in A : n <= m
  BY Least
<1> QED BY <1>1 DEF Min

\* A traversal knows where it is.
LEMMA IndexFound ==
  ASSUME NEW T, Good(T), NEW k \in Keys \cup {nil}
  PROVE  findindex(T, k) \in 0 .. sizearray(T) + sizenode(T) \cup {-1}
<1> DEFINE A == {i \in DOMAIN T.node : T.node[i].key \in {k} \cup IF iscollectable(k) THEN {DeadKey(k.v)} ELSE {}}
           N == sizenode(T)
           M == sizearray(T)
           n == IF isdummy(T) THEN 0 ELSE FirstInChain(T, mainposition(T, k), A)
<1>1. N \in Nat /\ M \in Nat
  BY DEF Good, Chained, Linked, Table, sizenode, sizearray
<1>2. ASSUME k \in Keys
      PROVE  n \in 0 .. N
  <2>1. CASE isdummy(T)
    BY <1>1, <2>1
  <2>2. CASE ~isdummy(T)
    <3>1. N \in Nat \ {0}
      BY <1>1, <2>2 DEF Good, Chained, Linked, Table, isdummy, sizenode
    <3>2. mainposition(T, k) \in 0 .. N
      BY <1>2, <3>1, MainPosition
    <3> HIDE DEF A
    <3> QED BY <2>2, <3>2, Search DEF Good
  <2> QED BY <2>1, <2>2
<1>3. findindex(T, k) = IF k = nil THEN 0
                        ELSE IF InArray(T, k) THEN k.v
                        ELSE IF n = 0 THEN -1 ELSE n + M
  BY DEF findindex
<1> HIDE DEF n
<1>4. InArray(T, k) => k.v \in 1 .. M
  BY DEF InArray
<1> HIDE DEF N, M
<1> QED BY <1>1, <1>2, <1>3, <1>4 DEF N, M

\* The key of a field is one of the program's.
LEMMA FieldsKey ==
  ASSUME NEW T, Good(T), NEW i \in 1 .. sizearray(T) + sizenode(T), EntryVal(T, i) # "nil"
  PROVE  EntryKey(T, i) \in Keys
<1>1. sizearray(T) \in Nat /\ sizenode(T) \in Nat
  BY DEF Good, Chained, Linked, Table, sizenode, sizearray
<1>2. CASE i <= sizearray(T)
  <2>1. i \in 1 .. sizearray(T) /\ T.array[i] # "nil"
    BY <1>1, <1>2 DEF EntryVal
  <2>2. i \in Number
    BY <2>1 DEF Good, Numbered
  <2> QED BY <1>2, <2>2 DEF EntryKey, Keys
<1>3. CASE ~(i <= sizearray(T))
  <2>1. i - sizearray(T) \in 1 .. sizenode(T) /\ T.node[i - sizearray(T)].val # "nil"
    BY <1>1, <1>3 DEF EntryVal
  <2> QED BY <1>3, <2>1 DEF EntryKey, Good, Used
<1> QED BY <1>2, <1>3

LEMMA InitGood == Init => IInv
<1> SUFFICES ASSUME Init
             PROVE  IInv
  OBVIOUS
<1>1. PICK na \in Preallocated, nh \in Preallocated :
        t = setnodevector(setarrayvector([array |-> <<>>, node |-> <<>>, lastfree |-> 0], na), nh)
  BY DEF Init
<1>2. Good(t)
  <2>1. na \in Nat /\ nh \in Nat
    BY KeyAssumption
  <2> QED BY <1>1, <2>1, NewGood
<1> QED BY <1>2 DEF Init, IInv

LEMMA SetKeeps ==
  ASSUME IInv, NEW k \in Keys, NEW v \in Value \cup {"nil"}, Set(k, v)
  PROVE  IInv'
<1>1. Good(t)'
  <2>0. Good(t)
    BY DEF IInv
  <2>1. CASE t' = luaH_set(rehash(t, k), k, v)
    <3>1. Good(luaH_set(rehash(t, k), k, v))
      BY <2>0, RehashGood, SetGood
    <3> QED BY <2>1, <3>1
  <2>2. CASE MustRehash(t, k) /\ t' \in TablesAfterError(t, k)
    <3>1. \A S \in TablesAfterError(t, k) : Good(S)
      BY <2>0, <2>2, FailedGood
    <3> QED BY <2>2, <3>1
  <2>3. CASE t' = luaH_set(t, k, v)
    <3>1. Good(luaH_set(t, k, v))
      BY <2>0, SetGood
    <3> QED BY <2>3, <3>1
  <2> QED BY <2>1, <2>2, <2>3 DEF Set
<1> QED BY <1>1 DEF IInv, Set

LEMMA NextKeeps ==
  ASSUME IInv, luaH_next
  PROVE  IInv'
<1> DEFINE i == findindex(t, key)
           later == {j \in i + 1 .. sizearray(t) + sizenode(t) : EntryVal(t, j) # "nil"}
<1>1. key \in Keys \cup {nil} /\ Good(t)
  BY DEF IInv, luaH_next
<1>2. sizearray(t) \in Nat /\ sizenode(t) \in Nat
  BY <1>1 DEF Good, Chained, Linked, Table, sizenode, sizearray
<1>3. i \in 0 .. sizearray(t) + sizenode(t) \cup {-1}
  BY <1>1, IndexFound
<1>4. key' = IF i = -1 THEN Invalid ELSE IF later = {} THEN NoTraversal ELSE EntryKey(t, Min(later))
  BY DEF luaH_next
<1> HIDE DEF i
<1>5. ASSUME i # -1, later # {}
      PROVE  EntryKey(t, Min(later)) \in Keys
  <2>1. \A j \in later : j \in 1 .. sizearray(t) + sizenode(t) /\ EntryVal(t, j) # "nil"
    BY <1>2, <1>3, <1>5
  <2>2. Min(later) \in later
    <3>1. later \in SUBSET Nat
      BY <1>2, <2>1
    <3> HIDE DEF later
    <3> QED BY <1>5, <3>1, Smallest
  <2> HIDE DEF later
  <2> QED BY <1>1, <2>1, <2>2, FieldsKey
<1> HIDE DEF later
<1>6. key' \in Keys \cup {nil, NoTraversal, Invalid}
  BY <1>4, <1>5
<1> QED BY <1>6 DEF IInv, luaH_next

\* Every step keeps the invariant.
LEMMA StepGood == IInv /\ [Next]_vars => IInv'
<1> SUFFICES ASSUME IInv, [Next]_vars
             PROVE  IInv'
  OBVIOUS
<1>1. CASE \E k \in Keys, v \in Value \cup {"nil"} : Set(k, v)
  BY <1>1, SetKeeps
<1>2. CASE StartTraversal \/ LeaveTraversal
  BY <1>2 DEF IInv, StartTraversal, LeaveTraversal
<1>3. CASE luaH_next
  BY <1>3, NextKeeps
<1>4. CASE \E o \in Objects : NewObject(o)
  BY <1>4 DEF IInv, NewObject
<1>5. CASE \E i \in DOMAIN t.node : removeentry(i)
  <2>1. PICK i \in DOMAIN t.node : removeentry(i)
    BY <1>5
  <2>2. Good(SetNode(t, i, [t.node[i] EXCEPT !.key = DeadKey(@.v)]))
    BY <2>1, EntryRemoved DEF IInv, removeentry, Removed
  <2> QED BY <2>1, <2>2 DEF IInv, removeentry
<1>6. CASE \E o \in objects : FreeObject(o)
  BY <1>6 DEF IInv, FreeObject
<1>7. CASE UNCHANGED vars
  BY <1>7 DEF IInv, vars
<1> QED BY <1>1, <1>2, <1>3, <1>4, <1>5, <1>6, <1>7 DEF Next

\* Whatever the program does to the table, and whenever memory fails, the
\* invariant holds.
LEMMA AlwaysGood == Spec => []IInv
<1>1. Init => IInv
  BY InitGood
<1>2. IInv /\ [Next]_vars => IInv'
  BY StepGood
<1> QED BY <1>1, <1>2, PTL DEF Spec

\* The parts of the table, the objects and the key of the traversal keep their
\* types (lobject.h:482-509).
THEOREM TypesRight == Spec => []TypeOK
<1>1. IInv => TypeOK
  BY DEF IInv, TypeOK, Good, Chained, Linked
<1> QED BY <1>1, AlwaysGood, PTL

\* An element out of its main position collided with one that is in its own, and
\* a node from lastfree on has a key (ltable.c:16-18, lobject.h:504): for tables
\* of any size, and whatever the keys hash to.
THEOREM Collided == Spec => []MainInvariant
<1>1. IInv => MainInvariant
  <2> SUFFICES ASSUME Good(t)
               PROVE  MainInvariant
    BY DEF IInv
  <2>1. DOMAIN t.node = 1 .. sizenode(t) /\ sizenode(t) \in Nat
    BY DEF Good, Chained, Linked, Table, sizenode
  <2>2. ASSUME NEW i \in UsedNodes(t), t.node[mainposition(t, t.node[i].key)].val # "nil"
        PROVE  mainposition(t, t.node[mainposition(t, t.node[i].key)].key) = mainposition(t, t.node[i].key)
    <3> DEFINE m == mainposition(t, t.node[i].key)
    <3>1. i \in 1 .. sizenode(t) /\ t.node[i].key \in Keys
      BY DEF UsedNodes, Good, Used
    <3>2. m \in 1 .. sizenode(t)
      BY <2>1, <3>1, MainPosition
    <3>3. AtHome(t, m)
      BY <3>1 DEF Good, Homes
    <3>4. t.node[m].key \in Keys
      BY <2>2, <3>2 DEF Good, Used
    <3> QED BY <3>3, <3>4 DEF AtHome
  <2>3. \A i \in DOMAIN t.node : i >= t.lastfree => t.node[i].key # nil
    BY <2>1 DEF Good, Keyed
  <2> QED BY <2>2, <2>3 DEF MainInvariant
<1> QED BY <1>1, AlwaysGood, PTL

-----------------------------------------------------------------------------
(* The length.                                                             *)

\* A number that is not one of the program's keys has no field.
LEMMA NoField ==
  ASSUME NEW T, Good(T), NEW n \in Nat, n \notin Number
  PROVE  luaH_get(T, IntKey(n)) = "nil"
<1>1. IntKey(n) \notin Keys
  <2>1. \A m \in Number : IntKey(n) # IntKey(m)
    BY DEF IntKey
  <2>2. \A o \in Objects : IntKey(n) # o
    BY DEF IntKey, Objects
  <2> QED BY <2>1, <2>2 DEF Keys
<1>2. CASE InArray(T, IntKey(n))
  <2>1. n \in 1 .. sizearray(T) /\ IntKey(n).v = n
    BY <1>2 DEF InArray, IntKey
  <2> QED BY <1>2, <2>1 DEF luaH_get, Good, Numbered
<1>3. CASE ~InArray(T, IntKey(n)) /\ FindNode(T, IntKey(n)) # 0
  <2> DEFINE f == FindNode(T, IntKey(n))
  <2>1. f \in 1 .. sizenode(T) /\ T.node[f].key = IntKey(n)
    <3>1. sizenode(T) \in Nat
      BY DEF Good, Chained, Linked, Table, sizenode
    <3> QED BY <1>3, <3>1, NodeFound
  <2>2. luaH_get(T, IntKey(n)) = T.node[f].val
    BY <1>3 DEF luaH_get
  <2> QED BY <1>1, <2>1, <2>2 DEF Good, Used
<1>4. CASE ~InArray(T, IntKey(n)) /\ FindNode(T, IntKey(n)) = 0
  BY <1>4 DEF luaH_get
<1> QED BY <1>2, <1>3, <1>4

\* Halving the interval again and again, one comes to a number that is present
\* and followed by one that is not.
Interval(present, low, high, k) ==
  {p \in (low .. high) \X (low .. high) :
     /\ p[1] < p[2] /\ (p[1] = low \/ p[1] \in present) /\ p[2] \notin present
     /\ p[2] - p[1] <= 1 \/ p[2] - p[1] <= high - k}
LEMMA Halving ==
  ASSUME NEW present, NEW low \in Nat, NEW high \in Nat, low < high, high \notin present
  PROVE  LET n == BinarySearch(present, low, high)
         IN  n \in Nat /\ n < high /\ (n = low \/ n \in present) /\ n + 1 \notin present
<1> DEFINE halve(p) == LET m == (p[1] + p[2]) \div 2
                       IN  IF p[2] - p[1] <= 1 THEN p
                           ELSE IF m \in present THEN <<m, p[2]>> ELSE <<p[1], m>>
           I(k) == Interval(present, low, high, k)
           All == (low .. high) \X (low .. high)
           Gs == [k \in 0 .. high |-> I(k)]
           step == [k \in 1 .. high |-> [p \in All |-> halve(p)]]
           halved == CHOOSE f : f = [n \in 0 .. high |-> IF n = 0 THEN <<low, high>> ELSE halve(f[n - 1])]
<1>1. BinarySearch(present, low, high) = halved[high][1]
  BY DEF BinarySearch
<1>2. <<low, high>> \in I(0)
  BY DEF Interval
<1>3. ASSUME NEW k \in 1 .. high, NEW p \in I(k - 1)
      PROVE  halve(p) \in I(k) /\ p \in All
  <2> DEFINE i == p[1]
             j == p[2]
             m == (i + j) \div 2
  <2>1. /\ i \in low .. high /\ j \in low .. high /\ i < j /\ (i = low \/ i \in present) /\ j \notin present
        /\ j - i <= 1 \/ j - i <= high - (k - 1)
        /\ p = <<i, j>>
    BY DEF Interval
  <2>2. p \in All
    BY DEF Interval
  <2>3. CASE j - i <= 1
    <3>1. halve(p) = p
      BY <2>3
    <3> HIDE DEF i, j, halve
    <3>2. p \in I(k)
      BY <2>1, <2>2, <2>3 DEF Interval, i, j
    <3> QED BY <2>2, <3>1, <3>2
  <2>4. CASE ~(j - i <= 1)
    <3>1. halve(p) = IF m \in present THEN <<m, j>> ELSE <<i, m>>
      BY <2>4
    <3> HIDE DEF i, j, halve
    <3>2. m \in low .. high /\ i < m /\ m < j
      BY <2>1, <2>4
    <3>3. j - m <= high - k /\ m - i <= high - k
      BY <2>1, <2>4, <3>2
    <3> HIDE DEF m
    <3>4. <<m, j>> \in All /\ <<i, m>> \in All
      BY <2>1, <3>2
    <3>5. m \in present => <<m, j>> \in I(k)
      BY <2>1, <3>2, <3>3, <3>4 DEF Interval
    <3>6. m \notin present => <<i, m>> \in I(k)
      BY <2>1, <3>2, <3>3, <3>4 DEF Interval
    <3> QED BY <2>2, <3>1, <3>5, <3>6
  <2> QED BY <2>3, <2>4
<1> HIDE DEF I, All, halve
<1>4. PICK f : /\ f = [n \in 0 .. high |-> IF n = 0 THEN <<low, high>> ELSE step[n][f[n - 1]]]
               /\ \A n \in 0 .. high : f[n] \in Gs[n]
  <2>1. <<low, high>> \in Gs[0]
    BY <1>2
  <2>2. ASSUME NEW k \in 1 .. high, NEW p \in Gs[k - 1]
        PROVE  step[k][p] \in Gs[k]
    <3>1. k - 1 \in 0 .. high /\ k \in 0 .. high
      OBVIOUS
    <3>2. p \in I(k - 1)
      BY <3>1
    <3>3. step[k][p] = halve(p)
      BY <1>3, <3>2
    <3> HIDE DEF step
    <3> QED BY <1>3, <3>1, <3>2, <3>3
  <2> DEFINE base == <<low, high>>
  <2> HIDE DEF Gs, step, base
  <2>3. Stepwise(high, base, step, Gs)
    BY <2>1, <2>2, Stepped DEF base
  <2> QED BY <2>3 DEF Stepwise, base
<1>5. f = [n \in 0 .. high |-> IF n = 0 THEN <<low, high>> ELSE halve(f[n - 1])]
  <2> DEFINE base == <<low, high>>
             g == [n \in 0 .. high |-> IF n = 0 THEN base ELSE step[n][f[n - 1]]]
             h == [n \in 0 .. high |-> IF n = 0 THEN base ELSE halve(f[n - 1])]
  <2>1. ASSUME NEW n \in 0 .. high, n # 0
        PROVE  step[n][f[n - 1]] = halve(f[n - 1])
    <3>1. n \in 1 .. high /\ n - 1 \in 0 .. high
      BY <2>1
    <3>2. f[n - 1] \in I(n - 1)
      BY <1>4, <3>1
    <3>3. f[n - 1] \in All
      BY <1>3, <3>1, <3>2
    <3> QED BY <3>1, <3>3
  <2> HIDE DEF step, base
  <2>2. \A n \in 0 .. high : g[n] = h[n]
    BY <2>1
  <2>3. g = h
    <3>1. g = [n \in 0 .. high |-> g[n]] /\ h = [n \in 0 .. high |-> h[n]]
      OBVIOUS
    <3> HIDE DEF g, h
    <3> QED BY <2>2, <3>1
  <2> QED BY <1>4, <2>3 DEF base
<1>6. halved = [n \in 0 .. high |-> IF n = 0 THEN <<low, high>> ELSE halve(halved[n - 1])]
  BY <1>5
<1> HIDE DEF halved
<1>7. halved[0] \in Gs[0]
  BY <1>2, <1>6
<1>8. ASSUME NEW k \in 1 .. high, halved[k - 1] \in Gs[k - 1]
      PROVE  halved[k] \in Gs[k]
  <2>1. k - 1 \in 0 .. high /\ k \in 0 .. high /\ k # 0
    OBVIOUS
  <2>2. halved[k] = halve(halved[k - 1])
    BY <1>6, <2>1
  <2>3. halved[k - 1] \in I(k - 1)
    BY <1>8, <2>1
  <2> QED BY <1>3, <2>1, <2>2, <2>3
<1>9. \A k \in 0 .. high : halved[k] \in Gs[k]
  <2> HIDE DEF Gs
  <2> QED BY <1>7, <1>8, Inductively
<1>10. halved[high] \in I(high)
  BY <1>9
<1>11. PICK p : p = halved[high] /\ p \in I(high)
  BY <1>10
<1> DEFINE i == p[1]
           j == p[2]
<1>12. /\ i \in low .. high /\ j \in low .. high /\ i < j /\ (i = low \/ i \in present) /\ j \notin present
       /\ j - i <= 1 \/ j - i <= high - high
  BY <1>11 DEF I, Interval
<1> HIDE DEF i, j
<1>13. j = i + 1 /\ i \in Nat /\ i < high
  BY <1>12
<1>14. BinarySearch(present, low, high) = i
  BY <1>1, <1>11 DEF i
<1> QED BY <1>12, <1>13, <1>14

\* As many numbers as there are places for fields, and one more, are not all
\* present.
LEMMA SomeAbsent ==
  ASSUME NEW T, Good(T)
  PROVE  \E i \in 1 .. sizearray(T) + sizenode(T) + 1 : luaH_get(T, IntKey(i)) = "nil"
<1> DEFINE M == sizearray(T)
           N == sizenode(T)
           f == [i \in 1 .. M + N + 1 |-> IF i <= M THEN i ELSE M + FindNode(T, IntKey(i))]
<1>1. M \in Nat /\ N \in Nat
  BY DEF Good, Chained, Linked, Table, sizenode, sizearray
<1>2. SUFFICES ASSUME \A i \in 1 .. M + N + 1 : luaH_get(T, IntKey(i)) # "nil"
               PROVE  FALSE
  OBVIOUS
<1>3. ASSUME NEW i \in 1 .. M + N + 1, ~(i <= M)
      PROVE  FindNode(T, IntKey(i)) \in 1 .. N /\ T.node[FindNode(T, IntKey(i))].key = IntKey(i)
  <2>1. IntKey(i).v = i /\ i \in Nat
    BY <1>1 DEF IntKey
  <2>2. ~InArray(T, IntKey(i))
    BY <1>3, <2>1 DEF InArray
  <2>3. FindNode(T, IntKey(i)) # 0
    BY <1>2, <2>2 DEF luaH_get
  <2> QED BY <1>1, <2>1, <2>3, NodeFound
<1> HIDE DEF M, N
<1>4. f \in [1 .. M + N + 1 -> 1 .. M + N]
  <2>1. ASSUME NEW i \in 1 .. M + N + 1
        PROVE  (IF i <= M THEN i ELSE M + FindNode(T, IntKey(i))) \in 1 .. M + N
    BY <1>1, <1>3
  <2> QED BY <2>1
<1>5. /\ IsFiniteSet(1 .. M + N + 1) /\ Cardinality(1 .. M + N + 1) = M + N + 1
      /\ IsFiniteSet(1 .. M + N) /\ Cardinality(1 .. M + N) = M + N
  <2> DEFINE K == M + N
  <2>1. K \in Int /\ K + 1 \in Int /\ 1 \in Int /\ K \in Nat
    BY <1>1
  <2> HIDE DEF K
  <2>2. \A b \in Int : IsFiniteSet(1 .. b) /\ Cardinality(1 .. b) = IF 1 > b THEN 0 ELSE b - 1 + 1
    BY <2>1, FS_Interval
  <2>3. IsFiniteSet(1 .. K + 1) /\ Cardinality(1 .. K + 1) = IF 1 > K + 1 THEN 0 ELSE (K + 1) - 1 + 1
    BY <2>1, <2>2, Zenon
  <2>4. IsFiniteSet(1 .. K) /\ Cardinality(1 .. K) = IF 1 > K THEN 0 ELSE K - 1 + 1
    BY <2>1, <2>2, Zenon
  <2>5. Cardinality(1 .. K + 1) = K + 1 /\ Cardinality(1 .. K) = K
    BY <2>1, <2>3, <2>4
  <2> QED BY <2>3, <2>4, <2>5 DEF K
<1>6. PICK x \in 1 .. M + N + 1, y \in 1 .. M + N + 1 : x # y /\ f[x] = f[y]
  <2>1. Cardinality(1 .. M + N) < Cardinality(1 .. M + N + 1)
    BY <1>1, <1>5
  <2> HIDE DEF f
  <2> QED BY <1>4, <1>5, <2>1, FS_PigeonHole
<1>7. CASE x <= M \/ y <= M
  BY <1>1, <1>3, <1>6, <1>7
<1>8. CASE ~(x <= M) /\ ~(y <= M)
  <2>1. FindNode(T, IntKey(x)) = FindNode(T, IntKey(y))
    BY <1>1, <1>3, <1>6, <1>8
  <2>2. IntKey(x) = IntKey(y)
    BY <1>3, <1>8, <2>1
  <2> QED BY <1>6, <2>2 DEF IntKey
<1> QED BY <1>7, <1>8

\* What LengthRight says of the result.
Border(T, n) ==
  /\ n \in Nat
  /\ n = 0 \/ luaH_get(T, IntKey(n)) # "nil"
  /\ luaH_get(T, IntKey(n + 1)) = "nil"

\* The search beyond the array part ends at a border.
LEMMA UnboundSearch ==
  ASSUME NEW T, Good(T), NEW j \in Nat, j = 0 \/ luaH_get(T, IntKey(j)) # "nil"
  PROVE  Border(T, unbound_search(T, j))
<1> DEFINE present == {n \in Number : luaH_get(T, IntKey(n)) # "nil"}
           probe(d) == (j + 1) * 2^d
           Ends == {d \in 0 .. MAX_INT : probe(d) \notin present \/ probe(d) > MAX_INT \div 2}
           last == Min(Ends)
           entries == sizearray(T) + sizenode(T)
           low == IF last = 0 THEN j ELSE probe(last - 1)
           absent == {i \in 1 .. entries + 1 : i \notin present}
<1>1. unbound_search(T, j) = IF probe(last) \in present THEN Min(absent) - 1
                             ELSE BinarySearch(present, low, probe(last))
  BY DEF unbound_search
<1>2. entries \in Nat /\ MAX_INT \in Nat \ {0}
  BY KeyAssumption DEF Good, Chained, Linked, Table, sizenode, sizearray
<1>3. \A n \in Nat : n \in present <=> luaH_get(T, IntKey(n)) # "nil"
  BY NoField
<1>4. present \subseteq Nat \ {0}
  BY KeyAssumption
<1> HIDE DEF entries, present
<1>5. ASSUME NEW d \in Nat
      PROVE  probe(d) \in Nat /\ probe(d) >= 2^d /\ probe(d) > 0 /\ probe(d + 1) = probe(d) + probe(d)
  <2>1. 2^d \in Nat /\ 2^d # 0 /\ 2^(d + 1) = 2^d + 2^d
    BY PowerAbove, PowerOfTwo
  <2>2. \A x \in Nat : (j + 1) * x \in Nat /\ (j + 1) * x >= x /\ (j + 1) * (x + x) = (j + 1) * x + (j + 1) * x
    <3>1. \A x \in Nat : j * x \in Nat /\ (j + 1) * x = j * x + x
      OBVIOUS
    <3>2. \A x \in Nat : (j + 1) * (x + x) = (j + 1) * x + (j + 1) * x
      OBVIOUS
    <3> QED BY <3>1, <3>2
  <2> QED BY <2>1, <2>2
<1>6. probe(0) = j + 1
  <2>1. 2^0 = 1
    OBVIOUS
  <2> QED BY <2>1
<1>7. last \in Ends /\ \A d \in Ends : last <= d
  <2>1. MAX_INT \in Ends
    <3>1. 2^MAX_INT \in Nat /\ MAX_INT <= 2^MAX_INT
      BY <1>2, PowerAbove
    <3>2. probe(MAX_INT) \in Nat /\ probe(MAX_INT) >= 2^MAX_INT
      BY <1>2, <1>5
    <3> HIDE DEF probe
    <3>3. probe(MAX_INT) > MAX_INT \div 2
      BY <1>2, <3>1, <3>2
    <3> QED BY <1>2, <3>3
  <2>2. Ends \in SUBSET Nat
    BY <1>2
  <2> HIDE DEF Ends
  <2> QED BY <2>1, <2>2, Smallest
<1>8. last \in 0 .. MAX_INT /\ last \in Nat
  BY <1>2, <1>7
<1>9. last # 0 => last - 1 \in Nat /\ probe(last - 1) \in present
  <2> SUFFICES ASSUME last # 0
               PROVE  last - 1 \in Nat /\ probe(last - 1) \in present
    OBVIOUS
  <2>1. last - 1 \in 0 .. MAX_INT /\ last - 1 \in Nat
    BY <1>2, <1>8
  <2>2. last - 1 \notin Ends
    <3> HIDE DEF Ends, last
    <3> QED BY <1>7, <1>8
  <2> HIDE DEF probe, last
  <2> QED BY <2>1, <2>2
<1> HIDE DEF Ends, last
<1>10. CASE probe(last) \in present
  <2>1. absent # {} /\ absent \in SUBSET Nat
    <3>1. \E i \in 1 .. entries + 1 : luaH_get(T, IntKey(i)) = "nil"
      BY SomeAbsent DEF entries
    <3> QED BY <1>2, <1>3, <3>1
  <2> DEFINE m == Min(absent)
  <2>2. m \in absent /\ \A n \in absent : m <= n
    <3> HIDE DEF absent
    <3> QED BY <2>1, Smallest
  <2>3. unbound_search(T, j) = m - 1
    BY <1>1, <1>10
  <2> HIDE DEF m
  <2>4. m \in 1 .. entries + 1 /\ m \notin present
    BY <2>2
  <2>5. m - 1 \in Nat /\ (m - 1) + 1 = m /\ m \in Nat
    BY <1>2, <2>4
  <2>6. m - 1 # 0 => m - 1 \in present
    BY <1>2, <2>2, <2>4
  <2> QED BY <1>3, <2>3, <2>4, <2>5, <2>6 DEF Border
<1>11. CASE probe(last) \notin present
  <2> DEFINE high == probe(last)
             n == BinarySearch(present, low, high)
  <2>1. low \in Nat /\ high \in Nat /\ low < high
    <3>1. CASE last = 0
      BY <1>6, <3>1
    <3>2. CASE last # 0
      <4>1. (last - 1) + 1 = last
        BY <1>8
      <4>2. probe(last - 1) \in Nat /\ probe(last - 1) > 0 /\ probe((last - 1) + 1) = probe(last - 1) + probe(last - 1)
        BY <1>5, <1>9, <3>2
      <4> HIDE DEF probe
      <4> QED BY <3>2, <4>1, <4>2
    <3> QED BY <3>1, <3>2
  <2>2. low = j \/ low \in present
    BY <1>9
  <2>3. high \notin present
    BY <1>11
  <2>4. unbound_search(T, j) = n
    BY <1>1, <1>11
  <2> HIDE DEF low, high, probe
  <2>5. n \in Nat /\ (n = low \/ n \in present) /\ n + 1 \notin present
    BY <2>1, <2>3, Halving
  <2> HIDE DEF n
  <2>6. n = 0 \/ luaH_get(T, IntKey(n)) # "nil"
    BY <1>3, <2>2, <2>5
  <2>7. n + 1 \in Nat
    BY <2>5
  <2>8. luaH_get(T, IntKey(n + 1)) = "nil"
    BY <1>3, <2>5, <2>7
  <2> QED BY <2>4, <2>5, <2>6, <2>8 DEF Border
<1> QED BY <1>10, <1>11

\* The length is a border.
LEMMA LengthGood ==
  ASSUME NEW T, Good(T)
  PROVE  Border(T, luaH_getn(T))
<1> DEFINE j == sizearray(T)
           A == {m \in 1 .. j : T.array[m] # "nil"}
           n == BinarySearch(A, 0, j)
<1>1. j \in Nat
  BY DEF Good, Chained, Linked, Table, sizearray
<1>2. \A i \in 1 .. j : luaH_get(T, IntKey(i)) = T.array[i]
  <2>1. \A i : IntKey(i).v = i /\ ttisinteger(IntKey(i))
    BY DEF IntKey, ttisinteger
  <2> QED BY <2>1 DEF luaH_get, InArray
<1> HIDE DEF j
<1>3. CASE j > 0 /\ T.array[j] = "nil"
  <2>1. luaH_getn(T) = n
    BY <1>3 DEF luaH_getn, j
  <2>2. n \in Nat /\ n < j /\ (n = 0 \/ n \in A) /\ n + 1 \notin A
    BY <1>1, <1>3, Halving
  <2> HIDE DEF n
  <2>3. n + 1 \in 1 .. j
    BY <1>1, <2>2
  <2>4. n = 0 \/ (n \in 1 .. j /\ T.array[n] # "nil")
    BY <2>2
  <2> QED BY <1>2, <2>1, <2>2, <2>3, <2>4 DEF Border
<1>4. CASE ~(j > 0 /\ T.array[j] = "nil")
  <2>1. j = 0 \/ luaH_get(T, IntKey(j)) # "nil"
    BY <1>1, <1>2, <1>4
  <2>2. CASE isdummy(T)
    <3>1. luaH_getn(T) = j
      BY <1>4, <2>2 DEF luaH_getn, j
    <3>2. IntKey(j + 1).v = j + 1
      BY DEF IntKey
    <3>3. ~InArray(T, IntKey(j + 1))
      BY <1>1, <3>2 DEF InArray, j
    <3>4. luaH_get(T, IntKey(j + 1)) = "nil"
      BY <2>2, <3>3 DEF luaH_get, FindNode
    <3> QED BY <1>1, <2>1, <3>1, <3>4 DEF Border
  <2>3. CASE ~isdummy(T)
    <3>1. luaH_getn(T) = unbound_search(T, j)
      BY <1>4, <2>3 DEF luaH_getn, j
    <3> QED BY <1>1, <2>1, <3>1, UnboundSearch
  <2> QED BY <2>2, <2>3
<1> QED BY <1>3, <1>4

\* The length of a table is a border: a field that is present, or none, followed
\* by one that is not, wherever the numeric keys are and whatever nils are between
\* them (ltable.c:637-640).
THEOREM LengthIsBorder == Spec => []LengthRight
<1>1. IInv => LengthRight
  BY LengthGood DEF IInv, LengthRight, Border
<1> QED BY <1>1, AlwaysGood, PTL
-----------------------------------------------------------------------------
(* Chains that change.                                                     *)

\* What is true at the end of a chain, and of a node if it is of the next one,
\* is true of all nodes.
LEMMA ChainInduction ==
  ASSUME NEW T, Chained(T), NEW B, 0 \in B,
         \A n \in 1 .. sizenode(T) : T.node[n].next \in B => n \in B
  PROVE  \A n \in 0 .. sizenode(T) : n \in B
<1> DEFINE N == sizenode(T)
           Bad == {n \in 0 .. N : n \notin B}
<1>1. N \in Nat /\ \A n \in 1 .. N : T.node[n].next \in 0 .. N
  BY DEF Chained, Linked, Table, sizenode
<1>2. PICK r : r \in [0 .. N -> Nat] /\ \A n \in 1 .. N : r[T.node[n].next] < r[n]
  BY DEF Chained, Ranks
<1> HIDE DEF N
<1>3. SUFFICES ASSUME Bad # {}
               PROVE  FALSE
  BY DEF N
<1>4. PICK n \in Bad : \A m \in Bad : r[n] <= r[m]
  <2>1. \A m \in Bad : r[m] \in Nat
    BY <1>2
  <2> HIDE DEF Bad
  <2> QED BY <1>3, <2>1, LeastRanked
<1>5. n \in 1 .. N /\ n \notin B
  BY <1>1
<1>6. T.node[n].next \in 0 .. N /\ r[T.node[n].next] < r[n]
  BY <1>1, <1>2, <1>5
<1>7. T.node[n].next \notin Bad
  <2>1. r[T.node[n].next] \in Nat /\ r[n] \in Nat
    BY <1>2, <1>5, <1>6
  <2> HIDE DEF Bad
  <2> QED BY <1>4, <1>6, <2>1
<1>8. T.node[n].next \in B
  BY <1>6, <1>7
<1> QED BY <1>5, <1>8 DEF N

\* Who looks for less finds the same, if it is what he looks for.
LEMMA Narrower ==
  ASSUME NEW T, Chained(T), NEW A, NEW B, B \subseteq A,
         NEW i \in 0 .. sizenode(T), FirstInChain(T, i, A) \in B
  PROVE  FirstInChain(T, i, B) = FirstInChain(T, i, A)
<1> DEFINE N == sizenode(T)
           F(n) == FirstInChain(T, n, A)
           G(n) == FirstInChain(T, n, B)
           Yes == {n \in 0 .. N : F(n) \in B => G(n) = F(n)}
<1>1. N \in Nat /\ \A n \in 1 .. N : T.node[n].next \in 0 .. N
  BY DEF Chained, Linked, Table, sizenode
<1>2. \A n \in 0 .. N : F(n) = IF Goal(n, A) THEN n ELSE F(T.node[n].next)
  BY Search
<1>3. \A n \in 0 .. N : G(n) = IF Goal(n, B) THEN n ELSE G(T.node[n].next)
  BY Search
<1> HIDE DEF F, G, N
<1>4. 0 \in Yes
  BY <1>1, <1>2, <1>3 DEF Goal
<1>5. ASSUME NEW n \in 1 .. N, T.node[n].next \in Yes
      PROVE  n \in Yes
  <2>1. n \in 0 .. N /\ n # 0
    BY <1>1
  <2>2. CASE n \in A
    <3>1. F(n) = n
      BY <1>2, <2>1, <2>2 DEF Goal
    <3>2. n \in B => G(n) = n
      BY <1>3, <2>1 DEF Goal
    <3> QED BY <2>1, <3>1, <3>2
  <2>3. CASE n \notin A
    <3>1. F(n) = F(T.node[n].next)
      BY <1>2, <2>1, <2>3 DEF Goal
    <3>2. G(n) = G(T.node[n].next)
      BY <1>3, <2>1, <2>3 DEF Goal
    <3> QED BY <1>5, <2>1, <3>1, <3>2
  <2> QED BY <2>2, <2>3
<1>6. \A n \in 0 .. N : n \in Yes
  <2> HIDE DEF Yes
  <2> QED BY <1>4, <1>5, ChainInduction DEF N
<1> QED BY <1>6 DEF F, G, N

\* The search depends on nothing but the successors.
LEMMA SameChains ==
  ASSUME NEW T, Chained(T), NEW S, Chained(S), sizenode(S) = sizenode(T),
         \A n \in 1 .. sizenode(T) : S.node[n].next = T.node[n].next, NEW A
  PROVE  \A n \in 0 .. sizenode(T) : FirstInChain(S, n, A) = FirstInChain(T, n, A)
<1> DEFINE N == sizenode(T)
           F(n) == FirstInChain(T, n, A)
           G(n) == FirstInChain(S, n, A)
           Yes == {n \in 0 .. N : G(n) = F(n)}
<1>1. N \in Nat /\ \A n \in 1 .. N : T.node[n].next \in 0 .. N
  BY DEF Chained, Linked, Table, sizenode
<1>2. \A n \in 0 .. N : F(n) = IF Goal(n, A) THEN n ELSE F(T.node[n].next)
  BY Search
<1>3. \A n \in 0 .. N : G(n) = IF Goal(n, A) THEN n ELSE G(S.node[n].next)
  BY Search
<1> HIDE DEF F, G, N
<1>4. 0 \in Yes
  BY <1>1, <1>2, <1>3 DEF Goal
<1>5. ASSUME NEW n \in 1 .. N, T.node[n].next \in Yes
      PROVE  n \in Yes
  <2>1. n \in 0 .. N /\ S.node[n].next = T.node[n].next
    BY <1>1 DEF N
  <2>2. F(n) = IF Goal(n, A) THEN n ELSE F(T.node[n].next)
    BY <1>2, <2>1
  <2>3. G(n) = IF Goal(n, A) THEN n ELSE G(T.node[n].next)
    BY <1>3, <2>1
  <2> QED BY <1>5, <2>1, <2>2, <2>3
<1>6. \A n \in 0 .. N : n \in Yes
  <2> HIDE DEF Yes
  <2> QED BY <1>4, <1>5, ChainInduction DEF N
<1> QED BY <1>6 DEF F, G, N

\* A node that is found behind others has one before it.
LEMMA PreviousFound ==
  ASSUME NEW T, Chained(T), NEW m \in 1 .. sizenode(T), NEW A,
         NEW i \in 0 .. sizenode(T), i # m, FirstInChain(T, i, A) = m
  PROVE  FirstInChain(T, i, {n \in DOMAIN T.node : T.node[n].next = m}) # 0
<1> DEFINE N == sizenode(T)
           P == {n \in DOMAIN T.node : T.node[n].next = m}
           F(n) == FirstInChain(T, n, A)
           G(n) == FirstInChain(T, n, P)
           Yes == {n \in 0 .. N : n # m /\ F(n) = m => G(n) # 0}
<1>1. N \in Nat /\ DOMAIN T.node = 1 .. N /\ \A n \in 1 .. N : T.node[n].next \in 0 .. N
  BY DEF Chained, Linked, Table, sizenode
<1>2. \A n \in 0 .. N : F(n) = IF Goal(n, A) THEN n ELSE F(T.node[n].next)
  BY Search
<1>3. \A n \in 0 .. N : G(n) = IF Goal(n, P) THEN n ELSE G(T.node[n].next)
  <2> HIDE DEF P
  <2> QED BY Search
<1> HIDE DEF F, G, N
<1>4. 0 \in Yes
  <2>1. F(0) = 0 /\ m # 0
    BY <1>1, <1>2 DEF Goal, N
  <2> QED BY <1>1, <2>1
<1>5. ASSUME NEW n \in 1 .. N, T.node[n].next \in Yes, n # m, F(n) = m
      PROVE  G(n) # 0
  <2>1. n \in 0 .. N /\ n # 0
    BY <1>1
  <2>2. CASE n \in P
    <3> HIDE DEF P
    <3> QED BY <1>3, <2>1, <2>2 DEF Goal
  <2>3. CASE n \notin P
    <3>1. T.node[n].next # m
      BY <1>1, <2>3
    <3> HIDE DEF P
    <3>2. G(n) = G(T.node[n].next)
      BY <1>3, <2>1, <2>3 DEF Goal
    <3>3. F(n) = F(T.node[n].next)
      BY <1>2, <1>5, <2>1 DEF Goal
    <3> QED BY <1>5, <3>1, <3>2, <3>3
  <2> QED BY <2>2, <2>3
<1>6. \A n \in 1 .. N : T.node[n].next \in Yes => n \in Yes
  BY <1>1, <1>5
<1>7. \A n \in 0 .. N : n \in Yes
  <2> HIDE DEF Yes
  <2> QED BY <1>4, <1>6, ChainInduction DEF N
<1> QED BY <1>7 DEF F, G, N

\* A node that is put behind another is passed, unless one looks for it.
LEMMA ChainLengthened ==
  ASSUME NEW T, Chained(T), NEW S, Chained(S), sizenode(S) = sizenode(T),
         NEW m \in 1 .. sizenode(T), NEW f \in 1 .. sizenode(T), f # m,
         \A n \in 1 .. sizenode(T) : T.node[n].next # f,
         \A n \in 1 .. sizenode(T) : n \notin {m, f} => S.node[n].next = T.node[n].next,
         S.node[m].next = f, S.node[f].next = T.node[m].next,
         NEW A, NEW B, f \notin B, \A n \in 1 .. sizenode(T) : n # f => (n \in A <=> n \in B)
  PROVE  \A n \in 0 .. sizenode(T) : n # f => FirstInChain(S, n, B) = FirstInChain(T, n, A)
<1> DEFINE N == sizenode(T)
           F(n) == FirstInChain(T, n, A)
           G(n) == FirstInChain(S, n, B)
           Yes == {n \in 0 .. N : n # f => G(n) = F(n)}
<1>1. N \in Nat /\ \A n \in 1 .. N : T.node[n].next \in 0 .. N
  BY DEF Chained, Linked, Table, sizenode
<1>2. \A n \in 0 .. N : F(n) = IF Goal(n, A) THEN n ELSE F(T.node[n].next)
  BY Search
<1>3. \A n \in 0 .. N : G(n) = IF Goal(n, B) THEN n ELSE G(S.node[n].next)
  BY Search
<1>4. m \in 1 .. N /\ f \in 1 .. N
  OBVIOUS
<1>5. \A n \in 1 .. N : /\ T.node[n].next # f
                        /\ n \notin {m, f} => S.node[n].next = T.node[n].next
                        /\ n # f => (n \in A <=> n \in B)
  OBVIOUS
<1> HIDE DEF F, G, N
<1>6. 0 \in Yes
  BY <1>1, <1>2, <1>3 DEF Goal
<1>7. ASSUME NEW n \in 1 .. N, T.node[n].next \in Yes, n # f
      PROVE  G(n) = F(n)
  <2>1. n \in 0 .. N /\ n # 0 /\ (n \in A <=> n \in B) /\ T.node[n].next # f
    BY <1>1, <1>5, <1>7
  <2>2. CASE n \in A
    BY <1>2, <1>3, <2>1, <2>2 DEF Goal
  <2>3. CASE n \notin A
    <3>1. F(n) = F(T.node[n].next) /\ G(n) = G(S.node[n].next)
      BY <1>2, <1>3, <2>1, <2>3 DEF Goal
    <3>2. G(S.node[n].next) = G(T.node[n].next)
      <4>1. CASE n = m
        <5>1. f \in 0 .. N /\ ~Goal(f, B)
          BY <1>1, <1>4 DEF Goal
        <5> QED BY <1>3, <4>1, <5>1
      <4>2. CASE n # m
        BY <1>5, <1>7, <4>2
      <4> QED BY <4>1, <4>2
    <3> QED BY <1>7, <2>1, <3>1, <3>2
  <2> QED BY <2>2, <2>3
<1>8. \A n \in 1 .. N : T.node[n].next \in Yes => n \in Yes
  BY <1>1, <1>7
<1>9. \A n \in 0 .. N : n \in Yes
  <2> HIDE DEF Yes
  <2> QED BY <1>6, <1>8, ChainInduction DEF N
<1> QED BY <1>9 DEF F, G, N

\* Node m goes to f, and the node behind which it was is p; so do the places A
\* that are looked for, and become B.
Moved(T, S, m, f, p, A, B) ==
  /\ sizenode(S) = sizenode(T)
  /\ m \in 1 .. sizenode(T) /\ f \in 1 .. sizenode(T) /\ f # m
  /\ p \in 1 .. sizenode(T) /\ T.node[p].next = m
  /\ \A n \in 1 .. sizenode(T) : T.node[n].next = m => n = p
  /\ \A n \in 1 .. sizenode(T) : T.node[n].next # f
  /\ \A n \in 1 .. sizenode(T) : n \notin {m, f, p} => S.node[n].next = T.node[n].next
  /\ S.node[p].next = f /\ S.node[f].next = T.node[m].next
  /\ f \in B <=> m \in A
  /\ \A n \in 1 .. sizenode(T) : n \notin {m, f} => (n \in A <=> n \in B)

\* It is found where it is now.
Elsewhere(n, m, f) == IF n = m THEN f ELSE n
LEMMA ChainMoves ==
  ASSUME NEW T, Chained(T), NEW S, Chained(S), NEW m, NEW f, NEW p, NEW A, NEW B, Moved(T, S, m, f, p, A, B)
  PROVE  \A n \in 0 .. sizenode(T) : n # f =>
           FirstInChain(S, Elsewhere(n, m, f), B) = Elsewhere(FirstInChain(T, n, A), m, f)
<1> DEFINE N == sizenode(T)
           F(n) == FirstInChain(T, n, A)
           G(n) == FirstInChain(S, n, B)
           e(n) == Elsewhere(n, m, f)
           Yes == {n \in 0 .. N : n # f => G(e(n)) = e(F(n))}
<1>1. N \in Nat /\ \A n \in 1 .. N : T.node[n].next \in 0 .. N
  BY DEF Chained, Linked, Table, sizenode
<1>2. \A n \in 0 .. N : F(n) = IF Goal(n, A) THEN n ELSE F(T.node[n].next)
  BY Search
<1>3. \A n \in 0 .. N : G(n) = IF Goal(n, B) THEN n ELSE G(S.node[n].next)
  BY Search DEF Moved
<1>4. /\ m \in 1 .. N /\ f \in 1 .. N /\ p \in 1 .. N /\ f # m
      /\ T.node[p].next = m /\ S.node[p].next = f /\ S.node[f].next = T.node[m].next
      /\ f \in B <=> m \in A
  BY DEF Moved
<1>5. \A n \in 1 .. N : /\ T.node[n].next # f
                        /\ T.node[n].next = m => n = p
                        /\ n \notin {m, f, p} => S.node[n].next = T.node[n].next
                        /\ n \notin {m, f} => (n \in A <=> n \in B)
  BY DEF Moved
<1>6. T.node[m].next # m
  <2>1. PICK r : r \in [0 .. N -> Nat] /\ r[T.node[m].next] < r[m]
    BY <1>4 DEF Chained, Ranks
  <2>2. m \in 0 .. N /\ r[m] \in Nat
    BY <1>1, <1>4, <2>1
  <2> QED BY <2>1, <2>2
<1> HIDE DEF F, G, N, e
<1>7. 0 \in Yes
  <2>1. e(0) = 0
    BY <1>4 DEF e, Elsewhere
  <2> QED BY <1>1, <1>2, <1>3, <2>1 DEF Goal
<1>8. ASSUME NEW n \in 1 .. N, T.node[n].next \in Yes, n # f
      PROVE  G(e(n)) = e(F(n))
  <2>1. n \in 0 .. N /\ n # 0
    BY <1>1
  <2>2. e(n) \in 1 .. N /\ e(n) # 0 /\ e(n) \in 0 .. N
    BY <1>1, <1>4 DEF e, Elsewhere
  <2>3. e(n) \in B <=> n \in A
    BY <1>4, <1>5, <1>8 DEF e, Elsewhere
  <2>4. CASE n \in A
    <3>1. F(n) = n
      BY <1>2, <2>1, <2>4 DEF Goal
    <3>2. G(e(n)) = e(n)
      BY <1>3, <2>2, <2>3, <2>4 DEF Goal
    <3> QED BY <3>1, <3>2
  <2>5. CASE n \notin A
    <3> DEFINE x == T.node[n].next
    <3>1. F(n) = F(x)
      BY <1>2, <2>1, <2>5 DEF Goal
    <3>2. G(e(n)) = G(S.node[e(n)].next)
      BY <1>3, <2>2, <2>3, <2>5 DEF Goal
    <3>3. S.node[e(n)].next = e(x)
      <4>1. CASE n = m
        BY <1>4, <1>6, <4>1 DEF e, Elsewhere
      <4>2. CASE n # m /\ n = p
        BY <1>4, <4>2 DEF e, Elsewhere
      <4>3. CASE n # m /\ n # p
        BY <1>5, <1>8, <4>3 DEF e, Elsewhere
      <4> QED BY <4>1, <4>2, <4>3
    <3>4. x # f /\ x \in Yes
      BY <1>5, <1>8
    <3> HIDE DEF x
    <3>5. G(e(x)) = e(F(x))
      BY <3>4
    <3> QED BY <3>1, <3>2, <3>3, <3>5
  <2> QED BY <2>4, <2>5
<1>9. \A n \in 1 .. N : T.node[n].next \in Yes => n \in Yes
  BY <1>1, <1>8
<1>10. \A n \in 0 .. N : n \in Yes
  <2> HIDE DEF Yes
  <2> QED BY <1>7, <1>9, ChainInduction DEF N
<1> QED BY <1>10 DEF F, G, N, e

-----------------------------------------------------------------------------
(* Every key is found.                                                     *)

\* A traversal takes a dead key for the key that had its address.
Same(k) == {k} \cup IF iscollectable(k) THEN {DeadKey(k.v)} ELSE {}
Places(T, k) == {i \in DOMAIN T.node : T.node[i].key \in Same(k)}
Seek(T, k) == FirstInChain(T, mainposition(T, k), Places(T, k))

\* A key hangs in the chain of its main position, and no dead key that had its
\* address comes before.
Hung(T) == \A n \in 1 .. sizenode(T) : T.node[n].key \in Keys => Seek(T, T.node[n].key) = n
\* A node is behind one other at most, and behind a free one there is none.
Single(T) ==
  /\ \A m, n \in 1 .. sizenode(T) : T.node[m].next # 0 /\ T.node[m].next = T.node[n].next => m = n
  /\ \A n \in 1 .. sizenode(T) : T.node[n].key = nil => T.node[n].next = 0
\* No key of a node belongs to the array part.
Apart(T) == \A n \in 1 .. sizenode(T) : T.node[n].key \in Keys => ~InArray(T, T.node[n].key)

Whole(T) == Good(T) /\ Hung(T) /\ Single(T) /\ Apart(T)

\* The sizes, and the domains of the parts.
LEMMA Shape ==
  ASSUME NEW T, Good(T)
  PROVE  /\ T \in Table /\ Chained(T) /\ sizenode(T) \in Nat /\ sizearray(T) \in Nat
         /\ DOMAIN T.node = 1 .. sizenode(T) /\ DOMAIN T.array = 1 .. sizearray(T)
         /\ \A n \in 1 .. sizenode(T) : T.node[n].next \in 0 .. sizenode(T)
         /\ isdummy(T) <=> sizenode(T) = 0
BY DEF Good, Chained, Linked, Table, sizenode, sizearray, isdummy

\* What is the same key for a traversal.
LEMMA SameKeys ==
  /\ \A k : k \in Same(k)
  /\ \A k : \A j \in Keys : j \in Same(k) => j = k
  /\ \A k \in Keys : nil \notin Same(k)
<1>1. \A k : k \in Same(k)
  BY DEF Same
<1>2. \A k : \A j \in Keys : j \in Same(k) => j = k
  BY KeysApart DEF Same
<1>3. \A k \in Keys : nil \notin Same(k)
  BY KeysApart DEF Same
<1> QED BY <1>1, <1>2, <1>3

\* A key that is sought is found at itself, or what had its address is.
LEMMA Sought ==
  ASSUME NEW T, Good(T), ~isdummy(T), NEW k \in Keys
  PROVE  /\ mainposition(T, k) \in 1 .. sizenode(T)
         /\ Seek(T, k) \in 0 .. sizenode(T)
         /\ Seek(T, k) # 0 => T.node[Seek(T, k)].key \in Same(k)
<1> DEFINE P == Places(T, k)
<1>1. sizenode(T) \in Nat \ {0} /\ Chained(T)
  BY Shape
<1>2. mainposition(T, k) \in 1 .. sizenode(T) /\ mainposition(T, k) \in 0 .. sizenode(T)
  BY <1>1, MainPosition
<1>3. Seek(T, k) = FirstInChain(T, mainposition(T, k), P)
  BY DEF Seek
<1> HIDE DEF P
<1>4. Seek(T, k) \in 0 .. sizenode(T) /\ Goal(Seek(T, k), P)
  BY <1>1, <1>2, <1>3, Search
<1> QED BY <1>2, <1>4 DEF Goal, P, Places

\* A lookup finds the node of the key, and there is but one.
LEMMA KeyFound ==
  ASSUME NEW T, Good(T), Hung(T), NEW n \in 1 .. sizenode(T), NEW k \in Keys, T.node[n].key = k
  PROVE  FindNode(T, k) = n /\ Seek(T, k) = n /\ ~isdummy(T)
<1> DEFINE A == {i \in DOMAIN T.node : T.node[i].key = k}
           P == Places(T, k)
           mp == mainposition(T, k)
<1>1. Chained(T) /\ DOMAIN T.node = 1 .. sizenode(T) /\ ~isdummy(T)
  BY Shape
<1>2. Seek(T, k) = n /\ Seek(T, k) = FirstInChain(T, mp, P)
  BY DEF Hung, Seek
<1>3. mp \in 0 .. sizenode(T)
  BY <1>1, Sought
<1>4. n \in A /\ A \subseteq P
  BY <1>1, SameKeys DEF Places
<1>5. FindNode(T, k) = FirstInChain(T, mp, A)
  BY <1>1 DEF FindNode
<1> HIDE DEF A, P, mp
<1>6. FirstInChain(T, mp, A) = FirstInChain(T, mp, P)
  <2>1. FirstInChain(T, mp, P) \in A
    BY <1>2, <1>4
  <2> QED BY <1>1, <1>3, <1>4, <2>1, Narrower
<1> QED BY <1>1, <1>2, <1>5, <1>6

\* What a lookup gives.
LEMMA GetOfArray ==
  ASSUME NEW T, NEW k, InArray(T, k)
  PROVE  luaH_get(T, k) = T.array[k.v]
BY DEF luaH_get

LEMMA GetOfNode ==
  ASSUME NEW T, Whole(T), NEW n \in 1 .. sizenode(T), T.node[n].key \in Keys
  PROVE  luaH_get(T, T.node[n].key) = T.node[n].val
<1>1. FindNode(T, T.node[n].key) = n /\ n # 0 /\ ~InArray(T, T.node[n].key)
  BY KeyFound, Shape DEF Whole, Apart
<1> QED BY <1>1 DEF luaH_get

LEMMA GetOfNone ==
  ASSUME NEW T, Good(T), NEW k \in Keys, ~InArray(T, k), \A n \in 1 .. sizenode(T) : T.node[n].key # k
  PROVE  luaH_get(T, k) = "nil" /\ FindNode(T, k) = 0
<1>1. FindNode(T, k) = 0
  BY Shape, NodeFound
<1> QED BY <1>1 DEF luaH_get

\* The table has a new entry, and the other entries as before, but for empty ones.
Put(T, k, v, S) ==
  /\ \E n \in 1 .. sizenode(T) : S.node[n].key = k /\ S.node[n].val = v
  /\ \A n \in 1 .. sizenode(T) : S.node[n].key # k =>
       \E m \in 1 .. sizenode(T) : T.node[m].key = S.node[n].key /\ T.node[m].val = S.node[n].val
  /\ \A n \in 1 .. sizenode(T) : T.node[n].val # "nil" =>
       \E m \in 1 .. sizenode(T) : S.node[m].key = T.node[n].key /\ S.node[m].val = T.node[n].val

\* There was no entry for the key.
Missing(T, k) == ~InArray(T, k) /\ \A n \in 1 .. sizenode(T) : T.node[n].key # k

LEMMA InArrayStays ==
  ASSUME NEW T, NEW S, sizearray(S) = sizearray(T), NEW k
  PROVE  InArray(S, k) <=> InArray(T, k)
BY DEF InArray

\* What a lookup gives in the end.
LEMMA PutRight ==
  ASSUME NEW T, Whole(T), NEW k \in Keys, NEW v, NEW S, Whole(S), Alike(T, S), Missing(T, k), Put(T, k, v, S)
  PROVE  \A j \in Keys : luaH_get(S, j) = IF j = k THEN v ELSE luaH_get(T, j)
<1> DEFINE N == sizenode(T)
<1>1. Good(T) /\ Good(S) /\ sizenode(S) = N /\ \A j : InArray(S, j) <=> InArray(T, j)
  BY InArrayStays DEF Whole, Alike
<1>2. luaH_get(S, k) = v
  <2>1. PICK n \in 1 .. N : S.node[n].key = k /\ S.node[n].val = v
    BY DEF Put
  <2> QED BY <1>1, <2>1, GetOfNode
<1> HIDE DEF N
<1>3. ASSUME NEW j \in Keys, j # k
      PROVE  luaH_get(S, j) = luaH_get(T, j)
  <2>1. CASE InArray(T, j)
    BY <1>1, <2>1, GetOfArray DEF Alike
  <2>2. CASE ~InArray(T, j) /\ \E n \in 1 .. N : S.node[n].key = j
    <3>1. PICK n \in 1 .. N : S.node[n].key = j
      BY <2>2
    <3>2. PICK m \in 1 .. N : T.node[m].key = j /\ T.node[m].val = S.node[n].val
      BY <1>3, <3>1 DEF Put, N
    <3>3. luaH_get(S, j) = S.node[n].val
      BY <1>1, <3>1, GetOfNode
    <3>4. luaH_get(T, j) = T.node[m].val
      BY <3>2, GetOfNode DEF N
    <3> QED BY <3>2, <3>3, <3>4
  <2>3. CASE ~InArray(T, j) /\ \A n \in 1 .. N : S.node[n].key # j
    <3>1. luaH_get(S, j) = "nil"
      BY <1>1, <2>3, GetOfNone
    <3>2. CASE \E m \in 1 .. N : T.node[m].key = j
      <4>1. PICK m \in 1 .. N : T.node[m].key = j
        BY <3>2
      <4>2. T.node[m].val = "nil"
        BY <2>3, <4>1 DEF Put, N
      <4>3. luaH_get(T, j) = T.node[m].val
        BY <4>1, GetOfNode DEF N
      <4> QED BY <3>1, <4>2, <4>3
    <3>3. CASE \A m \in 1 .. N : T.node[m].key # j
      <4>1. luaH_get(T, j) = "nil"
        BY <1>1, <2>3, <3>3, GetOfNone DEF N
      <4> QED BY <3>1, <4>1
    <3> QED BY <3>2, <3>3
  <2> QED BY <2>1, <2>2, <2>3
<1> QED BY <1>2, <1>3

\* The new key takes its main position: it is found at once, and the others as
\* before.
LEMMA PlaceTakenRight ==
  ASSUME NEW T, Whole(T), NEW k \in Keys, Missing(T, k), NEW v,
         NEW mp \in 1 .. sizenode(T), mp = mainposition(T, k), T.node[mp].val = "nil",
         NEW S, TakesPlace(T, k, v, mp, S)
  PROVE  Whole(S) /\ Put(T, k, v, S)
<1> DEFINE N == sizenode(T)
<1>1. Good(S) /\ Alike(T, S)
  BY PlaceTaken DEF Whole, TakesPlace
<1>2. /\ \A n \in 1 .. N : S.node[n].next = T.node[n].next
      /\ \A n \in 1 .. N : n # mp => S.node[n] = T.node[n]
      /\ S.node[mp].key = k /\ S.node[mp].val = v
  BY DEF TakesPlace, Entry
<1>3. sizenode(S) = N /\ \A j : mainposition(S, j) = mainposition(T, j)
  BY <1>1, MainPositionStays DEF Alike
<1>4. /\ T \in Table /\ Chained(T) /\ Chained(S) /\ N \in Nat
      /\ DOMAIN T.node = 1 .. N /\ DOMAIN S.node = 1 .. N
      /\ Good(T) /\ ~isdummy(T)
  BY <1>1, <1>3, Shape DEF Whole
<1>5. mp \in 1 .. N
  OBVIOUS
<1> HIDE DEF N
<1>6. Hung(S)
  <2>1. ASSUME NEW n \in 1 .. N, S.node[n].key \in Keys
        PROVE  Seek(S, S.node[n].key) = n
    <3> DEFINE j == S.node[n].key
               P == Places(T, j)
               Q == Places(S, j)
               m == mainposition(T, j)
    <3>1. m \in 0 .. N
      BY <1>4, <2>1, Sought DEF N
    <3>2. Seek(S, j) = FirstInChain(S, m, Q) /\ Seek(T, j) = FirstInChain(T, m, P)
      BY <1>3 DEF Seek
    <3>3. FirstInChain(S, m, Q) = FirstInChain(T, m, Q)
      <4> HIDE DEF Q, m
      <4> QED BY <1>2, <1>3, <1>4, <3>1, SameChains DEF N
    <3>4. n \in Q
      BY <1>4, SameKeys DEF Places
    <3>5. CASE n = mp
      <4>1. m = n
        BY <1>2, <3>5
      <4> HIDE DEF Q, m, j
      <4>2. FirstInChain(S, m, Q) = n
        BY <1>3, <1>4, <3>1, <3>4, <4>1, Search DEF Goal
      <4> QED BY <3>2, <4>2 DEF j
    <3>6. CASE n # mp
      <4>1. j = T.node[n].key /\ j # k
        BY <1>2, <3>6 DEF Missing, N
      <4>2. Seek(T, j) = n
        BY <2>1, <4>1 DEF Whole, Hung, N
      <4>3. Q \subseteq P
        <5>1. k \notin Same(j)
          BY <2>1, <4>1, SameKeys
        <5> HIDE DEF j
        <5> QED BY <1>2, <1>4, <5>1 DEF Places
      <4> HIDE DEF P, Q, m, j
      <4>4. FirstInChain(T, m, Q) = n
        <5>1. FirstInChain(T, m, P) \in Q
          BY <3>2, <3>4, <4>2
        <5> QED BY <1>4, <3>1, <3>2, <4>2, <4>3, <5>1, Narrower DEF N
      <4> QED BY <3>2, <3>3, <4>4 DEF j
    <3> QED BY <3>5, <3>6
  <2> QED BY <1>3, <2>1 DEF Hung
<1>7. Single(S)
  <2>1. \A m, n \in 1 .. N : S.node[m].next # 0 /\ S.node[m].next = S.node[n].next => m = n
    BY <1>2 DEF Whole, Single, N
  <2>2. \A n \in 1 .. N : S.node[n].key = nil => S.node[n].next = 0
    BY <1>2, KeysApart DEF Whole, Single, N
  <2> QED BY <1>3, <2>1, <2>2 DEF Single
<1>8. Apart(S)
  <2>1. \A j : InArray(S, j) <=> InArray(T, j)
    BY <1>1, InArrayStays DEF Alike
  <2> QED BY <1>2, <1>3, <2>1 DEF Whole, Apart, Missing, N
<1>9. Put(T, k, v, S)
  <2>1. \E n \in 1 .. N : S.node[n].key = k /\ S.node[n].val = v
    BY <1>2, <1>5
  <2>2. \A n \in 1 .. N : S.node[n].key # k => n # mp /\ S.node[n] = T.node[n]
    BY <1>2
  <2>3. \A n \in 1 .. N : T.node[n].val # "nil" => n # mp /\ S.node[n] = T.node[n]
    BY <1>2
  <2> QED BY <2>1, <2>2, <2>3 DEF Put, N
<1> QED BY <1>1, <1>6, <1>7, <1>8, <1>9 DEF Whole

\* No free position is the main position of a key, or behind another one.
LEMMA FreeAlone ==
  ASSUME NEW T, Good(T), NEW f \in 1 .. sizenode(T), T.node[f].key = nil
  PROVE  /\ \A n \in 1 .. sizenode(T) : T.node[n].key \in Keys => mainposition(T, T.node[n].key) # f
         /\ \A n \in 1 .. sizenode(T) : T.node[n].next # f
<1>1. \A n \in 1 .. sizenode(T) : T.node[n].key \in Keys => mainposition(T, T.node[n].key) # f
  BY DEF Good, Homes, AtHome
<1>2. f # 0
  BY Shape
<1>3. \A n \in 1 .. sizenode(T) : T.node[n].next # f
  BY <1>2 DEF Good, Behind
<1> QED BY <1>1, <1>3

\* The new key goes to f: it is the second in its chain, and the others are
\* found as before.
LEMMA BehindOtherRight ==
  ASSUME NEW T, Whole(T), NEW k \in Keys, Missing(T, k), NEW v,
         NEW mp \in 1 .. sizenode(T), mp = mainposition(T, k), T.node[mp].val # "nil",
         mainposition(T, T.node[mp].key) = mp,
         NEW f, Free(T, f), NEW S, GoesBehind(T, k, v, mp, f, S)
  PROVE  Whole(S) /\ Put(T, k, v, S)
<1> DEFINE N == sizenode(T)
<1>1. Good(S) /\ Alike(T, S)
  BY BehindOther DEF Whole, GoesBehind
<1>2. T.node[mp].key \in Keys /\ T.node[mp].key # nil /\ k # nil
  BY KeysApart DEF Whole, Good, Used
<1>3. f \in 1 .. N /\ f # mp /\ T.node[f].key = nil /\ mp \in 1 .. N
  BY <1>2 DEF Free
<1>4. /\ S.node[f].key = k /\ S.node[f].val = v /\ S.node[f].next = T.node[mp].next
      /\ S.node[mp].key = T.node[mp].key /\ S.node[mp].val = T.node[mp].val /\ S.node[mp].next = f
      /\ \A n \in 1 .. N : n \notin {mp, f} => S.node[n] = T.node[n]
  <2>1. S.node[f] = Entry(k, v, T.node[mp].next) /\ S.node[mp] = Entry(T.node[mp].key, T.node[mp].val, f)
    BY <1>3 DEF GoesBehind, N
  <2>2. \A n \in 1 .. N : n \notin {mp, f} => S.node[n] = T.node[n]
    BY DEF GoesBehind, N
  <2> QED BY <2>1, <2>2 DEF Entry
<1>5. \A n \in 1 .. N : n # f => S.node[n].key = T.node[n].key /\ S.node[n].val = T.node[n].val
  BY <1>4
<1>6. sizenode(S) = N /\ \A j : mainposition(S, j) = mainposition(T, j)
  BY <1>1, MainPositionStays DEF Alike
<1>7. /\ T \in Table /\ Chained(T) /\ Chained(S) /\ N \in Nat
      /\ DOMAIN T.node = 1 .. N /\ DOMAIN S.node = 1 .. N
      /\ Good(T) /\ ~isdummy(T) /\ ~isdummy(S)
  BY <1>1, <1>6, Shape DEF Whole
<1>8. /\ \A n \in 1 .. N : T.node[n].key \in Keys => mainposition(T, T.node[n].key) # f
      /\ \A n \in 1 .. N : T.node[n].next # f
  BY <1>3, <1>7, FreeAlone
<1> HIDE DEF N
<1>9. Hung(S)
  <2>1. ASSUME NEW n \in 1 .. N, S.node[n].key \in Keys
        PROVE  Seek(S, S.node[n].key) = n
    <3> DEFINE j == S.node[n].key
               P == Places(T, j)
               Q == Places(S, j)
               m == mainposition(T, j)
    <3>1. m \in 0 .. N
      BY <1>7, <2>1, Sought DEF N
    <3>2. Seek(S, j) = FirstInChain(S, m, Q) /\ Seek(T, j) = FirstInChain(T, m, P)
      BY <1>6 DEF Seek
    <3>3. n \in Q
      BY <1>7, SameKeys DEF Places
    <3>4. CASE n = f
      <4>1. j = k /\ m = mp
        BY <1>4, <3>4
      <4>2. mp \notin Q
        <5>1. T.node[mp].key # k
          BY DEF Missing
        <5>2. S.node[mp].key \notin Same(k)
          BY <1>2, <1>4, <5>1, SameKeys
        <5> QED BY <4>1, <5>2 DEF Places
      <4> HIDE DEF Q, m, j
      <4>3. FirstInChain(S, f, Q) = f
        <5>1. f \in 0 .. N
          BY <1>3, <1>7
        <5> QED BY <1>6, <1>7, <3>3, <3>4, <5>1, Search DEF Goal
      <4>4. FirstInChain(S, mp, Q) = FirstInChain(S, f, Q)
        <5>1. mp \in 0 .. N /\ mp # 0
          BY <1>3, <1>7
        <5> QED BY <1>4, <1>6, <1>7, <4>2, <5>1, Search DEF Goal
      <4> QED BY <3>2, <3>4, <4>1, <4>3, <4>4 DEF j
    <3>5. CASE n # f
      <4>1. j = T.node[n].key /\ j # k
        BY <1>5, <3>5 DEF Missing, N
      <4>2. Seek(T, j) = n /\ m # f
        BY <1>8, <2>1, <4>1 DEF Whole, Hung, N
      <4>3. f \notin Q /\ \A i \in 1 .. N : i # f => (i \in P <=> i \in Q)
        <5>1. k \notin Same(j)
          BY <2>1, <4>1, SameKeys
        <5> HIDE DEF j
        <5> QED BY <1>4, <1>5, <1>7, <5>1 DEF Places
      <4> HIDE DEF P, Q, m, j
      <4>4. \A i \in 0 .. N : i # f => FirstInChain(S, i, Q) = FirstInChain(T, i, P)
        <5>1. \A i \in 1 .. N : i \notin {mp, f} => S.node[i].next = T.node[i].next
          BY <1>4
        <5>2. S.node[mp].next = f /\ S.node[f].next = T.node[mp].next /\ Chained(T) /\ Chained(S)
          BY <1>4, <1>7
        <5>3. f # mp /\ f \in 1 .. N /\ mp \in 1 .. N
          BY <1>3
        <5> QED BY <1>6, <1>8, <4>3, <5>1, <5>2, <5>3, ChainLengthened DEF N
      <4> QED BY <3>1, <3>2, <4>2, <4>4 DEF j
    <3> QED BY <3>4, <3>5
  <2> QED BY <1>6, <2>1 DEF Hung
<1>10. Single(S)
  <2>1. ASSUME NEW m \in 1 .. N, NEW n \in 1 .. N, S.node[m].next # 0, S.node[m].next = S.node[n].next
        PROVE  m = n
    <3>1. \A i \in 1 .. N : S.node[i].next = IF i = mp THEN f ELSE IF i = f THEN T.node[mp].next ELSE T.node[i].next
      BY <1>3, <1>4
    <3>2. T.node[f].next = 0
      BY <1>3 DEF Whole, Single, N
    <3>3. \A i, l \in 1 .. N : T.node[i].next # 0 /\ T.node[i].next = T.node[l].next => i = l
      BY DEF Whole, Single, N
    <3> QED BY <1>3, <1>8, <2>1, <3>1, <3>2, <3>3
  <2>2. \A n \in 1 .. N : S.node[n].key = nil => S.node[n].next = 0
    BY <1>2, <1>4 DEF Whole, Single, N
  <2> QED BY <1>6, <2>1, <2>2 DEF Single
<1>11. Apart(S)
  <2>1. \A j : InArray(S, j) <=> InArray(T, j)
    BY <1>1, InArrayStays DEF Alike
  <2> QED BY <1>4, <1>5, <1>6, <2>1 DEF Whole, Apart, Missing, N
<1>12. Put(T, k, v, S)
  <2>1. \E n \in 1 .. N : S.node[n].key = k /\ S.node[n].val = v
    BY <1>3, <1>4
  <2>2. \A n \in 1 .. N : S.node[n].key # k => n # f
    BY <1>4
  <2>3. \A n \in 1 .. N : T.node[n].val # "nil" => n # f
    BY <1>2, <1>3, KeysApart DEF Whole, Good, Used, N
  <2> QED BY <1>5, <2>1, <2>2, <2>3 DEF Put, N
<1> QED BY <1>1, <1>9, <1>10, <1>11, <1>12 DEF Whole

\* The node in the way goes to f: it is found there, and the new key in its
\* place.
LEMMA OtherMovedRight ==
  ASSUME NEW T, Whole(T), NEW k \in Keys, Missing(T, k), NEW v,
         NEW mp \in 1 .. sizenode(T), mp = mainposition(T, k), T.node[mp].val # "nil",
         mainposition(T, T.node[mp].key) # mp,
         NEW f, Free(T, f), NEW p \in 1 .. sizenode(T), T.node[p].next = mp,
         NEW S, MovesOther(T, k, v, mp, f, p, S)
  PROVE  Whole(S) /\ Put(T, k, v, S)
<1> DEFINE N == sizenode(T)
<1>1. Good(S) /\ Alike(T, S)
  <2>1. p \in 0 .. sizenode(T) /\ Precedes(T, p, mp)
    BY Shape DEF Precedes, Whole
  <2> QED BY <2>1, OtherMoved DEF Whole, MovesOther
<1>2. T.node[mp].key \in Keys /\ T.node[mp].key # nil /\ k # nil
  BY KeysApart DEF Whole, Good, Used
<1>3. f \in 1 .. N /\ f # mp /\ T.node[f].key = nil /\ mp \in 1 .. N /\ p \in 1 .. N
  BY <1>2 DEF Free
<1>4. /\ T \in Table /\ Chained(T) /\ N \in Nat /\ DOMAIN T.node = 1 .. N /\ Good(T) /\ ~isdummy(T)
  BY Shape DEF Whole
<1>5. p # mp /\ p # f
  <2>1. T.node[f].next = 0 /\ mp # 0
    BY <1>3, <1>4 DEF Whole, Single
  <2>2. PICK r : r \in [0 .. N -> Nat] /\ \A n \in 1 .. N : r[T.node[n].next] < r[n]
    BY <1>4 DEF Chained, Ranks
  <2>3. r[mp] < r[p] /\ r[mp] \in Nat
    BY <1>3, <1>4, <2>2
  <2> QED BY <2>1, <2>3
<1>6. /\ S.node[mp].key = k /\ S.node[mp].val = v /\ S.node[mp].next = 0
      /\ S.node[f] = T.node[mp]
      /\ S.node[p].key = T.node[p].key /\ S.node[p].val = T.node[p].val /\ S.node[p].next = f
      /\ \A n \in 1 .. N : n \notin {mp, f, p} => S.node[n] = T.node[n]
  <2>1. /\ S.node[mp] = Entry(k, v, 0) /\ S.node[f] = T.node[mp]
        /\ S.node[p] = Entry(T.node[p].key, T.node[p].val, f)
    BY <1>3, <1>5 DEF MovesOther, N
  <2>2. \A n \in 1 .. N : n \notin {mp, f, p} => S.node[n] = T.node[n]
    BY DEF MovesOther, N
  <2> QED BY <2>1, <2>2 DEF Entry
<1>7. \A n \in 1 .. N : n \notin {mp, f} => S.node[n].key = T.node[n].key /\ S.node[n].val = T.node[n].val
  BY <1>6
<1>8. sizenode(S) = N /\ \A j : mainposition(S, j) = mainposition(T, j)
  BY <1>1, MainPositionStays DEF Alike
<1>9. Chained(S) /\ DOMAIN S.node = 1 .. N /\ ~isdummy(S)
  BY <1>1, <1>4, <1>8, Shape
<1>10. /\ \A n \in 1 .. N : T.node[n].key \in Keys => mainposition(T, T.node[n].key) # f
       /\ \A n \in 1 .. N : T.node[n].next # f
  BY <1>3, <1>4, FreeAlone
<1>11. \A n \in 1 .. N : T.node[n].key \in Keys => mainposition(T, T.node[n].key) # mp
  <2>1. ASSUME NEW n \in 1 .. N, T.node[n].key \in Keys, mainposition(T, T.node[n].key) = mp
        PROVE  FALSE
    <3>1. AtHome(T, mp)
      BY <2>1 DEF Whole, Good, Homes
    <3> QED BY <1>2, <3>1 DEF AtHome
  <2> QED BY <2>1
<1>12. /\ \A i, l \in 1 .. N : T.node[i].next # 0 /\ T.node[i].next = T.node[l].next => i = l
       /\ \A n \in 1 .. N : T.node[n].key = nil => T.node[n].next = 0
       /\ \A n \in 1 .. N : T.node[n].key \in Keys => Seek(T, T.node[n].key) = n
  BY DEF Whole, Single, Hung
<1>13. \A n \in 1 .. N : T.node[n].next = mp => n = p
  BY <1>3, <1>4, <1>12
<1> HIDE DEF N
<1>14. ASSUME NEW n \in 1 .. N, T.node[n].key \in Keys
       PROVE  Seek(S, T.node[n].key) = Elsewhere(n, mp, f)
  <2> DEFINE j == T.node[n].key
             P == Places(T, j)
             Q == Places(S, j)
             m == mainposition(T, j)
  <2>1. m \in 0 .. N
    BY <1>4, <1>14, Sought DEF N
  <2>2. Seek(S, j) = FirstInChain(S, m, Q) /\ Seek(T, j) = FirstInChain(T, m, P)
    BY <1>8 DEF Seek
  <2>3. Seek(T, j) = n /\ m # f /\ m # mp /\ j # k
    BY <1>10, <1>11, <1>12, <1>14 DEF Missing, N
  <2>4. (f \in Q <=> mp \in P) /\ \A i \in 1 .. N : i \notin {mp, f} => (i \in P <=> i \in Q)
    <3> HIDE DEF j
    <3> QED BY <1>3, <1>4, <1>6, <1>7, <1>9 DEF Places
  <2> HIDE DEF P, Q, m, j
  <2>5. \A i \in 0 .. N : i # f => FirstInChain(S, Elsewhere(i, mp, f), Q) = Elsewhere(FirstInChain(T, i, P), mp, f)
    <3>1. \A i \in 1 .. N : i \notin {mp, f, p} => S.node[i].next = T.node[i].next
      BY <1>6
    <3>2. S.node[p].next = f /\ S.node[f].next = T.node[mp].next
      BY <1>6
    <3>3. f # mp /\ f \in 1 .. N /\ mp \in 1 .. N /\ p \in 1 .. N /\ T.node[p].next = mp
      BY <1>3
    <3>4. Chained(T) /\ Chained(S) /\ \A i \in 1 .. N : T.node[i].next # f
      BY <1>4, <1>9, <1>10
    <3>5. Moved(T, S, mp, f, p, P, Q)
      BY <1>8, <1>13, <2>4, <3>1, <3>2, <3>3, <3>4 DEF Moved, N
    <3> QED BY <3>4, <3>5, ChainMoves DEF N
  <2>6. Elsewhere(m, mp, f) = m
    BY <2>3 DEF Elsewhere
  <2> QED BY <2>1, <2>2, <2>3, <2>5, <2>6 DEF j
<1>15. Hung(S)
  <2>1. ASSUME NEW n \in 1 .. N, S.node[n].key \in Keys
        PROVE  Seek(S, S.node[n].key) = n
    <3>1. CASE n = mp
      <4> DEFINE Q == Places(S, k)
      <4>1. n \in Q
        BY <1>6, <1>9, <3>1, SameKeys DEF Places
      <4>2. Seek(S, k) = FirstInChain(S, n, Q)
        BY <1>8, <3>1 DEF Seek
      <4> HIDE DEF Q
      <4>3. FirstInChain(S, n, Q) = n
        <5>1. n \in 0 .. N
          BY <1>4
        <5> QED BY <1>8, <1>9, <4>1, <5>1, Search DEF Goal
      <4> QED BY <1>6, <3>1, <4>2, <4>3
    <3>2. CASE n = f
      BY <1>3, <1>6, <1>14, <2>1, <3>2 DEF Elsewhere
    <3>3. CASE n \notin {mp, f}
      BY <1>7, <1>14, <2>1, <3>3 DEF Elsewhere
    <3> QED BY <3>1, <3>2, <3>3
  <2> QED BY <1>8, <2>1 DEF Hung
<1>16. Single(S)
  <2>1. ASSUME NEW m \in 1 .. N, NEW n \in 1 .. N, S.node[m].next # 0, S.node[m].next = S.node[n].next
        PROVE  m = n
    <3>1. \A i \in 1 .. N : S.node[i].next = IF i = mp THEN 0 ELSE IF i = f THEN T.node[mp].next
                                             ELSE IF i = p THEN f ELSE T.node[i].next
      BY <1>3, <1>5, <1>6
    <3>2. T.node[f].next = 0 /\ T.node[p].next = mp
      BY <1>3, <1>12
    <3> QED BY <1>3, <1>5, <1>10, <1>12, <2>1, <3>1, <3>2
  <2>2. \A n \in 1 .. N : S.node[n].key = nil => S.node[n].next = 0
    <3>1. T.node[p].key # nil
      BY <1>3, <1>4, <1>12
    <3> QED BY <1>2, <1>3, <1>6, <1>12, <3>1
  <2> QED BY <1>8, <2>1, <2>2 DEF Single
<1>17. Apart(S)
  <2>1. \A j : InArray(S, j) <=> InArray(T, j)
    BY <1>1, InArrayStays DEF Alike
  <2>2. \A n \in 1 .. N : T.node[n].key \in Keys => ~InArray(T, T.node[n].key)
    BY DEF Whole, Apart, N
  <2>3. ASSUME NEW n \in 1 .. N, S.node[n].key \in Keys
        PROVE  ~InArray(T, S.node[n].key)
    <3>1. CASE n = mp
      BY <1>6, <3>1 DEF Missing
    <3>2. CASE n # mp
      <4>1. S.node[n].key = T.node[n].key \/ S.node[n].key = T.node[mp].key
        BY <1>6, <1>7, <3>2
      <4> QED BY <1>3, <2>2, <2>3, <4>1
    <3> QED BY <3>1, <3>2
  <2> QED BY <1>8, <2>1, <2>3 DEF Apart
<1>18. Put(T, k, v, S)
  <2>1. \E n \in 1 .. N : S.node[n].key = k /\ S.node[n].val = v
    BY <1>3, <1>6
  <2>2. ASSUME NEW n \in 1 .. N, S.node[n].key # k
        PROVE  \E m \in 1 .. N : T.node[m].key = S.node[n].key /\ T.node[m].val = S.node[n].val
    <3>1. n # mp
      BY <1>6, <2>2
    <3> QED BY <1>3, <1>6, <1>7, <3>1
  <2>3. ASSUME NEW n \in 1 .. N, T.node[n].val # "nil"
        PROVE  \E m \in 1 .. N : S.node[m].key = T.node[n].key /\ S.node[m].val = T.node[n].val
    <3>1. n # f
      BY <1>3, <2>3, KeysApart DEF Whole, Good, Used, N
    <3> QED BY <1>3, <1>6, <1>7, <3>1
  <2> QED BY <2>1, <2>2, <2>3 DEF Put, N
<1> QED BY <1>1, <1>15, <1>16, <1>17, <1>18 DEF Whole

\* A key that is not found has no node.
LEMMA NotFoundMissing ==
  ASSUME NEW T, Good(T), Hung(T), NEW k \in Keys, ~InArray(T, k), FindNode(T, k) = 0
  PROVE  Missing(T, k)
<1>1. ASSUME NEW n \in 1 .. sizenode(T), T.node[n].key = k
      PROVE  FALSE
  <2>1. FindNode(T, k) = n /\ n # 0
    BY <1>1, KeyFound, Shape
  <2> QED BY <2>1
<1> QED BY <1>1 DEF Missing

\* In the chain of the colliding node there is one before it.
LEMMA PreviousRight ==
  ASSUME NEW T, Good(T), Hung(T), NEW mp \in 1 .. sizenode(T), T.node[mp].key \in Keys,
         NEW othern, othern = mainposition(T, T.node[mp].key), othern # mp,
         NEW p, p = FirstInChain(T, othern, {n \in DOMAIN T.node : T.node[n].next = mp})
  PROVE  p \in 1 .. sizenode(T) /\ T.node[p].next = mp
<1> DEFINE P == Places(T, T.node[mp].key)
           A == {n \in DOMAIN T.node : T.node[n].next = mp}
<1>1. Chained(T) /\ sizenode(T) \in Nat /\ ~isdummy(T)
  BY Shape
<1>2. othern \in 0 .. sizenode(T)
  BY <1>1, Sought
<1>3. FirstInChain(T, othern, P) = mp
  BY DEF Hung, Seek
<1>4. p # 0
  <2> HIDE DEF P
  <2> QED BY <1>1, <1>2, <1>3, PreviousFound
<1>5. p \in 0 .. sizenode(T) /\ Goal(p, A)
  <2> HIDE DEF A
  <2> QED BY <1>1, <1>2, Search DEF A
<1> QED BY <1>1, <1>4, <1>5 DEF Goal

\* A new key is put into the table, and everything else is found as before.
LEMMA NewKeyRight ==
  ASSUME NEW T, Whole(T), NEW k \in Keys, Missing(T, k), NEW v \in Value \cup {"nil"}, ~MustRehash(T, k)
  PROVE  Whole(luaH_newkey(T, k, v)) /\ Put(T, k, v, luaH_newkey(T, k, v)) /\ Alike(T, luaH_newkey(T, k, v))
<1> DEFINE N == sizenode(T)
           mp == mainposition(T, k)
           f == getfreepos(T)
           othern == mainposition(T, T.node[mp].key)
           p == FirstInChain(T, othern, {n \in DOMAIN T.node : T.node[n].next = mp})
           S == luaH_newkey(T, k, v)
<1>1. T \in Table /\ N \in Nat \ {0} /\ Good(T) /\ Hung(T)
  BY Shape DEF Whole, MustRehash
<1>2. mp \in 1 .. N
  BY <1>1, MainPosition
<1>3. CASE ~MainPositionTaken(T, k)
  <2>1. T.node[mp].val = "nil"
    BY <1>3 DEF MainPositionTaken
  <2> HIDE DEF mp, S, N
  <2>2. TakesPlace(T, k, v, mp, S)
    BY <1>1, <1>2, <1>3, NewKeyTakes DEF mp, S, N
  <2>3. Whole(S) /\ Put(T, k, v, S)
    BY <1>2, <2>1, <2>2, PlaceTakenRight DEF mp, N
  <2> QED BY <2>2, <2>3 DEF S, TakesPlace
<1>4. CASE MainPositionTaken(T, k)
  <2>1. Free(T, f)
    BY <1>1, <1>4, FreePosition DEF MustRehash, Free
  <2>2. T.node[mp].val # "nil"
    BY <1>4 DEF MainPositionTaken
  <2>3. T.node[mp].key \in Keys
    BY <1>1, <1>2, <2>2 DEF Good, Used
  <2> HIDE DEF mp, S, N, f
  <2>4. f \in 1 .. N /\ f # mp
    BY <2>1, <2>3, KeysApart DEF Free, N
  <2>5. CASE othern = mp
    <3>1. GoesBehind(T, k, v, mp, f, S)
      BY <1>1, <1>2, <1>4, <2>4, <2>5, NewKeyGoesBehind DEF mp, f, S, N
    <3>2. Whole(S) /\ Put(T, k, v, S)
      BY <1>2, <2>1, <2>2, <2>5, <3>1, BehindOtherRight DEF mp, N
    <3> QED BY <3>1, <3>2 DEF S, GoesBehind
  <2>6. CASE othern # mp
    <3> HIDE DEF othern
    <3>1. p \in 1 .. N /\ T.node[p].next = mp
      <4>1. othern = mainposition(T, T.node[mp].key) /\ mp \in 1 .. sizenode(T)
        BY <1>2 DEF othern, N
      <4>2. p = FirstInChain(T, othern, {n \in DOMAIN T.node : T.node[n].next = mp})
        OBVIOUS
      <4> HIDE DEF p
      <4> QED BY <1>1, <2>3, <2>6, <4>1, <4>2, PreviousRight DEF N
    <3>2. p \in 0 .. N
      BY <1>1, <3>1
    <3> HIDE DEF p
    <3>3. MovesOther(T, k, v, mp, f, p, S)
      BY <1>1, <1>2, <1>4, <2>4, <2>6, <3>2, NewKeyMoves DEF mp, f, othern, p, S, N
    <3>4. Whole(S) /\ Put(T, k, v, S)
      BY <1>2, <2>1, <2>2, <2>6, <3>1, <3>3, OtherMovedRight DEF mp, othern, N
    <3> QED BY <3>3, <3>4 DEF S, MovesOther
  <2> QED BY <2>5, <2>6
<1> QED BY <1>3, <1>4

\* The keys of the nodes.
KeysIn(T) == {T.node[n].key : n \in 1 .. sizenode(T)}

\* The same keys and chains as before.
LEMMA SameHung ==
  ASSUME NEW T, Good(T), NEW S, Good(S), sizenode(S) = sizenode(T),
         \A n \in 1 .. sizenode(T) : S.node[n].next = T.node[n].next /\ S.node[n].key = T.node[n].key
  PROVE  \A k \in Keys : /\ FindNode(S, k) = FindNode(T, k)
                         /\ ~isdummy(T) => Seek(S, k) = Seek(T, k)
<1>1. /\ Chained(T) /\ Chained(S) /\ DOMAIN T.node = 1 .. sizenode(T) /\ DOMAIN S.node = 1 .. sizenode(T)
      /\ (isdummy(S) <=> isdummy(T)) /\ sizenode(T) \in Nat
  BY Shape
<1>2. \A n \in 0 .. sizenode(T) : \A A : FirstInChain(S, n, A) = FirstInChain(T, n, A)
  BY <1>1, SameChains
<1>3. \A k : mainposition(S, k) = mainposition(T, k)
  BY MainPositionStays
<1>4. ASSUME NEW k \in Keys, ~isdummy(T)
      PROVE  FindNode(S, k) = FindNode(T, k) /\ Seek(S, k) = Seek(T, k)
  <2> DEFINE A == {n \in DOMAIN T.node : T.node[n].key = k}
             B == {n \in DOMAIN S.node : S.node[n].key = k}
  <2>1. mainposition(T, k) \in 0 .. sizenode(T)
    BY <1>1, <1>4, Sought
  <2>2. A = B /\ Places(S, k) = Places(T, k)
    BY <1>1 DEF Places
  <2>3. FindNode(S, k) = FirstInChain(S, mainposition(S, k), B) /\ FindNode(T, k) = FirstInChain(T, mainposition(T, k), A)
    BY <1>1, <1>4 DEF FindNode
  <2> HIDE DEF A, B
  <2> QED BY <1>2, <1>3, <2>1, <2>2, <2>3 DEF Seek
<1>5. ASSUME isdummy(T), NEW k \in Keys
      PROVE  FindNode(S, k) = FindNode(T, k)
  BY <1>1, <1>5 DEF FindNode
<1> QED BY <1>4, <1>5

\* A table with the same keys and chains is as whole as before.
LEMMA SameWhole ==
  ASSUME NEW T, Whole(T), NEW S, Good(S), sizenode(S) = sizenode(T), sizearray(S) = sizearray(T),
         \A n \in 1 .. sizenode(T) : S.node[n].next = T.node[n].next /\ S.node[n].key = T.node[n].key
  PROVE  Whole(S)
<1>1. \A j : InArray(S, j) <=> InArray(T, j)
  BY InArrayStays
<1>2. Hung(S)
  <2>1. ASSUME NEW n \in 1 .. sizenode(T), T.node[n].key \in Keys
        PROVE  Seek(S, T.node[n].key) = n
    <3>1. Seek(T, T.node[n].key) = n
      BY <2>1 DEF Whole, Hung
    <3>2. ~isdummy(T)
      BY Shape DEF Whole
    <3> QED BY <2>1, <3>1, <3>2, SameHung DEF Whole
  <2> QED BY <2>1 DEF Hung
<1>3. Single(S) /\ Apart(S)
  BY <1>1 DEF Whole, Single, Apart
<1> QED BY <1>2, <1>3 DEF Whole

\* An assignment that needs no rehash.
Assigned(T, k, v, S) ==
  /\ Whole(S) /\ sizenode(S) = sizenode(T) /\ sizearray(S) = sizearray(T)
  /\ KeysIn(S) \subseteq KeysIn(T) \cup IF InArray(T, k) THEN {} ELSE {k}
  /\ \A j \in Keys : luaH_get(S, j) = IF j = k THEN v ELSE luaH_get(T, j)

LEMMA ArrayAssigned ==
  ASSUME NEW T, Whole(T), NEW k \in Keys, NEW v \in Value \cup {"nil"}, InArray(T, k)
  PROVE  /\ Assigned(T, k, v, luaH_set(T, k, v))
         /\ luaH_set(T, k, v).node = T.node
<1> DEFINE a == [T.array EXCEPT ![k.v] = v]
           S == [T EXCEPT !.array = a]
           M == Len(T.array)
<1>1. T \in Table /\ T.array \in Seq(Value \cup {"nil"}) /\ M \in Nat /\ M = sizearray(T) /\ Good(T)
  BY Shape DEF Whole, Table, sizearray
<1>2. k.v \in 1 .. M /\ ttisinteger(k)
  BY DEF InArray, sizearray
<1>3. a \in Seq(Value \cup {"nil"}) /\ Len(a) = M
  BY <1>1, <1>2
<1>4. \A i \in 1 .. M : a[i] = IF i = k.v THEN v ELSE T.array[i]
  BY <1>1, <1>2
<1>5. luaH_set(T, k, v) = S
  BY DEF luaH_set
<1> HIDE DEF a
<1>6. S \in Table /\ S.array = a /\ S.node = T.node /\ sizearray(S) = M /\ sizenode(S) = sizenode(T)
  BY <1>1, <1>3, WithArray
<1>7. Good(S)
  BY <1>1, <1>5, SetGood
<1> HIDE DEF S
<1>8. Whole(S)
  BY <1>1, <1>6, <1>7, SameWhole
<1>9. \A j : InArray(S, j) <=> InArray(T, j)
  BY <1>1, <1>6, InArrayStays
<1>10. ASSUME NEW j \in Keys
       PROVE  luaH_get(S, j) = IF j = k THEN v ELSE luaH_get(T, j)
  <2>1. CASE InArray(T, j)
    <3>1. luaH_get(S, j) = a[j.v] /\ luaH_get(T, j) = T.array[j.v]
      BY <1>6, <1>9, <2>1, GetOfArray
    <3>2. j.v \in 1 .. M
      BY <1>1, <2>1 DEF InArray
    <3>3. j.v = k.v <=> j = k
      <4>1. \A i \in Keys : ttisinteger(i) => i = IntKey(i.v)
        BY DEF Keys, Objects, ttisinteger, IntKey
      <4>2. ttisinteger(j)
        BY <2>1 DEF InArray
      <4>3. j = IntKey(j.v) /\ k = IntKey(k.v)
        BY <1>2, <4>1, <4>2
      <4> QED BY <4>3
    <3> QED BY <1>4, <3>1, <3>2, <3>3
  <2>2. CASE ~InArray(T, j)
    <3>1. FindNode(S, j) = FindNode(T, j)
      BY <1>1, <1>6, <1>7, SameHung
    <3> QED BY <1>6, <1>9, <2>2, <3>1 DEF luaH_get
  <2> QED BY <2>1, <2>2
<1>11. KeysIn(S) = KeysIn(T)
  BY <1>6 DEF KeysIn
<1> QED BY <1>1, <1>5, <1>6, <1>8, <1>10, <1>11 DEF Assigned

LEMMA NodeAssigned ==
  ASSUME NEW T, Whole(T), NEW k \in Keys, NEW v \in Value \cup {"nil"}, ~InArray(T, k), FindNode(T, k) # 0
  PROVE  LET S == luaH_set(T, k, v)
         IN  /\ Assigned(T, k, v, S)
             /\ \A n \in 1 .. sizenode(T) : S.node[n].key = T.node[n].key /\ S.node[n].next = T.node[n].next
<1> DEFINE S == luaH_set(T, k, v)
           n == FindNode(T, k)
           N == sizenode(T)
<1>1. Good(T) /\ Hung(T) /\ T \in Table /\ N \in Nat
  BY Shape DEF Whole
<1>2. n \in 1 .. N /\ T.node[n].key = k
  BY <1>1, NodeFound
<1>3. S = SetVal(T, n, v)
  BY DEF luaH_set
<1>4. Good(S)
  BY <1>1, SetGood
<1> HIDE DEF S, n, N
<1>5. Changed(T, n, Entry(T.node[n].key, v, T.node[n].next), S)
  BY <1>1, <1>2, <1>3, SetValChanges DEF N
<1>6. /\ sizenode(S) = N /\ sizearray(S) = sizearray(T) /\ S.array = T.array
      /\ \A m \in 1 .. N : S.node[m] = IF m = n THEN Entry(T.node[n].key, v, T.node[n].next) ELSE T.node[m]
  BY <1>5 DEF Changed, N
<1>7. /\ \A m \in 1 .. N : S.node[m].key = T.node[m].key /\ S.node[m].next = T.node[m].next
      /\ \A m \in 1 .. N : m # n => S.node[m].val = T.node[m].val
      /\ S.node[n].val = v
  BY <1>2, <1>6 DEF Entry
<1>8. Whole(S)
  BY <1>4, <1>6, <1>7, SameWhole DEF N
<1>9. \A j : InArray(S, j) <=> InArray(T, j)
  BY <1>6, InArrayStays
<1>10. ASSUME NEW j \in Keys
       PROVE  luaH_get(S, j) = IF j = k THEN v ELSE luaH_get(T, j)
  <2>1. CASE InArray(T, j)
    BY <1>6, <1>9, <2>1 DEF luaH_get
  <2>2. CASE ~InArray(T, j) /\ j = k
    BY <1>2, <1>6, <1>7, <1>8, <2>2, GetOfNode
  <2>3. CASE ~InArray(T, j) /\ j # k
    <3>1. FindNode(S, j) = FindNode(T, j)
      BY <1>1, <1>4, <1>6, <1>7, SameHung DEF N
    <3>2. CASE FindNode(T, j) = 0
      BY <1>9, <2>3, <3>1, <3>2 DEF luaH_get
    <3>3. CASE FindNode(T, j) # 0
      <4>1. FindNode(T, j) \in 1 .. N /\ T.node[FindNode(T, j)].key = j
        BY <1>1, <3>3, NodeFound DEF N
      <4>2. FindNode(T, j) # n
        BY <1>2, <2>3, <4>1
      <4>3. S.node[FindNode(T, j)].val = T.node[FindNode(T, j)].val
        BY <1>7, <4>1, <4>2
      <4> QED BY <1>9, <2>3, <3>1, <3>3, <4>3 DEF luaH_get
    <3> QED BY <3>2, <3>3
  <2> QED BY <2>1, <2>2, <2>3
<1>11. KeysIn(S) \subseteq KeysIn(T) \cup {k}
  BY <1>6, <1>7 DEF KeysIn, N
<1> QED BY <1>6, <1>7, <1>8, <1>10, <1>11 DEF Assigned, S, N

LEMMA NewAssigned ==
  ASSUME NEW T, Whole(T), NEW k \in Keys, NEW v \in Value \cup {"nil"},
         ~InArray(T, k), FindNode(T, k) = 0, ~MustRehash(T, k)
  PROVE  Assigned(T, k, v, luaH_set(T, k, v))
<1> DEFINE S == luaH_newkey(T, k, v)
<1>1. Missing(T, k)
  BY NotFoundMissing DEF Whole
<1>2. luaH_set(T, k, v) = S
  BY DEF luaH_set
<1>3. Whole(S) /\ Put(T, k, v, S) /\ Alike(T, S)
  BY <1>1, NewKeyRight
<1> HIDE DEF S
<1>4. \A j \in Keys : luaH_get(S, j) = IF j = k THEN v ELSE luaH_get(T, j)
  BY <1>1, <1>3, PutRight
<1>5. KeysIn(S) \subseteq KeysIn(T) \cup {k}
  BY <1>3 DEF KeysIn, Put, Alike
<1> QED BY <1>2, <1>3, <1>4, <1>5 DEF Assigned, Alike

LEMMA SetRight ==
  ASSUME NEW T, Whole(T), NEW k \in Keys, NEW v \in Value \cup {"nil"},
         InArray(T, k) \/ FindNode(T, k) # 0 \/ ~MustRehash(T, k)
  PROVE  Assigned(T, k, v, luaH_set(T, k, v))
BY ArrayAssigned, NodeAssigned, NewAssigned

-----------------------------------------------------------------------------
(* A rehash loses nothing.                                                 *)

\* There is room for a new key among few.
LEMMA Room ==
  ASSUME NEW T, Whole(T), NEW P \in SUBSET Keys, IsFiniteSet(P), Cardinality(P) <= sizenode(T),
         KeysIn(T) \subseteq P \cup {nil}, NEW k \in P, FindNode(T, k) = 0, ~InArray(T, k)
  PROVE  ~MustRehash(T, k)
<1> DEFINE N == sizenode(T)
           Q == P \ {k}
           f == [n \in 1 .. N |-> T.node[n].key]
<1>1. N \in Nat /\ Good(T) /\ Hung(T) /\ T \in Table /\ T.lastfree \in Nat /\ (isdummy(T) <=> N = 0)
  BY Shape DEF Whole, Table
<1>2. IsFiniteSet(Q) /\ Cardinality(Q) = Cardinality(P) - 1 /\ Cardinality(P) \in Nat /\ Cardinality(Q) \in Nat
  <2>1. Cardinality(P) \in Nat
    BY FS_CardinalityType
  <2>2. IsFiniteSet(P \ {k}) /\ Cardinality(P \ {k}) = Cardinality(P) - 1
    BY FS_RemoveElement
  <2>3. Cardinality(P \ {k}) \in Nat
    BY <2>2, FS_CardinalityType
  <2> QED BY <2>1, <2>2, <2>3
<1>3. ~isdummy(T)
  BY <1>1, <1>2
<1>4. Missing(T, k)
  BY <1>1, NotFoundMissing
<1> HIDE DEF N, Q
<1>5. ASSUME FreeNodes(T) = {}
      PROVE  FALSE
  <2>1. ASSUME NEW n \in 1 .. N
        PROVE  T.node[n].key # nil
    <3>1. CASE n < T.lastfree
      BY <1>1, <1>5, <3>1 DEF FreeNodes
    <3>2. CASE n >= T.lastfree
      BY <1>1, <3>2 DEF Good, Keyed, N
    <3> QED BY <1>1, <3>1, <3>2
  <2>2. f \in [1 .. N -> Q]
    <3>1. ASSUME NEW n \in 1 .. N
          PROVE  T.node[n].key \in Q
      <4>1. T.node[n].key \in P \cup {nil}
        BY DEF KeysIn, N
      <4> QED BY <1>4, <2>1, <4>1 DEF Missing, N, Q
    <3> QED BY <3>1
  <2>3. IsFiniteSet(1 .. N) /\ Cardinality(1 .. N) = N
    <3>1. IsFiniteSet(1 .. N) /\ Cardinality(1 .. N) = IF 1 > N THEN 0 ELSE N - 1 + 1
      BY <1>1, FS_Interval
    <3> QED BY <1>1, <3>1
  <2>4. Cardinality(Q) < Cardinality(1 .. N)
    BY <1>1, <1>2, <2>3 DEF N
  <2>5. PICK m \in 1 .. N, n \in 1 .. N : m # n /\ f[m] = f[n]
    <3> DEFINE I == 1 .. N
    <3>1. IsFiniteSet(I) /\ Cardinality(Q) < Cardinality(I) /\ IsFiniteSet(Q) /\ f \in [I -> Q]
      BY <1>2, <2>2, <2>3, <2>4
    <3> HIDE DEF f, I
    <3>2. \E x, y \in I : x # y /\ f[x] = f[y]
      BY <3>1, FS_PigeonHole
    <3> QED BY <3>2 DEF I
  <2>6. T.node[m].key = T.node[n].key /\ T.node[m].key \in Keys
    BY <2>2, <2>5 DEF Q
  <2>7. FindNode(T, T.node[m].key) = m /\ FindNode(T, T.node[n].key) = n
    BY <1>1, <2>6, KeyFound DEF N
  <2> QED BY <2>5, <2>6, <2>7
<1> QED BY <1>3, <1>5 DEF MustRehash

\* Entries of few keys that are put into a table are all in it in the end.
Present(es, i, j) == \E l \in 1 .. i : es[l].val # "nil" /\ es[l].key = j
Filled(R, es, i, M, P) ==
  {S \in Table : /\ Whole(S) /\ sizearray(S) = sizearray(R) /\ sizenode(S) = sizenode(R)
                 /\ KeysIn(S) \subseteq P \cup {nil}
                 /\ \A j \in Keys :
                      luaH_get(S, j) = IF Present(es, i, j) \/ luaH_get(R, j) # "nil" THEN M[j] ELSE "nil"}
Fills(R, es, M, P) ==
  /\ KeysIn(R) \subseteq P \cup {nil}
  /\ \A i \in 1 .. Len(es) :
       /\ Sound(es[i])
       /\ es[i].val # "nil" => /\ es[i].key \in P \/ InArray(R, es[i].key)
                               /\ es[i].val = M[es[i].key]
  /\ \A j \in Keys : luaH_get(R, j) \in {"nil", M[j]}

LEMMA ReinsertedRight ==
  ASSUME NEW R, Whole(R), NEW P \in SUBSET Keys, IsFiniteSet(P), Cardinality(P) <= sizenode(R),
         NEW es, Len(es) \in Nat, NEW M, Fills(R, es, M, P)
  PROVE  ReinsertAll(R, es) \in Filled(R, es, Len(es), M, P)
<1> DEFINE n == Len(es)
           Gs == [i \in 0 .. n |-> Filled(R, es, i, M, P)]
<1>1. n \in Nat /\ KeysIn(R) \subseteq P \cup {nil} /\ \A j \in Keys : luaH_get(R, j) \in {"nil", M[j]}
  BY DEF Fills
<1>2. \A i \in 1 .. n : /\ Sound(es[i])
                        /\ es[i].val # "nil" => /\ es[i].key \in P \/ InArray(R, es[i].key)
                                                /\ es[i].val = M[es[i].key]
  BY DEF Fills
<1> HIDE DEF n
<1>3. R \in Filled(R, es, 0, M, P)
  <2>1. \A j : ~Present(es, 0, j)
    BY DEF Present
  <2>2. R \in Table
    BY Shape DEF Whole
  <2> QED BY <1>1, <2>1, <2>2 DEF Filled
<1>4. ASSUME NEW i \in 1 .. n, NEW S \in Filled(R, es, i - 1, M, P)
      PROVE  Reinsert(S, es[i]) \in Filled(R, es, i, M, P)
  <2> DEFINE k == es[i].key
             v == es[i].val
             U == Reinsert(S, es[i])
  <2>1. /\ Whole(S) /\ sizearray(S) = sizearray(R) /\ sizenode(S) = sizenode(R)
        /\ KeysIn(S) \subseteq P \cup {nil} /\ S \in Table
        /\ \A j \in Keys : luaH_get(S, j) = IF Present(es, i - 1, j) \/ luaH_get(R, j) # "nil" THEN M[j] ELSE "nil"
    BY DEF Filled
  <2>2. \A j : Present(es, i, j) <=> Present(es, i - 1, j) \/ (v # "nil" /\ k = j)
    <3>1. \A l : l \in 1 .. i <=> l \in 1 .. i - 1 \/ l = i
      BY <1>1
    <3> QED BY <3>1 DEF Present
  <2>3. U = IF v = "nil" THEN S ELSE luaH_set(S, k, v)
    BY DEF Reinsert
  <2>4. /\ v \in Value \cup {"nil"}
        /\ v # "nil" => k \in Keys /\ v = M[k] /\ (k \in P \/ InArray(R, k))
    BY <1>2 DEF Sound
  <2> HIDE DEF U, v, k
  <2>5. CASE v = "nil"
    BY <2>1, <2>2, <2>3, <2>5 DEF Filled, U
  <2>6. CASE v # "nil"
    <3>1. InArray(S, k) <=> InArray(R, k)
      BY <2>1, InArrayStays
    <3>2. InArray(S, k) \/ FindNode(S, k) # 0 \/ ~MustRehash(S, k)
      <4>1. ASSUME ~InArray(S, k), FindNode(S, k) = 0
            PROVE  ~MustRehash(S, k)
        <5>1. k \in P /\ Cardinality(P) <= sizenode(S)
          BY <2>1, <2>4, <2>6, <3>1, <4>1
        <5> QED BY <2>1, <4>1, <5>1, Room
      <4> QED BY <4>1
    <3>3. Assigned(S, k, v, U)
      BY <2>1, <2>3, <2>4, <2>6, <3>2, SetRight
    <3>4. /\ Whole(U) /\ sizearray(U) = sizearray(R) /\ sizenode(U) = sizenode(R)
          /\ KeysIn(U) \subseteq P \cup {nil} /\ U \in Table
      <4>1. Whole(U) /\ sizearray(U) = sizearray(R) /\ sizenode(U) = sizenode(R)
        BY <2>1, <3>3 DEF Assigned
      <4>2. KeysIn(U) \subseteq P \cup {nil}
        BY <2>1, <2>4, <2>6, <3>1, <3>3 DEF Assigned
      <4>3. U \in Table
        BY <4>1, Shape DEF Whole
      <4> QED BY <4>1, <4>2, <4>3
    <3>5. \A j \in Keys : luaH_get(U, j) = IF Present(es, i, j) \/ luaH_get(R, j) # "nil" THEN M[j] ELSE "nil"
      <4>1. \A j \in Keys : luaH_get(U, j) = IF j = k THEN v ELSE luaH_get(S, j)
        BY <3>3 DEF Assigned
      <4> QED BY <2>1, <2>2, <2>4, <2>6, <4>1
    <3> QED BY <3>4, <3>5 DEF Filled, U
  <2> QED BY <2>5, <2>6
<1>5. \A i \in 0 .. n : Gs[i] = Filled(R, es, i, M, P)
  OBVIOUS
<1> HIDE DEF Gs
<1>6. R \in Gs[0]
  BY <1>1, <1>3, <1>5
<1>7. ASSUME NEW i \in 1 .. n, NEW S \in Gs[i - 1]
      PROVE  Reinsert(S, es[i]) \in Gs[i]
  <2>1. i \in 0 .. n /\ i - 1 \in 0 .. n
    BY <1>1
  <2> QED BY <1>4, <1>5, <2>1
<1>8. ReinsertAll(R, es) \in Gs[n]
  BY <1>1, <1>6, <1>7, ReinsertedIn DEF n
<1>9. n \in 0 .. n
  BY <1>1
<1> QED BY <1>5, <1>8, <1>9 DEF n

\* What luaH_resize puts in again: the fields of the array part from nasize on,
\* and the nodes.
EntriesFrom(T, nasize) ==
  SubSeq([i \in 1 .. sizearray(T) |-> [key |-> IntKey(i), val |-> T.array[i]]], nasize + 1, sizearray(T))
    \o Reverse(T.node)

\* A sequence has the elements of two others.
Joined(s, u, c) ==
  /\ Len(c) \in Nat
  /\ \A l \in 1 .. Len(c) : (\E i \in 1 .. Len(s) : c[l] = s[i]) \/ (\E i \in 1 .. Len(u) : c[l] = u[i])
  /\ \A i \in 1 .. Len(s) : \E l \in 1 .. Len(c) : c[l] = s[i]
  /\ \A i \in 1 .. Len(u) : \E l \in 1 .. Len(c) : c[l] = u[i]
LEMMA Concatenated ==
  ASSUME NEW E, NEW s \in Seq(E), NEW u \in Seq(E)
  PROVE  Joined(s, u, s \o u)
<1> DEFINE A == Len(s)
           B == Len(u)
           c == s \o u
<1>1. A \in Nat /\ B \in Nat
  OBVIOUS
<1>2. Len(c) = A + B /\ \A l \in 1 .. A + B : c[l] = IF l <= A THEN s[l] ELSE u[l - A]
  BY ConcatProperties
<1> HIDE DEF A, B, c
<1>3. ASSUME NEW l \in 1 .. A + B
      PROVE  (\E i \in 1 .. A : c[l] = s[i]) \/ (\E i \in 1 .. B : c[l] = u[i])
  <2>1. CASE l <= A
    BY <1>1, <1>2, <2>1
  <2>2. CASE ~(l <= A)
    <3>1. l - A \in 1 .. B
      BY <1>1, <2>2
    <3> QED BY <1>2, <2>2, <3>1
  <2> QED BY <2>1, <2>2
<1>4. ASSUME NEW i \in 1 .. A
      PROVE  \E l \in 1 .. A + B : c[l] = s[i]
  <2>1. i \in 1 .. A + B /\ i <= A
    BY <1>1
  <2> QED BY <1>2, <2>1
<1>5. ASSUME NEW i \in 1 .. B
      PROVE  \E l \in 1 .. A + B : c[l] = u[i]
  <2> DEFINE j == A + i
  <2>1. j \in 1 .. A + B /\ ~(j <= A) /\ j - A = i
    BY <1>1
  <2> HIDE DEF j
  <2>2. c[j] = u[j - A]
    BY <1>2, <2>1
  <2> QED BY <2>1, <2>2
<1>6. A + B \in Nat
  BY <1>1
<1>7. Joined(s, u, c)
  BY <1>2, <1>3, <1>4, <1>5, <1>6 DEF A, B, Joined
<1> QED BY <1>7 DEF c

LEMMA EntriesFromFacts ==
  ASSUME NEW T, Good(T), NEW nasize \in Nat, NEW es, es = EntriesFrom(T, nasize)
  PROVE  /\ Len(es) \in Nat
         /\ \A l \in 1 .. Len(es) :
              \/ \E i \in nasize + 1 .. sizearray(T) : es[l].key = IntKey(i) /\ es[l].val = T.array[i]
              \/ \E n \in 1 .. sizenode(T) : es[l] = T.node[n]
         /\ \A i \in nasize + 1 .. sizearray(T) :
              \E l \in 1 .. Len(es) : es[l].key = IntKey(i) /\ es[l].val = T.array[i]
         /\ \A n \in 1 .. sizenode(T) : \E l \in 1 .. Len(es) : es[l] = T.node[n]
<1> DEFINE M == sizearray(T)
           N == sizenode(T)
           e == [i \in 1 .. M |-> [key |-> IntKey(i), val |-> T.array[i]]]
           slice == SubSeq(e, nasize + 1, M)
           nodes == Reverse(T.node)
           E == {e[i] : i \in 1 .. M} \cup {T.node[n] : n \in 1 .. N}
<1>1. M \in Nat /\ N \in Nat /\ N = Len(T.node)
  BY Shape DEF sizenode
<1>2. es = slice \o nodes
  BY DEF EntriesFrom
<1>3. \A i \in 1 .. M : e[i].key = IntKey(i) /\ e[i].val = T.array[i] /\ e[i] \in E
  OBVIOUS
<1>4. nodes = [i \in 1 .. N |-> T.node[N - i + 1]]
  BY <1>1 DEF Reverse
<1>5. \A n \in 1 .. N : T.node[n] \in E
  OBVIOUS
<1> HIDE DEF e, M, N, E
<1>6. /\ slice \in Seq(E)
      /\ \A l \in 1 .. Len(slice) : \E i \in nasize + 1 .. M : slice[l] = e[i]
      /\ \A i \in nasize + 1 .. M : \E l \in 1 .. Len(slice) : slice[l] = e[i]
  <2>1. \A i \in nasize + 1 .. M : i \in 1 .. M /\ e[i] \in E
    BY <1>1, <1>3
  <2>2. nasize + 1 \in Int /\ M \in Int
    BY <1>1
  <2>3. /\ slice \in Seq(E)
        /\ Len(slice) = IF nasize + 1 <= M THEN M - (nasize + 1) + 1 ELSE 0
        /\ \A i \in 1 .. M - (nasize + 1) + 1 : slice[i] = e[nasize + 1 + i - 1]
    BY <2>1, <2>2, SubSeqProperties
  <2> HIDE DEF slice
  <2>4. ASSUME NEW l \in 1 .. Len(slice)
        PROVE  \E i \in nasize + 1 .. M : slice[l] = e[i]
    <3>1. l \in 1 .. M - (nasize + 1) + 1 /\ nasize + 1 + l - 1 \in nasize + 1 .. M
      BY <1>1, <2>3
    <3> QED BY <2>3, <3>1
  <2>5. ASSUME NEW i \in nasize + 1 .. M
        PROVE  \E l \in 1 .. Len(slice) : slice[l] = e[i]
    <3>1. /\ i - nasize \in 1 .. M - (nasize + 1) + 1 /\ i - nasize \in 1 .. Len(slice)
          /\ nasize + 1 + (i - nasize) - 1 = i
      BY <1>1, <2>3
    <3> QED BY <2>3, <3>1
  <2> QED BY <2>3, <2>4, <2>5
<1>7. /\ nodes \in Seq(E)
      /\ \A l \in 1 .. Len(nodes) : \E n \in 1 .. N : nodes[l] = T.node[n]
      /\ \A n \in 1 .. N : \E l \in 1 .. Len(nodes) : nodes[l] = T.node[n]
  <2> HIDE DEF nodes
  <2>1. \A l \in 1 .. N : N - l + 1 \in 1 .. N /\ N - (N - l + 1) + 1 = l
    BY <1>1
  <2>2. nodes \in [1 .. N -> E]
    BY <1>4, <1>5, <2>1
  <2>3. nodes \in Seq(E) /\ Len(nodes) = N
    BY <1>1, <2>2
  <2>4. \A l \in 1 .. N : nodes[l] = T.node[N - l + 1]
    BY <1>4
  <2>5. \A n \in 1 .. N : nodes[N - n + 1] = T.node[n]
    BY <2>1, <2>4
  <2> QED BY <2>1, <2>3, <2>4, <2>5
<1> HIDE DEF slice, nodes
<1>8. /\ Len(es) \in Nat
      /\ \A l \in 1 .. Len(es) :
           (\E i \in 1 .. Len(slice) : es[l] = slice[i]) \/ (\E i \in 1 .. Len(nodes) : es[l] = nodes[i])
      /\ \A i \in 1 .. Len(slice) : \E l \in 1 .. Len(es) : es[l] = slice[i]
      /\ \A i \in 1 .. Len(nodes) : \E l \in 1 .. Len(es) : es[l] = nodes[i]
  <2>1. slice \in Seq(E) /\ nodes \in Seq(E)
    BY <1>6, <1>7
  <2>2. Joined(slice, nodes, es)
    BY <1>2, <2>1, Concatenated
  <2> QED BY <2>2 DEF Joined
<1> HIDE DEF E
<1>9. \A i \in nasize + 1 .. M : e[i].key = IntKey(i) /\ e[i].val = T.array[i]
  BY <1>1, <1>3
<1>10. ASSUME NEW l \in 1 .. Len(es)
       PROVE  \/ \E i \in nasize + 1 .. M : es[l].key = IntKey(i) /\ es[l].val = T.array[i]
              \/ \E n \in 1 .. N : es[l] = T.node[n]
  <2>1. CASE \E i \in 1 .. Len(slice) : es[l] = slice[i]
    <3>1. \E i \in nasize + 1 .. M : es[l] = e[i]
      BY <1>6, <2>1, Zenon
    <3> QED BY <1>9, <3>1, Zenon
  <2>2. CASE \E i \in 1 .. Len(nodes) : es[l] = nodes[i]
    <3>1. PICK i \in 1 .. Len(nodes) : es[l] = nodes[i]
      BY <2>2
    <3>2. PICK n \in 1 .. N : nodes[i] = T.node[n]
      BY <1>7
    <3> QED BY <3>1, <3>2
  <2> QED BY <1>8, <2>1, <2>2, Zenon
<1>11. ASSUME NEW i \in nasize + 1 .. M
       PROVE  \E l \in 1 .. Len(es) : es[l].key = IntKey(i) /\ es[l].val = T.array[i]
  <2>1. PICK j \in 1 .. Len(slice) : slice[j] = e[i]
    BY <1>6
  <2>2. PICK l \in 1 .. Len(es) : es[l] = slice[j]
    BY <1>8
  <2> QED BY <1>9, <2>1, <2>2
<1>12. ASSUME NEW n \in 1 .. N
       PROVE  \E l \in 1 .. Len(es) : es[l] = T.node[n]
  <2>1. PICK j \in 1 .. Len(nodes) : nodes[j] = T.node[n]
    BY <1>7
  <2>2. PICK l \in 1 .. Len(es) : es[l] = nodes[j]
    BY <1>8
  <2> QED BY <2>1, <2>2
<1> QED BY <1>8, <1>10, <1>11, <1>12, Zenon DEF M, N

\* A function has no more values than arguments.
LEMMA Values ==
  ASSUME NEW S, IsFiniteSet(S), NEW f, NEW V, V = {f[x] : x \in S}
  PROVE  IsFiniteSet(V) /\ Cardinality(V) <= Cardinality(S) /\ Cardinality(V) \in Nat
<1> DEFINE g == [x \in S |-> f[x]]
<1>1. g \in [S -> V]
  OBVIOUS
<1>2. \A v \in V : \E x \in S : g[x] = v
  OBVIOUS
<1> HIDE DEF g
<1>3. g \in Surjection(S, V)
  BY <1>1, <1>2 DEF Surjection
<1>4. IsFiniteSet(V) /\ Cardinality(V) <= Cardinality(S)
  BY <1>3, FS_Surjection
<1> QED BY <1>4, FS_CardinalityType

\* Two sets have no more elements together than each for itself.
LEMMA Together ==
  ASSUME NEW A, NEW B, IsFiniteSet(A), IsFiniteSet(B)
  PROVE  /\ IsFiniteSet(A \cup B) /\ Cardinality(A \cup B) \in Nat
         /\ Cardinality(A \cup B) <= Cardinality(A) + Cardinality(B)
<1>1. IsFiniteSet(A \cup B) /\ Cardinality(A \cup B) = Cardinality(A) + Cardinality(B) - Cardinality(A \cap B)
  BY FS_Union
<1>2. IsFiniteSet(A \cap B)
  <2>1. A \cap B \in SUBSET A
    OBVIOUS
  <2> QED BY <2>1, FS_Subset
<1>3. Cardinality(A \cap B) \in Nat /\ Cardinality(A) \in Nat /\ Cardinality(B) \in Nat /\ Cardinality(A \cup B) \in Nat
  BY <1>1, <1>2, FS_CardinalityType
<1> QED BY <1>1, <1>3

\* What is left of a set.
LEMMA Remaining ==
  ASSUME NEW A, IsFiniteSet(A), NEW B \in SUBSET A
  PROVE  /\ IsFiniteSet(A \ B) /\ Cardinality(A \ B) = Cardinality(A) - Cardinality(B)
         /\ Cardinality(A) \in Nat /\ Cardinality(B) \in Nat
<1>1. IsFiniteSet(B)
  BY FS_Subset
<1>2. A \cap B = B
  OBVIOUS
<1>3. IsFiniteSet(A \ B) /\ Cardinality(A \ B) = Cardinality(A) - Cardinality(A \cap B)
  BY FS_Difference
<1> QED BY <1>1, <1>2, <1>3, FS_CardinalityType

\* The keys that a rehash for k puts into the hash part, with k.
Low(T, k, e) == ttisinteger(e) /\ e.v <= NewArraySize(T, k)
KeptArray(T, k) == UsedArray(T) \ {i \in UsedArray(T) : i <= NewArraySize(T, k)}
KeptNodes(T, k) == UsedNodes(T) \ {n \in UsedIntNodes(T) : T.node[n].key.v <= NewArraySize(T, k)}
Kept(T, k) ==
  {IntKey(i) : i \in KeptArray(T, k)} \cup {T.node[n].key : n \in KeptNodes(T, k)}
    \cup (IF Low(T, k, k) THEN {} ELSE {k})

\* The new hash part is as large as they are many.
LEMMA KeptFits ==
  ASSUME NEW T, Good(T), NEW k \in Keys
  PROVE  /\ Kept(T, k) \in SUBSET Keys /\ IsFiniteSet(Kept(T, k))
         /\ Cardinality(Kept(T, k)) \in Nat /\ Cardinality(Kept(T, k)) <= NewHashSize(T, k)
<1> DEFINE A == UsedArray(T)
           B == UsedIntNodes(T)
           C == UsedNodes(T)
           na == NewArraySize(T, k)
           A2 == {i \in A : i <= na}
           B2 == {i \in B : T.node[i].key.v <= na}
           one == IF ttisinteger(k) /\ k.v <= na THEN 1 ELSE 0
           K1 == {IntKey(i) : i \in A \ A2}
           K2 == {T.node[n].key : n \in C \ B2}
           K3 == IF Low(T, k, k) THEN {} ELSE {k}
<1>1. T \in Table /\ sizearray(T) \in Nat /\ sizenode(T) \in Nat
  BY Shape
<1>2. IsFiniteSet(1 .. sizearray(T)) /\ IsFiniteSet(1 .. sizenode(T))
  BY <1>1, FS_Interval
<1>3. IsFiniteSet(A) /\ IsFiniteSet(C) /\ A2 \in SUBSET A /\ B2 \in SUBSET C
  <2>1. /\ A \subseteq 1 .. sizearray(T) /\ C \subseteq 1 .. sizenode(T)
        /\ A2 \in SUBSET A /\ B2 \in SUBSET C
    BY DEF UsedArray, UsedNodes, UsedIntNodes
  <2> HIDE DEF A, C, A2, B2
  <2> QED BY <1>2, <2>1, FS_Subset
<1>4. Kept(T, k) = (K1 \cup K2) \cup K3
  BY DEF Kept, KeptArray, KeptNodes
<1>5. K1 \subseteq Keys /\ K2 \subseteq Keys /\ K3 \subseteq Keys
  <2>1. \A i \in A : IntKey(i) \in Keys
    BY DEF UsedArray, Good, Numbered, Keys
  <2>2. \A n \in C : T.node[n].key \in Keys
    BY DEF UsedNodes, Good, Used
  <2> QED BY <2>1, <2>2
<1>6. NewHashSize(T, k) = Cardinality(A) + Cardinality(C) + 1 - (Cardinality(A2) + Cardinality(B2) + one)
  BY DEF NewHashSize, CountUpTo
<1>7. IsFiniteSet(K3) /\ Cardinality(K3) = 1 - one
  <2>1. CASE Low(T, k, k)
    <3>1. K3 = {} /\ one = 1
      BY <2>1 DEF Low
    <3> QED BY <3>1, FS_EmptySet
  <2>2. CASE ~Low(T, k, k)
    <3>1. K3 = {k} /\ one = 0
      BY <2>2 DEF Low
    <3>2. IsFiniteSet({k}) /\ Cardinality({k}) = 1
      BY FS_Singleton
    <3> HIDE DEF K3
    <3> QED BY <3>1, <3>2
  <2> QED BY <2>1, <2>2
<1>8. one \in {0, 1}
  OBVIOUS
<1> HIDE DEF A, B, C, A2, B2, one, K3, na
<1>9. /\ IsFiniteSet(A \ A2) /\ Cardinality(A \ A2) = Cardinality(A) - Cardinality(A2)
      /\ IsFiniteSet(C \ B2) /\ Cardinality(C \ B2) = Cardinality(C) - Cardinality(B2)
      /\ Cardinality(A) \in Nat /\ Cardinality(A2) \in Nat /\ Cardinality(C) \in Nat /\ Cardinality(B2) \in Nat
  BY <1>3, Remaining
<1>10. IsFiniteSet(K1) /\ Cardinality(K1) <= Cardinality(A \ A2) /\ Cardinality(K1) \in Nat
  <2> DEFINE D == A \ A2
             f == [i \in D |-> IntKey(i)]
  <2>1. K1 = {f[x] : x \in D}
    OBVIOUS
  <2>2. IsFiniteSet(D)
    BY <1>9
  <2> HIDE DEF f, K1, D
  <2>3. IsFiniteSet(K1) /\ Cardinality(K1) <= Cardinality(D) /\ Cardinality(K1) \in Nat
    BY <2>1, <2>2, Values
  <2> QED BY <2>3 DEF D
<1>11. IsFiniteSet(K2) /\ Cardinality(K2) <= Cardinality(C \ B2) /\ Cardinality(K2) \in Nat
  <2> DEFINE D == C \ B2
             f == [n \in D |-> T.node[n].key]
  <2>1. K2 = {f[x] : x \in D}
    OBVIOUS
  <2>2. IsFiniteSet(D)
    BY <1>9
  <2> HIDE DEF f, K2, D
  <2>3. IsFiniteSet(K2) /\ Cardinality(K2) <= Cardinality(D) /\ Cardinality(K2) \in Nat
    BY <2>1, <2>2, Values
  <2> QED BY <2>3 DEF D
<1> HIDE DEF K1, K2
<1>12. IsFiniteSet(K1 \cup K2) /\ Cardinality(K1 \cup K2) \in Nat /\ Cardinality(K1 \cup K2) <= Cardinality(K1) + Cardinality(K2)
  BY <1>10, <1>11, Together
<1>13. /\ IsFiniteSet((K1 \cup K2) \cup K3) /\ Cardinality((K1 \cup K2) \cup K3) \in Nat
       /\ Cardinality((K1 \cup K2) \cup K3) <= Cardinality(K1 \cup K2) + Cardinality(K3)
  BY <1>7, <1>12, Together
<1>14. Cardinality((K1 \cup K2) \cup K3) <= NewHashSize(T, k)
  BY <1>6, <1>7, <1>8, <1>9, <1>10, <1>11, <1>12, <1>13
<1> QED BY <1>4, <1>5, <1>13, <1>14

\* New parts hold the fields that stay in the array part.
Renewed(T, na, nh, R) ==
  /\ Whole(R) /\ sizearray(R) = na /\ sizenode(R) >= nh /\ sizenode(R) \in Nat
  /\ KeysIn(R) \subseteq {nil}
  /\ \A j \in Keys : luaH_get(R, j) = IF InArray(R, j) /\ InArray(T, j) THEN T.array[j.v] ELSE "nil"

LEMMA NewParts ==
  ASSUME NEW T \in Table, Numbered(T), NEW na \in Nat, NEW nh \in Nat,
         NEW R, R = setnodevector(setarrayvector(T, na), nh)
  PROVE  Renewed(T, na, nh, R)
<1> DEFINE U == setarrayvector(T, na)
<1>1. /\ U \in Table /\ Numbered(U) /\ sizearray(U) = na
      /\ \A i \in 1 .. na : U.array[i] = IF i <= sizearray(T) THEN T.array[i] ELSE "nil"
  BY ArrayVector
<1> HIDE DEF U
<1>2. /\ Good(R) /\ R.array = U.array /\ sizenode(R) >= nh
      /\ \A n \in 1 .. sizenode(R) : R.node[n] = Entry(nil, "nil", 0)
  BY <1>1, NodeVector DEF U
<1>3. \A n \in 1 .. sizenode(R) : R.node[n].key = nil /\ R.node[n].val = "nil" /\ R.node[n].next = 0
  BY <1>2 DEF Entry
<1>4. nil \notin Keys /\ sizenode(R) \in Nat
  BY <1>2, KeysApart, Shape
<1>5. Hung(R) /\ Single(R) /\ Apart(R)
  BY <1>3, <1>4 DEF Hung, Single, Apart
<1>6. sizearray(R) = na
  BY <1>1, <1>2 DEF sizearray
<1>7. KeysIn(R) \subseteq {nil}
  BY <1>3 DEF KeysIn
<1>8. ASSUME NEW j \in Keys
      PROVE  luaH_get(R, j) = IF InArray(R, j) /\ InArray(T, j) THEN T.array[j.v] ELSE "nil"
  <2>1. CASE InArray(R, j)
    <3>1. luaH_get(R, j) = U.array[j.v] /\ j.v \in 1 .. na /\ ttisinteger(j)
      BY <1>2, <1>6, <2>1, GetOfArray DEF InArray
    <3>2. InArray(T, j) <=> j.v <= sizearray(T)
      <4>1. sizearray(T) \in Nat
        BY DEF Table, sizearray
      <4> QED BY <3>1, <4>1 DEF InArray
    <3> QED BY <1>1, <2>1, <3>1, <3>2
  <2>2. CASE ~InArray(R, j)
    <3>1. \A n \in 1 .. sizenode(R) : R.node[n].key # j
      BY <1>3, <1>4
    <3> QED BY <1>2, <2>2, <3>1, GetOfNone
  <2> QED BY <2>1, <2>2
<1> QED BY <1>2, <1>4, <1>5, <1>6, <1>7, <1>8 DEF Whole, Renewed

\* A field is in the array part or in a node.
LEMMA FieldPlace ==
  ASSUME NEW T, Whole(T), NEW j \in Keys, luaH_get(T, j) # "nil"
  PROVE  \/ InArray(T, j) /\ T.array[j.v] = luaH_get(T, j)
         \/ \E n \in 1 .. sizenode(T) : T.node[n].key = j /\ T.node[n].val = luaH_get(T, j)
<1>1. CASE InArray(T, j)
  BY <1>1, GetOfArray
<1>2. CASE ~InArray(T, j)
  <2>1. \E n \in 1 .. sizenode(T) : T.node[n].key = j
    BY <1>2, GetOfNone DEF Whole
  <2> QED BY <2>1, GetOfNode
<1> QED BY <1>1, <1>2

\* The keys of the array part.
LEMMA ArrayKeys ==
  ASSUME NEW T, Good(T), NEW i \in 1 .. sizearray(T)
  PROVE  /\ InArray(T, IntKey(i)) /\ luaH_get(T, IntKey(i)) = T.array[i]
         /\ T.array[i] \in Value \cup {"nil"}
         /\ T.array[i] # "nil" => IntKey(i) \in Keys
<1>1. ttisinteger(IntKey(i)) /\ IntKey(i).v = i
  BY DEF ttisinteger, IntKey
<1>2. InArray(T, IntKey(i))
  BY <1>1 DEF InArray
<1>3. T.array[i] \in Value \cup {"nil"}
  BY Shape DEF Table
<1>4. T.array[i] # "nil" => IntKey(i) \in Keys
  BY DEF Good, Numbered, Keys
<1> QED BY <1>1, <1>2, <1>3, <1>4, GetOfArray

\* What is put into the new parts fits.
LEMMA RehashFills ==
  ASSUME NEW T, Whole(T), NEW k \in Keys, NEW R, Whole(R), NEW es, NEW M,
         KeysIn(R) \subseteq {nil}, sizearray(R) = NewArraySize(T, k), NewArraySize(T, k) \in Nat,
         \A j \in Keys : luaH_get(R, j) = IF InArray(R, j) /\ InArray(T, j) THEN T.array[j.v] ELSE "nil",
         es = EntriesFrom(T, NewArraySize(T, k)), M = [j \in Keys |-> luaH_get(T, j)]
  PROVE  Fills(R, es, M, Kept(T, k))
<1> DEFINE na == NewArraySize(T, k)
           P == Kept(T, k)
<1>1. Good(T) /\ na \in Nat /\ es = EntriesFrom(T, na)
  BY DEF Whole
<1>2. \A l \in 1 .. Len(es) :
        \/ \E i \in na + 1 .. sizearray(T) : es[l].key = IntKey(i) /\ es[l].val = T.array[i]
        \/ \E n \in 1 .. sizenode(T) : es[l] = T.node[n]
  <2> HIDE DEF na
  <2> QED BY <1>1, EntriesFromFacts
<1>3. ASSUME NEW i \in na + 1 .. sizearray(T)
      PROVE  /\ T.array[i] \in Value \cup {"nil"}
             /\ T.array[i] # "nil" => /\ IntKey(i) \in Keys /\ IntKey(i) \in P
                                      /\ T.array[i] = M[IntKey(i)]
  <2>1. i \in 1 .. sizearray(T) /\ ~(i <= na)
    BY <1>1, <1>3, Shape
  <2>2. /\ T.array[i] \in Value \cup {"nil"} /\ luaH_get(T, IntKey(i)) = T.array[i]
        /\ T.array[i] # "nil" => IntKey(i) \in Keys
    BY <1>1, <2>1, ArrayKeys
  <2>3. T.array[i] # "nil" => i \in KeptArray(T, k)
    BY <2>1 DEF KeptArray, UsedArray
  <2> QED BY <2>2, <2>3 DEF Kept
<1>4. ASSUME NEW n \in 1 .. sizenode(T)
      PROVE  /\ T.node[n].val \in Value \cup {"nil"}
             /\ T.node[n].val # "nil" => /\ T.node[n].key \in Keys
                                         /\ T.node[n].key \in P \/ InArray(R, T.node[n].key)
                                         /\ T.node[n].val = M[T.node[n].key]
  <2>1. T.node[n].val \in Value \cup {"nil"}
    <3>1. T.node \in Seq(Node) /\ n \in 1 .. Len(T.node)
      BY <1>1, Shape DEF Table, sizenode
    <3>2. T.node[n] \in Node
      BY <3>1
    <3> QED BY <3>2 DEF Node
  <2>2. ASSUME T.node[n].val # "nil"
        PROVE  /\ T.node[n].key \in Keys
               /\ T.node[n].key \in P \/ InArray(R, T.node[n].key)
               /\ T.node[n].val = M[T.node[n].key]
    <3>1. T.node[n].key \in Keys /\ n \in UsedNodes(T)
      BY <1>1, <2>2 DEF Good, Used, UsedNodes
    <3>2. T.node[n].val = M[T.node[n].key]
      BY <3>1, GetOfNode
    <3>3. CASE n \in KeptNodes(T, k)
      BY <3>1, <3>2, <3>3 DEF Kept
    <3>4. CASE n \notin KeptNodes(T, k)
      <4>1. ttisinteger(T.node[n].key) /\ T.node[n].key.v <= na
        BY <3>1, <3>4 DEF KeptNodes, UsedIntNodes
      <4>2. T.node[n].key.v \in Nat \ {0}
        BY <3>1, <4>1, KeyAssumption DEF Keys, Objects, ttisinteger, IntKey
      <4>3. InArray(R, T.node[n].key)
        BY <1>1, <4>1, <4>2 DEF InArray
      <4> QED BY <3>1, <3>2, <4>3
    <3> QED BY <3>3, <3>4
  <2> QED BY <2>1, <2>2
<1> HIDE DEF P, na
<1>5. ASSUME NEW l \in 1 .. Len(es)
      PROVE  /\ Sound(es[l])
             /\ es[l].val # "nil" => /\ es[l].key \in P \/ InArray(R, es[l].key)
                                     /\ es[l].val = M[es[l].key]
  <2>1. CASE \E i \in na + 1 .. sizearray(T) : es[l].key = IntKey(i) /\ es[l].val = T.array[i]
    BY <1>3, <2>1 DEF Sound
  <2>2. CASE \E n \in 1 .. sizenode(T) : es[l] = T.node[n]
    BY <1>4, <2>2 DEF Sound
  <2> QED BY <1>2, <2>1, <2>2
<1>6. ASSUME NEW j \in Keys
      PROVE  luaH_get(R, j) \in {"nil", M[j]}
  <2>1. InArray(T, j) => T.array[j.v] = luaH_get(T, j)
    BY GetOfArray
  <2> QED BY <2>1
<1> QED BY <1>5, <1>6 DEF Fills, P

\* Every field is put in again, or stays in the array part.
LEMMA RehashKeeps ==
  ASSUME NEW T, Whole(T), NEW na \in Nat, NEW R, Whole(R), sizearray(R) = na, NEW j \in Keys,
         luaH_get(R, j) = IF InArray(R, j) /\ InArray(T, j) THEN T.array[j.v] ELSE "nil",
         NEW es, es = EntriesFrom(T, na), luaH_get(T, j) # "nil"
  PROVE  Present(es, Len(es), j) \/ luaH_get(R, j) # "nil"
<1>1. Good(T) /\ sizearray(T) \in Nat
  BY Shape DEF Whole
<1>2. CASE InArray(T, j) /\ T.array[j.v] = luaH_get(T, j)
  <2>1. ttisinteger(j) /\ j.v \in 1 .. sizearray(T) /\ j = IntKey(j.v)
    BY <1>2 DEF InArray, Keys, Objects, ttisinteger, IntKey
  <2>2. CASE j.v <= na
    <3>1. InArray(R, j)
      BY <2>1, <2>2 DEF InArray
    <3> QED BY <1>2, <3>1
  <2>3. CASE ~(j.v <= na)
    <3>1. j.v \in na + 1 .. sizearray(T)
      BY <1>1, <2>1, <2>3
    <3>2. \A i \in na + 1 .. sizearray(T) :
            \E l \in 1 .. Len(es) : es[l].key = IntKey(i) /\ es[l].val = T.array[i]
      BY <1>1, EntriesFromFacts
    <3>3. PICK l \in 1 .. Len(es) : es[l].key = IntKey(j.v) /\ es[l].val = T.array[j.v]
      BY <3>1, <3>2, Zenon
    <3> QED BY <1>2, <2>1, <3>3 DEF Present
  <2> QED BY <2>2, <2>3
<1>3. CASE \E n \in 1 .. sizenode(T) : T.node[n].key = j /\ T.node[n].val = luaH_get(T, j)
  <2>1. PICK n \in 1 .. sizenode(T) : T.node[n].key = j /\ T.node[n].val = luaH_get(T, j)
    BY <1>3
  <2>2. PICK l \in 1 .. Len(es) : es[l] = T.node[n]
    BY <1>1, EntriesFromFacts
  <2> QED BY <2>1, <2>2 DEF Present
<1> QED BY <1>2, <1>3, FieldPlace

\* After a rehash the table has the same fields, and room for k.
LEMMA RehashRight ==
  ASSUME NEW T, Whole(T), NEW k \in Keys, NEW U, U = rehash(T, k)
  PROVE  /\ Whole(U) /\ sizearray(U) = NewArraySize(T, k)
         /\ sizenode(U) >= NewHashSize(T, k) /\ sizenode(U) \in Nat
         /\ KeysIn(U) \subseteq Kept(T, k) \cup {nil}
         /\ \A j \in Keys : luaH_get(U, j) = luaH_get(T, j)
<1> DEFINE na == NewArraySize(T, k)
           nh == NewHashSize(T, k)
           R == setnodevector(setarrayvector(T, na), nh)
           es == EntriesFrom(T, na)
           M == [j \in Keys |-> luaH_get(T, j)]
           P == Kept(T, k)
<1>1. Good(T) /\ T \in Table /\ Numbered(T) /\ na \in Nat /\ nh \in Nat
  BY Sizes, Shape DEF Whole, Good
<1>2. P \in SUBSET Keys /\ IsFiniteSet(P) /\ Cardinality(P) \in Nat /\ Cardinality(P) <= nh
  BY <1>1, KeptFits
<1>3. U = ReinsertAll(R, es)
  BY DEF rehash, luaH_resize, EntriesFrom
<1>4. Len(es) \in Nat
  <2> HIDE DEF na, es
  <2> QED BY <1>1, EntriesFromFacts DEF es
<1>5. /\ Whole(R) /\ sizearray(R) = na /\ sizenode(R) >= nh /\ sizenode(R) \in Nat
      /\ KeysIn(R) \subseteq {nil}
      /\ \A j \in Keys : luaH_get(R, j) = IF InArray(R, j) /\ InArray(T, j) THEN T.array[j.v] ELSE "nil"
  <2> HIDE DEF na, nh, R
  <2>1. Renewed(T, na, nh, R)
    BY <1>1, NewParts DEF R
  <2> QED BY <2>1 DEF Renewed
<1>6. Fills(R, es, M, P)
  <2> HIDE DEF R, M
  <2>1. M = [j \in Keys |-> luaH_get(T, j)]
    BY DEF M
  <2> QED BY <1>1, <1>5, <2>1, RehashFills
<1>7. \A j \in Keys : luaH_get(T, j) # "nil" => Present(es, Len(es), j) \/ luaH_get(R, j) # "nil"
  <2>1. es = EntriesFrom(T, na)
    OBVIOUS
  <2> HIDE DEF R, es, na
  <2> QED BY <1>1, <1>5, <2>1, RehashKeeps
<1>8. \A j \in Keys : M[j] = luaH_get(T, j)
  OBVIOUS
<1> HIDE DEF na, nh, R, es, M, P
<1>9. U \in Filled(R, es, Len(es), M, P)
  <2>1. Cardinality(P) <= sizenode(R)
    BY <1>1, <1>2, <1>5
  <2> QED BY <1>2, <1>3, <1>4, <1>5, <1>6, <2>1, ReinsertedRight
<1>10. /\ Whole(U) /\ sizearray(U) = sizearray(R) /\ sizenode(U) = sizenode(R)
       /\ KeysIn(U) \subseteq P \cup {nil}
       /\ \A j \in Keys :
            luaH_get(U, j) = IF Present(es, Len(es), j) \/ luaH_get(R, j) # "nil" THEN M[j] ELSE "nil"
  BY <1>9 DEF Filled
<1>11. \A j \in Keys : luaH_get(U, j) = luaH_get(T, j)
  BY <1>7, <1>8, <1>10
<1> QED BY <1>5, <1>10, <1>11 DEF na, nh, P

\* The keys that belong to the collector, of the nodes.
Collectable(T) == {j \in KeysIn(T) : iscollectable(j)}

\* An assignment with a rehash: the fields are the old ones and k, and no
\* object is a key that was none.
LEMMA SetRehashed ==
  ASSUME NEW T, Whole(T), NEW k \in Keys, NEW v \in Value \cup {"nil"},
         NEW S, S = luaH_set(rehash(T, k), k, v)
  PROVE  /\ Whole(S)
         /\ \A j \in Keys : luaH_get(S, j) = IF j = k THEN v ELSE luaH_get(T, j)
         /\ Collectable(S) \subseteq Collectable(T) \cup {k}
<1> DEFINE U == rehash(T, k)
           P == Kept(T, k)
<1>1. /\ Whole(U) /\ sizearray(U) = NewArraySize(T, k) /\ sizenode(U) \in Nat
      /\ sizenode(U) >= NewHashSize(T, k) /\ KeysIn(U) \subseteq P \cup {nil}
      /\ \A j \in Keys : luaH_get(U, j) = luaH_get(T, j)
  BY RehashRight
<1>2. /\ Good(T) /\ NewArraySize(T, k) \in Nat /\ NewHashSize(T, k) \in Nat
      /\ P \in SUBSET Keys /\ IsFiniteSet(P) /\ Cardinality(P) \in Nat /\ Cardinality(P) <= NewHashSize(T, k)
  BY Sizes, KeptFits DEF Whole
<1> HIDE DEF U, P
<1>3. Cardinality(P) <= sizenode(U)
  BY <1>1, <1>2
<1>4. ASSUME ~InArray(U, k), FindNode(U, k) = 0
      PROVE  ~MustRehash(U, k)
  <2>1. ~Low(T, k, k)
    <3>1. ASSUME Low(T, k, k)
          PROVE  FALSE
      <4>1. ttisinteger(k) /\ k.v <= NewArraySize(T, k)
        BY <3>1 DEF Low
      <4>2. k.v \in Nat \ {0}
        BY <4>1, KeyAssumption DEF Keys, Objects, ttisinteger, IntKey
      <4> QED BY <1>1, <1>2, <1>4, <4>1, <4>2 DEF InArray
    <3> QED BY <3>1
  <2>2. k \in P
    BY <2>1 DEF P, Kept
  <2> QED BY <1>1, <1>2, <1>3, <1>4, <2>2, Room
<1>5. Assigned(U, k, v, S)
  BY <1>1, <1>4, SetRight DEF U
<1>6. Collectable(S) \subseteq Collectable(T) \cup {k}
  <2>1. ASSUME NEW j \in P, iscollectable(j), j # k
        PROVE  j \in KeysIn(T)
    <3>1. \A i : ~iscollectable(IntKey(i))
      BY DEF iscollectable, IntKey
    <3>2. \E n \in KeptNodes(T, k) : j = T.node[n].key
      BY <2>1, <3>1 DEF P, Kept
    <3> QED BY <3>2 DEF KeptNodes, UsedNodes, KeysIn
  <2>2. ~iscollectable(nil)
    BY DEF iscollectable, nil
  <2>3. KeysIn(S) \subseteq P \cup {nil, k}
    BY <1>1, <1>5 DEF Assigned
  <2> QED BY <2>1, <2>2, <2>3 DEF Collectable
<1> QED BY <1>1, <1>5, <1>6 DEF Assigned

\* So it is without one.
LEMMA SetWhole ==
  ASSUME NEW T, Whole(T), NEW k \in Keys, NEW v \in Value \cup {"nil"}, NEW S, S = luaH_set(T, k, v),
         InArray(T, k) \/ FindNode(T, k) # 0 \/ ~MustRehash(T, k)
  PROVE  /\ Whole(S)
         /\ \A j \in Keys : luaH_get(S, j) = IF j = k THEN v ELSE luaH_get(T, j)
         /\ Collectable(S) \subseteq Collectable(T) \cup {k}
<1>1. Assigned(T, k, v, S)
  BY SetRight
<1> QED BY <1>1 DEF Assigned, Collectable

-----------------------------------------------------------------------------
(* Where fields are in a traversal.                                        *)

\* The number of the entry of a key, and what a traversal that is at it needs.
Position(T, k) == IF InArray(T, k) THEN k.v ELSE sizearray(T) + FindNode(T, k)
At(T, k) == InArray(T, k) \/ (~isdummy(T) /\ Seek(T, k) # 0)

\* What findindex gives.
LEMMA IndexOf ==
  ASSUME NEW T, NEW k \in Keys
  PROVE  findindex(T, k) = IF InArray(T, k) THEN k.v
                           ELSE IF isdummy(T) \/ Seek(T, k) = 0 THEN -1 ELSE Seek(T, k) + sizearray(T)
<1>1. k # nil
  BY KeysApart
<1>2. Places(T, k) = {i \in DOMAIN T.node : T.node[i].key \in {k} \cup IF iscollectable(k) THEN {DeadKey(k.v)} ELSE {}}
  BY DEF Places, Same
<1> QED BY <1>1, <1>2 DEF findindex, Seek

\* A traversal that is at a key finds it.
LEMMA AtFound ==
  ASSUME NEW T, Good(T), NEW k \in Keys, At(T, k)
  PROVE  findindex(T, k) \in 1 .. sizearray(T) + sizenode(T)
<1>1. sizearray(T) \in Nat /\ sizenode(T) \in Nat
  BY Shape
<1>2. CASE InArray(T, k)
  <2>1. k.v \in 1 .. sizearray(T) /\ findindex(T, k) = k.v
    BY <1>2, IndexOf DEF InArray
  <2> QED BY <1>1, <2>1
<1>3. CASE ~InArray(T, k)
  <2>1. ~isdummy(T) /\ Seek(T, k) # 0
    BY <1>3 DEF At
  <2>2. Seek(T, k) \in 0 .. sizenode(T) /\ findindex(T, k) = Seek(T, k) + sizearray(T)
    BY <1>3, <2>1, IndexOf, Sought
  <2> QED BY <1>1, <2>1, <2>2
<1> QED BY <1>2, <1>3

\* A field is at its position, and a traversal finds it there.
LEMMA FieldPosition ==
  ASSUME NEW T, Whole(T), NEW k \in Keys, luaH_get(T, k) # "nil"
  PROVE  /\ Position(T, k) \in 1 .. sizearray(T) + sizenode(T)
         /\ EntryKey(T, Position(T, k)) = k /\ EntryVal(T, Position(T, k)) = luaH_get(T, k)
         /\ At(T, k) /\ findindex(T, k) = Position(T, k)
<1>1. sizearray(T) \in Nat /\ sizenode(T) \in Nat /\ Good(T) /\ Hung(T)
  BY Shape DEF Whole
<1>2. CASE InArray(T, k)
  <2>1. ttisinteger(k) /\ k.v \in 1 .. sizearray(T) /\ k = IntKey(k.v)
    BY <1>2 DEF InArray, Keys, Objects, ttisinteger, IntKey
  <2>2. Position(T, k) = k.v /\ findindex(T, k) = k.v /\ At(T, k)
    BY <1>2, IndexOf DEF Position, At
  <2>3. k.v <= sizearray(T) /\ k.v \in 1 .. sizearray(T) + sizenode(T)
    BY <1>1, <2>1
  <2>4. EntryKey(T, k.v) = k /\ EntryVal(T, k.v) = T.array[k.v]
    BY <2>1, <2>3 DEF EntryKey, EntryVal
  <2> QED BY <1>2, <2>2, <2>3, <2>4, GetOfArray
<1>3. CASE ~InArray(T, k)
  <2>1. PICK n \in 1 .. sizenode(T) : T.node[n].key = k /\ T.node[n].val = luaH_get(T, k)
    BY <1>3, FieldPlace
  <2>2. FindNode(T, k) = n /\ Seek(T, k) = n /\ ~isdummy(T)
    BY <1>1, <2>1, KeyFound
  <2>3. Position(T, k) = sizearray(T) + n /\ findindex(T, k) = n + sizearray(T) /\ At(T, k)
    BY <1>1, <1>3, <2>2, IndexOf DEF Position, At
  <2> DEFINE p == sizearray(T) + n
  <2>4. p \in 1 .. sizearray(T) + sizenode(T) /\ ~(p <= sizearray(T)) /\ p - sizearray(T) = n /\ n + sizearray(T) = p
    BY <1>1
  <2> HIDE DEF p
  <2>5. EntryKey(T, p) = k /\ EntryVal(T, p) = luaH_get(T, k)
    BY <2>1, <2>4 DEF EntryKey, EntryVal
  <2> QED BY <2>3, <2>4, <2>5 DEF p
<1> QED BY <1>2, <1>3

\* And what is at a position is the field of its key.
LEMMA PositionOf ==
  ASSUME NEW T, Whole(T), NEW p \in 1 .. sizearray(T) + sizenode(T), EntryVal(T, p) # "nil"
  PROVE  /\ EntryKey(T, p) \in Keys /\ luaH_get(T, EntryKey(T, p)) # "nil"
         /\ Position(T, EntryKey(T, p)) = p
<1>1. sizearray(T) \in Nat /\ sizenode(T) \in Nat /\ Good(T) /\ Hung(T)
  BY Shape DEF Whole
<1>2. EntryKey(T, p) \in Keys
  BY <1>1, FieldsKey
<1>3. CASE p <= sizearray(T)
  <2>1. p \in 1 .. sizearray(T) /\ EntryKey(T, p) = IntKey(p) /\ EntryVal(T, p) = T.array[p]
    BY <1>1, <1>3 DEF EntryKey, EntryVal
  <2>2. InArray(T, IntKey(p)) /\ luaH_get(T, IntKey(p)) = T.array[p] /\ IntKey(p).v = p
    BY <1>1, <2>1, ArrayKeys DEF IntKey
  <2> QED BY <1>2, <2>1, <2>2 DEF Position
<1>4. CASE ~(p <= sizearray(T))
  <2> DEFINE n == p - sizearray(T)
  <2>1. n \in 1 .. sizenode(T) /\ sizearray(T) + n = p
    BY <1>1, <1>4
  <2>2. EntryKey(T, p) = T.node[n].key /\ EntryVal(T, p) = T.node[n].val
    BY <1>4 DEF EntryKey, EntryVal
  <2> HIDE DEF n
  <2>3. luaH_get(T, T.node[n].key) = T.node[n].val
    BY <1>2, <2>1, <2>2, GetOfNode
  <2>4. FindNode(T, T.node[n].key) = n /\ ~InArray(T, T.node[n].key)
    BY <1>1, <1>2, <2>1, <2>2, KeyFound DEF Whole, Apart
  <2> QED BY <1>2, <2>1, <2>2, <2>3, <2>4 DEF Position
<1> QED BY <1>3, <1>4

\* An assignment to a field leaves all where they are.
SamePlaces(T, S, j) ==
  /\ Position(S, j) = Position(T, j) /\ findindex(S, j) = findindex(T, j)
  /\ At(S, j) <=> At(T, j)

LEMMA SamePositions ==
  ASSUME NEW T, Good(T), NEW S, Good(S), sizenode(S) = sizenode(T), sizearray(S) = sizearray(T),
         \A n \in 1 .. sizenode(T) : S.node[n].next = T.node[n].next /\ S.node[n].key = T.node[n].key
  PROVE  \A j \in Keys : SamePlaces(T, S, j)
<1> TAKE j \in Keys
<1>1. InArray(S, j) <=> InArray(T, j)
  BY InArrayStays
<1>2. FindNode(S, j) = FindNode(T, j) /\ (~isdummy(T) => Seek(S, j) = Seek(T, j))
  BY SameHung
<1>3. isdummy(S) <=> isdummy(T)
  BY Shape
<1>4. Position(S, j) = Position(T, j)
  BY <1>1, <1>2 DEF Position
<1>5. At(S, j) <=> At(T, j)
  BY <1>1, <1>2, <1>3 DEF At
<1>6. findindex(S, j) = findindex(T, j)
  BY <1>1, <1>2, <1>3, IndexOf
<1> QED BY <1>4, <1>5, <1>6 DEF SamePlaces

LEMMA SetInPlace ==
  ASSUME NEW T, Whole(T), NEW k \in Keys, NEW v \in Value \cup {"nil"}, luaH_get(T, k) # "nil",
         NEW S, S = luaH_set(T, k, v)
  PROVE  \A j \in Keys : SamePlaces(T, S, j)
<1>1. InArray(T, k) \/ FindNode(T, k) # 0
  BY DEF luaH_get
<1>2. /\ Assigned(T, k, v, S)
      /\ \A n \in 1 .. sizenode(T) : S.node[n].next = T.node[n].next /\ S.node[n].key = T.node[n].key
  <2>1. CASE InArray(T, k)
    BY <2>1, ArrayAssigned
  <2>2. CASE ~InArray(T, k)
    BY <1>1, <2>2, NodeAssigned
  <2> QED BY <2>1, <2>2
<1> QED BY <1>2, SamePositions DEF Assigned, Whole

\* No two objects have the same address.
Distinct(O) == \A o, p \in O : o.v = p.v => o = p
\* A key that is no object, or one of these.
Known(O, k) == k \in Keys /\ (iscollectable(k) => k \in O)

\* A dead key hides no key that is an object still, and the key of a traversal
\* is found at what was its entry.
LEMMA RemovedPlaces ==
  ASSUME NEW T, Whole(T), NEW O, Distinct(O), Collectable(T) \subseteq O,
         NEW i \in 1 .. sizenode(T), iscollectable(T.node[i].key), NEW S, Removed(T, i, S),
         NEW j, Known(O, j)
  PROVE  /\ InArray(S, j) <=> InArray(T, j)
         /\ ~isdummy(T) => Seek(S, j) = Seek(T, j)
<1> DEFINE N == sizenode(T)
           k == T.node[i].key
<1>1. /\ Good(T) /\ Good(S) /\ Chained(T) /\ Chained(S) /\ sizenode(S) = N /\ N \in Nat
      /\ DOMAIN T.node = 1 .. N /\ DOMAIN S.node = 1 .. N
      /\ \A n \in 1 .. N : S.node[n].next = T.node[n].next /\ (n # i => S.node[n] = T.node[n])
      /\ S.node[i].key = DeadKey(k.v) /\ k \in Objects /\ i \in 1 .. N
  BY Shape DEF Removed, Whole
<1>2. k \in Collectable(T) /\ k \in O /\ k \in Keys
  BY <1>1 DEF Collectable, KeysIn, Keys
<1>3. j \in Keys
  BY DEF Known
<1> HIDE DEF k, N
<1>4. S.node[i].key \in Same(j) <=> k \in Same(j)
  <2>1. CASE j = k
    BY <1>1, <1>2, <2>1 DEF Same, k
  <2>2. CASE j # k
    <3>1. k \notin Same(j)
      BY <1>2, <2>2, SameKeys
    <3>2. ASSUME S.node[i].key \in Same(j)
          PROVE  FALSE
      <4>1. DeadKey(k.v) # j
        BY <1>3, KeysApart
      <4>2. iscollectable(j) /\ DeadKey(k.v) = DeadKey(j.v)
        BY <1>1, <3>2, <4>1 DEF Same
      <4>3. k.v = j.v /\ j \in O
        BY <4>2 DEF DeadKey, Known
      <4> QED BY <1>2, <2>2, <4>3 DEF Distinct
    <3> QED BY <3>1, <3>2
  <2> QED BY <2>1, <2>2
<1>5. Places(S, j) = Places(T, j)
  <2>1. \A n \in 1 .. N : S.node[n].key \in Same(j) <=> T.node[n].key \in Same(j)
    BY <1>1, <1>4 DEF k
  <2> QED BY <1>1, <2>1 DEF Places
<1>6. \A n \in 0 .. N : \A A : FirstInChain(S, n, A) = FirstInChain(T, n, A)
  BY <1>1, SameChains DEF N
<1>7. mainposition(S, j) = mainposition(T, j)
  BY <1>1, MainPositionStays DEF N
<1>8. ASSUME ~isdummy(T)
      PROVE  Seek(S, j) = Seek(T, j)
  <2>1. mainposition(T, j) \in 0 .. N
    BY <1>1, <1>3, <1>8, Sought DEF N
  <2> QED BY <1>5, <1>6, <1>7, <2>1 DEF Seek
<1>9. InArray(S, j) <=> InArray(T, j)
  BY InArrayStays DEF Removed
<1> QED BY <1>8, <1>9

\* So the table is as whole as before, has the same fields at the same places,
\* and a traversal goes on from where it is.
LEMMA RemovedRight ==
  ASSUME NEW T, Whole(T), NEW O, Distinct(O), Collectable(T) \subseteq O,
         NEW i \in 1 .. sizenode(T), iscollectable(T.node[i].key), T.node[i].val = "nil",
         NEW S, Removed(T, i, S)
  PROVE  /\ Whole(S) /\ Collectable(S) \subseteq O
         /\ \A j \in Keys : luaH_get(S, j) = luaH_get(T, j)
         /\ \A j \in Keys : luaH_get(T, j) # "nil" => Position(S, j) = Position(T, j)
         /\ \A j : Known(O, j) => findindex(S, j) = findindex(T, j) /\ (At(S, j) <=> At(T, j))
<1> DEFINE N == sizenode(T)
           k == T.node[i].key
<1>1. /\ Good(T) /\ Good(S) /\ Hung(T) /\ sizenode(S) = N /\ N \in Nat /\ sizearray(S) = sizearray(T)
      /\ S.array = T.array /\ (isdummy(S) <=> isdummy(T)) /\ i \in 1 .. N /\ (N # 0 => ~isdummy(T))
      /\ \A n \in 1 .. N : S.node[n].next = T.node[n].next /\ (n # i => S.node[n] = T.node[n])
      /\ S.node[i].key = DeadKey(k.v) /\ k \in Keys /\ k \in KeysIn(T)
  <2>1. k \in Keys /\ k \in KeysIn(T)
    BY DEF Removed, Keys, KeysIn
  <2>2. (isdummy(S) <=> isdummy(T)) /\ N \in Nat /\ (N # 0 => ~isdummy(T))
    BY Shape DEF Removed, Whole
  <2> QED BY <2>1, <2>2 DEF Removed, Whole
<1>2. DeadKey(k.v) \notin Keys /\ nil \notin Keys /\ DeadKey(k.v) # nil /\ ~iscollectable(DeadKey(k.v)) /\ k # nil
  BY <1>1, KeysApart DEF iscollectable, DeadKey
<1> HIDE DEF k, N
<1>3. \A n \in 1 .. N : S.node[n].key \in Keys => n # i /\ S.node[n] = T.node[n]
  BY <1>1, <1>2
<1>4. ASSUME NEW n \in 1 .. N, T.node[n].key \in Keys
      PROVE  Known(O, T.node[n].key)
  BY <1>4 DEF Known, Collectable, KeysIn, N
<1>5. ASSUME NEW j, Known(O, j)
      PROVE  (InArray(S, j) <=> InArray(T, j)) /\ (~isdummy(T) => Seek(S, j) = Seek(T, j))
  BY <1>5, RemovedPlaces
<1>6. Hung(S)
  <2>1. ASSUME NEW n \in 1 .. N, S.node[n].key \in Keys
        PROVE  Seek(S, S.node[n].key) = n
    <3>1. S.node[n].key = T.node[n].key /\ T.node[n].key \in Keys
      BY <1>3, <2>1
    <3>2. Seek(T, T.node[n].key) = n /\ ~isdummy(T)
      BY <1>1, <3>1 DEF Hung, N
    <3>3. Known(O, T.node[n].key)
      BY <1>4, <3>1
    <3> QED BY <1>5, <3>1, <3>2, <3>3
  <2> QED BY <1>1, <2>1 DEF Hung
<1>7. Single(S)
  <2>1. \A n \in 1 .. N : S.node[n].key = nil => T.node[n].key = nil
    BY <1>1, <1>2
  <2> QED BY <1>1, <2>1 DEF Whole, Single, N
<1>8. \A j : InArray(S, j) <=> InArray(T, j)
  BY <1>1, InArrayStays
<1>9. Apart(S)
  BY <1>1, <1>3, <1>8 DEF Whole, Apart, N
<1>10. Whole(S)
  BY <1>1, <1>6, <1>7, <1>9 DEF Whole
<1>11. Collectable(S) \subseteq O
  <2>1. \A n \in 1 .. N : iscollectable(S.node[n].key) => n # i /\ S.node[n].key = T.node[n].key
    BY <1>1, <1>2
  <2> QED BY <1>1, <2>1 DEF Collectable, KeysIn, N
<1>12. ASSUME NEW j \in Keys
       PROVE  /\ luaH_get(S, j) = luaH_get(T, j)
              /\ luaH_get(T, j) # "nil" => Position(S, j) = Position(T, j)
  <2>1. CASE InArray(T, j)
    BY <1>1, <1>8, <2>1 DEF luaH_get, Position
  <2>2. CASE ~InArray(T, j) /\ j = k
    <3>1. luaH_get(T, j) = "nil"
      BY <1>1, <2>2, GetOfNode DEF k, N
    <3>2. \A n \in 1 .. N : S.node[n].key # k
      <4>1. ASSUME NEW n \in 1 .. N, S.node[n].key = k
            PROVE  FALSE
        <5>1. n # i /\ T.node[n].key = k
          BY <1>1, <1>3, <4>1
        <5>2. FindNode(T, k) = n /\ FindNode(T, k) = i
          BY <1>1, <5>1, KeyFound DEF k, N
        <5> QED BY <5>1, <5>2
      <4> QED BY <4>1
    <3>3. luaH_get(S, j) = "nil"
      BY <1>1, <1>8, <2>2, <3>2, GetOfNone
    <3> QED BY <3>1, <3>3
  <2>3. CASE ~InArray(T, j) /\ j # k /\ \E n \in 1 .. N : T.node[n].key = j
    <3>1. PICK n \in 1 .. N : T.node[n].key = j
      BY <2>3
    <3>2. n # i /\ S.node[n].key = j /\ S.node[n].val = T.node[n].val
      BY <1>1, <2>3, <3>1 DEF k
    <3>3. luaH_get(T, j) = T.node[n].val /\ FindNode(T, j) = n
      BY <1>1, <3>1, GetOfNode, KeyFound DEF N
    <3>4. luaH_get(S, j) = S.node[n].val /\ FindNode(S, j) = n
      BY <1>1, <1>6, <1>10, <3>2, GetOfNode, KeyFound
    <3> QED BY <1>1, <1>8, <3>2, <3>3, <3>4 DEF Position
  <2>4. CASE ~InArray(T, j) /\ ~(\E n \in 1 .. N : T.node[n].key = j)
    <3>1. luaH_get(T, j) = "nil"
      BY <1>1, <2>4, GetOfNone DEF N
    <3>2. \A n \in 1 .. N : S.node[n].key # j
      BY <1>3, <2>4
    <3>3. luaH_get(S, j) = "nil"
      BY <1>1, <1>8, <2>4, <3>2, GetOfNone
    <3> QED BY <3>1, <3>3
  <2> QED BY <2>1, <2>2, <2>3, <2>4
<1>13. ASSUME NEW j, Known(O, j)
       PROVE  findindex(S, j) = findindex(T, j) /\ (At(S, j) <=> At(T, j))
  <2>1. j \in Keys
    BY <1>13 DEF Known
  <2>2. (InArray(S, j) <=> InArray(T, j)) /\ (~isdummy(T) => Seek(S, j) = Seek(T, j))
    BY <1>5, <1>13
  <2> QED BY <1>1, <2>1, <2>2, IndexOf DEF At
<1> QED BY <1>10, <1>11, <1>12, <1>13

-----------------------------------------------------------------------------
(* The table is the map of LuaMap while there is memory.                   *)

\* The fields a traversal has still to give.
Left(T, p) == {j \in Keys : luaH_get(T, j) # "nil" /\ Position(T, j) > findindex(T, p)}
Later(T, p) == {j \in findindex(T, p) + 1 .. sizearray(T) + sizenode(T) : EntryVal(T, j) # "nil"}

\* A traversal gives the first of them, and leaves the others.
LEMMA Given ==
  ASSUME NEW T, Whole(T), NEW p, p = nil \/ (p \in Keys /\ At(T, p))
  PROVE  /\ findindex(T, p) \in 0 .. sizearray(T) + sizenode(T)
         /\ Later(T, p) = {} => Left(T, p) = {}
         /\ Later(T, p) # {} =>
              LET k == EntryKey(T, Min(Later(T, p)))
              IN  /\ k \in Left(T, p) /\ k \in Keys /\ At(T, k) /\ Left(T, k) = Left(T, p) \ {k}
                  /\ iscollectable(k) => k \in Collectable(T)
<1> DEFINE M == sizearray(T)
           N == sizenode(T)
           i == findindex(T, p)
           later == Later(T, p)
<1>1. M \in Nat /\ N \in Nat /\ Good(T)
  BY Shape DEF Whole
<1>2. i \in 0 .. M + N
  <2>1. CASE p = nil
    <3>1. i = 0
      BY <2>1 DEF findindex
    <3> QED BY <1>1, <3>1
  <2>2. CASE p \in Keys /\ At(T, p)
    <3>1. i \in 1 .. M + N
      BY <1>1, <2>2, AtFound
    <3> QED BY <1>1, <3>1
  <2> QED BY <2>1, <2>2
<1>3. later = {j \in i + 1 .. M + N : EntryVal(T, j) # "nil"}
  BY DEF Later
<1>4. \A j \in Keys : luaH_get(T, j) # "nil" =>
        /\ Position(T, j) \in 1 .. M + N /\ EntryKey(T, Position(T, j)) = j
        /\ EntryVal(T, Position(T, j)) # "nil"
        /\ At(T, j) /\ findindex(T, j) = Position(T, j)
  BY FieldPosition
<1> HIDE DEF M, N, i, later
<1>5. later \in SUBSET (1 .. M + N) /\ \A j \in later : j > i /\ EntryVal(T, j) # "nil"
  BY <1>1, <1>2, <1>3
<1>6. ASSUME NEW j \in Left(T, p)
      PROVE  Position(T, j) \in later
  <2>1. j \in Keys /\ luaH_get(T, j) # "nil" /\ Position(T, j) > i
    BY DEF Left, i
  <2>2. Position(T, j) \in 1 .. M + N /\ EntryVal(T, Position(T, j)) # "nil"
    BY <1>4, <2>1
  <2>3. Position(T, j) \in i + 1 .. M + N
    BY <1>1, <1>2, <2>1, <2>2
  <2> QED BY <1>3, <2>2, <2>3
<1>7. ASSUME later # {}
      PROVE  LET k == EntryKey(T, Min(later))
             IN  /\ k \in Left(T, p) /\ k \in Keys /\ At(T, k) /\ Left(T, k) = Left(T, p) \ {k}
                 /\ iscollectable(k) => k \in Collectable(T)
  <2> DEFINE m == Min(later)
             k == EntryKey(T, m)
  <2>1. m \in later /\ \A n \in later : m <= n
    <3>1. later \in SUBSET Nat
      BY <1>1, <1>5
    <3> QED BY <1>7, <3>1, Smallest
  <2> HIDE DEF m
  <2>2. m \in 1 .. M + N /\ m > i /\ EntryVal(T, m) # "nil"
    BY <1>5, <2>1
  <2>3. k \in Keys /\ luaH_get(T, k) # "nil" /\ Position(T, k) = m
    BY <2>2, PositionOf DEF M, N
  <2>4. iscollectable(k) => k \in Collectable(T)
    <3>1. ASSUME iscollectable(k)
          PROVE  k \in Collectable(T)
      <4>1. ~(m <= M)
        BY <3>1 DEF EntryKey, IntKey, iscollectable, M
      <4>2. m - M \in 1 .. N /\ k = T.node[m - M].key
        BY <1>1, <2>2, <4>1 DEF EntryKey, M
      <4> QED BY <3>1, <4>2 DEF Collectable, KeysIn, N
    <3> QED BY <3>1
  <2> HIDE DEF k
  <2>5. k \in Left(T, p)
    BY <2>2, <2>3 DEF Left, i
  <2>6. At(T, k) /\ findindex(T, k) = m
    BY <1>4, <2>3
  <2>7. ASSUME NEW j \in Keys, luaH_get(T, j) # "nil"
        PROVE  Position(T, j) > m <=> Position(T, j) > i /\ j # k
    <3>1. Position(T, j) \in 1 .. M + N /\ EntryKey(T, Position(T, j)) = j
      BY <1>4, <2>7
    <3>2. ASSUME Position(T, j) > i
          PROVE  m <= Position(T, j)
      <4>1. j \in Left(T, p)
        BY <2>7, <3>2 DEF Left, i
      <4> QED BY <1>6, <2>1, <4>1
    <3>3. Position(T, j) = m <=> j = k
      BY <2>3, <3>1 DEF k
    <3>4. Position(T, j) \in Nat /\ m \in Nat /\ i \in Nat
      BY <1>1, <1>2, <2>2, <3>1
    <3> HIDE DEF k
    <3> QED BY <2>2, <3>2, <3>3, <3>4
  <2>8. Left(T, k) = Left(T, p) \ {k}
    <3>1. \A j : j \in Left(T, k) <=> j \in Keys /\ luaH_get(T, j) # "nil" /\ Position(T, j) > m
      BY <2>6 DEF Left
    <3>2. \A j : j \in Left(T, p) <=> j \in Keys /\ luaH_get(T, j) # "nil" /\ Position(T, j) > i
      BY DEF Left, i
    <3> QED BY <2>7, <3>1, <3>2
  <2> QED BY <2>3, <2>4, <2>5, <2>6, <2>8 DEF k, m
<1>8. later = {} => Left(T, p) = {}
  BY <1>6
<1> QED BY <1>2, <1>7, <1>8 DEF M, N, i, later

\* At its start a traversal has all fields to give.
LEMMA AllLeft ==
  ASSUME NEW T, Whole(T)
  PROVE  Left(T, nil) = {j \in Keys : luaH_get(T, j) # "nil"}
<1>1. findindex(T, nil) = 0
  BY DEF findindex
<1>2. \A j \in Keys : luaH_get(T, j) # "nil" => Position(T, j) > 0
  <2>1. sizearray(T) + sizenode(T) \in Nat
    BY Shape DEF Whole
  <2> QED BY <2>1, FieldPosition
<1> QED BY <1>1, <1>2 DEF Left

\* An assignment during a traversal takes a cleared field from those left.
LEMMA LeftAssigned ==
  ASSUME NEW T, Whole(T), NEW k \in Keys, NEW v \in Value \cup {"nil"}, luaH_get(T, k) # "nil",
         NEW S, S = luaH_set(T, k, v), NEW p \in Keys \cup {nil},
         \A j \in Keys : luaH_get(S, j) = IF j = k THEN v ELSE luaH_get(T, j)
  PROVE  Left(S, p) = IF v = "nil" THEN Left(T, p) \ {k} ELSE Left(T, p)
<1>1. \A j \in Keys : Position(S, j) = Position(T, j)
  BY SetInPlace DEF SamePlaces
<1>2. findindex(S, p) = findindex(T, p)
  <2>1. CASE p = nil
    BY <2>1 DEF findindex
  <2>2. CASE p \in Keys
    BY <2>2, SetInPlace DEF SamePlaces
  <2> QED BY <2>1, <2>2
<1>3. \A j : j \in Left(S, p) <=> j \in Keys /\ luaH_get(S, j) # "nil" /\ Position(S, j) > findindex(S, p)
  BY DEF Left
<1>4. \A j : j \in Left(T, p) <=> j \in Keys /\ luaH_get(T, j) # "nil" /\ Position(T, j) > findindex(T, p)
  BY DEF Left
<1>5. ASSUME NEW j
      PROVE  j \in Left(S, p) <=> j \in (IF v = "nil" THEN Left(T, p) \ {k} ELSE Left(T, p))
  BY <1>1, <1>2, <1>3, <1>4
<1> QED BY <1>5

\* The collector's work leaves them as they are.
LEMMA LeftRemoved ==
  ASSUME NEW T, NEW S, NEW p,
         \A j \in Keys : luaH_get(S, j) = luaH_get(T, j),
         \A j \in Keys : luaH_get(T, j) # "nil" => Position(S, j) = Position(T, j),
         findindex(S, p) = findindex(T, p)
  PROVE  Left(S, p) = Left(T, p)
BY DEF Left

\* While memory lasts the table is whole, no key is an object that is gone, and
\* the traversal is at a key it finds.
Intact ==
  /\ Whole(t) /\ Collectable(t) \subseteq objects /\ Distinct(objects)
  /\ key # Invalid /\ (key \in Keys => Known(objects, key) /\ At(t, key))

\* The variables of LuaMap.
MapOf(T) == [j \in Keys |-> luaH_get(T, j)]
LeftOf(T, p) == IF p \in {NoTraversal, Invalid} THEN {} ELSE Left(T, p)
StateOf(p) == IF p = NoTraversal THEN "idle" ELSE IF p = Invalid THEN "error" ELSE "traversing"
LEMMA Bars ==
  /\ mapBar = MapOf(t) /\ stateBar = StateOf(key) /\ leftBar = LeftOf(t, key)
  /\ mapBar' = MapOf(t') /\ stateBar' = StateOf(key') /\ leftBar' = LeftOf(t', key')
<1>1. mapBar = MapOf(t) /\ mapBar' = MapOf(t')
  BY DEF mapBar, MapOf
<1>2. stateBar = StateOf(key) /\ stateBar' = StateOf(key')
  BY DEF stateBar, StateOf
<1>3. leftBar = LeftOf(t, key)
  BY DEF leftBar, LeftOf, Left, EntryNumber, Position
<1>4. leftBar' = LeftOf(t', key')
  BY DEF leftBar, LeftOf, Left, EntryNumber, Position
<1> QED BY <1>1, <1>2, <1>3, <1>4

\* What is no key.
LEMMA NoKeys == NoTraversal \notin Keys /\ Invalid \notin Keys /\ nil \notin {NoTraversal, Invalid} /\ NoTraversal # Invalid
<1>1. NoTraversal.tt = "none" /\ Invalid.tt = "invalid key to 'next'" /\ nil.tt = "LUA_TNIL"
  BY DEF NoTraversal, Invalid, nil
<1>2. \A k \in Keys : k.tt \in {"LUA_TNUMINT", "LUA_TSHRSTR", "LUA_TTABLE"}
  BY DEF Keys, Objects, IntKey
<1> QED BY <1>1, <1>2

\* What Set does to a whole table.
LEMMA SetDoes ==
  ASSUME Whole(t), NEW k \in Keys, NEW v \in Value \cup {"nil"}, Set(k, v), ~failed'
  PROVE  /\ Whole(t')
         /\ \A j \in Keys : luaH_get(t', j) = IF j = k THEN v ELSE luaH_get(t, j)
         /\ Collectable(t') \subseteq Collectable(t) \cup {k}
         /\ luaH_get(t, k) # "nil" => t' = luaH_set(t, k, v)
<1>1. CASE ~InArray(t, k) /\ FindNode(t, k) = 0 /\ MustRehash(t, k)
  <2>1. t' = luaH_set(rehash(t, k), k, v)
    BY <1>1 DEF Set
  <2>2. luaH_get(t, k) = "nil"
    BY <1>1 DEF luaH_get
  <2> QED BY <2>1, <2>2, SetRehashed
<1>2. CASE ~(~InArray(t, k) /\ FindNode(t, k) = 0 /\ MustRehash(t, k))
  <2>1. t' = luaH_set(t, k, v)
    BY <1>2 DEF Set
  <2> QED BY <1>2, <2>1, SetWhole
<1> QED BY <1>1, <1>2

\* An assignment is one.
LEMMA SetMaps ==
  ASSUME IInv, Intact, NEW k \in Keys, NEW v \in Value \cup {"nil"}, Set(k, v), ~failed'
  PROVE  Intact' /\ Map!Assign(k, v)
<1>1. /\ Whole(t) /\ Collectable(t) \subseteq objects /\ Distinct(objects)
      /\ key # Invalid /\ (key \in Keys => Known(objects, key) /\ At(t, key))
      /\ key \in Keys \cup {nil, NoTraversal, Invalid}
  BY DEF Intact, IInv
<1>2. /\ Whole(t')
      /\ \A j \in Keys : luaH_get(t', j) = IF j = k THEN v ELSE luaH_get(t, j)
      /\ Collectable(t') \subseteq Collectable(t) \cup {k}
      /\ luaH_get(t, k) # "nil" => t' = luaH_set(t, k, v)
  BY <1>1, SetDoes
<1>3. /\ iscollectable(k) => k \in objects
      /\ key # NoTraversal => luaH_get(t, k) # "nil"
      /\ objects' = objects /\ key' = key
  BY DEF Set
<1>4. Collectable(t') \subseteq objects
  BY <1>1, <1>2, <1>3 DEF Collectable
<1>5. ASSUME key \in Keys
      PROVE  At(t', key)
  <2>1. luaH_get(t, k) # "nil" /\ t' = luaH_set(t, k, v)
    BY <1>2, <1>3, <1>5, NoKeys
  <2> QED BY <1>1, <1>5, <2>1, SetInPlace DEF SamePlaces
<1>6. Intact'
  BY <1>1, <1>2, <1>3, <1>4, <1>5 DEF Intact
<1>7. MapOf(t') = [MapOf(t) EXCEPT ![k] = v]
  BY <1>2 DEF MapOf
<1>8. LeftOf(t', key) = IF v = "nil" THEN LeftOf(t, key) \ {k} ELSE LeftOf(t, key)
  <2>1. CASE key = NoTraversal
    BY <2>1 DEF LeftOf
  <2>2. CASE key # NoTraversal
    <3>1. key \in Keys \cup {nil} /\ luaH_get(t, k) # "nil" /\ t' = luaH_set(t, k, v)
      BY <1>1, <1>2, <1>3, <2>2
    <3>2. Left(t', key) = IF v = "nil" THEN Left(t, key) \ {k} ELSE Left(t, key)
      BY <1>1, <1>2, <3>1, LeftAssigned
    <3> QED BY <1>1, <2>2, <3>2 DEF LeftOf
  <2> QED BY <2>1, <2>2
<1>9. StateOf(key) = "traversing" => MapOf(t)[k] # "nil"
  BY <1>3 DEF StateOf, MapOf
<1> QED BY <1>3, <1>6, <1>7, <1>8, <1>9, Bars DEF Map!Assign

\* A step of the traversal gives a field that is left, or ends it.
LEMMA NextMaps ==
  ASSUME IInv, Intact, luaH_next
  PROVE  Intact' /\ (Map!End \/ \E k \in Keys : Map!Give(k))
<1>1. /\ Whole(t) /\ Collectable(t) \subseteq objects /\ Distinct(objects)
      /\ key \in Keys \cup {nil} /\ (key = nil \/ (key \in Keys /\ At(t, key)))
  BY DEF Intact, IInv, luaH_next
<1>2. /\ t' = t /\ objects' = objects
      /\ key' = IF findindex(t, key) = -1 THEN Invalid
                ELSE IF Later(t, key) = {} THEN NoTraversal ELSE EntryKey(t, Min(Later(t, key)))
  BY DEF luaH_next, Later
<1>3. findindex(t, key) \in 0 .. sizearray(t) + sizenode(t)
  BY <1>1, Given
<1>4. findindex(t, key) # -1
  <2>1. sizearray(t) \in Nat /\ sizenode(t) \in Nat
    BY <1>1, Shape DEF Whole
  <2> QED BY <1>3, <2>1
<1>5. StateOf(key) = "traversing" /\ LeftOf(t, key) = Left(t, key)
  BY <1>1, NoKeys DEF StateOf, LeftOf
<1>6. CASE Later(t, key) = {}
  <2>1. key' = NoTraversal /\ Left(t, key) = {}
    BY <1>1, <1>2, <1>4, <1>6, Given
  <2>2. Intact'
    BY <1>1, <1>2, <2>1, NoKeys DEF Intact
  <2>3. StateOf(key') = "idle" /\ LeftOf(t', key') = {}
    BY <2>1 DEF StateOf, LeftOf
  <2>4. Map!End
    BY <1>2, <1>5, <2>1, <2>3, Bars DEF Map!End
  <2> QED BY <2>2, <2>4
<1>7. CASE Later(t, key) # {}
  <2> DEFINE k == EntryKey(t, Min(Later(t, key)))
  <2>1. key' = k
    BY <1>2, <1>4, <1>7
  <2>2. /\ k \in Left(t, key) /\ k \in Keys /\ At(t, k) /\ Left(t, k) = Left(t, key) \ {k}
        /\ iscollectable(k) => k \in Collectable(t)
    BY <1>1, <1>7, Given
  <2> HIDE DEF k
  <2>3. k \notin {NoTraversal, Invalid} /\ Known(objects, k)
    BY <1>1, <2>2, NoKeys DEF Known
  <2>4. Intact'
    BY <1>1, <1>2, <2>1, <2>2, <2>3 DEF Intact
  <2>5. StateOf(key') = "traversing" /\ LeftOf(t', key') = Left(t, key) \ {k}
    BY <1>2, <2>1, <2>2, <2>3 DEF StateOf, LeftOf
  <2>6. Map!Give(k)
    BY <1>2, <1>5, <2>2, <2>5, Bars DEF Map!Give
  <2> QED BY <2>2, <2>4, <2>6
<1> QED BY <1>6, <1>7

\* A loop starts, or is left.
LEMMA LoopMaps ==
  ASSUME IInv, Intact, StartTraversal \/ LeaveTraversal
  PROVE  Intact' /\ (Map!Start \/ Map!Break)
<1>1. /\ Whole(t) /\ Collectable(t) \subseteq objects /\ Distinct(objects)
      /\ t' = t /\ objects' = objects /\ key # Invalid
  BY DEF Intact, StartTraversal, LeaveTraversal
<1>2. CASE StartTraversal
  <2>1. key = NoTraversal /\ key' = nil
    BY <1>2 DEF StartTraversal
  <2>2. Intact'
    BY <1>1, <2>1, NoKeys, KeysApart DEF Intact
  <2>3. StateOf(key) = "idle" /\ StateOf(key') = "traversing"
    BY <2>1, NoKeys DEF StateOf
  <2>4. LeftOf(t', key') = {j \in Keys : MapOf(t)[j] # "nil"}
    BY <1>1, <2>1, NoKeys, AllLeft DEF LeftOf, MapOf
  <2>5. Map!Start
    BY <1>1, <2>3, <2>4, Bars DEF Map!Start
  <2> QED BY <2>2, <2>5
<1>3. CASE LeaveTraversal
  <2>1. key # NoTraversal /\ key' = NoTraversal
    BY <1>3 DEF LeaveTraversal
  <2>2. Intact'
    BY <1>1, <2>1, NoKeys DEF Intact
  <2>3. StateOf(key) = "traversing" /\ StateOf(key') = "idle" /\ LeftOf(t', key') = {}
    BY <1>1, <2>1 DEF StateOf, LeftOf
  <2>4. Map!Break
    BY <1>1, <2>3, Bars DEF Map!Break
  <2> QED BY <2>2, <2>4
<1> QED BY <1>2, <1>3

\* Objects come and go, and the map stays.
Stays == UNCHANGED <<mapBar, stateBar, leftBar>>
LEMMA ObjectsMap ==
  ASSUME IInv, Intact, NEW o, NewObject(o) \/ FreeObject(o)
  PROVE  Intact' /\ Stays
<1>1. /\ Whole(t) /\ Collectable(t) \subseteq objects /\ Distinct(objects)
      /\ key # Invalid /\ (key \in Keys => Known(objects, key) /\ At(t, key))
      /\ t' = t /\ key' = key
  BY DEF Intact, NewObject, FreeObject
<1>2. Stays
  BY <1>1, Bars DEF Stays
<1>3. CASE NewObject(o)
  <2>1. objects' = objects \cup {o} /\ \A p \in objects : p.v # o.v
    BY <1>3 DEF NewObject
  <2>2. Distinct(objects')
    BY <1>1, <2>1 DEF Distinct
  <2>3. key \in Keys => Known(objects', key)
    BY <1>1, <2>1 DEF Known
  <2>4. Intact'
    BY <1>1, <2>1, <2>2, <2>3 DEF Intact
  <2> QED BY <1>2, <2>4
<1>4. CASE FreeObject(o)
  <2>1. objects' = objects \ {o} /\ o # key /\ \A i \in DOMAIN t.node : t.node[i].key # o
    BY <1>4 DEF FreeObject
  <2>2. Distinct(objects')
    BY <1>1, <2>1 DEF Distinct
  <2>3. key \in Keys => Known(objects', key)
    BY <1>1, <2>1 DEF Known
  <2>4. Collectable(t) \subseteq objects'
    <3>1. DOMAIN t.node = 1 .. sizenode(t)
      BY <1>1, Shape DEF Whole
    <3> QED BY <1>1, <2>1, <3>1 DEF Collectable, KeysIn
  <2>5. Intact'
    BY <1>1, <2>2, <2>3, <2>4 DEF Intact
  <2> QED BY <1>2, <2>5
<1> QED BY <1>3, <1>4

\* An empty entry loses its key, and the map stays.
LEMMA RemovalMaps ==
  ASSUME IInv, Intact, NEW i \in DOMAIN t.node, removeentry(i)
  PROVE  Intact' /\ Stays
<1>1. /\ Whole(t) /\ Collectable(t) \subseteq objects /\ Distinct(objects)
      /\ key # Invalid /\ (key \in Keys => Known(objects, key) /\ At(t, key))
      /\ key \in Keys \cup {nil, NoTraversal, Invalid} /\ key' = key /\ objects' = objects
  BY DEF Intact, IInv, removeentry
<1>2. Good(t) /\ i \in 1 .. sizenode(t) /\ t.node[i].val = "nil" /\ iscollectable(t.node[i].key)
  BY <1>1, Shape DEF Whole, removeentry
<1>3. Removed(t, i, t')
  <2>1. Removed(t, i, SetNode(t, i, [t.node[i] EXCEPT !.key = DeadKey(@.v)]))
    BY <1>2, EntryRemoved
  <2> QED BY <2>1 DEF removeentry
<1>4. /\ Whole(t') /\ Collectable(t') \subseteq objects
      /\ \A j \in Keys : luaH_get(t', j) = luaH_get(t, j)
      /\ \A j \in Keys : luaH_get(t, j) # "nil" => Position(t', j) = Position(t, j)
      /\ \A j : Known(objects, j) => findindex(t', j) = findindex(t, j) /\ (At(t', j) <=> At(t, j))
  BY <1>1, <1>2, <1>3, RemovedRight
<1>5. Intact'
  BY <1>1, <1>4 DEF Intact
<1>6. MapOf(t') = MapOf(t)
  BY <1>4 DEF MapOf
<1>7. LeftOf(t', key) = LeftOf(t, key)
  <2>1. CASE key = NoTraversal
    BY <2>1 DEF LeftOf
  <2>2. CASE key # NoTraversal
    <3>1. findindex(t', key) = findindex(t, key)
      <4>1. CASE key = nil
        BY <4>1 DEF findindex
      <4>2. CASE key \in Keys
        BY <1>1, <1>4, <4>2
      <4> QED BY <1>1, <2>2, <4>1, <4>2
    <3>2. Left(t', key) = Left(t, key)
      BY <1>4, <3>1, LeftRemoved
    <3> QED BY <3>2 DEF LeftOf
  <2> QED BY <2>1, <2>2
<1> QED BY <1>1, <1>5, <1>6, <1>7, Bars DEF Stays

\* The table starts as an empty map.
LEMMA InitMaps ==
  ASSUME Init
  PROVE  Intact /\ Map!Init
<1> DEFINE T == [array |-> <<>>, node |-> <<>>, lastfree |-> 0]
<1>1. PICK na \in Preallocated, nh \in Preallocated : t = setnodevector(setarrayvector(T, na), nh)
  BY DEF Init
<1>2. objects = {} /\ key = NoTraversal
  BY DEF Init
<1>3. T.array = <<>> /\ T.array \in Seq(Value \cup {"nil"}) /\ T.node \in Seq(Node) /\ T.lastfree \in Nat
  OBVIOUS
<1>4. T \in Table
  <2>1. T = [array |-> T.array, node |-> T.node, lastfree |-> T.lastfree]
    OBVIOUS
  <2> HIDE DEF T
  <2> QED BY <1>3, <2>1 DEF Table
<1>5. Numbered(T) /\ \A j : ~InArray(T, j)
  <2>1. sizearray(T) = 0
    BY <1>3 DEF sizearray
  <2> HIDE DEF T
  <2> QED BY <2>1 DEF Numbered, InArray
<1>6. na \in Nat /\ nh \in Nat
  BY KeyAssumption
<1> HIDE DEF T
<1>7. /\ Whole(t) /\ KeysIn(t) \subseteq {nil}
      /\ \A j \in Keys : luaH_get(t, j) = IF InArray(t, j) /\ InArray(T, j) THEN T.array[j.v] ELSE "nil"
  <2>1. Renewed(T, na, nh, t)
    BY <1>1, <1>4, <1>5, <1>6, NewParts
  <2> QED BY <2>1 DEF Renewed
<1>8. Collectable(t) = {} /\ Distinct(objects)
  BY <1>2, <1>7 DEF Collectable, iscollectable, nil, Distinct
<1>9. Intact
  BY <1>2, <1>7, <1>8, NoKeys DEF Intact
<1>10. MapOf(t) = [j \in Keys |-> "nil"]
  BY <1>5, <1>7 DEF MapOf
<1>11. StateOf(key) = "idle" /\ LeftOf(t, key) = {}
  BY <1>2 DEF StateOf, LeftOf
<1> QED BY <1>9, <1>10, <1>11, Bars DEF Map!Init

\* The invariant, and what a step comes to.
InMemory == IInv /\ (failed = FALSE => Intact) /\ failed \in BOOLEAN
LEMMA StepMaps ==
  ASSUME InMemory, [Next]_vars
  PROVE  InMemory' /\ (failed' \/ Map!Next \/ Stays)
<1>1. IInv /\ IInv' /\ failed \in BOOLEAN
  BY StepGood DEF InMemory
<1>2. failed' = failed \/ failed' = TRUE
  BY DEF Next, Set, StartTraversal, LeaveTraversal, luaH_next, NewObject, removeentry, FreeObject, vars
<1>3. CASE failed' = TRUE
  BY <1>1, <1>3 DEF InMemory
<1>4. CASE failed' = FALSE
  <2>1. Intact
    BY <1>1, <1>2, <1>4 DEF InMemory
  <2>2. ASSUME NEW k \in Keys, NEW v \in Value \cup {"nil"}, Set(k, v)
        PROVE  Intact' /\ Map!Next
    <3>1. Intact' /\ Map!Assign(k, v)
      BY <1>1, <1>4, <2>1, <2>2, SetMaps
    <3> QED BY <3>1 DEF Map!Next
  <2>3. CASE StartTraversal \/ LeaveTraversal
    <3>1. Intact' /\ (Map!Start \/ Map!Break)
      BY <1>1, <2>1, <2>3, LoopMaps
    <3> QED BY <1>1, <1>4, <3>1 DEF Map!Next, InMemory
  <2>4. CASE luaH_next
    <3>1. Intact' /\ (Map!End \/ \E k \in Keys : Map!Give(k))
      BY <1>1, <2>1, <2>4, NextMaps
    <3> QED BY <1>1, <1>4, <3>1 DEF Map!Next, InMemory
  <2>5. ASSUME NEW o, NewObject(o) \/ FreeObject(o)
        PROVE  Intact' /\ Stays
    BY <1>1, <2>1, <2>5, ObjectsMap
  <2>6. ASSUME NEW i \in DOMAIN t.node, removeentry(i)
        PROVE  Intact' /\ Stays
    BY <1>1, <2>1, <2>6, RemovalMaps
  <2>7. CASE UNCHANGED vars
    <3>1. t' = t /\ objects' = objects /\ key' = key
      BY <2>7 DEF vars
    <3>2. Intact' /\ Stays
      BY <2>1, <3>1, Bars DEF Intact, Stays
    <3> QED BY <1>1, <1>4, <3>2 DEF InMemory
  <2> QED BY <1>1, <1>4, <2>2, <2>3, <2>4, <2>5, <2>6, <2>7 DEF Next, InMemory
<1> QED BY <1>1, <1>2, <1>3, <1>4

\* Collisions, moves of nodes, rehashes and dead keys come to no more than a map,
\* and a traversal gives each field once, until a rehash gets no memory: for
\* tables of any size, any number of keys, and whatever they hash to.
THEOREM MapImplemented == Spec => ImplementsMapInMemory
<1>1. Init => InMemory /\ Map!Init
  <2> SUFFICES ASSUME Init
               PROVE  InMemory /\ Map!Init
    OBVIOUS
  <2>1. IInv /\ failed = FALSE
    BY InitGood DEF Init
  <2> QED BY <2>1, InitMaps DEF InMemory
<1>2. InMemory /\ [Next]_vars => InMemory' /\ [failed' \/ Map!Next]_<<mapBar, stateBar, leftBar>>
  <2> SUFFICES ASSUME InMemory, [Next]_vars
               PROVE  InMemory' /\ [failed' \/ Map!Next]_<<mapBar, stateBar, leftBar>>
    OBVIOUS
  <2>1. InMemory' /\ (failed' \/ Map!Next \/ Stays)
    BY StepMaps
  <2> QED BY <2>1 DEF Stays
<1> QED BY <1>1, <1>2, PTL DEF Spec, ImplementsMapInMemory
=============================================================================
