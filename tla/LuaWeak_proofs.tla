--------------------------- MODULE LuaWeak_proofs ---------------------------
(***************************************************************************)
(* Theorems about the weak tables in a collection (LuaWeak): nothing that  *)
(* the program can get at is lost, and the entries that go are those the   *)
(* manual says.  A visit to a table, a round of convergeephemerons and the *)
(* clearing of a list each have lemmas about one node, which are carried   *)
(* through the table or the list by an induction on its length.            *)
(***************************************************************************)
EXTENDS LuaRuntime_MC, LuaInduction, SequenceTheorems

\* What may be a key, and what may be in a node; the heap, and the view of the
\* collector.
NodeKeys == Range(KeySeq)
NodeValues == W!Objs \cup {W!Empty, W!Dead, W!Absent}
Nodemaps == [Tables -> [NodeKeys -> NodeValues]]
ColorMaps == [W!Objs -> {"white", "gray", "black"}]
TableSeqs == Seq(Tables)
Views == [color : ColorMaps, gray : TableSeqs, again : TableSeqs, weak : TableSeqs,
          ephemeron : TableSeqs, next : TableSeqs, allweak : TableSeqs, node : Nodemaps]

\* The keys of t that have a value.
Entries(N, t) == {k \in NodeKeys : N[t][k] \in W!Objs}
\* The keys and the values of the nodes N of a table t are marked; none of them
\* is to be cleared; a value is marked if its key is.
KeysMarked(H, N, t)   == \A k \in Entries(N, t) : ~W!White(H, k)
ValuesMarked(H, N, t) == \A k \in Entries(N, t) : ~W!White(H, N[t][k])
KeysStay(H, N, t)     == \A k \in Entries(N, t) : ~W!IsCleared(H, k)
ValuesStay(H, N, t)   == \A k \in Entries(N, t) : ~W!IsCleared(H, N[t][k])
Settled(H, N, t)      == \A k \in Entries(N, t) : W!IsCleared(H, k) \/ ~W!White(H, N[t][k])
\* No empty node of it has a key that may be freed.
EmptyMarked(H, N, t)  == \A k \in NodeKeys : N[t][k] = W!Empty => ~W!White(H, k)

\* t is in the list; t is marked and no visit to it is due; between the clearing
\* of weak values and that of weak keys.
In(H, list, t) == t \in Range(H[list])
Visited(H, t) == ~W!White(H, t) /\ ~In(H, "gray", t) /\ ~In(H, "again", t)
Finalizing == stage \in {"finalizers", "converge2"}

\* The types, and that the roots are marked.
WeakTypes ==
  /\ mode \in [Tables -> {"", "k", "v", "kv"}] /\ fin \subseteq W!Objs \cap NodeKeys
  /\ h \in Views /\ held \in W!Objs \cup {W!None} /\ moves \in Int /\ changed \in BOOLEAN
  /\ stage \in {"propagate", "remarked", "converge", "finalizers", "converge2", "swept"}
  /\ stage # "propagate" => was \in Nodemaps /\ ~W!White(h, held)
  /\ Finalizing => strong \subseteq W!Objs /\ orig \in [weak : TableSeqs, allweak : TableSeqs]
  /\ ~W!White(h, Registry)

\* While the program runs, a strong table that needs no other visit is black,
\* and what it has is marked.
PropagateInv ==
  stage = "propagate" =>
    \A t \in Tables : Visited(h, t) =>
      \/ /\ mode[t] = "" /\ h.color[t] = "black" /\ EmptyMarked(h, h.node, t)
         /\ KeysMarked(h, h.node, t) /\ ValuesMarked(h, h.node, t)
      \/ mode[t] = "kv" /\ In(h, "allweak", t)

\* In atomic, a table that needs no other visit is in the list it has to be in,
\* or nothing is to be done for what it had when atomic began.
AtomicInv ==
  stage \notin {"propagate", "swept"} =>
    \A t \in Tables : Visited(h, t) =>
      \/ mode[t] = "" /\ KeysMarked(h, was, t) /\ ValuesMarked(h, was, t)
      \/ mode[t] = "v" /\ KeysMarked(h, was, t) /\ (In(h, "weak", t) \/ ValuesStay(h, was, t))
      \/ mode[t] = "kv" /\ In(h, "allweak", t)
      \/ /\ mode[t] = "k"
         /\ \/ In(h, "allweak", t)
            \/ KeysStay(h, was, t) /\ ValuesMarked(h, was, t)
            \/ In(h, "next", t)
            \/ In(h, "ephemeron", t) /\ (changed \/ stage = "remarked" \/ Settled(h, was, t))
\* Until weak keys are cleared, only weak values that were not marked before
\* the finalizers are gone.
NodesInv ==
  stage \notin {"propagate", "swept"} =>
    \A t \in Tables, k \in NodeKeys : was[t][k] \in W!Objs =>
      IF Finalizing /\ t \in strong /\ W!Weak(t, "v") /\ was[t][k] \notin Strings \cup strong
      THEN h.node[t][k] \notin W!Objs ELSE h.node[t][k] = was[t][k]

\* What is in which list at which stage.
ListsInv ==
  /\ \A t \in Tables : In(h, "gray", t) \/ In(h, "again", t) => ~W!White(h, t)
  /\ \A t \in Tables : In(h, "next", t) \/ In(h, "ephemeron", t) => mode[t] = "k" /\ ~W!White(h, t)
  /\ \A t \in Tables : In(h, "weak", t) => mode[t] = "v" /\ ~W!White(h, t)
  /\ \A t \in Tables : In(h, "allweak", t) =>
       /\ ~W!White(h, t)
       /\ mode[t] = "kv" \/ (mode[t] = "k" /\ stage # "propagate" /\ ValuesMarked(h, was, t))
  /\ stage \notin {"propagate", "remarked"} => h.again = <<>>
  /\ stage \notin {"converge", "converge2"} => h.next = <<>>
  /\ stage \in {"converge", "converge2"} /\ h.gray # <<>> => changed
  /\ stage \in {"finalizers", "swept"} => h.gray = <<>> /\ ~changed

\* What was marked before the finalizers leads to nothing else; the lists of
\* that time hold only such tables, and are the ends of the lists of now.
StrongInv ==
  /\ Finalizing =>
       /\ \A o \in strong : ~W!White(h, o) /\ ~In(h, "gray", o)
       /\ \A list \in {"weak", "allweak"} :
            /\ Range(orig[list]) \subseteq strong
            /\ \E front \in TableSeqs : h[list] = front \o orig[list]
       /\ W!Roots \subseteq strong /\ W!Leads(strong) \subseteq strong
  /\ stage = "converge2" => \A o \in fin : ~W!White(h, o)

\* In the end, what was marked before the finalizers, and what is marked now,
\* leads to nothing else.
Marked == {o \in W!Objs : ~W!White(h, o)}
Promises ==
  /\ W!Roots \subseteq strong /\ W!Leads(strong) \subseteq strong /\ strong \subseteq Marked
  /\ fin \subseteq Marked /\ W!Leads(Marked) \subseteq Marked
  /\ W!EntriesAsPromised
SweptInv == stage = "swept" => Promises

\* The inductive invariant.
WeakInv == WeakTypes /\ PropagateInv /\ AtomicInv /\ NodesInv /\ ListsInv /\ StrongInv /\ SweptInv

\* G comes from H by marking objects and by making empty nodes dead: what is
\* marked stays marked, and a table that becomes marked is gray and in 'gray'.
Unlisted == {"again", "weak", "ephemeron", "next", "allweak"}
Marking(H, G, t) == W!White(H, t) /\ ~W!White(G, t)
Later(H, G) ==
  /\ \A o \in W!Objs : W!White(G, o) => W!White(H, o)
  /\ \A t \in Tables : Marking(H, G, t) => In(G, "gray", t)
  /\ \A t \in Tables : ~Marking(H, G, t) => G.color[t] = H.color[t]
  /\ \A t \in Tables : In(H, "gray", t) => In(G, "gray", t)
  /\ \A t \in Tables : In(G, "gray", t) => In(H, "gray", t) \/ Marking(H, G, t)
  /\ \A list \in Unlisted : G[list] = H[list]
  /\ \A t \in Tables, k \in NodeKeys :
       G.node[t][k] = H.node[t][k] \/ (H.node[t][k] = W!Empty /\ G.node[t][k] = W!Dead)
\* Only strings are marked.
SameTables(H, G) == \A t \in Tables : G.color[t] = H.color[t]

\* What the objects and the keys are.
LEMMA DistinctThings ==
  /\ W!Objs = Tables \cup Strings /\ Tables \cap Strings = {}
  /\ W!Index \notin W!Objs /\ W!Empty \notin W!Objs /\ W!Dead \notin W!Objs /\ W!Absent \notin W!Objs
  /\ W!None \notin W!Objs /\ Registry \in Tables /\ IsFiniteSet(W!Objs)
  /\ W!Empty # W!Dead /\ W!Empty # W!Absent /\ W!Dead # W!Absent
  /\ Len(KeySeq) \in Nat /\ NodeKeys = {KeySeq[n] : n \in 1 .. Len(KeySeq)}
  /\ NodeKeys \subseteq W!Objs \cup {W!Index}
<1>1. KeySeq \in Seq(W!Objs \cup {W!Index})
  BY WeakAssumption
<1>2. Len(KeySeq) \in Nat /\ DOMAIN KeySeq = 1 .. Len(KeySeq)
  BY <1>1
<1>3. \A n \in 1 .. Len(KeySeq) : KeySeq[n] \in W!Objs \cup {W!Index}
  BY <1>1
<1>4. NodeKeys = {KeySeq[n] : n \in 1 .. Len(KeySeq)}
  BY <1>2 DEF NodeKeys, Range
<1>5. NodeKeys \subseteq W!Objs \cup {W!Index}
  BY <1>3, <1>4
<1>6. W!Objs = Tables \cup Strings
  BY DEF W!Objs
<1>7. W!Empty # W!Dead /\ W!Empty # W!Absent /\ W!Dead # W!Absent
  BY DEF W!Empty, W!Dead, W!Absent
<1> QED BY WeakAssumption, <1>2, <1>4, <1>5, <1>6, <1>7

\* A view is later than itself,
LEMMA LaterSame ==
  ASSUME NEW H
  PROVE  Later(H, H)
BY DEF Later, Marking

\* and what is later than a later one is later.
LEMMA LaterStill ==
  ASSUME NEW F, NEW G, NEW H, Later(H, G), Later(G, F)
  PROVE  Later(H, F)
<1>1. \A o \in W!Objs : W!White(F, o) => W!White(H, o)
  BY DEF Later
<1>2. Tables \subseteq W!Objs
  BY DistinctThings
<1>3. ASSUME NEW t \in Tables
      PROVE  /\ Marking(H, F, t) => In(F, "gray", t)
             /\ ~Marking(H, F, t) => F.color[t] = H.color[t]
             /\ In(H, "gray", t) => In(F, "gray", t)
             /\ In(F, "gray", t) => In(H, "gray", t) \/ Marking(H, F, t)
  BY <1>2 DEF Later, Marking
<1>4. \A list \in Unlisted : F[list] = H[list]
  BY DEF Later
<1>5. \A t \in Tables, k \in NodeKeys :
       F.node[t][k] = H.node[t][k] \/ (H.node[t][k] = W!Empty /\ F.node[t][k] = W!Dead)
  BY DistinctThings DEF Later
<1> QED BY <1>1, <1>3, <1>4, <1>5 DEF Later

\* An element in front of a sequence is in it, with all the others.
LEMMA RangeFront ==
  ASSUME NEW T, NEW s \in Seq(T), NEW x \in T
  PROVE  Range(<<x>> \o s) = {x} \cup Range(s)
<1> DEFINE r == <<x>> \o s
<1>1. /\ DOMAIN r = 1 .. Len(s) + 1 /\ DOMAIN s = 1 .. Len(s) /\ Len(s) \in Nat
      /\ r[1] = x /\ \A n \in 1 .. Len(s) : r[n + 1] = s[n]
  OBVIOUS
<1> HIDE DEF r
<1>2. ASSUME NEW n \in 1 .. Len(s) + 1
      PROVE  r[n] = x \/ \E m \in 1 .. Len(s) : r[n] = s[m]
  <2>1. CASE n = 1
    BY <1>1, <2>1
  <2>2. CASE n # 1
    <3>1. n - 1 \in 1 .. Len(s) /\ n = (n - 1) + 1
      BY <1>1, <2>2
    <3> QED BY <1>1, <3>1
  <2> QED BY <2>1, <2>2
<1>3. x \in Range(r)
  BY <1>1 DEF Range
<1>4. ASSUME NEW n \in 1 .. Len(s)
      PROVE  s[n] \in Range(r)
  <2>1. n + 1 \in 1 .. Len(s) + 1
    BY <1>1
  <2> QED BY <1>1, <2>1 DEF Range
<1>5. Range(r) = {r[n] : n \in 1 .. Len(s) + 1} /\ Range(s) = {s[n] : n \in 1 .. Len(s)}
  BY <1>1 DEF Range
<1>6. Range(r) = {x} \cup Range(s)
  BY <1>2, <1>3, <1>4, <1>5
<1> QED BY <1>6 DEF r

\* Marking an object (reallymarkobject).
LEMMA MarkIt ==
  ASSUME NEW H \in Views, NEW o
  PROVE  /\ W!Mark(H, o) \in Views /\ Later(H, W!Mark(H, o)) /\ ~W!White(W!Mark(H, o), o)
         /\ W!Mark(H, o).node = H.node
         /\ (o \in Strings \/ ~W!White(H, o)) => W!Mark(H, o).gray = H.gray /\ SameTables(H, W!Mark(H, o))
<1> DEFINE G == W!Mark(H, o)
<1>0. H.color \in [W!Objs -> {"white", "gray", "black"}] /\ H.gray \in Seq(Tables)
  BY DEF Views, ColorMaps, TableSeqs
<1>1. CASE ~W!White(H, o)
  <2>1. G = H
    BY <1>1 DEF W!Mark
  <2> QED BY <1>1, <2>1, LaterSame DEF SameTables
<1>2. CASE W!White(H, o) /\ o \in Strings
  <2>1. G = [H EXCEPT !.color = [H.color EXCEPT ![o] = "black"]]
    BY <1>2 DEF W!Mark
  <2>2. o \in W!Objs /\ o \notin Tables
    BY <1>2, DistinctThings DEF W!White
  <2>3. /\ G.color = [H.color EXCEPT ![o] = "black"] /\ G.gray = H.gray /\ G.node = H.node
        /\ \A list \in Unlisted : G[list] = H[list]
    BY <2>1 DEF Views, Unlisted
  <2>4. G \in Views
    <3>1. [H.color EXCEPT ![o] = "black"] \in [W!Objs -> {"white", "gray", "black"}]
      BY <1>0
    <3> QED BY <2>1, <3>1 DEF Views, ColorMaps
  <2>5. \A x \in W!Objs : G.color[x] = IF x = o THEN "black" ELSE H.color[x]
    BY <1>0, <2>3
  <2>6. ~W!White(G, o) /\ SameTables(H, G)
    BY <2>2, <2>5, DistinctThings DEF W!White, SameTables
  <2>7. Later(H, G)
    <3> HIDE DEF G
    <3> QED BY <2>2, <2>3, <2>5, DistinctThings DEF Later, Marking, W!White, In
  <2> QED BY <2>3, <2>4, <2>6, <2>7
<1>3. CASE W!White(H, o) /\ o \notin Strings
  <2>1. G = [H EXCEPT !.color = [H.color EXCEPT ![o] = "gray"], !.gray = <<o>> \o H.gray]
    BY <1>3 DEF W!Mark
  <2>2. o \in W!Objs /\ o \in Tables
    BY <1>3, DistinctThings DEF W!White
  <2>3. /\ G.color = [H.color EXCEPT ![o] = "gray"] /\ G.gray = <<o>> \o H.gray /\ G.node = H.node
        /\ \A list \in Unlisted : G[list] = H[list]
    BY <2>1 DEF Views, Unlisted
  <2>4. G \in Views
    <3>1. [H.color EXCEPT ![o] = "gray"] \in [W!Objs -> {"white", "gray", "black"}]
      BY <1>0
    <3>2. <<o>> \o H.gray \in Seq(Tables)
      BY <1>0, <2>2
    <3> QED BY <2>1, <3>1, <3>2 DEF Views, ColorMaps, TableSeqs
  <2>5. \A x \in W!Objs : G.color[x] = IF x = o THEN "gray" ELSE H.color[x]
    BY <1>0, <2>3
  <2>6. ~W!White(G, o)
    BY <2>2, <2>5, DistinctThings DEF W!White
  <2>7. Range(G.gray) = {o} \cup Range(H.gray)
    BY <1>0, <2>2, <2>3, RangeFront
  <2>8. Later(H, G)
    <3> HIDE DEF G
    <3> QED BY <1>3, <2>2, <2>3, <2>5, <2>7, DistinctThings DEF Later, Marking, W!White, In
  <2> QED BY <1>3, <2>3, <2>4, <2>6, <2>8
<1> QED BY <1>1, <1>2, <1>3

\* Marking it if it is a string (iscleared).
LEMMA StayIt ==
  ASSUME NEW H \in Views, NEW o
  PROVE  /\ W!Stay(H, o) \in Views /\ Later(H, W!Stay(H, o))
         /\ ~W!IsCleared(H, o) => ~W!White(W!Stay(H, o), o)
         /\ W!Stay(H, o).gray = H.gray /\ SameTables(H, W!Stay(H, o)) /\ W!Stay(H, o).node = H.node
<1>1. CASE o \in Strings
  BY <1>1, MarkIt DEF W!Stay
<1>2. CASE o \notin Strings
  BY <1>2, LaterSame DEF W!Stay, W!IsCleared, SameTables
<1> QED BY <1>1, <1>2

\* Removing an entry that is empty (removeentry).
LEMMA RemoveIt ==
  ASSUME NEW H \in Views, NEW t \in Tables, NEW k \in NodeKeys, ~W!HasValue(H, t, k)
  PROVE  LET G == W!RemoveEntry(H, t, k) IN
         /\ G \in Views /\ Later(H, G) /\ SameTables(H, G) /\ G.gray = H.gray
         /\ G.node[t][k] \notin W!Objs
         /\ G.node[t][k] = W!Empty => ~W!White(G, k)
<1> DEFINE G == W!RemoveEntry(H, t, k)
<1>0. H.node \in [Tables -> [NodeKeys -> NodeValues]]
  BY DEF Views, Nodemaps
<1>1. CASE H.node[t][k] = W!Empty /\ W!White(H, k)
  <2> DEFINE row == [H.node[t] EXCEPT ![k] = W!Dead]
             map == [H.node EXCEPT ![t] = row]
  <2>1. G = [H EXCEPT !.node = map]
    BY <1>1 DEF W!RemoveEntry
  <2>2. row \in [NodeKeys -> NodeValues]
    BY <1>0 DEF NodeValues
  <2>3. map \in Nodemaps /\ map[t] = row /\ \A x \in Tables : x # t => map[x] = H.node[x]
    <3> HIDE DEF row
    <3> QED BY <1>0, <2>2 DEF Nodemaps
  <2>4. \A j1 \in NodeKeys : row[j1] = IF j1 = k THEN W!Dead ELSE H.node[t][j1]
    BY <1>0
  <2> HIDE DEF row, map
  <2>5. /\ G \in Views /\ G.color = H.color /\ G.gray = H.gray /\ G.node = map
        /\ \A list \in Unlisted : G[list] = H[list]
    BY <2>1, <2>3 DEF Views, Unlisted
  <2> HIDE DEF G
  <2>6. \A x \in Tables, j1 \in NodeKeys :
          G.node[x][j1] = H.node[x][j1] \/ (H.node[x][j1] = W!Empty /\ G.node[x][j1] = W!Dead)
    BY <1>1, <2>3, <2>4, <2>5
  <2>7. Later(H, G)
    BY <2>5, <2>6 DEF Later, Marking, W!White, In
  <2>8. G.node[t][k] = W!Dead
    BY <2>3, <2>4, <2>5
  <2> QED BY <2>5, <2>7, <2>8, DistinctThings DEF SameTables, G
<1>2. CASE ~(H.node[t][k] = W!Empty /\ W!White(H, k))
  <2>1. G = H
    BY <1>2 DEF W!RemoveEntry
  <2> QED BY <1>2, <2>1, LaterSame DEF SameTables, W!HasValue
<1> QED BY <1>1, <1>2

\* An entry of a table stays as it was, once it has been looked at.
EntryMarked(H, t, k) ==
  /\ H.node[t][k] \in W!Objs => ~W!White(H, k) /\ ~W!White(H, H.node[t][k])
  /\ H.node[t][k] = W!Empty => ~W!White(H, k)

\* What is left of an entry when something was marked since.
LEMMA EntryStays ==
  ASSUME NEW H, NEW G, Later(H, G), NEW t \in Tables, NEW k \in NodeKeys
  PROVE  /\ EntryMarked(H, t, k) => EntryMarked(G, t, k)
         /\ G.node[t][k] \in W!Objs <=> H.node[t][k] \in W!Objs
         /\ G.node[t][k] \in W!Objs => G.node[t][k] = H.node[t][k]
         /\ \A o : W!White(G, o) => W!White(H, o)
<1>1. G.node[t][k] = H.node[t][k] \/ (H.node[t][k] = W!Empty /\ G.node[t][k] = W!Dead)
  BY DEF Later
<1>2. \A o : W!White(G, o) => W!White(H, o)
  BY DEF Later, W!White
<1> QED BY <1>1, <1>2, DistinctThings DEF EntryMarked

\* An entry of a strong table (traversestrongtable).
LEMMA StrongEntryRight ==
  ASSUME NEW H \in Views, NEW t \in Tables, NEW k \in NodeKeys
  PROVE  LET G == W!StrongEntry(H, t, k) IN G \in Views /\ Later(H, G) /\ EntryMarked(G, t, k)
<1> DEFINE G == W!StrongEntry(H, t, k)
<1>1. CASE W!HasValue(H, t, k)
  <2> DEFINE v == H.node[t][k]
             F == W!Mark(H, k)
             E == W!Mark(F, v)
  <2>1. F \in Views /\ Later(H, F) /\ ~W!White(F, k) /\ F.node = H.node
    BY MarkIt
  <2>2. E \in Views /\ Later(F, E) /\ ~W!White(E, v) /\ E.node = F.node
    <3> HIDE DEF F
    <3> QED BY <2>1, MarkIt
  <2>3. G = E
    BY <1>1 DEF W!StrongEntry
  <2> HIDE DEF E, F, G, v
  <2>4. ~W!White(E, k)
    BY <2>1, <2>2, EntryStays
  <2>5. Later(H, E)
    BY <2>1, <2>2, LaterStill
  <2>6. E.node[t][k] = v /\ v \in W!Objs
    BY <1>1, <2>1, <2>2 DEF v, W!HasValue
  <2>7. EntryMarked(E, t, k)
    BY <2>2, <2>4, <2>6, DistinctThings DEF EntryMarked
  <2> QED BY <2>2, <2>3, <2>5, <2>7 DEF G
<1>2. CASE ~W!HasValue(H, t, k)
  <2>1. G = W!RemoveEntry(H, t, k)
    BY <1>2 DEF W!StrongEntry
  <2> HIDE DEF G
  <2>2. G \in Views /\ Later(H, G) /\ G.node[t][k] \notin W!Objs /\ (G.node[t][k] = W!Empty => ~W!White(G, k))
    BY <1>2, <2>1, RemoveIt
  <2> QED BY <2>2 DEF EntryMarked, G
<1> QED BY <1>1, <1>2

\* Objects in their order: an operation that takes what is in T[n - 1] to what
\* is in T[n] takes it in the end to what is in the last.
LEMMA VisitStrong ==
  ASSUME NEW H, NEW t, NEW T, [H EXCEPT !.color[t] = "black"] \in T[0],
         \A n \in 1 .. Len(KeySeq) : \A s \in T[n - 1] : W!StrongEntry(s, t, KeySeq[n]) \in T[n]
  PROVE  W!TraverseStrong(H, t) \in T[Len(KeySeq)]
<1> DEFINE N == Len(KeySeq)
           step == [n \in 1 .. N |-> [s \in T[n - 1] |-> W!StrongEntry(s, t, KeySeq[n])]]
           acc[n \in 0 .. N] == IF n = 0 THEN [H EXCEPT !.color[t] = "black"] ELSE W!StrongEntry(acc[n - 1], t, KeySeq[n])
<1>1. SUFFICES acc[N] \in T[N]
  BY DEF W!Visit, W!TraverseStrong
<1>2. N \in Nat
  BY DistinctThings
<1>3. \A n \in 1 .. N : \A s \in T[n - 1] : step[n][s] \in T[n]
  OBVIOUS
<1>4. PICK f : /\ f = [n \in 0 .. N |-> IF n = 0 THEN [H EXCEPT !.color[t] = "black"] ELSE step[n][f[n - 1]]]
               /\ \A n \in 0 .. N : f[n] \in T[n]
  <2>1. Stepwise(N, [H EXCEPT !.color[t] = "black"], step, T)
    <3> HIDE DEF N, step, acc
    <3> QED BY <1>2, <1>3, Stepped
  <2> QED BY <2>1 DEF Stepwise
<1>5. f = [n \in 0 .. N |-> IF n = 0 THEN [H EXCEPT !.color[t] = "black"] ELSE W!StrongEntry(f[n - 1], t, KeySeq[n])]
  <2>1. ASSUME NEW n \in 0 .. N, n # 0
        PROVE  step[n][f[n - 1]] = W!StrongEntry(f[n - 1], t, KeySeq[n])
    <3>1. n \in 1 .. N /\ n - 1 \in 0 .. N
      BY <1>2, <2>1
    <3>2. f[n - 1] \in T[n - 1]
      BY <1>4, <3>1
    <3> QED BY <3>1, <3>2
  <2> HIDE DEF step
  <2> QED BY <1>4, <2>1
<1>6. acc = [n \in 0 .. N |-> IF n = 0 THEN [H EXCEPT !.color[t] = "black"] ELSE W!StrongEntry(acc[n - 1], t, KeySeq[n])]
  <2> HIDE DEF N, step
  <2> QED BY <1>5
<1> HIDE DEF acc, step
<1>7. \A n \in 0 .. N : acc[n] \in T[n]
  <2>1. acc[0] \in T[0]
    BY <1>2, <1>6
  <2>2. ASSUME NEW n \in 1 .. N, acc[n - 1] \in T[n - 1]
        PROVE  acc[n] \in T[n]
    <3>1. n \in 0 .. N /\ n # 0
      BY <1>2
    <3>2. acc[n] = W!StrongEntry(acc[n - 1], t, KeySeq[n])
      <4> HIDE DEF N
      <4> QED BY <1>6, <3>1
    <3> QED BY <2>2, <3>2
  <2> HIDE DEF N
  <2> QED BY <1>2, <2>1, <2>2, Inductively
<1> QED BY <1>2, <1>7

\* The same for the other visits: the entries of a table with weak values,
LEMMA VisitWeakValue ==
  ASSUME NEW H, NEW t, NEW T, [H |-> H, clears |-> H.node[t][W!Index] # W!Absent] \in T[0],
         \A n \in 1 .. Len(KeySeq) : \A s \in T[n - 1] : W!WeakValueEntry(s, t, KeySeq[n]) \in T[n]
  PROVE  W!WeakValueNodes(H, t) \in T[Len(KeySeq)]
<1> DEFINE N == Len(KeySeq)
           step == [n \in 1 .. N |-> [s \in T[n - 1] |-> W!WeakValueEntry(s, t, KeySeq[n])]]
           acc[n \in 0 .. N] == IF n = 0 THEN [H |-> H, clears |-> H.node[t][W!Index] # W!Absent] ELSE W!WeakValueEntry(acc[n - 1], t, KeySeq[n])
<1>1. SUFFICES acc[N] \in T[N]
  BY DEF W!Visit, W!WeakValueNodes
<1>2. N \in Nat
  BY DistinctThings
<1>3. \A n \in 1 .. N : \A s \in T[n - 1] : step[n][s] \in T[n]
  OBVIOUS
<1>4. PICK f : /\ f = [n \in 0 .. N |-> IF n = 0 THEN [H |-> H, clears |-> H.node[t][W!Index] # W!Absent] ELSE step[n][f[n - 1]]]
               /\ \A n \in 0 .. N : f[n] \in T[n]
  <2>1. Stepwise(N, [H |-> H, clears |-> H.node[t][W!Index] # W!Absent], step, T)
    <3> HIDE DEF N, step, acc
    <3> QED BY <1>2, <1>3, Stepped
  <2> QED BY <2>1 DEF Stepwise
<1>5. f = [n \in 0 .. N |-> IF n = 0 THEN [H |-> H, clears |-> H.node[t][W!Index] # W!Absent] ELSE W!WeakValueEntry(f[n - 1], t, KeySeq[n])]
  <2>1. ASSUME NEW n \in 0 .. N, n # 0
        PROVE  step[n][f[n - 1]] = W!WeakValueEntry(f[n - 1], t, KeySeq[n])
    <3>1. n \in 1 .. N /\ n - 1 \in 0 .. N
      BY <1>2, <2>1
    <3>2. f[n - 1] \in T[n - 1]
      BY <1>4, <3>1
    <3> QED BY <3>1, <3>2
  <2> HIDE DEF step
  <2> QED BY <1>4, <2>1
<1>6. acc = [n \in 0 .. N |-> IF n = 0 THEN [H |-> H, clears |-> H.node[t][W!Index] # W!Absent] ELSE W!WeakValueEntry(acc[n - 1], t, KeySeq[n])]
  <2> HIDE DEF N, step
  <2> QED BY <1>5
<1> HIDE DEF acc, step
<1>7. \A n \in 0 .. N : acc[n] \in T[n]
  <2>1. acc[0] \in T[0]
    BY <1>2, <1>6
  <2>2. ASSUME NEW n \in 1 .. N, acc[n - 1] \in T[n - 1]
        PROVE  acc[n] \in T[n]
    <3>1. n \in 0 .. N /\ n # 0
      BY <1>2
    <3>2. acc[n] = W!WeakValueEntry(acc[n - 1], t, KeySeq[n])
      <4> HIDE DEF N
      <4> QED BY <1>6, <3>1
    <3> QED BY <2>2, <3>2
  <2> HIDE DEF N
  <2> QED BY <1>2, <2>1, <2>2, Inductively
<1> QED BY <1>2, <1>7

\* of an ephemeron table,
LEMMA VisitEphemeron ==
  ASSUME NEW H, NEW t, NEW T, [H |-> H, marked |-> FALSE, clears |-> FALSE, ww |-> FALSE] \in T[0],
         \A n \in 1 .. Len(KeySeq) : \A s \in T[n - 1] : W!EphemeronEntry(s, t, KeySeq[n]) \in T[n]
  PROVE  W!EphemeronNodes(H, t) \in T[Len(KeySeq)]
<1> DEFINE N == Len(KeySeq)
           step == [n \in 1 .. N |-> [s \in T[n - 1] |-> W!EphemeronEntry(s, t, KeySeq[n])]]
           acc[n \in 0 .. N] == IF n = 0 THEN [H |-> H, marked |-> FALSE, clears |-> FALSE, ww |-> FALSE] ELSE W!EphemeronEntry(acc[n - 1], t, KeySeq[n])
<1>1. SUFFICES acc[N] \in T[N]
  BY DEF W!Visit, W!EphemeronNodes
<1>2. N \in Nat
  BY DistinctThings
<1>3. \A n \in 1 .. N : \A s \in T[n - 1] : step[n][s] \in T[n]
  OBVIOUS
<1>4. PICK f : /\ f = [n \in 0 .. N |-> IF n = 0 THEN [H |-> H, marked |-> FALSE, clears |-> FALSE, ww |-> FALSE] ELSE step[n][f[n - 1]]]
               /\ \A n \in 0 .. N : f[n] \in T[n]
  <2>1. Stepwise(N, [H |-> H, marked |-> FALSE, clears |-> FALSE, ww |-> FALSE], step, T)
    <3> HIDE DEF N, step, acc
    <3> QED BY <1>2, <1>3, Stepped
  <2> QED BY <2>1 DEF Stepwise
<1>5. f = [n \in 0 .. N |-> IF n = 0 THEN [H |-> H, marked |-> FALSE, clears |-> FALSE, ww |-> FALSE] ELSE W!EphemeronEntry(f[n - 1], t, KeySeq[n])]
  <2>1. ASSUME NEW n \in 0 .. N, n # 0
        PROVE  step[n][f[n - 1]] = W!EphemeronEntry(f[n - 1], t, KeySeq[n])
    <3>1. n \in 1 .. N /\ n - 1 \in 0 .. N
      BY <1>2, <2>1
    <3>2. f[n - 1] \in T[n - 1]
      BY <1>4, <3>1
    <3> QED BY <3>1, <3>2
  <2> HIDE DEF step
  <2> QED BY <1>4, <2>1
<1>6. acc = [n \in 0 .. N |-> IF n = 0 THEN [H |-> H, marked |-> FALSE, clears |-> FALSE, ww |-> FALSE] ELSE W!EphemeronEntry(acc[n - 1], t, KeySeq[n])]
  <2> HIDE DEF N, step
  <2> QED BY <1>5
<1> HIDE DEF acc, step
<1>7. \A n \in 0 .. N : acc[n] \in T[n]
  <2>1. acc[0] \in T[0]
    BY <1>2, <1>6
  <2>2. ASSUME NEW n \in 1 .. N, acc[n - 1] \in T[n - 1]
        PROVE  acc[n] \in T[n]
    <3>1. n \in 0 .. N /\ n # 0
      BY <1>2
    <3>2. acc[n] = W!EphemeronEntry(acc[n - 1], t, KeySeq[n])
      <4> HIDE DEF N
      <4> QED BY <1>6, <3>1
    <3> QED BY <2>2, <3>2
  <2> HIDE DEF N
  <2> QED BY <1>2, <2>1, <2>2, Inductively
<1> QED BY <1>2, <1>7

\* the keys that are cleared in a table,
LEMMA VisitKeys ==
  ASSUME NEW H, NEW t, NEW T, H \in T[0],
         \A n \in 1 .. Len(KeySeq) : \A s \in T[n - 1] : W!ClearKey(s, t, KeySeq[n]) \in T[n]
  PROVE  W!ClearKeysOf(H, t) \in T[Len(KeySeq)]
<1> DEFINE N == Len(KeySeq)
           step == [n \in 1 .. N |-> [s \in T[n - 1] |-> W!ClearKey(s, t, KeySeq[n])]]
           acc[n \in 0 .. N] == IF n = 0 THEN H ELSE W!ClearKey(acc[n - 1], t, KeySeq[n])
<1>1. SUFFICES acc[N] \in T[N]
  BY DEF W!Visit, W!ClearKeysOf
<1>2. N \in Nat
  BY DistinctThings
<1>3. \A n \in 1 .. N : \A s \in T[n - 1] : step[n][s] \in T[n]
  OBVIOUS
<1>4. PICK f : /\ f = [n \in 0 .. N |-> IF n = 0 THEN H ELSE step[n][f[n - 1]]]
               /\ \A n \in 0 .. N : f[n] \in T[n]
  <2>1. Stepwise(N, H, step, T)
    <3> HIDE DEF N, step, acc
    <3> QED BY <1>2, <1>3, Stepped
  <2> QED BY <2>1 DEF Stepwise
<1>5. f = [n \in 0 .. N |-> IF n = 0 THEN H ELSE W!ClearKey(f[n - 1], t, KeySeq[n])]
  <2>1. ASSUME NEW n \in 0 .. N, n # 0
        PROVE  step[n][f[n - 1]] = W!ClearKey(f[n - 1], t, KeySeq[n])
    <3>1. n \in 1 .. N /\ n - 1 \in 0 .. N
      BY <1>2, <2>1
    <3>2. f[n - 1] \in T[n - 1]
      BY <1>4, <3>1
    <3> QED BY <3>1, <3>2
  <2> HIDE DEF step
  <2> QED BY <1>4, <2>1
<1>6. acc = [n \in 0 .. N |-> IF n = 0 THEN H ELSE W!ClearKey(acc[n - 1], t, KeySeq[n])]
  <2> HIDE DEF N, step
  <2> QED BY <1>5
<1> HIDE DEF acc, step
<1>7. \A n \in 0 .. N : acc[n] \in T[n]
  <2>1. acc[0] \in T[0]
    BY <1>2, <1>6
  <2>2. ASSUME NEW n \in 1 .. N, acc[n - 1] \in T[n - 1]
        PROVE  acc[n] \in T[n]
    <3>1. n \in 0 .. N /\ n # 0
      BY <1>2
    <3>2. acc[n] = W!ClearKey(acc[n - 1], t, KeySeq[n])
      <4> HIDE DEF N
      <4> QED BY <1>6, <3>1
    <3> QED BY <2>2, <3>2
  <2> HIDE DEF N
  <2> QED BY <1>2, <2>1, <2>2, Inductively
<1> QED BY <1>2, <1>7

\* and in the tables of a list,
LEMMA VisitKeyLists ==
  ASSUME NEW H, NEW list, Len(list) \in Nat, NEW T, H \in T[0],
         \A n \in 1 .. Len(list) : \A s \in T[n - 1] : W!ClearKeysOf(s, list[n]) \in T[n]
  PROVE  W!ClearKeys(H, list) \in T[Len(list)]
<1> DEFINE N == Len(list)
           step == [n \in 1 .. N |-> [s \in T[n - 1] |-> W!ClearKeysOf(s, list[n])]]
           acc[n \in 0 .. N] == IF n = 0 THEN H ELSE W!ClearKeysOf(acc[n - 1], list[n])
<1>1. SUFFICES acc[N] \in T[N]
  BY DEF W!ClearKeys, W!Clear
<1>2. N \in Nat
  OBVIOUS
<1>3. \A n \in 1 .. N : \A s \in T[n - 1] : step[n][s] \in T[n]
  OBVIOUS
<1>4. PICK f : /\ f = [n \in 0 .. N |-> IF n = 0 THEN H ELSE step[n][f[n - 1]]]
               /\ \A n \in 0 .. N : f[n] \in T[n]
  <2>1. Stepwise(N, H, step, T)
    <3> HIDE DEF N, step, acc
    <3> QED BY <1>2, <1>3, Stepped
  <2> QED BY <2>1 DEF Stepwise
<1>5. f = [n \in 0 .. N |-> IF n = 0 THEN H ELSE W!ClearKeysOf(f[n - 1], list[n])]
  <2>1. ASSUME NEW n \in 0 .. N, n # 0
        PROVE  step[n][f[n - 1]] = W!ClearKeysOf(f[n - 1], list[n])
    <3>1. n \in 1 .. N /\ n - 1 \in 0 .. N
      BY <1>2, <2>1
    <3>2. f[n - 1] \in T[n - 1]
      BY <1>4, <3>1
    <3> QED BY <3>1, <3>2
  <2> HIDE DEF step
  <2> QED BY <1>4, <2>1
<1>6. acc = [n \in 0 .. N |-> IF n = 0 THEN H ELSE W!ClearKeysOf(acc[n - 1], list[n])]
  <2> HIDE DEF N, step
  <2> QED BY <1>5
<1> HIDE DEF acc, step
<1>7. \A n \in 0 .. N : acc[n] \in T[n]
  <2>1. acc[0] \in T[0]
    BY <1>2, <1>6
  <2>2. ASSUME NEW n \in 1 .. N, acc[n - 1] \in T[n - 1]
        PROVE  acc[n] \in T[n]
    <3>1. n \in 0 .. N /\ n # 0
      BY <1>2
    <3>2. acc[n] = W!ClearKeysOf(acc[n - 1], list[n])
      <4> HIDE DEF N
      <4> QED BY <1>6, <3>1
    <3> QED BY <2>2, <3>2
  <2> HIDE DEF N
  <2> QED BY <1>2, <2>1, <2>2, Inductively
<1> QED BY <1>2, <1>7

\* the values that are cleared in a table,
LEMMA VisitValues ==
  ASSUME NEW H, NEW t, NEW T, H \in T[0],
         \A n \in 1 .. Len(KeySeq) : \A s \in T[n - 1] : W!ClearValue(s, t, KeySeq[n]) \in T[n]
  PROVE  W!ClearValuesOf(H, t) \in T[Len(KeySeq)]
<1> DEFINE N == Len(KeySeq)
           step == [n \in 1 .. N |-> [s \in T[n - 1] |-> W!ClearValue(s, t, KeySeq[n])]]
           acc[n \in 0 .. N] == IF n = 0 THEN H ELSE W!ClearValue(acc[n - 1], t, KeySeq[n])
<1>1. SUFFICES acc[N] \in T[N]
  BY DEF W!Visit, W!ClearValuesOf
<1>2. N \in Nat
  BY DistinctThings
<1>3. \A n \in 1 .. N : \A s \in T[n - 1] : step[n][s] \in T[n]
  OBVIOUS
<1>4. PICK f : /\ f = [n \in 0 .. N |-> IF n = 0 THEN H ELSE step[n][f[n - 1]]]
               /\ \A n \in 0 .. N : f[n] \in T[n]
  <2>1. Stepwise(N, H, step, T)
    <3> HIDE DEF N, step, acc
    <3> QED BY <1>2, <1>3, Stepped
  <2> QED BY <2>1 DEF Stepwise
<1>5. f = [n \in 0 .. N |-> IF n = 0 THEN H ELSE W!ClearValue(f[n - 1], t, KeySeq[n])]
  <2>1. ASSUME NEW n \in 0 .. N, n # 0
        PROVE  step[n][f[n - 1]] = W!ClearValue(f[n - 1], t, KeySeq[n])
    <3>1. n \in 1 .. N /\ n - 1 \in 0 .. N
      BY <1>2, <2>1
    <3>2. f[n - 1] \in T[n - 1]
      BY <1>4, <3>1
    <3> QED BY <3>1, <3>2
  <2> HIDE DEF step
  <2> QED BY <1>4, <2>1
<1>6. acc = [n \in 0 .. N |-> IF n = 0 THEN H ELSE W!ClearValue(acc[n - 1], t, KeySeq[n])]
  <2> HIDE DEF N, step
  <2> QED BY <1>5
<1> HIDE DEF acc, step
<1>7. \A n \in 0 .. N : acc[n] \in T[n]
  <2>1. acc[0] \in T[0]
    BY <1>2, <1>6
  <2>2. ASSUME NEW n \in 1 .. N, acc[n - 1] \in T[n - 1]
        PROVE  acc[n] \in T[n]
    <3>1. n \in 0 .. N /\ n # 0
      BY <1>2
    <3>2. acc[n] = W!ClearValue(acc[n - 1], t, KeySeq[n])
      <4> HIDE DEF N
      <4> QED BY <1>6, <3>1
    <3> QED BY <2>2, <3>2
  <2> HIDE DEF N
  <2> QED BY <1>2, <2>1, <2>2, Inductively
<1> QED BY <1>2, <1>7

\* and in the tables of a list,
LEMMA VisitValueLists ==
  ASSUME NEW H, NEW list, Len(list) \in Nat, NEW T, H \in T[0],
         \A n \in 1 .. Len(list) : \A s \in T[n - 1] : W!ClearValuesOf(s, list[n]) \in T[n]
  PROVE  W!ClearValues(H, list) \in T[Len(list)]
<1> DEFINE N == Len(list)
           step == [n \in 1 .. N |-> [s \in T[n - 1] |-> W!ClearValuesOf(s, list[n])]]
           acc[n \in 0 .. N] == IF n = 0 THEN H ELSE W!ClearValuesOf(acc[n - 1], list[n])
<1>1. SUFFICES acc[N] \in T[N]
  BY DEF W!ClearValues, W!Clear
<1>2. N \in Nat
  OBVIOUS
<1>3. \A n \in 1 .. N : \A s \in T[n - 1] : step[n][s] \in T[n]
  OBVIOUS
<1>4. PICK f : /\ f = [n \in 0 .. N |-> IF n = 0 THEN H ELSE step[n][f[n - 1]]]
               /\ \A n \in 0 .. N : f[n] \in T[n]
  <2>1. Stepwise(N, H, step, T)
    <3> HIDE DEF N, step, acc
    <3> QED BY <1>2, <1>3, Stepped
  <2> QED BY <2>1 DEF Stepwise
<1>5. f = [n \in 0 .. N |-> IF n = 0 THEN H ELSE W!ClearValuesOf(f[n - 1], list[n])]
  <2>1. ASSUME NEW n \in 0 .. N, n # 0
        PROVE  step[n][f[n - 1]] = W!ClearValuesOf(f[n - 1], list[n])
    <3>1. n \in 1 .. N /\ n - 1 \in 0 .. N
      BY <1>2, <2>1
    <3>2. f[n - 1] \in T[n - 1]
      BY <1>4, <3>1
    <3> QED BY <3>1, <3>2
  <2> HIDE DEF step
  <2> QED BY <1>4, <2>1
<1>6. acc = [n \in 0 .. N |-> IF n = 0 THEN H ELSE W!ClearValuesOf(acc[n - 1], list[n])]
  <2> HIDE DEF N, step
  <2> QED BY <1>5
<1> HIDE DEF acc, step
<1>7. \A n \in 0 .. N : acc[n] \in T[n]
  <2>1. acc[0] \in T[0]
    BY <1>2, <1>6
  <2>2. ASSUME NEW n \in 1 .. N, acc[n - 1] \in T[n - 1]
        PROVE  acc[n] \in T[n]
    <3>1. n \in 0 .. N /\ n # 0
      BY <1>2
    <3>2. acc[n] = W!ClearValuesOf(acc[n - 1], list[n])
      <4> HIDE DEF N
      <4> QED BY <1>6, <3>1
    <3> QED BY <2>2, <3>2
  <2> HIDE DEF N
  <2> QED BY <1>2, <2>1, <2>2, Inductively
<1> QED BY <1>2, <1>7

\* the objects with a finalizer,
LEMMA VisitFinalized ==
  ASSUME NEW H, NEW T, H \in T[0],
         \A n \in 1 .. Len(KeySeq) : \A s \in T[n - 1] : W!Finalized(s, KeySeq[n]) \in T[n]
  PROVE  W!markbeingfnz(H) \in T[Len(KeySeq)]
<1> DEFINE N == Len(KeySeq)
           step == [n \in 1 .. N |-> [s \in T[n - 1] |-> W!Finalized(s, KeySeq[n])]]
           acc[n \in 0 .. N] == IF n = 0 THEN H ELSE W!Finalized(acc[n - 1], KeySeq[n])
<1>1. SUFFICES acc[N] \in T[N]
  BY DEF W!Visit, W!markbeingfnz
<1>2. N \in Nat
  BY DistinctThings
<1>3. \A n \in 1 .. N : \A s \in T[n - 1] : step[n][s] \in T[n]
  OBVIOUS
<1>4. PICK f : /\ f = [n \in 0 .. N |-> IF n = 0 THEN H ELSE step[n][f[n - 1]]]
               /\ \A n \in 0 .. N : f[n] \in T[n]
  <2>1. Stepwise(N, H, step, T)
    <3> HIDE DEF N, step, acc
    <3> QED BY <1>2, <1>3, Stepped
  <2> QED BY <2>1 DEF Stepwise
<1>5. f = [n \in 0 .. N |-> IF n = 0 THEN H ELSE W!Finalized(f[n - 1], KeySeq[n])]
  <2>1. ASSUME NEW n \in 0 .. N, n # 0
        PROVE  step[n][f[n - 1]] = W!Finalized(f[n - 1], KeySeq[n])
    <3>1. n \in 1 .. N /\ n - 1 \in 0 .. N
      BY <1>2, <2>1
    <3>2. f[n - 1] \in T[n - 1]
      BY <1>4, <3>1
    <3> QED BY <3>1, <3>2
  <2> HIDE DEF step
  <2> QED BY <1>4, <2>1
<1>6. acc = [n \in 0 .. N |-> IF n = 0 THEN H ELSE W!Finalized(acc[n - 1], KeySeq[n])]
  <2> HIDE DEF N, step
  <2> QED BY <1>5
<1> HIDE DEF acc, step
<1>7. \A n \in 0 .. N : acc[n] \in T[n]
  <2>1. acc[0] \in T[0]
    BY <1>2, <1>6
  <2>2. ASSUME NEW n \in 1 .. N, acc[n - 1] \in T[n - 1]
        PROVE  acc[n] \in T[n]
    <3>1. n \in 0 .. N /\ n # 0
      BY <1>2
    <3>2. acc[n] = W!Finalized(acc[n - 1], KeySeq[n])
      <4> HIDE DEF N
      <4> QED BY <1>6, <3>1
    <3> QED BY <2>2, <3>2
  <2> HIDE DEF N
  <2> QED BY <1>2, <2>1, <2>2, Inductively
<1> QED BY <1>2, <1>7

\* what a set leads to,
LEMMA Leading ==
  ASSUME NEW S1, NEW T, S1 \in T[0],
         \A n \in 1 .. W!Cardinality(W!Objs) : \A s \in T[n - 1] : W!Leads(s) \in T[n]
  PROVE  W!Live(S1) \in T[W!Cardinality(W!Objs)]
<1> DEFINE N == W!Cardinality(W!Objs)
           step == [n \in 1 .. N |-> [s \in T[n - 1] |-> W!Leads(s)]]
           acc[n \in 0 .. N] == IF n = 0 THEN S1 ELSE W!Leads(acc[n - 1])
<1>1. SUFFICES acc[N] \in T[N]
  BY DEF W!Closure, W!Live
<1>2. N \in Nat
  BY DistinctThings, FS_CardinalityType DEF W!Cardinality, Cardinality
<1>3. \A n \in 1 .. N : \A s \in T[n - 1] : step[n][s] \in T[n]
  OBVIOUS
<1>4. PICK f : /\ f = [n \in 0 .. N |-> IF n = 0 THEN S1 ELSE step[n][f[n - 1]]]
               /\ \A n \in 0 .. N : f[n] \in T[n]
  <2>1. Stepwise(N, S1, step, T)
    <3> HIDE DEF N, step, acc
    <3> QED BY <1>2, <1>3, Stepped
  <2> QED BY <2>1 DEF Stepwise
<1>5. f = [n \in 0 .. N |-> IF n = 0 THEN S1 ELSE W!Leads(f[n - 1])]
  <2>1. ASSUME NEW n \in 0 .. N, n # 0
        PROVE  step[n][f[n - 1]] = W!Leads(f[n - 1])
    <3>1. n \in 1 .. N /\ n - 1 \in 0 .. N
      BY <1>2, <2>1
    <3>2. f[n - 1] \in T[n - 1]
      BY <1>4, <3>1
    <3> QED BY <3>1, <3>2
  <2> HIDE DEF step
  <2> QED BY <1>4, <2>1
<1>6. acc = [n \in 0 .. N |-> IF n = 0 THEN S1 ELSE W!Leads(acc[n - 1])]
  <2> HIDE DEF N, step
  <2> QED BY <1>5
<1> HIDE DEF acc, step
<1>7. \A n \in 0 .. N : acc[n] \in T[n]
  <2>1. acc[0] \in T[0]
    BY <1>2, <1>6
  <2>2. ASSUME NEW n \in 1 .. N, acc[n - 1] \in T[n - 1]
        PROVE  acc[n] \in T[n]
    <3>1. n \in 0 .. N /\ n # 0
      BY <1>2
    <3>2. acc[n] = W!Leads(acc[n - 1])
      <4> HIDE DEF N
      <4> QED BY <1>6, <3>1
    <3> QED BY <2>2, <3>2
  <2> HIDE DEF N
  <2> QED BY <1>2, <2>1, <2>2, Inductively
<1> QED BY <1>2, <1>7

\* and what the program can get at.
LEMMA Referring ==
  ASSUME NEW T, W!Roots \in T[0],
         \A n \in 1 .. W!Cardinality(W!Objs) : \A s \in T[n - 1] : W!References(s) \in T[n]
  PROVE  W!Accessible \in T[W!Cardinality(W!Objs)]
<1> DEFINE N == W!Cardinality(W!Objs)
           step == [n \in 1 .. N |-> [s \in T[n - 1] |-> W!References(s)]]
           acc[n \in 0 .. N] == IF n = 0 THEN W!Roots ELSE W!References(acc[n - 1])
<1>1. SUFFICES acc[N] \in T[N]
  BY DEF W!Closure, W!Accessible
<1>2. N \in Nat
  BY DistinctThings, FS_CardinalityType DEF W!Cardinality, Cardinality
<1>3. \A n \in 1 .. N : \A s \in T[n - 1] : step[n][s] \in T[n]
  OBVIOUS
<1>4. PICK f : /\ f = [n \in 0 .. N |-> IF n = 0 THEN W!Roots ELSE step[n][f[n - 1]]]
               /\ \A n \in 0 .. N : f[n] \in T[n]
  <2>1. Stepwise(N, W!Roots, step, T)
    <3> HIDE DEF N, step, acc
    <3> QED BY <1>2, <1>3, Stepped
  <2> QED BY <2>1 DEF Stepwise
<1>5. f = [n \in 0 .. N |-> IF n = 0 THEN W!Roots ELSE W!References(f[n - 1])]
  <2>1. ASSUME NEW n \in 0 .. N, n # 0
        PROVE  step[n][f[n - 1]] = W!References(f[n - 1])
    <3>1. n \in 1 .. N /\ n - 1 \in 0 .. N
      BY <1>2, <2>1
    <3>2. f[n - 1] \in T[n - 1]
      BY <1>4, <3>1
    <3> QED BY <3>1, <3>2
  <2> HIDE DEF step
  <2> QED BY <1>4, <2>1
<1>6. acc = [n \in 0 .. N |-> IF n = 0 THEN W!Roots ELSE W!References(acc[n - 1])]
  <2> HIDE DEF N, step
  <2> QED BY <1>5
<1> HIDE DEF acc, step
<1>7. \A n \in 0 .. N : acc[n] \in T[n]
  <2>1. acc[0] \in T[0]
    BY <1>2, <1>6
  <2>2. ASSUME NEW n \in 1 .. N, acc[n - 1] \in T[n - 1]
        PROVE  acc[n] \in T[n]
    <3>1. n \in 0 .. N /\ n # 0
      BY <1>2
    <3>2. acc[n] = W!References(acc[n - 1])
      <4> HIDE DEF N
      <4> QED BY <1>6, <3>1
    <3> QED BY <2>2, <3>2
  <2> HIDE DEF N
  <2> QED BY <1>2, <2>1, <2>2, Inductively
<1> QED BY <1>2, <1>7

\* A later view has the same entries.
LEMMA EntryKept ==
  ASSUME NEW H, NEW G, Later(H, G), NEW t \in Tables
  PROVE  /\ \A o : W!IsCleared(G, o) => W!IsCleared(H, o)
         /\ Entries(G.node, t) = Entries(H.node, t)
         /\ \A k \in Entries(G.node, t) : G.node[t][k] = H.node[t][k]
<1>1. \A o : W!White(G, o) => W!White(H, o)
  BY DEF Later, W!White
<1>2. \A o : W!IsCleared(G, o) => W!IsCleared(H, o)
  BY <1>1 DEF W!IsCleared
<1>3. ASSUME NEW k \in NodeKeys
      PROVE  /\ G.node[t][k] \in W!Objs <=> H.node[t][k] \in W!Objs
             /\ G.node[t][k] \in W!Objs => G.node[t][k] = H.node[t][k]
  BY EntryStays
<1> QED BY <1>2, <1>3 DEF Entries

\* A table is painted black.
LEMMA Painted ==
  ASSUME NEW H \in Views, NEW t \in Tables
  PROVE  LET F == [H EXCEPT !.color[t] = "black"] IN
         /\ F \in Views /\ F.gray = H.gray /\ F.node = H.node /\ F.color[t] = "black"
         /\ \A o \in W!Objs : o # t => F.color[o] = H.color[o]
         /\ \A list \in Unlisted : F[list] = H[list]
<1> DEFINE c == [H.color EXCEPT ![t] = "black"]
           F == [H EXCEPT !.color[t] = "black"]
<1>1. H.color \in [W!Objs -> {"white", "gray", "black"}] /\ t \in W!Objs
  BY DistinctThings DEF Views, ColorMaps
<1>2. c \in ColorMaps /\ c[t] = "black" /\ \A o \in W!Objs : o # t => c[o] = H.color[o]
  BY <1>1 DEF ColorMaps
<1>3. F = [H EXCEPT !.color = c]
  OBVIOUS
<1> HIDE DEF c
<1>4. F \in Views /\ F.color = c /\ F.gray = H.gray /\ F.node = H.node /\ \A list \in Unlisted : F[list] = H[list]
  BY <1>2, <1>3 DEF Views, Unlisted
<1> QED BY <1>2, <1>4

\* All that a strong table has is marked when it was traversed.
LEMMA TraverseStrongRight ==
  ASSUME NEW H \in Views, NEW t \in Tables
  PROVE  LET F == [H EXCEPT !.color[t] = "black"]
             G == W!TraverseStrong(H, t)
         IN  G \in Views /\ Later(F, G) /\ \A k \in NodeKeys : EntryMarked(G, t, k)
<1> DEFINE F == [H EXCEPT !.color[t] = "black"]
           N == Len(KeySeq)
           T == [n \in 0 .. N |-> {G \in Views : Later(F, G) /\ \A m \in 1 .. n : EntryMarked(G, t, KeySeq[m])}]
<1>1. F \in Views
  BY Painted
<1> HIDE DEF F
<1>2. F \in T[0]
  BY <1>1, LaterSame, DistinctThings
<1>3. ASSUME NEW n \in 1 .. N, NEW s \in T[n - 1]
      PROVE  W!StrongEntry(s, t, KeySeq[n]) \in T[n]
  <2> DEFINE G == W!StrongEntry(s, t, KeySeq[n])
  <2>1. n - 1 \in 0 .. N /\ n \in 0 .. N
    BY DistinctThings
  <2>2. s \in Views /\ Later(F, s) /\ \A m \in 1 .. n - 1 : EntryMarked(s, t, KeySeq[m])
    BY <2>1
  <2>3. \A m \in 1 .. n : KeySeq[m] \in NodeKeys
    BY DistinctThings
  <2>4. G \in Views /\ Later(s, G) /\ EntryMarked(G, t, KeySeq[n])
    BY <2>2, <2>3, StrongEntryRight
  <2> HIDE DEF G
  <2>5. Later(F, G)
    BY <2>2, <2>4, LaterStill
  <2>6. ASSUME NEW m \in 1 .. n
        PROVE  EntryMarked(G, t, KeySeq[m])
    <3>1. CASE m = n
      BY <2>4, <3>1
    <3>2. CASE m # n
      <4>1. m \in 1 .. n - 1
        BY <3>2
      <4>2. EntryMarked(s, t, KeySeq[m])
        BY <2>2, <4>1
      <4> QED BY <2>3, <2>4, <4>2, EntryStays
    <3> QED BY <3>1, <3>2
  <2>7. G \in T[n]
    BY <2>1, <2>4, <2>5, <2>6
  <2> QED BY <2>7 DEF G
<1> HIDE DEF T
<1>4. W!TraverseStrong(H, t) \in T[N]
  BY <1>2, <1>3, VisitStrong DEF F
<1> DEFINE G == W!TraverseStrong(H, t)
<1> HIDE DEF G
<1>5. G \in Views /\ Later(F, G) /\ \A m \in 1 .. N : EntryMarked(G, t, KeySeq[m])
  BY <1>4, DistinctThings DEF T, G
<1>6. \A k \in NodeKeys : EntryMarked(G, t, k)
  BY <1>5, DistinctThings
<1> QED BY <1>5, <1>6 DEF F, G

\* What has been seen of a table with weak values: its keys are marked, and if
\* nothing is to be cleared its values stay.
ValueSeen(V, t, k) ==
  V.H.node[t][k] \in W!Objs =>
    /\ ~W!White(V.H, k)
    /\ V.clears \/ ~W!IsCleared(V.H, V.H.node[t][k])

\* An entry of a table with weak values (traverseweakvalue).
LEMMA WeakValueEntryRight ==
  ASSUME NEW A, A \in [H : Views, clears : BOOLEAN], NEW t \in Tables, NEW k \in NodeKeys,
         A.clears \/ A.H.node[t][W!Index] = W!Absent
  PROVE  LET B == W!WeakValueEntry(A, t, k) IN
         /\ B \in [H : Views, clears : BOOLEAN] /\ Later(A.H, B.H) /\ (A.clears => B.clears)
         /\ ValueSeen(B, t, k)
<1> DEFINE G == A.H
           v == G.node[t][k]
           K == W!Mark(G, k)
           S1 == W!Stay(K, v)
           B == W!WeakValueEntry(A, t, k)
<1>0. G \in Views /\ A.clears \in BOOLEAN
  OBVIOUS
<1>1. K \in Views /\ Later(G, K) /\ ~W!White(K, k) /\ K.node = G.node
  <2> HIDE DEF G
  <2> QED BY <1>0, MarkIt
<1>2. /\ S1 \in Views /\ Later(K, S1) /\ S1.node = K.node
      /\ ~W!IsCleared(K, v) => ~W!White(S1, v)
  <2> HIDE DEF K, v
  <2> QED BY <1>1, StayIt
<1>3. CASE k = W!Index
  <2>1. B = A
    BY <1>3 DEF W!WeakValueEntry
  <2>2. ~A.clears => v = W!Absent
    BY <1>3
  <2>3. ~W!White(A.H, k)
    BY <1>3, DistinctThings DEF W!White
  <2>4. ValueSeen(A, t, k)
    BY <2>2, <2>3, DistinctThings DEF ValueSeen
  <2> HIDE DEF B
  <2> QED BY <1>0, <2>1, <2>4, LaterSame DEF B
<1>4. CASE k # W!Index /\ W!HasValue(G, t, k)
  <2> DEFINE X == IF A.clears THEN K ELSE S1
             c == A.clears \/ W!IsCleared(K, v)
  <2>1. B = [H |-> X, clears |-> c]
    BY <1>4 DEF W!WeakValueEntry
  <2>2. X \in Views /\ Later(K, X) /\ X.node = G.node
    <3> HIDE DEF K, S1
    <3> QED BY <1>1, <1>2, LaterSame
  <2>3. c \in BOOLEAN
    BY DEF W!IsCleared
  <2>4. ~c => ~W!White(X, v)
    <3> HIDE DEF K, S1, v
    <3> QED BY <1>2
  <2> HIDE DEF X, c, K, B, G, v
  <2>5. Later(G, X)
    BY <1>1, <2>2, LaterStill
  <2>6. ~W!White(X, k)
    BY <1>1, <2>2 DEF Later, W!White
  <2>7. B.H = X /\ B.clears = c
    BY <2>1
  <2>8. X.node[t][k] = v
    BY <2>2 DEF v
  <2>9. ValueSeen(B, t, k)
    BY <2>4, <2>6, <2>7, <2>8 DEF ValueSeen, W!IsCleared
  <2>10. A.clears => c
    BY DEF c
  <2>11. Later(A.H, B.H)
    BY <2>5, <2>7 DEF G
  <2> QED BY <2>1, <2>2, <2>3, <2>7, <2>9, <2>10, <2>11 DEF B
<1>5. CASE k # W!Index /\ ~W!HasValue(G, t, k)
  <2> DEFINE X == W!RemoveEntry(G, t, k)
  <2>1. B = [A EXCEPT !.H = X]
    BY <1>5 DEF W!WeakValueEntry
  <2>2. X \in Views /\ Later(G, X) /\ X.node[t][k] \notin W!Objs
    <3> HIDE DEF G
    <3> QED BY <1>0, <1>5, RemoveIt
  <2> HIDE DEF X, B
  <2>3. B.H = X /\ B.clears = A.clears /\ B \in [H : Views, clears : BOOLEAN]
    BY <2>1, <2>2
  <2>4. ValueSeen(B, t, k)
    BY <2>2, <2>3 DEF ValueSeen
  <2> QED BY <2>2, <2>3, <2>4 DEF B
<1> QED BY <1>3, <1>4, <1>5

\* Its keys are marked; without "clears" no value of it is to be cleared.
LEMMA WeakValueNodesRight ==
  ASSUME NEW H \in Views, NEW t \in Tables
  PROVE  LET V == W!WeakValueNodes(H, t) IN
         /\ V.H \in Views /\ Later(H, V.H) /\ KeysMarked(V.H, V.H.node, t)
         /\ V.clears \in BOOLEAN /\ (~V.clears => ValuesStay(V.H, V.H.node, t))
<1> DEFINE N == Len(KeySeq)
           base == [H |-> H, clears |-> H.node[t][W!Index] # W!Absent]
           Good(A, n) ==
             /\ A \in [H : Views, clears : BOOLEAN] /\ Later(H, A.H)
             /\ A.clears \/ A.H.node[t][W!Index] = W!Absent
             /\ \A m \in 1 .. n : ValueSeen(A, t, KeySeq[m])
           T == [n \in 0 .. N |-> {A \in [H : Views, clears : BOOLEAN] : Good(A, n)}]
<1>0. W!Index \in NodeKeys
  <2>1. KeySeq \in Seq(W!Objs \cup {W!Index}) /\ Head(KeySeq) = W!Index /\ KeySeq # <<>>
    BY WeakAssumption
  <2>2. 1 \in 1 .. Len(KeySeq) /\ KeySeq[1] = W!Index
    BY <2>1
  <2> QED BY <2>2, DistinctThings
<1>1. base \in T[0]
  <2>1. base \in [H : Views, clears : BOOLEAN] /\ base.H = H
    OBVIOUS
  <2>2. base.clears \/ base.H.node[t][W!Index] = W!Absent
    OBVIOUS
  <2>3. Good(base, 0)
    <3> HIDE DEF base
    <3> QED BY <2>1, <2>2, LaterSame
  <2> HIDE DEF base, Good
  <2> QED BY <2>1, <2>3, DistinctThings
<1>2. ASSUME NEW n \in 1 .. N, NEW A \in T[n - 1]
      PROVE  W!WeakValueEntry(A, t, KeySeq[n]) \in T[n]
  <2> DEFINE B == W!WeakValueEntry(A, t, KeySeq[n])
  <2>1. n - 1 \in 0 .. N /\ n \in 0 .. N
    BY DistinctThings
  <2>2. Good(A, n - 1)
    <3> HIDE DEF Good
    <3> QED BY <2>1
  <2>3. \A m \in 1 .. n : KeySeq[m] \in NodeKeys
    BY DistinctThings
  <2>4. KeySeq[n] \in NodeKeys
    BY <2>3
  <2>5. /\ B \in [H : Views, clears : BOOLEAN] /\ Later(A.H, B.H) /\ (A.clears => B.clears)
        /\ ValueSeen(B, t, KeySeq[n])
    BY <2>2, <2>4, WeakValueEntryRight
  <2> HIDE DEF B
  <2>6. Later(H, B.H)
    BY <2>2, <2>5, LaterStill
  <2>7. B.clears \/ B.H.node[t][W!Index] = W!Absent
    BY <1>0, <2>2, <2>5, DistinctThings DEF Later
  <2>8. ASSUME NEW m \in 1 .. n
        PROVE  ValueSeen(B, t, KeySeq[m])
    <3>1. CASE m = n
      BY <2>5, <3>1
    <3>2. CASE m # n
      <4>1. m \in 1 .. n - 1
        BY <3>2
      <4>2. ValueSeen(A, t, KeySeq[m])
        BY <2>2, <4>1
      <4>3. /\ B.H.node[t][KeySeq[m]] \in W!Objs => B.H.node[t][KeySeq[m]] = A.H.node[t][KeySeq[m]]
            /\ \A o : W!White(B.H, o) => W!White(A.H, o)
        BY <2>3, <2>5, EntryStays
      <4> QED BY <2>5, <4>2, <4>3 DEF ValueSeen, W!IsCleared
    <3> QED BY <3>1, <3>2
  <2>9. Good(B, n)
    BY <2>5, <2>6, <2>7, <2>8
  <2>10. B \in T[n]
    <3> HIDE DEF Good
    <3> QED BY <2>1, <2>5, <2>9
  <2> QED BY <2>10 DEF B
<1> HIDE DEF T
<1>3. W!WeakValueNodes(H, t) \in T[N]
  BY <1>1, <1>2, VisitWeakValue DEF base
<1> DEFINE V == W!WeakValueNodes(H, t)
<1> HIDE DEF V
<1>4. Good(V, N)
  <2> HIDE DEF Good
  <2> QED BY <1>3, DistinctThings DEF T, V
<1>5. \A k \in NodeKeys : ValueSeen(V, t, k)
  BY <1>4, DistinctThings
<1>6. KeysMarked(V.H, V.H.node, t)
  BY <1>5 DEF KeysMarked, ValueSeen, Entries
<1>7. ~V.clears => ValuesStay(V.H, V.H.node, t)
  BY <1>5 DEF ValuesStay, ValueSeen, Entries
<1>8. V.H \in Views /\ V.clears \in BOOLEAN /\ Later(H, V.H)
  BY <1>4
<1> QED BY <1>6, <1>7, <1>8 DEF V

\* What has been seen of an ephemeron table since H: its keys and values are
\* marked, or it has to be looked at again.
Passes == [H : Views, marked : BOOLEAN, clears : BOOLEAN, ww : BOOLEAN]
EntrySeen(H, E, t, k) ==
  LET v == E.H.node[t][k] IN
  v \in W!Objs =>
    /\ E.ww \/ ~W!White(E.H, v)
    /\ E.clears \/ (~W!IsCleared(E.H, k) /\ ~W!White(E.H, v))
    /\ ~W!White(E.H, v) \/ W!IsCleared(H, k)
Unmarked(H, E) == SameTables(H, E.H) /\ E.H.gray = H.gray

\* An entry of an ephemeron table (traverseephemeron).
LEMMA EphemeronEntryRight ==
  ASSUME NEW A \in Passes, NEW t \in Tables, NEW k \in NodeKeys
  PROVE  LET B == W!EphemeronEntry(A, t, k) IN
         /\ B \in Passes /\ Later(A.H, B.H) /\ EntrySeen(A.H, B, t, k)
         /\ (A.marked => B.marked) /\ (A.clears => B.clears) /\ (A.ww => B.ww)
         /\ ~B.marked => Unmarked(A.H, B)
<1> DEFINE G == A.H
           v == G.node[t][k]
           S1 == W!Stay(G, k)
           B == W!EphemeronEntry(A, t, k)
<1>0. G \in Views /\ A.marked \in BOOLEAN /\ A.clears \in BOOLEAN /\ A.ww \in BOOLEAN
  BY DEF Passes
<1>1. CASE ~W!HasValue(G, t, k)
  <2> DEFINE X == W!RemoveEntry(G, t, k)
  <2>1. B = [A EXCEPT !.H = X]
    BY <1>1 DEF W!EphemeronEntry
  <2>2. X \in Views /\ Later(G, X) /\ SameTables(G, X) /\ X.gray = G.gray /\ X.node[t][k] \notin W!Objs
    <3> HIDE DEF G
    <3> QED BY <1>0, <1>1, RemoveIt
  <2> HIDE DEF X, B
  <2>3. B.H = X /\ B.marked = A.marked /\ B.clears = A.clears /\ B.ww = A.ww /\ B \in Passes
    BY <2>1, <2>2 DEF Passes
  <2> QED BY <2>2, <2>3 DEF B, EntrySeen, Unmarked
<1>2. CASE W!HasValue(G, t, k) /\ W!IsCleared(G, k)
  <2> DEFINE w == A.ww \/ W!White(G, v)
  <2>1. B = [A EXCEPT !.clears = TRUE, !.ww = w]
    BY <1>2 DEF W!EphemeronEntry
  <2>2. w \in BOOLEAN
    BY DEF W!White
  <2>3. B.H = G /\ B.marked = A.marked /\ B.clears = TRUE /\ B.ww = w /\ B \in Passes
    <3> HIDE DEF w, B
    <3> QED BY <2>1, <2>2 DEF Passes
  <2>4. ~w => ~W!White(G, v)
    OBVIOUS
  <2>5. A.ww => w
    OBVIOUS
  <2> HIDE DEF w, B
  <2>6. EntrySeen(G, B, t, k)
    BY <1>2, <2>3, <2>4 DEF EntrySeen
  <2>7. Later(A.H, B.H) /\ Unmarked(A.H, B)
    BY <2>3, LaterSame DEF Unmarked, SameTables
  <2> QED BY <2>3, <2>5, <2>6, <2>7 DEF B
<1>3. CASE W!HasValue(G, t, k) /\ ~W!IsCleared(G, k)
  <2> DEFINE X == W!Mark(S1, v)
             m == A.marked \/ W!White(S1, v)
  <2>1. B = [A EXCEPT !.H = X, !.marked = m]
    BY <1>3 DEF W!EphemeronEntry
  <2>2. /\ S1 \in Views /\ Later(G, S1) /\ ~W!White(S1, k)
        /\ S1.gray = G.gray /\ SameTables(G, S1) /\ S1.node = G.node
    <3> HIDE DEF G
    <3> QED BY <1>0, <1>3, StayIt
  <2>3. /\ X \in Views /\ Later(S1, X) /\ ~W!White(X, v) /\ X.node = S1.node
        /\ ~W!White(S1, v) => X.gray = S1.gray /\ SameTables(S1, X)
    <3> HIDE DEF S1, v
    <3> QED BY <2>2, MarkIt
  <2>4. m \in BOOLEAN
    BY DEF W!White
  <2>5. B.H = X /\ B.marked = m /\ B.clears = A.clears /\ B.ww = A.ww /\ B \in Passes
    <3> HIDE DEF m, X, B
    <3> QED BY <2>1, <2>3, <2>4 DEF Passes
  <2>6. (A.marked => m) /\ (~m => ~W!White(S1, v))
    OBVIOUS
  <2> HIDE DEF m, X, S1, B
  <2>7. Later(G, X)
    BY <2>2, <2>3, LaterStill
  <2>8. ~W!White(X, k)
    BY <2>2, <2>3 DEF Later, W!White
  <2>9. X.node[t][k] = v
    BY <2>2, <2>3
  <2>10. EntrySeen(A.H, B, t, k)
    BY <2>3, <2>5, <2>8, <2>9 DEF EntrySeen, W!IsCleared
  <2>11. ~B.marked => Unmarked(A.H, B)
    BY <2>2, <2>3, <2>5, <2>6 DEF Unmarked, SameTables
  <2> QED BY <2>5, <2>6, <2>7, <2>10, <2>11 DEF B
<1> QED BY <1>1, <1>2, <1>3

\* All its entries: what its results say of them.
LEMMA EphemeronNodesRight ==
  ASSUME NEW H \in Views, NEW t \in Tables
  PROVE  LET E == W!EphemeronNodes(H, t) IN
         /\ E \in Passes /\ Later(H, E.H) /\ (~E.marked => Unmarked(H, E))
         /\ ~E.ww => ValuesMarked(E.H, E.H.node, t)
         /\ ~E.clears => KeysStay(E.H, E.H.node, t) /\ ValuesMarked(E.H, E.H.node, t)
         /\ ~E.marked => Settled(E.H, E.H.node, t)
<1> DEFINE N == Len(KeySeq)
           base == [H |-> H, marked |-> FALSE, clears |-> FALSE, ww |-> FALSE]
           Good(A, n) ==
             /\ A \in Passes /\ Later(H, A.H) /\ (~A.marked => Unmarked(H, A))
             /\ \A m \in 1 .. n : EntrySeen(H, A, t, KeySeq[m])
           T == [n \in 0 .. N |-> {A \in Passes : Good(A, n)}]
<1>1. base \in T[0]
  <2>1. base \in Passes /\ base.H = H
    BY DEF Passes
  <2>3. Good(base, 0)
    <3> HIDE DEF base
    <3> QED BY <2>1, LaterSame DEF Unmarked, SameTables
  <2> HIDE DEF base, Good
  <2> QED BY <2>1, <2>3, DistinctThings
<1>2. ASSUME NEW n \in 1 .. N, NEW A \in T[n - 1]
      PROVE  W!EphemeronEntry(A, t, KeySeq[n]) \in T[n]
  <2> DEFINE B == W!EphemeronEntry(A, t, KeySeq[n])
  <2>1. n - 1 \in 0 .. N /\ n \in 0 .. N
    BY DistinctThings
  <2>2. Good(A, n - 1)
    <3> HIDE DEF Good
    <3> QED BY <2>1
  <2>3. \A m \in 1 .. n : KeySeq[m] \in NodeKeys
    BY DistinctThings
  <2>4. KeySeq[n] \in NodeKeys
    BY <2>3
  <2>5. /\ B \in Passes /\ Later(A.H, B.H) /\ EntrySeen(A.H, B, t, KeySeq[n])
        /\ (A.marked => B.marked) /\ (A.clears => B.clears) /\ (A.ww => B.ww)
        /\ ~B.marked => Unmarked(A.H, B)
    BY <2>2, <2>4, EphemeronEntryRight
  <2> HIDE DEF B
  <2>6. Later(H, B.H)
    BY <2>2, <2>5, LaterStill
  <2>7. ~B.marked => Unmarked(H, B)
    BY <2>2, <2>5 DEF Unmarked, SameTables
  <2>8. ASSUME NEW m \in 1 .. n
        PROVE  EntrySeen(H, B, t, KeySeq[m])
    <3>0. \A o : W!IsCleared(A.H, o) => W!IsCleared(H, o)
      BY <2>2, EntryKept
    <3>1. CASE m = n
      BY <2>5, <3>0, <3>1 DEF EntrySeen
    <3>2. CASE m # n
      <4>1. m \in 1 .. n - 1
        BY <3>2
      <4>2. EntrySeen(H, A, t, KeySeq[m])
        BY <2>2, <4>1
      <4>3. /\ B.H.node[t][KeySeq[m]] \in W!Objs => B.H.node[t][KeySeq[m]] = A.H.node[t][KeySeq[m]]
            /\ \A o : W!White(B.H, o) => W!White(A.H, o)
        BY <2>3, <2>5, EntryStays
      <4> QED BY <2>5, <4>2, <4>3 DEF EntrySeen, W!IsCleared
    <3> QED BY <3>1, <3>2
  <2>9. Good(B, n)
    BY <2>5, <2>6, <2>7, <2>8
  <2>10. B \in T[n]
    <3> HIDE DEF Good
    <3> QED BY <2>1, <2>5, <2>9
  <2> QED BY <2>10 DEF B
<1> HIDE DEF T
<1>3. W!EphemeronNodes(H, t) \in T[N]
  BY <1>1, <1>2, VisitEphemeron DEF base
<1> DEFINE E == W!EphemeronNodes(H, t)
<1> HIDE DEF E
<1>4. Good(E, N)
  <2> HIDE DEF Good
  <2> QED BY <1>3, DistinctThings DEF T, E
<1>5. \A k \in NodeKeys : EntrySeen(H, E, t, k)
  BY <1>4, DistinctThings
<1>6. ~E.ww => ValuesMarked(E.H, E.H.node, t)
  BY <1>5 DEF ValuesMarked, EntrySeen, Entries
<1>7. ~E.clears => KeysStay(E.H, E.H.node, t) /\ ValuesMarked(E.H, E.H.node, t)
  BY <1>5 DEF ValuesMarked, KeysStay, EntrySeen, Entries
<1>8. ASSUME ~E.marked
      PROVE  Settled(E.H, E.H.node, t)
  <2>1. SameTables(H, E.H)
    BY <1>4, <1>8 DEF Unmarked
  <2>2. \A o : W!IsCleared(H, o) => W!IsCleared(E.H, o)
    BY <2>1, DistinctThings DEF SameTables, W!IsCleared, W!White
  <2> QED BY <1>5, <2>2 DEF Settled, EntrySeen, Entries
<1>9. E \in Passes /\ Later(H, E.H) /\ (~E.marked => Unmarked(H, E))
  BY <1>4
<1> QED BY <1>6, <1>7, <1>8, <1>9 DEF E

\* H, in which t is marked, became G when t was traversed.
Passed(H, G, t) ==
  /\ G \in Views
  /\ \A o \in W!Objs : W!White(G, o) => W!White(H, o)
  /\ \A x \in Tables : Marking(H, G, x) => In(G, "gray", x)
  /\ \A x \in Tables : x # t /\ ~Marking(H, G, x) => G.color[x] = H.color[x]
  /\ \A x \in Tables : In(H, "gray", x) => In(G, "gray", x)
  /\ \A x \in Tables : In(G, "gray", x) => In(H, "gray", x) \/ Marking(H, G, x)
  /\ \A list \in Unlisted : G[list] = H[list] \/ G[list] = <<t>> \o H[list]
  /\ G.next = H.next
  /\ \A x \in Tables, k \in NodeKeys :
       G.node[x][k] = H.node[x][k] \/ (H.node[x][k] = W!Empty /\ G.node[x][k] = W!Dead)

\* A table is linked to a list.
LEMMA LinkFacts ==
  ASSUME NEW H \in Views, NEW t \in Tables, NEW list \in Unlisted
  PROVE  LET G == W!Link(H, t, list) IN
         /\ G \in Views /\ G.color = H.color /\ G.gray = H.gray /\ G.node = H.node
         /\ G[list] = <<t>> \o H[list] /\ In(G, list, t)
         /\ \A other \in Unlisted : other # list => G[other] = H[other]
<1> DEFINE l == <<t>> \o H[list]
           G == W!Link(H, t, list)
<1>1. H[list] \in Seq(Tables)
  BY DEF Views, TableSeqs, Unlisted
<1>2. l \in Seq(Tables) /\ t \in Range(l)
  <2>1. Range(l) = {t} \cup Range(H[list])
    BY <1>1, RangeFront
  <2> QED BY <1>1, <2>1
<1>3. G = [H EXCEPT ![list] = l]
  BY DEF W!Link
<1> HIDE DEF l, G
<1>4. /\ G \in Views /\ G.color = H.color /\ G.gray = H.gray /\ G.node = H.node /\ G[list] = l
      /\ \A other \in Unlisted : other # list => G[other] = H[other]
  BY <1>2, <1>3 DEF Views, TableSeqs, Unlisted
<1>5. In(G, list, t)
  BY <1>2, <1>4 DEF In
<1> QED BY <1>4, <1>5 DEF l, G

\* A table that is visited, and then linked to a list perhaps, is passed.
LEMMA LaterPassed ==
  ASSUME NEW H \in Views, NEW V \in Views, NEW t \in Tables, Later(H, V)
  PROVE  /\ Passed(H, V, t)
         /\ \A list \in Unlisted \ {"next"} : Passed(H, W!Link(V, t, list), t)
<1>1. Passed(H, V, t)
  BY DEF Later, Passed, Unlisted
<1>2. ASSUME NEW list \in Unlisted \ {"next"}
      PROVE  Passed(H, W!Link(V, t, list), t)
  <2> DEFINE G == W!Link(V, t, list)
  <2>1. /\ G \in Views /\ G.color = V.color /\ G.gray = V.gray /\ G.node = V.node
        /\ G[list] = <<t>> \o V[list]
        /\ \A other \in Unlisted : other # list => G[other] = V[other]
    BY LinkFacts
  <2> HIDE DEF G
  <2>2. \A other \in Unlisted : G[other] = H[other] \/ G[other] = <<t>> \o H[other]
    BY <2>1 DEF Later
  <2>3. G.next = H.next
    BY <2>1 DEF Later, Unlisted
  <2>4. /\ \A o : W!White(G, o) <=> W!White(V, o)
        /\ \A x : In(G, "gray", x) <=> In(V, "gray", x)
    BY <2>1 DEF W!White, In
  <2>5. Passed(H, G, t)
    BY <2>1, <2>2, <2>3, <2>4 DEF Later, Passed, Marking
  <2> QED BY <2>5 DEF G
<1> QED BY <1>1, <1>2

\* So is one that is painted first.
LEMMA PaintedPassed ==
  ASSUME NEW H \in Views, NEW V \in Views, NEW t \in Tables, ~W!White(H, t),
         Later([H EXCEPT !.color[t] = "black"], V)
  PROVE  Passed(H, V, t) /\ V.color[t] = "black" /\ \A list \in Unlisted : V[list] = H[list]
<1> DEFINE F == [H EXCEPT !.color[t] = "black"]
<1>1. /\ F \in Views /\ F.gray = H.gray /\ F.node = H.node /\ F.color[t] = "black"
      /\ \A o \in W!Objs : o # t => F.color[o] = H.color[o]
      /\ \A list \in Unlisted : F[list] = H[list]
  BY Painted
<1>2. Later(F, V)
  OBVIOUS
<1> HIDE DEF F
<1>3. t \in W!Objs /\ Tables \subseteq W!Objs
  BY DistinctThings
<1>4. \A o : W!White(F, o) <=> W!White(H, o)
  BY <1>1, <1>3 DEF W!White
<1>5. \A x : In(F, "gray", x) <=> In(H, "gray", x)
  BY <1>1 DEF In
<1>6. V.color[t] = "black"
  BY <1>1, <1>2, <1>3 DEF Later, Marking, W!White
<1>7. \A list \in Unlisted : V[list] = H[list]
  BY <1>1, <1>2 DEF Later
<1>8. \A x \in Tables : Marking(H, V, x) <=> Marking(F, V, x)
  BY <1>4 DEF Marking
<1>9. Passed(H, V, t)
  <2>1. V.next = H.next
    BY <1>7 DEF Unlisted
  <2>2. \A o \in W!Objs : W!White(V, o) => W!White(H, o)
    BY <1>2, <1>4 DEF Later
  <2>3. ASSUME NEW x \in Tables
        PROVE  /\ Marking(H, V, x) => In(V, "gray", x)
               /\ x # t /\ ~Marking(H, V, x) => V.color[x] = H.color[x]
               /\ In(H, "gray", x) => In(V, "gray", x)
               /\ In(V, "gray", x) => In(H, "gray", x) \/ Marking(H, V, x)
    BY <1>1, <1>2, <1>3, <1>5, <1>8 DEF Later
  <2>4. \A x \in Tables, k \in NodeKeys :
          V.node[x][k] = H.node[x][k] \/ (H.node[x][k] = W!Empty /\ V.node[x][k] = W!Dead)
    BY <1>1, <1>2 DEF Later
  <2> QED BY <1>7, <2>1, <2>2, <2>3, <2>4 DEF Passed
<1> QED BY <1>6, <1>7, <1>9

\* t needs no other visit, or is in a list for it; m: something may have been
\* marked since.
Handled(G, t, m) ==
  IF stage = "propagate"
  THEN \/ In(G, "again", t)
       \/ /\ mode[t] = "" /\ G.color[t] = "black" /\ EmptyMarked(G, G.node, t)
          /\ KeysMarked(G, G.node, t) /\ ValuesMarked(G, G.node, t)
       \/ mode[t] = "kv" /\ In(G, "allweak", t)
  ELSE \/ mode[t] = "" /\ KeysMarked(G, G.node, t) /\ ValuesMarked(G, G.node, t)
       \/ mode[t] = "v" /\ KeysMarked(G, G.node, t) /\ (In(G, "weak", t) \/ ValuesStay(G, G.node, t))
       \/ mode[t] = "kv" /\ In(G, "allweak", t)
       \/ /\ mode[t] = "k"
          /\ \/ In(G, "allweak", t)
             \/ KeysStay(G, G.node, t) /\ ValuesMarked(G, G.node, t)
             \/ In(G, "ephemeron", t) /\ (m \/ Settled(G, G.node, t))
\* The lists t was linked to are the right ones.
Linked(H, G, t) ==
  /\ G.again # H.again => stage = "propagate"
  /\ G.weak # H.weak => mode[t] = "v"
  /\ G.ephemeron # H.ephemeron => mode[t] = "k"
  /\ G.allweak # H.allweak =>
       mode[t] = "kv" \/ (mode[t] = "k" /\ stage # "propagate" /\ ValuesMarked(G, G.node, t))

\* Linking a table to a list marks nothing.
LEMMA LinkedNodes ==
  ASSUME NEW V, NEW G, G.color = V.color, G.node = V.node, NEW t
  PROVE  /\ KeysMarked(G, G.node, t) <=> KeysMarked(V, V.node, t)
         /\ ValuesMarked(G, G.node, t) <=> ValuesMarked(V, V.node, t)
         /\ KeysStay(G, G.node, t) <=> KeysStay(V, V.node, t)
         /\ ValuesStay(G, G.node, t) <=> ValuesStay(V, V.node, t)
         /\ Settled(G, G.node, t) <=> Settled(V, V.node, t)
         /\ SameTables(V, G)
<1>1. \A o : W!White(G, o) <=> W!White(V, o)
  BY DEF W!White
<1>2. \A o : W!IsCleared(G, o) <=> W!IsCleared(V, o)
  BY <1>1 DEF W!IsCleared
<1> QED BY <1>1, <1>2 DEF KeysMarked, ValuesMarked, KeysStay, ValuesStay, Settled, Entries, SameTables

\* A table that is traversed is passed, and handled: an ephemeron table,
LEMMA EphemeronPasses ==
  ASSUME NEW H \in Views, NEW t \in Tables, mode[t] = "k"
  PROVE  LET T == W!TraverseEphemeron(H, t) IN
         /\ Passed(H, T.H, t) /\ Handled(T.H, t, T.marked) /\ Linked(H, T.H, t)
         /\ T.marked \in BOOLEAN /\ (~T.marked => Unmarked(H, T))
<1> DEFINE E == W!EphemeronNodes(H, t)
           V == E.H
           list == IF stage = "propagate" THEN "again" ELSE IF E.ww THEN "ephemeron"
                   ELSE IF E.clears THEN "allweak" ELSE W!None
           G == IF list = W!None THEN V ELSE W!Link(V, t, list)
           T == W!TraverseEphemeron(H, t)
<1>1. T = [H |-> G, marked |-> E.marked]
  BY DEF W!TraverseEphemeron
<1>2. /\ V \in Views /\ Later(H, V) /\ (~E.marked => Unmarked(H, E))
      /\ ~E.ww => ValuesMarked(V, V.node, t)
      /\ ~E.clears => KeysStay(V, V.node, t) /\ ValuesMarked(V, V.node, t)
      /\ ~E.marked => Settled(V, V.node, t)
      /\ E.marked \in BOOLEAN
  <2> HIDE DEF E
  <2>1. E \in Passes /\ Later(H, E.H) /\ (~E.marked => Unmarked(H, E))
    BY EphemeronNodesRight DEF E
  <2>2. /\ ~E.ww => ValuesMarked(E.H, E.H.node, t)
        /\ ~E.clears => KeysStay(E.H, E.H.node, t) /\ ValuesMarked(E.H, E.H.node, t)
        /\ ~E.marked => Settled(E.H, E.H.node, t)
    BY EphemeronNodesRight DEF E
  <2> QED BY <2>1, <2>2 DEF Passes
<1>3. /\ list = "again" => stage = "propagate"
      /\ list = "ephemeron" => stage # "propagate" /\ E.ww
      /\ list = "allweak" => stage # "propagate" /\ ~E.ww /\ E.clears
      /\ list = W!None => stage # "propagate" /\ ~E.clears
      /\ list \in {"again", "ephemeron", "allweak", W!None} /\ (stage = "propagate" => list = "again")
      /\ W!None \notin Unlisted
  BY DEF W!None, Unlisted
<1>4. T.H = G /\ T.marked = E.marked
  BY <1>1
<1> HIDE DEF T, V, E, list
<1>5. Passed(H, G, t) /\ (~E.marked => SameTables(H, G) /\ G.gray = H.gray)
  <2>1. CASE list = W!None
    BY <1>2, <2>1, LaterPassed DEF Unmarked, V
  <2>2. CASE list # W!None
    <3>1. list \in Unlisted \ {"next"} /\ G = W!Link(V, t, list)
      BY <1>3, <2>2 DEF Unlisted
    <3>2. G.color = V.color /\ G.gray = V.gray
      BY <1>2, <3>1, LinkFacts
    <3>3. Passed(H, G, t)
      BY <1>2, <3>1, LaterPassed
    <3> QED BY <1>2, <3>2, <3>3 DEF Unmarked, SameTables, V
  <2> QED BY <2>1, <2>2
<1>6. Handled(G, t, E.marked) /\ Linked(H, G, t)
  <2>0. \A l \in Unlisted : V[l] = H[l]
    BY <1>2 DEF Later
  <2>1. CASE list = W!None
    <3>1. stage # "propagate" /\ G = V /\ KeysStay(V, V.node, t) /\ ValuesMarked(V, V.node, t)
      BY <1>2, <1>3, <2>1
    <3>2. Linked(H, G, t)
      BY <2>0, <3>1 DEF Linked, Unlisted
    <3> QED BY <3>1, <3>2 DEF Handled
  <2>2. CASE list # W!None
    <3>1. list \in Unlisted /\ G = W!Link(V, t, list)
      BY <1>3, <2>2 DEF Unlisted
    <3>2. /\ G.color = V.color /\ G.node = V.node /\ In(G, list, t)
          /\ \A other \in Unlisted : other # list => G[other] = H[other]
      BY <1>2, <2>0, <3>1, LinkFacts
    <3> HIDE DEF G
    <3>3. CASE list = "again"
      <4>1. stage = "propagate"
        BY <1>3, <3>3
      <4>2. Linked(H, G, t)
        BY <3>2, <3>3, <4>1 DEF Linked, Unlisted
      <4> QED BY <3>2, <3>3, <4>1, <4>2 DEF Handled
    <3>4. CASE list = "ephemeron"
      <4>1. stage # "propagate"
        BY <1>3, <3>4
      <4>2. Linked(H, G, t)
        BY <3>2, <3>4, <4>1 DEF Linked, Unlisted
      <4>3. E.marked \/ Settled(G, G.node, t)
        BY <1>2, <3>2, LinkedNodes
      <4> QED BY <3>2, <3>4, <4>1, <4>2, <4>3 DEF Handled
    <3>5. CASE list = "allweak"
      <4>1. stage # "propagate" /\ ValuesMarked(V, V.node, t)
        BY <1>2, <1>3, <3>5
      <4>2. ValuesMarked(G, G.node, t)
        BY <3>2, <4>1, LinkedNodes
      <4>3. Linked(H, G, t)
        BY <3>2, <3>5, <4>1, <4>2 DEF Linked, Unlisted
      <4> QED BY <3>2, <3>5, <4>1, <4>3 DEF Handled
    <3> QED BY <1>3, <2>2, <3>3, <3>4, <3>5
  <2> QED BY <2>1, <2>2
<1> HIDE DEF G
<1> QED BY <1>2, <1>4, <1>5, <1>6 DEF T, Unmarked

\* one with weak values,
LEMMA WeakValuePasses ==
  ASSUME NEW H \in Views, NEW t \in Tables, mode[t] = "v"
  PROVE  LET G == W!TraverseWeakValue(H, t) IN Passed(H, G, t) /\ Handled(G, t, TRUE) /\ Linked(H, G, t)
<1> DEFINE E == W!WeakValueNodes(H, t)
           V == E.H
           G == W!TraverseWeakValue(H, t)
<1>1. /\ V \in Views /\ Later(H, V) /\ KeysMarked(V, V.node, t)
      /\ E.clears \in BOOLEAN /\ (~E.clears => ValuesStay(V, V.node, t))
  BY WeakValueNodesRight
<1>2. /\ stage = "propagate" => G = W!Link(V, t, "again")
      /\ E.clears /\ stage # "propagate" => G = W!Link(V, t, "weak")
      /\ ~E.clears /\ stage # "propagate" => G = V
  BY <1>1 DEF W!TraverseWeakValue
<1> HIDE DEF G, V, E
<1>3. \A l \in Unlisted : V[l] = H[l]
  BY <1>1 DEF Later
<1>4. CASE stage # "propagate" /\ ~E.clears
  <2>1. G = V /\ Passed(H, G, t)
    BY <1>1, <1>2, <1>4, LaterPassed
  <2>2. Linked(H, G, t)
    BY <1>3, <2>1 DEF Linked, Unlisted
  <2> QED BY <1>1, <1>4, <2>1, <2>2 DEF Handled, G
<1>5. CASE stage = "propagate" \/ E.clears
  <2> DEFINE list == IF stage = "propagate" THEN "again" ELSE "weak"
  <2>1. G = W!Link(V, t, list) /\ list \in Unlisted \ {"next"}
    BY <1>1, <1>2, <1>5 DEF Unlisted
  <2>2. (list = "again" /\ stage = "propagate") \/ (list = "weak" /\ stage # "propagate")
    OBVIOUS
  <2> HIDE DEF list
  <2>3. Passed(H, G, t)
    BY <1>1, <2>1, LaterPassed
  <2>4. /\ G.color = V.color /\ G.node = V.node /\ In(G, list, t)
        /\ \A other \in Unlisted : other # list => G[other] = H[other]
    BY <1>1, <1>3, <2>1, LinkFacts
  <2>5. KeysMarked(G, G.node, t)
    BY <1>1, <2>4, LinkedNodes
  <2>6. Linked(H, G, t)
    BY <2>2, <2>4 DEF Linked, Unlisted
  <2>7. Handled(G, t, TRUE)
    BY <2>2, <2>4, <2>5 DEF Handled
  <2> QED BY <2>3, <2>6, <2>7 DEF G
<1> QED BY <1>1, <1>4, <1>5

\* a strong one,
LEMMA StrongPasses ==
  ASSUME NEW H \in Views, NEW t \in Tables, ~W!White(H, t), mode[t] = ""
  PROVE  LET G == W!TraverseStrong(H, t) IN Passed(H, G, t) /\ Handled(G, t, TRUE) /\ Linked(H, G, t)
<1> DEFINE G == W!TraverseStrong(H, t)
<1>1. G \in Views /\ Later([H EXCEPT !.color[t] = "black"], G) /\ \A k \in NodeKeys : EntryMarked(G, t, k)
  BY TraverseStrongRight
<1> HIDE DEF G
<1>2. Passed(H, G, t) /\ G.color[t] = "black" /\ \A list \in Unlisted : G[list] = H[list]
  BY <1>1, PaintedPassed
<1>3. KeysMarked(G, G.node, t) /\ ValuesMarked(G, G.node, t) /\ EmptyMarked(G, G.node, t)
  BY <1>1 DEF KeysMarked, ValuesMarked, EmptyMarked, EntryMarked, Entries
<1>4. Linked(H, G, t)
  BY <1>2 DEF Linked, Unlisted
<1>5. Handled(G, t, TRUE)
  BY <1>2, <1>3 DEF Handled
<1> QED BY <1>2, <1>4, <1>5 DEF G

\* one with weak keys and values,
LEMMA AllWeakPasses ==
  ASSUME NEW H \in Views, NEW t \in Tables, mode[t] = "kv"
  PROVE  LET G == W!Link(H, t, "allweak") IN Passed(H, G, t) /\ Handled(G, t, TRUE) /\ Linked(H, G, t)
<1> DEFINE G == W!Link(H, t, "allweak")
<1>1. "allweak" \in Unlisted \ {"next"}
  BY DEF Unlisted
<1>2. /\ In(G, "allweak", t)
      /\ \A other \in Unlisted : other # "allweak" => G[other] = H[other]
  BY <1>1, LinkFacts
<1>3. Passed(H, G, t)
  BY <1>1, LaterSame, LaterPassed
<1> HIDE DEF G
<1>4. Linked(H, G, t)
  BY <1>2 DEF Linked, Unlisted
<1>5. Handled(G, t, TRUE)
  BY <1>2 DEF Handled
<1> QED BY <1>3, <1>4, <1>5 DEF G

\* and so any table (traversetable).
LEMMA TablePasses ==
  ASSUME NEW H \in Views, NEW t \in Tables, ~W!White(H, t), mode[t] \in {"", "k", "v", "kv"}
  PROVE  LET G == W!TraverseTable(H, t) IN Passed(H, G, t) /\ Handled(G, t, TRUE) /\ Linked(H, G, t)
<1>1. CASE mode[t] = ""
  <2>1. W!TraverseTable(H, t) = W!TraverseStrong(H, t)
    BY <1>1 DEF W!TraverseTable
  <2> QED BY <1>1, <2>1, StrongPasses
<1>2. CASE mode[t] = "v"
  <2>1. W!TraverseTable(H, t) = W!TraverseWeakValue(H, t)
    BY <1>2 DEF W!TraverseTable
  <2> QED BY <1>2, <2>1, WeakValuePasses
<1>3. CASE mode[t] = "k"
  <2> DEFINE T == W!TraverseEphemeron(H, t)
  <2>1. W!TraverseTable(H, t) = T.H
    BY <1>3 DEF W!TraverseTable
  <2>2. Passed(H, T.H, t) /\ Handled(T.H, t, T.marked) /\ Linked(H, T.H, t)
    BY <1>3, EphemeronPasses
  <2> HIDE DEF T
  <2>3. Handled(T.H, t, TRUE)
    BY <2>2 DEF Handled
  <2> QED BY <2>1, <2>2, <2>3
<1>4. CASE mode[t] = "kv"
  <2>1. W!TraverseTable(H, t) = W!Link(H, t, "allweak")
    BY <1>4 DEF W!TraverseTable
  <2> QED BY <1>4, <2>1, AllWeakPasses
<1> QED BY <1>1, <1>2, <1>3, <1>4

\* The first table of a list is taken out.
LEMMA TakenOut ==
  ASSUME NEW H \in Views, NEW list \in {"gray", "next"}, H[list] # <<>>
  PROVE  LET G == [H EXCEPT ![list] = Tail(H[list])]
             t == Head(H[list])
         IN  /\ G \in Views /\ t \in Tables /\ In(H, list, t) /\ G.color = H.color /\ G.node = H.node
             /\ \A x : In(G, list, x) => In(H, list, x)
             /\ \A x : In(H, list, x) => x = t \/ In(G, list, x)
             /\ \A other \in Unlisted \cup {"gray"} : other # list => G[other] = H[other]
<1> DEFINE s == H[list]
           r == Tail(s)
           t == Head(s)
           G == [H EXCEPT ![list] = r]
<1>1. s \in Seq(Tables) /\ s # <<>>
  BY DEF Views, TableSeqs
<1>2. r \in Seq(Tables) /\ t \in Tables /\ s = <<t>> \o r
  BY <1>1
<1>3. Range(s) = {t} \cup Range(r)
  BY <1>2, RangeFront
<1>4. /\ G \in Views /\ G[list] = r /\ G.color = H.color /\ G.node = H.node
      /\ \A other \in Unlisted \cup {"gray"} : other # list => G[other] = H[other]
  <2> HIDE DEF r
  <2> QED BY <1>2 DEF Views, TableSeqs, Unlisted
<1> HIDE DEF r, t, G
<1>5. /\ \A x : In(G, list, x) => In(H, list, x)
      /\ \A x : In(H, list, x) => x = t \/ In(G, list, x)
      /\ In(H, list, t)
  BY <1>3, <1>4 DEF In
<1> QED BY <1>2, <1>4, <1>5 DEF G, r, t

\* A step in which t is traversed, with m for whether something may be marked.
Traversing(H, t, m) ==
  /\ H \in Views /\ t \in Tables /\ ~W!White(h, t) /\ H.color = h.color /\ H.node = h.node
  /\ \A x \in Tables, list \in Unlisted \cup {"gray"} :
       (In(H, list, x) => In(h, list, x)) /\ (x # t /\ In(h, list, x) => In(H, list, x))
  /\ \A list \in Unlisted \ {"next"} : H[list] = h[list]
  /\ stage \notin {"finalizers", "swept"} /\ (H.next # h.next => stage \in {"converge", "converge2"})
  /\ Passed(H, h', t) /\ Handled(h', t, m) /\ Linked(H, h', t)
  /\ m => changed' \/ stage \in {"propagate", "remarked"}
  /\ changed' \in BOOLEAN
  /\ stage \in {"converge", "converge2"} /\ ~changed' => ~changed /\ SameTables(h, h') /\ h'.gray = <<>>
  /\ Finalizing /\ t \in strong => mode[t] = "k"
  /\ UNCHANGED <<mode, fin, held, moves, stage, orig, was, strong>>

\* What is marked stays so.
LEMMA MarkedStay ==
  ASSUME NEW H, NEW G, \A o \in W!Objs : W!White(G, o) => W!White(H, o), NEW N, NEW t
  PROVE  /\ \A o : W!White(G, o) => W!White(H, o)
         /\ KeysMarked(H, N, t) => KeysMarked(G, N, t)
         /\ ValuesMarked(H, N, t) => ValuesMarked(G, N, t)
         /\ KeysStay(H, N, t) => KeysStay(G, N, t)
         /\ ValuesStay(H, N, t) => ValuesStay(G, N, t)
         /\ EmptyMarked(H, N, t) => EmptyMarked(G, N, t)
<1>1. \A o : W!White(G, o) => W!White(H, o)
  BY DEF W!White
<1>2. \A o : W!IsCleared(G, o) => W!IsCleared(H, o)
  BY <1>1 DEF W!IsCleared
<1> QED BY <1>1, <1>2 DEF KeysMarked, ValuesMarked, KeysStay, ValuesStay, EmptyMarked

\* A table without new colours is settled as before.
LEMMA SettledStays ==
  ASSUME NEW H, NEW G, \A o \in W!Objs : W!White(G, o) => W!White(H, o), SameTables(H, G), NEW N, NEW t, Settled(H, N, t)
  PROVE  Settled(G, N, t)
<1>1. \A o : W!White(G, o) => W!White(H, o)
  BY DEF W!White
<1>2. \A o : W!IsCleared(H, o) => W!IsCleared(G, o)
  BY DistinctThings DEF SameTables, W!IsCleared, W!White
<1> QED BY <1>1, <1>2 DEF Settled

\* What a table has now it had before, or the other way round.
LEMMA NodesStay ==
  ASSUME NEW G, NEW M, NEW N, NEW t, \A k \in Entries(N, t) : k \in Entries(M, t) /\ M[t][k] = N[t][k]
  PROVE  /\ KeysMarked(G, M, t) => KeysMarked(G, N, t)
         /\ ValuesMarked(G, M, t) => ValuesMarked(G, N, t)
         /\ KeysStay(G, M, t) => KeysStay(G, N, t)
         /\ ValuesStay(G, M, t) => ValuesStay(G, N, t)
         /\ Settled(G, M, t) => Settled(G, N, t)
BY DEF KeysMarked, ValuesMarked, KeysStay, ValuesStay, Settled

\* What the step leaves as it was.
LEMMA TraversingFacts ==
  ASSUME NEW H, NEW t, NEW m, Traversing(H, t, m)
  PROVE  /\ \A o \in W!Objs : W!White(h', o) => W!White(h, o)
         /\ \A x \in Tables : x # t /\ Visited(h', x) => Visited(h, x) /\ h'.color[x] = h.color[x]
         /\ \A x \in Tables : \A list \in Unlisted : x # t /\ In(h, list, x) => In(h', list, x)
         /\ \A x \in Tables : \A list \in Unlisted : In(h', list, x) => In(h, list, x) \/ (x = t /\ h'[list] # H[list])
         /\ \A x \in Tables : In(h', "gray", x) => In(h, "gray", x) \/ (W!White(h, x) /\ ~W!White(h', x))
         /\ \A x \in Tables : Entries(h'.node, x) = Entries(h.node, x)
         /\ \A x \in Tables : \A k \in Entries(h.node, x) : h'.node[x][k] = h.node[x][k]
         /\ \A x \in Tables, k \in NodeKeys :
              h'.node[x][k] = h.node[x][k] \/ (h.node[x][k] = W!Empty /\ h'.node[x][k] = W!Dead)
         /\ \A list \in {"weak", "allweak"} : h'[list] = h[list] \/ h'[list] = <<t>> \o h[list]
         /\ h' \in Views
<1> DEFINE G == h'
<1>0. Passed(H, G, t) /\ H.color = h.color /\ H.node = h.node /\ t \in Tables /\ H \in Views
  BY DEF Traversing
<1> HIDE DEF G
<1>1. \A o : W!White(H, o) <=> W!White(h, o)
  BY <1>0 DEF W!White
<1>2. \A o \in W!Objs : W!White(G, o) => W!White(h, o)
  BY <1>0, <1>1 DEF Passed
<1>3. ASSUME NEW x \in Tables, NEW list \in Unlisted
      PROVE  /\ In(H, list, x) => In(G, list, x)
             /\ In(G, list, x) => In(H, list, x) \/ (x = t /\ G[list] # H[list])
  <2>1. H[list] \in Seq(Tables)
    BY <1>0 DEF Views, TableSeqs, Unlisted
  <2>2. Range(<<t>> \o H[list]) = {t} \cup Range(H[list])
    BY <1>0, <2>1, RangeFront
  <2>3. G[list] = H[list] \/ G[list] = <<t>> \o H[list]
    BY <1>0 DEF Passed
  <2>4. CASE G[list] = H[list]
    BY <2>4 DEF In
  <2>5. CASE G[list] # H[list]
    BY <2>2, <2>3, <2>5 DEF In
  <2> QED BY <2>4, <2>5
<1>4. \A x \in Tables, list \in Unlisted \cup {"gray"} :
       (In(H, list, x) => In(h, list, x)) /\ (x # t /\ In(h, list, x) => In(H, list, x))
  BY DEF Traversing
<1>5. /\ \A x \in Tables : \A list \in Unlisted : x # t /\ In(h, list, x) => In(G, list, x)
      /\ \A x \in Tables : \A list \in Unlisted : In(G, list, x) => In(h, list, x) \/ (x = t /\ G[list] # H[list])
  BY <1>3, <1>4
<1>6. \A x \in Tables : In(G, "gray", x) => In(h, "gray", x) \/ (W!White(h, x) /\ ~W!White(G, x))
  BY <1>0, <1>1, <1>4 DEF Passed, Marking
<1>7. ASSUME NEW x \in Tables, x # t, Visited(G, x)
      PROVE  Visited(h, x) /\ G.color[x] = h.color[x]
  <2>1. "again" \in Unlisted
    BY DEF Unlisted
  <2>2. ~W!White(h, x)
    BY <1>0, <1>1, <1>7 DEF Visited, Passed, Marking
  <2>3. ~In(h, "gray", x)
    BY <1>0, <1>4, <1>7 DEF Visited, Passed
  <2>4. ~In(h, "again", x)
    BY <1>5, <1>7, <2>1 DEF Visited
  <2>5. G.color[x] = H.color[x]
    BY <1>0, <1>1, <1>7, <2>2 DEF Passed, Marking
  <2> QED BY <1>0, <2>2, <2>3, <2>4, <2>5 DEF Visited
<1>8. \A x \in Tables, k \in NodeKeys :
        G.node[x][k] = h.node[x][k] \/ (h.node[x][k] = W!Empty /\ G.node[x][k] = W!Dead)
  BY <1>0 DEF Passed
<1>9. ASSUME NEW x \in Tables
      PROVE  Entries(G.node, x) = Entries(h.node, x) /\ \A k \in Entries(h.node, x) : G.node[x][k] = h.node[x][k]
  BY <1>8, DistinctThings DEF Entries
<1>10. \A list \in {"weak", "allweak"} : G[list] = h[list] \/ G[list] = <<t>> \o h[list]
  <2>1. \A list \in {"weak", "allweak"} : list \in Unlisted \ {"next"}
    BY DEF Unlisted
  <2>2. \A list \in Unlisted \ {"next"} : H[list] = h[list]
    BY DEF Traversing
  <2> QED BY <1>0, <2>1, <2>2 DEF Passed
<1>11. G \in Views
  BY <1>0 DEF Passed
<1> QED BY <1>2, <1>5, <1>6, <1>7, <1>8, <1>9, <1>10, <1>11 DEF G

\* The parts of the invariant after such a step: its types,
LEMMA TraversingTypes ==
  ASSUME WeakInv, NEW H, NEW t, NEW m, Traversing(H, t, m)
  PROVE  WeakTypes'
<1>1. /\ \A o \in W!Objs : W!White(h', o) => W!White(h, o)
      /\ h' \in Views
  BY TraversingFacts
<1>2. \A o : W!White(h', o) => W!White(h, o)
  BY <1>1 DEF W!White
<1>3. /\ UNCHANGED <<mode, fin, held, moves, stage, orig, was, strong>> /\ changed' \in BOOLEAN
  BY DEF Traversing
<1>4. (~W!White(h, Registry))' /\ (stage' # "propagate" => (~W!White(h, held))')
  <2>1. ~W!White(h', Registry) /\ (stage # "propagate" => ~W!White(h', held))
    BY <1>2 DEF WeakInv, WeakTypes
  <2> QED BY <1>3, <2>1 DEF W!White, W!Objs
<1>5. WeakTypes
  BY DEF WeakInv
<1> QED BY <1>1, <1>3, <1>4, <1>5 DEF WeakTypes, Finalizing, W!Objs, W!None

\* the tables while the program runs,
LEMMA TraversingWhileMutator ==
  ASSUME WeakInv, NEW H, NEW t, NEW m, Traversing(H, t, m)
  PROVE  PropagateInv'
<1>1. stage' = stage /\ mode' = mode /\ t \in Tables
  BY DEF Traversing
<1>2. SUFFICES ASSUME stage = "propagate", NEW x \in Tables, Visited(h', x)
               PROVE  \/ /\ mode[x] = "" /\ h'.color[x] = "black" /\ EmptyMarked(h', h'.node, x)
                         /\ KeysMarked(h', h'.node, x) /\ ValuesMarked(h', h'.node, x)
                      \/ mode[x] = "kv" /\ In(h', "allweak", x)
  BY <1>1 DEF PropagateInv, Visited, EmptyMarked, KeysMarked, ValuesMarked, In, Entries, W!White, W!Objs, W!Empty
<1>3. CASE x = t
  <2>1. Handled(h', t, m)
    BY DEF Traversing
  <2> QED BY <1>2, <1>3, <2>1 DEF Handled, Visited
<1>4. CASE x # t
  <2>1. Visited(h, x) /\ h'.color[x] = h.color[x]
    BY <1>2, <1>4, TraversingFacts
  <2>2. \A o \in W!Objs : W!White(h', o) => W!White(h, o)
    BY TraversingFacts
  <2>3. \/ /\ mode[x] = "" /\ h.color[x] = "black" /\ EmptyMarked(h, h.node, x)
           /\ KeysMarked(h, h.node, x) /\ ValuesMarked(h, h.node, x)
        \/ mode[x] = "kv" /\ In(h, "allweak", x)
    BY <1>2, <2>1 DEF WeakInv, PropagateInv
  <2>4. CASE mode[x] = "kv" /\ In(h, "allweak", x)
    <3>1. "allweak" \in Unlisted
      BY DEF Unlisted
    <3>2. In(h', "allweak", x)
      BY <1>4, <2>4, <3>1, TraversingFacts
    <3> QED BY <2>4, <3>2
  <2>5. CASE ~(mode[x] = "kv" /\ In(h, "allweak", x))
    <3>1. EmptyMarked(h', h.node, x) /\ KeysMarked(h', h.node, x) /\ ValuesMarked(h', h.node, x)
      BY <2>2, <2>3, <2>5, MarkedStay
    <3>2. /\ Entries(h'.node, x) = Entries(h.node, x)
          /\ \A k \in Entries(h.node, x) : h'.node[x][k] = h.node[x][k]
          /\ \A k \in NodeKeys :
              h'.node[x][k] = h.node[x][k] \/ (h.node[x][k] = W!Empty /\ h'.node[x][k] = W!Dead)
      BY TraversingFacts
    <3>3. EmptyMarked(h', h'.node, x)
      BY <3>1, <3>2, DistinctThings DEF EmptyMarked
    <3>4. KeysMarked(h', h'.node, x) /\ ValuesMarked(h', h'.node, x)
      BY <3>1, <3>2, NodesStay
    <3> QED BY <2>1, <2>3, <2>5, <3>3, <3>4
  <2> QED BY <2>4, <2>5
<1> QED BY <1>3, <1>4

\* the nodes,
LEMMA TraversingNodes ==
  ASSUME WeakInv, NEW H, NEW t, NEW m, Traversing(H, t, m)
  PROVE  NodesInv'
<1>1. UNCHANGED <<mode, stage, was, strong>>
  BY DEF Traversing
<1>2. ASSUME stage \notin {"propagate", "swept"}, NEW x \in Tables, NEW k \in NodeKeys, was[x][k] \in W!Objs
      PROVE  IF Finalizing /\ x \in strong /\ W!Weak(x, "v") /\ was[x][k] \notin Strings \cup strong
             THEN h'.node[x][k] \notin W!Objs ELSE h'.node[x][k] = was[x][k]
  <2>1. IF Finalizing /\ x \in strong /\ W!Weak(x, "v") /\ was[x][k] \notin Strings \cup strong
        THEN h.node[x][k] \notin W!Objs ELSE h.node[x][k] = was[x][k]
    BY <1>2 DEF WeakInv, NodesInv
  <2>2. /\ Entries(h'.node, x) = Entries(h.node, x)
        /\ \A j1 \in Entries(h.node, x) : h'.node[x][j1] = h.node[x][j1]
    BY TraversingFacts
  <2> QED BY <1>2, <2>1, <2>2 DEF Entries
<1> QED BY <1>1, <1>2 DEF NodesInv, Finalizing, W!Weak, W!Objs

\* the tables in atomic,
LEMMA TraversingAtomic ==
  ASSUME WeakInv, NEW H, NEW t, NEW m, Traversing(H, t, m)
  PROVE  AtomicInv'
<1>1. UNCHANGED <<stage, mode, was>> /\ t \in Tables
  BY DEF Traversing
<1>2. SUFFICES ASSUME stage \notin {"propagate", "swept"}, NEW x \in Tables, Visited(h', x)
      PROVE  \/ mode[x] = "" /\ KeysMarked(h', was, x) /\ ValuesMarked(h', was, x)
             \/ mode[x] = "v" /\ KeysMarked(h', was, x) /\ (In(h', "weak", x) \/ ValuesStay(h', was, x))
             \/ mode[x] = "kv" /\ In(h', "allweak", x)
             \/ /\ mode[x] = "k"
                /\ \/ In(h', "allweak", x)
                   \/ KeysStay(h', was, x) /\ ValuesMarked(h', was, x)
                   \/ In(h', "next", x)
                   \/ In(h', "ephemeron", x) /\ (changed' \/ stage = "remarked" \/ Settled(h', was, x))
  <2>1. mode' = mode /\ was' = was /\ stage' = stage
    BY <1>1
  <2>2. ASSUME NEW x
        PROVE  /\ Visited(h, x)' <=> Visited(h', x)
               /\ KeysMarked(h, was, x)' <=> KeysMarked(h', was, x)
               /\ ValuesMarked(h, was, x)' <=> ValuesMarked(h', was, x)
               /\ KeysStay(h, was, x)' <=> KeysStay(h', was, x)
               /\ ValuesStay(h, was, x)' <=> ValuesStay(h', was, x)
               /\ Settled(h, was, x)' <=> Settled(h', was, x)
               /\ \A list \in Unlisted : In(h, list, x)' <=> In(h', list, x)
    BY <2>1 DEF Visited, KeysMarked, ValuesMarked, KeysStay, ValuesStay, Settled, In, Entries, W!White, W!Objs, W!IsCleared
  <2> QED BY <2>1, <2>2 DEF AtomicInv, Unlisted
<1>3. CASE x = t
  <2>1. Handled(h', t, m) /\ (m => changed' \/ stage \in {"propagate", "remarked"})
    BY DEF Traversing
  <2>2. ASSUME NEW k \in Entries(was, t)
        PROVE  k \in Entries(h'.node, t) /\ h'.node[t][k] = was[t][k]
    <3>1. Finalizing /\ t \in strong => mode[t] = "k"
      BY DEF Traversing
    <3>2. ~(Finalizing /\ t \in strong /\ W!Weak(t, "v"))
      BY <3>1 DEF W!Weak
    <3>3. h.node[t][k] = was[t][k]
      BY <1>1, <1>2, <3>2 DEF WeakInv, NodesInv, Entries
    <3>4. k \in Entries(h.node, t)
      BY <3>3 DEF Entries
    <3> QED BY <1>1, <3>3, <3>4, TraversingFacts
  <2> DEFINE M == h'.node
  <2>3. /\ KeysMarked(h', M, t) => KeysMarked(h', was, t)
        /\ ValuesMarked(h', M, t) => ValuesMarked(h', was, t)
        /\ KeysStay(h', M, t) => KeysStay(h', was, t)
        /\ ValuesStay(h', M, t) => ValuesStay(h', was, t)
        /\ Settled(h', M, t) => Settled(h', was, t)
    <3> HIDE DEF M
    <3>1. \A k \in Entries(was, t) : k \in Entries(M, t) /\ M[t][k] = was[t][k]
      BY <2>2 DEF M
    <3> QED BY <3>1, NodesStay
  <2> QED BY <1>2, <1>3, <2>1, <2>3 DEF Handled
<1>4. CASE x # t
  <2>1. Visited(h, x)
    BY <1>2, <1>4, TraversingFacts
  <2>2. \A o \in W!Objs : W!White(h', o) => W!White(h, o)
    BY TraversingFacts
  <2>3. \A list \in Unlisted : In(h, list, x) => In(h', list, x)
    BY <1>4, TraversingFacts
  <2>4. /\ In(h, "weak", x) => In(h', "weak", x)
        /\ In(h, "allweak", x) => In(h', "allweak", x)
        /\ In(h, "next", x) => In(h', "next", x)
        /\ In(h, "ephemeron", x) => In(h', "ephemeron", x)
    BY <2>3 DEF Unlisted
  <2>5. \/ mode[x] = "" /\ KeysMarked(h, was, x) /\ ValuesMarked(h, was, x)
        \/ mode[x] = "v" /\ KeysMarked(h, was, x) /\ (In(h, "weak", x) \/ ValuesStay(h, was, x))
        \/ mode[x] = "kv" /\ In(h, "allweak", x)
        \/ /\ mode[x] = "k"
           /\ \/ In(h, "allweak", x)
              \/ KeysStay(h, was, x) /\ ValuesMarked(h, was, x)
              \/ In(h, "next", x)
              \/ In(h, "ephemeron", x) /\ (changed \/ stage = "remarked" \/ Settled(h, was, x))
    BY <1>2, <2>1 DEF WeakInv, AtomicInv
  <2>6. /\ KeysMarked(h, was, x) => KeysMarked(h', was, x)
        /\ ValuesMarked(h, was, x) => ValuesMarked(h', was, x)
        /\ KeysStay(h, was, x) => KeysStay(h', was, x)
        /\ ValuesStay(h, was, x) => ValuesStay(h', was, x)
    BY <2>2, MarkedStay
  <2>7. (changed \/ stage = "remarked" \/ Settled(h, was, x)) => (changed' \/ stage = "remarked" \/ Settled(h', was, x))
    <3>1. CASE changed' \/ stage = "remarked"
      BY <3>1
    <3>2. CASE ~changed' /\ stage # "remarked"
      <4>1. stage \in {"converge", "converge2"}
        BY <1>2, <3>2 DEF Traversing, WeakInv, WeakTypes
      <4>2. ~changed /\ SameTables(h, h')
        BY <3>2, <4>1 DEF Traversing
      <4> QED BY <2>2, <3>2, <4>2, SettledStays
    <3> QED BY <3>1, <3>2
  <2> QED BY <2>4, <2>5, <2>6, <2>7
<1> QED BY <1>3, <1>4

\* the lists,
LEMMA TraversingLists ==
  ASSUME WeakInv, NEW H, NEW t, NEW m, Traversing(H, t, m)
  PROVE  ListsInv'
<1>1. /\ UNCHANGED <<stage, mode, was>> /\ t \in Tables /\ Linked(H, h', t) /\ ~W!White(h, t)
      /\ \A list \in Unlisted \ {"next"} : H[list] = h[list]
      /\ stage \notin {"finalizers", "swept"} /\ (H.next # h.next => stage \in {"converge", "converge2"})
      /\ stage \in {"converge", "converge2"} /\ ~changed' => h'.gray = <<>>
      /\ h'.next = H.next
  BY DEF Traversing, Passed
<1>2. ListsInv
  BY DEF WeakInv
<1>3. /\ \A o \in W!Objs : W!White(h', o) => W!White(h, o)
      /\ \A x \in Tables : \A list \in Unlisted : In(h', list, x) => In(h, list, x) \/ (x = t /\ h'[list] # H[list])
      /\ \A x \in Tables : In(h', "gray", x) => In(h, "gray", x) \/ (W!White(h, x) /\ ~W!White(h', x))
  BY TraversingFacts
<1>4. \A o : W!White(h', o) => W!White(h, o)
  BY <1>3 DEF W!White
<1>5. \A x \in Tables : In(h', "gray", x) \/ In(h', "again", x) => ~W!White(h', x)
  <2>1. "again" \in Unlisted
    BY DEF Unlisted
  <2> QED BY <1>1, <1>2, <1>3, <1>4, <2>1 DEF ListsInv
<1>6. ASSUME NEW x \in Tables, In(h', "next", x) \/ In(h', "ephemeron", x)
      PROVE  mode[x] = "k" /\ ~W!White(h', x)
  <2>1. In(h', "next", x) => In(h, "next", x)
    <3>1. "next" \in Unlisted
      BY DEF Unlisted
    <3> QED BY <1>1, <1>3, <3>1
  <2>2. In(h', "ephemeron", x) => In(h, "ephemeron", x) \/ (mode[x] = "k" /\ ~W!White(h, x))
    <3>1. "ephemeron" \in Unlisted
      BY DEF Unlisted
    <3> QED BY <1>1, <1>3, <3>1 DEF Linked
  <2> QED BY <1>2, <1>4, <1>6, <2>1, <2>2 DEF ListsInv
<1>7. ASSUME NEW x \in Tables, In(h', "weak", x)
      PROVE  mode[x] = "v" /\ ~W!White(h', x)
  <2>1. "weak" \in Unlisted
    BY DEF Unlisted
  <2>2. In(h, "weak", x) \/ (x = t /\ mode[x] = "v")
    BY <1>1, <1>3, <1>7, <2>1 DEF Linked
  <2> QED BY <1>1, <1>2, <1>4, <2>2 DEF ListsInv
<1>8. ASSUME NEW x \in Tables, In(h', "allweak", x)
      PROVE  /\ ~W!White(h', x)
             /\ mode[x] = "kv" \/ (mode[x] = "k" /\ stage # "propagate" /\ ValuesMarked(h', was, x))
  <2>1. "allweak" \in Unlisted
    BY DEF Unlisted
  <2>2. CASE In(h, "allweak", x)
    <3>1. ValuesMarked(h, was, x) => ValuesMarked(h', was, x)
      BY <1>3, MarkedStay
    <3> QED BY <1>2, <1>4, <2>2, <3>1 DEF ListsInv
  <2>3. CASE ~In(h, "allweak", x)
    <3>1. x = t /\ (mode[t] = "kv" \/ (mode[t] = "k" /\ stage # "propagate" /\ ValuesMarked(h', h'.node, t)))
      BY <1>1, <1>3, <1>8, <2>1, <2>3 DEF Linked
    <3>2. CASE mode[t] = "kv"
      BY <1>1, <1>4, <3>1, <3>2
    <3>3. CASE mode[t] # "kv"
      <4>1. mode[t] = "k" /\ stage \notin {"propagate", "swept"} /\ ValuesMarked(h', h'.node, t)
        BY <1>1, <3>1, <3>3
      <4>2. ASSUME NEW k \in Entries(was, t)
            PROVE  k \in Entries(h'.node, t) /\ h'.node[t][k] = was[t][k]
        <5>1. ~W!Weak(t, "v")
          BY <4>1 DEF W!Weak
        <5>2. h.node[t][k] = was[t][k]
          BY <1>1, <4>1, <5>1 DEF WeakInv, NodesInv, Entries
        <5>3. k \in Entries(h.node, t)
          BY <5>2 DEF Entries
        <5> QED BY <1>1, <5>2, <5>3, TraversingFacts
      <4> DEFINE M == h'.node
      <4>3. ValuesMarked(h', M, t) => ValuesMarked(h', was, t)
        <5>1. \A k \in Entries(was, t) : k \in Entries(M, t) /\ M[t][k] = was[t][k]
          BY <4>2
        <5> HIDE DEF M
        <5> QED BY <5>1, NodesStay
      <4> QED BY <1>1, <1>4, <3>1, <4>1, <4>3
    <3> QED BY <3>2, <3>3
  <2> QED BY <2>2, <2>3
<1>9. stage \notin {"propagate", "remarked"} => h'.again = <<>>
  BY <1>1, <1>2 DEF ListsInv, Linked, Unlisted
<1>10. stage \notin {"converge", "converge2"} => h'.next = <<>>
  BY <1>1, <1>2 DEF ListsInv
<1> QED BY <1>1, <1>5, <1>6, <1>7, <1>8, <1>9, <1>10 DEF ListsInv, In, ValuesMarked, Entries, W!White, W!Objs

\* and what was marked before the finalizers.
LEMMA TraversingStrong ==
  ASSUME WeakInv, NEW H, NEW t, NEW m, Traversing(H, t, m)
  PROVE  StrongInv'
<1>1. UNCHANGED <<mode, fin, held, moves, stage, orig, was, strong>> /\ t \in Tables /\ stage # "swept"
  BY DEF Traversing
<1>2. StrongInv /\ WeakTypes
  BY DEF WeakInv
<1>3. /\ \A o \in W!Objs : W!White(h', o) => W!White(h, o)
      /\ \A x \in Tables : In(h', "gray", x) => In(h, "gray", x) \/ (W!White(h, x) /\ ~W!White(h', x))
      /\ \A list \in {"weak", "allweak"} : h'[list] = h[list] \/ h'[list] = <<t>> \o h[list]
      /\ h' \in Views
  BY TraversingFacts
<1>4. \A o : W!White(h', o) => W!White(h, o)
  BY <1>3 DEF W!White
<1>5. ASSUME Finalizing, NEW o \in strong
      PROVE  ~W!White(h', o) /\ ~In(h', "gray", o)
  <2>1. ~W!White(h, o) /\ ~In(h, "gray", o)
    BY <1>2, <1>5 DEF StrongInv
  <2>2. h'.gray \in Seq(Tables)
    BY <1>3 DEF Views, TableSeqs
  <2>3. In(h', "gray", o) => o \in Tables
    BY <2>2 DEF In, Range
  <2> QED BY <1>3, <1>4, <2>1, <2>3
<1>6. ASSUME Finalizing, NEW list \in {"weak", "allweak"}
      PROVE  /\ Range(orig[list]) \subseteq strong
             /\ \E front \in TableSeqs : h'[list] = front \o orig[list]
  <2>1. Range(orig[list]) \subseteq strong
    BY <1>2, <1>6 DEF StrongInv
  <2>2. PICK front \in TableSeqs : h[list] = front \o orig[list]
    BY <1>2, <1>6 DEF StrongInv
  <2>3. orig[list] \in Seq(Tables) /\ front \in Seq(Tables) /\ <<t>> \in Seq(Tables)
    <3>1. Finalizing => orig.weak \in Seq(Tables) /\ orig.allweak \in Seq(Tables)
      BY <1>2 DEF WeakTypes, TableSeqs
    <3>2. orig[list] \in Seq(Tables)
      BY <1>6, <3>1
    <3>3. <<t>> \in Seq(Tables)
      BY <1>1
    <3> QED BY <3>2, <3>3 DEF TableSeqs
  <2>4. CASE h'[list] = h[list]
    BY <2>1, <2>2, <2>4
  <2>5. CASE h'[list] = <<t>> \o h[list]
    <3>1. <<t>> \o (front \o orig[list]) = (<<t>> \o front) \o orig[list]
      <4> DEFINE u == <<t>>
                 w == orig[list]
      <4>1. u \in Seq(Tables) /\ front \in Seq(Tables) /\ w \in Seq(Tables)
        BY <2>3
      <4> HIDE DEF u, w
      <4>2. u \o (front \o w) = (u \o front) \o w
        BY <4>1, ConcatAssociative
      <4> QED BY <4>2 DEF u, w
    <3>2. <<t>> \o front \in TableSeqs
      BY <2>3 DEF TableSeqs
    <3> QED BY <2>1, <2>2, <2>5, <3>1, <3>2
  <2> QED BY <1>3, <2>4, <2>5
<1>7. stage = "converge2" => \A o \in fin : ~W!White(h', o)
  BY <1>2, <1>4 DEF StrongInv
<1>8. Finalizing => W!Roots' \subseteq strong /\ W!Leads(strong)' \subseteq strong
  BY <1>1, <1>2 DEF StrongInv, W!Roots, W!Leads, W!Weak, W!Objs, W!Index
<1> QED BY <1>1, <1>5, <1>6, <1>7, <1>8 DEF StrongInv, Finalizing, In, W!White, W!Objs

\* The step keeps the invariant.
LEMMA TraversingKeeps ==
  ASSUME WeakInv, NEW H, NEW t, NEW m, Traversing(H, t, m)
  PROVE  WeakInv'
<1>1. SweptInv'
  <2>1. stage' # "swept"
    BY DEF Traversing
  <2> QED BY <2>1 DEF SweptInv
<1> QED BY <1>1, TraversingTypes, TraversingWhileMutator, TraversingNodes, TraversingAtomic, TraversingLists, TraversingStrong
   DEF WeakInv

\* A gray table (propagatemark).
LEMMA WeakPropagate == WeakInv /\ W!Propagate => WeakInv'
<1> SUFFICES ASSUME WeakInv, W!Propagate
             PROVE  WeakInv'
  OBVIOUS
<1> DEFINE H == [h EXCEPT !["gray"] = Tail(h["gray"])]
           t == Head(h["gray"])
<1>1. h \in Views /\ h["gray"] # <<>> /\ mode \in [Tables -> {"", "k", "v", "kv"}]
  BY DEF WeakInv, WeakTypes, W!Propagate
<1>2. /\ H \in Views /\ t \in Tables /\ In(h, "gray", t) /\ H.color = h.color /\ H.node = h.node
      /\ \A x : In(H, "gray", x) => In(h, "gray", x)
      /\ \A x : In(h, "gray", x) => x = t \/ In(H, "gray", x)
      /\ \A other \in Unlisted \cup {"gray"} : other # "gray" => H[other] = h[other]
  BY <1>1, TakenOut
<1>3. h' = W!TraverseTable(H, t)
  BY DEF W!Propagate, W!PropagateMark, W!GC
<1>4. UNCHANGED <<mode, fin, held, moves, stage, orig, was, strong, changed>>
  BY DEF W!Propagate, W!GC, W!Same
<1> HIDE DEF H, t
<1>5. ~W!White(h, t) /\ ~W!White(H, t)
  BY <1>2 DEF WeakInv, ListsInv, W!White
<1>6. mode[t] \in {"", "k", "v", "kv"}
  BY <1>1, <1>2
<1>7. Passed(H, h', t) /\ Handled(h', t, TRUE) /\ Linked(H, h', t)
  BY <1>2, <1>3, <1>5, <1>6, TablePasses
<1>8. \A list \in Unlisted : H[list] = h[list]
  BY <1>2 DEF Unlisted
<1>9. \A x \in Tables, list \in Unlisted \cup {"gray"} :
       (In(H, list, x) => In(h, list, x)) /\ (x # t /\ In(h, list, x) => In(H, list, x))
  BY <1>2, <1>8 DEF In
<1>10. stage \notin {"finalizers", "swept"} /\ (stage \in {"converge", "converge2"} => changed)
  BY <1>1 DEF WeakInv, ListsInv
<1>11. ~(Finalizing /\ t \in strong)
  BY <1>2 DEF WeakInv, StrongInv
<1>12. stage \in {"propagate", "remarked", "converge", "converge2"} /\ changed \in BOOLEAN
  BY <1>10 DEF WeakInv, WeakTypes
<1>13. Traversing(H, t, TRUE)
  BY <1>2, <1>4, <1>5, <1>7, <1>8, <1>9, <1>10, <1>11, <1>12 DEF Traversing, Unlisted
<1> QED BY <1>13, TraversingKeeps

\* An ephemeron table of a round (convergeephemerons).
LEMMA WeakEphemeron == WeakInv /\ W!Ephemeron => WeakInv'
<1> SUFFICES ASSUME WeakInv, W!Ephemeron
             PROVE  WeakInv'
  OBVIOUS
<1> DEFINE H == [h EXCEPT !["next"] = Tail(h["next"])]
           t == Head(h["next"])
           T == W!TraverseEphemeron(H, t)
<1>1. h \in Views /\ h["next"] # <<>> /\ stage \in {"converge", "converge2"} /\ h.gray = <<>>
  BY DEF WeakInv, WeakTypes, W!Ephemeron, W!Converging
<1>2. /\ H \in Views /\ t \in Tables /\ In(h, "next", t) /\ H.color = h.color /\ H.node = h.node
      /\ \A x : In(H, "next", x) => In(h, "next", x)
      /\ \A x : In(h, "next", x) => x = t \/ In(H, "next", x)
      /\ \A other \in Unlisted \cup {"gray"} : other # "next" => H[other] = h[other]
  BY <1>1, TakenOut
<1>3. h' = T.H /\ changed' = (changed \/ T.marked)
  BY DEF W!Ephemeron, W!GC
<1>4. UNCHANGED <<mode, fin, held, moves, stage, orig, was, strong>>
  BY DEF W!Ephemeron, W!GC
<1>5. mode[t] = "k"
  BY <1>2 DEF WeakInv, ListsInv
<1> HIDE DEF H, t
<1>6. /\ Passed(H, T.H, t) /\ Handled(T.H, t, T.marked) /\ Linked(H, T.H, t)
      /\ T.marked \in BOOLEAN /\ (~T.marked => Unmarked(H, T))
  BY <1>2, <1>5, EphemeronPasses
<1> HIDE DEF T
<1>7. \A x \in Tables, list \in Unlisted \cup {"gray"} :
       (In(H, list, x) => In(h, list, x)) /\ (x # t /\ In(h, list, x) => In(H, list, x))
  BY <1>2 DEF In
<1>8. H.gray = h.gray /\ \A list \in Unlisted \ {"next"} : H[list] = h[list]
  BY <1>2 DEF Unlisted
<1>9. changed \in BOOLEAN
  BY DEF WeakInv, WeakTypes
<1>10. ~changed' => ~changed /\ SameTables(h, h') /\ h'.gray = <<>>
  BY <1>1, <1>2, <1>3, <1>6, <1>8 DEF Unmarked, SameTables
<1>11. ~W!White(h, t)
  BY <1>2 DEF WeakInv, ListsInv
<1>12. Traversing(H, t, T.marked)
  BY <1>1, <1>2, <1>3, <1>4, <1>5, <1>6, <1>7, <1>8, <1>9, <1>10, <1>11 DEF Traversing
<1> QED BY <1>12, TraversingKeeps

\* Only the empty list has no tables.
LEMMA EmptyRange ==
  /\ Range(<<>>) = {}
  /\ \A s \in Seq(Tables) : Range(s) = {} => s = <<>>
<1>1. Range(<<>>) = {}
  BY DEF Range
<1>2. ASSUME NEW s \in Seq(Tables), Range(s) = {}
      PROVE  s = <<>>
  <2>1. ~(1 \in DOMAIN s)
    BY <1>2 DEF Range
  <2> QED BY <2>1
<1> QED BY <1>1, <1>2

\* The invariant holds at the beginning of a collection.
LEMMA WeakInit == W!Init => WeakInv
<1> SUFFICES ASSUME W!Init
             PROVE  WeakInv
  OBVIOUS
<1>1. PICK heap \in Heaps : W!InitWith(heap)
  BY DEF W!Init
<1>2. /\ heap.mode \in [Tables -> {"", "k", "v", "kv"}] /\ heap.fin \subseteq W!Objs \cap Range(KeySeq)
      /\ heap.held \in W!Objs \cup {W!None} /\ heap.moves \in Nat
      /\ heap.node \in [Tables -> [Range(KeySeq) -> W!Objs \cup {W!Empty, W!Dead, W!Absent}]]
  BY <1>1, WeakAssumption
<1> DEFINE c == [o \in W!Objs |-> IF o = Registry THEN "gray" ELSE "white"]
<1>3. /\ mode = heap.mode /\ fin = heap.fin /\ held = heap.held /\ moves = heap.moves
      /\ h = [color |-> c, gray |-> <<Registry>>, again |-> <<>>, weak |-> <<>>, ephemeron |-> <<>>,
              next |-> <<>>, allweak |-> <<>>, node |-> heap.node]
      /\ stage = "propagate" /\ changed = FALSE
  BY <1>1 DEF W!InitWith
<1>4. c \in ColorMaps /\ Registry \in Tables /\ Registry \in W!Objs /\ \A o \in W!Objs : c[o] # "white" <=> o = Registry
  BY DistinctThings DEF ColorMaps
<1> HIDE DEF c
<1>5. h \in Views
  <2>1. <<Registry>> \in Seq(Tables) /\ <<>> \in Seq(Tables)
    BY <1>4
  <2>2. heap.node \in Nodemaps
    BY <1>2 DEF Nodemaps, NodeKeys, NodeValues
  <2> QED BY <1>3, <1>4, <2>1, <2>2 DEF Views, TableSeqs
<1>6. /\ h.color = c /\ Range(h.gray) = {Registry}
      /\ \A list \in Unlisted : h[list] = <<>>
  <2>1. Range(<<Registry>>) = {Registry}
    BY DEF Range
  <2> QED BY <1>3, <2>1 DEF Unlisted
<1>7. /\ \A o \in W!Objs : ~W!White(h, o) <=> o = Registry
      /\ \A x : In(h, "gray", x) <=> x = Registry
      /\ \A list \in Unlisted : \A x : ~In(h, list, x)
  BY <1>4, <1>6, EmptyRange DEF W!White, In
<1>8. WeakTypes
  <2>1. mode \in [Tables -> {"", "k", "v", "kv"}] /\ fin \subseteq W!Objs \cap NodeKeys
    BY <1>2, <1>3 DEF NodeKeys
  <2>2. held \in W!Objs \cup {W!None} /\ moves \in Int /\ changed \in BOOLEAN
    <3>1. heap.moves \in Nat /\ moves = heap.moves /\ held = heap.held /\ changed = FALSE
      BY <1>2, <1>3
    <3>2. moves \in Int
      BY <3>1
    <3>3. held \in W!Objs \cup {W!None}
      BY <1>2, <3>1
    <3> QED BY <3>1, <3>2, <3>3
  <2>3. stage = "propagate" /\ ~W!White(h, Registry)
    BY <1>3, <1>4, <1>7
  <2> QED BY <1>5, <2>1, <2>2, <2>3 DEF WeakTypes, Finalizing
<1>9. PropagateInv
  BY <1>7, DistinctThings DEF PropagateInv, Visited
<1>10. AtomicInv /\ NodesInv /\ StrongInv /\ SweptInv
  BY <1>3 DEF AtomicInv, NodesInv, StrongInv, SweptInv, Finalizing
<1>11. ListsInv
  <2>1. h.next = <<>> /\ h.again = <<>>
    BY <1>6 DEF Unlisted
  <2> QED BY <1>3, <1>4, <1>7, <2>1 DEF ListsInv, Unlisted
<1> QED BY <1>8, <1>9, <1>10, <1>11 DEF WeakInv

\* What the program gets at are objects.
LEMMA AccessibleObjects == W!Accessible \subseteq W!Objs
<1> DEFINE N == W!Cardinality(W!Objs)
           T == [n \in 0 .. N |-> SUBSET W!Objs]
<1>0. N \in Nat
  BY DistinctThings, FS_CardinalityType DEF W!Cardinality, Cardinality
<1>1. W!Roots \in T[0]
  BY <1>0 DEF W!Roots
<1>2. ASSUME NEW n \in 1 .. N, NEW s \in T[n - 1]
      PROVE  W!References(s) \in T[n]
  <2>1. n - 1 \in 0 .. N /\ n \in 0 .. N
    BY <1>0
  <2>2. s \subseteq W!Objs
    BY <2>1
  <2>3. W!References(s) \subseteq W!Objs
    BY <2>2 DEF W!References
  <2> QED BY <2>1, <2>3
<1>3. W!Accessible \in T[N]
  <2> HIDE DEF T
  <2> QED BY <1>1, <1>2, Referring
<1> QED BY <1>0, <1>3

\* The mutator reads.
LEMMA WeakRead == WeakInv /\ W!Read => WeakInv'
<1> SUFFICES ASSUME WeakInv, W!Read
             PROVE  WeakInv'
  OBVIOUS
<1>1. /\ stage = "propagate" /\ moves > 0 /\ held' \in (W!Accessible \ {held}) \cup {W!None}
      /\ moves' = moves - 1 /\ UNCHANGED <<mode, fin, h, stage, changed, orig, was, strong>>
  BY DEF W!Read
<1>2. held' \in W!Objs \cup {W!None}
  BY <1>1, AccessibleObjects
<1>3. WeakTypes'
  <2>1. mode \in [Tables -> {"", "k", "v", "kv"}] /\ fin \subseteq W!Objs \cap NodeKeys /\ h \in Views
        /\ moves \in Int /\ changed \in BOOLEAN /\ ~W!White(h, Registry)
    BY DEF WeakInv, WeakTypes
  <2>2. mode' \in [Tables -> {"", "k", "v", "kv"}] /\ (fin \subseteq W!Objs \cap NodeKeys)' /\ h' \in Views
    BY <1>1, <2>1
  <2>4. moves' \in Int /\ changed' \in BOOLEAN
    <3>1. moves \in Int /\ moves' = moves - 1 /\ changed' = changed
      BY <1>1, <2>1
    <3>2. moves' \in Int
      BY <3>1
    <3> QED BY <2>1, <3>1, <3>2
  <2>3. ~W!White(h', Registry) /\ stage' = "propagate"
    BY <1>1, <2>1
  <2> QED BY <1>2, <2>2, <2>3, <2>4 DEF WeakTypes, Finalizing, W!Objs, W!None, W!White
<1>4. PropagateInv'
  BY <1>1 DEF WeakInv, PropagateInv, Visited, EmptyMarked, KeysMarked, ValuesMarked, In, Entries, W!White, W!Objs, W!Empty
<1>5. AtomicInv' /\ NodesInv' /\ StrongInv' /\ SweptInv'
  BY <1>1 DEF AtomicInv, NodesInv, StrongInv, SweptInv, Finalizing
<1>6. ListsInv'
  BY <1>1 DEF WeakInv, ListsInv, In, W!White, W!Objs
<1> QED BY <1>3, <1>4, <1>5, <1>6 DEF WeakInv

\* A node is given a value.
LEMMA NodePut ==
  ASSUME NEW H \in Views, NEW t \in Tables, NEW k \in NodeKeys, NEW v \in NodeValues
  PROVE  LET G == [H EXCEPT !.node[t][k] = v] IN
         /\ G \in Views /\ G.color = H.color /\ G.gray = H.gray /\ \A list \in Unlisted : G[list] = H[list]
         /\ G.node[t][k] = v
         /\ \A x \in Tables, j1 \in NodeKeys : x # t \/ j1 # k => G.node[x][j1] = H.node[x][j1]
<1> DEFINE row == [H.node[t] EXCEPT ![k] = v]
           map == [H.node EXCEPT ![t] = row]
           G == [H EXCEPT !.node[t][k] = v]
<1>0. H.node \in [Tables -> [NodeKeys -> NodeValues]]
  BY DEF Views, Nodemaps
<1>1. G = [H EXCEPT !.node = map]
  OBVIOUS
<1>2. row \in [NodeKeys -> NodeValues]
  BY <1>0
<1>3. map \in Nodemaps /\ map[t] = row /\ \A x \in Tables : x # t => map[x] = H.node[x]
  <2> HIDE DEF row
  <2> QED BY <1>0, <1>2 DEF Nodemaps
<1>4. \A j1 \in NodeKeys : row[j1] = IF j1 = k THEN v ELSE H.node[t][j1]
  BY <1>0
<1> HIDE DEF row, map
<1>5. /\ G \in Views /\ G.color = H.color /\ G.gray = H.gray /\ G.node = map
      /\ \A list \in Unlisted : G[list] = H[list]
  BY <1>1, <1>3 DEF Views, Unlisted
<1> HIDE DEF G
<1> QED BY <1>3, <1>4, <1>5 DEF G

\* The barrier: the table is gray again and in 'again'.
LEMMA Barrier ==
  ASSUME NEW H \in Views, NEW t \in Tables
  PROVE  LET G == [W!Link(H, t, "again") EXCEPT !.color[t] = "gray"] IN
         /\ G \in Views /\ G.gray = H.gray /\ G.node = H.node /\ G.color[t] = "gray" /\ In(G, "again", t)
         /\ \A o \in W!Objs : o # t => G.color[o] = H.color[o]
         /\ \A x : In(G, "again", x) => x = t \/ In(H, "again", x)
         /\ \A x : In(H, "again", x) => In(G, "again", x)
         /\ \A list \in Unlisted \ {"again"} : G[list] = H[list]
<1> DEFINE L == W!Link(H, t, "again")
           c == [L.color EXCEPT ![t] = "gray"]
           G == [L EXCEPT !.color[t] = "gray"]
<1>1. /\ L \in Views /\ L.color = H.color /\ L.gray = H.gray /\ L.node = H.node
      /\ L.again = <<t>> \o H.again
      /\ \A other \in Unlisted : other # "again" => L[other] = H[other]
  <2>1. "again" \in Unlisted
    BY DEF Unlisted
  <2> QED BY <2>1, LinkFacts
<1>2. Range(<<t>> \o H.again) = {t} \cup Range(H.again)
  <2>1. H.again \in Seq(Tables)
    BY DEF Views, TableSeqs
  <2> QED BY <2>1, RangeFront
<1> HIDE DEF L
<1>3. L.color \in [W!Objs -> {"white", "gray", "black"}] /\ t \in W!Objs
  BY <1>1, DistinctThings DEF Views, ColorMaps
<1>4. c \in ColorMaps /\ c[t] = "gray" /\ \A o \in W!Objs : o # t => c[o] = H.color[o]
  BY <1>1, <1>3 DEF ColorMaps
<1>5. G = [L EXCEPT !.color = c]
  OBVIOUS
<1> HIDE DEF c
<1>6. /\ G \in Views /\ G.color = c /\ G.gray = L.gray /\ G.node = L.node
      /\ \A list \in Unlisted : G[list] = L[list]
  BY <1>1, <1>4, <1>5 DEF Views, Unlisted
<1> HIDE DEF G
<1>7. Range(G.again) = {t} \cup Range(H.again)
  BY <1>1, <1>2, <1>6 DEF Unlisted
<1> QED BY <1>1, <1>4, <1>6, <1>7 DEF G, L, In

\* The mutator stores, with its barrier.
LEMMA WeakStore == WeakInv /\ W!Store => WeakInv'
<1> SUFFICES ASSUME WeakInv, W!Store
             PROVE  WeakInv'
  OBVIOUS
<1>1. /\ stage = "propagate" /\ stage' = stage /\ moves' = moves - 1
      /\ UNCHANGED <<mode, fin, held, changed, orig, was, strong>>
  <2>1. stage = "propagate" /\ moves' = moves - 1
    BY DEF W!Store
  <2>2. UNCHANGED <<mode, fin, held, stage, changed, orig, was, strong>>
    BY DEF W!Store
  <2> QED BY <2>1, <2>2
<1>2. PICK t \in W!Accessible \cap Tables, k \in (W!Accessible \cup {W!Index}) \cap Range(KeySeq),
           v \in W!Accessible \cup {W!Empty} :
        (v = W!Empty => W!HasValue(h, t, k)) /\ W!Put(t, k, v)
  BY DEF W!Store, W!Range, Range
<1> DEFINE F == [h EXCEPT !.node[t][k] = v]
           barrier == h.color[t] = "black" /\ (W!White(h, v) \/ (W!White(h, k) /\ h.node[t][k] \in {W!Absent, W!Dead}))
<1>3. /\ v = W!Empty => W!HasValue(h, t, k)
      /\ barrier => h' = [W!Link(F, t, "again") EXCEPT !.color[t] = "gray"]
      /\ ~barrier => h' = F
  BY <1>2 DEF W!Put
<1>4. t \in Tables /\ t \in W!Objs /\ k \in NodeKeys /\ v \in NodeValues /\ v \in W!Objs \cup {W!Empty} /\ h \in Views
  BY <1>2, AccessibleObjects, DistinctThings DEF NodeKeys, NodeValues, WeakInv, WeakTypes
<1>5. /\ F \in Views /\ F.color = h.color /\ F.gray = h.gray /\ \A list \in Unlisted : F[list] = h[list]
      /\ F.node[t][k] = v
      /\ \A x \in Tables, j1 \in NodeKeys : x # t \/ j1 # k => F.node[x][j1] = h.node[x][j1]
  BY <1>4, NodePut
<1> HIDE DEF F
<1>6. /\ h' \in Views /\ h'.gray = h.gray /\ h'.node = F.node
      /\ \A list \in Unlisted \ {"again"} : h'[list] = h[list]
      /\ \A o \in W!Objs : o # t => h'.color[o] = h.color[o]
      /\ \A x : In(h, "again", x) => In(h', "again", x)
      /\ \A x : In(h', "again", x) => In(h, "again", x) \/ (x = t /\ barrier)
      /\ barrier => In(h', "again", t) /\ h'.color[t] = "gray"
      /\ ~barrier => h'.color[t] = h.color[t]
  <2>1. CASE barrier
    <3>1. h' = [W!Link(F, t, "again") EXCEPT !.color[t] = "gray"]
      BY <1>3, <2>1
    <3>2. /\ h' \in Views /\ h'.gray = F.gray /\ h'.node = F.node /\ h'.color[t] = "gray" /\ In(h', "again", t)
          /\ \A o \in W!Objs : o # t => h'.color[o] = F.color[o]
          /\ \A x : In(h', "again", x) => x = t \/ In(F, "again", x)
          /\ \A x : In(F, "again", x) => In(h', "again", x)
          /\ \A list \in Unlisted \ {"again"} : h'[list] = F[list]
      BY <1>4, <1>5, <3>1, Barrier
    <3>3. \A x : In(F, "again", x) <=> In(h, "again", x)
      BY <1>5 DEF In, Unlisted
    <3> HIDE DEF barrier
    <3> QED BY <1>5, <2>1, <3>2, <3>3
  <2>2. CASE ~barrier
    <3>1. h' = F
      BY <1>3, <2>2
    <3> HIDE DEF barrier
    <3> QED BY <1>5, <2>2, <3>1 DEF In, Unlisted
  <2> QED BY <2>1, <2>2
<1>7. \A o : W!White(h', o) <=> W!White(h, o)
  <2>1. \A o \in W!Objs : o # t => (W!White(h', o) <=> W!White(h, o))
    BY <1>6 DEF W!White
  <2>2. W!White(h', t) <=> W!White(h, t)
    BY <1>6 DEF W!White
  <2> QED BY <2>1, <2>2 DEF W!White
<1>8. WeakTypes'
  <2>1. mode \in [Tables -> {"", "k", "v", "kv"}] /\ fin \subseteq W!Objs \cap NodeKeys /\ held \in W!Objs \cup {W!None}
        /\ moves \in Int /\ changed \in BOOLEAN /\ ~W!White(h, Registry)
    BY DEF WeakInv, WeakTypes
  <2>2. mode' \in [Tables -> {"", "k", "v", "kv"}] /\ (fin \subseteq W!Objs \cap NodeKeys)' /\ held' \in W!Objs \cup {W!None}
        /\ changed' \in BOOLEAN
    BY <1>1, <2>1
  <2>3. moves' \in Int
    <3>1. moves \in Int /\ moves' = moves - 1
      BY <1>1, <2>1
    <3> QED BY <3>1
  <2>4. ~W!White(h', Registry) /\ stage' = "propagate"
    BY <1>1, <1>7, <2>1
  <2> QED BY <1>6, <2>2, <2>3, <2>4 DEF WeakTypes, Finalizing, W!Objs, W!None, W!White
<1>9. ASSUME NEW x \in Tables, Visited(h', x)
      PROVE  \/ /\ mode[x] = "" /\ h'.color[x] = "black" /\ EmptyMarked(h', h'.node, x)
                /\ KeysMarked(h', h'.node, x) /\ ValuesMarked(h', h'.node, x)
             \/ mode[x] = "kv" /\ In(h', "allweak", x)
  <2>1. Visited(h, x)
    BY <1>6, <1>7, <1>9 DEF Visited, In
  <2>2. \/ /\ mode[x] = "" /\ h.color[x] = "black" /\ EmptyMarked(h, h.node, x)
           /\ KeysMarked(h, h.node, x) /\ ValuesMarked(h, h.node, x)
        \/ mode[x] = "kv" /\ In(h, "allweak", x)
    BY <1>1, <2>1 DEF WeakInv, PropagateInv
  <2>3. CASE mode[x] = "kv" /\ In(h, "allweak", x)
    BY <1>6, <2>3 DEF In, Unlisted
  <2>4. CASE ~(mode[x] = "kv" /\ In(h, "allweak", x))
    <3>1. /\ mode[x] = "" /\ h.color[x] = "black" /\ EmptyMarked(h, h.node, x)
          /\ KeysMarked(h, h.node, x) /\ ValuesMarked(h, h.node, x)
      BY <2>2, <2>4
    <3>2. x = t => ~barrier
      BY <1>6, <1>9 DEF Visited
    <3>3. h'.color[x] = "black"
      BY <1>4, <1>6, <3>1, <3>2, DistinctThings
    <3>4. ASSUME NEW j1 \in NodeKeys
          PROVE  /\ h'.node[x][j1] = W!Empty => ~W!White(h, j1)
                 /\ h'.node[x][j1] \in W!Objs => ~W!White(h, j1) /\ ~W!White(h, h'.node[x][j1])
      <4>1. CASE x = t /\ j1 = k
        <5>1. h'.node[x][j1] = v
          BY <1>5, <1>6, <4>1
        <5>2. ~W!White(h, v) /\ (h.node[t][k] \in {W!Absent, W!Dead} => ~W!White(h, k))
          BY <3>1, <3>2, <4>1
        <5>3. h.node[t][k] = W!Empty => ~W!White(h, k)
          BY <1>4, <3>1, <4>1 DEF EmptyMarked
        <5>4. h.node[t][k] \in W!Objs => ~W!White(h, k)
          BY <1>4, <3>1, <4>1 DEF KeysMarked, Entries
        <5>5. h.node[t][k] \in W!Objs \cup {W!Empty, W!Dead, W!Absent}
          BY <1>4 DEF Views, Nodemaps, NodeValues
        <5> HIDE DEF barrier
        <5> QED BY <4>1, <5>1, <5>2, <5>3, <5>4, <5>5
      <4>2. CASE ~(x = t /\ j1 = k)
        <5>1. h'.node[x][j1] = h.node[x][j1]
          BY <1>5, <1>6, <4>2
        <5> QED BY <3>1, <5>1 DEF EmptyMarked, KeysMarked, ValuesMarked, Entries
      <4> QED BY <4>1, <4>2
    <3>5. EmptyMarked(h', h'.node, x) /\ KeysMarked(h', h'.node, x) /\ ValuesMarked(h', h'.node, x)
      BY <1>7, <3>4 DEF EmptyMarked, KeysMarked, ValuesMarked, Entries
    <3> QED BY <3>1, <3>3, <3>5
  <2> QED BY <2>3, <2>4
<1>10. PropagateInv'
  BY <1>1, <1>9 DEF PropagateInv, Visited, EmptyMarked, KeysMarked, ValuesMarked, In, Entries, W!White, W!Objs, W!Empty
<1>11. AtomicInv' /\ NodesInv' /\ StrongInv' /\ SweptInv'
  BY <1>1 DEF AtomicInv, NodesInv, StrongInv, SweptInv, Finalizing
<1>12. ListsInv'
  <2>1. ListsInv
    BY DEF WeakInv
  <2>2. \A x \in Tables : In(h', "gray", x) \/ In(h', "again", x) => ~W!White(h', x)
    <3>1. barrier => ~W!White(h, t)
      BY DEF W!White
    <3> HIDE DEF barrier
    <3> QED BY <1>6, <1>7, <2>1, <3>1 DEF ListsInv, In
  <2>3. h'.next = h.next /\ \A list \in {"next", "ephemeron", "weak", "allweak"} : \A x : In(h', list, x) <=> In(h, list, x)
    BY <1>6 DEF In, Unlisted
  <2>4. \A x \in Tables : In(h', "next", x) \/ In(h', "ephemeron", x) => mode[x] = "k" /\ ~W!White(h', x)
    BY <1>7, <2>1, <2>3 DEF ListsInv
  <2>5. \A x \in Tables : In(h', "weak", x) => mode[x] = "v" /\ ~W!White(h', x)
    BY <1>7, <2>1, <2>3 DEF ListsInv
  <2>6. \A x \in Tables : In(h', "allweak", x) => ~W!White(h', x) /\ mode[x] = "kv"
    BY <1>1, <1>7, <2>1, <2>3 DEF ListsInv
  <2>7. h.next = <<>>
    BY <1>1, <2>1 DEF ListsInv
  <2> QED BY <1>1, <2>2, <2>3, <2>4, <2>5, <2>6, <2>7 DEF ListsInv, In, W!White, W!Objs
<1> QED BY <1>8, <1>10, <1>11, <1>12 DEF WeakInv

\* What marking leaves as it was.
LEMMA LaterFacts ==
  ASSUME NEW H, NEW G, Later(H, G)
  PROVE  /\ \A o : W!White(G, o) => W!White(H, o)
         /\ \A x \in Tables : Visited(G, x) => Visited(H, x)
         /\ \A list \in Unlisted : \A x : In(G, list, x) <=> In(H, list, x)
         /\ \A x \in Tables : In(G, "gray", x) => In(H, "gray", x) \/ (W!White(H, x) /\ ~W!White(G, x))
<1>1. \A o : W!White(G, o) => W!White(H, o)
  BY DEF Later, W!White
<1>2. \A list \in Unlisted : \A x : In(G, list, x) <=> In(H, list, x)
  BY DEF Later, In
<1>3. ASSUME NEW x \in Tables, Visited(G, x)
      PROVE  Visited(H, x)
  <2>1. In(G, "again", x) <=> In(H, "again", x)
    BY <1>2 DEF Unlisted
  <2> QED BY <1>3, <2>1 DEF Visited, Later, Marking
<1>4. \A x \in Tables : In(G, "gray", x) => In(H, "gray", x) \/ (W!White(H, x) /\ ~W!White(G, x))
  BY DEF Later, Marking
<1> QED BY <1>1, <1>2, <1>3, <1>4

\* The beginning of atomic: the running thread and the registry are marked.
LEMMA WeakAtomic == WeakInv /\ W!Atomic => WeakInv'
<1> SUFFICES ASSUME WeakInv, W!Atomic
             PROVE  WeakInv'
  OBVIOUS
<1> DEFINE F == W!Mark(h, held)
           G == W!Mark(F, Registry)
<1>1. /\ stage = "propagate" /\ stage' = "remarked" /\ was' = h.node
      /\ UNCHANGED <<mode, fin, held, moves, changed, orig, strong>>
      /\ h' = G /\ h.gray = <<>>
  BY DEF W!Atomic, W!At, W!GC, W!Go
<1>2. WeakTypes /\ ListsInv /\ h \in Views
  BY DEF WeakInv, WeakTypes
<1>3. F \in Views /\ Later(h, F) /\ ~W!White(F, held) /\ F.node = h.node
  BY <1>2, MarkIt
<1>4. G \in Views /\ Later(F, G) /\ ~W!White(G, Registry) /\ G.node = F.node
  <2> HIDE DEF F
  <2> QED BY <1>3, MarkIt
<1> HIDE DEF F, G
<1>5. h' \in Views /\ Later(h, h') /\ h'.node = h.node /\ ~W!White(h', Registry) /\ ~W!White(h', held)
  <2>1. ~W!White(G, held)
    BY <1>3, <1>4, LaterFacts
  <2> QED BY <1>1, <1>3, <1>4, <2>1, LaterStill
<1>6. /\ \A o : W!White(h', o) => W!White(h, o)
      /\ \A x \in Tables : Visited(h', x) => Visited(h, x)
      /\ \A list \in Unlisted : \A x : In(h', list, x) <=> In(h, list, x)
      /\ \A x \in Tables : In(h', "gray", x) => In(h, "gray", x) \/ (W!White(h, x) /\ ~W!White(h', x))
  BY <1>5, LaterFacts
<1>7. WeakTypes'
  <2>1. mode' \in [Tables -> {"", "k", "v", "kv"}] /\ (fin \subseteq W!Objs \cap NodeKeys)'
    BY <1>1, <1>2 DEF WeakTypes
  <2>2. held' \in W!Objs \cup {W!None} /\ changed' \in BOOLEAN /\ moves' \in Int
    BY <1>1, <1>2 DEF WeakTypes
  <2>3. was' \in Nodemaps /\ ~W!White(h', held')
    BY <1>1, <1>2, <1>5 DEF Views
  <2> QED BY <1>1, <1>5, <2>1, <2>2, <2>3 DEF WeakTypes, Finalizing, W!Objs, W!None, W!White
<1>8. PropagateInv' /\ StrongInv' /\ SweptInv'
  BY <1>1 DEF PropagateInv, StrongInv, SweptInv, Finalizing
<1>9. ASSUME NEW x \in Tables, Visited(h', x)
      PROVE  \/ mode[x] = "" /\ KeysMarked(h', h.node, x) /\ ValuesMarked(h', h.node, x)
             \/ mode[x] = "kv" /\ In(h', "allweak", x)
  <2>1. Visited(h, x)
    BY <1>6, <1>9
  <2>2. \/ mode[x] = "" /\ KeysMarked(h, h.node, x) /\ ValuesMarked(h, h.node, x)
        \/ mode[x] = "kv" /\ In(h, "allweak", x)
    BY <1>1, <2>1 DEF WeakInv, PropagateInv
  <2>3. /\ KeysMarked(h, h.node, x) => KeysMarked(h', h.node, x)
        /\ ValuesMarked(h, h.node, x) => ValuesMarked(h', h.node, x)
    BY <1>6, MarkedStay
  <2> QED BY <1>6, <2>2, <2>3 DEF Unlisted
<1>10. AtomicInv'
  <2>1. \A x \in Tables : Visited(h', x) =>
             \/ mode'[x] = "" /\ KeysMarked(h', was', x) /\ ValuesMarked(h', was', x)
             \/ mode'[x] = "kv" /\ In(h', "allweak", x)
    BY <1>1, <1>9
  <2> QED BY <2>1 DEF AtomicInv, Visited, KeysMarked, ValuesMarked, KeysStay, ValuesStay, Settled, In, Entries,
             W!White, W!Objs, W!IsCleared
<1>11. NodesInv'
  BY <1>1, <1>5 DEF NodesInv, Finalizing
<1>12. ListsInv'
  <2>1. \A x \in Tables : In(h', "gray", x) \/ In(h', "again", x) => ~W!White(h', x)
    BY <1>2, <1>6 DEF ListsInv, Unlisted
  <2>2. \A x \in Tables : In(h', "next", x) \/ In(h', "ephemeron", x) => mode[x] = "k" /\ ~W!White(h', x)
    BY <1>2, <1>6 DEF ListsInv, Unlisted
  <2>3. \A x \in Tables : In(h', "weak", x) => mode[x] = "v" /\ ~W!White(h', x)
    BY <1>2, <1>6 DEF ListsInv, Unlisted
  <2>4. \A x \in Tables : In(h', "allweak", x) => ~W!White(h', x) /\ mode[x] = "kv"
    BY <1>1, <1>2, <1>6 DEF ListsInv, Unlisted
  <2>5. h'.next = <<>>
    BY <1>1, <1>2, <1>5 DEF ListsInv, Later, Unlisted
  <2> QED BY <1>1, <2>1, <2>2, <2>3, <2>4, <2>5 DEF ListsInv, In, W!White, W!Objs
<1> QED BY <1>7, <1>8, <1>10, <1>11, <1>12 DEF WeakInv

\* The tables of a list are in another one now, which was empty.
ListGone(H, G, from, to) ==
  /\ G \in Views /\ G.color = H.color /\ G.node = H.node /\ G[from] = <<>>
  /\ \A x : In(G, to, x) <=> In(H, from, x)
  /\ \A x : ~In(G, from, x) /\ ~In(H, to, x)
  /\ \A list \in Unlisted \cup {"gray"} : list # from /\ list # to => G[list] = H[list]
\* Moving a list is that.
LEMMA ListMoved ==
  ASSUME NEW H \in Views, NEW from \in Unlisted, NEW to \in Unlisted \cup {"gray"}, from # to, H[to] = <<>>,
         NEW G, G = [H EXCEPT ![to] = H[from], ![from] = <<>>]
  PROVE  ListGone(H, G, from, to)
<1> DEFINE s == H[from]
<1>1. s \in Seq(Tables) /\ <<>> \in Seq(Tables) /\ G = [H EXCEPT ![to] = s, ![from] = <<>>]
  BY DEF Views, TableSeqs, Unlisted
<1>2. G.color = H.color /\ G.node = H.node /\ G[from] = <<>> /\ G[to] = s
  <2> HIDE DEF s
  <2> QED BY <1>1 DEF Views, Unlisted
<1>3. \A list \in Unlisted \cup {"gray"} : list # from /\ list # to => G[list] = H[list]
  <2> HIDE DEF s
  <2> QED BY <1>1 DEF Views, Unlisted
<1>4. G \in Views
  <2> HIDE DEF s
  <2> QED BY <1>1 DEF Views, Unlisted, TableSeqs
<1>5. \A x : In(G, to, x) <=> In(H, from, x)
  BY <1>2 DEF In
<1>6. \A x : ~In(G, from, x) /\ ~In(H, to, x)
  BY <1>2, EmptyRange DEF In
<1> QED BY <1>2, <1>3, <1>4, <1>5, <1>6 DEF ListGone

\* The tables of 'again' are gray again.
LEMMA WeakGrayAgain == WeakInv /\ W!GrayAgain => WeakInv'
<1> SUFFICES ASSUME WeakInv, W!GrayAgain
             PROVE  WeakInv'
  OBVIOUS
<1>1. /\ stage = "remarked" /\ stage' = "converge" /\ changed' = TRUE
      /\ UNCHANGED <<mode, fin, held, moves, orig, was, strong>>
      /\ h' = [h EXCEPT !["gray"] = h["again"], !["again"] = <<>>] /\ h["gray"] = <<>>
  BY DEF W!GrayAgain, W!At, W!GC, W!Go
<1>2. WeakTypes /\ ListsInv /\ h \in Views
  BY DEF WeakInv, WeakTypes
<1>3. /\ h' \in Views /\ h'.color = h.color /\ h'.node = h.node /\ h'.again = <<>>
      /\ \A x : In(h', "gray", x) <=> In(h, "again", x)
      /\ \A x : ~In(h', "again", x) /\ ~In(h, "gray", x)
      /\ \A list \in Unlisted : list # "again" => h'[list] = h[list]
  <2> DEFINE G == h'
  <2>1. "again" \in Unlisted /\ "gray" \in Unlisted \cup {"gray"} /\ "again" # "gray"
    BY DEF Unlisted
  <2>2. h["gray"] = <<>> /\ h \in Views /\ G = [h EXCEPT !["gray"] = h["again"], !["again"] = <<>>]
    BY <1>1, <1>2
  <2> HIDE DEF G
  <2>3. ListGone(h, G, "again", "gray")
    BY <2>1, <2>2, ListMoved
  <2> QED BY <2>3 DEF ListGone, Unlisted, G
<1>4. /\ \A o : W!White(h', o) <=> W!White(h, o)
      /\ \A x : Visited(h', x) => Visited(h, x)
      /\ \A list \in Unlisted : \A x : list # "again" => (In(h', list, x) <=> In(h, list, x))
  BY <1>3 DEF W!White, Visited, In
<1>5. WeakTypes'
  <2>1. mode' \in [Tables -> {"", "k", "v", "kv"}] /\ (fin \subseteq W!Objs \cap NodeKeys)' /\ moves' \in Int
    BY <1>1, <1>2 DEF WeakTypes
  <2>2. held' \in W!Objs \cup {W!None} /\ changed' \in BOOLEAN /\ was' \in Nodemaps
    BY <1>1, <1>2 DEF WeakTypes
  <2>3. ~W!White(h', held') /\ ~W!White(h', Registry)
    BY <1>1, <1>2, <1>4 DEF WeakTypes
  <2> QED BY <1>1, <1>3, <2>1, <2>2, <2>3 DEF WeakTypes, Finalizing, W!Objs, W!None, W!White
<1>6. PropagateInv' /\ StrongInv' /\ SweptInv'
  BY <1>1 DEF PropagateInv, StrongInv, SweptInv, Finalizing
<1>7. ASSUME NEW x \in Tables, Visited(h', x)
      PROVE  \/ mode[x] = "" /\ KeysMarked(h', was, x) /\ ValuesMarked(h', was, x)
             \/ mode[x] = "v" /\ KeysMarked(h', was, x) /\ (In(h', "weak", x) \/ ValuesStay(h', was, x))
             \/ mode[x] = "kv" /\ In(h', "allweak", x)
             \/ /\ mode[x] = "k"
                /\ \/ In(h', "allweak", x)
                   \/ KeysStay(h', was, x) /\ ValuesMarked(h', was, x)
                   \/ In(h', "next", x)
                   \/ In(h', "ephemeron", x)
  <2>1. Visited(h, x)
    BY <1>4, <1>7
  <2>2. /\ In(h', "weak", x) <=> In(h, "weak", x)
        /\ In(h', "allweak", x) <=> In(h, "allweak", x)
        /\ In(h', "next", x) <=> In(h, "next", x)
        /\ In(h', "ephemeron", x) <=> In(h, "ephemeron", x)
    BY <1>4 DEF Unlisted
  <2>3. /\ KeysMarked(h, was, x) => KeysMarked(h', was, x)
        /\ ValuesMarked(h, was, x) => ValuesMarked(h', was, x)
        /\ KeysStay(h, was, x) => KeysStay(h', was, x)
        /\ ValuesStay(h, was, x) => ValuesStay(h', was, x)
    BY <1>4, MarkedStay
  <2> QED BY <1>1, <2>1, <2>2, <2>3 DEF WeakInv, AtomicInv
<1>8. AtomicInv'
  <2>1. mode' = mode /\ was' = was /\ changed'
    BY <1>1
  <2> QED BY <1>7, <2>1 DEF AtomicInv, Visited, KeysMarked, ValuesMarked, KeysStay, ValuesStay, Settled, In, Entries,
             W!White, W!Objs, W!IsCleared
<1>9. NodesInv'
  BY <1>1, <1>3 DEF WeakInv, NodesInv, Finalizing, W!Objs
<1>10. ListsInv'
  <2>1. \A x \in Tables : In(h', "gray", x) \/ In(h', "again", x) => ~W!White(h', x)
    BY <1>2, <1>3, <1>4 DEF ListsInv
  <2>2. \A x \in Tables : In(h', "next", x) \/ In(h', "ephemeron", x) => mode[x] = "k" /\ ~W!White(h', x)
    BY <1>2, <1>4 DEF ListsInv, Unlisted
  <2>3. \A x \in Tables : In(h', "weak", x) => mode[x] = "v" /\ ~W!White(h', x)
    BY <1>2, <1>4 DEF ListsInv, Unlisted
  <2>4. \A x \in Tables : In(h', "allweak", x) => ~W!White(h', x) /\ (mode[x] = "kv" \/ (mode[x] = "k" /\ ValuesMarked(h', was, x)))
    <3>1. \A x : ValuesMarked(h, was, x) => ValuesMarked(h', was, x)
      BY <1>4, MarkedStay
    <3> QED BY <1>2, <1>4, <3>1 DEF ListsInv, Unlisted
  <2>5. mode' = mode /\ was' = was /\ stage' = "converge" /\ changed' = TRUE /\ h'.again = <<>>
    BY <1>1, <1>3
  <2> QED BY <2>1, <2>2, <2>3, <2>4, <2>5 DEF ListsInv, In, ValuesMarked, Entries, W!White, W!Objs
<1> QED BY <1>5, <1>6, <1>8, <1>9, <1>10 DEF WeakInv

\* A round of convergeephemerons.
LEMMA WeakRound == WeakInv /\ W!Round => WeakInv'
<1> SUFFICES ASSUME WeakInv, W!Round
             PROVE  WeakInv'
  OBVIOUS
<1>1. /\ stage \in {"converge", "converge2"} /\ h.gray = <<>> /\ changed /\ changed' = FALSE
      /\ UNCHANGED <<mode, fin, held, moves, stage, orig, was, strong>>
      /\ h' = [h EXCEPT !["next"] = h["ephemeron"], !["ephemeron"] = <<>>] /\ h["next"] = <<>>
  BY DEF W!Round, W!Converging, W!GC
<1>2. WeakTypes /\ ListsInv /\ h \in Views
  BY DEF WeakInv, WeakTypes
<1>3. /\ h' \in Views /\ h'.color = h.color /\ h'.node = h.node /\ h'.gray = <<>>
      /\ \A x : In(h', "next", x) <=> In(h, "ephemeron", x)
      /\ \A x : ~In(h', "ephemeron", x) /\ ~In(h, "next", x)
      /\ \A list \in {"again", "weak", "allweak"} : h'[list] = h[list]
  <2> DEFINE G == h'
  <2>1. "ephemeron" \in Unlisted /\ "next" \in Unlisted \cup {"gray"} /\ "ephemeron" # "next"
    BY DEF Unlisted
  <2>2. h["next"] = <<>> /\ h \in Views /\ G = [h EXCEPT !["next"] = h["ephemeron"], !["ephemeron"] = <<>>]
    BY <1>1, <1>2
  <2> HIDE DEF G
  <2>3. ListGone(h, G, "ephemeron", "next")
    BY <2>1, <2>2, ListMoved
  <2> QED BY <1>1, <2>3 DEF ListGone, Unlisted, G
<1>4. /\ \A o : W!White(h', o) <=> W!White(h, o)
      /\ \A x : Visited(h', x) <=> Visited(h, x)
      /\ \A list \in {"again", "weak", "allweak"} : \A x : In(h', list, x) <=> In(h, list, x)
      /\ \A x : ~In(h', "gray", x)
  BY <1>1, <1>3, EmptyRange DEF W!White, Visited, In
<1>5. WeakTypes'
  <2>1. mode' \in [Tables -> {"", "k", "v", "kv"}] /\ (fin \subseteq W!Objs \cap NodeKeys)' /\ moves' \in Int
    BY <1>1, <1>2 DEF WeakTypes
  <2>2. held' \in W!Objs \cup {W!None} /\ changed' \in BOOLEAN /\ was' \in Nodemaps
    BY <1>1, <1>2 DEF WeakTypes
  <2>3. ~W!White(h', held') /\ ~W!White(h', Registry)
    BY <1>1, <1>2, <1>4 DEF WeakTypes
  <2>4. stage' = stage /\ strong' = strong /\ orig' = orig
    BY <1>1
  <2>5. Finalizing => strong \subseteq W!Objs /\ orig \in [weak : TableSeqs, allweak : TableSeqs]
    BY <1>2 DEF WeakTypes
  <2> QED BY <1>1, <1>3, <2>1, <2>2, <2>3, <2>4, <2>5 DEF WeakTypes, Finalizing, W!Objs, W!None, W!White
<1>6. PropagateInv' /\ SweptInv'
  BY <1>1 DEF PropagateInv, SweptInv
<1>7. ASSUME NEW x \in Tables, Visited(h', x)
      PROVE  \/ mode[x] = "" /\ KeysMarked(h', was, x) /\ ValuesMarked(h', was, x)
             \/ mode[x] = "v" /\ KeysMarked(h', was, x) /\ (In(h', "weak", x) \/ ValuesStay(h', was, x))
             \/ mode[x] = "kv" /\ In(h', "allweak", x)
             \/ /\ mode[x] = "k"
                /\ \/ In(h', "allweak", x)
                   \/ KeysStay(h', was, x) /\ ValuesMarked(h', was, x)
                   \/ In(h', "next", x)
  <2>1. Visited(h, x)
    BY <1>4, <1>7
  <2>2. /\ In(h', "weak", x) <=> In(h, "weak", x)
        /\ In(h', "allweak", x) <=> In(h, "allweak", x)
        /\ In(h', "next", x) <=> In(h, "ephemeron", x)
        /\ ~In(h, "next", x)
    BY <1>3, <1>4
  <2>3. /\ KeysMarked(h, was, x) => KeysMarked(h', was, x)
        /\ ValuesMarked(h, was, x) => ValuesMarked(h', was, x)
        /\ KeysStay(h, was, x) => KeysStay(h', was, x)
        /\ ValuesStay(h, was, x) => ValuesStay(h', was, x)
    BY <1>4, MarkedStay
  <2> QED BY <1>1, <2>1, <2>2, <2>3 DEF WeakInv, AtomicInv
<1>8. AtomicInv'
  <2>1. mode' = mode /\ was' = was
    BY <1>1
  <2> QED BY <1>7, <2>1 DEF AtomicInv, Visited, KeysMarked, ValuesMarked, KeysStay, ValuesStay, Settled, In, Entries,
             W!White, W!Objs, W!IsCleared
<1>9. NodesInv'
  BY <1>1, <1>3 DEF WeakInv, NodesInv, Finalizing, W!Objs, W!Weak
<1>10. ListsInv'
  <2>1. \A x \in Tables : In(h', "gray", x) \/ In(h', "again", x) => ~W!White(h', x)
    BY <1>2, <1>4 DEF ListsInv
  <2>2. \A x \in Tables : In(h', "next", x) \/ In(h', "ephemeron", x) => mode[x] = "k" /\ ~W!White(h', x)
    BY <1>2, <1>3, <1>4 DEF ListsInv
  <2>3. \A x \in Tables : In(h', "weak", x) => mode[x] = "v" /\ ~W!White(h', x)
    BY <1>2, <1>4 DEF ListsInv
  <2>4. \A x \in Tables : In(h', "allweak", x) => ~W!White(h', x) /\ (mode[x] = "kv" \/ (mode[x] = "k" /\ ValuesMarked(h', was, x)))
    <3>1. \A x : ValuesMarked(h, was, x) => ValuesMarked(h', was, x)
      BY <1>4, MarkedStay
    <3> QED BY <1>2, <1>4, <3>1 DEF ListsInv
  <2>5. mode' = mode /\ was' = was /\ stage' = stage /\ h'.gray = <<>> /\ h'.again = <<>>
    BY <1>1, <1>2, <1>3 DEF ListsInv
  <2> QED BY <1>1, <2>1, <2>2, <2>3, <2>4, <2>5 DEF ListsInv, In, ValuesMarked, Entries, W!White, W!Objs
<1>11. StrongInv'
  <2>1. StrongInv
    BY DEF WeakInv
  <2>2. h'.weak = h.weak /\ h'.allweak = h.allweak
    BY <1>3
  <2>3. Finalizing =>
         /\ \A o \in strong : ~W!White(h', o) /\ ~In(h', "gray", o)
         /\ \A list \in {"weak", "allweak"} :
              /\ Range(orig[list]) \subseteq strong
              /\ \E front \in TableSeqs : h'[list] = front \o orig[list]
    BY <1>4, <2>1, <2>2 DEF StrongInv
  <2>4. Finalizing => W!Roots' \subseteq strong /\ W!Leads(strong)' \subseteq strong
    BY <1>1, <2>1 DEF StrongInv, W!Roots, W!Leads, W!Weak, W!Objs, W!Index
  <2>5. stage = "converge2" => \A o \in fin : ~W!White(h', o)
    BY <1>4, <2>1 DEF StrongInv
  <2> QED BY <1>1, <2>3, <2>4, <2>5 DEF StrongInv, Finalizing, In, W!White, W!Objs
<1> QED BY <1>5, <1>6, <1>8, <1>9, <1>10, <1>11 DEF WeakInv

\* Every object that has a finalizer is marked.
LEMMA FinalizedRight ==
  ASSUME NEW H \in Views, fin \subseteq NodeKeys
  PROVE  LET G == W!markbeingfnz(H) IN G \in Views /\ Later(H, G) /\ \A o \in fin : ~W!White(G, o)
<1> DEFINE N == Len(KeySeq)
           Good(G, n) == Later(H, G) /\ \A m \in 1 .. n : KeySeq[m] \in fin => ~W!White(G, KeySeq[m])
           T == [n \in 0 .. N |-> {G \in Views : Good(G, n)}]
<1>1. H \in T[0]
  <2>1. Good(H, 0)
    BY LaterSame
  <2> HIDE DEF Good
  <2> QED BY <2>1, DistinctThings
<1>2. ASSUME NEW n \in 1 .. N, NEW G \in T[n - 1]
      PROVE  W!Finalized(G, KeySeq[n]) \in T[n]
  <2> DEFINE o == KeySeq[n]
             F == W!Finalized(G, o)
  <2>1. n - 1 \in 0 .. N /\ n \in 0 .. N
    BY DistinctThings
  <2>2. G \in Views /\ Good(G, n - 1)
    <3> HIDE DEF Good
    <3> QED BY <2>1
  <2>3. F \in Views /\ Later(G, F) /\ (o \in fin => ~W!White(F, o))
    <3>1. CASE o \in fin
      <4>1. F = W!Mark(G, o)
        BY <3>1 DEF W!Finalized
      <4> HIDE DEF F, o
      <4> QED BY <2>2, <4>1, MarkIt
    <3>2. CASE o \notin fin
      <4>1. F = G
        BY <3>2 DEF W!Finalized
      <4> QED BY <2>2, <3>2, <4>1, LaterSame
    <3> QED BY <3>1, <3>2
  <2> HIDE DEF F
  <2>4. Later(H, F)
    BY <2>2, <2>3, LaterStill
  <2>5. ASSUME NEW m \in 1 .. n, KeySeq[m] \in fin
        PROVE  ~W!White(F, KeySeq[m])
    <3>1. CASE m = n
      BY <2>3, <2>5, <3>1
    <3>2. CASE m # n
      <4>1. m \in 1 .. n - 1
        BY <3>2
      <4>2. ~W!White(G, KeySeq[m])
        BY <2>2, <2>5, <4>1
      <4> QED BY <2>3, <4>2, LaterFacts
    <3> QED BY <3>1, <3>2
  <2>6. Good(F, n)
    BY <2>4, <2>5
  <2>7. F \in T[n]
    <3> HIDE DEF Good
    <3> QED BY <2>1, <2>3, <2>6
  <2> QED BY <2>7 DEF F
<1> HIDE DEF T
<1>3. W!markbeingfnz(H) \in T[N]
  BY <1>1, <1>2, VisitFinalized
<1> DEFINE G == W!markbeingfnz(H)
<1> HIDE DEF G
<1>4. G \in Views /\ Good(G, N)
  <2> HIDE DEF Good
  <2> QED BY <1>3, DistinctThings DEF T, G
<1>5. \A o \in fin : ~W!White(G, o)
  BY <1>4, DistinctThings
<1> QED BY <1>4, <1>5 DEF G

\* What has a finalizer is marked (markbeingfnz).
LEMMA WeakMarkBeingFnz == WeakInv /\ W!MarkBeingFnz => WeakInv'
<1> SUFFICES ASSUME WeakInv, W!MarkBeingFnz
             PROVE  WeakInv'
  OBVIOUS
<1>1. /\ stage = "finalizers" /\ stage' = "converge2" /\ changed' = TRUE /\ h.gray = <<>>
      /\ UNCHANGED <<mode, fin, held, moves, orig, was, strong>>
      /\ h' = W!markbeingfnz(h)
  BY DEF W!MarkBeingFnz, W!At, W!GC, W!Go
<1>2. WeakTypes /\ ListsInv /\ StrongInv /\ h \in Views /\ Finalizing
  BY <1>1 DEF WeakInv, WeakTypes, Finalizing
<1>3. h' \in Views /\ Later(h, h') /\ \A o \in fin : ~W!White(h', o)
  <2>1. fin \subseteq NodeKeys
    BY <1>2 DEF WeakTypes
  <2> QED BY <1>1, <1>2, <2>1, FinalizedRight
<1>4. /\ \A o : W!White(h', o) => W!White(h, o)
      /\ \A x \in Tables : Visited(h', x) => Visited(h, x)
      /\ \A list \in Unlisted : \A x : In(h', list, x) <=> In(h, list, x)
      /\ \A x \in Tables : In(h', "gray", x) => In(h, "gray", x) \/ (W!White(h, x) /\ ~W!White(h', x))
  BY <1>3, LaterFacts
<1>5. WeakTypes'
  <2>1. mode' \in [Tables -> {"", "k", "v", "kv"}] /\ (fin \subseteq W!Objs \cap NodeKeys)' /\ moves' \in Int
    BY <1>1, <1>2 DEF WeakTypes
  <2>2. held' \in W!Objs \cup {W!None} /\ changed' \in BOOLEAN /\ was' \in Nodemaps
    BY <1>1, <1>2 DEF WeakTypes
  <2>3. ~W!White(h', held') /\ ~W!White(h', Registry)
    BY <1>1, <1>2, <1>4 DEF WeakTypes
  <2>4. stage' = "converge2" /\ strong' = strong /\ orig' = orig
    BY <1>1
  <2>5. strong \subseteq W!Objs /\ orig \in [weak : TableSeqs, allweak : TableSeqs]
    BY <1>2 DEF WeakTypes
  <2> QED BY <1>3, <2>1, <2>2, <2>3, <2>4, <2>5 DEF WeakTypes, Finalizing, W!Objs, W!None, W!White
<1>6. PropagateInv' /\ SweptInv'
  BY <1>1 DEF PropagateInv, SweptInv
<1>7. ASSUME NEW x \in Tables, Visited(h', x)
      PROVE  \/ mode[x] = "" /\ KeysMarked(h', was, x) /\ ValuesMarked(h', was, x)
             \/ mode[x] = "v" /\ KeysMarked(h', was, x) /\ (In(h', "weak", x) \/ ValuesStay(h', was, x))
             \/ mode[x] = "kv" /\ In(h', "allweak", x)
             \/ /\ mode[x] = "k"
                /\ \/ In(h', "allweak", x)
                   \/ KeysStay(h', was, x) /\ ValuesMarked(h', was, x)
                   \/ In(h', "next", x)
                   \/ In(h', "ephemeron", x)
  <2>1. Visited(h, x)
    BY <1>4, <1>7
  <2>2. /\ In(h', "weak", x) <=> In(h, "weak", x)
        /\ In(h', "allweak", x) <=> In(h, "allweak", x)
        /\ In(h', "next", x) <=> In(h, "next", x)
        /\ In(h', "ephemeron", x) <=> In(h, "ephemeron", x)
    BY <1>4 DEF Unlisted
  <2>3. /\ KeysMarked(h, was, x) => KeysMarked(h', was, x)
        /\ ValuesMarked(h, was, x) => ValuesMarked(h', was, x)
        /\ KeysStay(h, was, x) => KeysStay(h', was, x)
        /\ ValuesStay(h, was, x) => ValuesStay(h', was, x)
    BY <1>4, MarkedStay
  <2> QED BY <1>1, <2>1, <2>2, <2>3 DEF WeakInv, AtomicInv
<1>8. AtomicInv'
  <2>1. mode' = mode /\ was' = was /\ changed'
    BY <1>1
  <2> QED BY <1>7, <2>1 DEF AtomicInv, Visited, KeysMarked, ValuesMarked, KeysStay, ValuesStay, Settled, In, Entries,
             W!White, W!Objs, W!IsCleared
<1>9. NodesInv'
  <2>1. ASSUME NEW x \in Tables, NEW k \in NodeKeys, was[x][k] \in W!Objs
        PROVE  IF x \in strong /\ W!Weak(x, "v") /\ was[x][k] \notin Strings \cup strong
               THEN h'.node[x][k] \notin W!Objs ELSE h'.node[x][k] = was[x][k]
    <3>1. IF x \in strong /\ W!Weak(x, "v") /\ was[x][k] \notin Strings \cup strong
          THEN h.node[x][k] \notin W!Objs ELSE h.node[x][k] = was[x][k]
      BY <1>1, <1>2, <2>1 DEF WeakInv, NodesInv
    <3>2. /\ h'.node[x][k] \in W!Objs <=> h.node[x][k] \in W!Objs
          /\ h'.node[x][k] \in W!Objs => h'.node[x][k] = h.node[x][k]
      BY <1>3, EntryStays
    <3> QED BY <2>1, <3>1, <3>2
  <2> QED BY <1>1, <2>1 DEF NodesInv, Finalizing, W!Objs, W!Weak
<1>10. ListsInv'
  <2>1. \A x \in Tables : In(h', "gray", x) \/ In(h', "again", x) => ~W!White(h', x)
    BY <1>2, <1>4 DEF ListsInv, Unlisted
  <2>2. \A x \in Tables : In(h', "next", x) \/ In(h', "ephemeron", x) => mode[x] = "k" /\ ~W!White(h', x)
    BY <1>2, <1>4 DEF ListsInv, Unlisted
  <2>3. \A x \in Tables : In(h', "weak", x) => mode[x] = "v" /\ ~W!White(h', x)
    BY <1>2, <1>4 DEF ListsInv, Unlisted
  <2>4. \A x \in Tables : In(h', "allweak", x) => ~W!White(h', x) /\ (mode[x] = "kv" \/ (mode[x] = "k" /\ ValuesMarked(h', was, x)))
    <3>1. \A x : ValuesMarked(h, was, x) => ValuesMarked(h', was, x)
      BY <1>4, MarkedStay
    <3> QED BY <1>2, <1>4, <3>1 DEF ListsInv, Unlisted
  <2>5. h'.again = <<>>
    BY <1>1, <1>2, <1>3 DEF ListsInv, Later, Unlisted
  <2>6. mode' = mode /\ was' = was /\ stage' = "converge2" /\ changed' = TRUE
    BY <1>1
  <2> QED BY <2>1, <2>2, <2>3, <2>4, <2>5, <2>6 DEF ListsInv, In, ValuesMarked, Entries, W!White, W!Objs
<1>11. StrongInv'
  <2>2. h'.weak = h.weak /\ h'.allweak = h.allweak
    BY <1>3 DEF Later, Unlisted
  <2>3. ASSUME NEW o \in strong
        PROVE  ~W!White(h', o) /\ ~In(h', "gray", o)
    <3>1. ~W!White(h, o) /\ ~In(h, "gray", o)
      BY <1>2 DEF StrongInv
    <3>2. In(h', "gray", o) => o \in Tables
      <4>1. h'.gray \in Seq(Tables)
        BY <1>3 DEF Views, TableSeqs
      <4> QED BY <4>1 DEF In, Range
    <3> QED BY <1>4, <3>1, <3>2
  <2>4. \A list \in {"weak", "allweak"} :
              /\ Range(orig[list]) \subseteq strong
              /\ \E front \in TableSeqs : h'[list] = front \o orig[list]
    BY <1>2, <2>2 DEF StrongInv
  <2>5. W!Roots' \subseteq strong /\ W!Leads(strong)' \subseteq strong
    BY <1>1, <1>2 DEF StrongInv, W!Roots, W!Leads, W!Weak, W!Objs, W!Index
  <2> QED BY <1>1, <1>3, <2>3, <2>4, <2>5 DEF StrongInv, Finalizing, In, W!White, W!Objs
<1> QED BY <1>5, <1>6, <1>8, <1>9, <1>10, <1>11 DEF WeakInv

\* What is to be freed for an entry to be cleared: its key, or its value.
Subject(H, kind, t, k) == IF kind = "key" THEN k ELSE H.node[t][k]
\* G comes from H by clearing the nodes K of the tables of A.
Cleared(H, G, kind, A, K) ==
  /\ G \in Views /\ SameTables(H, G) /\ G.gray = H.gray
  /\ \A o \in W!Objs : W!White(G, o) => W!White(H, o)
  /\ \A list \in Unlisted : G[list] = H[list]
  /\ \A t \in Tables, k \in NodeKeys :
       /\ W!HasValue(G, t, k) => G.node[t][k] = H.node[t][k]
       /\ W!HasValue(G, t, k) <=> /\ W!HasValue(H, t, k)
                                  /\ t \in A /\ k \in K => ~W!IsCleared(H, Subject(H, kind, t, k))

\* The objects that are to be freed are the same all the time.
LEMMA SameCleared ==
  ASSUME NEW H, NEW G, SameTables(H, G)
  PROVE  \A o : W!IsCleared(G, o) <=> W!IsCleared(H, o)
BY DistinctThings DEF SameTables, W!IsCleared, W!White

\* Where nothing is to be cleared, nothing is cleared.
LEMMA ClearedNothing ==
  ASSUME NEW H \in Views, NEW kind, NEW A, NEW K,
         \A t \in Tables, k \in NodeKeys : t \in A /\ k \in K /\ W!HasValue(H, t, k) => ~W!IsCleared(H, Subject(H, kind, t, k))
  PROVE  Cleared(H, H, kind, A, K)
BY DEF Cleared, SameTables

\* Clearing some nodes and then others is clearing them all.
LEMMA ClearedStill ==
  ASSUME NEW F, NEW G, NEW H, NEW kind, NEW A, NEW K, NEW B, NEW L, NEW C, NEW M,
         Cleared(H, G, kind, A, K), Cleared(G, F, kind, B, L),
         \A t \in Tables, k \in NodeKeys : (t \in C /\ k \in M) <=> ((t \in A /\ k \in K) \/ (t \in B /\ k \in L))
  PROVE  Cleared(H, F, kind, C, M)
<1>1. SameTables(H, F) /\ F \in Views /\ F.gray = H.gray
  BY DEF Cleared, SameTables
<1>2. \A o \in W!Objs : W!White(F, o) => W!White(H, o)
  BY DEF Cleared
<1>3. \A list \in Unlisted : F[list] = H[list]
  BY DEF Cleared
<1>4. \A o : W!IsCleared(G, o) <=> W!IsCleared(H, o)
  BY SameCleared DEF Cleared
<1>5. ASSUME NEW t \in Tables, NEW k \in NodeKeys
      PROVE  /\ W!HasValue(F, t, k) => F.node[t][k] = H.node[t][k]
             /\ W!HasValue(F, t, k) <=> /\ W!HasValue(H, t, k)
                                        /\ t \in C /\ k \in M => ~W!IsCleared(H, Subject(H, kind, t, k))
  <2>1. /\ W!HasValue(G, t, k) => G.node[t][k] = H.node[t][k]
        /\ W!HasValue(G, t, k) <=> /\ W!HasValue(H, t, k)
                                   /\ t \in A /\ k \in K => ~W!IsCleared(H, Subject(H, kind, t, k))
    BY DEF Cleared
  <2>2. /\ W!HasValue(F, t, k) => F.node[t][k] = G.node[t][k]
        /\ W!HasValue(F, t, k) <=> /\ W!HasValue(G, t, k)
                                   /\ t \in B /\ k \in L => ~W!IsCleared(G, Subject(G, kind, t, k))
    BY DEF Cleared
  <2>3. W!HasValue(G, t, k) => Subject(G, kind, t, k) = Subject(H, kind, t, k)
    BY <2>1 DEF Subject
  <2> QED BY <1>4, <2>1, <2>2, <2>3
<1> QED BY <1>1, <1>2, <1>3, <1>5 DEF Cleared

\* A string that an entry refers to is marked, and nothing else changes.
LEMMA ClearedStay ==
  ASSUME NEW H \in Views, NEW o, NEW kind, NEW t \in Tables, NEW k \in NodeKeys,
         W!HasValue(H, t, k) => ~W!IsCleared(H, Subject(H, kind, t, k))
  PROVE  Cleared(H, W!Stay(H, o), kind, {t}, {k})
<1> DEFINE G == W!Stay(H, o)
<1>1. G \in Views /\ Later(H, G) /\ G.gray = H.gray /\ SameTables(H, G) /\ G.node = H.node
  BY StayIt
<1> HIDE DEF G
<1>2. /\ \A x \in W!Objs : W!White(G, x) => W!White(H, x)
      /\ \A list \in Unlisted : G[list] = H[list]
  BY <1>1 DEF Later
<1>3. Cleared(H, G, kind, {t}, {k})
  BY <1>1, <1>2 DEF Cleared, W!HasValue
<1> QED BY <1>3 DEF G

\* A node whose key is freed (clearkeys).
LEMMA ClearedKey ==
  ASSUME NEW H \in Views, NEW t \in Tables, NEW k \in NodeKeys
  PROVE  Cleared(H, W!ClearKey(H, t, k), "key", {t}, {k})
<1> DEFINE G == W!ClearKey(H, t, k)
<1>1. CASE ~W!HasValue(H, t, k)
  <2>1. G = H
    BY <1>1 DEF W!ClearKey
  <2> QED BY <1>1, <2>1, ClearedNothing
<1>2. CASE W!HasValue(H, t, k) /\ W!IsCleared(H, k)
  <2> DEFINE v == W!Dead
  <2>1. G = [H EXCEPT !.node[t][k] = v]
    BY <1>2 DEF W!ClearKey
  <2>2. v \in NodeValues /\ v \notin W!Objs
    BY DistinctThings DEF NodeValues
  <2> HIDE DEF v
  <2>3. /\ G \in Views /\ G.color = H.color /\ G.gray = H.gray /\ \A list \in Unlisted : G[list] = H[list]
        /\ G.node[t][k] = v
        /\ \A x \in Tables, j1 \in NodeKeys : x # t \/ j1 # k => G.node[x][j1] = H.node[x][j1]
    BY <2>1, <2>2, NodePut
  <2> HIDE DEF G
  <2>4. SameTables(H, G) /\ \A o : W!White(G, o) <=> W!White(H, o)
    BY <2>3 DEF SameTables, W!White
  <2>5. ASSUME NEW x \in Tables, NEW j1 \in NodeKeys
        PROVE  /\ W!HasValue(G, x, j1) => G.node[x][j1] = H.node[x][j1]
               /\ W!HasValue(G, x, j1) <=> /\ W!HasValue(H, x, j1)
                                           /\ x \in {t} /\ j1 \in {k} => ~W!IsCleared(H, Subject(H, "key", x, j1))
    <3>1. CASE x = t /\ j1 = k
      BY <1>2, <2>2, <2>3, <3>1 DEF W!HasValue, Subject
    <3>2. CASE ~(x = t /\ j1 = k)
      <4>1. G.node[x][j1] = H.node[x][j1]
        BY <2>3, <3>2
      <4> QED BY <3>2, <4>1 DEF W!HasValue
    <3> QED BY <3>1, <3>2
  <2>6. Cleared(H, G, "key", {t}, {k})
    BY <2>3, <2>4, <2>5 DEF Cleared
  <2> QED BY <2>6 DEF G
<1>3. CASE W!HasValue(H, t, k) /\ ~W!IsCleared(H, k)
  <2>1. G = W!Stay(H, k)
    BY <1>3 DEF W!ClearKey
  <2>2. Subject(H, "key", t, k) = k
    BY DEF Subject
  <2> QED BY <1>3, <2>1, <2>2, ClearedStay
<1> QED BY <1>1, <1>2, <1>3

\* A node whose value is freed (clearvalues).
LEMMA ClearedValue ==
  ASSUME NEW H \in Views, NEW t \in Tables, NEW k \in NodeKeys
  PROVE  Cleared(H, W!ClearValue(H, t, k), "value", {t}, {k})
<1> DEFINE G == W!ClearValue(H, t, k)
<1>0. Subject(H, "value", t, k) = H.node[t][k]
  BY DEF Subject
<1>1. CASE ~W!HasValue(H, t, k)
  <2>1. G = H
    BY <1>1 DEF W!ClearValue
  <2> QED BY <1>1, <2>1, ClearedNothing
<1>2. CASE W!HasValue(H, t, k) /\ W!IsCleared(H, H.node[t][k])
  <2> DEFINE v == W!Empty
             F == [H EXCEPT !.node[t][k] = v]
  <2>1. G = W!RemoveEntry(F, t, k)
    BY <1>2 DEF W!ClearValue
  <2>2. v \in NodeValues /\ v \notin W!Objs
    BY DistinctThings DEF NodeValues
  <2> HIDE DEF v
  <2>3. /\ F \in Views /\ F.color = H.color /\ F.gray = H.gray /\ \A list \in Unlisted : F[list] = H[list]
        /\ F.node[t][k] = v
        /\ \A x \in Tables, j1 \in NodeKeys : x # t \/ j1 # k => F.node[x][j1] = H.node[x][j1]
    BY <2>2, NodePut
  <2> HIDE DEF F, G
  <2>4. G \in Views /\ Later(F, G) /\ SameTables(F, G) /\ G.gray = F.gray
    BY <2>1, <2>2, <2>3, RemoveIt DEF W!HasValue
  <2>5. /\ SameTables(H, G) /\ G.gray = H.gray
        /\ \A o \in W!Objs : W!White(G, o) => W!White(H, o)
        /\ \A list \in Unlisted : G[list] = H[list]
    BY <2>3, <2>4 DEF SameTables, W!White, Later
  <2>6. ASSUME NEW x \in Tables, NEW j1 \in NodeKeys
        PROVE  /\ W!HasValue(G, x, j1) => G.node[x][j1] = H.node[x][j1]
               /\ W!HasValue(G, x, j1) <=> /\ W!HasValue(H, x, j1)
                                           /\ x \in {t} /\ j1 \in {k} => ~W!IsCleared(H, Subject(H, "value", x, j1))
    <3>0. /\ G.node[x][j1] \in W!Objs <=> F.node[x][j1] \in W!Objs
          /\ G.node[x][j1] \in W!Objs => G.node[x][j1] = F.node[x][j1]
      BY <2>4, EntryStays
    <3>1. CASE x = t /\ j1 = k
      BY <1>0, <1>2, <2>2, <2>3, <3>0, <3>1 DEF W!HasValue
    <3>2. CASE ~(x = t /\ j1 = k)
      <4>1. F.node[x][j1] = H.node[x][j1]
        BY <2>3, <3>2
      <4> QED BY <3>0, <3>2, <4>1 DEF W!HasValue
    <3> QED BY <3>1, <3>2
  <2>7. Cleared(H, G, "value", {t}, {k})
    BY <2>4, <2>5, <2>6 DEF Cleared
  <2> QED BY <2>7 DEF G
<1>3. CASE W!HasValue(H, t, k) /\ ~W!IsCleared(H, H.node[t][k])
  <2>1. G = W!Stay(H, H.node[t][k])
    BY <1>3 DEF W!ClearValue
  <2> QED BY <1>0, <1>3, <2>1, ClearedStay
<1> QED BY <1>1, <1>2, <1>3

\* The keys of a table.
LEMMA ClearedKeysOf ==
  ASSUME NEW H \in Views, NEW t \in Tables
  PROVE  Cleared(H, W!ClearKeysOf(H, t), "key", {t}, NodeKeys)
<1> DEFINE N == Len(KeySeq)
           Seen(n) == {KeySeq[m] : m \in 1 .. n}
           T == [n \in 0 .. N |-> {G \in Views : Cleared(H, G, "key", {t}, Seen(n))}]
<1>0. N \in Nat /\ NodeKeys = Seen(N)
  BY DistinctThings
<1>1. H \in T[0]
  <2>1. Seen(0) = {}
    OBVIOUS
  <2>2. Cleared(H, H, "key", {t}, Seen(0))
    BY <2>1, ClearedNothing
  <2> HIDE DEF Seen, N
  <2> QED BY <1>0, <2>2
<1>2. ASSUME NEW n \in 1 .. N, NEW G \in T[n - 1]
      PROVE  W!ClearKey(G, t, KeySeq[n]) \in T[n]
  <2> DEFINE k == KeySeq[n]
             F == W!ClearKey(G, t, k)
  <2>1. n - 1 \in 0 .. N /\ n \in 0 .. N
    BY <1>0
  <2>2. G \in Views /\ Cleared(H, G, "key", {t}, Seen(n - 1))
    <3> HIDE DEF Seen, N
    <3> QED BY <2>1
  <2>3. k \in NodeKeys
    BY <1>0
  <2>4. Seen(n) = Seen(n - 1) \cup {k}
    <3>1. 1 .. n = (1 .. n - 1) \cup {n}
      BY <1>0
    <3> QED BY <3>1
  <2>5. Cleared(G, F, "key", {t}, {k})
    BY <2>2, <2>3, ClearedKey
  <2> DEFINE A == Seen(n - 1)
             B == Seen(n)
  <2> HIDE DEF F, k, A, B
  <2>6. \A x \in Tables, j1 \in NodeKeys : (x \in {t} /\ j1 \in B) <=> ((x \in {t} /\ j1 \in A) \/ (x \in {t} /\ j1 \in {k}))
    BY <2>4 DEF A, B
  <2>7. Cleared(H, F, "key", {t}, B)
    BY <2>2, <2>5, <2>6, ClearedStill DEF A
  <2>8. F \in Views
    BY <2>7 DEF Cleared
  <2>9. F \in T[n]
    <3> HIDE DEF Seen, N
    <3> QED BY <2>1, <2>7, <2>8 DEF B
  <2> QED BY <2>9 DEF F, k
<1> HIDE DEF T
<1>3. W!ClearKeysOf(H, t) \in T[N]
  BY <1>1, <1>2, VisitKeys
<1> DEFINE G == W!ClearKeysOf(H, t)
<1> HIDE DEF G, Seen
<1>4. Cleared(H, G, "key", {t}, Seen(N))
  BY <1>0, <1>3 DEF T, G
<1> QED BY <1>0, <1>4 DEF G

\* The keys of the tables of a list.
LEMMA ClearedKeyLists ==
  ASSUME NEW H \in Views, NEW list \in Seq(Tables)
  PROVE  Cleared(H, W!ClearKeys(H, list), "key", Range(list), NodeKeys)
<1> DEFINE N == Len(list)
           Seen(n) == {list[m] : m \in 1 .. n}
           T == [n \in 0 .. N |-> {G \in Views : Cleared(H, G, "key", Seen(n), NodeKeys)}]
<1>0. N \in Nat /\ Range(list) = Seen(N) /\ \A m \in 1 .. N : list[m] \in Tables
  BY DEF Range
<1>1. H \in T[0]
  <2>1. Seen(0) = {}
    OBVIOUS
  <2>2. Cleared(H, H, "key", Seen(0), NodeKeys)
    BY <2>1, ClearedNothing
  <2> HIDE DEF Seen, N
  <2> QED BY <1>0, <2>2
<1>2. ASSUME NEW n \in 1 .. N, NEW G \in T[n - 1]
      PROVE  W!ClearKeysOf(G, list[n]) \in T[n]
  <2> DEFINE t == list[n]
             F == W!ClearKeysOf(G, t)
  <2>1. n - 1 \in 0 .. N /\ n \in 0 .. N
    BY <1>0
  <2>2. G \in Views /\ Cleared(H, G, "key", Seen(n - 1), NodeKeys)
    <3> HIDE DEF Seen, N
    <3> QED BY <2>1
  <2>3. t \in Tables
    BY <1>0
  <2>4. Seen(n) = Seen(n - 1) \cup {t}
    <3>1. 1 .. n = (1 .. n - 1) \cup {n}
      BY <1>0
    <3> QED BY <3>1
  <2>5. Cleared(G, F, "key", {t}, NodeKeys)
    BY <2>2, <2>3, ClearedKeysOf
  <2> DEFINE A == Seen(n - 1)
             B == Seen(n)
  <2> HIDE DEF F, t, A, B
  <2>6. \A x \in Tables, k \in NodeKeys : (x \in B /\ k \in NodeKeys) <=> ((x \in A /\ k \in NodeKeys) \/ (x \in {t} /\ k \in NodeKeys))
    BY <2>4 DEF A, B
  <2>7. Cleared(H, F, "key", B, NodeKeys)
    BY <2>2, <2>5, <2>6, ClearedStill DEF A
  <2>8. F \in Views
    BY <2>7 DEF Cleared
  <2>9. F \in T[n]
    <3> HIDE DEF Seen, N
    <3> QED BY <2>1, <2>7, <2>8 DEF B
  <2> QED BY <2>9 DEF F, t
<1> HIDE DEF T
<1>3. W!ClearKeys(H, list) \in T[N]
  BY <1>0, <1>1, <1>2, VisitKeyLists
<1> DEFINE G == W!ClearKeys(H, list)
<1> HIDE DEF G, Seen
<1>4. Cleared(H, G, "key", Seen(N), NodeKeys)
  BY <1>0, <1>3 DEF T, G
<1> QED BY <1>0, <1>4 DEF G

\* The values of a table.
LEMMA ClearedValuesOf ==
  ASSUME NEW H \in Views, NEW t \in Tables
  PROVE  Cleared(H, W!ClearValuesOf(H, t), "value", {t}, NodeKeys)
<1> DEFINE N == Len(KeySeq)
           Seen(n) == {KeySeq[m] : m \in 1 .. n}
           T == [n \in 0 .. N |-> {G \in Views : Cleared(H, G, "value", {t}, Seen(n))}]
<1>0. N \in Nat /\ NodeKeys = Seen(N)
  BY DistinctThings
<1>1. H \in T[0]
  <2>1. Seen(0) = {}
    OBVIOUS
  <2>2. Cleared(H, H, "value", {t}, Seen(0))
    BY <2>1, ClearedNothing
  <2> HIDE DEF Seen, N
  <2> QED BY <1>0, <2>2
<1>2. ASSUME NEW n \in 1 .. N, NEW G \in T[n - 1]
      PROVE  W!ClearValue(G, t, KeySeq[n]) \in T[n]
  <2> DEFINE k == KeySeq[n]
             F == W!ClearValue(G, t, k)
  <2>1. n - 1 \in 0 .. N /\ n \in 0 .. N
    BY <1>0
  <2>2. G \in Views /\ Cleared(H, G, "value", {t}, Seen(n - 1))
    <3> HIDE DEF Seen, N
    <3> QED BY <2>1
  <2>3. k \in NodeKeys
    BY <1>0
  <2>4. Seen(n) = Seen(n - 1) \cup {k}
    <3>1. 1 .. n = (1 .. n - 1) \cup {n}
      BY <1>0
    <3> QED BY <3>1
  <2>5. Cleared(G, F, "value", {t}, {k})
    BY <2>2, <2>3, ClearedValue
  <2> DEFINE A == Seen(n - 1)
             B == Seen(n)
  <2> HIDE DEF F, k, A, B
  <2>6. \A x \in Tables, j1 \in NodeKeys : (x \in {t} /\ j1 \in B) <=> ((x \in {t} /\ j1 \in A) \/ (x \in {t} /\ j1 \in {k}))
    BY <2>4 DEF A, B
  <2>7. Cleared(H, F, "value", {t}, B)
    BY <2>2, <2>5, <2>6, ClearedStill DEF A
  <2>8. F \in Views
    BY <2>7 DEF Cleared
  <2>9. F \in T[n]
    <3> HIDE DEF Seen, N
    <3> QED BY <2>1, <2>7, <2>8 DEF B
  <2> QED BY <2>9 DEF F, k
<1> HIDE DEF T
<1>3. W!ClearValuesOf(H, t) \in T[N]
  BY <1>1, <1>2, VisitValues
<1> DEFINE G == W!ClearValuesOf(H, t)
<1> HIDE DEF G, Seen
<1>4. Cleared(H, G, "value", {t}, Seen(N))
  BY <1>0, <1>3 DEF T, G
<1> QED BY <1>0, <1>4 DEF G

\* The values of the tables of a list.
LEMMA ClearedValueLists ==
  ASSUME NEW H \in Views, NEW list \in Seq(Tables)
  PROVE  Cleared(H, W!ClearValues(H, list), "value", Range(list), NodeKeys)
<1> DEFINE N == Len(list)
           Seen(n) == {list[m] : m \in 1 .. n}
           T == [n \in 0 .. N |-> {G \in Views : Cleared(H, G, "value", Seen(n), NodeKeys)}]
<1>0. N \in Nat /\ Range(list) = Seen(N) /\ \A m \in 1 .. N : list[m] \in Tables
  BY DEF Range
<1>1. H \in T[0]
  <2>1. Seen(0) = {}
    OBVIOUS
  <2>2. Cleared(H, H, "value", Seen(0), NodeKeys)
    BY <2>1, ClearedNothing
  <2> HIDE DEF Seen, N
  <2> QED BY <1>0, <2>2
<1>2. ASSUME NEW n \in 1 .. N, NEW G \in T[n - 1]
      PROVE  W!ClearValuesOf(G, list[n]) \in T[n]
  <2> DEFINE t == list[n]
             F == W!ClearValuesOf(G, t)
  <2>1. n - 1 \in 0 .. N /\ n \in 0 .. N
    BY <1>0
  <2>2. G \in Views /\ Cleared(H, G, "value", Seen(n - 1), NodeKeys)
    <3> HIDE DEF Seen, N
    <3> QED BY <2>1
  <2>3. t \in Tables
    BY <1>0
  <2>4. Seen(n) = Seen(n - 1) \cup {t}
    <3>1. 1 .. n = (1 .. n - 1) \cup {n}
      BY <1>0
    <3> QED BY <3>1
  <2>5. Cleared(G, F, "value", {t}, NodeKeys)
    BY <2>2, <2>3, ClearedValuesOf
  <2> DEFINE A == Seen(n - 1)
             B == Seen(n)
  <2> HIDE DEF F, t, A, B
  <2>6. \A x \in Tables, k \in NodeKeys : (x \in B /\ k \in NodeKeys) <=> ((x \in A /\ k \in NodeKeys) \/ (x \in {t} /\ k \in NodeKeys))
    BY <2>4 DEF A, B
  <2>7. Cleared(H, F, "value", B, NodeKeys)
    BY <2>2, <2>5, <2>6, ClearedStill DEF A
  <2>8. F \in Views
    BY <2>7 DEF Cleared
  <2>9. F \in T[n]
    <3> HIDE DEF Seen, N
    <3> QED BY <2>1, <2>7, <2>8 DEF B
  <2> QED BY <2>9 DEF F, t
<1> HIDE DEF T
<1>3. W!ClearValues(H, list) \in T[N]
  BY <1>0, <1>1, <1>2, VisitValueLists
<1> DEFINE G == W!ClearValues(H, list)
<1> HIDE DEF G, Seen
<1>4. Cleared(H, G, "value", Seen(N), NodeKeys)
  BY <1>0, <1>3 DEF T, G
<1> QED BY <1>0, <1>4 DEF G

\* Once the ephemerons have converged, what is marked leads to nothing else.
LEMMA Convergence ==
  ASSUME WeakInv, W!Converged
  PROVE  /\ \A x \in Tables : ~W!White(h, x) => Visited(h, x)
         /\ \A x : ~In(h, "next", x)
         /\ W!Roots \subseteq Marked /\ W!Leads(Marked) \subseteq Marked
<1>1. /\ stage \in {"converge", "converge2"} /\ h.gray = <<>> /\ h.next = <<>> /\ ~changed
      /\ WeakTypes /\ AtomicInv /\ ListsInv /\ h.again = <<>>
  BY DEF W!Converged, W!Converging, WeakInv, ListsInv
<1>2. \A x : ~In(h, "gray", x) /\ ~In(h, "again", x) /\ ~In(h, "next", x)
  BY <1>1, EmptyRange DEF In
<1>3. \A x \in Tables : ~W!White(h, x) => Visited(h, x)
  BY <1>2 DEF Visited
<1>4. W!Roots \subseteq Marked
  BY <1>1 DEF WeakTypes, W!Roots, Marked
<1>5. was \in [Tables -> [NodeKeys -> NodeValues]]
  BY <1>1 DEF WeakTypes, Nodemaps
<1>6. ASSUME NEW v \in W!Objs, NEW t \in Marked \cap Tables, NEW k \in NodeKeys, was[t][k] \in W!Objs,
             \/ v = was[t][k] /\ ~W!Weak(t, "v") /\ (W!Weak(t, "k") => k \in Marked \cup Strings \cup {W!Index})
             \/ v = k /\ ~W!Weak(t, "k")
      PROVE  v \in Marked
  <2>1. ~W!White(h, t) /\ Visited(h, t) /\ k \in Entries(was, t)
    BY <1>3, <1>6 DEF Marked, Entries
  <2>2. \/ mode[t] = "" /\ KeysMarked(h, was, t) /\ ValuesMarked(h, was, t)
        \/ mode[t] = "v" /\ KeysMarked(h, was, t)
        \/ mode[t] = "kv"
        \/ mode[t] = "k" /\ (ValuesMarked(h, was, t) \/ Settled(h, was, t))
    <3>1. In(h, "allweak", t) /\ mode[t] = "k" => ValuesMarked(h, was, t)
      BY <1>1 DEF ListsInv
    <3> QED BY <1>1, <1>2, <2>1, <3>1 DEF AtomicInv
  <2>3. CASE mode[t] = ""
    BY <1>6, <2>1, <2>2, <2>3 DEF KeysMarked, ValuesMarked, Marked
  <2>4. CASE mode[t] = "v"
    BY <1>6, <2>1, <2>2, <2>4 DEF KeysMarked, Marked, W!Weak
  <2>5. CASE mode[t] = "kv"
    BY <1>6, <2>5 DEF W!Weak
  <2>6. CASE mode[t] = "k"
    <3>1. v = was[t][k] /\ k \in Marked \cup Strings \cup {W!Index}
      BY <1>6, <2>6 DEF W!Weak
    <3>2. ~W!IsCleared(h, k)
      BY <3>1, DistinctThings DEF Marked, W!IsCleared, W!White
    <3> QED BY <1>6, <2>1, <2>2, <2>6, <3>1, <3>2 DEF ValuesMarked, Settled, Marked
  <2> QED BY <2>2, <2>3, <2>4, <2>5, <2>6
<1>7. W!Leads(Marked) \subseteq Marked
  <2>1. \A t \in Marked \cap Tables : DOMAIN was[t] = NodeKeys
    BY <1>5
  <2> QED BY <1>6, <2>1 DEF W!Leads
<1> QED BY <1>2, <1>3, <1>4, <1>7

\* Weak values are cleared before the finalizers.
LEMMA WeakClearDeadValues == WeakInv /\ W!ClearDeadValues => WeakInv'
<1> SUFFICES ASSUME WeakInv, W!ClearDeadValues
             PROVE  WeakInv'
  OBVIOUS
<1> DEFINE F == W!ClearValues(h, h.weak)
           G == W!ClearValues(F, h.allweak)
<1>1. /\ stage = "converge" /\ stage' = "finalizers" /\ W!Converged
      /\ UNCHANGED <<mode, fin, held, moves, changed, was>>
      /\ h' = G /\ orig' = [weak |-> h.weak, allweak |-> h.allweak] /\ strong' = Marked
  BY DEF W!ClearDeadValues, W!GC, W!Go, Marked
<1>2. /\ WeakTypes /\ AtomicInv /\ NodesInv /\ ListsInv /\ h \in Views /\ ~changed /\ h.gray = <<>>
      /\ h.next = <<>> /\ h.again = <<>>
  BY <1>1 DEF WeakInv, WeakTypes, W!Converged, W!Converging, ListsInv
<1>3. h.weak \in Seq(Tables) /\ h.allweak \in Seq(Tables)
  BY <1>2 DEF Views, TableSeqs
<1>4. Cleared(h, F, "value", Range(h.weak), NodeKeys)
  BY <1>2, <1>3, ClearedValueLists
<1>5. Cleared(F, G, "value", Range(h.allweak), NodeKeys)
  <2>1. F \in Views
    BY <1>4 DEF Cleared
  <2> HIDE DEF F
  <2> QED BY <1>3, <2>1, ClearedValueLists
<1> HIDE DEF F, G
<1>6. Cleared(h, h', "value", Range(h.weak) \cup Range(h.allweak), NodeKeys)
  BY <1>1, <1>4, <1>5, ClearedStill
<1>7. /\ h' \in Views /\ SameTables(h, h') /\ h'.gray = <<>>
      /\ \A o \in W!Objs : W!White(h', o) => W!White(h, o)
      /\ \A list \in Unlisted : h'[list] = h[list]
  BY <1>2, <1>6 DEF Cleared
<1>8. ASSUME NEW t \in Tables, NEW k \in NodeKeys
      PROVE  /\ W!HasValue(h', t, k) => h'.node[t][k] = h.node[t][k]
             /\ W!HasValue(h', t, k) <=> /\ W!HasValue(h, t, k)
                                         /\ In(h, "weak", t) \/ In(h, "allweak", t) => ~W!IsCleared(h, h.node[t][k])
  BY <1>6 DEF Cleared, Subject, In
<1>9. /\ \A o : W!White(h', o) => W!White(h, o)
      /\ \A list \in Unlisted \cup {"gray"} : \A x : In(h', list, x) <=> In(h, list, x)
      /\ \A x : Visited(h', x) /\ x \in Tables => Visited(h, x)
  <2>1. \A o : W!White(h', o) => W!White(h, o)
    BY <1>7 DEF W!White
  <2>2. \A list \in Unlisted \cup {"gray"} : \A x : In(h', list, x) <=> In(h, list, x)
    BY <1>2, <1>7 DEF In
  <2>3. \A x \in Tables : W!White(h', x) <=> W!White(h, x)
    BY <1>7 DEF SameTables, W!White
  <2> QED BY <2>1, <2>2, <2>3 DEF Visited, Unlisted
<1>10. /\ \A x \in Tables : ~W!White(h, x) => Visited(h, x)
       /\ W!Roots \subseteq Marked /\ W!Leads(Marked) \subseteq Marked
  BY <1>1, Convergence
<1>11. WeakTypes'
  <2>1. mode' \in [Tables -> {"", "k", "v", "kv"}] /\ (fin \subseteq W!Objs \cap NodeKeys)' /\ moves' \in Int
    BY <1>1, <1>2 DEF WeakTypes
  <2>2. held' \in W!Objs \cup {W!None} /\ changed' \in BOOLEAN /\ was' \in Nodemaps
    BY <1>1, <1>2 DEF WeakTypes
  <2>3. ~W!White(h', held') /\ ~W!White(h', Registry)
    BY <1>1, <1>2, <1>9 DEF WeakTypes
  <2>4. strong' \subseteq W!Objs /\ orig' \in [weak : TableSeqs, allweak : TableSeqs]
    BY <1>1, <1>3 DEF Marked, TableSeqs
  <2> QED BY <1>1, <1>7, <2>1, <2>2, <2>3, <2>4 DEF WeakTypes, Finalizing, W!Objs, W!None, W!White
<1>12. PropagateInv' /\ SweptInv'
  BY <1>1 DEF PropagateInv, SweptInv
<1>13. ASSUME NEW x \in Tables, Visited(h', x)
      PROVE  \/ mode[x] = "" /\ KeysMarked(h', was, x) /\ ValuesMarked(h', was, x)
             \/ mode[x] = "v" /\ KeysMarked(h', was, x) /\ (In(h', "weak", x) \/ ValuesStay(h', was, x))
             \/ mode[x] = "kv" /\ In(h', "allweak", x)
             \/ /\ mode[x] = "k"
                /\ \/ In(h', "allweak", x)
                   \/ KeysStay(h', was, x) /\ ValuesMarked(h', was, x)
                   \/ In(h', "next", x)
                   \/ In(h', "ephemeron", x) /\ Settled(h', was, x)
  <2>1. Visited(h, x)
    BY <1>9, <1>13
  <2>2. /\ In(h', "weak", x) <=> In(h, "weak", x)
        /\ In(h', "allweak", x) <=> In(h, "allweak", x)
        /\ In(h', "next", x) <=> In(h, "next", x)
        /\ In(h', "ephemeron", x) <=> In(h, "ephemeron", x)
    BY <1>9 DEF Unlisted
  <2>3. /\ KeysMarked(h, was, x) => KeysMarked(h', was, x)
        /\ ValuesMarked(h, was, x) => ValuesMarked(h', was, x)
        /\ KeysStay(h, was, x) => KeysStay(h', was, x)
        /\ ValuesStay(h, was, x) => ValuesStay(h', was, x)
    BY <1>7, MarkedStay
  <2>4. Settled(h, was, x) => Settled(h', was, x)
    BY <1>7, SettledStays
  <2> QED BY <1>1, <1>2, <2>1, <2>2, <2>3, <2>4 DEF AtomicInv
<1>14. AtomicInv'
  <2>1. mode' = mode /\ was' = was
    BY <1>1
  <2> QED BY <1>13, <2>1 DEF AtomicInv, Visited, KeysMarked, ValuesMarked, KeysStay, ValuesStay, Settled, In, Entries,
             W!White, W!Objs, W!IsCleared
<1>15. NodesInv'
  <2>1. ASSUME NEW t \in Tables, NEW k \in NodeKeys, was[t][k] \in W!Objs
        PROVE  IF t \in Marked /\ W!Weak(t, "v") /\ was[t][k] \notin Strings \cup Marked
               THEN h'.node[t][k] \notin W!Objs ELSE h'.node[t][k] = was[t][k]
    <3> DEFINE v == was[t][k]
    <3>1. h.node[t][k] = v /\ k \in Entries(was, t)
      BY <1>1, <1>2, <2>1 DEF NodesInv, Finalizing, Entries
    <3>2. (h'.node[t][k] \in W!Objs) <=> (In(h, "weak", t) \/ In(h, "allweak", t) => ~W!IsCleared(h, v))
      BY <1>8, <2>1, <3>1 DEF W!HasValue
    <3>3. h'.node[t][k] \in W!Objs => h'.node[t][k] = v
      BY <1>8, <3>1 DEF W!HasValue
    <3>4. W!IsCleared(h, v) <=> v \notin Strings \cup Marked
      BY <2>1 DEF W!IsCleared, Marked, W!White
    <3>5. CASE t \in Marked /\ W!Weak(t, "v") /\ v \notin Strings \cup Marked
      <4>1. Visited(h, t) /\ mode[t] \in {"v", "kv"}
        BY <1>10, <3>5 DEF Marked, W!Weak
      <4>2. In(h, "weak", t) \/ In(h, "allweak", t)
        <5>1. ~ValuesStay(h, was, t)
          BY <3>1, <3>4, <3>5 DEF ValuesStay
        <5> QED BY <1>1, <1>2, <4>1, <5>1 DEF AtomicInv
      <4> QED BY <3>2, <3>4, <3>5, <4>2
    <3>6. CASE ~(t \in Marked /\ W!Weak(t, "v") /\ v \notin Strings \cup Marked)
      <4>1. ASSUME In(h, "weak", t) \/ In(h, "allweak", t), W!IsCleared(h, v)
            PROVE  FALSE
        <5>1. t \in Marked
          BY <1>2, <4>1, DistinctThings DEF ListsInv, Marked
        <5>2. ~W!Weak(t, "v")
          BY <3>4, <3>6, <4>1, <5>1
        <5>3. mode[t] \notin {"v", "kv"}
          BY <5>2 DEF W!Weak
        <5>4. ValuesMarked(h, was, t)
          BY <1>2, <4>1, <5>3 DEF ListsInv
        <5> QED BY <3>1, <4>1, <5>4 DEF ValuesMarked, W!IsCleared
      <4> QED BY <3>2, <3>3, <3>6, <4>1
    <3> QED BY <3>5, <3>6
  <2>2. strong' = Marked /\ was' = was /\ mode' = mode /\ stage' = "finalizers"
    BY <1>1
  <2> HIDE DEF Marked
  <2> QED BY <2>1, <2>2 DEF NodesInv, Finalizing, W!Objs, W!Weak
<1>16. ListsInv'
  <2>1. \A x \in Tables : In(h', "gray", x) \/ In(h', "again", x) => ~W!White(h', x)
    BY <1>2, <1>9 DEF ListsInv, Unlisted
  <2>2. \A x \in Tables : In(h', "next", x) \/ In(h', "ephemeron", x) => mode[x] = "k" /\ ~W!White(h', x)
    BY <1>2, <1>9 DEF ListsInv, Unlisted
  <2>3. \A x \in Tables : In(h', "weak", x) => mode[x] = "v" /\ ~W!White(h', x)
    BY <1>2, <1>9 DEF ListsInv, Unlisted
  <2>4. \A x \in Tables : In(h', "allweak", x) => ~W!White(h', x) /\ (mode[x] = "kv" \/ (mode[x] = "k" /\ ValuesMarked(h', was, x)))
    <3>1. \A x : ValuesMarked(h, was, x) => ValuesMarked(h', was, x)
      BY <1>7, MarkedStay
    <3> QED BY <1>2, <1>9, <3>1 DEF ListsInv, Unlisted
  <2>5. h'.again = <<>> /\ h'.next = <<>> /\ h'.gray = <<>> /\ ~changed'
    BY <1>1, <1>2, <1>7 DEF Unlisted
  <2>6. mode' = mode /\ was' = was /\ stage' = "finalizers"
    BY <1>1
  <2> QED BY <2>1, <2>2, <2>3, <2>4, <2>5, <2>6 DEF ListsInv, In, ValuesMarked, Entries, W!White, W!Objs
<1>17. StrongInv'
  <2>1. \A o \in Marked : ~W!White(h', o) /\ ~In(h', "gray", o)
    BY <1>7, <1>9, EmptyRange DEF Marked, In
  <2>2. ASSUME NEW list \in {"weak", "allweak"}
        PROVE  /\ Range(orig'[list]) \subseteq Marked
               /\ \E front \in TableSeqs : h'[list] = front \o orig'[list]
    <3>1. orig'[list] = h[list] /\ h'[list] = h[list] /\ h[list] \in Seq(Tables)
      BY <1>1, <1>3, <1>7 DEF Unlisted
    <3>2. <<>> \o h[list] = h[list] /\ <<>> \in TableSeqs
      BY <3>1 DEF TableSeqs
    <3>3. ASSUME NEW x \in Range(h[list])
          PROVE  x \in Marked
      <4>1. x \in Tables /\ In(h, list, x)
        BY <3>1 DEF Range, In
      <4>2. ~W!White(h, x)
        BY <1>2, <4>1 DEF ListsInv
      <4> QED BY <4>1, <4>2, DistinctThings DEF Marked
    <3> QED BY <3>1, <3>2, <3>3
  <2> DEFINE S1 == Marked
  <2>3. strong' = S1 /\ W!Roots \subseteq S1 /\ W!Leads(S1) \subseteq S1 /\ was' = was /\ mode' = mode /\ held' = held
    BY <1>1, <1>10
  <2>4. /\ \A o \in S1 : ~W!White(h', o) /\ ~In(h', "gray", o)
        /\ \A list \in {"weak", "allweak"} :
             /\ Range(orig'[list]) \subseteq S1
             /\ \E front \in TableSeqs : h'[list] = front \o orig'[list]
    BY <2>1, <2>2
  <2> HIDE DEF S1
  <2>5. W!Roots' \subseteq strong' /\ W!Leads(strong)' \subseteq strong'
    <3>1. W!Roots' \subseteq strong'
      BY <2>3 DEF W!Roots, W!Objs
    <3>2. W!Leads(strong)' \subseteq strong'
      BY <2>3 DEF W!Leads, W!Weak, W!Objs, W!Index
    <3> QED BY <3>1, <3>2
  <2>6. stage' = "finalizers"
    BY <1>1
  <2>7. \A o \in strong' : ~W!White(h', o) /\ ~In(h', "gray", o)
    BY <2>3, <2>4
  <2>8. \A list \in {"weak", "allweak"} :
             /\ Range(orig'[list]) \subseteq strong'
             /\ \E front \in TableSeqs : h'[list] = front \o orig'[list]
    BY <2>3, <2>4
  <2> QED BY <2>5, <2>6, <2>7, <2>8 DEF StrongInv, Finalizing, In, W!White, W!Objs
<1> QED BY <1>11, <1>12, <1>14, <1>15, <1>16, <1>17 DEF WeakInv

\* A list that was put in front of another is what is new in it.
LEMMA NewFront ==
  ASSUME NEW front \in Seq(Tables), NEW before \in Seq(Tables)
  PROVE  /\ W!NewIn(front \o before, before) = front
         /\ Range(front \o before) = Range(front) \cup Range(before)
<1> DEFINE s == front \o before
           r == SubSeq(s, 1, Len(s) - Len(before))
<1>1. /\ s \in Seq(Tables) /\ Len(s) = Len(front) + Len(before) /\ Len(front) \in Nat /\ Len(before) \in Nat
      /\ \A n \in 1 .. Len(front) : s[n] = front[n]
      /\ \A n \in 1 .. Len(before) : s[Len(front) + n] = before[n]
      /\ DOMAIN s = 1 .. Len(s) /\ DOMAIN front = 1 .. Len(front) /\ DOMAIN before = 1 .. Len(before)
  OBVIOUS
<1> HIDE DEF s
<1>2. r = front
  <2>1. Len(s) - Len(before) = Len(front)
    BY <1>1
  <2>2. r \in Seq(Tables) /\ Len(r) = Len(front) /\ \A n \in 1 .. Len(front) : r[n] = s[n]
    BY <1>1, <2>1
  <2> HIDE DEF r
  <2>3. \A n \in 1 .. Len(front) : r[n] = front[n]
    BY <1>1, <2>2
  <2> QED BY <2>2, <2>3, SeqEqual
<1>3. ASSUME NEW n \in 1 .. Len(s)
      PROVE  s[n] \in Range(front) \cup Range(before)
  <2>1. CASE n <= Len(front)
    BY <1>1, <2>1 DEF Range
  <2>2. CASE n > Len(front)
    <3>1. n - Len(front) \in 1 .. Len(before) /\ n = Len(front) + (n - Len(front))
      BY <1>1, <2>2
    <3>2. s[n] = before[n - Len(front)]
      BY <1>1, <3>1
    <3> QED BY <1>1, <3>1, <3>2 DEF Range
  <2> QED BY <1>1, <2>1, <2>2
<1>4. ASSUME NEW n \in 1 .. Len(front)
      PROVE  front[n] \in Range(s)
  <2>1. n \in 1 .. Len(s)
    BY <1>1
  <2> QED BY <1>1, <2>1 DEF Range
<1>5. ASSUME NEW n \in 1 .. Len(before)
      PROVE  before[n] \in Range(s)
  <2>1. Len(front) + n \in 1 .. Len(s)
    BY <1>1
  <2> QED BY <1>1, <2>1 DEF Range
<1>6. Range(s) = Range(front) \cup Range(before)
  <2>1. Range(s) = {s[n] : n \in 1 .. Len(s)}
    BY <1>1 DEF Range
  <2>2. Range(front) = {front[n] : n \in 1 .. Len(front)} /\ Range(before) = {before[n] : n \in 1 .. Len(before)}
    BY <1>1 DEF Range
  <2> QED BY <1>3, <1>4, <1>5, <2>1, <2>2
<1> QED BY <1>2, <1>6 DEF s, W!NewIn

\* An entry is kept if neither its key, when C, nor its value, when D, is freed;
\* with the lists the tables are in, that is what the manual says.
Gone(C, D, t, k) ==
  /\ C => ~W!IsCleared(h, k)
  /\ D => ~W!IsCleared(h, was[t][k])
LEMMA PromisedEntries ==
  ASSUME WeakInv, stage = "converge2", W!Converged,
         NEW t \in Tables, ~W!White(h, t), NEW k \in NodeKeys, was[t][k] \in W!Objs,
         NEW C \in BOOLEAN, NEW D \in BOOLEAN,
         C <=> In(h, "ephemeron", t) \/ In(h, "allweak", t),
         D => In(h, "weak", t) \/ In(h, "allweak", t),
         t \notin strong /\ (In(h, "weak", t) \/ In(h, "allweak", t)) => D
  PROVE  (W!HasValue(h, t, k) /\ Gone(C, D, t, k)) <=>
           /\ W!Weak(t, "v") => was[t][k] \in Strings \/ (IF t \in strong THEN was[t][k] \in strong ELSE ~W!White(h, was[t][k]))
           /\ W!Weak(t, "k") => k \in Strings \/ ~W!White(h, k)
<1> DEFINE v == was[t][k]
           weakv == v \in Strings \/ (IF t \in strong THEN v \in strong ELSE ~W!White(h, v))
           weakk == k \in Strings \/ ~W!White(h, k)
<1>1. WeakTypes /\ AtomicInv /\ NodesInv /\ ListsInv /\ StrongInv /\ Finalizing /\ ~changed
  BY DEF WeakInv, Finalizing, W!Converged
<1>2. Visited(h, t) /\ ~In(h, "next", t)
  BY Convergence
<1>3. weakk <=> ~W!IsCleared(h, k)
  BY DEF W!IsCleared
<1>4. ~W!IsCleared(h, v) <=> v \in Strings \/ ~W!White(h, v)
  BY DEF W!IsCleared
<1>5. v \in strong => ~W!White(h, v)
  BY <1>1 DEF StrongInv
<1>6. k \in Entries(was, t)
  BY DEF Entries
<1>7. CASE t \in strong /\ W!Weak(t, "v") /\ v \notin Strings \cup strong
  <2>1. ~W!HasValue(h, t, k)
    BY <1>1, <1>7 DEF NodesInv, W!HasValue
  <2> QED BY <1>7, <2>1
<1>8. CASE ~(t \in strong /\ W!Weak(t, "v") /\ v \notin Strings \cup strong)
  <2>0. h.node[t][k] = v
    BY <1>1, <1>8 DEF NodesInv
  <2>1. W!HasValue(h, t, k)
    BY <2>0 DEF W!HasValue
  <2>2. Gone(C, D, t, k) <=> (C => weakk) /\ (D => ~W!IsCleared(h, v))
    BY <1>3 DEF Gone
  <2>3. W!Weak(t, "v") => (~W!IsCleared(h, v) => weakv) /\ (t \in strong => weakv)
    BY <1>4, <1>8
  <2>4. weakv => ~W!IsCleared(h, v)
    BY <1>4, <1>5
  <2>5. mode[t] \in {"", "k", "v", "kv"}
    BY <1>1 DEF WeakTypes
  <2>6. /\ In(h, "ephemeron", t) => mode[t] = "k"
        /\ In(h, "weak", t) => mode[t] = "v"
        /\ In(h, "allweak", t) => mode[t] = "kv" \/ (mode[t] = "k" /\ ~W!IsCleared(h, v))
    BY <1>1, <1>6 DEF ListsInv, ValuesMarked, W!IsCleared
  <2> HIDE DEF v, weakv, weakk
  <2>7. CASE mode[t] = ""
    BY <2>1, <2>2, <2>6, <2>7 DEF W!Weak, v, weakv, weakk
  <2>8. CASE mode[t] = "v"
    <3>1. In(h, "weak", t) \/ ~W!IsCleared(h, v)
      BY <1>1, <1>2, <1>6, <2>8 DEF AtomicInv, ValuesStay, v
    <3>2. W!Weak(t, "v") /\ ~W!Weak(t, "k") /\ ~C
      BY <2>6, <2>8 DEF W!Weak
    <3>3. Gone(C, D, t, k) <=> weakv
      BY <2>2, <2>3, <2>4, <2>6, <2>8, <3>1, <3>2
    <3> QED BY <2>1, <3>2, <3>3 DEF weakv, v
  <2>9. CASE mode[t] = "k"
    <3>1. In(h, "allweak", t) \/ In(h, "ephemeron", t) \/ ~W!IsCleared(h, k)
      BY <1>1, <1>2, <1>6, <2>9 DEF AtomicInv, KeysStay
    <3>2. ~W!Weak(t, "v") /\ W!Weak(t, "k") /\ ~In(h, "weak", t)
      BY <2>6, <2>9 DEF W!Weak
    <3>3. D => ~W!IsCleared(h, v)
      BY <2>6, <3>2, <2>9
    <3>4. Gone(C, D, t, k) <=> weakk
      BY <1>3, <2>2, <3>1, <3>3
    <3> QED BY <2>1, <3>2, <3>4 DEF weakk
  <2>10. CASE mode[t] = "kv"
    <3>1. In(h, "allweak", t) /\ C
      BY <1>1, <1>2, <2>10 DEF AtomicInv
    <3>2. W!Weak(t, "v") /\ W!Weak(t, "k")
      BY <2>10 DEF W!Weak
    <3>3. Gone(C, D, t, k) <=> weakv /\ weakk
      BY <2>2, <2>3, <2>4, <3>1, <3>2
    <3> QED BY <2>1, <3>2, <3>3 DEF weakv, weakk, v
  <2> QED BY <2>5, <2>7, <2>8, <2>9, <2>10
<1> QED BY <1>7, <1>8

\* Weak keys, and the values of tables found since, are cleared.
LEMMA WeakClearDead == WeakInv /\ W!ClearDead => WeakInv'
<1> SUFFICES ASSUME WeakInv, W!ClearDead
             PROVE  WeakInv'
  OBVIOUS
<1> DEFINE F1 == W!ClearKeys(h, h.ephemeron)
           F2 == W!ClearKeys(F1, h.allweak)
           nw == W!NewIn(F2.weak, orig.weak)
           na == W!NewIn(F2.allweak, orig.allweak)
           F3 == W!ClearValues(F2, nw)
           F4 == W!ClearValues(F3, na)
           new == Range(nw) \cup Range(na)
<1>1. /\ stage = "converge2" /\ stage' = "swept" /\ W!Converged
      /\ UNCHANGED <<mode, fin, held, moves, changed, orig, was, strong>>
      /\ h' = F4
  BY DEF W!ClearDead, W!GC, W!Go, W!Same
<1>2. /\ WeakTypes /\ NodesInv /\ ListsInv /\ StrongInv /\ Finalizing /\ h \in Views /\ ~changed /\ h.gray = <<>>
      /\ h.next = <<>> /\ h.again = <<>>
  BY <1>1 DEF WeakInv, WeakTypes, W!Converged, W!Converging, ListsInv, Finalizing
<1>3. h.weak \in Seq(Tables) /\ h.allweak \in Seq(Tables) /\ h.ephemeron \in Seq(Tables)
  BY <1>2 DEF Views, TableSeqs
<1>4. Cleared(h, F2, "key", Range(h.ephemeron) \cup Range(h.allweak), NodeKeys)
  <2>1. Cleared(h, F1, "key", Range(h.ephemeron), NodeKeys)
    BY <1>2, <1>3, ClearedKeyLists
  <2>2. F1 \in Views
    BY <2>1 DEF Cleared
  <2> HIDE DEF F1
  <2>3. Cleared(F1, F2, "key", Range(h.allweak), NodeKeys)
    BY <1>3, <2>2, ClearedKeyLists
  <2> HIDE DEF F2
  <2> QED BY <2>1, <2>3, ClearedStill
<1> HIDE DEF F1, F2
<1>5. F2 \in Views /\ F2.weak = h.weak /\ F2.allweak = h.allweak
  BY <1>4 DEF Cleared, Unlisted
<1>6. \A list \in {"weak", "allweak"} :
        LET front == W!NewIn(F2[list], orig[list]) IN
        /\ front \in Seq(Tables) /\ Range(orig[list]) \subseteq strong
        /\ Range(h[list]) = Range(front) \cup Range(orig[list])
  <2> SUFFICES ASSUME NEW list \in {"weak", "allweak"}
               PROVE  LET front == W!NewIn(F2[list], orig[list]) IN
                      /\ front \in Seq(Tables) /\ Range(orig[list]) \subseteq strong
                      /\ Range(h[list]) = Range(front) \cup Range(orig[list])
    OBVIOUS
  <2>1. orig[list] \in Seq(Tables) /\ Range(orig[list]) \subseteq strong
    BY <1>2 DEF WeakTypes, StrongInv, TableSeqs
  <2>2. PICK front \in TableSeqs : h[list] = front \o orig[list]
    BY <1>2 DEF StrongInv
  <2>3. front \in Seq(Tables) /\ F2[list] = h[list]
    BY <1>5, <2>2 DEF TableSeqs
  <2>4. W!NewIn(h[list], orig[list]) = front /\ Range(h[list]) = Range(front) \cup Range(orig[list])
    BY <2>1, <2>2, <2>3, NewFront
  <2> QED BY <2>1, <2>3, <2>4
<1>7. /\ nw \in Seq(Tables) /\ Range(orig.weak) \subseteq strong /\ Range(h.weak) = Range(nw) \cup Range(orig.weak)
      /\ na \in Seq(Tables) /\ Range(orig.allweak) \subseteq strong /\ Range(h.allweak) = Range(na) \cup Range(orig.allweak)
  BY <1>6
<1> HIDE DEF nw, na
<1>8. Cleared(F2, F4, "value", new, NodeKeys)
  <2>1. Cleared(F2, F3, "value", Range(nw), NodeKeys)
    BY <1>5, <1>7, ClearedValueLists
  <2>2. F3 \in Views
    BY <2>1 DEF Cleared
  <2> HIDE DEF F3
  <2>3. Cleared(F3, F4, "value", Range(na), NodeKeys)
    BY <1>7, <2>2, ClearedValueLists
  <2> HIDE DEF F4
  <2> QED BY <2>1, <2>3, ClearedStill
<1> HIDE DEF F3, F4
<1>9. /\ h' \in Views /\ SameTables(h, h') /\ h'.gray = <<>>
      /\ \A o \in W!Objs : W!White(h', o) => W!White(h, o)
      /\ \A list \in Unlisted : h'[list] = h[list]
  BY <1>1, <1>2, <1>4, <1>8 DEF Cleared, SameTables
<1>10. ASSUME NEW t \in Tables, NEW k \in NodeKeys, was[t][k] \in W!Objs
       PROVE  W!HasValue(h', t, k) <=>
                W!HasValue(h, t, k) /\ Gone(In(h, "ephemeron", t) \/ In(h, "allweak", t), t \in new, t, k)
  <2>1. /\ W!HasValue(F2, t, k) => F2.node[t][k] = h.node[t][k]
        /\ W!HasValue(F2, t, k) <=> /\ W!HasValue(h, t, k)
                                    /\ In(h, "ephemeron", t) \/ In(h, "allweak", t) => ~W!IsCleared(h, k)
    BY <1>4 DEF Cleared, Subject, In
  <2>2. W!HasValue(h', t, k) <=> /\ W!HasValue(F2, t, k)
                                 /\ t \in new => ~W!IsCleared(F2, F2.node[t][k])
    BY <1>1, <1>8 DEF Cleared, Subject
  <2>3. \A o : W!IsCleared(F2, o) <=> W!IsCleared(h, o)
    BY <1>4, SameCleared DEF Cleared
  <2>4. W!HasValue(h, t, k) => h.node[t][k] = was[t][k]
    BY <1>1, <1>2, <1>10 DEF NodesInv, W!HasValue
  <2> HIDE DEF new
  <2> QED BY <2>1, <2>2, <2>3, <2>4 DEF Gone
<1>11. /\ \A o : W!White(h', o) => W!White(h, o)
       /\ \A x \in Tables : W!White(h', x) <=> W!White(h, x)
       /\ \A list \in Unlisted \cup {"gray"} : \A x : In(h', list, x) <=> In(h, list, x)
  BY <1>2, <1>9 DEF W!White, SameTables, In
<1>12. WeakTypes'
  <2>1. mode' \in [Tables -> {"", "k", "v", "kv"}] /\ (fin \subseteq W!Objs \cap NodeKeys)' /\ moves' \in Int
    BY <1>1, <1>2 DEF WeakTypes
  <2>2. held' \in W!Objs \cup {W!None} /\ changed' \in BOOLEAN /\ was' \in Nodemaps
    BY <1>1, <1>2 DEF WeakTypes
  <2>3. ~W!White(h', held') /\ ~W!White(h', Registry)
    BY <1>1, <1>2, <1>11 DEF WeakTypes
  <2> QED BY <1>1, <1>9, <2>1, <2>2, <2>3 DEF WeakTypes, Finalizing, W!Objs, W!None, W!White
<1>13. PropagateInv' /\ AtomicInv' /\ NodesInv'
  BY <1>1 DEF PropagateInv, AtomicInv, NodesInv
<1>14. ListsInv'
  <2>1. \A x \in Tables : In(h', "gray", x) \/ In(h', "again", x) => ~W!White(h', x)
    BY <1>2, <1>11 DEF ListsInv, Unlisted
  <2>2. \A x \in Tables : In(h', "next", x) \/ In(h', "ephemeron", x) => mode[x] = "k" /\ ~W!White(h', x)
    BY <1>2, <1>11 DEF ListsInv, Unlisted
  <2>3. \A x \in Tables : In(h', "weak", x) => mode[x] = "v" /\ ~W!White(h', x)
    BY <1>2, <1>11 DEF ListsInv, Unlisted
  <2>4. \A x \in Tables : In(h', "allweak", x) => ~W!White(h', x) /\ (mode[x] = "kv" \/ (mode[x] = "k" /\ ValuesMarked(h', was, x)))
    <3>1. \A x : ValuesMarked(h, was, x) => ValuesMarked(h', was, x)
      BY <1>9, MarkedStay
    <3> QED BY <1>2, <1>11, <3>1 DEF ListsInv, Unlisted
  <2>5. h'.again = <<>> /\ h'.next = <<>> /\ h'.gray = <<>> /\ ~changed'
    BY <1>1, <1>2, <1>9 DEF Unlisted
  <2>6. mode' = mode /\ was' = was /\ stage' = "swept"
    BY <1>1
  <2> QED BY <2>1, <2>2, <2>3, <2>4, <2>5, <2>6 DEF ListsInv, In, ValuesMarked, Entries, W!White, W!Objs
<1>15. StrongInv'
  BY <1>1 DEF StrongInv, Finalizing
<1>16. W!EntriesAsPromised'
  <2>1. ASSUME NEW t \in Tables, ~W!White(h', t), NEW k \in NodeKeys, was[t][k] \in W!Objs
        PROVE  W!HasValue(h', t, k) <=>
                 /\ W!Weak(t, "v") => was[t][k] \in Strings \/ (IF t \in strong THEN was[t][k] \in strong ELSE ~W!White(h', was[t][k]))
                 /\ W!Weak(t, "k") => k \in Strings \/ ~W!White(h', k)
    <3> DEFINE C == In(h, "ephemeron", t) \/ In(h, "allweak", t)
               D == t \in new
    <3>1. ~W!White(h, t)
      BY <1>11, <2>1
    <3>2. D => In(h, "weak", t) \/ In(h, "allweak", t)
      BY <1>7 DEF In
    <3>3. t \notin strong /\ (In(h, "weak", t) \/ In(h, "allweak", t)) => D
      BY <1>7 DEF In
    <3>4. C \in BOOLEAN /\ D \in BOOLEAN
      BY DEF In
    <3>5. W!HasValue(h', t, k) <=> W!HasValue(h, t, k) /\ Gone(C, D, t, k)
      BY <1>10, <2>1
    <3>6. C <=> In(h, "ephemeron", t) \/ In(h, "allweak", t)
      OBVIOUS
    <3> HIDE DEF C, D
    <3>7. (W!HasValue(h, t, k) /\ Gone(C, D, t, k)) <=>
           /\ W!Weak(t, "v") => was[t][k] \in Strings \/ (IF t \in strong THEN was[t][k] \in strong ELSE ~W!White(h, was[t][k]))
           /\ W!Weak(t, "k") => k \in Strings \/ ~W!White(h, k)
      BY <1>1, <2>1, <3>1, <3>2, <3>3, <3>4, <3>6, PromisedEntries
    <3>8. \A o : o \in Strings \/ (W!White(h', o) <=> W!White(h, o))
      BY <1>11, DistinctThings DEF W!White
    <3> QED BY <3>5, <3>7, <3>8
  <2>2. \A t \in Tables : DOMAIN was[t] = NodeKeys
    BY <1>1, <1>2 DEF WeakTypes, Nodemaps
  <2>3. was' = was /\ mode' = mode /\ strong' = strong
    BY <1>1
  <2> QED BY <2>1, <2>2, <2>3 DEF W!EntriesAsPromised, W!Swept, W!Survives, W!HasValue, W!Weak, W!White, W!Objs
<1>17. SweptInv'
  <2> DEFINE S1 == {o \in W!Objs : ~W!White(h', o)}
  <2>1. W!Roots \subseteq strong /\ W!Leads(strong) \subseteq strong /\ strong \subseteq Marked /\ fin \subseteq Marked
    <3>1. \A o \in strong \cup fin : o \in W!Objs /\ ~W!White(h, o)
      BY <1>1, <1>2 DEF WeakTypes, StrongInv
    <3> QED BY <1>2, <3>1 DEF StrongInv, Marked
  <2>2. W!Leads(Marked) \subseteq Marked
    BY <1>1, Convergence
  <2> DEFINE M == Marked
  <2>3. M \subseteq S1 /\ S1 \cap Tables = M \cap Tables /\ S1 \cup Strings = M \cup Strings
    BY <1>11, DistinctThings DEF Marked, W!White
  <2>4. W!Leads(M) \subseteq M /\ strong \subseteq M /\ fin \subseteq M
    BY <2>1, <2>2
  <2>5. Marked' = S1 /\ was' = was /\ mode' = mode /\ held' = held /\ strong' = strong /\ fin' = fin
    BY <1>1 DEF Marked, W!White, W!Objs
  <2> HIDE DEF S1, M
  <2>6. ASSUME NEW v \in W!Objs, NEW t \in S1 \cap Tables, NEW k \in {x \in DOMAIN was[t] : was[t][x] \in W!Objs},
               \/ v = was[t][k] /\ ~W!Weak(t, "v") /\ (W!Weak(t, "k") => k \in S1 \cup Strings \cup {W!Index})
               \/ v = k /\ ~W!Weak(t, "k")
        PROVE  v \in S1
    <3>1. t \in M \cap Tables
      BY <2>3
    <3>2. k \in S1 \cup Strings \cup {W!Index} => k \in M \cup Strings \cup {W!Index}
      BY <2>3
    <3>3. v \in W!Leads(M)
      BY <2>6, <3>1, <3>2 DEF W!Leads
    <3> QED BY <2>3, <2>4, <3>3
  <2>7. W!Leads(S1) \subseteq S1
    BY <2>6 DEF W!Leads
  <2>8. W!Leads(Marked)' \subseteq Marked'
    BY <2>5, <2>7 DEF W!Leads, W!Weak, W!Objs, W!Index
  <2>9. W!Roots' \subseteq strong' /\ W!Leads(strong)' \subseteq strong'
    <3>1. W!Roots' \subseteq strong'
      BY <2>1, <2>5 DEF W!Roots, W!Objs
    <3>2. W!Leads(strong)' \subseteq strong'
      BY <2>1, <2>5 DEF W!Leads, W!Weak, W!Objs, W!Index
    <3> QED BY <3>1, <3>2
  <2>10. strong' \subseteq Marked' /\ fin' \subseteq Marked'
    BY <2>3, <2>4, <2>5
  <2> QED BY <1>16, <2>8, <2>9, <2>10 DEF SweptInv, Promises
<1> QED BY <1>12, <1>13, <1>14, <1>15, <1>17 DEF WeakInv

\* Every step of the weak tables keeps the invariant.
LEMMA WeakKept == WeakInv /\ W!Next => WeakInv'
BY WeakRead, WeakStore, WeakPropagate, WeakAtomic, WeakGrayAgain, WeakRound, WeakEphemeron,
   WeakClearDeadValues, WeakMarkBeingFnz, WeakClearDead DEF W!Next

\* A step of another part keeps it.
LEMMA WeakStays == WeakInv /\ UNCHANGED wvars => WeakInv'
<1> SUFFICES ASSUME WeakInv, UNCHANGED wvars
             PROVE  WeakInv'
  OBVIOUS
<1>1. UNCHANGED <<mode, fin, h, held, stage, changed, orig, was, strong, moves>>
  BY DEF wvars
<1>2. WeakTypes' /\ PropagateInv' /\ NodesInv'
  BY <1>1 DEF WeakInv, WeakTypes, PropagateInv, NodesInv, Finalizing, Visited, EmptyMarked, KeysMarked, ValuesMarked,
     In, Entries, W!White, W!Objs, W!None, W!Empty, W!Weak
<1>3. AtomicInv'
  <2>1. mode' = mode /\ stage' = stage /\ changed' = changed
    BY <1>1
  <2>2. ASSUME NEW x
        PROVE  /\ Visited(h, x)' <=> Visited(h, x)
               /\ KeysMarked(h, was, x)' <=> KeysMarked(h, was, x)
               /\ ValuesMarked(h, was, x)' <=> ValuesMarked(h, was, x)
               /\ KeysStay(h, was, x)' <=> KeysStay(h, was, x)
               /\ ValuesStay(h, was, x)' <=> ValuesStay(h, was, x)
               /\ Settled(h, was, x)' <=> Settled(h, was, x)
               /\ \A list \in Unlisted : In(h, list, x)' <=> In(h, list, x)
    BY <1>1 DEF Visited, KeysMarked, ValuesMarked, KeysStay, ValuesStay, Settled, In, Entries, W!White, W!Objs, W!IsCleared
  <2> QED BY <2>1, <2>2 DEF WeakInv, AtomicInv, Unlisted
<1>4. ListsInv'
  BY <1>1 DEF WeakInv, ListsInv, ValuesMarked, In, Entries, W!White, W!Objs
<1>5. StrongInv'
  BY <1>1 DEF WeakInv, StrongInv, Finalizing, In, W!White, W!Objs, W!Roots, W!Leads, W!Weak, W!Index
<1>6. SweptInv'
  BY <1>1 DEF WeakInv, SweptInv, Promises, Marked, W!EntriesAsPromised, W!Swept, W!Survives, W!HasValue, W!Weak,
     W!White, W!Objs, W!Roots, W!Leads, W!Index
<1> QED BY <1>2, <1>3, <1>4, <1>5, <1>6 DEF WeakInv

\* What is led to from a set that leads to nothing else is in the set.
LEMMA LedWithin ==
  ASSUME NEW S1, NEW M, S1 \subseteq M, W!Leads(M) \subseteq M
  PROVE  W!Live(S1) \subseteq M
<1> DEFINE N == W!Cardinality(W!Objs)
           T == [n \in 0 .. N |-> SUBSET M]
<1>0. N \in Nat
  BY DistinctThings, FS_CardinalityType DEF W!Cardinality, Cardinality
<1>1. S1 \in T[0]
  BY <1>0
<1>2. ASSUME NEW n \in 1 .. N, NEW s \in T[n - 1]
      PROVE  W!Leads(s) \in T[n]
  <2>1. n - 1 \in 0 .. N /\ n \in 0 .. N
    BY <1>0
  <2>2. s \subseteq M
    BY <2>1
  <2>3. W!Leads(s) \subseteq W!Leads(M)
    BY <2>2 DEF W!Leads
  <2> QED BY <2>1, <2>3
<1>3. W!Live(S1) \in T[N]
  <2> HIDE DEF T
  <2> QED BY <1>1, <1>2, Leading
<1> QED BY <1>0, <1>3

\* The invariant has the two properties.
LEMMA WeakPromises == WeakInv => W!NothingLost /\ W!EntriesAsPromised
<1> SUFFICES ASSUME WeakInv
             PROVE  W!NothingLost /\ W!EntriesAsPromised
  OBVIOUS
<1>1. CASE stage # "swept"
  BY <1>1 DEF W!NothingLost, W!EntriesAsPromised, W!Swept
<1>2. CASE stage = "swept"
  <2>1. Promises
    BY <1>2 DEF WeakInv, SweptInv
  <2>2. /\ W!Roots \subseteq strong /\ W!Leads(strong) \subseteq strong /\ strong \subseteq Marked
        /\ fin \subseteq Marked /\ W!Leads(Marked) \subseteq Marked
    BY <2>1 DEF Promises
  <2>3. W!Live(W!Roots) \subseteq strong
    BY <2>2, LedWithin
  <2>4. W!Live(W!Roots \cup fin) \subseteq Marked
    BY <2>2, LedWithin
  <2>5. W!NothingLost
    BY <2>2, <2>3, <2>4 DEF W!NothingLost, W!Survives, Marked
  <2> QED BY <2>1, <2>5 DEF Promises
<1> QED BY <1>1, <1>2

\* The invariant holds as long as the weak tables are what runs.
LEMMA WeakAlways == RuntimeSpec => [](part = "weak" => WeakInv)
<1>1. RuntimeInit => (part = "weak" => WeakInv)
  BY WeakInit DEF RuntimeInit
<1>2. (part = "weak" => WeakInv) /\ [RuntimeNext]_rvars => (part = "weak" => WeakInv)'
  <2> SUFFICES ASSUME part = "weak" => WeakInv, [RuntimeNext]_rvars, part' = "weak"
               PROVE  WeakInv'
    OBVIOUS
  <2>1. CASE part = "weak" /\ W!Next /\ UNCHANGED <<part, uvars, svars, vars, qvars>>
    BY <2>1, WeakKept
  <2>2. CASE part # "weak" /\ UNCHANGED part
    BY <2>2
  <2>3. CASE UNCHANGED rvars
    <3>1. part' = part /\ UNCHANGED wvars
      BY <2>3 DEF rvars
    <3> QED BY <3>1, WeakStays
  <2> QED BY <2>1, <2>2, <2>3 DEF RuntimeNext
<1> QED BY <1>1, <1>2, PTL DEF RuntimeSpec

\* Nothing that is accessible is lost in a collection with weak tables, however
\* the ephemerons hang on each other and whatever was moved while it marked
\* (atomic, convergeephemerons).
THEOREM WeakNothingLost == RuntimeSpec => []NothingLost
<1>1. (part = "weak" => WeakInv) => NothingLost
  BY WeakPromises DEF NothingLost
<1> QED BY <1>1, WeakAlways, PTL

\* A weak table that survives loses exactly the entries the manual says, before
\* or after the finalizers (clearvalues, clearkeys).
THEOREM WeakEntriesAsPromised == RuntimeSpec => []EntriesAsPromised
<1>1. (part = "weak" => WeakInv) => EntriesAsPromised
  BY WeakPromises DEF EntriesAsPromised
<1> QED BY <1>1, WeakAlways, PTL

=============================================================================
