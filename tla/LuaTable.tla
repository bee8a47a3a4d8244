------------------------------ MODULE LuaTable ------------------------------
(***************************************************************************)
(* One table of ltable.c: an array part, and a hash part in which colliding*)
(* keys are chained through the free nodes of the hash part itself.        *)
(*                                                                         *)
(* The program assigns to fields, traverses the table with luaH_next and   *)
(* asks for its length.  The collector turns the keys of empty entries     *)
(* into dead keys, which keep the address of an object that may be gone    *)
(* and its memory in use again.                                            *)
(*                                                                         *)
(* Left out: keys that are neither positive integers nor collectable (they *)
(* behave like integers that never go to the array part), the conversion   *)
(* of floats with integral values, weak tables, and what goes with an      *)
(* assignment beside the table: barriers, metamethods and their cache.     *)
(*                                                                         *)
(* Positions are counted from 1, where the code has pointers and offsets;  *)
(* 0 is no position.                                                       *)
(***************************************************************************)
EXTENDS Integers, Sequences, FiniteSets, SequencesExt

CONSTANTS
  Number,       \* bound: the integer keys the program uses
  Address,      \* bound: the addresses of the collectable keys
  StringHash,   \* bound: the hash values of its strings
  Value,        \* values other than nil
  Preallocated, \* bound: the sizes given to lua_createtable
  MAX_INT       \* the largest int

ASSUME KeyAssumption ==
  /\ Number \subseteq Nat \ {0}
  /\ Address \subseteq Nat
  /\ StringHash \subseteq Nat
  /\ "nil" \notin Value
  /\ Preallocated \subseteq Nat
  /\ MAX_INT \in Nat \ {0}

VARIABLES
  t,        \* Table: the parts, and where getfreepos goes on
  objects,  \* the collectable keys that exist
  key,      \* the key a traversal is at, nil at its start, or NoTraversal
  failed    \* (history) the allocator has failed in a rehash

vars == <<t, objects, key, failed>>

IntKey(n) == [tt |-> "LUA_TNUMINT", v |-> n]
Objects == [tt : {"LUA_TSHRSTR"}, v : Address, hash : StringHash]
             \cup [tt : {"LUA_TTABLE"}, v : Address]
Keys == {IntKey(n) : n \in Number} \cup Objects
nil == [tt |-> "LUA_TNIL"]
DeadKey(a) == [tt |-> "LUA_TDEADKEY", v |-> a]
NoTraversal == [tt |-> "none"]
Invalid == [tt |-> "invalid key to 'next'"]

ttisinteger(k) == k.tt = "LUA_TNUMINT"
iscollectable(k) == k.tt \in {"LUA_TSHRSTR", "LUA_TTABLE"}

Node == [key : Keys \cup {DeadKey(a) : a \in Address} \cup {nil},
         val : Value \cup {"nil"}, next : Nat]
Table == [array : Seq(Value \cup {"nil"}), node : Seq(Node), lastfree : Nat]

\* T.node is <<>> when it is the dummynode.
sizearray(T) == Len(T.array)
sizenode(T) == Len(T.node)
isdummy(T) == T.node = <<>>
InArray(T, k) == ttisinteger(k) /\ k.v \in 1 .. sizearray(T)
-----------------------------------------------------------------------------
(* Searching.                                                              *)

\* (size-1)|1, where size is a power of 2.
OddModulus(size) == IF size = 1 THEN 1 ELSE size - 1

mainposition(T, k) ==
  1 + (CASE k.tt = "LUA_TNUMINT" -> k.v % sizenode(T)
         [] k.tt = "LUA_TSHRSTR" -> k.hash % sizenode(T)
         [] OTHER -> k.v % OddModulus(sizenode(T)))

\* The first position on the chain from i that is one of S, or 0.
FirstInChain(T, i, S) ==
  LET find[n \in 0 .. sizenode(T)] ==
        IF n = 0 \/ n \in S THEN n ELSE find[T.node[n].next]
  IN  find[i]

\* The node of a key that is not in the array part, or 0.
FindNode(T, k) ==
  IF isdummy(T) THEN 0
  ELSE FirstInChain(T, mainposition(T, k), {n \in DOMAIN T.node : T.node[n].key = k})

luaH_get(T, k) ==
  IF InArray(T, k) THEN T.array[k.v]
  ELSE IF FindNode(T, k) = 0 THEN "nil" ELSE T.node[FindNode(T, k)].val
-----------------------------------------------------------------------------
(* Inserting.                                                              *)

\* The nodes that getfreepos may still give.
FreeNodes(T) == {i \in 1 .. T.lastfree - 1 : T.node[i].key = nil}

getfreepos(T) == Max(FreeNodes(T))

MainPositionTaken(T, k) == T.node[mainposition(T, k)].val # "nil"

\* Node i becomes e; its value becomes v; its next becomes j.
SetNode(T, i, e) == [T EXCEPT !.node[i] = e]
SetVal(T, i, v) == SetNode(T, i, [T.node[i] EXCEPT !.val = v])
Rechain(T, i, j) == SetNode(T, i, [T.node[i] EXCEPT !.next = j])

\* Fault: the colliding node stays, wherever its own main position is.
luaH_newkey_faulty(T, k, v) ==
  LET mp == mainposition(T, k)
      f == getfreepos(T)
      entry(next) == [key |-> k, val |-> v, next |-> next]
  IN  IF ~MainPositionTaken(T, k)
        THEN SetNode(T, mp, entry(T.node[mp].next))
      ELSE SetNode(Rechain([T EXCEPT !.lastfree = f], mp, f), f, entry(T.node[mp].next))

\* luaH_newkey when no rehash is needed, and the value stored in the new entry.
luaH_newkey(T, k, v) ==
  LET mp == mainposition(T, k)
      f == getfreepos(T)
      othern == mainposition(T, T.node[mp].key)
      previous == FirstInChain(T, othern, {n \in DOMAIN T.node : T.node[n].next = mp})
      searched == [T EXCEPT !.lastfree = f]
      entry(next) == [key |-> k, val |-> v, next |-> next]
  IN  IF ~MainPositionTaken(T, k)
        THEN SetNode(T, mp, entry(T.node[mp].next))
      ELSE IF othern # mp
        THEN SetNode(SetNode(Rechain(searched, previous, f), f, T.node[mp]), mp, entry(0))
      ELSE SetNode(Rechain(searched, mp, f), f, entry(T.node[mp].next))

MustRehash(T, k) ==
  isdummy(T) \/ (MainPositionTaken(T, k) /\ FreeNodes(T) = {})

\* luaH_set and the assignment to what it returns.  An entry that would need a
\* rehash within a rehash gets lost: see ImplementsMap.
luaH_set(T, k, v) ==
  IF InArray(T, k) THEN [T EXCEPT !.array[k.v] = v]
  ELSE IF FindNode(T, k) # 0 THEN SetVal(T, FindNode(T, k), v)
  ELSE IF MustRehash(T, k) THEN T
  ELSE luaH_newkey(T, k, v)
-----------------------------------------------------------------------------
(* Rehash.                                                                 *)

\* The smallest i with n <= 2^i.
luaO_ceillog2(n) == CHOOSE i \in 0 .. n : n <= 2^i /\ (i = 0 \/ 2^(i - 1) < n)

setarrayvector(T, size) ==
  [T EXCEPT !.array = [i \in 1 .. size |->
                         IF i <= sizearray(T) THEN @[i] ELSE "nil"]]

setnodevector(T, size) ==
  LET n == 2^luaO_ceillog2(size)
  IN  IF size = 0 THEN [array |-> T.array, node |-> <<>>, lastfree |-> 0]
      ELSE [array |-> T.array,
            node |-> [i \in 1 .. n |-> [key |-> nil, val |-> "nil", next |-> 0]],
            lastfree |-> n + 1]

\* An entry is inserted again.
Reinsert(T, e) == IF e.val = "nil" THEN T ELSE luaH_set(T, e.key, e.val)

\* One entry after the other.
ReinsertAll(T, entries) ==
  LET up[n \in 0 .. Len(entries)] ==
        IF n = 0 THEN T ELSE Reinsert(up[n - 1], entries[n])
  IN  up[Len(entries)]

\* Fault: the vanishing slice of the array part is forgotten.
luaH_resize_faulty(T, nasize, nhsize) ==
  ReinsertAll(setnodevector(setarrayvector(T, nasize), nhsize), Reverse(T.node))

\* The entries are inserted again: those of the vanishing slice of the array
\* part upwards, those of the hash part downwards.
luaH_resize(T, nasize, nhsize) ==
  LET fields == [i \in 1 .. sizearray(T) |-> [key |-> IntKey(i), val |-> T.array[i]]]
      slice == SubSeq(fields, nasize + 1, sizearray(T))
  IN  ReinsertAll(setnodevector(setarrayvector(T, nasize), nhsize), slice \o Reverse(T.node))

UsedArray(T) == {i \in 1 .. sizearray(T) : T.array[i] # "nil"}
UsedNodes(T) == {i \in 1 .. sizenode(T) : T.node[i].val # "nil"}
UsedIntNodes(T) == {i \in UsedNodes(T) : ttisinteger(T.node[i].key)}

\* How many integer keys up to n the table has and will have with ek:
\* nums[0] + ... + nums[i] where n = 2^i.
CountUpTo(T, ek, n) ==
  Cardinality({i \in UsedArray(T) : i <= n})
    + Cardinality({i \in UsedIntNodes(T) : T.node[i].key.v <= n})
    + (IF ttisinteger(ek) /\ ek.v <= n THEN 1 ELSE 0)

\* The largest power of 2 such that more than half the slots are in use.
computesizes(T, ek) ==
  LET pna == Cardinality(UsedArray(T)) + Cardinality(UsedIntNodes(T))
               + (IF ttisinteger(ek) THEN 1 ELSE 0)
      optimal == {twotoi \in {2^i : i \in 0 .. pna} :
                    /\ pna > twotoi \div 2
                    /\ CountUpTo(T, ek, twotoi) > twotoi \div 2}
  IN  IF optimal = {} THEN 0 ELSE Max(optimal)

\* The sizes of the two parts after a rehash.
NewArraySize(T, ek) == computesizes(T, ek)
NewHashSize(T, ek) ==
  Cardinality(UsedArray(T)) + Cardinality(UsedNodes(T)) + 1
    - CountUpTo(T, ek, NewArraySize(T, ek))

rehash(T, ek) == luaH_resize(T, NewArraySize(T, ek), NewHashSize(T, ek))

\* The table when there is no memory for one of the new parts.  The hash part
\* is the second one: the array part has grown already.
TablesAfterError(T, ek) ==
  LET searched == IF isdummy(T) THEN T ELSE [T EXCEPT !.lastfree = 1]
  IN  {searched} \cup IF NewArraySize(T, ek) <= sizearray(T) THEN {}
                      ELSE {setarrayvector(searched, NewArraySize(T, ek))}
-----------------------------------------------------------------------------
(* Traversal and length.                                                   *)

\* Entries are numbered: those of the array part, then the nodes.
EntryKey(T, i) ==
  IF i <= sizearray(T) THEN IntKey(i) ELSE T.node[i - sizearray(T)].key
EntryVal(T, i) ==
  IF i <= sizearray(T) THEN T.array[i] ELSE T.node[i - sizearray(T)].val

\* The number of the entry of k, which may be a dead key; -1 when there is none.
findindex(T, k) ==
  LET same == {k} \cup IF iscollectable(k) THEN {DeadKey(k.v)} ELSE {}
      n == IF isdummy(T) THEN 0
           ELSE FirstInChain(T, mainposition(T, k),
                             {i \in DOMAIN T.node : T.node[i].key \in same})
  IN  IF k = nil THEN 0
      ELSE IF InArray(T, k) THEN k.v
      ELSE IF n = 0 THEN -1 ELSE n + sizearray(T)

\* From low, which is present, and high, which is not: one that is present and
\* is followed by one that is not.
BinarySearch(present, low, high) ==
  LET halve(p) == LET m == (p[1] + p[2]) \div 2
                  IN  IF p[2] - p[1] <= 1 THEN p
                      ELSE IF m \in present THEN <<m, p[2]>> ELSE <<p[1], m>>
      halved[n \in 0 .. high] == IF n = 0 THEN <<low, high>> ELSE halve(halved[n - 1])
  IN  halved[high][1]

unbound_search(T, j) ==
  LET present == {n \in Number : luaH_get(T, IntKey(n)) # "nil"}
      probe(d) == (j + 1) * 2^d
      last == Min({d \in 0 .. MAX_INT :
                     probe(d) \notin present \/ probe(d) > MAX_INT \div 2})
      entries == sizearray(T) + sizenode(T)
  IN  IF probe(last) \in present
        THEN Min({i \in 1 .. entries + 1 : i \notin present}) - 1
      ELSE BinarySearch(present, IF last = 0 THEN j ELSE probe(last - 1), probe(last))

\* Fault: the array part is taken to be full.
luaH_getn_faulty(T) ==
  IF isdummy(T) THEN sizearray(T) ELSE unbound_search(T, sizearray(T))

luaH_getn(T) ==
  LET j == sizearray(T)
  IN  IF j > 0 /\ T.array[j] = "nil"
        THEN BinarySearch({m \in 1 .. j : T.array[m] # "nil"}, 0, j)
      ELSE IF isdummy(T) THEN j ELSE unbound_search(T, j)
-----------------------------------------------------------------------------
Init ==
  /\ \E na, nh \in Preallocated :
       t = setnodevector(setarrayvector([array |-> <<>>, node |-> <<>>,
                                         lastfree |-> 0], na), nh)
  /\ objects = {}
  /\ key = NoTraversal
  /\ failed = FALSE

\* lua_rawset or luaV_finishset: t[k] = v, where k is in use.
Set(k, v) ==
  /\ iscollectable(k) => k \in objects
  /\ key # NoTraversal => luaH_get(t, k) # "nil"
  /\ IF ~InArray(t, k) /\ FindNode(t, k) = 0 /\ MustRehash(t, k)
       THEN \/ t' = luaH_set(rehash(t, k), k, v) /\ UNCHANGED failed
            \/ t' \in TablesAfterError(t, k) /\ failed' = TRUE
       ELSE t' = luaH_set(t, k, v) /\ UNCHANGED failed
  /\ UNCHANGED <<objects, key>>

\* A loop over the table starts, or is left.
StartTraversal ==
  /\ key = NoTraversal
  /\ key' = nil
  /\ UNCHANGED <<t, objects, failed>>

LeaveTraversal ==
  /\ key # NoTraversal
  /\ key' = NoTraversal
  /\ UNCHANGED <<t, objects, failed>>

\* Fault: empty entries are given too.
luaH_next_faulty ==
  /\ key \notin {NoTraversal, Invalid}
  /\ LET i == findindex(t, key)
     IN  key' = IF i = -1 THEN Invalid
                ELSE IF i = sizearray(t) + sizenode(t) THEN NoTraversal
                ELSE EntryKey(t, i + 1)
  /\ UNCHANGED <<t, objects, failed>>

luaH_next ==
  /\ key \notin {NoTraversal, Invalid}
  /\ LET i == findindex(t, key)
         later == {j \in i + 1 .. sizearray(t) + sizenode(t) : EntryVal(t, j) # "nil"}
     IN  key' = IF i = -1 THEN Invalid
                ELSE IF later = {} THEN NoTraversal
                ELSE EntryKey(t, Min(later))
  /\ UNCHANGED <<t, objects, failed>>

\* A new object, at an address that is free.
NewObject(o) ==
  /\ \A p \in objects : p.v # o.v
  /\ objects' = objects \cup {o}
  /\ UNCHANGED <<t, key, failed>>

\* The collector traverses the table, and the key of an empty entry is white:
\* in use or not, it need not be marked yet.
removeentry(i) ==
  /\ t.node[i].val = "nil"
  /\ iscollectable(t.node[i].key)
  /\ t' = SetNode(t, i, [t.node[i] EXCEPT !.key = DeadKey(@.v)])
  /\ UNCHANGED <<objects, key, failed>>

\* The program has lost o, and the collector frees it; it has traversed the
\* table before.
FreeObject(o) ==
  /\ o # key
  /\ \A i \in DOMAIN t.node : t.node[i].key # o
  /\ objects' = objects \ {o}
  /\ UNCHANGED <<t, key, failed>>

Next ==
  \/ \E k \in Keys, v \in Value \cup {"nil"} : Set(k, v)
  \/ StartTraversal \/ LeaveTraversal \/ luaH_next
  \/ \E o \in Objects : NewObject(o)
  \/ \E i \in DOMAIN t.node : removeentry(i)
  \/ \E o \in objects : FreeObject(o)

Spec == Init /\ [][Next]_vars
-----------------------------------------------------------------------------
(* Properties.                                                             *)

\* The state keeps its type (lobject.h:482-509).
TypeOK ==
  /\ t \in Table
  /\ objects \subseteq Objects
  /\ key \in Keys \cup {nil, NoTraversal, Invalid}

\* An element that is not in its main position collided there with one that is
\* in its own: "a main invariant of these tables" (ltable.c:16-18); and any free
\* position is before lastfree (lobject.h:504), so that the table is full when
\* getfreepos finds no place, and never grows before.
MainInvariant ==
  /\ \A i \in UsedNodes(t) :
       LET m == mainposition(t, t.node[i].key)
       IN  t.node[m].val # "nil" => mainposition(t, t.node[m].key) = m
  /\ \A i \in DOMAIN t.node : i >= t.lastfree => t.node[i].key # nil

\* The length is a border, whatever the distribution of the numeric keys on the
\* two parts, with or without nils between them (ltable.c:637-640).
LengthRight ==
  LET n == luaH_getn(t)
  IN  /\ n = 0 \/ luaH_get(t, IntKey(n)) # "nil"
      /\ luaH_get(t, IntKey(n + 1)) = "nil"
-----------------------------------------------------------------------------
(* LuaTable implements LuaMap.                                             *)

EntryNumber(k) ==
  IF InArray(t, k) THEN k.v ELSE sizearray(t) + FindNode(t, k)

mapBar == [k \in Keys |-> luaH_get(t, k)]
stateBar ==
  IF key = NoTraversal THEN "idle"
  ELSE IF key = Invalid THEN "error" ELSE "traversing"
leftBar ==
  IF key \in {NoTraversal, Invalid} THEN {}
  ELSE {k \in Keys : /\ luaH_get(t, k) # "nil"
                     /\ EntryNumber(k) > findindex(t, key)}

Map == INSTANCE LuaMap WITH
  Key <- Keys, map <- mapBar, state <- stateBar, left <- leftBar

\* The same until a rehash gets no memory, which then loses a field (see the
\* README): what ltable.c does to a table comes to what LuaMap promises.
ImplementsMapInMemory ==
  Map!Init /\ [][failed' \/ Map!Next]_<<mapBar, stateBar, leftBar>>

\* Collisions, moves of nodes, rehashes and the collector's work come to no more
\* than the map that LuaMap promises, and the traversal gives each field once.
ImplementsMap == Map!Spec
=============================================================================
