----------------------------- MODULE LuaStrTab -----------------------------
(***************************************************************************)
(* The table of short strings and the cache of luaS_new (lstring.c), with  *)
(* what the collector does to them: marking, clearing the cache, sweeping  *)
(* one string after the other and shrinking the table (lgc.c).  Memory may *)
(* be refused when the table grows.                                        *)
(***************************************************************************)
EXTENDS Integers, Sequences, SequencesExt, FiniteSets

CONSTANTS Texts, Hash,     \* the strings there are, and their hashes
          Addresses,       \* memory for string objects
          MinSize, MaxSize

memerrmsg == "memerrmsg"

VARIABLES text,        \* [Addresses -> Texts or "free"]
          colour,      \* [Addresses -> "now", "old" (the two whites) or "black"]
          hash, size, nuse,       \* strt: the chains, from 0
          strcache,    \* the set of the cache all the addresses fall into (STRCACHE_M = 2)
          refs,        \* the objects the program refers to
          sweeping, unswept
svars == <<text, colour, hash, size, nuse, strcache, refs, sweeping, unswept>>

Bucket(t, n) == Hash[t] % n
IsDead(a) == colour[a] = "old"

----------------------------------------------------------------------------
Init == /\ text = [a \in Addresses |-> "free"] /\ colour = [a \in Addresses |-> "now"]
        /\ hash = [b \in 0..(MinSize - 1) |-> <<>>] /\ size = MinSize /\ nuse = 0
        /\ strcache = <<memerrmsg, memerrmsg>>
        /\ refs = {} /\ sweeping = FALSE /\ unswept = {}

\* Fault: the new chain is the one of the old size.
Rehash_faulty(chains, old, new) == [b \in 0..(new - 1) |-> IF b < old THEN chains[b] ELSE <<>>]
\* luaS_resize: each chain in turn is moved, string by string, to the front of
\* the new ones; a string may be met again in a chain further on.
MoveChain(chains, b, new) ==
    LET chain == chains[b]
        moved[n \in 0..Len(chain)] ==
          IF n = 0 THEN [chains EXCEPT ![b] = <<>>]
          ELSE [moved[n - 1] EXCEPT ![Bucket(text[chain[n]], new)] = <<chain[n]>> \o @]
    IN moved[Len(chain)]
Rehash(chains, old, new) ==
    LET wide == [b \in 0..((IF old > new THEN old ELSE new) - 1) |-> IF b < old THEN chains[b] ELSE <<>>]
        all[b \in 0..old] == IF b = 0 THEN wide ELSE MoveChain(all[b - 1], b - 1, new)
    IN [b \in 0..(new - 1) |-> all[old][b]]

\* internshrstr: W is [text, colour, hash, size, nuse, a], a being the result.
Found(t) == {a \in Addresses : Contains(hash[Bucket(t, size)], a) /\ text[a] = t}
Reuse(a) == [text |-> text, colour |-> colour, hash |-> hash, size |-> size, nuse |-> nuse, a |-> a]
\* Fault: a dead string is not resurrected.
Resurrect_faulty(a) == Reuse(a)
Resurrect(a) == [Reuse(a) EXCEPT !.colour[a] = IF IsDead(a) THEN "now" ELSE @]
Create(t, a, grown) ==
    LET n == IF grown THEN size * 2 ELSE size
        H == IF grown THEN Rehash(hash, size, n) ELSE hash
    IN [text |-> [text EXCEPT ![a] = t], colour |-> [colour EXCEPT ![a] = "now"],
        hash |-> [H EXCEPT ![Bucket(t, n)] = <<a>> \o @], size |-> n, nuse |-> nuse + 1, a |-> a]
MustGrow == nuse >= size /\ size <= MaxSize \div 2
InternShrStr(t) == IF Found(t) # {} THEN {Resurrect(a) : a \in Found(t)}
                   ELSE {Create(t, a, MustGrow) : a \in {x \in Addresses : text[x] = "free"}}
Becomes(W) == /\ text' = W.text /\ colour' = W.colour /\ hash' = W.hash /\ size' = W.size /\ nuse' = W.nuse
              /\ refs' = refs \cup {W.a}

NewLStr == /\ \E t \in Texts : \E W \in InternShrStr(t) : Becomes(W)
           /\ UNCHANGED <<strcache, sweeping, unswept>>
\* luaS_new.
Hits(t) == {j \in DOMAIN strcache : strcache[j] # memerrmsg /\ text[strcache[j]] = t}
NewHit == /\ \E t \in Texts : Hits(t) # {} /\ refs' = refs \cup {strcache[CHOOSE j \in Hits(t) : \A i \in Hits(t) : j <= i]}
          /\ UNCHANGED <<text, colour, hash, size, nuse, strcache, sweeping, unswept>>
NewMiss == /\ \E t \in {x \in Texts : Hits(x) = {}} : \E W \in InternShrStr(t) :
                 Becomes(W) /\ strcache' = <<W.a, strcache[1]>>
           /\ UNCHANGED <<sweeping, unswept>>
\* The same when there is no memory to let the table grow, or none for the
\* string when it has grown: the cache has its elements moved.
NewFails == /\ \E t \in Texts : Hits(t) = {} /\ Found(t) = {} /\ strcache' = <<strcache[1], strcache[1]>>
            /\ \/ UNCHANGED <<hash, size>>
               \/ MustGrow /\ size' = size * 2 /\ hash' = Rehash(hash, size, size * 2)
            /\ UNCHANGED <<text, colour, nuse, refs, sweeping, unswept>>
\* The program forgets a reference.
Forget == /\ \E a \in refs : refs' = refs \ {a}
          /\ UNCHANGED <<text, colour, hash, size, nuse, strcache, sweeping, unswept>>

\* The end of atomic.  What is marked is at least what the program refers to.
ClearCache(marked) == [j \in DOMAIN strcache |-> IF strcache[j] \in marked THEN strcache[j] ELSE memerrmsg]
Atomic == /\ ~sweeping
          /\ \E marked \in SUBSET {a \in Addresses : text[a] # "free"} :
                /\ refs \subseteq marked
                /\ colour' = [a \in Addresses |-> IF a \in marked THEN "black" ELSE "old"]
                /\ strcache' = ClearCache(marked)
          /\ sweeping' = TRUE
          /\ unswept' = {a \in Addresses : text[a] # "free"}
          /\ UNCHANGED <<text, hash, size, nuse, refs>>
\* luaS_remove
Without(chain, a) == RemoveAt(chain, Min({n \in DOMAIN chain : chain[n] = a}))
RemoveStr(a) == [hash EXCEPT ![Bucket(text[a], size)] = Without(@, a)]
SweepStep == /\ sweeping
             /\ \E a \in unswept :
                   /\ IF IsDead(a) THEN /\ text' = [text EXCEPT ![a] = "free"] /\ hash' = RemoveStr(a) /\ nuse' = nuse - 1
                                        /\ UNCHANGED colour
                      ELSE colour' = [colour EXCEPT ![a] = "now"] /\ UNCHANGED <<text, hash, nuse>>
                   /\ unswept' = unswept \ {a}
             /\ UNCHANGED <<size, strcache, refs, sweeping>>
\* checkSizes
CheckSizes == /\ sweeping /\ unswept = {}
              /\ LET shrink == nuse < size \div 4 IN
                 IF shrink THEN size' = size \div 2 /\ hash' = Rehash(hash, size, size \div 2)
                 ELSE UNCHANGED <<hash, size>>
              /\ sweeping' = FALSE
              /\ UNCHANGED <<text, colour, nuse, strcache, refs, unswept>>
Next == NewLStr \/ NewHit \/ NewMiss \/ NewFails \/ Forget \/ Atomic \/ SweepStep \/ CheckSizes
Spec == Init /\ [][Next]_svars

----------------------------------------------------------------------------
\* There is one object for a text, dead or not, once, in the chain its hash
\* says, however often the table grows and shrinks between two sweeps: equal
\* short strings are equal addresses (internshrstr, luaS_resize).
InternedOnce ==
    LET used == {a \in Addresses : text[a] # "free"}
        In(a, b) == Cardinality({n \in DOMAIN hash[b] : hash[b][n] = a})
    IN /\ \A a \in used : \A b \in 0..(size - 1) : In(a, b) = IF b = Bucket(text[a], size) THEN 1 ELSE 0
       /\ \A a, b \in used : text[a] = text[b] => a = b
       /\ nuse = Cardinality(used)
       /\ DOMAIN hash = 0..(size - 1) /\ \A a \in Addresses \ used : \A b \in 0..(size - 1) : In(a, b) = 0

\* What the program refers to and what the cache would give it again is never
\* a string the sweep is about to free (changewhite, luaS_clearcache).
StringsStay == \A a \in refs \cup {strcache[j] : j \in DOMAIN strcache} :
                  a # memerrmsg => text[a] # "free" /\ ~IsDead(a)
=============================================================================
