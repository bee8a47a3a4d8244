------------------------------ MODULE LuaWeak ------------------------------
(***************************************************************************)
(* Weak tables in one collection (lgc.c): the mutator moves references     *)
(* while the collector marks (propagate); then, with no mutator, atomic    *)
(* visits again what it must, lets the ephemerons converge, clears weak    *)
(* values, resurrects what has a finalizer and clears weak keys.           *)
(*                                                                         *)
(* A table has a node for each key it was given.  A node holds a value, or *)
(* it is Empty (with its key still there) or Dead (LUA_TDEADKEY); Absent   *)
(* where there is no node.  The key Index stands for the array part, and   *)
(* KeySeq is the order of the nodes.  A userdata is a table nothing is     *)
(* ever stored in.                                                         *)
(***************************************************************************)
EXTENDS Integers, Sequences, SequencesExt, FiniteSets

CONSTANTS Tables, Strings,
          Registry,         \* the table everything is reached from
          KeySeq,
          Heaps             \* the first heaps: [mode, fin, node, held], with a bound
                            \* on the steps of the mutator: moves

Index == "index"
Empty == "empty"
Dead == "dead"
Absent == "absent"
None == "none"
Objs == Tables \cup Strings

VARIABLES mode,        \* [Tables -> {"", "k", "v", "kv"}]: __mode of the metatable
          fin,         \* the objects that have a finalizer
          h,           \* the collector's view: colours, lists and nodes
          held,        \* a register of the running thread
          stage,     \* "propagate", a stage of atomic, or "swept"
          changed,     \* convergeephemerons: some value was marked
          orig,        \* the lists 'weak' and 'allweak' before the finalizers
          was,         \* the heap at the beginning of atomic
          strong,      \* what was marked before the finalizers
          moves
vars == <<mode, fin, h, held, stage, changed, orig, was, strong, moves>>

White(H, o) == o \in Objs /\ H.color[o] = "white"
HasValue(H, t, k) == H.node[t][k] \in Objs

\* reallymarkobject, for markobject and markvalue.
Mark(H, o) ==
    IF ~White(H, o) THEN H
    ELSE IF o \in Strings THEN [H EXCEPT !.color[o] = "black"]
    ELSE [H EXCEPT !.color[o] = "gray", !.gray = <<o>> \o @]

\* A node is Dead once it is empty and its key is not marked.
RemoveEntry(H, t, k) ==
    IF H.node[t][k] = Empty /\ White(H, k) THEN [H EXCEPT !.node[t][k] = Dead] ELSE H
\* iscleared marks a string and says that it stays.
IsCleared(H, o) == White(H, o) /\ o \notin Strings
Stay(H, o)      == IF o \in Strings THEN Mark(H, o) ELSE H

\* One key after the other; the array part comes first.
Visit(base, Entry(_, _)) ==
    LET acc[n \in 0 .. Len(KeySeq)] == IF n = 0 THEN base ELSE Entry(acc[n - 1], KeySeq[n])
    IN acc[Len(KeySeq)]
Link(H, t, list) == [H EXCEPT ![list] = <<t>> \o @]

StrongEntry(G, t, k) ==
    IF HasValue(G, t, k) THEN Mark(Mark(G, k), G.node[t][k]) ELSE RemoveEntry(G, t, k)
TraverseStrong(H, t) == Visit([H EXCEPT !.color[t] = "black"], LAMBDA G, k : StrongEntry(G, t, k))

\* The array part is not traversed; it may have white values.
WeakValueEntry(acc, t, k) ==
    LET G == acc.H v == G.node[t][k] K == Mark(G, k) IN
    CASE k = Index -> acc
      [] k # Index /\ HasValue(G, t, k) ->
            [H |-> IF acc.clears THEN K ELSE Stay(K, v), clears |-> acc.clears \/ IsCleared(K, v)]
      [] OTHER -> [acc EXCEPT !.H = RemoveEntry(G, t, k)]
WeakValueNodes(H, t) ==
    Visit([H |-> H, clears |-> H.node[t][Index] # Absent], LAMBDA acc, k : WeakValueEntry(acc, t, k))
TraverseWeakValue(H, t) ==
    LET visit == WeakValueNodes(H, t)
    IN CASE stage = "propagate" -> Link(visit.H, t, "again")
         [] visit.clears /\ stage # "propagate" -> Link(visit.H, t, "weak")
         [] OTHER -> visit.H

\* "marked" is the result of the function.
EphemeronEntry(acc, t, k) ==
    LET G == acc.H v == G.node[t][k] S == Stay(G, k) IN
    CASE ~HasValue(G, t, k) -> [acc EXCEPT !.H = RemoveEntry(G, t, k)]
      [] HasValue(G, t, k) /\ IsCleared(G, k) -> [acc EXCEPT !.clears = TRUE, !.ww = @ \/ White(G, v)]
      [] OTHER -> [acc EXCEPT !.H = Mark(S, v), !.marked = @ \/ White(S, v)]
EphemeronNodes(H, t) ==
    Visit([H |-> H, marked |-> FALSE, clears |-> FALSE, ww |-> FALSE], LAMBDA acc, k : EphemeronEntry(acc, t, k))
TraverseEphemeron(H, t) ==
    LET visit == EphemeronNodes(H, t)
        list  == IF stage = "propagate" THEN "again" ELSE IF visit.ww THEN "ephemeron"
                 ELSE IF visit.clears THEN "allweak" ELSE None
    IN [H |-> IF list = None THEN visit.H ELSE Link(visit.H, t, list), marked |-> visit.marked]

TraverseTable(H, t) ==
    CASE mode[t] = ""  -> TraverseStrong(H, t)
      [] mode[t] = "v" -> TraverseWeakValue(H, t)
      [] mode[t] = "k" -> TraverseEphemeron(H, t).H
      [] OTHER -> Link(H, t, "allweak")

\* The first table of 'gray'.
PropagateMark(H) == TraverseTable([H EXCEPT !.gray = Tail(@)], Head(H.gray))

ClearKey(G, t, k) ==
    IF ~HasValue(G, t, k) THEN G
    ELSE IF IsCleared(G, k) THEN [G EXCEPT !.node[t][k] = Dead] ELSE Stay(G, k)
ClearValue(G, t, k) ==
    IF ~HasValue(G, t, k) THEN G
    ELSE IF IsCleared(G, G.node[t][k]) THEN RemoveEntry([G EXCEPT !.node[t][k] = Empty], t, k)
    ELSE Stay(G, G.node[t][k])
\* In one table, and in those of a list, one after the other.
ClearKeysOf(H, t)   == Visit(H, LAMBDA G, k : ClearKey(G, t, k))
ClearValuesOf(H, t) == Visit(H, LAMBDA G, k : ClearValue(G, t, k))
Clear(H, list, Of(_, _)) ==
    LET G[n \in 0 .. Len(list)] == IF n = 0 THEN H ELSE Of(G[n - 1], list[n]) IN G[Len(list)]
ClearKeys(H, list)   == Clear(H, list, ClearKeysOf)
ClearValues(H, list) == Clear(H, list, ClearValuesOf)
\* Fault: they are forgotten.
NewIn_faulty(list, before) == <<>>
\* The tables linked to a list in front of those that were there before.
NewIn(list, before) == SubSeq(list, 1, Len(list) - Len(before))

----------------------------------------------------------------------------
InitWith(heap) ==
        /\ mode = heap.mode /\ fin = heap.fin /\ held = heap.held /\ moves = heap.moves
        /\ h = [color |-> [o \in Objs |-> IF o = Registry THEN "gray" ELSE "white"],
                gray |-> <<Registry>>, again |-> <<>>, weak |-> <<>>, ephemeron |-> <<>>,
                next |-> <<>>, allweak |-> <<>>, node |-> heap.node]
        /\ stage = "propagate" /\ changed = FALSE /\ orig = [weak |-> <<>>, allweak |-> <<>>]
        /\ was = None /\ strong = {}
Init == \E heap \in Heaps : InitWith(heap)

\* What S leads to in as many steps as there are objects.
Closure(S, Step(_)) ==
    LET led[n \in 0 .. Cardinality(Objs)] == IF n = 0 THEN S ELSE Step(led[n - 1])
    IN led[Cardinality(Objs)]
\* What the program can get at: the registry, its register, what they lead to.
References(S) == S \cup {v \in Objs : \E t \in S \cap Tables : \E k \in DOMAIN h.node[t] :
                                        h.node[t][k] = v \/ (k = v /\ HasValue(h, t, k))}
Roots == {Registry, held} \cap Objs
Accessible == Closure(Roots, References)

\* The mutator, between two steps of the collector: it reads an entry into
\* its register, or drops what it holds,
Read == /\ stage = "propagate" /\ moves > 0
        /\ held' \in (Accessible \ {held}) \cup {None}
        /\ moves' = moves - 1
        /\ UNCHANGED <<mode, fin, h, stage, changed, orig, was, strong>>
\* or stores an object or nil in a table, with the barrier of the assignment
\* and, for a key that has no node, the one of luaH_newkey.
Put(t, k, v) ==
    LET new == [h EXCEPT !.node[t][k] = v] IN
    h' = IF h.color[t] = "black" /\ (White(h, v) \/ (White(h, k) /\ h.node[t][k] \in {Absent, Dead}))
         THEN [Link(new, t, "again") EXCEPT !.color[t] = "gray"] ELSE new
Store == /\ stage = "propagate" /\ moves > 0
         /\ \E t \in Accessible \cap Tables, k \in (Accessible \cup {Index}) \cap Range(KeySeq),
               v \in Accessible \cup {Empty} :
              h.node[t][k] # v /\ (v = Empty => HasValue(h, t, k)) /\ Put(t, k, v)
         /\ moves' = moves - 1
         /\ UNCHANGED <<mode, fin, held, stage, changed, orig, was, strong>>

GC(new) == h' = new /\ UNCHANGED <<mode, fin, held, moves>>
Go(s) == stage' = s
Same == UNCHANGED <<changed, orig, was, strong>>

\* One gray table, in the propagate phase or in propagateall.
Propagate == /\ h.gray # <<>>
             /\ GC(PropagateMark(h)) /\ UNCHANGED stage /\ Same

At(s) == stage = s /\ h.gray = <<>>
Atomic == /\ At("propagate") /\ GC(Mark(Mark(h, held), Registry)) /\ Go("remarked")
          /\ was' = h.node /\ UNCHANGED <<changed, orig, strong>>
GrayAgain == /\ At("remarked")
             /\ GC([h EXCEPT !.gray = h.again, !.again = <<>>]) /\ Go("converge") /\ changed' = TRUE
             /\ UNCHANGED <<orig, was, strong>>
\* convergeephemerons, before and after the finalizers ("converge2").
Converging == stage \in {"converge", "converge2"} /\ h.gray = <<>>
Round == /\ Converging /\ h.next = <<>> /\ changed
         /\ GC([h EXCEPT !.next = h.ephemeron, !.ephemeron = <<>>]) /\ changed' = FALSE
         /\ UNCHANGED <<stage, orig, was, strong>>
\* Fault: whether a value was marked is not looked at.
Ephemeron_faulty == /\ Converging /\ h.next # <<>>
                    /\ GC(TraverseEphemeron([h EXCEPT !.next = Tail(@)], Head(h.next)).H)
                    /\ UNCHANGED <<stage, changed, orig, was, strong>>
Ephemeron == /\ Converging /\ h.next # <<>>
             /\ LET T == TraverseEphemeron([h EXCEPT !.next = Tail(@)], Head(h.next))
                IN GC(T.H) /\ changed' = (changed \/ T.marked)
             /\ UNCHANGED <<stage, orig, was, strong>>
Converged == Converging /\ h.next = <<>> /\ ~changed
ClearDeadValues ==
    /\ stage = "converge" /\ Converged
    /\ GC(ClearValues(ClearValues(h, h.weak), h.allweak)) /\ Go("finalizers")
    /\ orig' = [weak |-> h.weak, allweak |-> h.allweak]
    /\ strong' = {o \in Objs : ~White(h, o)}
    /\ UNCHANGED <<changed, was>>
\* separatetobefnz, markbeingfnz.
Finalized(G, o) == IF o \in fin THEN Mark(G, o) ELSE G
markbeingfnz(H) == Visit(H, Finalized)
MarkBeingFnz == /\ At("finalizers")
                /\ GC(markbeingfnz(h)) /\ Go("converge2")
                /\ changed' = TRUE /\ UNCHANGED <<orig, was, strong>>
ClearDead ==
    /\ stage = "converge2" /\ Converged
    /\ LET keys == ClearKeys(ClearKeys(h, h.ephemeron), h.allweak)
       IN GC(ClearValues(ClearValues(keys, NewIn(keys.weak, orig.weak)), NewIn(keys.allweak, orig.allweak)))
    /\ Go("swept") /\ Same
Next == \/ Read \/ Store \/ Propagate \/ Atomic \/ GrayAgain \/ Round \/ Ephemeron
        \/ ClearDeadValues \/ MarkBeingFnz \/ ClearDead
Spec == Init /\ [][Next]_vars

----------------------------------------------------------------------------
Swept == stage = "swept"
Survives(o) == ~White(h, o)
Weak(t, c) == mode[t] \in {c, "kv"}

\* What the manual calls accessible when atomic begins: an ephemeron leads to
\* a value only if its key is accessible in another way.
Leads(S) == S \cup {v \in Objs : \E t \in S \cap Tables : \E k \in {x \in DOMAIN was[t] : was[t][x] \in Objs} :
                      \/ v = was[t][k] /\ ~Weak(t, "v") /\ (Weak(t, "k") => k \in S \cup Strings \cup {Index})
                      \/ v = k /\ ~Weak(t, "k")}
Live(S) == Closure(S, Leads)

\* Nothing that is accessible is lost, however the ephemerons hang on each
\* other and whatever the program moved while the collector was marking; an
\* object with a finalizer survives with all it leads to (atomic,
\* convergeephemerons).
NothingLost ==
    Swept => /\ \A o \in Live(Roots) : o \in strong /\ Survives(o)
             /\ \A o \in Live(Roots \cup fin) : Survives(o)

\* A weak table that survives loses exactly the entries the manual says: one
\* with a weak value that only a finalizer can still see goes before the
\* finalizer runs, one with such a weak key stays until after it; nothing
\* that is freed is left in a table (clearvalues, clearkeys).
EntriesAsPromised ==
    Swept => \A t \in {x \in Tables : Survives(x)} : \A k \in {x \in DOMAIN was[t] : was[t][x] \in Objs} :
        LET v == was[t][k] IN
        HasValue(h, t, k) <=> /\ Weak(t, "v") => v \in Strings \/ (IF t \in strong THEN v \in strong ELSE Survives(v))
                              /\ Weak(t, "k") => k \in Strings \/ Survives(k)

\* "If entry is empty and its key is not marked, mark its entry as dead": no
\* node of a table that survives keeps the address of an object that is freed.
NoStaleKey == Swept => \A t \in {x \in Tables : Survives(x)} : \A k \in DOMAIN was[t] :
                          h.node[t][k] = Empty => ~White(h, k)
=============================================================================
