--------------------------- MODULE LuaRuntime_MC ---------------------------
(***************************************************************************)
(* Parts of the run-time system and table.sort, which share no state in    *)
(* these models, each run by itself: a behaviour is one of the part it     *)
(* begins with.                                                            *)
(***************************************************************************)
EXTENDS LuaZio, FiniteSetsExt

CONSTANTS Parts,                                        \* the parts that are run
          Tables, Strings, Registry, KeySeq, Heaps,     \* LuaWeak
          Main, Coroutines, Closures, Levels, UpVals, MaxSteps, MaxCycles,  \* LuaUpval
          Texts, Hash, Addresses, MinSize, MaxSize,     \* LuaStrTab
          Sizes, Ranks, RANLIMIT, Imbalance             \* LuaSort

VARIABLES part,
          mode, fin, h, held, stage, changed, orig, was, strong, moves,
          stack, uv, openupval, twups, upvals, alive, color, gray, grayagain, gcstate, dead, age, steps, cycles,
          text, colour, hash, size, nuse, strcache, refs, sweeping, unswept,
          a, order, at, lo, up, rnd, p, i, j, pivot, calls

W == INSTANCE LuaWeak
U == INSTANCE LuaUpval
S == INSTANCE LuaStrTab
Q == INSTANCE LuaSort
wvars == <<mode, fin, h, held, stage, changed, orig, was, strong, moves>>
uvars == <<stack, uv, openupval, twups, upvals, alive, color, gray, grayagain, gcstate, dead, age, steps, cycles>>
svars == <<text, colour, hash, size, nuse, strcache, refs, sweeping, unswept>>
qvars == <<a, order, at, lo, up, rnd, p, i, j, pivot, calls>>

\* Tables, strings and what a node or the register holds instead are different
\* things, the first key of a table is its array part, and a heap has nodes for
\* the keys.
ASSUME WeakAssumption ==
  /\ IsFiniteSet(W!Objs) /\ Tables \cap Strings = {} /\ Registry \in Tables
  /\ W!Objs \cap {W!Index, W!Empty, W!Dead, W!Absent, W!None} = {}
  /\ KeySeq \in Seq(W!Objs \cup {W!Index}) /\ KeySeq # <<>> /\ Head(KeySeq) = W!Index
  /\ \A heap \in Heaps :
       /\ heap.mode \in [Tables -> {"", "k", "v", "kv"}] /\ heap.fin \subseteq W!Objs \cap Range(KeySeq)
       /\ heap.held \in W!Objs \cup {W!None} /\ heap.moves \in Nat
       /\ heap.node \in [Tables -> [Range(KeySeq) -> W!Objs \cup {W!Empty, W!Dead, W!Absent}]]

\* No text is taken for "free", and the message of memory errors, which the
\* cache starts with, is never freed; hashes are unsigned, the memory for strings
\* is finite and the table starts with chains.
ASSUME TextAssumption ==
  /\ "free" \notin Texts /\ S!memerrmsg \notin Addresses
  /\ Hash \in [Texts -> Nat] /\ IsFiniteSet(Addresses) /\ MinSize \in Nat \ {0}

\* Threads, closures and nil are different things, the heap is finite, and the
\* stack has a bottom.
ASSUME UpvalAssumption ==
  /\ U!Threads \cap Closures = {} /\ U!Nil \notin U!Objs
  /\ IsFiniteSet(U!Objs) /\ Levels \subseteq Nat

\* The sizes and what decides about random pivots are counts, and an order is
\* one of numbers that stand for the elements.
ASSUME SortAssumption ==
  Sizes \subseteq Nat /\ RANLIMIT \in Int /\ Ranks \subseteq Int

\* The heaps of LuaWeak: two tables of every mode and three userdata, one of
\* which has a finalizer, with one to three entries between them.
Seq1 == <<"index", "T", "U", "a", "b", "c", "s">>
Heaps1 ==
    LET node0      == [t \in Tables |-> [k \in Range(Seq1) |-> "absent"]]
        entries    == ({"T", "U"} \X {"index", "a", "b"} \X {"a", "b", "c"}) \cup {<<"a", "index", "U">>}
        Nodes(n)   == {FoldSet(LAMBDA e, f : [f EXCEPT ![e[1]][e[2]] = e[3]], node0, es) :
                         es \in {x \in kSubset(n, entries) : \A e, f \in x : e[1] = f[1] /\ e[2] = f[2] => e = f}}
        modes      == {<<"k", "k">>, <<"v", "k">>, <<"kv", "k">>, <<"k", "v">>, <<"k", "">>, <<"", "kv">>, <<"", "v">>}
        ModeOf(m)  == [t \in Tables |-> CASE t = "T" -> m[1] [] t = "U" -> m[2] [] OTHER -> ""]
        Of(n, c, hs) == {[mode |-> ModeOf(m), fin |-> {"a"}, held |-> x, moves |-> c,
                          node |-> [f EXCEPT !["R"]["index"] = "T", !["R"]["s"] = r]]
                           : m \in modes, x \in hs, r \in {"U", "T"}, f \in Nodes(n)}
    IN Of(3, 0, {"none", "a"}) \cup Of(2, 0, {"none", "a"}) \cup Of(1, 1, {"none"})
\* "x" and "z" share every bucket of a table of less than four chains.
Hash1 == [t \in Texts |-> CASE t = "x" -> 0 [] t = "y" -> 2 [] OTHER -> 3]

RuntimeInit == /\ part \in Parts
               /\ IF part = "weak" THEN W!Init ELSE W!InitWith(CHOOSE heap \in Heaps : TRUE)
               /\ U!Init /\ S!Init
               /\ Init /\ (part # "input" => cuts = {} /\ ~binary)
               /\ IF part = "sort" THEN Q!SortInit ELSE Q!SortInitWith(0, Q!AnyOrder)
RuntimeNext == \/ part = "weak" /\ W!Next /\ UNCHANGED <<part, uvars, svars, vars, qvars>>
               \/ part = "upvalues" /\ U!Next /\ UNCHANGED <<part, wvars, svars, vars, qvars>>
               \/ part = "strings" /\ S!Next /\ UNCHANGED <<part, wvars, uvars, vars, qvars>>
               \/ part = "input" /\ Next /\ UNCHANGED <<part, wvars, uvars, svars, qvars>>
               \/ part = "sort" /\ Q!SortNext /\ UNCHANGED <<part, wvars, uvars, svars, vars>>
rvars == <<part, wvars, uvars, svars, vars, qvars>>
RuntimeSpec == RuntimeInit /\ [][RuntimeNext]_rvars

\* The invariants of each part, in its behaviours; their comments say what
\* they state, in the modules they come from.
\* Nothing accessible is lost in a collection with weak tables.
NothingLost       == part = "weak" => W!NothingLost
\* A weak table loses exactly the entries the manual says.
EntriesAsPromised == part = "weak" => W!EntriesAsPromised
\* Upvalues are counted, and there as long as they are needed.
UpvaluesCounted   == part = "upvalues" => U!UpvaluesCounted
\* The value of an upvalue of an unmarked thread is kept.
ValuesKept        == part = "upvalues" => U!ValuesKept
\* A cycle through a dead thread is freed in the end.
NoCycleForEver    == part = "upvalues" => U!NoCycleForEver
\* Equal short strings are one object.
InternedOnce      == part = "strings" => S!InternedOnce
\* No string in use or in the cache is about to be freed.
StringsStay       == part = "strings" => S!StringsStay
\* A sort keeps to its interval and its elements, and sorts them.
SortRight         == part = "sort" => Q!SortRight
=============================================================================
