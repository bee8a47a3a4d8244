------------------------------- MODULE LuaGC -------------------------------
(***************************************************************************)
(* The incremental mark-and-sweep collector of lgc.c, interleaved with the *)
(* running program.  Running code works on the stack of the running        *)
(* thread, as the C API and the virtual machine do, and executes the write *)
(* barriers; the collector advances by one 'singlestep' at a time; the     *)
(* finalizers run between its steps.                                       *)
(*                                                                         *)
(* What an object holds is the set of the objects it refers to (fields,    *)
(* metatable, user value, upvalues or stack slots).  The gray lists are    *)
(* sets: the order in which the code takes objects from them is left open. *)
(* So is the order of 'allgc' and 'finobj'; of 'tobefnz', a queue, the     *)
(* module keeps what matters: its swept elements come before the others.   *)
(*                                                                         *)
(* A definition called X_faulty, or X_faulty2, is a wrong   *)
(* version of the one that follows it, and part of no specification: TLC   *)
(* shows with it that a property notices that fault.                       *)
(***************************************************************************)
EXTENDS Naturals, Sequences, FiniteSets, LuaReach

CONSTANTS
  Table,       \* addresses at which a table may be allocated,
  Userdata,    \* a full userdata,
  String,      \* a string (short: interned),
  Closure,     \* a C closure or a function prototype,
  Thread,      \* a thread (coroutine)
  MainThread,  \* g->mainthread
  GCSWEEPMAX,  \* how many objects one step of a sweep visits
  StackLimit,  \* bound: objects referred to by one stack
  FieldLimit,  \* bound: objects referred to by any other object
  RootLimit    \* bound: global slots in use

Obj == Table \cup Userdata \cup String \cup Closure \cup Thread

ASSUME ObjAssumption ==
  /\ IsFiniteSet(Obj)
  /\ MainThread \in Thread
  /\ Thread \cap (Table \cup Userdata \cup String \cup Closure) = {}
  /\ (Userdata \cup String) \cap (Table \cup Closure) = {}
  /\ Userdata \cap String = {}

ASSUME BoundAssumption ==
  /\ GCSWEEPMAX \in Nat \ {0}
  /\ StackLimit \in Nat
  /\ FieldLimit \in Nat
  /\ RootLimit \in Nat

VARIABLES
  list,          \* [Obj -> "free", or the list that links the object]
  marked,        \* [Obj -> colour]: the colour bits of field 'marked'
  refs,          \* [Obj -> SUBSET Obj]: the references an object holds
  roots,         \* SUBSET Table: g->l_registry and g->mt
  cstack,        \* Seq(Thread): the main thread, then the resumed coroutines
  currentwhite,  \* g->currentwhite
  gcstate,       \* g->gcstate
  gray,          \* the list g->gray
  grayagain,     \* the list g->grayagain
  tosweep,       \* the objects of the current list not before g->sweepgc
  fullgc,        \* luaC_fullgc: "finish"es a cycle, "collect"s; or "no"
  gckind         \* g->gckind

heapVars == <<list, refs, roots, cstack>>
markVars == <<marked, currentwhite, gray, grayagain>>
vars == <<list, marked, refs, roots, cstack, currentwhite, gcstate, gray,
          grayagain, tosweep, fullgc, gckind>>

Lists == {"free", "allgc", "finobj", "tobefnz", "mainthread"}
WhiteBits == {"white0", "white1"}
Colours == WhiteBits \cup {"gray", "black"}
States == {"GCSpropagate", "GCSatomic", "GCSswpallgc", "GCSswpfinobj",
           "GCSswptobefnz", "GCSswpend", "GCScallfin", "GCSpause"}

Allocated == {o \in Obj : list[o] # "free"}
Linked(l) == {o \in Obj : list[o] = l}
tofinalize(o) == list[o] \in {"finobj", "tobefnz"}

otherwhite(w) == IF w = "white0" THEN "white1" ELSE "white0"
iswhite(o) == marked[o] \in WhiteBits
isblack(o) == marked[o] = "black"
isgray(o) == marked[o] = "gray"
isdead(o) == marked[o] = otherwhite(currentwhite)
White == {o \in Allocated : iswhite(o)}

keepinvariant == gcstate \in {"GCSpropagate", "GCSatomic"}
issweepphase ==
  gcstate \in {"GCSswpallgc", "GCSswpfinobj", "GCSswptobefnz", "GCSswpend"}

\* The running thread L, and the threads lua_resume has on the C stack.
L == cstack[Len(cstack)]
Active == {cstack[i] : i \in 1 .. Len(cstack)}

-----------------------------------------------------------------------------
(* Marking.                                                                *)

\* The white objects that marking S turns gray or black at once: a userdata
\* is visited on the spot, so marking goes on to what it refers to.
MarkedAtOnce(S) ==
  Reach(Obj, S \cap White, [o \in Obj |-> IF o \in Userdata
                                          THEN refs[o] \cap White ELSE {}])

\* Userdata and strings turn black, all others gray.
reallymarkobject(R) ==
  [o \in Obj |-> IF o \notin R THEN marked[o]
                 ELSE IF o \in Userdata \cup String THEN "black" ELSE "gray"]

\* Of the objects just marked, those to be traversed later.
ToTraverse(R) == R \ (Userdata \cup String)

\* Fault: the barrier asks whether o is dead, not whether it is white.
NeedsBarrier_faulty(x, o) == isblack(x) /\ isdead(o)

\* luaC_barrier, luaC_objbarrier: x, black, now refers to o, white.  While the
\* invariant is kept o is marked; in a sweep x is made white instead.
NeedsBarrier(x, o) == isblack(x) /\ iswhite(o)
BarrierMarks(x, o) ==
  IF NeedsBarrier(x, o) /\ keepinvariant THEN MarkedAtOnce({o}) ELSE {}
BarrierColours(x, o) ==
  IF NeedsBarrier(x, o) /\ ~keepinvariant
  THEN [marked EXCEPT ![x] = currentwhite]
  ELSE reallymarkobject(BarrierMarks(x, o))

-----------------------------------------------------------------------------
(* Running code.  A full collection happens inside one of its operations,  *)
(* so none starts before the collection ends, except in the finalizers     *)
(* that a full collection runs when it is not an emergency.                *)

CanRun ==
  fullgc = "no" \/ (gckind = "KGC_NORMAL" /\ gcstate = "GCScallfin")
OnStack(o) == o \in refs[L]
StackOf(t, o) == /\ Cardinality(refs[t] \cup {o}) <= StackLimit
                 /\ refs' = [refs EXCEPT ![t] = @ \cup {o}]
Push(o) == StackOf(L, o)
HeldBy(x, o) == /\ Cardinality(refs[x] \cup {o}) <= FieldLimit
                /\ refs' = [refs EXCEPT ![x] = @ \cup {o}]

\* A new object, current white, goes to the head of 'allgc' and on the stack.
luaC_newobj(o) ==
  /\ CanRun /\ list[o] = "free"
  /\ Push(o)
  /\ list' = [list EXCEPT ![o] = "allgc"]
  /\ marked' = [marked EXCEPT ![o] = currentwhite]
  /\ UNCHANGED <<roots, cstack, currentwhite, gcstate, gray, grayagain,
                 tosweep, fullgc, gckind>>

\* A string still in the string table is used again, dead or not.
internshrstr(s) ==
  /\ CanRun /\ s \in Allocated
  /\ Push(s)
  /\ marked' = [marked EXCEPT ![s] = IF isdead(s) THEN currentwhite ELSE @]
  /\ UNCHANGED <<list, roots, cstack, currentwhite, gcstate, gray, grayagain,
                 tosweep, fullgc, gckind>>

\* Something an object on the stack, or a global slot, refers to is pushed.
GetField(o) ==
  /\ CanRun
  /\ o \in roots \/ \E x \in refs[L] : o \in refs[x] /\ x \notin Thread
  /\ Push(o)
  /\ UNCHANGED <<list, marked, roots, cstack, currentwhite, gcstate, gray,
                 grayagain, tosweep, fullgc, gckind>>

\* A slot of the running thread's stack is popped or overwritten.
Pop(o) ==
  /\ CanRun /\ OnStack(o)
  /\ refs' = [refs EXCEPT ![L] = @ \ {o}]
  /\ UNCHANGED <<list, marked, roots, cstack, currentwhite, gcstate, gray,
                 grayagain, tosweep, fullgc, gckind>>

\* A slot of a table or of a closure is overwritten or set to nil.
ClearField(x, o) ==
  /\ CanRun /\ OnStack(x) /\ x \notin Thread /\ o \in refs[x]
  /\ refs' = [refs EXCEPT ![x] = @ \ {o}]
  /\ UNCHANGED <<list, marked, roots, cstack, currentwhite, gcstate, gray,
                 grayagain, tosweep, fullgc, gckind>>

\* Fault: the barrier makes the table gray, but links it in no list.
SetTable_faulty(t, o) ==
  /\ CanRun /\ OnStack(t) /\ OnStack(o)
  /\ HeldBy(t, o)
  /\ marked' = IF NeedsBarrier(t, o) THEN [marked EXCEPT ![t] = "gray"] ELSE marked
  /\ UNCHANGED <<list, roots, cstack, currentwhite, gcstate, gray, grayagain,
                 tosweep, fullgc, gckind>>

\* t[o] or t[...] = o, by lua_rawset, luaV_finishset, OP_SETLIST, luaH_newkey:
\* luaC_barrierback makes a black table gray again.
SetTable(t, o) ==
  /\ CanRun /\ OnStack(t) /\ OnStack(o)
  /\ HeldBy(t, o)
  /\ IF NeedsBarrier(t, o)
     THEN /\ marked' = [marked EXCEPT ![t] = "gray"]
          /\ grayagain' = grayagain \cup {t}
     ELSE UNCHANGED <<marked, grayagain>>
  /\ UNCHANGED <<list, roots, cstack, currentwhite, gcstate, gray, tosweep,
                 fullgc, gckind>>

\* A metatable without '__gc', a userdata's value, a C closure's upvalue, a
\* prototype's constant.
SetOther(x, o) ==
  /\ CanRun /\ OnStack(x) /\ OnStack(o)
  /\ HeldBy(x, o)
  /\ marked' = BarrierColours(x, o)
  /\ gray' = gray \cup ToTraverse(BarrierMarks(x, o))
  /\ UNCHANGED <<list, roots, cstack, currentwhite, gcstate, grayagain,
                 tosweep, fullgc, gckind>>

\* sweeptolive, called when the sweep stands at an object that leaves 'allgc':
\* it goes on over dead objects up to the first live one, or to the end.
SweptToLive ==
  {S \in SUBSET tosweep :
     LET live == {o \in S : ~isdead(o)} IN
     Cardinality(live) = 1 \/ (live = {} /\ S = tosweep)}

\* lua_setmetatable with a metatable that has '__gc': luaC_checkfinalizer also
\* moves x from 'allgc' to 'finobj' and, in a sweep, makes it white.
SetFinalizer(x, mt) ==
  /\ CanRun /\ OnStack(x) /\ OnStack(mt) /\ ~tofinalize(x)
  /\ Cardinality(refs[x] \cup {mt}) <= FieldLimit
  /\ \E S \in {{}} \cup SweptToLive :
       LET dead == {o \in S : isdead(o)} IN
       /\ S # {} => gcstate = "GCSswpallgc" /\ x \notin tosweep
       /\ list' = [o \in Obj |-> IF o \in dead THEN "free"
                                 ELSE IF o = x THEN "finobj" ELSE list[o]]
       /\ refs' = [o \in Obj |-> IF o \in dead THEN {}
                                 ELSE IF o = x THEN refs[x] \cup {mt} ELSE refs[o]]
       /\ marked' = [o \in Obj |-> IF o \in dead THEN "white0"
                                   ELSE IF o \in S \/ (o = x /\ issweepphase)
                                   THEN currentwhite ELSE BarrierColours(x, mt)[o]]
       /\ tosweep' = tosweep \ (S \cup {x})
  /\ gray' = gray \cup ToTraverse(BarrierMarks(x, mt))
  /\ UNCHANGED <<roots, cstack, currentwhite, gcstate, grayagain, fullgc, gckind>>

\* The metatable of a basic type is set, without any barrier, or reset.
SetTypeMetatable(mt) ==
  /\ CanRun /\ OnStack(mt)
  /\ roots' \in {roots \cup {mt}, roots \ {mt}}
  /\ Cardinality(roots') <= RootLimit
  /\ UNCHANGED <<list, marked, refs, cstack, currentwhite, gcstate, gray,
                 grayagain, tosweep, fullgc, gckind>>

\* lua_xmove between the running thread and a suspended coroutine.
lua_xmove(from, to, o) ==
  /\ CanRun /\ o \in refs[from] /\ from # to
  /\ L \in {from, to} /\ ({from, to} \ {L}) \subseteq (refs[L] \ Active)
  /\ Cardinality(refs[to] \cup {o}) <= StackLimit
  /\ \E rest \in {refs[from], refs[from] \ {o}} :
       refs' = [refs EXCEPT ![from] = rest, ![to] = @ \cup {o}]
  /\ UNCHANGED <<list, marked, roots, cstack, currentwhite, gcstate, gray,
                 grayagain, tosweep, fullgc, gckind>>

\* lua_resume of a coroutine that stays on the stack of the thread that resumes
\* it, and lua_yield or the end of its function.
lua_resume(co) ==
  /\ CanRun /\ OnStack(co) /\ co \notin Active
  /\ cstack' = Append(cstack, co)
  /\ UNCHANGED <<list, refs, roots, markVars, gcstate, tosweep, fullgc, gckind>>

\* Fault: the main thread, too, may yield.
lua_yield_faulty ==
  /\ CanRun
  /\ cstack' = SubSeq(cstack, 1, Len(cstack) - 1)
  /\ UNCHANGED <<list, refs, roots, markVars, gcstate, tosweep, fullgc, gckind>>

lua_yield ==
  /\ CanRun /\ Len(cstack) > 1
  /\ cstack' = SubSeq(cstack, 1, Len(cstack) - 1)
  /\ UNCHANGED <<list, refs, roots, markVars, gcstate, tosweep, fullgc, gckind>>

\* GCTM: the first object of 'tobefnz' goes back to 'allgc', white if in a
\* sweep, and its finalizer is called with it.  When the object is the one
\* 'sweepgc' stands at, the sweep follows it into 'allgc', all white by then,
\* and the rest of 'tobefnz' is not swept in this cycle.
GCTM(o) ==
  LET swept == Linked("tobefnz") \ tosweep IN
  /\ CanRun /\ list[o] = "tobefnz" /\ gcstate # "GCSpause"
  /\ gcstate = "GCSswptobefnz" /\ swept # {} => o \in swept
  /\ refs' = [refs EXCEPT ![L] = @ \cup {o}]
  /\ list' = [list EXCEPT ![o] = "allgc"]
  /\ marked' = [marked EXCEPT ![o] = IF issweepphase THEN currentwhite ELSE @]
  /\ tosweep' = IF gcstate = "GCSswptobefnz" /\ swept = {o}
                THEN {} ELSE tosweep \ {o}
  /\ UNCHANGED <<roots, cstack, currentwhite, gcstate, gray, grayagain, fullgc, gckind>>

-----------------------------------------------------------------------------
(* The collector: singlestep, by state.                                    *)

\* Up to n objects of a list that has T still to be swept.
Slices(T, n) ==
  {S \in SUBSET T : Cardinality(S) = n \/ (S = T /\ Cardinality(T) <= n)}

\* Fault: the objects that survive keep their colour.
sweeplist_faulty(S, m, w, l) ==
  LET dead == {o \in S : m[o] = otherwhite(w)} IN
  /\ list' = [o \in Obj |-> IF o \in dead THEN "free" ELSE l[o]]
  /\ refs' = [o \in Obj |-> IF o \in dead THEN {} ELSE refs[o]]
  /\ marked' = [o \in Obj |-> IF o \in dead THEN "white0" ELSE m[o]]

\* Fault: all objects survive.
sweeplist_faulty2(S, m, w, l) ==
  /\ list' = l
  /\ marked' = [o \in Obj |-> IF o \in S THEN w ELSE m[o]]
  /\ UNCHANGED refs

\* sweeplist: the dead objects of S are freed, the others are made white.  The
\* colours are m before and the current white is w.
sweeplist(S, m, w, l) ==
  LET dead == {o \in S : m[o] = otherwhite(w)} IN
  /\ list' = [o \in Obj |-> IF o \in dead THEN "free" ELSE l[o]]
  /\ refs' = [o \in Obj |-> IF o \in dead THEN {} ELSE refs[o]]
  /\ marked' = [o \in Obj |-> IF o \in dead THEN "white0"
                              ELSE IF o \in S THEN w ELSE m[o]]

\* Fault: 'grayagain' keeps what a cycle that was given up left in it.
restartcollection_faulty ==
  LET R == MarkedAtOnce({MainThread} \cup roots \cup Linked("tobefnz")) IN
  /\ gcstate = "GCSpause" /\ fullgc # "collect"
  /\ gcstate' = "GCSpropagate"
  /\ marked' = reallymarkobject(R)
  /\ gray' = ToTraverse(R)
  /\ fullgc' = IF fullgc = "finish" THEN "collect" ELSE fullgc
  /\ UNCHANGED <<heapVars, currentwhite, grayagain, tosweep, gckind>>

\* GCSpause: a cycle starts with the roots and empty gray lists.
restartcollection ==
  LET R == MarkedAtOnce({MainThread} \cup roots \cup Linked("tobefnz")) IN
  /\ gcstate = "GCSpause" /\ fullgc # "collect"
  /\ gcstate' = "GCSpropagate"
  /\ marked' = reallymarkobject(R)
  /\ gray' = ToTraverse(R)
  /\ grayagain' = {}
  /\ fullgc' = IF fullgc = "finish" THEN "collect" ELSE fullgc
  /\ UNCHANGED <<heapVars, currentwhite, tosweep, gckind>>

\* Fault: a thread, whose stack has no barrier, is traversed only once.
propagatemark_faulty(o) ==
  LET R == MarkedAtOnce(refs[o]) IN
  /\ gcstate = "GCSpropagate" /\ o \in gray
  /\ marked' = [reallymarkobject(R) EXCEPT ![o] = "black"]
  /\ gray' = (gray \ {o}) \cup ToTraverse(R)
  /\ gcstate' = IF gray' = {} THEN "GCSatomic" ELSE gcstate
  /\ UNCHANGED <<heapVars, currentwhite, grayagain, tosweep, fullgc, gckind>>

\* GCSpropagate: one gray object is traversed and turned black, except for
\* threads, which stay gray to be traversed again in the atomic phase.
propagatemark(o) ==
  LET R == MarkedAtOnce(refs[o]) IN
  /\ gcstate = "GCSpropagate" /\ o \in gray
  /\ marked' = [reallymarkobject(R) EXCEPT
                  ![o] = IF o \in Thread THEN "gray" ELSE "black"]
  /\ gray' = (gray \ {o}) \cup ToTraverse(R)
  /\ grayagain' = IF o \in Thread THEN grayagain \cup {o} ELSE grayagain
  /\ gcstate' = IF gray' = {} THEN "GCSatomic" ELSE gcstate
  /\ UNCHANGED <<heapVars, currentwhite, tosweep, fullgc, gckind>>

\* What propagateall marks, starting from S.
MarkedFrom(S) ==
  Reach(Obj, S \cap White, [o \in Obj |-> refs[o] \cap White])

\* The colours that propagateall leaves once the objects of R were marked and
\* those of the gray lists traversed.
propagateall(R, grays) ==
  [o \in Obj |-> IF o \notin R \cup grays THEN marked[o]
                 ELSE IF o \in Thread THEN "gray" ELSE "black"]

\* Faults: all finalizers are called, as in luaC_freeallobjects, or none.
separatetobefnz_faulty(R) == Linked("finobj")
separatetobefnz_faulty2(R) == {}

\* separatetobefnz: the objects to finalize are the unmarked ones of 'finobj'.
separatetobefnz(R) == {o \in Linked("finobj") : iswhite(o) /\ o \notin R}

\* GCSatomic: everything still reachable is marked, the objects to finalize
\* are separated and marked with all they refer to, the white is flipped, and
\* the sweep enters 'allgc'.
atomic ==
  LET grays == gray \cup grayagain
      R1 == MarkedFrom({L} \cup roots \cup UNION {refs[o] : o \in grays})
      fin == separatetobefnz(R1)
      R == R1 \cup MarkedFrom(fin \cup Linked("tobefnz"))
      m == propagateall(R, grays)
      l == [o \in Obj |-> IF o \in fin THEN "tobefnz" ELSE list[o]]
  IN
  /\ gcstate = "GCSatomic"
  /\ currentwhite' = otherwhite(currentwhite)
  /\ gray' = {} /\ grayagain' = {}
  /\ \E S \in Slices(Linked("allgc"), 1) :
        /\ sweeplist(S, m, otherwhite(currentwhite), l)
        /\ tosweep' = Linked("allgc") \ S
  /\ gcstate' = "GCSswpallgc"
  /\ UNCHANGED <<roots, cstack, fullgc, gckind>>

\* A sweep goes on, or the collector enters the next state.
sweepstep(state, nextstate, nextlist) ==
  /\ gcstate = state
  /\ \E S \in Slices(tosweep, GCSWEEPMAX) :
        /\ sweeplist(S, marked, currentwhite, list)
        /\ IF S = tosweep
           THEN gcstate' = nextstate /\ tosweep' = nextlist
           ELSE gcstate' = gcstate /\ tosweep' = tosweep \ S
  /\ UNCHANGED <<roots, cstack, currentwhite, gray, grayagain, fullgc, gckind>>

sweepallgc == sweepstep("GCSswpallgc", "GCSswpfinobj", Linked("finobj"))
sweepfinobj == sweepstep("GCSswpfinobj", "GCSswptobefnz", Linked("tobefnz"))
sweeptobefnz == sweepstep("GCSswptobefnz", "GCSswpend", {})

\* GCSswpend: the main thread, in no list, is made white.
sweepend ==
  /\ gcstate = "GCSswpend"
  /\ marked' = [marked EXCEPT ![MainThread] = currentwhite]
  /\ gcstate' = "GCScallfin"
  /\ UNCHANGED <<heapVars, currentwhite, gray, grayagain, tosweep, fullgc, gckind>>

\* GCScallfin: the cycle ends when no finalizer is left, or leaves them for
\* later in an emergency.  (Those that are called are the steps GCTM.)
callfin ==
  /\ gcstate = "GCScallfin"
  /\ Linked("tobefnz") = {} \/ gckind = "KGC_EMERGENCY"
  /\ gcstate' = "GCSpause"
  /\ UNCHANGED <<heapVars, markVars, tosweep, fullgc, gckind>>

\* Fault: the cycle under way is taken for the full one.
luaC_fullgc_faulty(kind) ==
  /\ CanRun
  /\ fullgc' = "collect" /\ gckind' = kind
  /\ IF keepinvariant
     THEN /\ gcstate' = "GCSswpallgc"
          /\ \E S \in Slices(Linked("allgc"), 1) :
                /\ sweeplist(S, marked, currentwhite, list)
                /\ tosweep' = Linked("allgc") \ S
     ELSE UNCHANGED <<gcstate, list, refs, marked, tosweep>>
  /\ UNCHANGED <<roots, cstack, currentwhite, gray, grayagain>>

\* luaC_fullgc: a cycle that may have black objects is given up for a sweep,
\* and a whole cycle follows before the program goes on.
luaC_fullgc(kind) ==
  /\ CanRun
  /\ fullgc' = "finish" /\ gckind' = kind
  /\ IF keepinvariant
     THEN /\ gcstate' = "GCSswpallgc"
          /\ \E S \in Slices(Linked("allgc"), 1) :
                /\ sweeplist(S, marked, currentwhite, list)
                /\ tosweep' = Linked("allgc") \ S
     ELSE UNCHANGED <<gcstate, list, refs, marked, tosweep>>
  /\ UNCHANGED <<roots, cstack, currentwhite, gray, grayagain>>

endfullgc ==
  /\ fullgc = "collect" /\ gcstate = "GCSpause"
  /\ fullgc' = "no" /\ gckind' = "KGC_NORMAL"
  /\ UNCHANGED <<heapVars, markVars, gcstate, tosweep>>

-----------------------------------------------------------------------------
Init ==
  /\ list = [o \in Obj |-> IF o = MainThread THEN "mainthread" ELSE "free"]
  /\ marked = [o \in Obj |-> "white0"]
  /\ refs = [o \in Obj |-> {}]
  /\ roots = {}
  /\ cstack = <<MainThread>>
  /\ currentwhite = "white0"
  /\ gcstate = "GCSpause"
  /\ gray = {} /\ grayagain = {} /\ tosweep = {}
  /\ fullgc = "no" /\ gckind = "KGC_NORMAL"

Program ==
  \/ \E o \in Obj : luaC_newobj(o) \/ GetField(o) \/ Pop(o)
  \/ \E s \in String : internshrstr(s)
  \/ \E x, o \in Obj : ClearField(x, o)
  \/ \E t \in Table, o \in Obj : SetTable(t, o)
  \/ \E x \in Table \cup Userdata \cup Closure, o \in Obj : SetOther(x, o)
  \/ \E x \in Table \cup Userdata, mt \in Table : SetFinalizer(x, mt)
  \/ \E mt \in Table : SetTypeMetatable(mt)
  \/ \E from, to \in Thread, o \in Obj : lua_xmove(from, to, o)
  \/ \E co \in Thread : lua_resume(co)
  \/ lua_yield
  \/ \E kind \in {"KGC_NORMAL", "KGC_EMERGENCY"} : luaC_fullgc(kind)

Finalizers == \E o \in Table \cup Userdata : GCTM(o)

Collector ==
  \/ restartcollection
  \/ \E o \in Obj : propagatemark(o)
  \/ atomic
  \/ sweepallgc \/ sweepfinobj \/ sweeptobefnz \/ sweepend
  \/ callfin
  \/ endfullgc

Next == Program \/ Finalizers \/ Collector

Spec == Init /\ [][Next]_vars

\* A program that goes on allocating keeps paying for calls of luaC_step, which
\* do single steps and then call finalizers.  Besides the progress of whatever
\* collection is under way this says that a program does not live on emergency
\* collections alone: it reaches a luaC_step again and again.  'tobefnz' is a
\* queue, so no object in it is passed over for ever.
LiveSpec ==
  /\ Spec
  /\ WF_vars(Collector \/ Finalizers)
  /\ SF_vars(fullgc = "no" /\ Collector)
  /\ \A o \in Table \cup Userdata : SF_vars(GCTM(o))

-----------------------------------------------------------------------------
(* Properties.                                                             *)

\* The type of the state.
TypeOK ==
  /\ list \in [Obj -> Lists]
  /\ marked \in [Obj -> Colours]
  /\ refs \in [Obj -> SUBSET Obj]
  /\ roots \subseteq Table
  /\ cstack \in Seq(Thread) /\ Len(cstack) >= 1
  /\ currentwhite \in WhiteBits
  /\ gcstate \in States
  /\ gray \subseteq Obj /\ grayagain \subseteq Obj /\ tosweep \subseteq Obj
  /\ fullgc \in {"no", "finish", "collect"}
  /\ gckind \in {"KGC_NORMAL", "KGC_EMERGENCY"}

\* The objects the sweep will not free.
Live == {o \in Allocated : ~isdead(o)}

\* Nothing the program can get hold of was freed or is about to be: what the
\* threads in use, the global slots and the live objects refer to is live.
\* (The assertions !isdead of luaC_barrier_ and luaC_barrierback_ say as much.)
NoDangling ==
  /\ Active \cup roots \subseteq Live
  /\ \A o \in Live : refs[o] \subseteq Live

\* "A black object can never point to a white one" while keepinvariant(g).
BlackNotToWhite ==
  keepinvariant => \A o \in Allocated : isblack(o) => refs[o] \cap White = {}

\* "Any gray object must be in a gray list so that it can be visited again".
GrayInList ==
  keepinvariant => \A o \in Allocated : isgray(o) <=> o \in gray \cup grayagain

\* "The invariant is restored when sweep ends and all objects are white again".
WhiteAfterSweep ==
  gcstate \in {"GCScallfin", "GCSpause"} =>
    \A o \in Allocated : marked[o] = currentwhite

\* What neither the program nor an object with a finalizer can reach.
Garbage ==
  Allocated \ Reach(Obj, Active \cup roots \cup {o \in Obj : tofinalize(o)}, refs)

\* What an emergency collection was called for: when it ends, there is no
\* garbage left.
EmergencyFreesGarbage ==
  [][endfullgc /\ gckind = "KGC_EMERGENCY" => Garbage = {}]_vars

\* Garbage is freed in the end, whatever the program goes on doing.  (A string
\* may be found again by its contents.)
GarbageIsFreed ==
  \A o \in Obj \ String : o \in Garbage ~> list[o] = "free"

\* The object o has a finalizer, and neither the program nor another object
\* with a finalizer can reach it.
Lost(o) ==
  /\ list[o] = "finobj"
  /\ o \notin Reach(Obj, Active \cup roots
                           \cup ({x \in Obj : tofinalize(x)} \ {o}), refs)

\* The finalizer of a lost object is called in the end.
LostIsFinalized ==
  \A o \in Table \cup Userdata : Lost(o) ~> list[o] = "allgc"

\* The premise of the properties above that finalizers could break: no more
\* objects wait for their finalizers than one sweep step visits.
FewToFinalize == Cardinality(Linked("tobefnz")) <= GCSWEEPMAX

Heap == INSTANCE LuaHeap WITH
  status <- [o \in Obj |-> CASE list[o] = "finobj" -> "finalizable"
                             [] list[o] = "tobefnz" -> "pending"
                             [] list[o] = "free" -> "free"
                             [] OTHER -> "plain"]

\* The collector keeps the promise of LuaHeap: it frees only what nothing can
\* reach, finalizes only what the program lost, and changes nothing else.
ImplementsHeap == Heap!Spec
=============================================================================
