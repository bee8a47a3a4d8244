----------------------------- MODULE LuaUpval -----------------------------
(***************************************************************************)
(* Open and closed upvalues (lfunc.c), which are counted, not collected,   *)
(* and the part of the collector (lgc.c) that keeps what they hold alive:  *)
(* a closure only touches an open upvalue, and the value is marked with    *)
(* the stack of its thread, or by remarkupvals if no one marks the thread. *)
(* Closures have one upvalue.                                              *)
(***************************************************************************)
EXTENDS Integers, Sequences, SequencesExt, FiniteSets

CONSTANTS Main, Coroutines, Closures, Levels,
          UpVals,          \* the memory for upvalues
          MaxSteps,        \* bound: steps of the mutator
          MaxCycles        \* bound: collections

None    == "none"
Nil     == "nil"
Threads == Coroutines \cup {Main}
Objs    == Threads \cup Closures

VARIABLES stack,       \* [Threads -> [Levels -> Objs or Nil]]
          uv,          \* upvalues: [st, th, level, value, count, touched]
          openupval,   \* [Threads -> Seq(UpVals)], from the top down
          twups,       \* the threads in the list of threads with upvalues
          upvals,      \* [Closures -> UpVals or None]
          alive,       \* the objects that are not freed
          color, gray, grayagain, gcstate,
          dead,        \* white when atomic ended, and to be swept
          age,         \* the collections that have begun since an object became garbage
          steps, cycles
uvars == <<stack, uv, openupval, twups, upvals, alive, color, gray, grayagain, gcstate, dead, age, steps, cycles>>

Freed == [st |-> "free", th |-> None, level |-> 0, value |-> Nil, count |-> 0, touched |-> FALSE]
IsOpen(u) == uv[u].st = "open"
\* *uv->v
ValueOf(u) == IF IsOpen(u) THEN stack[uv[u].th][uv[u].level] ELSE uv[u].value

----------------------------------------------------------------------------
(* What the program can get at.                                            *)
Refs(o) == (IF o \in Threads THEN {stack[o][l] : l \in Levels} ELSE {ValueOf(upvals[o])}) \cap Objs
ReachFrom[S \in SUBSET Objs] == LET T == S \cup UNION {Refs(o) : o \in S} IN IF T = S THEN S ELSE ReachFrom[T]
Accessible == ReachFrom[{Main}]

----------------------------------------------------------------------------
(* lfunc.c.  F is [uv, openupval, twups].                                  *)
State == [uv |-> uv, open |-> openupval, twups |-> twups]
\* The upvalues of a thread are looked at from the top of the stack down to
\* a level: how many there are.
DownTo(th, level) ==
    CHOOSE k \in 0..Len(openupval[th]) :
       /\ \A n \in 1..k : uv[openupval[th][n]].level >= level
       /\ k < Len(openupval[th]) => uv[openupval[th][k + 1]].level < level
FindUpval(th, level) ==
    LET s == openupval[th]
        k == DownTo(th, level) IN
    IF k > 0 /\ uv[s[k]].level = level THEN {[F |-> State, u |-> s[k]]}
    ELSE {[F |-> [uv    |-> [uv EXCEPT ![u] = [Freed EXCEPT !.st = "open", !.th = th, !.level = level, !.touched = TRUE]],
                  open  |-> [openupval EXCEPT ![th] = InsertAt(s, k + 1, u)],
                  twups |-> twups \cup {th}],
           u |-> u] : u \in {x \in UpVals : uv[x].st = "free"}}

Close(th, level) ==
    LET s         == openupval[th]
        k         == DownTo(th, level)
        closing   == {s[n] : n \in 1..k}
        Closed(w) == IF w.count = 0 THEN Freed
                     ELSE [Freed EXCEPT !.st = "closed", !.value = stack[th][w.level], !.count = w.count]
    IN [State EXCEPT !.open[th] = SubSeq(s, k + 1, Len(s)),
                     !.uv = [u \in UpVals |-> IF u \in closing THEN Closed(uv[u]) ELSE uv[u]]]

\* Fault: the count of an open upvalue is left alone.
DecCount_faulty(F, u) == [F EXCEPT !.uv[u] = IF @.st = "open" THEN @ ELSE IF @.count = 1 THEN Freed ELSE [@ EXCEPT !.count = @ - 1]]
\* luaC_upvdeccount
Less(r) == IF r.count = 1 /\ r.st = "closed" THEN Freed ELSE [r EXCEPT !.count = r.count - 1]
DecCount(F, u) == [F EXCEPT !.uv[u] = Less(@)]
Becomes(F) == uv' = F.uv /\ openupval' = F.open /\ twups' = F.twups

\* markvalue, and luaC_upvalbarrier: the value of a closed upvalue is marked
\* until the sweep.
White(v) == v \in Objs /\ color[v] = "white"
MarkAll(vs) == /\ color' = [o \in Objs |-> IF o \in vs /\ White(o) THEN "gray" ELSE color[o]]
               /\ gray' = gray \cup {v \in vs : White(v)}
Barrier(vs) == IF gcstate = "propagate" THEN MarkAll(vs) ELSE UNCHANGED <<color, gray>>

----------------------------------------------------------------------------
Init == /\ stack = [t \in Threads |-> [l \in Levels |-> Nil]]
        /\ uv = [u \in UpVals |-> Freed] /\ openupval = [t \in Threads |-> <<>>] /\ twups = {}
        /\ upvals = [c \in Closures |-> None] /\ alive = {Main}
        /\ color = [o \in Objs |-> "white"] /\ gray = {} /\ grayagain = {} /\ gcstate = "pause"
        /\ dead = {} /\ age = [o \in Objs |-> 0] /\ steps = 0 /\ cycles = 0

Mutate == /\ gcstate \in {"pause", "propagate", "sweep"} /\ steps < MaxSteps
          /\ steps' = steps + 1
          /\ UNCHANGED <<grayagain, gcstate, dead, age, cycles>>

\* lua_newthread, and a value moved in a stack.
NewThread == /\ Mutate
             /\ \E t \in Threads \ alive, l \in Levels :
                   /\ alive' = alive \cup {t} /\ stack' = [stack EXCEPT ![Main][l] = t]
                   /\ color' = [color EXCEPT ![t] = "white"]
             /\ UNCHANGED <<uv, openupval, twups, upvals, gray>>
SetStack == /\ Mutate
            /\ \E t \in Accessible \cap Threads, l \in Levels, v \in Accessible \cup {Nil} :
                  /\ v # stack[t][l] /\ stack' = [stack EXCEPT ![t][l] = v]
            /\ UNCHANGED <<uv, openupval, twups, upvals, alive, color, gray>>
\* pushclosure: the upvalue is a variable of the running function or one of
\* the enclosing closure.
PushClosure ==
    /\ Mutate
    /\ \E c \in Closures \ alive, t \in Accessible \cap Threads, dst \in Levels :
          /\ \E f \in (UNION {FindUpval(t, l) : l \in Levels}) \cup {[F |-> State, u |-> upvals[e]] : e \in Accessible \cap Closures} :
                /\ Becomes([f.F EXCEPT !.uv[f.u].count = @ + 1])
                /\ upvals' = [upvals EXCEPT ![c] = f.u]
          /\ stack' = [stack EXCEPT ![t][dst] = c]
          /\ alive' = alive \cup {c} /\ color' = [color EXCEPT ![c] = "white"]
    /\ UNCHANGED gray
\* OP_SETUPVAL and lua_setupvalue.
SetUpval ==
    /\ Mutate
    /\ \E c \in Accessible \cap Closures, v \in Accessible \cup {Nil} :
          LET u == upvals[c] IN
          /\ v # ValueOf(u)
          /\ IF IsOpen(u) THEN stack' = [stack EXCEPT ![uv[u].th][uv[u].level] = v] /\ UNCHANGED <<uv, color, gray>>
             ELSE uv' = [uv EXCEPT ![u].value = v] /\ Barrier({v}) /\ UNCHANGED stack
    /\ UNCHANGED <<openupval, twups, upvals, alive>>
\* The variables of a block from a level up go out of scope (luaF_close).
LeaveScope ==
    /\ Mutate
    /\ \E t \in Accessible \cap Threads, l \in Levels :
          LET closing == {u \in UpVals : IsOpen(u) /\ uv[u].th = t /\ uv[u].level >= l} IN
          /\ closing # {}
          /\ Becomes(Close(t, l))
          /\ stack' = [stack EXCEPT ![t] = [x \in Levels |-> IF x >= l THEN Nil ELSE @[x]]]
          /\ Barrier({ValueOf(u) : u \in {x \in closing : uv[x].count > 0}})
    /\ UNCHANGED <<upvals, alive>>
\* lua_upvaluejoin; two names of one upvalue that nothing else refers to are
\* not joined (see the README).
UpvalueJoin ==
    /\ Mutate
    /\ \E c, d \in Accessible \cap Closures :
          LET u == upvals[d]
              F == DecCount(State, upvals[c])
              r == F.uv[u] IN
          /\ r.st # "free"
          /\ upvals' = [upvals EXCEPT ![c] = u]
          /\ Becomes([F EXCEPT !.uv[u] = [r EXCEPT !.count = r.count + 1, !.touched = r.touched \/ IsOpen(u)]])
          /\ IF IsOpen(u) THEN UNCHANGED <<color, gray>> ELSE Barrier({uv[u].value})
    /\ UNCHANGED <<stack, alive>>

----------------------------------------------------------------------------
Collect == UNCHANGED <<stack, openupval, upvals, steps>>
RestartCollection ==
    /\ gcstate = "pause" /\ cycles < MaxCycles
    /\ gcstate' = "propagate" /\ cycles' = cycles + 1
    /\ color' = [o \in Objs |-> IF o = Main THEN "gray" ELSE "white"] /\ gray' = {Main} /\ grayagain' = {}
    /\ age' = [o \in Objs |-> IF o \in alive \ Accessible THEN age[o] + 1 ELSE 0]
    /\ Collect /\ UNCHANGED <<uv, twups, alive, dead>>
TraverseLclosure(c) ==
    LET u == upvals[c] IN
    /\ IF IsOpen(u) /\ gcstate # "insideatomic"
       THEN uv' = [uv EXCEPT ![u].touched = TRUE] /\ color' = [color EXCEPT ![c] = "black"] /\ gray' = gray \ {c}
       ELSE /\ color' = [[o \in Objs |-> IF o = ValueOf(u) /\ White(o) THEN "gray" ELSE color[o]] EXCEPT ![c] = "black"]
            /\ gray' = (gray \ {c}) \cup {o \in {ValueOf(u)} : White(o)}
            /\ UNCHANGED uv
    /\ UNCHANGED <<grayagain, twups>>
\* Fault: the thread is not linked back.
Relisted_faulty(t) == twups
Relisted(t) == IF gcstate = "insideatomic" /\ openupval[t] # <<>> THEN twups \cup {t} ELSE twups
\* "remarkupvals may have removed thread from twups list"
TraverseThread(t) ==
    LET vs == {stack[t][l] : l \in Levels} IN
    /\ color' = [o \in Objs |-> IF o \in vs /\ White(o) THEN "gray" ELSE color[o]]
    /\ gray' = (gray \ {t}) \cup {v \in vs : White(v)}
    /\ grayagain' = IF gcstate = "propagate" THEN grayagain \cup {t} ELSE grayagain
    /\ twups' = Relisted(t)
    /\ UNCHANGED uv
PropagateMark == /\ gcstate \in {"propagate", "insideatomic"}
                 /\ \E o \in gray : IF o \in Threads THEN TraverseThread(o) ELSE TraverseLclosure(o)
                 /\ Collect /\ UNCHANGED <<alive, gcstate, dead, age, cycles>>
\* The first part of atomic.
\* Fault: an upvalue stays touched.
Untouched_faulty(u) == uv[u]
Untouched(u) == [uv[u] EXCEPT !.touched = FALSE]
RemarkUpvals ==
    /\ gcstate = "propagate" /\ gray = {}
    /\ LET stay == {t \in twups : color[t] # "white" /\ openupval[t] # <<>>}
           seen == {u \in UpVals : IsOpen(u) /\ uv[u].th \in twups \ stay /\ uv[u].touched}
       IN /\ twups' = stay
          /\ MarkAll({ValueOf(u) : u \in seen})
          /\ uv' = [u \in UpVals |-> IF u \in seen THEN Untouched(u) ELSE uv[u]]
    /\ gcstate' = "insideatomic"
    /\ Collect /\ UNCHANGED <<alive, grayagain, dead, age, cycles>>
GrayAgain == /\ gcstate = "insideatomic" /\ gray = {} /\ grayagain # {}
             /\ gray' = grayagain /\ grayagain' = {}
             /\ Collect /\ UNCHANGED <<uv, twups, alive, color, gcstate, dead, age, cycles>>
EndAtomic == /\ gcstate = "insideatomic" /\ gray = {} /\ grayagain = {}
             /\ gcstate' = "sweep" /\ dead' = {o \in alive : White(o)}
             /\ Collect /\ UNCHANGED <<uv, twups, alive, color, gray, grayagain, age, cycles>>
\* freeLclosure and luaE_freethread (which closes all its upvalues).
Sweep == /\ gcstate = "sweep"
         /\ \E o \in dead :
               /\ dead' = dead \ {o} /\ alive' = alive \ {o} /\ age' = [age EXCEPT ![o] = 0]
               /\ IF o \in Closures THEN Becomes(DecCount(State, upvals[o])) /\ UNCHANGED stack
                  ELSE Becomes(Close(o, 0)) /\ stack' = [stack EXCEPT ![o] = [l \in Levels |-> Nil]]
               /\ upvals' = IF o \in Closures THEN [upvals EXCEPT ![o] = None] ELSE upvals
         /\ UNCHANGED <<color, gray, grayagain, gcstate, steps, cycles>>
EndSweep == /\ gcstate = "sweep" /\ dead = {} /\ gcstate' = "pause"
            /\ Collect /\ UNCHANGED <<uv, twups, alive, color, gray, grayagain, dead, age, cycles>>

Next == \/ NewThread \/ SetStack \/ PushClosure \/ SetUpval \/ LeaveScope \/ UpvalueJoin \/ RestartCollection
        \/ PropagateMark \/ RemarkUpvals \/ GrayAgain \/ EndAtomic \/ Sweep \/ EndSweep
Spec == Init /\ [][Next]_uvars

----------------------------------------------------------------------------
\* Each upvalue is counted once for each closure that has it, until the
\* sweep frees the closure, and is there as long as a closure or its place in
\* the stack needs it; the open ones of a thread are in the order of the
\* stack, none twice (luaC_upvdeccount, luaF_close, lua_upvaluejoin).
UpvaluesCounted ==
    /\ \A u \in UpVals : uv[u].st # "free" => uv[u].count = Cardinality({c \in alive \cap Closures : upvals[c] = u})
    /\ \A u \in UpVals : uv[u].st = "closed" => uv[u].count > 0
    /\ \A c \in alive \cap Closures : uv[upvals[c]].st # "free"
    /\ \A t \in Threads : LET s == openupval[t] IN
         /\ {s[n] : n \in DOMAIN s} = {u \in UpVals : IsOpen(u) /\ uv[u].th = t}
         /\ \A m, n \in DOMAIN s : m < n => uv[s[m]].level > uv[s[n]].level

\* No object the program can still get at is freed or going to be, though the
\* value of an open upvalue may hang on a thread nothing else refers to; and
\* every thread with open upvalues is in the list remarkupvals goes through
\* (lua_asserts of luaF_findupval and traversethread).
ValuesKept ==
    /\ Accessible \subseteq alive \ dead
    /\ gcstate # "insideatomic" => \A t \in Accessible \cap Threads : openupval[t] # <<>> => t \in twups

\* "touched: mark to avoid cycles with dead threads" (lfunc.h): a thread and a
\* closure that refer to each other through an open upvalue do not keep each
\* other for ever; garbage sees at most two collections begin.
NoCycleForEver == \A o \in Objs : age[o] <= 2

----------------------------------------------------------------------------
(* The inductive invariant.                                                *)

UpVal == [st : {"free", "open", "closed"}, th : Threads \cup {None}, level : Nat,
          value : Objs \cup {Nil}, count : Nat, touched : BOOLEAN]
TypeOK ==
    /\ stack \in [Threads -> [Levels -> Objs \cup {Nil}]]
    /\ uv \in [UpVals -> UpVal] /\ openupval \in [Threads -> Seq(UpVals)] /\ twups \subseteq Threads
    /\ upvals \in [Closures -> UpVals \cup {None}] /\ alive \subseteq Objs /\ dead \subseteq Objs
    /\ color \in [Objs -> {"white", "gray", "black"}] /\ gray \subseteq Objs /\ grayagain \subseteq Objs
    /\ gcstate \in {"pause", "propagate", "insideatomic", "sweep"}

\* Closures that are not freed have an upvalue, and an open upvalue lies in
\* the stack of a thread that is not freed.
InPlace ==
    /\ \A c \in alive \cap Closures : upvals[c] \in UpVals
    /\ \A u \in UpVals : IsOpen(u) => uv[u].th \in alive \cap Threads /\ uv[u].level \in Levels
    /\ \A t \in Threads \ alive : \A l \in Levels : stack[t][l] = Nil

\* What is not going to be freed refers to nothing that is, and only a sweep
\* has something to free.
NoDangling ==
    /\ dead \subseteq alive /\ Main \in alive \ dead
    /\ \A o \in alive \ dead : Refs(o) \subseteq alive \ dead
    /\ gcstate # "sweep" => dead = {}
    /\ gcstate \in {"pause", "sweep"} => gray = {} /\ grayagain = {}

\* While marking, what is gray will be traversed; a closure that was has its
\* upvalue marked or, for remarkupvals, touched; and so has a thread, in the
\* atomic phase.
Grayed(v) == v \in Objs => color[v] # "white"
Listed(t) == openupval[t] # <<>> => t \in twups
ClosureMarked(c) ==
    LET u == upvals[c] IN
    CASE color[c] = "gray" -> c \in gray
      [] color[c] = "black" /\ IsOpen(u) ->
            IF gcstate = "propagate" THEN uv[u].touched ELSE Grayed(ValueOf(u)) \/ Grayed(uv[u].th)
      [] color[c] = "black" /\ ~IsOpen(u) -> Grayed(ValueOf(u))
      [] OTHER -> TRUE
ThreadMarked(t) ==
    \/ color[t] = "white" \/ t \in gray \cup grayagain
    \/ gcstate = "insideatomic" /\ Listed(t) /\ \A l \in Levels : Grayed(stack[t][l])
Marking ==
    gcstate \in {"propagate", "insideatomic"} =>
      /\ Grayed(Main) /\ gray \subseteq alive /\ grayagain \subseteq alive \cap Threads
      /\ \A c \in alive \cap Closures : ClosureMarked(c)
      /\ \A t \in alive \cap Threads : ThreadMarked(t)
AllListed == gcstate # "insideatomic" => \A t \in (alive \ dead) \cap Threads : Listed(t)

IInv == TypeOK /\ UpvaluesCounted /\ InPlace /\ NoDangling /\ Marking /\ AllListed
=============================================================================
