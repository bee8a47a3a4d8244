---------------------------- MODULE LuaGC_proofs ----------------------------
(***************************************************************************)
(* The theorems about the collector.  All hold as long as no more objects  *)
(* wait for a finalizer than one step of the sweep visits (FewToFinalize). *)
(*                                                                         *)
(* Safety: IInv is an inductive invariant of LuaGC, and it implies that    *)
(* nothing the program can get hold of is freed.                           *)
(*                                                                         *)
(* Refinement: LuaGC implements LuaHeap.  Each step of the collector is,   *)
(* for what the program can see, no step at all or a step Collect of       *)
(* LuaHeap, which frees only what nothing can reach and sets aside only    *)
(* lost objects.  At the end, what an emergency collection promises        *)
(* besides: no garbage is left.                                            *)
(***************************************************************************)
EXTENDS LuaGC_Inv, FiniteSetTheorems, WellFoundedInduction, TLAPS

-----------------------------------------------------------------------------
(* Facts about Reach.                                                      *)

\* Only members of U are reached.
LEMMA ReachInObj ==
  ASSUME NEW U, NEW S, NEW succ
  PROVE  Reach(U, S, succ) \subseteq U
BY DEF Reach

\* What one starts from is reached.
LEMMA ReachStart ==
  ASSUME NEW U, NEW S \in SUBSET U, NEW succ
  PROVE  S \subseteq Reach(U, S, succ)
BY DEF Reach, ClosedSets

\* What a reached object refers to is reached.
LEMMA ReachClosed ==
  ASSUME NEW U, NEW S, NEW succ,
         NEW o \in Reach(U, S, succ), succ[o] \subseteq U
  PROVE  succ[o] \subseteq Reach(U, S, succ)
BY DEF Reach, ClosedSets

\* Nothing else is reached.
LEMMA ReachLeast ==
  ASSUME NEW U, NEW S, NEW succ, NEW T \in SUBSET U,
         S \subseteq T, \A o \in T : succ[o] \subseteq T
  PROVE  Reach(U, S, succ) \subseteq T
BY DEF Reach, ClosedSets

-----------------------------------------------------------------------------
(* Facts about marking.                                                    *)

\* What is marked at once is white, contains what was asked for, and a
\* userdata in it has no white object left to refer to.
LEMMA MarkedAtOnceFacts ==
  ASSUME TypeOK, NEW S \in SUBSET Obj
  PROVE  /\ MarkedAtOnce(S) \subseteq White
         /\ S \cap White \subseteq MarkedAtOnce(S)
         /\ \A u \in MarkedAtOnce(S) \cap Userdata :
               refs[u] \cap White \subseteq MarkedAtOnce(S)
<1> DEFINE succ == [o \in Obj |-> IF o \in Userdata
                                  THEN refs[o] \cap White ELSE {}]
<1>1. White \subseteq Obj
  BY DEF White, Allocated
<1>2. MarkedAtOnce(S) = Reach(Obj, S \cap White, succ)
  BY DEF MarkedAtOnce
<1>3. MarkedAtOnce(S) \subseteq White
  BY <1>1, <1>2, ReachLeast
<1>4. S \cap White \subseteq MarkedAtOnce(S)
  BY <1>1, <1>2, ReachStart
<1>5. ASSUME NEW u \in MarkedAtOnce(S) \cap Userdata
      PROVE  refs[u] \cap White \subseteq MarkedAtOnce(S)
  <2>1. u \in Obj /\ succ[u] = refs[u] \cap White
    BY <1>1, <1>3
  <2>2. u \in Reach(Obj, S \cap White, succ) /\ succ[u] \subseteq Obj
    BY <1>1, <1>2, <2>1
  <2> HIDE DEF succ
  <2>3. succ[u] \subseteq Reach(Obj, S \cap White, succ)
    BY <2>2, ReachClosed
  <2> QED
    BY <1>2, <2>1, <2>3
<1> QED
  BY <1>3, <1>4, <1>5

\* The same of propagateall, for all objects in it.
LEMMA MarkedFromFacts ==
  ASSUME TypeOK, NEW S \in SUBSET Obj
  PROVE  /\ MarkedFrom(S) \subseteq White
         /\ S \cap White \subseteq MarkedFrom(S)
         /\ \A o \in MarkedFrom(S) : refs[o] \cap White \subseteq MarkedFrom(S)
<1> DEFINE succ == [o \in Obj |-> refs[o] \cap White]
<1>1. White \subseteq Obj
  BY DEF White, Allocated
<1>2. MarkedFrom(S) = Reach(Obj, S \cap White, succ)
  BY DEF MarkedFrom
<1>3. MarkedFrom(S) \subseteq White
  BY <1>1, <1>2, ReachLeast
<1>4. S \cap White \subseteq MarkedFrom(S)
  BY <1>1, <1>2, ReachStart
<1>5. ASSUME NEW o \in MarkedFrom(S)
      PROVE  refs[o] \cap White \subseteq MarkedFrom(S)
  <2>1. o \in Obj /\ succ[o] = refs[o] \cap White
    BY <1>1, <1>3
  <2>2. o \in Reach(Obj, S \cap White, succ) /\ succ[o] \subseteq Obj
    BY <1>1, <1>2, <2>1
  <2> HIDE DEF succ
  <2>3. succ[o] \subseteq Reach(Obj, S \cap White, succ)
    BY <2>2, ReachClosed
  <2> QED
    BY <1>2, <2>1, <2>3
<1> QED
  BY <1>3, <1>4, <1>5

-----------------------------------------------------------------------------
(* Type correctness.                                                       *)

\* The running thread is one of the threads in use.
LEMMA RunningThread ==
  ASSUME TypeOK
  PROVE  L \in Thread /\ L \in Obj /\ L \in Active
BY DEF TypeOK, L, Active, Obj

\* reallymarkobject gives every object a colour.
LEMMA MarkedColours ==
  ASSUME TypeOK, NEW R
  PROVE  reallymarkobject(R) \in [Obj -> Colours]
BY DEF TypeOK, reallymarkobject, Colours

\* A step of a sweep keeps the types of what it changes.
LEMMA SweepTypes ==
  ASSUME TypeOK, NEW S, NEW m \in [Obj -> Colours], NEW w \in WhiteBits,
         NEW l \in [Obj -> Lists], sweeplist(S, m, w, l)
  PROVE  /\ list' \in [Obj -> Lists]
         /\ marked' \in [Obj -> Colours]
         /\ refs' \in [Obj -> SUBSET Obj]
BY DEF TypeOK, sweeplist, Lists, Colours, WhiteBits

\* Running code keeps the types.
LEMMA ProgramTypes ==
  ASSUME TypeOK, Program
  PROVE  TypeOK'
<1> USE DEF TypeOK
<1>1. L \in Thread /\ L \in Obj
  BY RunningThread
<1>2. ASSUME NEW o \in Obj, luaC_newobj(o)
      PROVE  TypeOK'
  BY <1>1, <1>2 DEF luaC_newobj, Push, StackOf, Lists, Colours
<1>3. ASSUME NEW o \in Obj, GetField(o) \/ Pop(o)
      PROVE  TypeOK'
  BY <1>1, <1>3 DEF GetField, Pop, Push, StackOf
<1>4. ASSUME NEW s \in String, internshrstr(s)
      PROVE  TypeOK'
  BY <1>1, <1>4 DEF internshrstr, Push, StackOf, Colours, Obj
<1>5. ASSUME NEW x \in Obj, NEW o \in Obj, ClearField(x, o)
      PROVE  TypeOK'
  BY <1>5 DEF ClearField
<1>6. ASSUME NEW t \in Table, NEW o \in Obj, SetTable(t, o)
      PROVE  TypeOK'
  BY <1>6 DEF SetTable, HeldBy, Colours, Obj
<1>7. ASSUME NEW x \in Table \cup Userdata \cup Closure, NEW o \in Obj
      PROVE  /\ BarrierColours(x, o) \in [Obj -> Colours]
             /\ ToTraverse(BarrierMarks(x, o)) \subseteq Obj
  <2>1. MarkedAtOnce({o}) \subseteq Obj
    BY MarkedAtOnceFacts DEF White, Allocated
  <2> QED
    BY <2>1, MarkedColours
    DEF BarrierColours, BarrierMarks, ToTraverse, Colours
<1>8. ASSUME NEW x \in Table \cup Userdata \cup Closure, NEW o \in Obj,
             SetOther(x, o)
      PROVE  TypeOK'
  BY <1>7, <1>8 DEF SetOther, HeldBy, Obj
<1>9. ASSUME NEW x \in Table \cup Userdata, NEW mt \in Table,
             SetFinalizer(x, mt)
      PROVE  TypeOK'
  <2>1. mt \in Obj /\ x \in Table \cup Userdata \cup Closure
    BY DEF Obj
  <2>2. /\ BarrierColours(x, mt) \in [Obj -> Colours]
        /\ ToTraverse(BarrierMarks(x, mt)) \subseteq Obj
    BY <1>7, <2>1
  <2>3. /\ list' \in [Obj -> Lists]
        /\ marked' \in [Obj -> Colours]
        /\ refs' \in [Obj -> SUBSET Obj]
        /\ tosweep' \subseteq Obj
    BY <1>9, <2>1, <2>2 DEF SetFinalizer, Lists, Colours, WhiteBits
  <2> QED
    BY <1>9, <2>2, <2>3 DEF SetFinalizer
<1>10. ASSUME NEW mt \in Table, SetTypeMetatable(mt)
       PROVE  TypeOK'
  BY <1>10 DEF SetTypeMetatable
<1>11. ASSUME NEW from \in Thread, NEW to \in Thread, NEW o \in Obj,
              lua_xmove(from, to, o)
       PROVE  TypeOK'
  <2>1. PICK rest \in {refs[from], refs[from] \ {o}} :
          refs' = [refs EXCEPT ![from] = rest, ![to] = @ \cup {o}]
    BY <1>11 DEF lua_xmove
  <2>2. rest \in SUBSET Obj /\ from \in Obj /\ to \in Obj
    BY <2>1 DEF Obj
  <2>3. refs' \in [Obj -> SUBSET Obj]
    BY <2>1, <2>2
  <2> QED
    BY <1>11, <2>3 DEF lua_xmove
<1>12. ASSUME NEW co \in Thread, lua_resume(co)
       PROVE  TypeOK'
  <2>1. Append(cstack, co) \in Seq(Thread) /\ Len(Append(cstack, co)) >= 1
    OBVIOUS
  <2> QED
    BY <1>12, <2>1 DEF lua_resume, markVars
<1>13. ASSUME lua_yield
       PROVE  TypeOK'
  BY <1>13 DEF lua_yield, markVars
<1>14. ASSUME NEW kind \in {"KGC_NORMAL", "KGC_EMERGENCY"}, luaC_fullgc(kind)
       PROVE  TypeOK'
  <2>1. CASE keepinvariant
    <3>1. PICK S \in Slices(Linked("allgc"), 1) :
            /\ sweeplist(S, marked, currentwhite, list)
            /\ tosweep' = Linked("allgc") \ S
      BY <1>14, <2>1 DEF luaC_fullgc
    <3> QED
      BY <1>14, <2>1, <3>1, SweepTypes DEF luaC_fullgc, Linked, States
  <2>2. CASE ~keepinvariant
    BY <1>14, <2>2 DEF luaC_fullgc
  <2> QED
    BY <2>1, <2>2
<1> QED
  BY <1>2, <1>3, <1>4, <1>5, <1>6, <1>8, <1>9, <1>10, <1>11, <1>12, <1>13,
     <1>14
  DEF Program

\* So do the finalizers' calls and the steps of the collector,
LEMMA CollectorTypes ==
  ASSUME TypeOK, Finalizers \/ Collector
  PROVE  TypeOK'
<1> USE DEF TypeOK
<1>1. L \in Thread /\ L \in Obj
  BY RunningThread
<1>2. ASSUME NEW o \in Table \cup Userdata, GCTM(o)
      PROVE  TypeOK'
  BY <1>1, <1>2 DEF GCTM, Lists, Colours, WhiteBits, Obj
<1>3. ASSUME NEW S \in SUBSET Obj
      PROVE  ToTraverse(MarkedAtOnce(S)) \subseteq Obj
  BY MarkedAtOnceFacts DEF White, Allocated, ToTraverse
<1>4. CASE restartcollection
  <2>1. {MainThread} \cup roots \cup Linked("tobefnz") \subseteq Obj
    BY ObjAssumption DEF Obj, Linked
  <2> QED
    BY <1>3, <1>4, <2>1, MarkedColours
    DEF restartcollection, heapVars, States
<1>5. ASSUME NEW o \in Obj, propagatemark(o)
      PROVE  TypeOK'
  <2>1. reallymarkobject(MarkedAtOnce(refs[o])) \in [Obj -> Colours]
    BY MarkedColours
  <2>2. marked' \in [Obj -> Colours]
    BY <1>5, <2>1 DEF propagatemark, Colours
  <2> QED
    BY <1>3, <1>5, <2>2 DEF propagatemark, heapVars, States
<1>6. CASE atomic
  <2> DEFINE grays == gray \cup grayagain
             R1 == MarkedFrom({L} \cup roots \cup UNION {refs[o] : o \in grays})
             fin == {o \in Linked("finobj") : iswhite(o) /\ o \notin R1}
             R == R1 \cup MarkedFrom(fin \cup Linked("tobefnz"))
             m == [o \in Obj |-> IF o \notin R \cup grays THEN marked[o]
                                 ELSE IF o \in Thread THEN "gray" ELSE "black"]
             l == [o \in Obj |-> IF o \in fin THEN "tobefnz" ELSE list[o]]
  <2>1. m \in [Obj -> Colours] /\ l \in [Obj -> Lists]
    BY DEF Colours, Lists
  <2>2. otherwhite(currentwhite) \in WhiteBits
    BY DEF otherwhite, WhiteBits
  <2> HIDE DEF m, l
  <2>3. PICK S \in Slices(Linked("allgc"), 1) :
          /\ sweeplist(S, m, otherwhite(currentwhite), l)
          /\ tosweep' = Linked("allgc") \ S
    BY <1>6 DEF atomic, m, l, separatetobefnz, propagateall
  <2>4. /\ list' \in [Obj -> Lists]
        /\ marked' \in [Obj -> Colours]
        /\ refs' \in [Obj -> SUBSET Obj]
    BY <2>1, <2>2, <2>3, SweepTypes
  <2> QED
    BY <1>6, <2>2, <2>3, <2>4 DEF atomic, Linked, States
<1>7. ASSUME NEW state, NEW next \in States, NEW nextlist \in SUBSET Obj,
             sweepstep(state, next, nextlist)
      PROVE  TypeOK'
  <2>1. PICK S \in Slices(tosweep, GCSWEEPMAX) :
          /\ sweeplist(S, marked, currentwhite, list)
          /\ IF S = tosweep
             THEN gcstate' = next /\ tosweep' = nextlist
             ELSE gcstate' = gcstate /\ tosweep' = tosweep \ S
    BY <1>7 DEF sweepstep
  <2> QED
    BY <1>7, <2>1, SweepTypes DEF sweepstep
<1>8. CASE sweepallgc \/ sweepfinobj \/ sweeptobefnz
  <2>1. /\ {"GCSswpfinobj", "GCSswptobefnz", "GCSswpend"} \subseteq States
        /\ \A list1 : Linked(list1) \subseteq Obj
    BY DEF States, Linked
  <2> HIDE DEF TypeOK
  <2>2. CASE sweepallgc
    BY <1>7, <2>1, <2>2 DEF sweepallgc
  <2>3. CASE sweepfinobj
    BY <1>7, <2>1, <2>3 DEF sweepfinobj
  <2>4. CASE sweeptobefnz
    BY <1>7, <2>1, <2>4 DEF sweeptobefnz
  <2> QED
    BY <1>8, <2>2, <2>3, <2>4
<1>9. CASE sweepend
  BY <1>9 DEF sweepend, heapVars, Colours, States
<1>10. CASE callfin
  BY <1>10 DEF callfin, heapVars, markVars, States
<1>11. CASE endfullgc
  BY <1>11 DEF endfullgc, heapVars, markVars
<1> QED
  BY <1>2, <1>4, <1>5, <1>6, <1>8, <1>9, <1>10, <1>11
  DEF Finalizers, Collector

\* ... hence every step,
LEMMA TypesKept == TypeOK /\ [Next]_vars => TypeOK'
<1>1. ASSUME TypeOK, UNCHANGED vars
      PROVE  TypeOK'
  BY <1>1 DEF TypeOK, vars
<1> QED
  BY <1>1, ProgramTypes, CollectorTypes DEF Next

\* ... and the types are right at the start.
LEMMA TypesInit == Init => TypeOK
BY ObjAssumption
   DEF Init, TypeOK, Obj, Lists, Colours, WhiteBits, States

\* The state keeps its type, whatever the sets of addresses.
THEOREM TypeCorrect == Spec => []TypeOK
BY TypesInit, TypesKept, PTL DEF Spec

-----------------------------------------------------------------------------
(* Facts about the invariant.                                              *)

\* The running thread and what is on its stack are live, and what is live refers
\* to live objects only.
LEMMA LiveOnStack ==
  ASSUME IInv
  PROVE  /\ L \in Live /\ refs[L] \subseteq Live
         /\ \A x \in Live : refs[x] \subseteq Live
         /\ Live \subseteq Allocated /\ Allocated \subseteq Obj
BY RunningThread DEF IInv, NoDangling, Live, Allocated

\* An object white and not dead has the current white.
LEMMA CurrentWhite ==
  ASSUME TypeOK, NEW o \in Obj
  PROVE  /\ iswhite(o) /\ ~isdead(o) <=> marked[o] = currentwhite
         /\ isdead(o) => iswhite(o)
         /\ isdead(o) <=> iswhite(o) /\ marked[o] # currentwhite
         /\ ~(isblack(o) /\ isgray(o)) /\ ~(iswhite(o) /\ (isblack(o) \/ isgray(o)))
         /\ iswhite(o) \/ isblack(o) \/ isgray(o)
BY DEF TypeOK, iswhite, isdead, isblack, isgray, otherwhite, WhiteBits, Colours

\* Steps that only link, unlink or move references to live objects, and those
\* from threads at that, need no barrier.
LEMMA StackStep ==
  ASSUME IInv, TypeOK',
         UNCHANGED <<list, marked, currentwhite, gcstate, gray, grayagain,
                     tosweep>>,
         \A o \in Obj : refs'[o] \subseteq refs[o] \cup Live,
         \A o \in Obj \ Thread : refs'[o] \subseteq refs[o],
         \A o \in Obj : list[o] = "free" => refs'[o] = refs[o],
         roots' \cup Active' \subseteq Live,
         Chain'
  PROVE  IInv'
<1>1. /\ Allocated' = Allocated /\ Live' = Live /\ White' = White
      /\ \A l : Linked(l)' = Linked(l)
  BY DEF Allocated, Live, White, Linked, isdead, iswhite
<1>2. Shape'
  BY ObjAssumption DEF IInv, Shape, Obj
<1>3. NoDangling'
  BY <1>1, LiveOnStack DEF NoDangling
<1>4. Marking'
  BY <1>1, LiveOnStack DEF IInv, Marking, keepinvariant, iswhite, isblack, isgray, isdead
<1>5. Sweeping'
  BY <1>1 DEF IInv, Sweeping, Unswept, keepinvariant, iswhite, isdead
<1> QED
  BY <1>2, <1>3, <1>4, <1>5 DEF IInv

\* A change of references keeps the C stack linked unless it takes a resumed
\* thread from the stack of the one that waits for it.
LEMMA ChainKept ==
  ASSUME TypeOK, Chain, UNCHANGED cstack,
         \A t \in Active \ {L} : refs[t] \subseteq refs'[t]
  PROVE  Chain' /\ Active' = Active /\ L' = L
<1>1. ASSUME NEW i \in 1 .. Len(cstack) - 1
      PROVE  cstack[i + 1] \in refs'[cstack[i]]
  <2>1. i \in 1 .. Len(cstack) /\ Len(cstack) \in 1 .. Len(cstack) /\ i # Len(cstack)
    BY DEF TypeOK
  <2>2. cstack[i] \in Active \ {L}
    BY <2>1 DEF Chain, Active, L
  <2> QED
    BY <2>2 DEF Chain
<1> QED
  BY <1>1 DEF Chain, Active, L

-----------------------------------------------------------------------------
(* Running code.                                                           *)

\* Reading, popping and clearing, setting a global slot and lua_xmove.
LEMMA StackActions ==
  ASSUME IInv, TypeOK',
         \/ \E o \in Obj : GetField(o) \/ Pop(o)
         \/ \E x, o \in Obj : ClearField(x, o)
         \/ \E mt \in Table : SetTypeMetatable(mt)
         \/ \E from, to \in Thread, o \in Obj : lua_xmove(from, to, o)
  PROVE  IInv'
<1>1. /\ TypeOK /\ Chain /\ Shape
      /\ roots \cup Active \subseteq Live
      /\ refs \in [Obj -> SUBSET Obj] /\ roots \subseteq Table
      /\ L \in Thread /\ L \in Obj
  BY RunningThread DEF IInv, NoDangling, TypeOK
<1>2. ASSUME NEW o \in Obj, GetField(o)
      PROVE  IInv'
  <2>1. o \in Live /\ refs' = [refs EXCEPT ![L] = @ \cup {o}]
    BY <1>1, <1>2, LiveOnStack DEF GetField, Push, StackOf
  <2>2. Chain' /\ Active' = Active
    BY <1>1, <1>2, <2>1, ChainKept DEF GetField
  <2>3. list[L] # "free"
    BY LiveOnStack DEF Live, Allocated
  <2> QED
    BY <1>1, <1>2, <2>1, <2>2, <2>3, StackStep DEF GetField
<1>3. ASSUME NEW o \in Obj, Pop(o)
      PROVE  IInv'
  <2>1. refs' = [refs EXCEPT ![L] = @ \ {o}]
    BY <1>3 DEF Pop
  <2>2. Chain' /\ Active' = Active
    BY <1>1, <1>3, <2>1, ChainKept DEF Pop
  <2>3. list[L] # "free"
    BY LiveOnStack DEF Live, Allocated
  <2> QED
    BY <1>1, <1>3, <2>1, <2>2, <2>3, StackStep DEF Pop
<1>4. ASSUME NEW x \in Obj, NEW o \in Obj, ClearField(x, o)
      PROVE  IInv'
  <2>1. refs' = [refs EXCEPT ![x] = @ \ {o}] /\ x \notin Thread /\ o \in refs[x]
    BY <1>4 DEF ClearField
  <2>2. Active \subseteq Thread
    BY <1>1 DEF TypeOK, Active
  <2>3. Chain' /\ Active' = Active
    BY <1>1, <1>4, <2>1, <2>2, ChainKept DEF ClearField
  <2>4. list[x] # "free"
    BY <1>1, <2>1 DEF Shape
  <2> QED
    BY <1>1, <1>4, <2>1, <2>3, <2>4, StackStep DEF ClearField
<1>5. ASSUME NEW mt \in Table, SetTypeMetatable(mt)
      PROVE  IInv'
  <2>1. mt \in Live /\ roots' \subseteq Live
    BY <1>1, <1>5, LiveOnStack DEF SetTypeMetatable, OnStack
  <2>2. Chain' /\ Active' = Active
    BY <1>1, <1>5, ChainKept DEF SetTypeMetatable
  <2> QED
    BY <1>1, <1>5, <2>1, <2>2, StackStep DEF SetTypeMetatable
<1>6. ASSUME NEW from \in Thread, NEW to \in Thread, NEW o \in Obj,
             lua_xmove(from, to, o)
      PROVE  IInv'
  <2>1. PICK rest \in {refs[from], refs[from] \ {o}} :
          refs' = [refs EXCEPT ![from] = rest, ![to] = @ \cup {o}]
    BY <1>6 DEF lua_xmove
  <2>2. /\ from \in Obj /\ to \in Obj /\ from # to /\ o \in refs[from]
        /\ {from, to} \cap Active \subseteq {L}
        /\ {from, to} \subseteq Live
    BY <1>1, <1>6, LiveOnStack DEF lua_xmove, Obj
  <2>3. /\ refs'[from] = rest /\ refs'[to] = refs[to] \cup {o}
        /\ \A x \in Obj \ {from, to} : refs'[x] = refs[x]
    BY <1>1, <2>1, <2>2
  <2>4. o \in Live /\ list[from] # "free" /\ list[to] # "free"
    BY <2>2, LiveOnStack DEF Live, Allocated
  <2>5. Chain' /\ Active' = Active
    <3>1. UNCHANGED cstack
      BY <1>6 DEF lua_xmove
    <3>2. \A t \in Active \ {L} : refs[t] \subseteq refs'[t]
      BY <1>1, <2>2, <2>3, LiveOnStack
    <3> QED
      BY <1>1, <3>1, <3>2, ChainKept
  <2>6. UNCHANGED <<list, marked, roots, currentwhite, gcstate, gray,
                    grayagain, tosweep>>
    BY <1>6 DEF lua_xmove
  <2>7. /\ \A x \in Obj : refs'[x] \subseteq refs[x] \cup Live
        /\ \A x \in Obj \ Thread : refs'[x] \subseteq refs[x]
        /\ \A x \in Obj : list[x] = "free" => refs'[x] = refs[x]
    BY <2>1, <2>2, <2>3, <2>4
  <2> QED
    BY <1>1, <2>5, <2>6, <2>7, StackStep
<1> QED
  BY <1>2, <1>3, <1>4, <1>5, <1>6

\* lua_resume and lua_yield.
LEMMA Resuming ==
  ASSUME IInv, TypeOK', (\E co \in Thread : lua_resume(co)) \/ lua_yield
  PROVE  IInv'
<1>1. /\ TypeOK /\ Chain /\ cstack \in Seq(Thread) /\ Len(cstack) >= 1
      /\ roots \cup Active \subseteq Live
  BY DEF IInv, NoDangling, TypeOK
<1>2. UNCHANGED <<list, marked, refs, roots, currentwhite, gcstate, gray,
                  grayagain, tosweep>>
  BY DEF lua_resume, lua_yield, markVars
<1>3. ASSUME NEW co \in Thread, lua_resume(co)
      PROVE  Chain' /\ Active' \subseteq Live
  <2>1. cstack' = Append(cstack, co) /\ co \in refs[L] /\ co \notin Active
    BY <1>3 DEF lua_resume, OnStack
  <2>2. /\ Len(cstack') = Len(cstack) + 1
        /\ cstack'[Len(cstack) + 1] = co
        /\ \A i \in 1 .. Len(cstack) : cstack'[i] = cstack[i]
    BY <1>1, <2>1
  <2>3. \A i \in 1 .. Len(cstack) : cstack[i] # co
    BY <2>1 DEF Active
  <2>4. Active' = Active \cup {co}
    BY <1>1, <2>2 DEF Active
  <2>5. Chain'
    BY <1>1, <1>2, <2>1, <2>2, <2>3 DEF Chain, L
  <2> QED
    BY <1>1, <2>1, <2>4, <2>5, LiveOnStack
<1>4. ASSUME lua_yield
      PROVE  Chain' /\ Active' \subseteq Live
  <2>1. cstack' = SubSeq(cstack, 1, Len(cstack) - 1) /\ Len(cstack) > 1
    BY <1>4 DEF lua_yield
  <2>2. /\ Len(cstack') = Len(cstack) - 1
        /\ \A i \in 1 .. Len(cstack) - 1 : cstack'[i] = cstack[i]
    BY <1>1, <2>1
  <2> QED
    BY <1>1, <1>2, <2>1, <2>2 DEF Chain, Active
<1>5. roots' \subseteq Live /\ Chain' /\ Active' \subseteq Live
  BY <1>1, <1>2, <1>3, <1>4
<1> QED
  BY <1>2, <1>5, StackStep

\* luaC_newobj: a new object has the current white and refers to nothing.
LEMMA NewObject ==
  ASSUME IInv, TypeOK', NEW o \in Obj, luaC_newobj(o)
  PROVE  IInv'
<1> USE DEF luaC_newobj
<1>1. /\ TypeOK /\ Shape /\ Chain /\ NoDangling /\ Marking /\ Sweeping
      /\ refs \in [Obj -> SUBSET Obj] /\ list \in [Obj -> Lists]
      /\ marked \in [Obj -> Colours] /\ currentwhite \in WhiteBits
      /\ L \in Thread /\ L \in Obj /\ L \in Live
  BY RunningThread, LiveOnStack DEF IInv, TypeOK
<1>2. refs' = [refs EXCEPT ![L] = @ \cup {o}] /\ L # o /\ refs[o] = {}
  BY <1>1 DEF Push, StackOf, Shape, Live, Allocated
<1>3. /\ Allocated' = Allocated \cup {o} /\ o \notin Allocated
      /\ Live' = Live \cup {o} /\ White' = White \cup {o}
  BY <1>1 DEF Allocated, Live, White, isdead, iswhite, otherwhite, WhiteBits
<1>4. Shape'
  BY <1>1, <1>2, ObjAssumption DEF Shape, Obj, Live, Allocated
<1>5. Chain' /\ Active' = Active
  BY <1>1, <1>2, ChainKept
<1>6. NoDangling'
  BY <1>1, <1>2, <1>3, <1>5, LiveOnStack DEF NoDangling
<1>7. Marking'
  <2> SUFFICES ASSUME keepinvariant
               PROVE  Marking'
    BY DEF Marking, keepinvariant
  <2>1. MainThread # o
    BY <1>1, ObjAssumption DEF Shape
  <2>2. \A x \in Allocated : /\ marked'[x] = marked[x]
                             /\ x \notin Thread => refs'[x] = refs[x]
                             /\ o \notin refs[x]
    BY <1>1, <1>2, <1>3 DEF NoDangling, Live, Marking, Allocated
  <2>3. marked'[o] = currentwhite
    BY <1>1
  <2>4. ASSUME NEW x \in Allocated'
        PROVE  /\ ~isdead(x)'
               /\ isblack(x)' => x \notin Thread /\ refs'[x] \cap White' = {}
               /\ isgray(x)' <=> x \in gray' \cup grayagain'
    BY <1>1, <1>3, <2>2, <2>3
    DEF Marking, isdead, isblack, isgray, otherwhite, WhiteBits, Allocated
  <2> QED
    BY <1>1, <1>3, <2>1, <2>4, ObjAssumption DEF Marking, iswhite, keepinvariant
<1>8. Sweeping'
  BY <1>1, <1>3 DEF Sweeping, Unswept, keepinvariant, Linked, iswhite, isdead,
     otherwhite, WhiteBits, Allocated
<1> QED
  BY <1>4, <1>5, <1>6, <1>7, <1>8 DEF IInv

\* internshrstr: a dead string is white, so it may be made white again.
LEMMA StringFound ==
  ASSUME IInv, TypeOK', NEW s \in String, internshrstr(s)
  PROVE  IInv'
<1> USE DEF internshrstr
<1>1. /\ TypeOK /\ Shape /\ Chain /\ NoDangling /\ Marking /\ Sweeping
      /\ refs \in [Obj -> SUBSET Obj] /\ list \in [Obj -> Lists]
      /\ marked \in [Obj -> Colours] /\ currentwhite \in WhiteBits
      /\ L \in Thread /\ L \in Obj /\ L \in Live /\ s \in Obj
  BY RunningThread, LiveOnStack DEF IInv, TypeOK, Obj
<1>2. /\ refs' = [refs EXCEPT ![L] = @ \cup {s}] /\ L # s
      /\ refs[s] = {} /\ s \in Allocated
  BY <1>1, ObjAssumption DEF Push, StackOf, Shape
<1>3. Allocated' = Allocated /\ Live' = Live \cup {s} /\ White' = White
  BY <1>1, <1>2 DEF Allocated, Live, White, isdead, iswhite, otherwhite,
     WhiteBits
<1>4. Shape'
  BY <1>1, <1>2, ObjAssumption DEF Shape, Obj, Live, Allocated
<1>5. Chain' /\ Active' = Active
  BY <1>1, <1>2, ChainKept
<1>6. NoDangling'
  BY <1>1, <1>2, <1>3, <1>5, LiveOnStack DEF NoDangling
<1>7. Marking'
  <2> SUFFICES ASSUME keepinvariant
               PROVE  Marking'
    BY DEF Marking, keepinvariant
  <2>1. ~isdead(s) /\ marked' = marked
    BY <1>1, <1>2 DEF Marking
  <2> QED
    BY <1>1, <1>2, <1>3, <2>1
    DEF Marking, keepinvariant, iswhite, isdead, isblack, isgray
<1>8. Sweeping'
  BY <1>1, <1>3 DEF Sweeping, Unswept, keepinvariant, Linked, iswhite, isdead,
     otherwhite, WhiteBits
<1> QED
  BY <1>4, <1>5, <1>6, <1>7, <1>8 DEF IInv

-----------------------------------------------------------------------------
(* Assignments with a barrier.                                             *)

\* x, on the stack, comes to hold o, also on the stack; m and g are the colours
\* and the gray lists after the barrier, in a sweep m may have x white as well.
LEMMA BarrierFacts ==
  ASSUME IInv, NEW x \in Obj \ Thread, NEW o \in Obj, OnStack(x), OnStack(o)
  PROVE  /\ BarrierColours(x, o) \in [Obj -> Colours]
         /\ BarrierMarks(x, o) \subseteq White
         /\ ToTraverse(BarrierMarks(x, o)) \subseteq Allocated
         /\ x \in Live /\ o \in Live
         /\ \A y \in Allocated :
              isdead(y) <=> BarrierColours(x, o)[y] = otherwhite(currentwhite)
         /\ ~keepinvariant => \A y \in Obj \ {x} : BarrierColours(x, o)[y] = marked[y]
         /\ ~keepinvariant => BarrierColours(x, o)[x] \in {marked[x], currentwhite}
<1>1. /\ TypeOK /\ marked \in [Obj -> Colours] /\ currentwhite \in WhiteBits
      /\ Marking
  BY DEF IInv, TypeOK
<1>2. x \in Live /\ o \in Live
  BY LiveOnStack DEF OnStack
<1>3. BarrierMarks(x, o) \subseteq White
  BY <1>1, MarkedAtOnceFacts DEF BarrierMarks
<1>4. ToTraverse(BarrierMarks(x, o)) \subseteq Allocated
  BY <1>3 DEF ToTraverse, White
<1>5. BarrierColours(x, o) \in [Obj -> Colours]
  BY <1>1, MarkedColours DEF BarrierColours, Colours
<1>6. CASE keepinvariant
  <2>1. BarrierColours(x, o) = reallymarkobject(BarrierMarks(x, o))
    BY <1>6 DEF BarrierColours
  <2>2. \A y \in Allocated : ~isdead(y)
    BY <1>1, <1>6 DEF Marking
  <2>3. \A y \in Allocated :
           BarrierColours(x, o)[y] # otherwhite(currentwhite)
    BY <1>1, <2>1, <2>2 DEF reallymarkobject, isdead, otherwhite, WhiteBits, Allocated
  <2> QED
    BY <1>2, <1>3, <1>4, <1>5, <1>6, <2>2, <2>3
<1>7. CASE ~keepinvariant
  <2>1. \A y \in Obj \ {x} : BarrierColours(x, o)[y] = marked[y]
    BY <1>1, <1>7 DEF BarrierColours, BarrierMarks, reallymarkobject
  <2>2. BarrierColours(x, o)[x] \in {marked[x], currentwhite}
    BY <1>1, <1>7 DEF BarrierColours, BarrierMarks, reallymarkobject
  <2>3. ~isdead(x)
    BY <1>2 DEF Live
  <2> QED
    BY <1>1, <1>2, <1>3, <1>4, <1>5, <1>7, <2>1, <2>2, <2>3
    DEF isdead, otherwhite, WhiteBits, Allocated
<1> QED
  BY <1>6, <1>7

\* The forward barrier keeps the marking invariant.
LEMMA ForwardMarking ==
  ASSUME IInv, TypeOK', keepinvariant, UNCHANGED <<currentwhite, grayagain>>,
         NEW x \in Obj \ Thread, NEW o \in Obj, OnStack(x), OnStack(o),
         x \notin String,
         Allocated' = Allocated, gcstate' = gcstate,
         marked' = BarrierColours(x, o),
         gray' = gray \cup ToTraverse(BarrierMarks(x, o)),
         refs' = [refs EXCEPT ![x] = @ \cup {o}]
  PROVE  Marking'
<1>1. /\ TypeOK /\ Marking /\ Shape /\ marked \in [Obj -> Colours]
      /\ refs \in [Obj -> SUBSET Obj] /\ currentwhite \in WhiteBits
  BY DEF IInv, TypeOK
<1> DEFINE R == BarrierMarks(x, o)
<1>2. /\ R \subseteq White /\ ToTraverse(R) \subseteq Allocated
      /\ x \in Live /\ o \in Live /\ x \in Allocated /\ o \in Allocated
  BY BarrierFacts DEF Live
<1>3. marked' = reallymarkobject(R)
  BY DEF BarrierColours
<1>4. White' = White \ R
  BY <1>1, <1>2, <1>3 DEF White, iswhite, reallymarkobject, Allocated, WhiteBits
<1>5. \A u \in R \cap Userdata : refs[u] \cap White \subseteq R
  BY <1>1, MarkedAtOnceFacts DEF BarrierMarks
<1>6. isblack(x) => o \notin White \ R
  BY <1>1, <1>2, MarkedAtOnceFacts DEF BarrierMarks, NeedsBarrier, White
<1>7. ASSUME NEW y \in Allocated
      PROVE  /\ ~isdead(y)'
             /\ isblack(y)' => y \notin Thread /\ refs'[y] \cap White' = {}
             /\ isgray(y)' <=> y \in gray' \cup grayagain'
  <2>1. y \in Obj
    BY DEF Allocated
  <2>2. CASE y \in R
    <3>1. marked'[y] = IF y \in Userdata \cup String THEN "black" ELSE "gray"
      BY <1>3, <2>1, <2>2 DEF reallymarkobject
    <3>2. y \in White
      BY <1>2, <2>2
    <3>3. ~isgray(y) /\ y \notin gray \cup grayagain /\ ~isblack(y)
      BY <1>1, <3>2, CurrentWhite, <2>1 DEF White, Marking
    <3>4. isgray(y)' <=> y \notin Userdata \cup String
      BY <3>1 DEF isgray
    <3>5. isgray(y)' <=> y \in gray' \cup grayagain'
      BY <3>3, <3>4, <2>2 DEF ToTraverse
    <3>6. ~isdead(y)'
      BY <1>1, <3>1 DEF isdead, otherwhite
    <3>7. ASSUME isblack(y)'
          PROVE  y \notin Thread /\ refs'[y] \cap White' = {}
      <4>1. y \in Userdata \cup String
        BY <3>1, <3>7 DEF isblack
      <4>2. refs[y] \cap (White \ R) = {}
        BY <4>1, <1>1, <1>5, <2>1, <2>2 DEF Shape
      <4>3. y = x => y \in Userdata
        BY <4>1
      <4>4. y = x => o \notin White \ R
        <5> SUFFICES ASSUME y = x, o \in White \ R
                     PROVE  FALSE
          OBVIOUS
        <5>1. NeedsBarrier(x, o)
          BY <2>2 DEF BarrierMarks
        <5> QED
          BY <1>6, <5>1 DEF NeedsBarrier
      <4> QED
        BY <4>1, <4>2, <4>4, <1>1, <1>4, <2>1, ObjAssumption
    <3> QED
      BY <3>5, <3>6, <3>7
  <2>3. CASE y \notin R
    <3>1. marked'[y] = marked[y]
      BY <1>3, <2>1, <2>3 DEF reallymarkobject
    <3>2. isgray(y)' <=> y \in gray' \cup grayagain'
      BY <1>1, <3>1, <2>3 DEF Marking, isgray, ToTraverse
    <3>3. ~isdead(y)' /\ (isblack(y)' => isblack(y))
      BY <1>1, <3>1 DEF Marking, isdead, isblack
    <3>4. isblack(y) => y \notin Thread /\ refs'[y] \cap White' = {}
      BY <1>1, <1>4, <1>6, <2>1 DEF Marking
    <3> QED
      BY <3>2, <3>3, <3>4
  <2> QED
    BY <2>2, <2>3
<1>8. ~iswhite(MainThread)'
  BY <1>1, <1>2, <1>3, ObjAssumption DEF Marking, iswhite, reallymarkobject,
     Obj, WhiteBits
<1>9. gray' \cup grayagain' \subseteq Allocated' /\ gray' \cap grayagain' = {}
  <2>1. R \cap grayagain = {} /\ ToTraverse(R) \subseteq R
    BY <1>1, <1>2, CurrentWhite DEF Marking, White, ToTraverse, Allocated
  <2> QED
    BY <1>1, <1>2, <2>1 DEF Marking
<1> QED
  BY <1>7, <1>8, <1>9 DEF Marking

\* SetOther, with the forward barrier.
LEMMA OtherSet ==
  ASSUME IInv, TypeOK', NEW x \in Table \cup Userdata \cup Closure,
         NEW o \in Obj, SetOther(x, o)
  PROVE  IInv'
<1>1. /\ TypeOK /\ Shape /\ Chain /\ NoDangling /\ Marking /\ Sweeping
      /\ refs \in [Obj -> SUBSET Obj]
      /\ marked \in [Obj -> Colours] /\ currentwhite \in WhiteBits
      /\ x \in Obj \ Thread /\ x \notin String
  BY ObjAssumption DEF IInv, TypeOK, Obj
<1>2. /\ UNCHANGED <<list, roots, cstack, currentwhite, gcstate, grayagain,
                     tosweep>>
      /\ OnStack(x) /\ OnStack(o)
      /\ refs' = [refs EXCEPT ![x] = @ \cup {o}]
      /\ marked' = BarrierColours(x, o)
      /\ gray' = gray \cup ToTraverse(BarrierMarks(x, o))
  BY <1>1 DEF SetOther, HeldBy
<1>3. x \in Live /\ o \in Live
  BY <1>1, <1>2, BarrierFacts
<1>4. Allocated' = Allocated /\ Live' = Live /\ \A l : Linked(l)' = Linked(l)
  BY <1>1, <1>2, BarrierFacts DEF Allocated, Live, Linked, isdead
<1>5. Shape'
  BY <1>1, <1>2, <1>3 DEF Shape, Live, Allocated
<1>6. Chain' /\ Active' = Active
  BY <1>1, <1>2, ChainKept DEF TypeOK, Active
<1>7. NoDangling'
  BY <1>1, <1>2, <1>3, <1>4, <1>6, LiveOnStack DEF NoDangling
<1>8. Marking'
  BY <1>1, <1>2, <1>4, ForwardMarking DEF Marking, keepinvariant
<1>9. Sweeping'
  BY <1>1, <1>2, <1>3, <1>4, BarrierFacts
  DEF Sweeping, Unswept, keepinvariant, iswhite, isdead, Live, WhiteBits,
      otherwhite, Allocated
<1> QED
  BY <1>5, <1>6, <1>7, <1>8, <1>9 DEF IInv

\* SetTable, with the backward barrier.
LEMMA TableSet ==
  ASSUME IInv, TypeOK', NEW t \in Table, NEW o \in Obj, SetTable(t, o)
  PROVE  IInv'
<1>1. /\ TypeOK /\ Shape /\ Chain /\ NoDangling /\ Marking /\ Sweeping
      /\ refs \in [Obj -> SUBSET Obj]
      /\ marked \in [Obj -> Colours] /\ currentwhite \in WhiteBits
      /\ t \in Obj \ Thread /\ t \notin String
  BY ObjAssumption DEF IInv, TypeOK, Obj
<1>2. /\ UNCHANGED <<list, roots, cstack, currentwhite, gcstate, gray, tosweep>>
      /\ OnStack(t) /\ OnStack(o)
      /\ refs' = [refs EXCEPT ![t] = @ \cup {o}]
      /\ IF NeedsBarrier(t, o)
         THEN /\ marked' = [marked EXCEPT ![t] = "gray"]
              /\ grayagain' = grayagain \cup {t}
         ELSE UNCHANGED <<marked, grayagain>>
  BY <1>1 DEF SetTable, HeldBy
<1>3. t \in Live /\ o \in Live /\ t \in Allocated
  BY <1>2, LiveOnStack DEF OnStack
<1>4. /\ Allocated' = Allocated /\ Live' = Live /\ White' = White
      /\ \A l : Linked(l)' = Linked(l)
  BY <1>1, <1>2, <1>3 DEF Allocated, Live, White, Linked, isdead, iswhite,
     NeedsBarrier, isblack, otherwhite, WhiteBits
<1>5. Shape'
  BY <1>1, <1>2, <1>3 DEF Shape, Live, Allocated
<1>6. Chain' /\ Active' = Active
  BY <1>1, <1>2, ChainKept DEF TypeOK, Active
<1>7. NoDangling'
  BY <1>1, <1>2, <1>3, <1>4, <1>6, LiveOnStack DEF NoDangling
<1>8. Marking'
  <2> SUFFICES ASSUME keepinvariant
               PROVE  Marking'
    BY <1>2 DEF Marking, keepinvariant
  <2>1. isblack(t)' => o \notin White
    BY <1>1, <1>2, <1>3, LiveOnStack DEF NeedsBarrier, White, isblack, Live
  <2>2. ASSUME NEW y \in Allocated
        PROVE  /\ ~isdead(y)'
               /\ isblack(y)' => y \notin Thread /\ refs'[y] \cap White' = {}
               /\ isgray(y)' <=> y \in gray' \cup grayagain'
    <3>1. CASE y = t
      BY <1>1, <1>2, <1>3, <1>4, <2>1, <3>1
      DEF Marking, isdead, isblack, isgray, otherwhite, NeedsBarrier
    <3>2. CASE y # t
      BY <1>1, <1>2, <1>4, <3>2
      DEF Marking, isdead, isblack, isgray, Allocated
    <3> QED
      BY <3>1, <3>2
  <2>3. ~iswhite(MainThread)'
    BY <1>1, <1>2, ObjAssumption DEF Marking, iswhite, WhiteBits, Obj
  <2>4. gray' \cup grayagain' \subseteq Allocated' /\ gray' \cap grayagain' = {}
    BY <1>1, <1>2, <1>3, <1>4, CurrentWhite DEF Marking, NeedsBarrier
  <2> QED
    BY <1>4, <2>2, <2>3, <2>4 DEF Marking
<1>9. Sweeping'
  BY <1>1, <1>2, <1>3, <1>4
  DEF Sweeping, Unswept, keepinvariant, iswhite, isdead, Live, WhiteBits,
      otherwhite, Allocated, NeedsBarrier, isblack
<1> QED
  BY <1>5, <1>6, <1>7, <1>8, <1>9 DEF IInv

\* luaC_checkfinalizer, which may also move the sweep on.
LEMMA FinalizerSet ==
  ASSUME IInv, TypeOK', NEW x \in Table \cup Userdata, NEW mt \in Table,
         SetFinalizer(x, mt)
  PROVE  IInv'
<1>1. /\ TypeOK /\ Shape /\ Chain /\ NoDangling /\ Marking /\ Sweeping
      /\ refs \in [Obj -> SUBSET Obj] /\ list \in [Obj -> Lists]
      /\ marked \in [Obj -> Colours] /\ currentwhite \in WhiteBits
      /\ x \in Obj \ Thread /\ x \notin String /\ mt \in Obj
  BY ObjAssumption DEF IInv, TypeOK, Obj
<1>2. PICK S \in {{}} \cup SweptToLive :
        LET dead == {o \in S : isdead(o)} IN
        /\ S # {} => gcstate = "GCSswpallgc" /\ x \notin tosweep
        /\ list' = [o \in Obj |-> IF o \in dead THEN "free"
                                  ELSE IF o = x THEN "finobj" ELSE list[o]]
        /\ refs' = [o \in Obj |-> IF o \in dead THEN {}
                                  ELSE IF o = x THEN refs[x] \cup {mt} ELSE refs[o]]
        /\ marked' = [o \in Obj |-> IF o \in dead THEN "white0"
                                    ELSE IF o \in S \/ (o = x /\ issweepphase)
                                    THEN currentwhite ELSE BarrierColours(x, mt)[o]]
        /\ tosweep' = tosweep \ (S \cup {x})
  BY DEF SetFinalizer
<1> DEFINE dead == {o \in S : isdead(o)}
<1>3. /\ UNCHANGED <<roots, cstack, currentwhite, gcstate, grayagain>>
      /\ OnStack(x) /\ OnStack(mt) /\ ~tofinalize(x)
      /\ gray' = gray \cup ToTraverse(BarrierMarks(x, mt))
  BY DEF SetFinalizer
<1>4. /\ x \in Live /\ mt \in Live /\ x \in Allocated /\ ~isdead(x)
      /\ list[x] = "allgc" /\ x # MainThread
  BY <1>1, <1>3, BarrierFacts, ObjAssumption
  DEF Live, Allocated, Shape, Lists, tofinalize
<1>5. S \subseteq tosweep /\ (S # {} => S \subseteq Linked("allgc") /\ ~keepinvariant)
  BY <1>1, <1>2 DEF SweptToLive, Sweeping, keepinvariant
<1>6. \A o \in dead : o \in Obj /\ o # x /\ o # MainThread /\ o \notin Live
  BY <1>1, <1>4, <1>5 DEF Shape, Linked, Live
<1>7. Allocated' = Allocated \ dead /\ Live' = Live
  <2>1. Allocated' = Allocated \ dead
    BY <1>2, <1>4 DEF Allocated
  <2>2. ASSUME NEW o \in Allocated \ dead
        PROVE  isdead(o)' <=> isdead(o)
    <3>1. BarrierColours(x, mt)[o] = otherwhite(currentwhite) <=> isdead(o)
      BY <1>1, <1>3, BarrierFacts
    <3>2. o \in S => ~isdead(o)
      BY <2>2
    <3> QED
      BY <1>1, <1>2, <1>3, <1>4, <3>1, <3>2
      DEF isdead, otherwhite, WhiteBits, Allocated
  <2> QED
    BY <1>6, <2>1, <2>2 DEF Live
<1>8. /\ refs'[x] = refs[x] \cup {mt}
      /\ \A o \in Obj \ dead : o # x => refs'[o] = refs[o]
      /\ \A o \in dead : refs'[o] = {}
  BY <1>1, <1>2, <1>6
<1>9. Shape'
  BY <1>1, <1>2, <1>4, <1>6, <1>8 DEF Shape
<1>10. Chain' /\ Active' = Active
  <2>1. \A t \in Active : t \in Live /\ t \in Obj
    BY <1>1, LiveOnStack DEF NoDangling
  <2>2. \A t \in Active : refs[t] \subseteq refs'[t]
    BY <1>6, <1>8, <2>1
  <2> QED
    BY <1>1, <1>3, <2>2, ChainKept
<1>11. NoDangling'
  BY <1>1, <1>3, <1>4, <1>6, <1>7, <1>8, <1>10, LiveOnStack DEF NoDangling
<1>12. Marking'
  <2> SUFFICES ASSUME keepinvariant
               PROVE  Marking'
    BY <1>3 DEF Marking, keepinvariant
  <2>1. S = {} /\ ~issweepphase
    BY <1>5 DEF keepinvariant, issweepphase
  <2>2. marked' = BarrierColours(x, mt)
    BY <1>1, <1>2, <1>3, <2>1, BarrierFacts
  <2>3. refs' = [refs EXCEPT ![x] = @ \cup {mt}]
    BY <1>1, <1>2, <2>1
  <2> QED
    BY <1>1, <1>3, <1>7, <2>1, <2>2, <2>3, ForwardMarking
<1>13. Sweeping'
  <2> SUFFICES ASSUME ~keepinvariant
               PROVE  Sweeping'
    BY <1>3 DEF Sweeping, keepinvariant
  <2>1. ~keepinvariant'
    BY <1>3 DEF keepinvariant
  <2>2. /\ \A o \in Obj \ {x} : BarrierColours(x, mt)[o] = marked[o]
        /\ BarrierColours(x, mt)[x] \in {marked[x], currentwhite}
    BY <1>1, <1>3, BarrierFacts
  <2>3. marked'[x] = currentwhite
    <3>1. CASE issweepphase
      BY <1>1, <1>2, <1>6, <3>1
    <3>2. CASE ~issweepphase
      <4>1. Unswept = {} /\ gcstate # "GCSswpallgc"
        BY <3>2 DEF Unswept, issweepphase
      <4>2. marked[x] = currentwhite
        BY <1>1, <1>4, <4>1, CurrentWhite DEF Sweeping
      <4> QED
        BY <1>1, <1>2, <1>6, <2>2, <3>2, <4>2
    <3> QED
      BY <3>1, <3>2
  <2>4. \A o \in Allocated' \ {x} :
          marked'[o] = IF o \in S THEN currentwhite ELSE marked[o]
    BY <1>2, <1>7, <2>2 DEF Allocated
  <2>5. /\ Linked("finobj")' = Linked("finobj") \cup {x}
        /\ Linked("tobefnz")' = Linked("tobefnz")
        /\ Linked("allgc")' = Linked("allgc") \ (dead \cup {x})
    <3>1. \A o \in dead : list[o] = "allgc"
      BY <1>5 DEF Linked
    <3> QED
      BY <1>1, <1>2, <1>4, <1>6, <3>1 DEF Linked
  <2>6. /\ gcstate' = "GCSswpallgc" => tosweep' \subseteq Linked("allgc")'
        /\ gcstate' = "GCSswpfinobj" => tosweep' \subseteq Linked("finobj")'
        /\ gcstate' = "GCSswptobefnz" => tosweep' = Linked("tobefnz")'
    BY <1>1, <1>2, <1>3, <1>4, <1>5, <2>5 DEF Sweeping, Linked
  <2>7. ASSUME NEW o \in Allocated'
        PROVE  /\ ~iswhite(o)' => o \in Unswept'
               /\ isdead(o)' => gcstate' = "GCSswpallgc" /\ o \in tosweep'
    <3>1. CASE o = x \/ o \in S
      BY <1>1, <1>3, <2>3, <2>4, <3>1 DEF iswhite, isdead, otherwhite, WhiteBits
    <3>2. CASE o # x /\ o \notin S
      <4>1. marked'[o] = marked[o] /\ o \in Allocated
        BY <1>7, <2>4, <3>2
      <4>2. /\ ~iswhite(o) => o \in Unswept
            /\ isdead(o) => gcstate = "GCSswpallgc" /\ o \in tosweep
        BY <1>1, <4>1, ~keepinvariant DEF Sweeping
      <4>3. o \in Unswept => o \in Unswept'
        BY <1>2, <1>3, <2>5, <3>2 DEF Unswept
      <4> QED
        BY <1>2, <1>3, <3>2, <4>1, <4>2, <4>3 DEF iswhite, isdead
    <3> QED
      BY <3>1, <3>2
  <2> QED
    BY <2>6, <2>7 DEF Sweeping
<1> QED
  BY <1>9, <1>10, <1>11, <1>12, <1>13 DEF IInv

\* A finalizer is called with the first object of 'tobefnz'.
LEMMA FinalizerCalled ==
  ASSUME IInv, TypeOK', NEW o \in Table \cup Userdata, GCTM(o)
  PROVE  IInv'
<1>1. /\ TypeOK /\ Shape /\ Chain /\ NoDangling /\ Marking /\ Sweeping
      /\ refs \in [Obj -> SUBSET Obj] /\ list \in [Obj -> Lists]
      /\ marked \in [Obj -> Colours] /\ currentwhite \in WhiteBits
      /\ L \in Thread /\ L \in Obj /\ L \in Live /\ o \in Obj /\ o # L
      /\ gcstate \in States
  BY RunningThread, LiveOnStack, ObjAssumption DEF IInv, TypeOK, Obj
<1>2. /\ UNCHANGED <<roots, cstack, currentwhite, gcstate, gray, grayagain>>
      /\ list[o] = "tobefnz"
      /\ refs' = [refs EXCEPT ![L] = @ \cup {o}]
      /\ list' = [list EXCEPT ![o] = "allgc"]
      /\ marked' = [marked EXCEPT ![o] = IF issweepphase THEN currentwhite ELSE @]
  BY DEF GCTM
<1>3. o \in Allocated /\ o \in Live /\ ~isdead(o)
  <2>1. o \in Allocated
    BY <1>1, <1>2 DEF Allocated
  <2>2. ~isdead(o)
    BY <1>1, <1>2, <2>1 DEF Marking, Sweeping, Linked
  <2> QED
    BY <2>1, <2>2 DEF Live
<1>4. Allocated' = Allocated /\ Live' = Live
  BY <1>1, <1>2, <1>3 DEF Allocated, Live, isdead, otherwhite, WhiteBits
<1>5. Shape'
  BY <1>1, <1>2, ObjAssumption DEF Shape, Live, Allocated, Obj
<1>6. Chain' /\ Active' = Active
  BY <1>1, <1>2, ChainKept
<1>7. NoDangling'
  BY <1>1, <1>2, <1>3, <1>4, <1>6, LiveOnStack DEF NoDangling
<1>8. Marking'
  <2> SUFFICES ASSUME keepinvariant
               PROVE  Marking'
    BY <1>2 DEF Marking, keepinvariant
  <2>1. marked' = marked
    BY <1>1, <1>2 DEF keepinvariant, issweepphase
  <2>2. White' = White
    BY <1>4, <2>1 DEF White, iswhite
  <2> QED
    BY <1>1, <1>2, <1>4, <2>1, <2>2
    DEF Marking, iswhite, isdead, isblack, isgray
<1>9. Sweeping'
  <2> SUFFICES ASSUME ~keepinvariant
               PROVE  Sweeping'
    BY <1>2 DEF Sweeping, keepinvariant
  <2>1. /\ Linked("finobj")' = Linked("finobj")
        /\ Linked("tobefnz")' = Linked("tobefnz") \ {o}
        /\ Linked("allgc")' = Linked("allgc") \cup {o}
    BY <1>1, <1>2 DEF Linked
  <2>2. tosweep' = tosweep \ {o}
    BY <1>1, <1>2 DEF GCTM, Sweeping, Linked
  <2>3. marked'[o] = currentwhite
    <3>1. CASE issweepphase
      BY <1>1, <1>2, <3>1
    <3>2. CASE ~issweepphase
      BY <1>1, <1>2, <1>3, <3>2, CurrentWhite
      DEF Sweeping, Unswept, issweepphase, keepinvariant
    <3> QED
      BY <3>1, <3>2
  <2>4. ASSUME NEW y \in Allocated'
        PROVE  /\ ~iswhite(y)' => y \in Unswept'
               /\ isdead(y)' => gcstate' = "GCSswpallgc" /\ y \in tosweep'
    <3>1. CASE y = o
      BY <1>1, <1>2, <2>3, <3>1 DEF iswhite, isdead, otherwhite, WhiteBits
    <3>2. CASE y # o
      <4>1. marked'[y] = marked[y] /\ y \in Allocated
        BY <1>2, <1>4, <3>2
      <4>2. /\ ~iswhite(y) => y \in Unswept
            /\ isdead(y) => gcstate = "GCSswpallgc" /\ y \in tosweep
        BY <1>1, <4>1 DEF Sweeping
      <4>3. y \in Unswept => y \in Unswept'
        BY <1>2, <2>1, <2>2, <3>2 DEF Unswept
      <4> QED
        BY <1>2, <2>2, <3>2, <4>1, <4>2, <4>3 DEF iswhite, isdead
    <3> QED
      BY <3>1, <3>2
  <2> QED
    BY <1>1, <1>2, <2>1, <2>2, <2>4 DEF Sweeping, Linked
<1> QED
  BY <1>5, <1>6, <1>7, <1>8, <1>9 DEF IInv

-----------------------------------------------------------------------------
(* The collector: marking.                                                 *)

\* A cycle starts: everything is white but the roots.
LEMMA CycleStarted ==
  ASSUME IInv, TypeOK', restartcollection
  PROVE  IInv'
<1> DEFINE roots1 == {MainThread} \cup roots \cup Linked("tobefnz")
           R == MarkedAtOnce(roots1)
<1>1. /\ TypeOK /\ Shape /\ Chain /\ NoDangling /\ Sweeping
      /\ marked \in [Obj -> Colours] /\ currentwhite \in WhiteBits
      /\ MainThread \in Obj /\ roots1 \subseteq Obj
  BY ObjAssumption DEF IInv, TypeOK, Obj, Linked
<1>2. /\ UNCHANGED <<list, refs, roots, cstack, currentwhite>>
      /\ gcstate = "GCSpause" /\ keepinvariant'
      /\ marked' = reallymarkobject(R) /\ gray' = ToTraverse(R) /\ grayagain' = {}
  BY DEF restartcollection, heapVars, keepinvariant
<1>3. /\ R \subseteq White /\ roots1 \cap White \subseteq R
      /\ \A u \in R \cap Userdata : refs[u] \cap White \subseteq R
  BY <1>1, MarkedAtOnceFacts
<1> HIDE DEF R
<1>4. \A o \in Allocated : marked[o] = currentwhite /\ o \in Obj
  <2>1. ~keepinvariant /\ Unswept = {}
    BY <1>2 DEF keepinvariant, Unswept
  <2> QED
    BY <1>1, <1>2, <2>1, CurrentWhite DEF Sweeping, Allocated
<1>5. Allocated' = Allocated /\ Live' = Live
  BY <1>1, <1>2, <1>4
  DEF Allocated, Live, isdead, reallymarkobject, otherwhite, WhiteBits
<1>6. Shape' /\ Chain' /\ NoDangling' /\ Sweeping'
  BY <1>1, <1>2, <1>5 DEF Shape, Chain, NoDangling, Active, Sweeping
<1>7. Marking'
  <2>1. gray' \cup grayagain' \subseteq Allocated' /\ gray' \cap grayagain' = {}
    BY <1>2, <1>3, <1>5 DEF ToTraverse, White
  <2>2. MainThread \in R
    <3>1. MainThread \in Allocated
      BY <1>1 DEF Shape, Allocated
    <3> QED
      BY <1>1, <1>3, <1>4, <3>1 DEF White, iswhite
  <2>3. White' = White \ R
    BY <1>1, <1>2, <1>4, <1>5 DEF White, iswhite, reallymarkobject, WhiteBits
  <2>4. ASSUME NEW o \in Allocated
        PROVE  /\ ~isdead(o)'
               /\ isblack(o)' => o \notin Thread /\ refs'[o] \cap White' = {}
               /\ isgray(o)' <=> o \in gray' \cup grayagain'
    <3>1. CASE o \notin R
      BY <1>1, <1>2, <1>4, <3>1
      DEF isdead, isblack, isgray, reallymarkobject, otherwhite, WhiteBits,
          ToTraverse
    <3>2. CASE o \in R
      <4>1. marked'[o] = IF o \in Userdata \cup String THEN "black" ELSE "gray"
        BY <1>2, <1>4, <3>2 DEF reallymarkobject
      <4>2. o \in Userdata \cup String =>
              o \notin Thread /\ refs[o] \cap White \subseteq R
        BY <1>1, <1>3, <1>4, <3>2, ObjAssumption DEF Shape
      <4> QED
        BY <1>1, <1>2, <2>3, <3>2, <4>1, <4>2
        DEF isdead, isblack, isgray, otherwhite, WhiteBits, ToTraverse
    <3> QED
      BY <3>1, <3>2
  <2> QED
    BY <1>1, <1>5, <2>1, <2>2, <2>3, <2>4 DEF Marking, White, iswhite,
       Allocated, Shape
<1> QED
  BY <1>6, <1>7 DEF IInv

\* A gray object is traversed.
LEMMA ObjectTraversed ==
  ASSUME IInv, TypeOK', NEW o \in Obj, propagatemark(o)
  PROVE  IInv'
<1> DEFINE R == MarkedAtOnce(refs[o])
<1>1. /\ TypeOK /\ Shape /\ Chain /\ NoDangling /\ Marking
      /\ marked \in [Obj -> Colours] /\ currentwhite \in WhiteBits
      /\ MainThread \in Obj /\ refs[o] \subseteq Obj
  BY ObjAssumption DEF IInv, TypeOK, Obj
<1>2. /\ UNCHANGED <<list, refs, roots, cstack, currentwhite>>
      /\ keepinvariant /\ keepinvariant' /\ o \in gray
      /\ marked' = [reallymarkobject(R) EXCEPT
                      ![o] = IF o \in Thread THEN "gray" ELSE "black"]
      /\ gray' = (gray \ {o}) \cup ToTraverse(R)
      /\ grayagain' = IF o \in Thread THEN grayagain \cup {o} ELSE grayagain
  BY DEF propagatemark, heapVars, keepinvariant
<1>3. /\ R \subseteq White /\ refs[o] \cap White \subseteq R
      /\ \A u \in R \cap Userdata : refs[u] \cap White \subseteq R
  BY <1>1, MarkedAtOnceFacts
<1> HIDE DEF R
<1>4. /\ gray \cup grayagain \subseteq Allocated
      /\ gray \cap grayagain = {}
      /\ ~iswhite(MainThread) /\ Allocated \subseteq Obj
      /\ \A y \in Allocated :
           /\ ~isdead(y)
           /\ isblack(y) => y \notin Thread /\ refs[y] \cap White = {}
           /\ isgray(y) <=> y \in gray \cup grayagain
  BY <1>1, <1>2 DEF Marking, Allocated
<1>5. o \in Allocated /\ isgray(o) /\ o \notin R
  BY <1>1, <1>2, <1>3, <1>4, CurrentWhite DEF White
<1>6. /\ marked'[o] = IF o \in Thread THEN "gray" ELSE "black"
      /\ \A y \in R : marked'[y] = IF y \in Userdata \cup String
                                   THEN "black" ELSE "gray"
      /\ \A y \in Obj \ (R \cup {o}) : marked'[y] = marked[y]
  BY <1>2, <1>3, <1>4, <1>5 DEF reallymarkobject, White
<1>7. /\ Allocated' = Allocated /\ Live' = Live /\ White' = White \ R
  BY <1>1, <1>2, <1>3, <1>4, <1>5, <1>6
  DEF Allocated, Live, White, isdead, iswhite, isgray, otherwhite, WhiteBits
<1>8. Shape' /\ Chain' /\ NoDangling' /\ Sweeping'
  BY <1>1, <1>2, <1>7 DEF Shape, Chain, NoDangling, Active, Sweeping
<1>9. Marking'
  <2>1. gray' \cup grayagain' \subseteq Allocated' /\ gray' \cap grayagain' = {}
    <3>1. R \cap (gray \cup grayagain) = {}
      BY <1>1, <1>3, <1>4, CurrentWhite DEF White
    <3>2. ToTraverse(R) \subseteq R /\ R \subseteq Allocated
      BY <1>3 DEF ToTraverse, White
    <3>3. gray' \subseteq (gray \ {o}) \cup R /\ grayagain' \subseteq grayagain \cup {o}
      BY <1>2, <3>2
    <3>4. gray' \cup grayagain' \subseteq Allocated
      BY <1>4, <1>5, <3>2, <3>3
    <3>5. gray' \cap grayagain' = {}
      BY <1>4, <1>5, <3>1, <3>3
    <3> QED
      BY <1>7, <3>4, <3>5
  <2>2. ~iswhite(MainThread)'
    BY <1>1, <1>3, <1>4, <1>6 DEF White, iswhite, WhiteBits
  <2>3. ASSUME NEW y \in Allocated
        PROVE  /\ ~isdead(y)'
               /\ isblack(y)' => y \notin Thread /\ refs'[y] \cap White' = {}
               /\ isgray(y)' <=> y \in gray' \cup grayagain'
    <3>1. CASE y = o
      <4>1. o \in Thread => o \in grayagain'
        BY <1>2
      <4>2. o \notin Thread => o \notin gray' \cup grayagain'
        BY <1>2, <1>4, <1>5 DEF ToTraverse
      <4> QED
        BY <1>1, <1>2, <1>3, <1>6, <1>7, <3>1, <4>1, <4>2
        DEF isdead, isblack, isgray, otherwhite, WhiteBits
    <3>2. CASE y \in R
      <4>1. y \notin gray \cup grayagain /\ y # o
        BY <1>1, <1>3, <1>4, <1>5, <3>2, CurrentWhite DEF White
      <4>2. y \in Userdata \cup String =>
              y \notin Thread /\ refs[y] \cap White \subseteq R
        BY <1>1, <1>3, <1>4, <3>2, ObjAssumption DEF Shape
      <4> QED
        BY <1>1, <1>2, <1>6, <1>7, <3>2, <4>1, <4>2
        DEF isdead, isblack, isgray, otherwhite, WhiteBits, ToTraverse
    <3>3. CASE y \notin R /\ y # o
      <4>1. marked'[y] = marked[y]
        BY <1>4, <1>6, <3>3
      <4>2. y \in gray' \cup grayagain' <=> y \in gray \cup grayagain
        BY <1>2, <3>3 DEF ToTraverse
      <4> QED
        BY <1>2, <1>4, <1>7, <4>1, <4>2 DEF isdead, isblack, isgray
    <3> QED
      BY <3>1, <3>2, <3>3
  <2> QED
    BY <1>7, <2>1, <2>2, <2>3 DEF Marking
<1> QED
  BY <1>8, <1>9 DEF IInv

-----------------------------------------------------------------------------
(* The collector: sweeping.                                                *)

\* A set that contains the main thread and what its threads refer to contains
\* every thread in use: each of them is held by the one that resumed it.
LEMMA ChainInClosed ==
  ASSUME TypeOK, Chain, NEW T, MainThread \in T,
         \A t \in T \cap Thread : refs[t] \subseteq T
  PROVE  Active \subseteq T
<1> DEFINE outside == {i \in 1 .. Len(cstack) : cstack[i] \notin T}
<1>1. Len(cstack) \in Nat /\ \A i \in 1 .. Len(cstack) : cstack[i] \in Thread
  BY DEF TypeOK
<1>2. outside = {}
  <2> SUFFICES ASSUME outside # {}
               PROVE  FALSE
    OBVIOUS
  <2>1. outside \subseteq Nat
    BY <1>1
  <2>2. PICK i \in outside : \A j \in outside : ~(<<j, i>> \in OpToRel(<, Nat))
    BY <2>1, NatLessThanWellFounded, WFMin
  <2>3. \A j \in outside : ~(j < i)
    BY <2>1, <2>2 DEF OpToRel
  <2>4. i \in 1 .. Len(cstack) /\ cstack[i] \notin T /\ i # 1
    BY DEF Chain
  <2>5. i - 1 \in 1 .. Len(cstack) - 1 /\ i - 1 < i /\ (i - 1) + 1 = i
    BY <1>1, <2>4
  <2>6. cstack[i - 1] \in T \cap Thread
    BY <1>1, <2>3, <2>5
  <2>7. cstack[i] \in refs[cstack[i - 1]]
    BY <2>5 DEF Chain
  <2> QED
    BY <2>4, <2>6, <2>7
<1> QED
  BY <1>2 DEF Active

\* What sweeplist does to each object.
LEMMA SweptObjects ==
  ASSUME TypeOK, NEW S, NEW m, NEW w, NEW l, sweeplist(S, m, w, l),
         NEW o \in Obj
  PROVE  /\ o \in S /\ m[o] = otherwhite(w) =>
              list'[o] = "free" /\ refs'[o] = {}
         /\ ~(o \in S /\ m[o] = otherwhite(w)) =>
              /\ list'[o] = l[o] /\ refs'[o] = refs[o]
              /\ marked'[o] = IF o \in S THEN w ELSE m[o]
BY DEF sweeplist

\* Freeing is safe when neither what is in use nor what the rest refers to is
\* freed (dead), and the rest is what is live afterwards.
LEMMA SafeFreeing ==
  ASSUME TypeOK, Shape, Chain, TypeOK', UNCHANGED <<roots, cstack>>,
         NEW dead \in SUBSET Obj,
         \A o \in dead : list'[o] = "free" /\ refs'[o] = {},
         \A o \in Obj \ dead :
            /\ refs'[o] = refs[o]
            /\ list'[o] = "free" <=> list[o] = "free"
            /\ list'[o] = "mainthread" <=> list[o] = "mainthread",
         Active \cup roots \subseteq Live',
         \A o \in Live' : refs[o] \subseteq Live'
  PROVE  Shape' /\ Chain' /\ NoDangling' /\ Allocated' = Allocated \ dead
<1>1. Live' \subseteq Obj \ dead
  BY DEF Live, Allocated
<1>2. Allocated' = Allocated \ dead
  BY DEF Allocated
<1>3. MainThread \in Active /\ MainThread \in Obj
  BY ObjAssumption DEF TypeOK, Chain, Active, Obj
<1>4. Shape'
  BY <1>1, <1>3 DEF Shape
<1>5. Chain' /\ Active' = Active
  BY <1>1, ChainKept DEF Active
<1>6. NoDangling'
  BY <1>1, <1>5 DEF NoDangling
<1> QED
  BY <1>2, <1>4, <1>5, <1>6

\* One step of a sweep that does not change the white.
LEMMA SweepSlice ==
  ASSUME IInv, TypeOK', NEW S \in SUBSET Obj,
         sweeplist(S, marked, currentwhite, list),
         UNCHANGED <<roots, cstack, currentwhite>>
  PROVE  /\ Shape' /\ Chain' /\ NoDangling'
         /\ \A l : l # "free" =>
              Linked(l)' = Linked(l) \ {o \in S : isdead(o)}
         /\ \A o \in Allocated' :
              /\ o \in Allocated /\ o \in Obj
              /\ marked'[o] = IF o \in S THEN currentwhite ELSE marked[o]
              /\ isdead(o)' <=> isdead(o) /\ o \notin S
              /\ iswhite(o)' <=> iswhite(o) \/ o \in S
<1> DEFINE dead == {o \in S : isdead(o)}
<1>1. /\ TypeOK /\ Shape /\ Chain /\ NoDangling /\ currentwhite \in WhiteBits
  BY DEF IInv, TypeOK
<1>2. /\ \A o \in dead : list'[o] = "free" /\ refs'[o] = {}
      /\ \A o \in Obj \ dead :
           /\ list'[o] = list[o] /\ refs'[o] = refs[o]
           /\ marked'[o] = IF o \in S THEN currentwhite ELSE marked[o]
  BY <1>1, SweptObjects DEF isdead
<1>3. ASSUME NEW l, l # "free"
      PROVE  Linked(l)' = Linked(l) \ dead
  BY <1>2, <1>3 DEF Linked
<1>4. Allocated' = Allocated \ dead
  BY <1>2 DEF Allocated
<1>5. ASSUME NEW o \in Allocated'
      PROVE  /\ o \in Allocated /\ o \in Obj
             /\ marked'[o] = IF o \in S THEN currentwhite ELSE marked[o]
             /\ isdead(o)' <=> isdead(o) /\ o \notin S
             /\ iswhite(o)' <=> iswhite(o) \/ o \in S
  <2>1. o \in Allocated /\ o \in Obj \ dead
    BY <1>4 DEF Allocated
  <2>2. marked'[o] = IF o \in S THEN currentwhite ELSE marked[o]
    BY <1>2, <2>1
  <2> QED
    BY <1>1, <2>1, <2>2 DEF isdead, iswhite, otherwhite, WhiteBits
<1>6. Live' = Live
  BY <1>4, <1>5 DEF Live
<1>7. Shape' /\ Chain' /\ NoDangling'
  <2>1. Active \cup roots \subseteq Live' /\ \A o \in Live' : refs[o] \subseteq Live'
    BY <1>1, <1>6 DEF NoDangling
  <2>2. dead \in SUBSET Obj
    OBVIOUS
  <2> HIDE DEF dead
  <2> QED
    BY <1>1, <1>2, <2>1, <2>2, SafeFreeing
<1> QED
  BY <1>3, <1>5, <1>7

\* luaC_fullgc: giving up a cycle only makes objects white.
LEMMA CycleGivenUp ==
  ASSUME IInv, TypeOK', NEW kind, luaC_fullgc(kind)
  PROVE  IInv'
<1>1. /\ TypeOK /\ Marking /\ Sweeping /\ UNCHANGED <<roots, cstack, currentwhite>>
  BY DEF IInv, luaC_fullgc
<1>2. CASE keepinvariant
  <2>1. PICK S \in Slices(Linked("allgc"), 1) :
          /\ sweeplist(S, marked, currentwhite, list)
          /\ tosweep' = Linked("allgc") \ S
    BY <1>2 DEF luaC_fullgc
  <2>2. S \in SUBSET Obj /\ S \subseteq Linked("allgc") /\ gcstate' = "GCSswpallgc"
    BY <1>2 DEF Slices, Linked, luaC_fullgc
  <2>3. \A o \in Allocated : ~isdead(o)
    BY <1>1, <1>2 DEF Marking
  <2>4. \A o \in S : ~isdead(o)
    BY <2>2, <2>3 DEF Linked, Allocated
  <2>5. /\ Shape' /\ Chain' /\ NoDangling'
        /\ \A l : l # "free" => Linked(l)' = Linked(l) \ {o \in S : isdead(o)}
        /\ \A o \in Allocated' :
             /\ o \in Allocated /\ o \in Obj
             /\ marked'[o] = IF o \in S THEN currentwhite ELSE marked[o]
             /\ isdead(o)' <=> isdead(o) /\ o \notin S
             /\ iswhite(o)' <=> iswhite(o) \/ o \in S
    BY <1>1, <2>1, <2>2, SweepSlice
  <2>6. Marking'
    BY <2>2 DEF Marking, keepinvariant
  <2>7. \A o \in Allocated' : o \in S \/ o \in Unswept'
    <3>1. \A l : l # "free" => Linked(l)' = Linked(l)
      BY <2>4, <2>5
    <3>2. ASSUME NEW o \in Allocated', o \notin S
          PROVE  o \in Unswept'
      <4>1. list'[o] \in Lists \ {"free"} /\ o \in Obj
        BY <2>5 DEF TypeOK, Allocated
      <4>2. list'[o] = "mainthread" => o = MainThread
        BY <2>5, <4>1 DEF Shape
      <4>3. list'[o] = "allgc" => o \in tosweep'
        BY <2>1, <3>1, <3>2, <4>1 DEF Linked
      <4> QED
        BY <2>2, <4>1, <4>2, <4>3 DEF Unswept, Lists, Linked
    <3> QED
      BY <3>2
  <2>8. Sweeping'
    BY <2>1, <2>2, <2>3, <2>4, <2>5, <2>7 DEF Sweeping
  <2> QED
    BY <2>5, <2>6, <2>8 DEF IInv
<1>3. CASE ~keepinvariant
  <2>1. UNCHANGED <<list, refs, roots, cstack, marked, currentwhite, gcstate,
                    gray, grayagain, tosweep>>
    BY <1>3 DEF luaC_fullgc
  <2> QED
    BY <2>1 DEF IInv, Shape, Chain, NoDangling, Marking, Sweeping, Live,
       Allocated, Linked, White, Active, Unswept, keepinvariant, isdead,
       iswhite, isblack, isgray
<1> QED
  BY <1>2, <1>3

\* The sweep of 'allgc' or 'finobj', which may take several steps.
LEMMA ListSwept ==
  ASSUME IInv, TypeOK', sweepallgc \/ sweepfinobj
  PROVE  IInv'
<1>1. /\ TypeOK /\ Sweeping /\ tosweep \in SUBSET Obj
      /\ UNCHANGED <<roots, cstack, currentwhite>>
  BY DEF IInv, TypeOK, sweepallgc, sweepfinobj, sweepstep
<1>2. PICK S \in Slices(tosweep, GCSWEEPMAX) :
        /\ sweeplist(S, marked, currentwhite, list)
        /\ S = tosweep =>
             \/ /\ gcstate = "GCSswpallgc" /\ gcstate' = "GCSswpfinobj"
                /\ tosweep' = Linked("finobj")
             \/ /\ gcstate = "GCSswpfinobj" /\ gcstate' = "GCSswptobefnz"
                /\ tosweep' = Linked("tobefnz")
        /\ S # tosweep => gcstate' = gcstate /\ tosweep' = tosweep \ S
  BY DEF sweepallgc, sweepfinobj, sweepstep
<1>3. /\ S \in SUBSET Obj /\ S \subseteq tosweep
      /\ gcstate \in {"GCSswpallgc", "GCSswpfinobj"}
      /\ gcstate' \in {"GCSswpallgc", "GCSswpfinobj", "GCSswptobefnz"}
  BY <1>1, <1>2 DEF Slices, sweepallgc, sweepfinobj, sweepstep
<1>4. /\ Shape' /\ Chain' /\ NoDangling'
      /\ \A l : l # "free" => Linked(l)' = Linked(l) \ {o \in S : isdead(o)}
      /\ \A o \in Allocated' :
           /\ o \in Allocated /\ o \in Obj
           /\ marked'[o] = IF o \in S THEN currentwhite ELSE marked[o]
           /\ isdead(o)' <=> isdead(o) /\ o \notin S
           /\ iswhite(o)' <=> iswhite(o) \/ o \in S
  BY <1>1, <1>2, <1>3, SweepSlice
<1>5. /\ gcstate = "GCSswpallgc" => tosweep \subseteq Linked("allgc")
      /\ gcstate = "GCSswpfinobj" => tosweep \subseteq Linked("finobj")
      /\ \A o \in Allocated :
           /\ ~iswhite(o) => o \in Unswept
           /\ isdead(o) => gcstate = "GCSswpallgc" /\ o \in tosweep
  BY <1>1, <1>3 DEF Sweeping, keepinvariant
<1>6. Marking' /\ ~keepinvariant'
  BY <1>3 DEF Marking, keepinvariant
<1>7. /\ \A o \in {x \in S : isdead(x)} : gcstate = "GCSswpallgc"
      /\ Linked("tobefnz")' = Linked("tobefnz")
      /\ Linked("finobj")' = Linked("finobj")
      /\ Linked("allgc")' = Linked("allgc") \ {x \in S : isdead(x)}
  <2>1. ASSUME NEW o \in S, isdead(o)
        PROVE  o \in Linked("allgc") /\ gcstate = "GCSswpallgc"
    <3>1. o \in Linked("allgc") \/ o \in Linked("finobj")
      BY <1>3, <1>5
    <3>2. o \in Allocated
      BY <3>1 DEF Linked, Allocated
    <3> QED
      BY <1>3, <1>5, <2>1, <3>2
  <2> QED
    BY <1>4, <2>1 DEF Linked
<1>8. /\ gcstate' = "GCSswpallgc" => tosweep' \subseteq Linked("allgc")'
      /\ gcstate' = "GCSswpfinobj" => tosweep' \subseteq Linked("finobj")'
      /\ gcstate' = "GCSswptobefnz" => tosweep' = Linked("tobefnz")'
  BY <1>2, <1>3, <1>5, <1>7
<1>9. ASSUME NEW o \in Allocated'
      PROVE  /\ ~iswhite(o)' => o \in Unswept'
             /\ isdead(o)' => gcstate' = "GCSswpallgc" /\ o \in tosweep'
  <2>1. isdead(o)' => gcstate' = "GCSswpallgc" /\ o \in tosweep'
    BY <1>2, <1>4, <1>5
  <2>2. ~iswhite(o)' => o \in Unswept /\ o \notin S
    BY <1>4, <1>5
  <2>3. o \in Unswept /\ o \notin S => o \in Unswept'
    BY <1>2, <1>3, <1>7 DEF Unswept
  <2> QED
    BY <2>1, <2>2, <2>3
<1>10. Sweeping'
  BY <1>8, <1>9 DEF Sweeping
<1> QED
  BY <1>4, <1>6, <1>10 DEF IInv

\* The sweep of 'tobefnz' takes one step when few objects are in it: this is
\* where the premise of the safety theorem is needed.
LEMMA FinalizableSwept ==
  ASSUME IInv, FewToFinalize, TypeOK', sweeptobefnz
  PROVE  IInv'
<1>1. /\ TypeOK /\ Sweeping /\ gcstate = "GCSswptobefnz"
      /\ UNCHANGED <<roots, cstack, currentwhite>>
      /\ tosweep = Linked("tobefnz") /\ ~keepinvariant
  BY DEF IInv, sweeptobefnz, sweepstep, Sweeping, keepinvariant
<1>2. PICK S \in Slices(tosweep, GCSWEEPMAX) :
        /\ sweeplist(S, marked, currentwhite, list)
        /\ S = tosweep => gcstate' = "GCSswpend" /\ tosweep' = {}
  BY DEF sweeptobefnz, sweepstep
<1>3. S \in SUBSET Obj /\ S = tosweep
  <2>1. Linked("tobefnz") \in SUBSET Obj
    BY DEF Linked
  <2>2. IsFiniteSet(tosweep)
    BY <1>1, <2>1, FS_Subset, ObjAssumption
  <2>3. S \in SUBSET tosweep /\ (Cardinality(S) = GCSWEEPMAX \/ S = tosweep)
    BY DEF Slices
  <2>4. /\ Cardinality(tosweep) <= GCSWEEPMAX
        /\ Cardinality(S) <= Cardinality(tosweep)
        /\ Cardinality(tosweep) = Cardinality(S) => tosweep = S
        /\ Cardinality(tosweep) \in Nat /\ Cardinality(S) \in Nat
        /\ GCSWEEPMAX \in Nat
    BY <1>1, <2>2, <2>3, FS_Subset, FS_CardinalityType, BoundAssumption
    DEF FewToFinalize
  <2> QED
    BY <1>1, <2>1, <2>3, <2>4
<1>4. /\ Shape' /\ Chain' /\ NoDangling'
      /\ \A o \in Allocated' :
           /\ o \in Allocated /\ o \in Obj
           /\ isdead(o)' <=> isdead(o) /\ o \notin S
           /\ iswhite(o)' <=> iswhite(o) \/ o \in S
  BY <1>1, <1>2, <1>3, SweepSlice
<1>5. \A o \in Allocated :
         /\ ~iswhite(o) => o \in S \cup {MainThread}
         /\ ~isdead(o)
  BY <1>1, <1>3 DEF Sweeping, Unswept
<1>6. gcstate' = "GCSswpend" /\ ~keepinvariant' /\ Unswept' = {MainThread}
  BY <1>2, <1>3 DEF keepinvariant, Unswept
<1>7. Marking' /\ Sweeping'
  BY <1>4, <1>5, <1>6 DEF Marking, Sweeping
<1> QED
  BY <1>4, <1>7 DEF IInv

\* The last steps of a cycle.
LEMMA CycleEnded ==
  ASSUME IInv, TypeOK', sweepend \/ callfin \/ endfullgc
  PROVE  IInv'
<1>1. /\ TypeOK /\ Shape /\ Chain /\ NoDangling /\ Sweeping
      /\ marked \in [Obj -> Colours] /\ currentwhite \in WhiteBits
      /\ MainThread \in Obj
      /\ UNCHANGED <<list, refs, roots, cstack, currentwhite, tosweep>>
  BY ObjAssumption
  DEF IInv, TypeOK, Obj, sweepend, callfin, endfullgc, heapVars, markVars
<1>2. \A o \in Allocated : ~isdead(o) /\ o \in Obj
  BY <1>1 DEF Sweeping, Allocated, sweepend, callfin, endfullgc, keepinvariant
<1>3. \A o \in Allocated : marked'[o] = currentwhite
  <2>1. CASE sweepend
    <3>1. \A o \in Allocated : o # MainThread => iswhite(o)
      BY <1>1, <2>1 DEF Sweeping, sweepend, keepinvariant, Unswept
    <3>2. marked' = [marked EXCEPT ![MainThread] = currentwhite]
      BY <2>1 DEF sweepend
    <3> QED
      BY <1>1, <1>2, <3>1, <3>2, CurrentWhite
  <2>2. CASE callfin \/ endfullgc
    <3>1. \A o \in Allocated : iswhite(o)
      BY <1>1, <2>2 DEF Sweeping, callfin, endfullgc, keepinvariant, Unswept
    <3>2. marked' = marked
      BY <2>2 DEF callfin, endfullgc, markVars
    <3> QED
      BY <1>1, <1>2, <3>1, <3>2, CurrentWhite
  <2> QED
    BY <2>1, <2>2
<1>4. /\ gcstate' \in {"GCScallfin", "GCSpause"}
      /\ Allocated' = Allocated
  BY <1>1 DEF sweepend, callfin, endfullgc, Allocated
<1>5. Live' = Live
  BY <1>1, <1>2, <1>3, <1>4 DEF Live, isdead, otherwhite, WhiteBits
<1>6. Shape' /\ Chain' /\ NoDangling'
  BY <1>1, <1>5 DEF Shape, Chain, NoDangling, Active
<1>7. Marking' /\ Sweeping'
  BY <1>1, <1>3, <1>4
  DEF Marking, Sweeping, keepinvariant, isdead, iswhite, otherwhite, WhiteBits
<1> QED
  BY <1>6, <1>7 DEF IInv

\* The atomic phase: what it leaves white and not marked for a finalizer is
\* out of reach, so the sweep that follows may free it.
LEMMA AtomicPhase ==
  ASSUME IInv, TypeOK', atomic
  PROVE  IInv'
<1> DEFINE grays == gray \cup grayagain
           start == {L} \cup roots \cup UNION {refs[o] : o \in grays}
           R1 == MarkedFrom(start)
           fin == {o \in Linked("finobj") : iswhite(o) /\ o \notin R1}
           R2 == MarkedFrom(fin \cup Linked("tobefnz"))
           R == R1 \cup R2
           m == [o \in Obj |-> IF o \notin R \cup grays THEN marked[o]
                               ELSE IF o \in Thread THEN "gray" ELSE "black"]
           l == [o \in Obj |-> IF o \in fin THEN "tobefnz" ELSE list[o]]
           w == otherwhite(currentwhite)
           unmarked == White \ R
<1>1. /\ TypeOK /\ Shape /\ Chain /\ NoDangling /\ Marking
      /\ marked \in [Obj -> Colours] /\ refs \in [Obj -> SUBSET Obj]
      /\ list \in [Obj -> Lists] /\ currentwhite \in WhiteBits
      /\ L \in Obj /\ L \in Active /\ MainThread \in Obj /\ keepinvariant
      /\ Allocated \subseteq Obj /\ White \subseteq Allocated
      /\ White = {o \in Allocated : iswhite(o)}
  BY RunningThread, ObjAssumption
  DEF IInv, TypeOK, Obj, Allocated, White, atomic, keepinvariant
<1>2. /\ grays \subseteq Allocated /\ ~iswhite(MainThread)
      /\ \A o \in Allocated :
           /\ ~isdead(o)
           /\ isblack(o) => refs[o] \cap White = {}
           /\ isgray(o) <=> o \in grays
  BY <1>1 DEF Marking
<1>3. PICK S \in Slices(Linked("allgc"), 1) :
        sweeplist(S, m, w, l) /\ tosweep' = Linked("allgc") \ S
  BY DEF atomic, separatetobefnz, propagateall
<1>4. /\ S \in SUBSET Obj /\ S \subseteq Linked("allgc")
      /\ UNCHANGED <<roots, cstack>> /\ currentwhite' = w
      /\ gcstate' = "GCSswpallgc"
  BY DEF atomic, Slices, Linked
<1>5. start \subseteq Obj /\ fin \cup Linked("tobefnz") \subseteq Obj
  BY <1>1, <1>2 DEF TypeOK, Linked, Obj
<1>6. /\ R1 \subseteq White /\ start \cap White \subseteq R1
      /\ \A o \in R1 : refs[o] \cap White \subseteq R1
  BY <1>1, <1>5, MarkedFromFacts
<1>7. /\ R2 \subseteq White /\ (fin \cup Linked("tobefnz")) \cap White \subseteq R2
      /\ \A o \in R2 : refs[o] \cap White \subseteq R2
  BY <1>1, <1>5, MarkedFromFacts
<1>8. \A o \in grays : refs[o] \subseteq start
  OBVIOUS
<1>9. fin \subseteq Linked("finobj")
  OBVIOUS
<1> HIDE DEF start, R1, R2
<1>10. \A o \in Allocated \ unmarked :
          refs[o] \subseteq Allocated /\ refs[o] \cap unmarked = {}
  <2> SUFFICES ASSUME NEW o \in Allocated \ unmarked
               PROVE  refs[o] \subseteq Allocated /\ refs[o] \cap unmarked = {}
    OBVIOUS
  <2>1. refs[o] \subseteq Allocated
    BY <1>1, <1>2 DEF NoDangling, Live
  <2>2. CASE o \in R
    BY <2>1, <1>6, <1>7, <2>2
  <2>3. CASE o \in grays
    BY <2>1, <1>6, <1>8, <2>3
  <2>4. CASE o \notin R /\ o \notin grays
    <3>1. isblack(o)
      BY <1>1, <1>2, <2>4, CurrentWhite
    <3> QED
      BY <2>1, <1>2, <3>1
  <2> QED
    BY <2>1, <2>2, <2>3, <2>4
<1>11. Active \cup roots \subseteq Allocated \ unmarked
  <2>1. Active \cup roots \subseteq Allocated
    BY <1>1 DEF NoDangling, Live
  <2>2. roots \subseteq Allocated \ unmarked
    BY <1>6, <2>1 DEF start
  <2>3. MainThread \in Allocated \ unmarked
    <3>1. MainThread \in Allocated
      BY <1>1 DEF Shape, Allocated
    <3> QED
      BY <1>1, <1>2, <3>1
  <2>4. Active \subseteq Allocated \ unmarked
    BY <1>1, <1>10, <2>3, ChainInClosed
  <2> QED
    BY <2>2, <2>4
<1>12. /\ \A o \in Allocated : m[o] = currentwhite <=> o \in unmarked
       /\ otherwhite(w) = currentwhite /\ w \in WhiteBits
       /\ w # currentwhite
  <2>1. otherwhite(w) = currentwhite /\ w \in WhiteBits /\ w # currentwhite
    BY <1>1 DEF otherwhite, WhiteBits
  <2>2. ASSUME NEW o \in Allocated
        PROVE  m[o] = currentwhite <=> o \in unmarked
    <3>1. o \in Obj /\ (marked[o] = currentwhite <=> o \in White)
      BY <1>1, <1>2, CurrentWhite
    <3>2. CASE o \in R \cup grays
      <4>1. m[o] \in {"gray", "black"} /\ o \notin unmarked
        BY <1>1, <1>2, <3>1, <3>2, CurrentWhite
      <4> QED
        BY <1>1, <4>1 DEF WhiteBits
    <3>3. CASE o \notin R \cup grays
      BY <3>1, <3>3
    <3> QED
      BY <3>2, <3>3
  <2> QED
    BY <2>1, <2>2
<1> DEFINE dead == {o \in S : o \in unmarked}
<1>13. /\ \A o \in dead : list'[o] = "free" /\ refs'[o] = {}
       /\ \A o \in Obj \ dead :
            /\ list'[o] = l[o] /\ refs'[o] = refs[o]
            /\ marked'[o] = IF o \in S THEN w ELSE m[o]
  <2>1. S \subseteq Allocated
    BY <1>4 DEF Linked, Allocated
  <2> HIDE DEF m, l, w, unmarked
  <2>2. \A o \in S : m[o] = otherwhite(w) <=> o \in unmarked
    BY <1>12, <2>1
  <2> QED
    BY <1>1, <1>3, <1>4, <2>2, SweptObjects
<1>14. \A o \in Obj : /\ l[o] = IF o \in fin THEN "tobefnz" ELSE list[o]
                      /\ o \in fin => list[o] = "finobj"
  BY DEF Linked
<1> HIDE DEF m, l, w, fin
<1>15. Allocated' = Allocated \ dead
  BY <1>13, <1>14 DEF Allocated
<1>16. Live' = Allocated \ unmarked
  <2>1. ASSUME NEW o \in Allocated \ dead
        PROVE  isdead(o)' <=> o \in unmarked
    <3>1. marked'[o] = IF o \in S THEN w ELSE m[o]
      BY <1>1, <1>13, <2>1
    <3> QED
      BY <1>4, <1>12, <2>1, <3>1 DEF isdead
  <2> QED
    BY <1>15, <2>1 DEF Live
<1>17. Shape' /\ Chain' /\ NoDangling'
  <2>1. Active \cup roots \subseteq Live' /\ \A o \in Live' : refs[o] \subseteq Live'
    BY <1>10, <1>11, <1>16
  <2>2. dead \in SUBSET Obj
    BY <1>4
  <2>3. \A o \in Obj \ dead :
            /\ refs'[o] = refs[o]
            /\ list'[o] = "free" <=> list[o] = "free"
            /\ list'[o] = "mainthread" <=> list[o] = "mainthread"
    BY <1>13, <1>14
  <2> HIDE DEF dead
  <2> QED
    BY <1>1, <1>4, <1>13, <2>1, <2>2, <2>3, SafeFreeing
<1>18. Marking'
  BY <1>4 DEF Marking, keepinvariant
<1>19. tosweep' \subseteq Linked("allgc")'
  BY <1>3, <1>13, <1>14 DEF Linked
<1>20. ASSUME NEW o \in Allocated'
       PROVE  /\ ~iswhite(o)' => o \in Unswept'
              /\ isdead(o)' => o \in tosweep'
  <2>1. /\ o \in Allocated /\ o \in Obj /\ o \notin dead
        /\ list'[o] = l[o] /\ marked'[o] = IF o \in S THEN w ELSE m[o]
    BY <1>1, <1>13, <1>15
  <2>2. list[o] \in {"allgc", "finobj", "tobefnz"} \/ o = MainThread
    BY <1>1, <2>1 DEF Shape, Allocated, Lists
  <2>3. ~iswhite(o)' => o \in Unswept'
    <3>1. CASE o \in S
      BY <1>12, <2>1, <3>1 DEF iswhite
    <3>2. CASE o \notin S
      BY <1>3, <1>4, <1>14, <2>1, <2>2, <3>2 DEF Unswept, Linked
    <3> QED
      BY <3>1, <3>2
  <2>4. isdead(o)' => o \in tosweep'
    <3> SUFFICES ASSUME isdead(o)'
                 PROVE  o \in tosweep'
      OBVIOUS
    <3>1. o \notin S /\ o \in unmarked
      BY <1>4, <1>12, <2>1 DEF isdead
    <3>2. o # MainThread /\ o \in White /\ iswhite(o)
      BY <1>1, <1>2, <3>1
    <3>3. list[o] # "tobefnz"
      BY <1>7, <2>1, <3>1, <3>2 DEF Linked
    <3>4. list[o] # "finobj"
      BY <1>7, <2>1, <3>1, <3>2 DEF Linked, fin
    <3> QED
      BY <1>3, <2>1, <2>2, <3>1, <3>2, <3>3, <3>4 DEF Linked
  <2> QED
    BY <2>3, <2>4
<1>21. Sweeping'
  BY <1>4, <1>19, <1>20 DEF Sweeping
<1> QED
  BY <1>17, <1>18, <1>21 DEF IInv

-----------------------------------------------------------------------------
(* The theorems.                                                           *)

\* The invariant holds at the start.
LEMMA InvInit == Init => IInv
<1> SUFFICES ASSUME Init
             PROVE  IInv
  OBVIOUS
<1>1. TypeOK
  BY TypesInit
<1>2. MainThread \in Obj /\ Allocated = {MainThread} /\ Active = {MainThread}
  BY ObjAssumption DEF Init, Obj, Allocated, Active
<1>3. Live = {MainThread}
  BY <1>2 DEF Init, Live, isdead, otherwhite, WhiteBits
<1>4. Shape /\ Chain /\ NoDangling
  BY <1>2, <1>3 DEF Init, Shape, Chain, NoDangling
<1>5. Marking /\ Sweeping
  BY <1>2 DEF Init, Marking, Sweeping, keepinvariant, iswhite, isdead,
              otherwhite, WhiteBits
<1> QED
  BY <1>1, <1>4, <1>5 DEF IInv

\* Every step keeps the invariant.
LEMMA InvKept == IInv /\ FewToFinalize /\ [Next]_vars => IInv'
<1> SUFFICES ASSUME IInv, FewToFinalize, [Next]_vars
             PROVE  IInv'
  OBVIOUS
<1>1. TypeOK'
  BY TypesKept DEF IInv
<1>2. CASE Program
  BY <1>1, <1>2, NewObject, StringFound, StackActions, TableSet, OtherSet,
     FinalizerSet, Resuming, CycleGivenUp
  DEF Program
<1>3. CASE Finalizers
  BY <1>1, <1>3, FinalizerCalled DEF Finalizers
<1>4. CASE Collector
  BY <1>1, <1>4, CycleStarted, ObjectTraversed, AtomicPhase, ListSwept,
     FinalizableSwept, CycleEnded
  DEF Collector
<1>5. CASE UNCHANGED vars
  BY <1>5 DEF vars, IInv, TypeOK, Shape, Chain, NoDangling, Marking, Sweeping,
     Live, Allocated, Linked, White, Active, Unswept, keepinvariant, isdead,
     iswhite, isblack, isgray
<1> QED
  BY <1>2, <1>3, <1>4, <1>5 DEF Next

\* What the invariant says to the rest of the interpreter.
LEMMA InvSays ==
  IInv => NoDangling /\ BlackNotToWhite /\ GrayInList /\ WhiteAfterSweep
<1> SUFFICES ASSUME IInv
             PROVE  NoDangling /\ BlackNotToWhite /\ GrayInList /\ WhiteAfterSweep
  OBVIOUS
<1>1. TypeOK /\ NoDangling /\ Marking /\ Sweeping
  BY DEF IInv
<1>2. BlackNotToWhite /\ GrayInList
  BY <1>1 DEF Marking, BlackNotToWhite, GrayInList
<1>3. ASSUME gcstate \in {"GCScallfin", "GCSpause"}, NEW o \in Allocated
      PROVE  marked[o] = currentwhite
  <2>1. ~keepinvariant /\ Unswept = {} /\ gcstate # "GCSswpallgc"
    BY <1>3 DEF keepinvariant, Unswept
  <2>2. iswhite(o) /\ ~isdead(o) /\ o \in Obj
    BY <1>1, <2>1 DEF Sweeping, Allocated
  <2> QED
    BY <1>1, <2>2, CurrentWhite
<1> QED
  BY <1>1, <1>2, <1>3 DEF WhiteAfterSweep

\* As long as no more objects wait for a finalizer than one step of the sweep
\* visits, the invariant holds.
THEOREM Invariance == Spec /\ []FewToFinalize => []IInv
BY InvInit, InvKept, PTL DEF Spec

\* Then nothing the program can get hold of is freed or about to be freed...
THEOREM Safety == Spec /\ []FewToFinalize => []NoDangling
BY Invariance, InvSays, PTL

\* ... a black object never refers to a white one while the collector marks,
THEOREM TriColour == Spec /\ []FewToFinalize => []BlackNotToWhite
BY Invariance, InvSays, PTL

\* ... every gray object is in a gray list, to be visited again,
THEOREM GrayListed == Spec /\ []FewToFinalize => []GrayInList
BY Invariance, InvSays, PTL

\* ... and all objects are white again when a sweep has ended.
THEOREM AllWhite == Spec /\ []FewToFinalize => []WhiteAfterSweep
BY Invariance, InvSays, PTL


-----------------------------------------------------------------------------
(* The operators of LuaHeap in the terms of LuaGC.                         *)

\* The two modules share the objects, and the status is read off the list.
LEMMA HeapTerms ==
  ASSUME TypeOK
  PROVE  /\ Heap!Obj = Obj /\ Heap!Active = Active /\ Heap!Running = L
         /\ Heap!With({"plain"}) = {o \in Obj : list[o] \in {"allgc", "mainthread"}}
         /\ Heap!With({"finalizable"}) = Linked("finobj")
         /\ Heap!With({"pending"}) = Linked("tobefnz")
         /\ Heap!With({"free"}) = Linked("free")
         /\ Heap!With({"finalizable", "pending"}) = {o \in Obj : tofinalize(o)}
<1>1. Heap!Obj = Obj
  BY DEF Heap!Obj, Obj
<1>2. \A o \in Obj : list[o] \in {"free", "allgc", "finobj", "tobefnz", "mainthread"}
  BY DEF TypeOK, Lists
<1>3. Heap!With({"plain"}) = {o \in Obj : list[o] \in {"allgc", "mainthread"}}
  BY <1>1, <1>2 DEF Heap!With
<1>4. Heap!With({"finalizable"}) = Linked("finobj")
  BY <1>1, <1>2 DEF Heap!With, Linked
<1>5. Heap!With({"pending"}) = Linked("tobefnz")
  BY <1>1, <1>2 DEF Heap!With, Linked
<1>6. Heap!With({"free"}) = Linked("free")
  BY <1>1, <1>2 DEF Heap!With, Linked
<1>7. Heap!With({"finalizable", "pending"}) = {o \in Obj : tofinalize(o)}
  BY <1>1, <1>2 DEF Heap!With, tofinalize
<1>8. Heap!Active = Active /\ Heap!Running = L
  BY DEF Heap!Active, Active, Heap!Running, L
<1> QED BY <1>1, <1>3, <1>4, <1>5, <1>6, <1>7, <1>8

\* Both modules mean the same by what can be reached.
LEMMA HeapReach == \A U, S, succ : Heap!Reach(U, S, succ) = Reach(U, S, succ)
BY DEF Heap!Reach, Heap!ClosedSets, Reach, ClosedSets

\* What LuaHeap sees freed by a step is what went to the free addresses.
LEMMA HeapFreed ==
  ASSUME TypeOK, TypeOK'
  PROVE  Heap!Freed = {o \in Obj : list[o] # "free" /\ list'[o] = "free"}
<1>1. Heap!Obj = Obj
  BY DEF Heap!Obj, Obj
<1>2. \A o \in Obj : list[o] \in {"free", "allgc", "finobj", "tobefnz", "mainthread"}
  BY DEF TypeOK, Lists
<1>3. \A o \in Obj : list'[o] \in {"free", "allgc", "finobj", "tobefnz", "mainthread"}
  BY DEF TypeOK, Lists
<1> QED BY <1>1, <1>2, <1>3 DEF Heap!Freed

\* What the program may get hold of holds the roots and is closed under refs.
LEMMA AccessibleFacts ==
  ASSUME IInv
  PROVE  /\ Heap!Accessible = Reach(Obj, Active \cup roots \cup Linked("tobefnz"), refs)
         /\ Heap!Accessible \subseteq Obj
         /\ Active \cup roots \subseteq Heap!Accessible /\ L \in Heap!Accessible
         /\ \A x \in Heap!Accessible : refs[x] \subseteq Heap!Accessible
<1>1. TypeOK
  BY DEF IInv
<1> DEFINE S == Active \cup roots \cup Linked("tobefnz")
<1>2. Heap!Accessible = Reach(Obj, S, refs)
  BY <1>1, HeapTerms, HeapReach DEF Heap!Accessible
<1>3. L \in Active /\ Active \subseteq Obj
  BY <1>1, RunningThread DEF TypeOK, Active, Obj
<1>4. S \in SUBSET Obj
  BY <1>1, <1>3 DEF TypeOK, Linked, Obj
<1>5. S \subseteq Reach(Obj, S, refs) /\ Reach(Obj, S, refs) \subseteq Obj
  BY <1>4, ReachStart, ReachInObj
<1>6. \A x \in Reach(Obj, S, refs) : refs[x] \subseteq Reach(Obj, S, refs)
  <2> SUFFICES ASSUME NEW x \in Reach(Obj, S, refs)
               PROVE  refs[x] \subseteq Reach(Obj, S, refs)
    OBVIOUS
  <2>1. refs[x] \subseteq Obj
    BY <1>1, <1>5 DEF TypeOK
  <2> QED BY <2>1, ReachClosed
<1> QED BY <1>2, <1>3, <1>5, <1>6

\* What LuaHeap allows to be freed: neither the program nor an object with a
\* finalizer reaches it, and it has no finalizer itself.
LEMMA FreeableFacts ==
  ASSUME TypeOK
  PROVE  Heap!Freeable = {o \in Obj : list[o] \in {"allgc", "mainthread"}}
                           \ Reach(Obj, Active \cup roots \cup {o \in Obj : tofinalize(o)}, refs)
BY HeapTerms, HeapReach DEF Heap!Freeable

\* What lies outside a closed set that holds the roots and all objects with
\* finalizers may be freed.
LEMMA OutOfReach ==
  ASSUME TypeOK, NEW T \in SUBSET Obj, Active \cup roots \subseteq T,
         \A o \in Obj : tofinalize(o) => o \in T,
         \A o \in T : refs[o] \subseteq T,
         NEW o \in Obj, o \notin T, list[o] # "free"
  PROVE  o \in Heap!Freeable
<1> DEFINE S == Active \cup roots \cup {x \in Obj : tofinalize(x)}
<1>1. Reach(Obj, S, refs) \subseteq T
  <2>1. S \subseteq T
    OBVIOUS
  <2> QED BY <2>1, ReachLeast
<1>2. list[o] \in {"allgc", "mainthread"}
  BY DEF TypeOK, Lists, tofinalize
<1> QED BY <1>1, <1>2, FreeableFacts

\* Whatever is dead may be freed: the live objects are such a closed set.
LEMMA DeadFreeable ==
  ASSUME IInv, NEW o \in Obj, list[o] # "free", isdead(o)
  PROVE  o \in Heap!Freeable
<1>1. Active \cup roots \subseteq Live /\ \A x \in Live : refs[x] \subseteq Live
  BY DEF IInv, NoDangling
<1>2. \A x \in Obj : tofinalize(x) => x \in Live
  <2> SUFFICES ASSUME NEW x \in Obj, tofinalize(x)
               PROVE  x \in Live
    OBVIOUS
  <2>1. x \in Allocated /\ x \notin Linked("allgc")
    BY DEF tofinalize, Allocated, Linked
  <2>2. ~isdead(x)
    BY <2>1 DEF IInv, Marking, Sweeping
  <2> QED BY <2>1, <2>2 DEF Live
<1>3. o \notin Live /\ Live \subseteq Obj /\ TypeOK
  BY DEF Live, Allocated, IInv
<1> QED BY <1>1, <1>2, <1>3, OutOfReach

\* A reference from x to o is a step Link, also when the sweep that moving x to
\* 'finobj' entails frees the dead objects D.
LEMMA LinkStep ==
  ASSUME TypeOK, TypeOK', UNCHANGED <<roots, cstack>>,
         NEW x \in Obj, x \in Heap!Accessible,
         NEW o \in Obj, o \in Heap!Accessible \/ (o \in String /\ list[o] # "free"),
         NEW D \in SUBSET Obj, D \subseteq Heap!Freeable, o \notin D,
         NEW fin, fin \in {{}, {x}},
         \A y \in fin : list[y] = "allgc" /\ y \in Table \cup Userdata,
         \A y \in D : list'[y] = "free" /\ refs'[y] = {},
         \A y \in Obj \ D : /\ y \in fin => list'[y] = "finobj"
                            /\ y \notin fin => list'[y] = list[y]
                            /\ y = x => refs'[y] = refs[x] \cup {o}
                            /\ y # x => refs'[y] = refs[y]
  PROVE  Heap!Next
<1>1. Heap!Freed = D
  <2>1. \A y \in D : list[y] # "free"
    BY FreeableFacts
  <2>2. \A y \in fin : list[y] # "free" /\ y \in Obj
    OBVIOUS
  <2>3. \A y \in Obj : list[y] # "free" /\ list'[y] = "free" <=> y \in D
    <3> SUFFICES ASSUME NEW y \in Obj
                 PROVE  list[y] # "free" /\ list'[y] = "free" <=> y \in D
      OBVIOUS
    <3>1. CASE y \in D
      BY <2>1, <3>1
    <3>2. CASE y \notin D /\ y \in fin
      <4>1. list'[y] = "finobj"
        BY <3>2
      <4> QED BY <3>2, <4>1
    <3>3. CASE y \notin D /\ y \notin fin
      <4>1. list'[y] = list[y]
        BY <3>3
      <4> QED BY <3>3, <4>1
    <3> QED BY <3>1, <3>2, <3>3
  <2>4. D = {y \in Obj : list[y] # "free" /\ list'[y] = "free"}
    BY <2>3
  <2> QED BY <2>4, HeapFreed
<1>2. Heap!Obj = Obj
  BY HeapTerms
<1>3. refs' = [y \in Heap!Obj |-> IF y \in Heap!Freed THEN {}
                             ELSE IF y = x THEN refs[x] \cup {o} ELSE refs[y]]
  BY <1>1, <1>2 DEF TypeOK
<1>4. fin \subseteq Heap!With({"plain"}) \cap (Table \cup Userdata)
  BY HeapTerms
<1>5. o \in Heap!Accessible \cup (String \ Heap!With({"free"}))
  BY HeapTerms DEF Linked
<1>6. \A y \in Obj : list'[y] = IF y \in D THEN "free" ELSE IF y \in fin THEN "finobj" ELSE list[y]
  OBVIOUS
<1>7. Heap!Link(x, o)
  BY <1>1, <1>2, <1>3, <1>4, <1>5, <1>6 DEF Heap!Link
<1> QED BY <1>2, <1>7 DEF Heap!Next

\* A step that frees D, moves fin from 'finobj' to 'tobefnz', and lets all
\* else be, D being free to go and fin out of the reach of the program.
Collects(D, fin) ==
  /\ D \subseteq Heap!Freeable
  /\ fin \subseteq Linked("finobj") \ Heap!Accessible
  /\ \A y \in D : list'[y] = "free" /\ refs'[y] = {}
  /\ \A y \in Obj \ D : /\ y \in fin => list'[y] = "tobefnz"
                        /\ y \notin fin => list'[y] = list[y]
                        /\ refs'[y] = refs[y]
  /\ UNCHANGED <<roots, cstack>>

\* Such a step is a step Collect of LuaHeap.
LEMMA CollectStep ==
  ASSUME TypeOK, TypeOK', NEW D, NEW fin, Collects(D, fin)
  PROVE  Heap!Next
<1>1. /\ \A y \in D : y \in Obj /\ list[y] # "free"
      /\ \A y \in fin : y \in Obj /\ list[y] # "free"
  BY FreeableFacts DEF Collects, Linked
<1>2. Heap!Freed = D
  BY <1>1, HeapFreed DEF Collects
<1>3. Heap!Obj = Obj
  BY HeapTerms
<1>4. refs' = [y \in Heap!Obj |-> IF y \in Heap!Freed THEN {} ELSE refs[y]]
  BY <1>2, <1>3 DEF TypeOK, Collects
<1>5. fin \subseteq Heap!With({"finalizable"}) \ Heap!Accessible
  BY HeapTerms DEF Collects
<1>6. \A y \in Obj : list'[y] = IF y \in D THEN "free" ELSE IF y \in fin THEN "tobefnz" ELSE list[y]
  BY DEF Collects
<1>7. D \subseteq Heap!Freeable /\ UNCHANGED <<roots, cstack>>
  BY DEF Collects
<1>8. Heap!Collect(fin)
  BY <1>2, <1>3, <1>4, <1>5, <1>6, <1>7 DEF Heap!Collect
<1>9. fin \in SUBSET Obj
  BY <1>1
<1> QED BY <1>3, <1>8, <1>9 DEF Heap!Next

\* The status of the objects, as the refinement mapping reads it off the list l.
Status(l) == [o \in Obj |-> CASE l[o] = "finobj" -> "finalizable"
                              [] l[o] = "tobefnz" -> "pending"
                              [] l[o] = "free" -> "free"
                              [] OTHER -> "plain"]

-----------------------------------------------------------------------------
(* The program.                                                            *)

\* A new reference between objects that stay where they are is a step Link.
LEMMA PlainLink ==
  ASSUME IInv, TypeOK', UNCHANGED <<roots, cstack>>,
         NEW x \in Obj, x \in Heap!Accessible,
         NEW o \in Obj, o \in Heap!Accessible \/ (o \in String /\ list[o] # "free"),
         list' = list, refs' = [refs EXCEPT ![x] = @ \cup {o}]
  PROVE  Heap!Next
<1>1. TypeOK
  BY DEF IInv
<1>2. \A y \in Obj : /\ list'[y] = list[y]
                     /\ y = x => refs'[y] = refs[x] \cup {o}
                     /\ y # x => refs'[y] = refs[y]
  BY <1>1 DEF TypeOK
<1> DEFINE D == {}
           fin == {}
<1>3. fin \in {{}, {x}} /\ D \in SUBSET Obj /\ \A y : y \notin D /\ y \notin fin
  OBVIOUS
<1> HIDE DEF D, fin
<1>4. /\ D \subseteq Heap!Freeable /\ o \notin D
      /\ \A y \in fin : list[y] = "allgc" /\ y \in Table \cup Userdata
      /\ \A y \in D : list'[y] = "free" /\ refs'[y] = {}
      /\ \A y \in Obj \ D : /\ y \in fin => list'[y] = "finobj"
                            /\ y \notin fin => list'[y] = list[y]
                            /\ y = x => refs'[y] = refs[x] \cup {o}
                            /\ y # x => refs'[y] = refs[y]
  BY <1>2, <1>3
<1> QED BY <1>1, <1>3, <1>4, LinkStep

\* What is on the stack of the running thread is accessible.
LEMMA OnStackAccessible ==
  ASSUME IInv, NEW x, OnStack(x)
  PROVE  x \in Heap!Accessible /\ x \in Obj
BY AccessibleFacts DEF OnStack

\* luaC_newobj is a step New.
LEMMA NewMaps ==
  ASSUME IInv, TypeOK', NEW o \in Obj, luaC_newobj(o)
  PROVE  Heap!Next
<1>1. /\ TypeOK /\ list[o] = "free" /\ list' = [list EXCEPT ![o] = "allgc"]
      /\ refs' = [refs EXCEPT ![L] = @ \cup {o}] /\ UNCHANGED <<roots, cstack>>
  BY DEF IInv, luaC_newobj, Push, StackOf
<1>2. Heap!Obj = Obj /\ Heap!Running = L
  BY <1>1, HeapTerms
<1>3. \A y \in Obj : list'[y] = IF y = o THEN "allgc" ELSE list[y]
  BY <1>1 DEF TypeOK
<1>4. Status(list)[o] = "free" /\ Status(list') = [Status(list) EXCEPT ![o] = "plain"]
  <2>1. Status(list)[o] = "free"
    BY <1>1 DEF Status
  <2>2. \A y \in Obj : Status(list')[y] = IF y = o THEN "plain" ELSE Status(list)[y]
    BY <1>3 DEF Status
  <2> QED BY <2>1, <2>2 DEF Status
<1>5. Heap!New(o)
  BY <1>1, <1>2, <1>4 DEF Heap!New, Status
<1> QED BY <1>2, <1>5 DEF Heap!Next

\* Strings found again and values read, dropped or made global only link or
\* unlink what is accessible.
LEMMA StackMaps ==
  ASSUME IInv, TypeOK',
         \/ \E s \in String : internshrstr(s)
         \/ \E o \in Obj : GetField(o) \/ Pop(o)
         \/ \E x, o \in Obj : ClearField(x, o)
         \/ \E mt \in Table : SetTypeMetatable(mt)
  PROVE  Heap!Next
<1>1. /\ TypeOK /\ L \in Obj /\ L \in Heap!Accessible /\ Heap!Obj = Obj
      /\ Heap!Accessible \subseteq Obj
  BY AccessibleFacts, RunningThread, HeapTerms DEF IInv
<1>2. ASSUME NEW s \in String, internshrstr(s)
      PROVE  Heap!Next
  <2>1. /\ s \in Obj /\ list[s] # "free" /\ list' = list
        /\ refs' = [refs EXCEPT ![L] = @ \cup {s}] /\ UNCHANGED <<roots, cstack>>
    BY <1>2 DEF internshrstr, Push, StackOf, Allocated
  <2> QED BY <1>1, <2>1, PlainLink
<1>3. ASSUME NEW o \in Obj, GetField(o)
      PROVE  Heap!Next
  <2>1. /\ list' = list /\ UNCHANGED <<roots, cstack>>
        /\ refs' = [refs EXCEPT ![L] = @ \cup {o}]
        /\ o \in roots \/ \E x \in refs[L] : o \in refs[x]
    BY <1>3 DEF GetField, Push, StackOf
  <2>2. o \in Heap!Accessible
    BY <1>1, <2>1, AccessibleFacts
  <2> QED BY <1>1, <2>1, <2>2, PlainLink
<1>4. ASSUME NEW x \in Obj, NEW o \in Obj, x \in Heap!Accessible, list' = list,
             refs' = [refs EXCEPT ![x] = @ \ {o}], UNCHANGED <<roots, cstack>>
      PROVE  Heap!Next
  <2>1. Heap!Unlink(x, o)
    BY <1>4 DEF Heap!Unlink
  <2> QED BY <1>1, <2>1 DEF Heap!Next
<1>5. ASSUME NEW o \in Obj, Pop(o)
      PROVE  Heap!Next
  BY <1>1, <1>4, <1>5 DEF Pop
<1>6. ASSUME NEW x \in Obj, NEW o \in Obj, ClearField(x, o)
      PROVE  Heap!Next
  BY <1>1, <1>4, <1>6, OnStackAccessible DEF ClearField
<1>7. ASSUME NEW mt \in Table, SetTypeMetatable(mt)
      PROVE  Heap!Next
  <2>1. mt \in Heap!Accessible /\ roots \subseteq Table \cap Heap!Accessible
    BY <1>1, <1>7, OnStackAccessible, AccessibleFacts DEF SetTypeMetatable, TypeOK
  <2>2. roots' \subseteq Table \cap Heap!Accessible /\ UNCHANGED <<list, refs, cstack>>
    BY <1>7, <2>1 DEF SetTypeMetatable
  <2>3. Heap!SetRoots
    BY <2>2 DEF Heap!SetRoots
  <2> QED BY <2>3 DEF Heap!Next
<1> QED BY <1>2, <1>3, <1>5, <1>6, <1>7

\* lua_xmove is a step Link or Transfer.
LEMMA XmoveMaps ==
  ASSUME IInv, TypeOK', NEW from \in Thread, NEW to \in Thread, NEW o \in Obj,
         lua_xmove(from, to, o)
  PROVE  Heap!Next
<1>1. /\ TypeOK /\ L \in Obj /\ L \in Heap!Accessible /\ Heap!Obj = Obj
      /\ from \in Obj /\ to \in Obj
      /\ \A x \in Heap!Accessible : refs[x] \subseteq Heap!Accessible
  BY AccessibleFacts, RunningThread, HeapTerms DEF IInv, Obj
<1>2. /\ o \in refs[from] /\ from # to /\ list' = list /\ UNCHANGED <<roots, cstack>>
      /\ from \in {L} \cup refs[L] /\ to \in {L} \cup refs[L]
  BY DEF lua_xmove
<1>3. PICK rest \in {refs[from], refs[from] \ {o}} :
        refs' = [refs EXCEPT ![from] = rest, ![to] = @ \cup {o}]
  BY DEF lua_xmove
<1>4. from \in Heap!Accessible /\ to \in Heap!Accessible /\ o \in Heap!Accessible
  BY <1>1, <1>2
<1>5. CASE rest = refs[from]
  <2>1. refs' = [refs EXCEPT ![to] = @ \cup {o}]
    BY <1>1, <1>2, <1>3, <1>5 DEF TypeOK
  <2> QED BY <1>1, <1>2, <1>4, <2>1, PlainLink
<1>6. CASE rest = refs[from] \ {o}
  <2>1. refs' = [refs EXCEPT ![from] = @ \ {o}, ![to] = @ \cup {o}]
    BY <1>3, <1>6
  <2>2. Heap!Transfer(from, to, o)
    BY <1>2, <1>4, <2>1 DEF Heap!Transfer
  <2> QED BY <1>1, <2>2 DEF Heap!Next
<1> QED BY <1>5, <1>6

\* Assignments are steps Link, whatever the barriers do to the colours.
LEMMA SetMaps ==
  ASSUME IInv, TypeOK',
         \/ \E t \in Table, o \in Obj : SetTable(t, o)
         \/ \E x \in Table \cup Userdata \cup Closure, o \in Obj : SetOther(x, o)
  PROVE  Heap!Next
<1>1. PICK x \in Table \cup Userdata \cup Closure, o \in Obj : SetTable(x, o) \/ SetOther(x, o)
  OBVIOUS
<1>2. /\ OnStack(x) /\ OnStack(o) /\ refs' = [refs EXCEPT ![x] = @ \cup {o}]
      /\ list' = list /\ UNCHANGED <<roots, cstack>>
  BY <1>1 DEF SetTable, SetOther, HeldBy
<1>3. /\ x \in Obj /\ x \in Heap!Accessible /\ o \in Heap!Accessible
  BY <1>2, OnStackAccessible
<1> QED BY <1>2, <1>3, PlainLink

\* So is giving an object a finalizer, though it may sweep on to a live object.
LEMMA SetFinalizerMaps ==
  ASSUME IInv, TypeOK', NEW x \in Table \cup Userdata, NEW mt \in Table,
         SetFinalizer(x, mt)
  PROVE  Heap!Next
<1>1. /\ TypeOK /\ Shape /\ Sweeping /\ OnStack(x) /\ OnStack(mt) /\ ~tofinalize(x)
      /\ UNCHANGED <<roots, cstack>>
  BY DEF IInv, SetFinalizer
<1>2. PICK S \in {{}} \cup SweptToLive :
        /\ S # {} => gcstate = "GCSswpallgc" /\ x \notin tosweep
        /\ list' = [o \in Obj |-> IF o \in {y \in S : isdead(y)} THEN "free"
                                  ELSE IF o = x THEN "finobj" ELSE list[o]]
        /\ refs' = [o \in Obj |-> IF o \in {y \in S : isdead(y)} THEN {}
                                  ELSE IF o = x THEN refs[x] \cup {mt} ELSE refs[o]]
  BY DEF SetFinalizer
<1> DEFINE D == {y \in S : isdead(y)}
           fin == {x}
<1>3. S \subseteq Linked("allgc")
  BY <1>1, <1>2 DEF SweptToLive, Sweeping, keepinvariant
<1>4. \A y \in D : y \in Obj /\ list[y] # "free" /\ isdead(y)
  BY <1>3 DEF Linked
<1>5. D \in SUBSET Obj /\ D \subseteq Heap!Freeable
  BY <1>4, DeadFreeable
<1>6. /\ x \in Obj /\ x \in Heap!Accessible /\ mt \in Obj /\ mt \in Heap!Accessible
  BY <1>1, OnStackAccessible
<1>7. /\ x \in Live /\ mt \in Live
  BY <1>1, LiveOnStack DEF OnStack
<1>8. mt \notin D /\ x \notin D
  BY <1>7 DEF Live
<1>9. list[x] = "allgc"
  BY <1>1, <1>6, <1>7, ObjAssumption DEF Live, Allocated, Shape, TypeOK, Lists, tofinalize
<1>10. /\ fin \in {{}, {x}} /\ \A y \in fin : list[y] = "allgc" /\ y \in Table \cup Userdata
       /\ \A y \in D : list'[y] = "free" /\ refs'[y] = {}
       /\ \A y \in Obj \ D : /\ y \in fin => list'[y] = "finobj"
                             /\ y \notin fin => list'[y] = list[y]
                             /\ y = x => refs'[y] = refs[x] \cup {mt}
                             /\ y # x => refs'[y] = refs[y]
  BY <1>2, <1>4, <1>9
<1> HIDE DEF D, fin
<1> QED BY <1>1, <1>5, <1>6, <1>8, <1>10, LinkStep

\* lua_resume and lua_yield are the steps Resume and Yield.
LEMMA ThreadMaps ==
  ASSUME IInv, TypeOK', (\E co \in Thread : lua_resume(co)) \/ lua_yield
  PROVE  Heap!Next
<1>1. TypeOK /\ Heap!Active = Active
  BY HeapTerms DEF IInv
<1>2. ASSUME NEW co \in Thread, lua_resume(co)
      PROVE  Heap!Next
  <2>1. co \in Heap!Accessible \ Active
    BY <1>2, OnStackAccessible DEF lua_resume
  <2>2. Heap!Resume(co)
    BY <1>1, <1>2, <2>1 DEF lua_resume, Heap!Resume
  <2> QED BY <2>2 DEF Heap!Next
<1>3. CASE lua_yield
  <2>1. Heap!Yield
    BY <1>3 DEF lua_yield, Heap!Yield
  <2> QED BY <2>1 DEF Heap!Next
<1> QED BY <1>2, <1>3

\* The call of a finalizer is a step Finalize.
LEMMA FinalizeMaps ==
  ASSUME IInv, TypeOK', NEW o \in Table \cup Userdata, GCTM(o)
  PROVE  Heap!Next
<1>1. /\ TypeOK /\ o \in Obj /\ list[o] = "tobefnz" /\ list' = [list EXCEPT ![o] = "allgc"]
      /\ refs' = [refs EXCEPT ![L] = @ \cup {o}] /\ UNCHANGED <<roots, cstack>>
  BY DEF IInv, GCTM, Obj
<1>2. Heap!Obj = Obj /\ Heap!Running = L
  BY <1>1, HeapTerms
<1>3. \A y \in Obj : list'[y] = IF y = o THEN "allgc" ELSE list[y]
  BY <1>1 DEF TypeOK
<1>4. Status(list)[o] = "pending" /\ Status(list') = [Status(list) EXCEPT ![o] = "plain"]
  <2>1. Status(list)[o] = "pending"
    BY <1>1 DEF Status
  <2>2. \A y \in Obj : Status(list')[y] = IF y = o THEN "plain" ELSE Status(list)[y]
    BY <1>3 DEF Status
  <2> QED BY <2>1, <2>2 DEF Status
<1>5. Heap!Finalize(o)
  BY <1>1, <1>2, <1>4 DEF Heap!Finalize, Status
<1> QED BY <1>1, <1>2, <1>5 DEF Heap!Next

-----------------------------------------------------------------------------
(* The collector.                                                          *)

\* sweeplist collects the dead objects of the part it visits.
LEMMA SweepCollects ==
  ASSUME IInv, NEW S \in SUBSET Allocated,
         sweeplist(S, marked, currentwhite, list), UNCHANGED <<roots, cstack>>
  PROVE  Collects({y \in S : isdead(y)}, {})
<1>1. TypeOK
  BY DEF IInv
<1> DEFINE D == {y \in S : isdead(y)}
<1>2. \A y \in D : y \in Obj /\ list[y] # "free" /\ isdead(y)
  BY DEF Allocated
<1>3. D \subseteq Heap!Freeable
  BY <1>2, DeadFreeable
<1>4. \A y \in S : y \in D <=> marked[y] = otherwhite(currentwhite)
  BY DEF isdead
<1>5. /\ \A y \in D : list'[y] = "free" /\ refs'[y] = {}
      /\ \A y \in Obj \ D : list'[y] = list[y] /\ refs'[y] = refs[y]
  BY <1>1, <1>2, <1>4, SweptObjects
<1> HIDE DEF D
<1>6. Collects(D, {})
  BY <1>3, <1>5 DEF Collects
<1> QED BY <1>6 DEF D

\* A step that changes colours and phases only is none of LuaHeap.
LEMMA StutterMaps ==
  ASSUME UNCHANGED heapVars
  PROVE  UNCHANGED Heap!vars
BY DEF heapVars, Heap!vars, Heap!Obj

\* Every step of a sweep visits allocated objects.
LEMMA SweepSlices ==
  ASSUME IInv,
         \/ sweepallgc \/ sweepfinobj \/ sweeptobefnz
         \/ keepinvariant /\ \E kind : luaC_fullgc(kind)
  PROVE  \E S \in SUBSET Allocated :
           sweeplist(S, marked, currentwhite, list) /\ UNCHANGED <<roots, cstack>>
<1>1. CASE sweepallgc \/ sweepfinobj \/ sweeptobefnz
  <2>1. tosweep \subseteq Allocated
    BY <1>1 DEF IInv, TypeOK, Sweeping, keepinvariant, sweepallgc, sweepfinobj, sweeptobefnz,
                sweepstep, Linked, Allocated
  <2>2. PICK S \in Slices(tosweep, GCSWEEPMAX) : sweeplist(S, marked, currentwhite, list)
    BY <1>1 DEF sweepallgc, sweepfinobj, sweeptobefnz, sweepstep
  <2>3. S \in SUBSET Allocated /\ UNCHANGED <<roots, cstack>>
    BY <1>1, <2>1, <2>2 DEF Slices, sweepallgc, sweepfinobj, sweeptobefnz, sweepstep
  <2> QED BY <2>2, <2>3
<1>2. ASSUME keepinvariant, NEW kind, luaC_fullgc(kind)
      PROVE  \E S \in SUBSET Allocated :
               sweeplist(S, marked, currentwhite, list) /\ UNCHANGED <<roots, cstack>>
  <2>1. PICK S \in Slices(Linked("allgc"), 1) : sweeplist(S, marked, currentwhite, list)
    BY <1>2 DEF luaC_fullgc
  <2>2. S \in SUBSET Allocated /\ UNCHANGED <<roots, cstack>>
    BY <1>2, <2>1 DEF luaC_fullgc, Slices, Linked, Allocated
  <2> QED BY <2>1, <2>2
<1> QED BY <1>1, <1>2

\* A step of a sweep is a step of LuaHeap or none, and so is giving up a cycle.
LEMMA SweepMaps ==
  ASSUME IInv, TypeOK',
         \/ sweepallgc \/ sweepfinobj \/ sweeptobefnz
         \/ \E kind \in {"KGC_NORMAL", "KGC_EMERGENCY"} : luaC_fullgc(kind)
  PROVE  Heap!Next \/ UNCHANGED Heap!vars
<1>1. ASSUME NEW S \in SUBSET Allocated,
             sweeplist(S, marked, currentwhite, list), UNCHANGED <<roots, cstack>>
      PROVE  Heap!Next
  <2>1. Collects({y \in S : isdead(y)}, {}) /\ TypeOK
    BY <1>1, SweepCollects DEF IInv
  <2> QED BY <2>1, CollectStep
<1>2. ASSUME ~keepinvariant, NEW kind, luaC_fullgc(kind)
      PROVE  UNCHANGED Heap!vars
  BY <1>2, StutterMaps DEF luaC_fullgc, heapVars
<1> QED BY <1>1, <1>2, SweepSlices

\* The atomic phase sets aside what the program has lost, and its first step of
\* the sweep frees what neither the program nor a finalizer can reach.  It needs
\* PendingMarked: else the program could reach what is set aside through an
\* object that waits for its finalizer.
LEMMA AtomicCollects ==
  ASSUME IInv, PendingMarked, TypeOK', atomic
  PROVE  \E D, fin : Collects(D, fin)
<1> DEFINE grays == gray \cup grayagain
           start == {L} \cup roots \cup UNION {refs[o] : o \in grays}
           R1 == MarkedFrom(start)
           fin == {o \in Linked("finobj") : iswhite(o) /\ o \notin R1}
           R2 == MarkedFrom(fin \cup Linked("tobefnz"))
           R == R1 \cup R2
           m == [o \in Obj |-> IF o \notin R \cup grays THEN marked[o]
                               ELSE IF o \in Thread THEN "gray" ELSE "black"]
           l == [o \in Obj |-> IF o \in fin THEN "tobefnz" ELSE list[o]]
           w == otherwhite(currentwhite)
<1>1. /\ TypeOK /\ Shape /\ Chain /\ NoDangling /\ Marking
      /\ marked \in [Obj -> Colours] /\ refs \in [Obj -> SUBSET Obj]
      /\ list \in [Obj -> Lists] /\ currentwhite \in WhiteBits
      /\ L \in Obj /\ MainThread \in Obj /\ keepinvariant
      /\ White = {o \in Obj : list[o] # "free" /\ iswhite(o)}
      /\ Active \cup roots \subseteq Obj
  BY RunningThread, ObjAssumption
  DEF IInv, TypeOK, Obj, Allocated, White, atomic, keepinvariant, Active
<1>2. /\ grays \subseteq Allocated /\ ~iswhite(MainThread)
      /\ \A o \in Allocated :
           /\ isblack(o) => refs[o] \cap White = {}
           /\ isgray(o) <=> o \in grays
  BY <1>1 DEF Marking
<1>3. PICK S \in Slices(Linked("allgc"), 1) : sweeplist(S, m, w, l)
  BY DEF atomic, separatetobefnz, propagateall
<1>4. S \in SUBSET Obj /\ S \subseteq Linked("allgc") /\ UNCHANGED <<roots, cstack>>
  BY DEF atomic, Slices, Linked
<1>5. start \subseteq Obj /\ fin \cup Linked("tobefnz") \subseteq Obj
  BY <1>1, <1>2 DEF TypeOK, Linked, Obj, Allocated
<1>6. /\ R1 \subseteq White /\ start \cap White \subseteq R1
      /\ \A o \in R1 : refs[o] \cap White \subseteq R1
  BY <1>1, <1>5, MarkedFromFacts
<1>7. /\ R2 \subseteq White /\ (fin \cup Linked("tobefnz")) \cap White \subseteq R2
      /\ \A o \in R2 : refs[o] \cap White \subseteq R2
  BY <1>1, <1>5, MarkedFromFacts
<1>8. roots \subseteq start /\ \A o \in grays : refs[o] \subseteq start
  OBVIOUS
<1>9. /\ fin \subseteq Linked("finobj")
      /\ \A o \in Linked("finobj") : iswhite(o) => o \in R1 \/ o \in fin
      /\ \A o \in fin : iswhite(o) /\ o \notin R1
  OBVIOUS
<1> HIDE DEF start, R1, R2, fin
\* What is not white, or was marked, refers to nothing else.
<1>10. ASSUME NEW M, M \subseteq White, R1 \subseteq M,
              \A o \in M : refs[o] \cap White \subseteq M,
              NEW T, T = {o \in Obj : o \in White => o \in M}
       PROVE  /\ T \in SUBSET Obj /\ Active \cup roots \subseteq T
              /\ \A o \in T : refs[o] \subseteq T
  <2>1. ASSUME NEW o \in T
        PROVE  refs[o] \subseteq T
    <3>1. refs[o] \subseteq Obj /\ o \in Obj
      BY <1>1, <1>10
    <3>2. CASE list[o] = "free"
      BY <1>1, <3>1, <3>2 DEF Shape
    <3>3. CASE o \in M
      BY <1>10, <3>1, <3>3
    <3>4. CASE o \in grays
      BY <1>6, <1>8, <1>10, <3>1, <3>4
    <3>5. CASE list[o] # "free" /\ o \notin M /\ o \notin grays
      <4>1. o \in Allocated /\ o \notin White
        BY <1>10, <2>1, <3>1, <3>5 DEF Allocated
      <4>2. ~iswhite(o) /\ ~isgray(o)
        BY <1>1, <1>2, <3>1, <3>5, <4>1
      <4>3. isblack(o)
        BY <1>1, <3>1, <4>2, CurrentWhite
      <4> QED BY <1>2, <1>10, <3>1, <4>1, <4>3
    <3> QED BY <3>2, <3>3, <3>4, <3>5
  <2>2. MainThread \in T /\ roots \subseteq T
    BY <1>1, <1>2, <1>6, <1>8, <1>10
  <2>3. Active \subseteq T
    BY <1>1, <2>1, <2>2, ChainInClosed
  <2> QED BY <1>10, <2>1, <2>2, <2>3
<1>11. fin \in SUBSET Obj /\ fin \subseteq Linked("finobj") \ Heap!Accessible
  <2> DEFINE T == {o \in Obj : o \in White => o \in R1}
  <2>1. /\ T \in SUBSET Obj /\ Active \cup roots \subseteq T
        /\ \A o \in T : refs[o] \subseteq T
    <3>1. T = {o \in Obj : o \in White => o \in R1}
      OBVIOUS
    <3> HIDE DEF T
    <3> QED BY <1>6, <1>10, <3>1
  <2>2. Linked("tobefnz") \subseteq T
    BY <1>1 DEF PendingMarked, Linked
  <2>3. \A o \in fin : o \in Obj /\ o \notin T
    BY <1>1, <1>9 DEF Linked
  <2>4. Active \cup roots \cup Linked("tobefnz") \subseteq T
    BY <2>1, <2>2
  <2> HIDE DEF T
  <2>5. Heap!Accessible \subseteq T
    BY <2>1, <2>4, AccessibleFacts, ReachLeast
  <2> QED BY <1>9, <2>3, <2>5
<1> DEFINE D == {o \in S : o \in White /\ o \notin R}
<1>12. \A o \in S : m[o] = otherwhite(w) <=> o \in D
  <2>1. otherwhite(w) = currentwhite
    BY <1>1 DEF otherwhite, WhiteBits
  <2>2. ASSUME NEW o \in S
        PROVE  m[o] = currentwhite <=> o \in D
    <3>1. o \in Obj /\ o \in Allocated /\ ~isdead(o)
      BY <1>1, <1>4 DEF Linked, Allocated, Marking
    <3>2. marked[o] = currentwhite <=> o \in White
      BY <1>1, <3>1, CurrentWhite DEF Allocated
    <3>3. CASE o \in R \cup grays
      <4>1. m[o] \in {"gray", "black"}
        BY <3>1, <3>3
      <4>2. o \in R \/ o \notin White
        BY <1>1, <1>2, <3>1, <3>3, CurrentWhite
      <4> QED BY <1>1, <4>1, <4>2 DEF WhiteBits
    <3>4. CASE o \notin R \cup grays
      BY <3>1, <3>2, <3>4
    <3> QED BY <3>3, <3>4
  <2> QED BY <2>1, <2>2
<1>13. D \in SUBSET Obj /\ D \subseteq Heap!Freeable
  <2> DEFINE T == {o \in Obj : o \in White => o \in R}
  <2>1. R \subseteq White /\ R1 \subseteq R /\ \A o \in R : refs[o] \cap White \subseteq R
    BY <1>6, <1>7
  <2>2. /\ T \in SUBSET Obj /\ Active \cup roots \subseteq T
        /\ \A o \in T : refs[o] \subseteq T
    <3>1. T = {o \in Obj : o \in White => o \in R}
      OBVIOUS
    <3> HIDE DEF T, R
    <3> QED BY <1>10, <2>1, <3>1
  <2>3. \A o \in Obj : tofinalize(o) => o \in T
    <3> SUFFICES ASSUME NEW o \in Obj, tofinalize(o), o \in White
                 PROVE  o \in R
      OBVIOUS
    <3>1. iswhite(o) /\ (o \in Linked("finobj") \/ o \in Linked("tobefnz"))
      BY <1>1 DEF tofinalize, Linked
    <3> QED BY <1>7, <1>9, <3>1
  <2>4. \A o \in D : o \in Obj /\ o \notin T /\ list[o] # "free"
    BY <1>1, <1>4
  <2> HIDE DEF T, D
  <2>5. D \subseteq Heap!Freeable
    BY <1>1, <2>2, <2>3, <2>4, OutOfReach
  <2> QED BY <2>4, <2>5
<1>14. /\ \A y \in D : list'[y] = "free" /\ refs'[y] = {}
       /\ \A y \in Obj \ D : list'[y] = l[y] /\ refs'[y] = refs[y]
  <2>1. D \subseteq S
    OBVIOUS
  <2> HIDE DEF D, m, w, l
  <2> QED BY <1>1, <1>3, <1>4, <1>12, <2>1, SweptObjects
<1>15. \A y \in Obj \ D : /\ y \in fin => list'[y] = "tobefnz"
                          /\ y \notin fin => list'[y] = list[y]
                          /\ refs'[y] = refs[y]
  BY <1>14
<1> HIDE DEF D
<1>16. Collects(D, fin)
  BY <1>4, <1>11, <1>13, <1>14, <1>15 DEF Collects
<1> QED BY <1>16

-----------------------------------------------------------------------------
(* What waits for its finalizer is marked.                                 *)

\* At the start no cycle runs.
LEMMA PendingInit == Init => PendingMarked
BY DEF Init, PendingMarked, keepinvariant

\* Marking never makes an object white again.
LEMMA StillMarked ==
  ASSUME TypeOK, PendingMarked, keepinvariant' => keepinvariant,
         keepinvariant' => Linked("tobefnz")' \subseteq Linked("tobefnz"),
         keepinvariant' => \A o \in Linked("tobefnz") :
           marked'[o] = marked[o] \/ marked'[o] \in {"gray", "black"}
  PROVE  PendingMarked'
BY DEF PendingMarked, Linked, iswhite, WhiteBits

\* No step leaves a waiting object white in a cycle: new ones are added only by
\* atomic, with which the marking ends.
LEMMA PendingKept ==
  ASSUME IInv, PendingMarked, TypeOK', Next
  PROVE  PendingMarked'
<1>1. TypeOK
  BY DEF IInv
<1>2. ASSUME UNCHANGED gcstate,
             Linked("tobefnz")' \subseteq Linked("tobefnz"),
             keepinvariant => \A o \in Linked("tobefnz") :
               marked'[o] = marked[o] \/ marked'[o] \in {"gray", "black"}
      PROVE  PendingMarked'
  <2>1. keepinvariant' <=> keepinvariant
    BY <1>2 DEF keepinvariant
  <2> QED BY <1>1, <1>2, <2>1, StillMarked
<1>3. ASSUME UNCHANGED <<gcstate, list, marked>>
      PROVE  PendingMarked'
  <2>1. Linked("tobefnz")' \subseteq Linked("tobefnz")
    BY <1>3 DEF Linked
  <2> QED BY <1>2, <1>3, <2>1
<1>4. ASSUME ~keepinvariant'
      PROVE  PendingMarked'
  BY <1>4 DEF PendingMarked
<1>5. ASSUME NEW R, NEW o \in Obj
      PROVE  \/ reallymarkobject(R)[o] = marked[o]
             \/ reallymarkobject(R)[o] \in {"gray", "black"}
  BY DEF reallymarkobject
<1>6. ASSUME NEW x \in Obj, NEW o \in Obj, keepinvariant, NEW y \in Obj
      PROVE  \/ BarrierColours(x, o)[y] = marked[y]
             \/ BarrierColours(x, o)[y] \in {"gray", "black"}
  BY <1>5, <1>6 DEF BarrierColours
<1>7. CASE \/ \E o \in Obj : GetField(o) \/ Pop(o)
           \/ \E x, o \in Obj : ClearField(x, o)
           \/ \E mt \in Table : SetTypeMetatable(mt)
           \/ \E from, to \in Thread, o \in Obj : lua_xmove(from, to, o)
           \/ \E co \in Thread : lua_resume(co)
           \/ lua_yield
           \/ endfullgc
  BY <1>3, <1>7 DEF GetField, Pop, ClearField, SetTypeMetatable, lua_xmove, lua_resume, lua_yield,
                    endfullgc, heapVars, markVars
<1>8. ASSUME NEW o \in Obj, luaC_newobj(o)
      PROVE  PendingMarked'
  <2>1. /\ UNCHANGED gcstate /\ list[o] = "free" /\ list' = [list EXCEPT ![o] = "allgc"]
        /\ marked' = [marked EXCEPT ![o] = currentwhite]
    BY <1>8 DEF luaC_newobj
  <2>2. Linked("tobefnz")' \subseteq Linked("tobefnz")
    BY <1>1, <2>1 DEF Linked, TypeOK
  <2>3. \A y \in Linked("tobefnz") : marked'[y] = marked[y]
    BY <1>1, <2>1 DEF Linked, TypeOK
  <2> QED BY <1>2, <2>1, <2>2, <2>3
<1>9. ASSUME NEW s \in String, internshrstr(s)
      PROVE  PendingMarked'
  <2>1. keepinvariant => ~isdead(s)
    BY <1>9 DEF IInv, Marking, internshrstr
  <2>2. /\ UNCHANGED <<gcstate, list>>
        /\ marked' = [marked EXCEPT ![s] = IF isdead(s) THEN currentwhite ELSE @]
    BY <1>9 DEF internshrstr
  <2>3. Linked("tobefnz")' \subseteq Linked("tobefnz")
    BY <2>2 DEF Linked
  <2>4. keepinvariant => \A y \in Linked("tobefnz") : marked'[y] = marked[y]
    BY <1>1, <2>1, <2>2 DEF Linked, TypeOK
  <2> QED BY <1>2, <2>2, <2>3, <2>4
<1>10. ASSUME NEW t \in Table, NEW o \in Obj, SetTable(t, o)
       PROVE  PendingMarked'
  <2>1. UNCHANGED <<gcstate, list>> /\ marked' \in {marked, [marked EXCEPT ![t] = "gray"]}
    BY <1>10 DEF SetTable
  <2>2. Linked("tobefnz")' \subseteq Linked("tobefnz")
    BY <2>1 DEF Linked
  <2>3. \A y \in Linked("tobefnz") : marked'[y] = marked[y] \/ marked'[y] \in {"gray", "black"}
    BY <1>1, <2>1 DEF Linked, TypeOK
  <2> QED BY <1>2, <2>1, <2>2, <2>3
<1>11. ASSUME NEW x \in Table \cup Userdata \cup Closure, NEW o \in Obj, SetOther(x, o)
       PROVE  PendingMarked'
  <2>1. UNCHANGED <<gcstate, list>> /\ marked' = BarrierColours(x, o) /\ x \in Obj
    BY <1>11 DEF SetOther, Obj
  <2>2. Linked("tobefnz")' \subseteq Linked("tobefnz")
    BY <2>1 DEF Linked
  <2>3. keepinvariant => \A y \in Linked("tobefnz") :
          marked'[y] = marked[y] \/ marked'[y] \in {"gray", "black"}
    BY <1>6, <2>1 DEF Linked
  <2> QED BY <1>2, <2>1, <2>2, <2>3
<1>12. ASSUME NEW x \in Table \cup Userdata, NEW mt \in Table, SetFinalizer(x, mt)
       PROVE  PendingMarked'
  <2>1. PICK S \in {{}} \cup SweptToLive :
          LET D == {o \in S : isdead(o)} IN
          /\ S # {} => gcstate = "GCSswpallgc"
          /\ list' = [o \in Obj |-> IF o \in D THEN "free"
                                    ELSE IF o = x THEN "finobj" ELSE list[o]]
          /\ marked' = [o \in Obj |-> IF o \in D THEN "white0"
                                      ELSE IF o \in S \/ (o = x /\ issweepphase)
                                      THEN currentwhite ELSE BarrierColours(x, mt)[o]]
    BY <1>12 DEF SetFinalizer
  <2>2. UNCHANGED gcstate /\ x \in Obj /\ mt \in Obj
    BY <1>12 DEF SetFinalizer, Obj
  <2>3. Linked("tobefnz")' \subseteq Linked("tobefnz")
    BY <2>1 DEF Linked
  <2>4. keepinvariant => S = {} /\ ~issweepphase
    BY <2>1 DEF keepinvariant, issweepphase
  <2>5. keepinvariant => \A y \in Linked("tobefnz") :
          marked'[y] = marked[y] \/ marked'[y] \in {"gray", "black"}
    BY <1>6, <2>1, <2>2, <2>4 DEF Linked
  <2> QED BY <1>2, <2>2, <2>3, <2>5
<1>13. ASSUME NEW kind, luaC_fullgc(kind)
       PROVE  PendingMarked'
  <2>1. CASE keepinvariant
    BY <1>4, <1>13, <2>1 DEF luaC_fullgc, keepinvariant
  <2>2. CASE ~keepinvariant
    BY <1>3, <1>13, <2>2 DEF luaC_fullgc
  <2> QED BY <2>1, <2>2
<1>14. ASSUME NEW o \in Table \cup Userdata, GCTM(o)
       PROVE  PendingMarked'
  <2>1. /\ UNCHANGED gcstate /\ list' = [list EXCEPT ![o] = "allgc"]
        /\ marked' = [marked EXCEPT ![o] = IF issweepphase THEN currentwhite ELSE @]
    BY <1>14 DEF GCTM
  <2>2. Linked("tobefnz")' \subseteq Linked("tobefnz")
    BY <1>1, <2>1 DEF Linked, TypeOK
  <2>3. keepinvariant => ~issweepphase
    BY DEF keepinvariant, issweepphase
  <2>4. keepinvariant => \A y \in Linked("tobefnz") : marked'[y] = marked[y]
    BY <1>1, <2>1, <2>3 DEF Linked, TypeOK
  <2> QED BY <1>2, <2>1, <2>2, <2>4
<1>15. ASSUME restartcollection
       PROVE  PendingMarked'
  <2> DEFINE start == {MainThread} \cup roots \cup Linked("tobefnz")
             R == MarkedAtOnce(start)
  <2>1. start \in SUBSET Obj /\ Linked("tobefnz") \subseteq start
    BY <1>1, ObjAssumption DEF TypeOK, Linked, Obj
  <2>2. marked' = reallymarkobject(R) /\ list' = list
    BY <1>15 DEF restartcollection, heapVars
  <2> HIDE DEF start
  <2>3. start \cap White \subseteq R
    BY <1>1, <2>1, MarkedAtOnceFacts
  <2> HIDE DEF R
  <2>4. ASSUME NEW o \in Linked("tobefnz")
        PROVE  ~iswhite(o)'
    <3>1. o \in Obj /\ o \in Allocated /\ o \in start
      BY <2>1 DEF Linked, Allocated
    <3>2. CASE o \in R
      BY <2>2, <3>1, <3>2 DEF reallymarkobject, iswhite, WhiteBits
    <3>3. CASE o \notin R
      BY <2>2, <2>3, <3>1, <3>3 DEF reallymarkobject, iswhite, White
    <3> QED BY <3>2, <3>3
  <2> QED BY <2>2, <2>4 DEF PendingMarked, Linked
<1>16. ASSUME NEW o \in Obj, propagatemark(o)
       PROVE  PendingMarked'
  <2> DEFINE R == MarkedAtOnce(refs[o])
  <2>1. /\ marked' = [reallymarkobject(R) EXCEPT ![o] = IF o \in Thread THEN "gray" ELSE "black"]
        /\ list' = list /\ keepinvariant
    BY <1>16 DEF propagatemark, heapVars, keepinvariant
  <2> HIDE DEF R
  <2>2. reallymarkobject(R) \in [Obj -> Colours]
    BY <1>1, MarkedColours
  <2>3. \A y \in Linked("tobefnz") : marked'[y] = marked[y] \/ marked'[y] \in {"gray", "black"}
    BY <1>5, <2>1, <2>2 DEF Linked
  <2>4. Linked("tobefnz")' \subseteq Linked("tobefnz")
    BY <2>1 DEF Linked
  <2> QED BY <1>1, <2>1, <2>3, <2>4, StillMarked
<1>17. ASSUME atomic \/ sweepallgc \/ sweepfinobj \/ sweeptobefnz \/ sweepend \/ callfin
       PROVE  ~keepinvariant'
  BY <1>17 DEF atomic, sweepallgc, sweepfinobj, sweeptobefnz, sweepend, callfin, sweepstep,
               keepinvariant
<1> QED
  BY <1>4, <1>7, <1>8, <1>9, <1>10, <1>11, <1>12, <1>13, <1>14, <1>15, <1>16, <1>17
  DEF Next, Program, Finalizers, Collector

-----------------------------------------------------------------------------
(* The refinement.                                                         *)

\* Both modules start with the main thread alone.
LEMMA InitMaps == Init => Heap!Init
<1> SUFFICES ASSUME Init PROVE Heap!Init
  OBVIOUS
<1>1. \A o \in Obj : list[o] = IF o = MainThread THEN "mainthread" ELSE "free"
  BY DEF Init
<1>2. Status(list) = [o \in Obj |-> IF o = MainThread THEN "plain" ELSE "free"]
  BY <1>1 DEF Status
<1>3. Heap!Obj = Obj
  BY DEF Heap!Obj, Obj
<1> QED BY <1>2, <1>3 DEF Init, Heap!Init, Status

\* Every step of LuaGC is a step of LuaHeap or none.
LEMMA StepMaps ==
  ASSUME IInv, PendingMarked, TypeOK', [Next]_vars
  PROVE  [Heap!Next]_Heap!vars
<1>1. ASSUME UNCHANGED heapVars
      PROVE  [Heap!Next]_Heap!vars
  BY <1>1, StutterMaps
<1>2. CASE Program
  BY <1>2, NewMaps, StackMaps, XmoveMaps, SetMaps, SetFinalizerMaps, ThreadMaps, SweepMaps
  DEF Program
<1>3. CASE Finalizers
  BY <1>3, FinalizeMaps DEF Finalizers
<1>4. CASE \E o \in Obj : propagatemark(o)
  BY <1>1, <1>4 DEF propagatemark
<1>5. CASE restartcollection \/ sweepend \/ callfin \/ endfullgc
  BY <1>1, <1>5 DEF restartcollection, sweepend, callfin, endfullgc
<1>6. CASE atomic \/ sweepallgc \/ sweepfinobj \/ sweeptobefnz
  BY <1>6, AtomicCollects, CollectStep, SweepMaps DEF IInv
<1>7. CASE UNCHANGED vars
  BY <1>1, <1>7 DEF vars, heapVars
<1> QED BY <1>2, <1>3, <1>4, <1>5, <1>6, <1>7 DEF Next, Collector

\* While the collector marks, all objects that wait for their finalizers are
\* marked (restartcollection marks 'tobefnz' with the roots).
THEOREM Pending == Spec /\ []FewToFinalize => []PendingMarked
<1>1. ASSUME IInv, PendingMarked, TypeOK', [Next]_vars
      PROVE  PendingMarked'
  <2>1. CASE Next
    BY <1>1, <2>1, PendingKept
  <2>2. CASE UNCHANGED vars
    BY <1>1, <2>2 DEF vars, PendingMarked, keepinvariant, Linked, iswhite
  <2> QED BY <1>1, <2>1, <2>2
<1>2. IInv /\ IInv' /\ PendingMarked /\ [Next]_vars => PendingMarked'
  BY <1>1 DEF IInv
<1> QED BY <1>2, Invariance, PendingInit, PTL DEF Spec

\* The collector implements the heap of LuaHeap: it frees only what can no more
\* be reached, calls the finalizers of lost objects only, and changes nothing
\* else that the program could see.
THEOREM Refinement == Spec /\ []FewToFinalize => ImplementsHeap
<1>1. IInv /\ IInv' /\ PendingMarked /\ [Next]_vars => [Heap!Next]_Heap!vars
  BY StepMaps DEF IInv
<1> QED BY <1>1, Invariance, Pending, InitMaps, PTL DEF Spec, ImplementsHeap, Heap!Spec
-----------------------------------------------------------------------------
(* No garbage outlives an emergency collection.                            *)

\* What the program or an object with a finalizer reaches: all but Garbage.
Reachable == Reach(Obj, Active \cup roots \cup {o \in Obj : tofinalize(o)}, refs)

\* It holds the roots, is closed under refs, and none of it may be freed.
LEMMA ReachableFacts ==
  ASSUME IInv
  PROVE  /\ Reachable \subseteq Obj /\ Active \cup roots \subseteq Reachable
         /\ L \in Reachable /\ MainThread \in Reachable
         /\ Linked("finobj") \cup Linked("tobefnz") \subseteq Reachable
         /\ \A x \in Reachable : refs[x] \subseteq Reachable
         /\ Garbage = Allocated \ Reachable
         /\ Heap!Freeable \cap Reachable = {}
<1> DEFINE S == Active \cup roots \cup {o \in Obj : tofinalize(o)}
<1>1. TypeOK /\ L \in Active /\ Active \subseteq Obj /\ MainThread \in Active
  BY RunningThread, ObjAssumption DEF IInv, TypeOK, Active, Obj, Chain
<1>2. S \in SUBSET Obj
  BY <1>1 DEF TypeOK, Obj
<1>3. Reachable = Reach(Obj, S, refs)
  BY DEF Reachable
<1>4. S \subseteq Reachable /\ Reachable \subseteq Obj
  BY <1>2, <1>3, ReachStart, ReachInObj
<1>5. Linked("finobj") \cup Linked("tobefnz") \subseteq S
  BY DEF Linked, tofinalize
<1>6. \A x \in Reachable : refs[x] \subseteq Reachable
  <2> SUFFICES ASSUME NEW x \in Reachable
               PROVE  refs[x] \subseteq Reachable
    OBVIOUS
  <2>1. refs[x] \subseteq Obj
    BY <1>1, <1>4 DEF TypeOK
  <2> QED BY <1>3, <2>1, ReachClosed
<1>7. Garbage = Allocated \ Reachable
  BY DEF Garbage, Reachable
<1>8. Heap!Freeable \cap Reachable = {}
  BY <1>1, FreeableFacts DEF Reachable
<1> QED BY <1>1, <1>4, <1>5, <1>6, <1>7, <1>8

\* Marking from what is reachable marks only what is reachable.
LEMMA MarkedReachable ==
  ASSUME IInv, NEW S \in SUBSET Obj, S \subseteq Reachable
  PROVE  MarkedAtOnce(S) \subseteq Reachable /\ MarkedFrom(S) \subseteq Reachable
<1>1. Reachable \in SUBSET Obj /\ \A x \in Reachable : refs[x] \subseteq Reachable
  BY ReachableFacts
<1> DEFINE f == [o \in Obj |-> IF o \in Userdata THEN refs[o] \cap White ELSE {}]
           g == [o \in Obj |-> refs[o] \cap White]
<1>2. /\ \A x \in Reachable : f[x] \subseteq Reachable
      /\ \A x \in Reachable : g[x] \subseteq Reachable
  BY <1>1
<1>3. MarkedAtOnce(S) = Reach(Obj, S \cap White, f)
  BY DEF MarkedAtOnce
<1>4. MarkedFrom(S) = Reach(Obj, S \cap White, g)
  BY DEF MarkedFrom
<1>5. S \cap White \subseteq Reachable
  OBVIOUS
<1> HIDE DEF f, g
<1> QED BY <1>1, <1>2, <1>3, <1>4, <1>5, ReachLeast

\* Collecting makes no garbage of what was reachable.
LEMMA GarbageShrinks ==
  ASSUME IInv, IInv', NEW D, NEW fin, Collects(D, fin)
  PROVE  Garbage' \subseteq Garbage \ D
<1>1. /\ D \cap Reachable = {} /\ D \subseteq Obj
      /\ fin \subseteq Linked("finobj") /\ UNCHANGED <<roots, cstack>>
  BY ReachableFacts, FreeableFacts DEF Collects, IInv
<1>2. /\ \A y \in D : list'[y] = "free"
      /\ \A y \in Obj \ D : /\ y \in fin => list'[y] = "tobefnz"
                            /\ y \notin fin => list'[y] = list[y]
                            /\ refs'[y] = refs[y]
  BY DEF Collects
<1>3. Allocated' \subseteq Allocated \ D
  BY <1>1, <1>2 DEF Allocated, Linked
<1> DEFINE S2 == Active' \cup roots' \cup {o \in Obj : tofinalize(o)'}
<1>4. /\ Reachable' \subseteq Obj /\ Active' \cup roots' \subseteq Reachable'
      /\ \A o \in Obj : tofinalize(o)' => o \in Reachable'
      /\ \A x \in Reachable' : refs'[x] \subseteq Reachable'
      /\ Garbage' = Allocated' \ Reachable'
  <2>1. S2 \in SUBSET Obj
    BY DEF IInv, TypeOK, Active, Obj
  <2>2. Reachable' = Reach(Obj, S2, refs')
    BY DEF Reachable
  <2>3. S2 \subseteq Reachable' /\ Reachable' \subseteq Obj
    BY <2>1, <2>2, ReachStart, ReachInObj
  <2>4. ASSUME NEW x \in Reachable'
        PROVE  refs'[x] \subseteq Reachable'
    <3>1. refs'[x] \subseteq Obj
      BY <2>3 DEF IInv, TypeOK
    <3> QED BY <2>2, <3>1, ReachClosed
  <2>5. Garbage' = Allocated' \ Reachable'
    BY DEF Garbage, Reachable
  <2> QED BY <2>3, <2>4, <2>5
<1> HIDE DEF S2
<1>5. /\ Reachable \subseteq Obj /\ Active \cup roots \subseteq Reachable
      /\ Linked("finobj") \cup Linked("tobefnz") \subseteq Reachable
      /\ \A x \in Reachable : refs[x] \subseteq Reachable
      /\ Garbage = Allocated \ Reachable
  BY ReachableFacts
<1> DEFINE S == Active \cup roots \cup {o \in Obj : tofinalize(o)}
           T == Reachable \cap Reachable'
<1>6. S \subseteq T
  <2>1. Active' = Active /\ roots' = roots
    BY <1>1 DEF Active
  <2>2. ASSUME NEW o \in Obj, tofinalize(o)
        PROVE  o \in T
    <3>1. o \in Reachable
      BY <1>5, <2>2 DEF tofinalize, Linked
    <3>2. list'[o] \in {"finobj", "tobefnz"}
      BY <1>1, <1>2, <2>2, <3>1 DEF tofinalize
    <3> QED BY <1>4, <3>1, <3>2 DEF tofinalize
  <2> QED BY <1>4, <1>5, <2>1, <2>2
<1>7. \A x \in T : refs[x] \subseteq T
  BY <1>1, <1>2, <1>4, <1>5
<1>8. T \in SUBSET Obj /\ Reachable = Reach(Obj, S, refs)
  BY <1>5 DEF Reachable
<1> HIDE DEF S, T
<1>9. Reachable \subseteq T
  BY <1>6, <1>7, <1>8, ReachLeast
<1> QED BY <1>3, <1>4, <1>5, <1>9 DEF T

\* The sweep frees the garbage it visits.
LEMMA SweepLeavesNone ==
  ASSUME IInv, IInv', NoFloating, sweepallgc \/ sweepfinobj \/ sweeptobefnz
  PROVE  NoFloating'
<1>1. /\ ~keepinvariant /\ ~keepinvariant' /\ UNCHANGED <<fullgc, gckind, currentwhite>>
  BY DEF sweepallgc, sweepfinobj, sweeptobefnz, sweepstep, keepinvariant
<1>2. PICK S \in SUBSET Allocated :
        sweeplist(S, marked, currentwhite, list) /\ UNCHANGED <<roots, cstack>>
  BY SweepSlices
<1> DEFINE D == {y \in S : isdead(y)}
<1>3. Collects(D, {})
  BY <1>2, SweepCollects
<1>4. Garbage' \subseteq Garbage \ D
  <2> HIDE DEF D
  <2> QED BY <1>3, GarbageShrinks
<1>5. SUFFICES ASSUME fullgc = "collect", gckind = "KGC_EMERGENCY", NEW o \in Garbage'
               PROVE  isdead(o)'
  BY <1>1 DEF NoFloating
<1>6. o \in Obj /\ isdead(o) /\ o \notin S
  BY <1>1, <1>4, <1>5 DEF NoFloating, Garbage, Allocated
<1>7. marked'[o] = marked[o]
  BY <1>2, <1>6, SweptObjects DEF IInv
<1> QED BY <1>1, <1>6, <1>7 DEF isdead

\* The atomic phase marks no garbage, and its flip of the white makes all of it
\* dead.
LEMMA AtomicMarksNone ==
  ASSUME IInv, IInv', PendingMarked, NoFloating, atomic
  PROVE  NoFloating'
<1> DEFINE grays == gray \cup grayagain
           start == {L} \cup roots \cup UNION {refs[o] : o \in grays}
           R1 == MarkedFrom(start)
           fin == {o \in Linked("finobj") : iswhite(o) /\ o \notin R1}
           R2 == MarkedFrom(fin \cup Linked("tobefnz"))
           R == R1 \cup R2
           m == [o \in Obj |-> IF o \notin R \cup grays THEN marked[o]
                               ELSE IF o \in Thread THEN "gray" ELSE "black"]
           l == [o \in Obj |-> IF o \in fin THEN "tobefnz" ELSE list[o]]
           w == otherwhite(currentwhite)
<1>1. /\ keepinvariant /\ ~keepinvariant' /\ UNCHANGED <<fullgc, gckind>>
      /\ currentwhite' = w /\ TypeOK /\ currentwhite \in WhiteBits
      /\ refs \in [Obj -> SUBSET Obj]
  BY DEF atomic, keepinvariant, IInv, TypeOK
<1>2. SUFFICES ASSUME fullgc = "collect", gckind = "KGC_EMERGENCY", NEW o \in Garbage'
               PROVE  isdead(o)'
  BY <1>1 DEF NoFloating
<1>3. /\ Reachable \subseteq Obj /\ L \in Reachable /\ roots \subseteq Reachable
      /\ Linked("finobj") \cup Linked("tobefnz") \subseteq Reachable
      /\ \A x \in Reachable : refs[x] \subseteq Reachable
      /\ Garbage = Allocated \ Reachable
  BY ReachableFacts
<1>4. \A x \in Garbage : iswhite(x)
  BY <1>1, <1>2 DEF NoFloating
<1>5. grays \subseteq Reachable
  <2> SUFFICES ASSUME NEW x \in grays, x \notin Reachable
               PROVE  FALSE
    OBVIOUS
  <2>1. x \in Allocated /\ isgray(x)
    BY <1>1 DEF IInv, Marking
  <2>2. iswhite(x)
    BY <1>3, <1>4, <2>1
  <2> QED BY <2>1, <2>2 DEF isgray, iswhite, WhiteBits
<1>6. start \subseteq Reachable /\ fin \cup Linked("tobefnz") \subseteq Reachable
  BY <1>3, <1>5
<1> HIDE DEF start, fin
<1>7. R \subseteq Reachable
  BY <1>3, <1>6, MarkedReachable
<1>8. PICK S \in Slices(Linked("allgc"), 1) : sweeplist(S, m, w, l)
  BY DEF atomic, separatetobefnz, propagateall, start, fin
<1>9. PICK D, f : Collects(D, f)
  BY AtomicCollects DEF IInv
<1>10. o \in Garbage /\ o \in Obj /\ o \notin R \cup grays /\ list'[o] # "free"
  <2>1. o \in Garbage
    BY <1>2, <1>9, GarbageShrinks
  <2>2. o \in Allocated'
    BY <1>2 DEF Garbage
  <2> HIDE DEF R, grays
  <2> QED BY <1>3, <1>5, <1>7, <2>1, <2>2 DEF Allocated
<1>11. m[o] = currentwhite
  <2>1. m[o] = marked[o] /\ o \in Allocated
    BY <1>3, <1>10
  <2>2. iswhite(o) /\ ~isdead(o)
    BY <1>1, <1>4, <1>10, <2>1 DEF IInv, Marking
  <2> QED BY <1>1, <1>10, <2>1, <2>2, CurrentWhite
<1>12. otherwhite(w) = currentwhite
  BY <1>1 DEF otherwhite, WhiteBits
<1> HIDE DEF m, w, l
<1>13. o \notin S /\ marked'[o] = m[o]
  BY <1>1, <1>8, <1>10, <1>11, <1>12, SweptObjects
<1> QED BY <1>1, <1>11, <1>12, <1>13 DEF isdead

\* Neither does any other step.
LEMMA NoFloatingKept ==
  ASSUME IInv, IInv', PendingMarked, NoFloating, Next
  PROVE  NoFloating'
<1>1. ASSUME UNCHANGED heapVars
      PROVE  Garbage' = Garbage
  BY <1>1 DEF heapVars, Garbage, Allocated, Active, tofinalize
<1>2. ASSUME CanRun, UNCHANGED <<fullgc, gckind>>
      PROVE  NoFloating'
  BY <1>2 DEF CanRun, NoFloating
<1>3. CASE Program
  <2>1. ASSUME NEW kind, luaC_fullgc(kind)
        PROVE  NoFloating'
    BY <2>1 DEF luaC_fullgc, NoFloating
  <2>2. CASE \A kind : ~luaC_fullgc(kind)
    <3>1. CanRun /\ UNCHANGED <<fullgc, gckind>>
      BY <1>3, <2>2
      DEF Program, luaC_newobj, GetField, Pop, internshrstr, ClearField, SetTable, SetOther,
          SetFinalizer, SetTypeMetatable, lua_xmove, lua_resume, lua_yield
    <3> QED BY <1>2, <3>1
  <2> QED BY <2>1, <2>2
<1>4. CASE Finalizers
  BY <1>2, <1>4 DEF Finalizers, GCTM
<1>5. CASE restartcollection
  <2> DEFINE start == {MainThread} \cup roots \cup Linked("tobefnz")
             R == MarkedAtOnce(start)
  <2>1. start \subseteq Reachable /\ Reachable \subseteq Obj /\ Garbage = Allocated \ Reachable
    BY ReachableFacts
  <2>2. /\ marked' = reallymarkobject(R) /\ UNCHANGED heapVars /\ keepinvariant'
        /\ gcstate = "GCSpause"
    BY <1>5 DEF restartcollection, keepinvariant
  <2> HIDE DEF start
  <2>3. R \subseteq Reachable
    BY <2>1, MarkedReachable
  <2> HIDE DEF R
  <2>4. ASSUME NEW o \in Garbage
        PROVE  iswhite(o)'
    <3>1. o \in Allocated /\ o \in Obj /\ o \notin R
      BY <2>1, <2>3 DEF Allocated
    <3>2. iswhite(o)
      BY <2>2, <3>1 DEF IInv, Sweeping, Unswept, keepinvariant
    <3> QED BY <2>2, <3>1, <3>2 DEF reallymarkobject, iswhite
  <2> QED BY <1>1, <2>2, <2>4 DEF NoFloating
<1>6. ASSUME NEW x \in Obj, propagatemark(x)
      PROVE  NoFloating'
  <2> DEFINE R == MarkedAtOnce(refs[x])
  <2>1. /\ marked' = [reallymarkobject(R) EXCEPT ![x] = IF x \in Thread THEN "gray" ELSE "black"]
        /\ UNCHANGED heapVars /\ keepinvariant /\ keepinvariant' /\ x \in gray
        /\ UNCHANGED <<fullgc, gckind>>
    BY <1>6 DEF propagatemark, keepinvariant
  <2>2. /\ \A y \in Reachable : refs[y] \subseteq Reachable
        /\ Reachable \subseteq Obj /\ Garbage = Allocated \ Reachable
    BY ReachableFacts
  <2> SUFFICES ASSUME fullgc = "collect", gckind = "KGC_EMERGENCY", NEW o \in Garbage
               PROVE  iswhite(o)'
    BY <1>1, <2>1 DEF NoFloating
  <2>3. \A y \in Garbage : iswhite(y)
    BY <2>1 DEF NoFloating
  <2>4. x \in Allocated /\ isgray(x)
    BY <2>1 DEF IInv, Marking
  <2>5. x \in Reachable
    BY <2>2, <2>3, <2>4 DEF isgray, iswhite, WhiteBits
  <2>6. R \subseteq Reachable
    <3>1. refs[x] \in SUBSET Obj /\ refs[x] \subseteq Reachable
      BY <2>2, <2>5
    <3> QED BY <3>1, MarkedReachable
  <2> HIDE DEF R
  <2>7. o \in Obj /\ o \notin R /\ o # x
    BY <2>2, <2>5, <2>6 DEF Allocated
  <2>8. marked'[o] = marked[o]
    BY <2>1, <2>7 DEF reallymarkobject
  <2> QED BY <2>3, <2>8 DEF iswhite
<1>7. CASE sweepend
  <2>1. /\ marked' = [marked EXCEPT ![MainThread] = currentwhite]
        /\ UNCHANGED heapVars /\ ~keepinvariant /\ ~keepinvariant'
        /\ UNCHANGED <<fullgc, gckind, currentwhite>>
    BY <1>7 DEF sweepend, keepinvariant
  <2>2. ASSUME NEW o \in Garbage
        PROVE  isdead(o)' <=> isdead(o)
    <3>1. o \in Obj /\ o # MainThread
      BY ReachableFacts DEF Allocated
    <3> QED BY <2>1, <3>1 DEF isdead, IInv, TypeOK
  <2> QED BY <1>1, <2>1, <2>2 DEF NoFloating
<1>8. CASE callfin
  <2>1. /\ UNCHANGED heapVars /\ ~keepinvariant /\ ~keepinvariant'
        /\ UNCHANGED <<fullgc, gckind, currentwhite, marked>>
    BY <1>8 DEF callfin, keepinvariant, markVars
  <2> QED BY <1>1, <2>1 DEF NoFloating, isdead
<1>9. CASE endfullgc
  BY <1>9 DEF endfullgc, NoFloating
<1> QED
  BY <1>3, <1>4, <1>5, <1>6, <1>7, <1>8, <1>9, SweepLeavesNone, AtomicMarksNone
  DEF Next, Collector

\* In the cycle of an emergency collection garbage stays white and then dead:
\* the program does not run, so nothing that was marked becomes garbage.
THEOREM NothingFloats == Spec /\ []FewToFinalize => []NoFloating
<1>1. Init => NoFloating
  BY DEF Init, NoFloating
<1>2. IInv /\ IInv' /\ PendingMarked /\ NoFloating /\ [Next]_vars => NoFloating'
  <2> SUFFICES ASSUME IInv, IInv', PendingMarked, NoFloating, [Next]_vars
               PROVE  NoFloating'
    OBVIOUS
  <2>1. CASE UNCHANGED vars
    BY <2>1 DEF vars, NoFloating, Garbage, Allocated, Active, tofinalize, keepinvariant,
                iswhite, isdead
  <2> QED BY <2>1, NoFloatingKept
<1> QED BY <1>1, <1>2, Invariance, Pending, PTL DEF Spec

\* When an emergency collection ends, no garbage is left: the allocation that
\* called for it (luaM_realloc_) gets all the memory there is to get.
THEOREM EmergencyComplete == Spec /\ []FewToFinalize => EmergencyFreesGarbage
<1>1. ASSUME IInv, NoFloating, endfullgc, gckind = "KGC_EMERGENCY"
      PROVE  Garbage = {}
  <2>1. ~keepinvariant /\ gcstate = "GCSpause" /\ \A o \in Garbage : isdead(o)
    BY <1>1 DEF endfullgc, NoFloating, keepinvariant
  <2>2. \A o \in Allocated : ~isdead(o)
    BY <1>1, <2>1 DEF IInv, Sweeping
  <2> QED BY <2>1, <2>2 DEF Garbage
<1>2. IInv /\ NoFloating /\ [Next]_vars
        => [endfullgc /\ gckind = "KGC_EMERGENCY" => Garbage = {}]_vars
  BY <1>1
<1> QED BY <1>2, Invariance, NothingFloats, PTL DEF Spec, EmergencyFreesGarbage
=============================================================================
