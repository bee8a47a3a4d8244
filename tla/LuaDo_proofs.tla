---------------------------- MODULE LuaDo_proofs ----------------------------
(***************************************************************************)
(* Facts about LuaDo for every set of threads and every limit: how the     *)
(* activations on the C stack lie on each other, what is counted in them,  *)
(* what dropping activations or pushing one does to each part of the       *)
(* inductive invariant, and then to the invariant as a whole.  LuaDo_safety*)
(* makes the operations of these moves.  The running thread is that of the *)
(* activation on top.                                                      *)
(***************************************************************************)
EXTENDS LuaDo_Inv, SequenceTheorems, FiniteSetTheorems, WellFoundedInduction,
        TLAPS

\* Activations that differ in what changes while they are on the stack.
Alike(a, b) ==
  /\ a.fn = b.fn /\ a.th = b.th /\ a.level = b.level
  /\ a.fn = "luaD_call" => a.noyield = b.noyield /\ a.caller = b.caller
  /\ a.fn \notin {"luaD_call", "GCTM", "lua_resume"} => a = b
  /\ a.fn = "GCTM" => a.oldah = b.oldah
  /\ a.fn = "lua_resume" => a.nny = b.nny /\ a.nCcalls = b.nCcalls

\* d is c up to activation n, which may have changed.
Cut(c, d, n) ==
  /\ d \in Seq(Activation) /\ n \in 1 .. Len(c) /\ Len(d) = n
  /\ \A i \in 1 .. n - 1 : d[i] = c[i]
  /\ Alike(c[n], d[n])

\* d is c with a on top.
Pushed(c, d, a) ==
  /\ d \in Seq(Activation) /\ Len(d) = Len(c) + 1
  /\ \A i \in 1 .. Len(c) : d[i] = c[i]
  /\ d[Len(c) + 1] = a

-----------------------------------------------------------------------------
(* Activations, sequences and maxima.                                      *)

\* The fields of an activation have their types.
LEMMA ActivationFields ==
  ASSUME NEW a \in Activation
  PROVE  /\ a.th \in Thread /\ a.level \in Nat
         /\ a.fn \in Runs \cup {"luaD_protectedparser", "luaD_call",
                                "luaD_pcall", "GCTM", "lua_resume"}
         /\ a.fn = "luaD_call" =>
              /\ a.noyield \in BOOLEAN /\ a.entered \in BOOLEAN
              /\ a.caller \in {"callk", "pcallk", "f_call", "luaT_callTM",
                               "luaG_errormsg"}
         /\ a.fn = "luaD_pcall" =>
              /\ a.nny \in Nat /\ a.nCcalls \in Nat /\ a.errfunc \in Nat
              /\ a.allowhook \in BOOLEAN /\ a.ef \in Nat
         /\ a.fn = "GCTM" => a.oldah \in BOOLEAN /\ a.status \in {"LUA_OK"} \cup Errors
         /\ a.fn = "lua_resume" =>
              a.nny \in Nat /\ a.nCcalls \in Nat /\ a.entered \in BOOLEAN
BY DEF Activation, Runs

\* The fields of a frame have their types.
LEMMA FrameFields ==
  ASSUME NEW a \in CallInfo
  PROVE  /\ a.lua \in BOOLEAN
         /\ a.lua => a.fresh \in BOOLEAN
         /\ ~a.lua => /\ a.k \in {"unset", "NULL", "k"} /\ a.ypcall \in BOOLEAN
                      /\ a.oah \in BOOLEAN /\ a.old_errfunc \in Nat
                      /\ a.handler \in BOOLEAN
BY DEF CallInfo, LuaFrame, CFrame

\* What SubSeq leaves of the beginning of a sequence.
LEMMA FirstOnes ==
  ASSUME NEW S, NEW s \in Seq(S), NEW n \in 0 .. Len(s)
  PROVE  /\ SubSeq(s, 1, n) \in Seq(S) /\ Len(SubSeq(s, 1, n)) = n
         /\ \A i \in 1 .. n : SubSeq(s, 1, n)[i] = s[i]
BY SubSeqProperties, ElementOfSeq

\* The stack without the activations above n.
LEMMA CutIsCut ==
  ASSUME NEW c \in Seq(Activation), NEW n \in 1 .. Len(c)
  PROVE  /\ Cut(c, SubSeq(c, 1, n), n)
         /\ \A i \in 1 .. n : SubSeq(c, 1, n)[i] = c[i]
BY FirstOnes DEF Cut, Alike

\* The activation on top is marked as entered, or gets the status of a call.
LEMMA EnterIsCut ==
  ASSUME NEW c \in Seq(Activation), c # <<>>,
         c[Len(c)].fn \in {"luaD_call", "lua_resume"}
  PROVE  LET d == [c EXCEPT ![Len(c)].entered = TRUE]
         IN  Cut(c, d, Len(c)) /\ d[Len(c)].entered
<1>1. Len(c) \in Nat \ {0} /\ c[Len(c)] \in Activation
  BY ElementOfSeq, EmptySeq
<1>2. [c[Len(c)] EXCEPT !.entered = TRUE] \in Activation
  BY <1>1 DEF Activation, Runs
<1>3. Alike(c[Len(c)], [c[Len(c)] EXCEPT !.entered = TRUE])
  BY <1>1 DEF Alike, Activation, Runs
<1>4. [c[Len(c)] EXCEPT !.entered = TRUE].entered
  BY <1>1 DEF Activation, Runs
<1> DEFINE d == [c EXCEPT ![Len(c)] = [c[Len(c)] EXCEPT !.entered = TRUE]]
<1>5. /\ d \in Seq(Activation) /\ Len(d) = Len(c)
      /\ \A i \in 1 .. Len(c) :
           d[i] = IF i = Len(c) THEN [c[Len(c)] EXCEPT !.entered = TRUE] ELSE c[i]
  BY <1>1, <1>2, ExceptSeq
<1>6. d = [c EXCEPT ![Len(c)].entered = TRUE]
  OBVIOUS
<1> HIDE DEF d
<1> QED BY <1>1, <1>3, <1>4, <1>5, <1>6 DEF Cut

\* Storing the outcome of a finalizer is a cut that changes its GCTM only.
LEMMA StatusIsCut ==
  ASSUME NEW c \in Seq(Activation), NEW n \in 1 .. Len(c), c[n].fn = "GCTM",
         NEW st \in {"LUA_OK"} \cup Errors
  PROVE  Cut(c, [SubSeq(c, 1, n) EXCEPT ![n].status = st], n)
<1> DEFINE s == SubSeq(c, 1, n)
<1>1. /\ s \in Seq(Activation) /\ Len(s) = n
      /\ \A i \in 1 .. n : s[i] = c[i]
      /\ c[n] \in Activation
  BY FirstOnes, ElementOfSeq
<1> HIDE DEF s
<1> DEFINE a == [s[n] EXCEPT !.status = st]
<1>2. s[n] \in Activation /\ s[n].fn = "GCTM" /\ s[n] = c[n]
  BY <1>1
<1>3. a \in Activation /\ Alike(c[n], a)
  BY <1>2 DEF Alike, Activation, Runs
<1> DEFINE d == [s EXCEPT ![n] = a]
<1>4. d = [s EXCEPT ![n].status = st]
  OBVIOUS
<1> HIDE DEF a
<1>5. /\ d \in Seq(Activation) /\ Len(d) = n
      /\ \A i \in 1 .. n : d[i] = IF i = n THEN a ELSE s[i]
  BY <1>1, <1>3, ExceptSeq
<1> HIDE DEF d
<1>6. Cut(c, d, n)
  BY <1>1, <1>3, <1>5 DEF Cut
<1> QED BY <1>4, <1>6 DEF s

\* One more activation.
LEMMA PushIsPush ==
  ASSUME NEW c \in Seq(Activation), NEW a \in Activation
  PROVE  Pushed(c, Append(c, a), a)
BY DEF Pushed

\* A non-empty set of positions has a last one.
LEMMA LastPosition ==
  ASSUME NEW n \in Nat, NEW S \in SUBSET (1 .. n), S # {}
  PROVE  Max(S) \in S /\ \A i \in S : i <= Max(S)
<1> DEFINE T == {n - i : i \in S}
<1>1. \A i \in S : i \in Nat /\ n - i \in Nat
  OBVIOUS
<1>2. T \subseteq Nat /\ T # {}
  BY <1>1
<1> HIDE DEF T
<1>3. PICK m \in T : \A k \in T : ~(<<k, m>> \in OpToRel(<, Nat))
  BY <1>2, NatLessThanWellFounded, WFMin
<1>4. \A k \in T : ~(k < m)
  BY <1>2, <1>3 DEF OpToRel
<1>5. PICK j \in S : m = n - j
  BY DEF T
<1>6. \A i \in S : ~(n - i < m)
  BY <1>4 DEF T
<1>7. \A i \in S : j >= i
  BY <1>1, <1>5, <1>6
<1>8. Max(S) \in S /\ \A y \in S : Max(S) >= y
  BY <1>7 DEF Max
<1> QED BY <1>1, <1>8

-----------------------------------------------------------------------------
(* The shape of the C stack.                                               *)

\* What lies on an activation works for its frame or for one above it.
LEMMA LiesAbove ==
  ASSUME NEW a \in Activation, NEW b \in Activation,
         a.fn # "lua_resume", LiesOn(b, a), b.fn = "lua_resume" => b.level = 0
  PROVE  /\ Base(a) \in Nat /\ b.level <= Base(a) /\ Base(a) <= a.level
         /\ b.fn \notin {"luaV_execute", "lua_resume"} => b.level = Base(a)
<1>1. a.level \in Nat /\ b.level \in Nat
  BY ActivationFields
<1>2. CASE a.fn \in {"C", "luaV_execute"}
  BY <1>1, <1>2 DEF LiesOn, Base
<1>3. CASE a.fn = "luaD_call"
  BY <1>1, <1>3 DEF LiesOn, CallFrom, SameLevel, Base
<1>4. CASE a.fn \notin {"C", "luaV_execute", "luaD_call"}
  BY <1>1, <1>4 DEF LiesOn, SameLevel, Base
<1> QED BY <1>2, <1>3, <1>4

\* The stack is of activations of a known kind; it begins with the host.
LEMMA StackParts ==
  ASSUME NEW c \in Seq(Activation), Stack(c)
  PROVE  /\ Len(c) \in Nat \ {0}
         /\ \A i \in 1 .. Len(c) :
              /\ c[i] \in Activation /\ c[i].th \in Thread /\ c[i].level \in Nat
              /\ c[i].fn = "lua_resume" => i > 1 /\ c[i].level = 0
         /\ c[1].fn = "C" /\ c[1].th = MainThread /\ c[1].level = 0
BY ElementOfSeq, EmptySeq, ActivationFields DEF Stack, Host

\* Two activations of one thread.
LEMMA SameThread ==
  ASSUME NEW c \in Seq(Activation), Stack(c),
         NEW k \in 1 .. Len(c), NEW i \in 1 .. k - 1, c[i].th = c[k].th
  PROVE  /\ \A j \in i .. k : c[j].th = c[k].th
         /\ c[k].fn # "lua_resume" /\ LiesOn(c[k - 1], c[k])
         /\ c[i].level <= Base(c[k]) /\ Base(c[k]) <= c[k].level
         /\ Base(c[k]) \in Nat
<1>1. \A j \in i .. k : c[j].th = c[k].th
  BY StackParts DEF Stack
<1>2. k - 1 \in i .. k /\ k \in 2 .. Len(c) /\ k - 1 \in 1 .. Len(c)
      /\ i \in 1 .. Len(c)
  BY StackParts
<1>3. c[k - 1].th = c[k].th
  BY <1>1, <1>2
<1>4. c[k].fn # "lua_resume" /\ LiesOn(c[k - 1], c[k])
  BY <1>2, <1>3 DEF Stack
<1>5. c[i].level <= c[k - 1].level
  BY <1>1, <1>2, <1>3 DEF Stack
<1>6. /\ Base(c[k]) \in Nat /\ c[k - 1].level <= Base(c[k])
      /\ Base(c[k]) <= c[k].level
  BY <1>2, <1>4, StackParts, LiesAbove
<1>7. c[i].level \in Nat /\ c[k - 1].level \in Nat /\ c[k].level \in Nat
  BY <1>2, StackParts
<1> QED BY <1>1, <1>4, <1>5, <1>6, <1>7

\* The beginning of a stack is one.
LEMMA CutStack ==
  ASSUME NEW c \in Seq(Activation), Stack(c), NEW d, NEW n, Cut(c, d, n)
  PROVE  /\ Stack(d) /\ d \in Seq(Activation)
         /\ \A i \in 1 .. n : Alike(c[i], d[i])
<1>1. /\ Len(c) \in Nat \ {0} /\ n \in 1 .. Len(c) /\ Len(d) = n
      /\ d \in Seq(Activation) /\ d # <<>>
      /\ \A i \in 1 .. n - 1 : d[i] = c[i]
  BY StackParts, EmptySeq DEF Cut
<1>2. \A i \in 1 .. n : Alike(c[i], d[i])
  BY <1>1 DEF Cut, Alike
<1>3. d[1] = Host
  BY <1>1, <1>2 DEF Stack, Host, Alike
<1>4. ASSUME NEW j \in 2 .. n
      PROVE  /\ (d[j].fn = "lua_resume") <=> (d[j].th # d[j - 1].th)
             /\ IF d[j].fn = "lua_resume"
                THEN UsesApi(d[j - 1]) /\ d[j].level = 0
                ELSE LiesOn(d[j - 1], d[j])
             /\ d[j].fn = "f_parser" =>
                  j > 3 /\ d[j - 2].fn = "luaD_protectedparser"
  <2>1. /\ j \in 2 .. Len(c) /\ d[j - 1] = c[j - 1]
        /\ Alike(c[j], d[j]) /\ (j > 3 => d[j - 2] = c[j - 2])
    BY <1>1, <1>2
  <2>2. LiesOn(c[j - 1], c[j]) => LiesOn(d[j - 1], d[j])
    BY <2>1 DEF LiesOn, CallFrom, SameLevel, Alike
  <2> QED BY <2>1, <2>2 DEF Stack, Alike
<1>5. ASSUME NEW i \in 1 .. n, NEW j \in 1 .. n, d[i].th = d[j].th, i <= j
      PROVE  d[i].level <= d[j].level /\ \A k \in i .. j : d[k].th = d[i].th
  <2>1. i \in 1 .. Len(c) /\ j \in 1 .. Len(c) /\ \A k \in i .. j : k \in 1 .. n
    BY <1>1
  <2>2. c[i].th = c[j].th
    BY <1>2, <1>5 DEF Alike
  <2>3. c[i].level <= c[j].level /\ \A k \in i .. j : c[k].th = c[i].th
    BY <1>5, <2>1, <2>2 DEF Stack
  <2> QED BY <1>2, <2>1, <2>3 DEF Alike
<1> QED BY <1>1, <1>2, <1>3, <1>4, <1>5 DEF Stack

\* One more activation of the running thread.
LEMMA PushStack ==
  ASSUME NEW c \in Seq(Activation), Stack(c), NEW d,
         NEW a \in Activation, Pushed(c, d, a),
         a.th = c[Len(c)].th, a.fn # "lua_resume", LiesOn(c[Len(c)], a),
         a.fn = "f_parser" =>
           Len(c) > 2 /\ c[Len(c) - 1].fn = "luaD_protectedparser"
  PROVE  Stack(d) /\ d \in Seq(Activation)
<1> DEFINE n == Len(c)
<1>1. /\ n \in Nat \ {0} /\ Len(d) = n + 1 /\ d # <<>>
      /\ d \in Seq(Activation) /\ d[n + 1] = a
      /\ \A i \in 1 .. n : d[i] = c[i]
  BY StackParts, EmptySeq DEF Pushed
<1>2. /\ c[n] \in Activation /\ c[n].level \in Nat /\ a.level \in Nat
      /\ c[n].fn = "lua_resume" => c[n].level = 0
  BY <1>1, StackParts, ActivationFields
<1>3. c[n].level <= a.level
  BY <1>2, LiesAbove DEF Base
<1>4. ASSUME NEW j \in 2 .. n + 1
      PROVE  /\ (d[j].fn = "lua_resume") <=> (d[j].th # d[j - 1].th)
             /\ IF d[j].fn = "lua_resume"
                THEN UsesApi(d[j - 1]) /\ d[j].level = 0
                ELSE LiesOn(d[j - 1], d[j])
             /\ d[j].fn = "f_parser" =>
                  j > 3 /\ d[j - 2].fn = "luaD_protectedparser"
  <2>1. CASE j = n + 1
    BY <1>1, <2>1
  <2>2. CASE j # n + 1
    <3>1. /\ j \in 2 .. n /\ d[j] = c[j] /\ d[j - 1] = c[j - 1]
          /\ j > 3 => d[j - 2] = c[j - 2]
      BY <1>1, <2>2
    <3> QED BY <3>1 DEF Stack
  <2> QED BY <2>1, <2>2
<1>5. ASSUME NEW i \in 1 .. n + 1, NEW j \in 1 .. n + 1, d[i].th = d[j].th, i <= j
      PROVE  d[i].level <= d[j].level /\ \A k \in i .. j : d[k].th = d[i].th
  <2>1. CASE j # n + 1
    <3>1. i \in 1 .. n /\ j \in 1 .. n /\ \A k \in i .. j : k \in 1 .. n
      BY <1>1, <1>5, <2>1
    <3>2. c[i].th = c[j].th
      BY <1>1, <1>5, <3>1
    <3>3. c[i].level <= c[j].level /\ \A k \in i .. j : c[k].th = c[i].th
      BY <1>5, <3>1, <3>2 DEF Stack
    <3> QED BY <1>1, <3>1, <3>3
  <2>2. CASE j = n + 1 /\ i = n + 1
    BY <1>1, <1>2, <2>2
  <2>3. CASE j = n + 1 /\ i # n + 1
    <3>1. i \in 1 .. n /\ i <= n /\ n \in 1 .. n
      BY <1>1, <2>3
    <3>2. c[i].th = c[n].th
      BY <1>1, <1>5, <2>3, <3>1
    <3>3. c[i].level <= c[n].level /\ \A k \in i .. n : c[k].th = c[i].th
      BY <3>1, <3>2 DEF Stack
    <3>4. c[i].level \in Nat
      BY <3>1, StackParts
    <3> QED BY <1>1, <1>2, <1>3, <2>3, <3>1, <3>2, <3>3, <3>4
  <2> QED BY <2>1, <2>2, <2>3
<1> QED BY <1>1, <1>4, <1>5 DEF Stack

\* A coroutine begins a part of its own.
LEMMA PushResumeStack ==
  ASSUME NEW c \in Seq(Activation), Stack(c), NEW d,
         NEW a \in Activation, Pushed(c, d, a),
         a.fn = "lua_resume", a.level = 0, UsesApi(c[Len(c)]),
         \A i \in 1 .. Len(c) : c[i].th # a.th
  PROVE  Stack(d) /\ d \in Seq(Activation)
<1> DEFINE n == Len(c)
<1>1. /\ n \in Nat \ {0} /\ Len(d) = n + 1 /\ d # <<>>
      /\ d \in Seq(Activation) /\ d[n + 1] = a
      /\ \A i \in 1 .. n : d[i] = c[i]
  BY StackParts, EmptySeq DEF Pushed
<1>4. ASSUME NEW j \in 2 .. n + 1
      PROVE  /\ (d[j].fn = "lua_resume") <=> (d[j].th # d[j - 1].th)
             /\ IF d[j].fn = "lua_resume"
                THEN UsesApi(d[j - 1]) /\ d[j].level = 0
                ELSE LiesOn(d[j - 1], d[j])
             /\ d[j].fn = "f_parser" =>
                  j > 3 /\ d[j - 2].fn = "luaD_protectedparser"
  <2>1. CASE j = n + 1
    BY <1>1, <2>1
  <2>2. CASE j # n + 1
    <3>1. /\ j \in 2 .. n /\ d[j] = c[j] /\ d[j - 1] = c[j - 1]
          /\ j > 3 => d[j - 2] = c[j - 2]
      BY <1>1, <2>2
    <3> QED BY <3>1 DEF Stack
  <2> QED BY <2>1, <2>2
<1>5. ASSUME NEW i \in 1 .. n + 1, NEW j \in 1 .. n + 1, d[i].th = d[j].th, i <= j
      PROVE  d[i].level <= d[j].level /\ \A k \in i .. j : d[k].th = d[i].th
  <2>1. CASE j # n + 1
    <3>1. i \in 1 .. n /\ j \in 1 .. n /\ \A k \in i .. j : k \in 1 .. n
      BY <1>1, <1>5, <2>1
    <3>2. c[i].th = c[j].th
      BY <1>1, <1>5, <3>1
    <3>3. c[i].level <= c[j].level /\ \A k \in i .. j : c[k].th = c[i].th
      BY <1>5, <3>1, <3>2 DEF Stack
    <3> QED BY <1>1, <3>1, <3>3
  <2>2. CASE j = n + 1
    <3>1. i = n + 1
      BY <1>1, <1>5, <2>2
    <3> QED BY <1>1, <2>2, <3>1
  <2> QED BY <2>1, <2>2
<1> QED BY <1>1, <1>4, <1>5 DEF Stack

-----------------------------------------------------------------------------
(* What is counted in the C stack.                                         *)

\* Two stacks are alike up to their n-th activation.
AlikeTo(c, d, n) == \A i \in 1 .. n : Alike(c[i], d[i])

\* The same activations count the same.
LEMMA SameCounts ==
  ASSUME NEW c, NEW d, NEW n \in Nat, AlikeTo(c, d, n), NEW t
  PROVE  /\ CCallsIn(c, n) = CCallsIn(d, n)
         /\ NnyIn(c, t, n) = NnyIn(d, t, n)
         /\ AsideOf(c, t, n) = AsideOf(d, t, n)
         /\ PcallsOf(c, t, n) = PcallsOf(d, t, n)
<1>1. \A i \in 1 .. n : c[i].fn = d[i].fn /\ c[i].th = d[i].th
  BY DEF Alike, AlikeTo
<1>2. {i \in 1 .. n : c[i].fn \in {"luaD_call", "lua_resume"}}
        = {i \in 1 .. n : d[i].fn \in {"luaD_call", "lua_resume"}}
  BY <1>1
<1>3. \A i \in 1 .. n : (c[i].th = t /\ Bars(c[i])) <=> (d[i].th = t /\ Bars(d[i]))
  BY DEF Alike, Bars, AlikeTo
<1>4. {i \in 1 .. n : c[i].th = t /\ Bars(c[i])}
        = {i \in 1 .. n : d[i].th = t /\ Bars(d[i])}
  BY <1>3
<1>5. PcallsOf(c, t, n) = PcallsOf(d, t, n)
  BY <1>1 DEF PcallsOf
<1>6. AsideOf(c, t, n) = AsideOf(d, t, n)
  BY <1>1 DEF AsideOf
<1> QED BY <1>2, <1>4, <1>5, <1>6 DEF CCallsIn, NnyIn

\* Sets of positions are finite.
LEMMA PositionsFinite ==
  ASSUME NEW n \in Nat, NEW S \in SUBSET (1 .. n)
  PROVE  IsFiniteSet(S) /\ Cardinality(S) \in Nat
<1>1. IsFiniteSet(1 .. n)
  BY FS_Interval
<1>2. IsFiniteSet(S)
  BY <1>1, FS_Subset
<1> QED BY <1>2, FS_CardinalityType

\* The counts are natural numbers, and the next activation adds to them.
LEMMA NextCounts ==
  ASSUME NEW c, NEW n \in Nat
  PROVE  /\ CCallsIn(c, n) \in Nat
         /\ CCallsIn(c, n + 1) =
              IF c[n + 1].fn \in {"luaD_call", "lua_resume"}
              THEN CCallsIn(c, n) + 1 ELSE CCallsIn(c, n)
         /\ \A t : /\ NnyIn(c, t, n) \in Nat
                   /\ NnyIn(c, t, n + 1) =
                        IF c[n + 1].th = t /\ Bars(c[n + 1])
                        THEN NnyIn(c, t, n) + 1 ELSE NnyIn(c, t, n)
<1> DEFINE C == {i \in 1 .. n : c[i].fn \in {"luaD_call", "lua_resume"}}
           CC == {i \in 1 .. n + 1 : c[i].fn \in {"luaD_call", "lua_resume"}}
<1>1. CCallsIn(c, n) = Cardinality(C) /\ CCallsIn(c, n + 1) = Cardinality(CC)
  BY DEF CCallsIn
<1>2. IsFiniteSet(C) /\ Cardinality(C) \in Nat /\ n + 1 \notin C
  <2>1. C \in SUBSET (1 .. n) /\ n + 1 \notin C
    OBVIOUS
  <2> HIDE DEF C
  <2> QED BY <2>1, PositionsFinite
<1>3. /\ CCallsIn(c, n) \in Nat
      /\ CCallsIn(c, n + 1) =
           IF c[n + 1].fn \in {"luaD_call", "lua_resume"}
           THEN CCallsIn(c, n) + 1 ELSE CCallsIn(c, n)
  <2>1. CASE c[n + 1].fn \in {"luaD_call", "lua_resume"}
    <3>1. CC = C \cup {n + 1}
      BY <2>1
    <3> HIDE DEF C, CC
    <3> QED BY <1>1, <1>2, <2>1, <3>1, FS_AddElement
  <2>2. CASE c[n + 1].fn \notin {"luaD_call", "lua_resume"}
    <3>1. CC = C
      BY <2>2
    <3> HIDE DEF C, CC
    <3> QED BY <1>1, <1>2, <2>2, <3>1
  <2> QED BY <2>1, <2>2
<1>4. ASSUME NEW t
      PROVE  /\ NnyIn(c, t, n) \in Nat
             /\ NnyIn(c, t, n + 1) =
                  IF c[n + 1].th = t /\ Bars(c[n + 1])
                  THEN NnyIn(c, t, n) + 1 ELSE NnyIn(c, t, n)
  <2> DEFINE B == {i \in 1 .. n : c[i].th = t /\ Bars(c[i])}
             BB == {i \in 1 .. n + 1 : c[i].th = t /\ Bars(c[i])}
             one == IF t = MainThread THEN 1 ELSE 0
  <2>1. NnyIn(c, t, n) = Cardinality(B) + one /\ NnyIn(c, t, n + 1) = Cardinality(BB) + one
    BY DEF NnyIn
  <2>2. IsFiniteSet(B) /\ Cardinality(B) \in Nat /\ n + 1 \notin B
    <3>1. B \in SUBSET (1 .. n) /\ n + 1 \notin B
      OBVIOUS
    <3> HIDE DEF B
    <3> QED BY <3>1, PositionsFinite
  <2>3. CASE c[n + 1].th = t /\ Bars(c[n + 1])
    <3>1. BB = B \cup {n + 1}
      BY <2>3
    <3> HIDE DEF B, BB
    <3>2. Cardinality(BB) = Cardinality(B) + 1
      BY <2>2, <3>1, FS_AddElement
    <3> QED BY <2>1, <2>2, <2>3, <3>2
  <2>4. CASE ~(c[n + 1].th = t /\ Bars(c[n + 1]))
    <3>1. BB = B
      BY <2>4
    <3> HIDE DEF B, BB
    <3> QED BY <2>1, <2>2, <2>4, <3>1
  <2> QED BY <2>3, <2>4
<1> QED BY <1>3, <1>4

\* Activations of other threads count nothing for t.
LEMMA OthersCountNothing ==
  ASSUME NEW c, NEW t, NEW n \in Nat, NEW m \in 0 .. n,
         \A i \in m + 1 .. n : c[i].th # t
  PROVE  /\ NnyIn(c, t, n) = NnyIn(c, t, m)
         /\ AsideOf(c, t, n) = AsideOf(c, t, m)
         /\ PcallsOf(c, t, n) = PcallsOf(c, t, m)
<1>1. \A i \in 1 .. n : c[i].th = t => i \in 1 .. m
  OBVIOUS
<1>2. \A i \in 1 .. m : i \in 1 .. n
  OBVIOUS
<1>3. {i \in 1 .. n : c[i].th = t /\ Bars(c[i])}
        = {i \in 1 .. m : c[i].th = t /\ Bars(c[i])}
  BY <1>1, <1>2
<1> QED BY <1>1, <1>2, <1>3 DEF NnyIn, AsideOf, PcallsOf

\* Where a yield is allowed, there is nothing it must not drop.
LEMMA NothingBarred ==
  ASSUME NEW c, NEW t, NEW n \in Nat, NnyIn(c, t, n) = 0
  PROVE  t # MainThread /\ \A i \in 1 .. n : c[i].th = t => ~Bars(c[i])
<1> DEFINE B == {i \in 1 .. n : c[i].th = t /\ Bars(c[i])}
<1>1. IsFiniteSet(B) /\ Cardinality(B) \in Nat
  BY PositionsFinite
<1>2. NnyIn(c, t, n) = Cardinality(B) + (IF t = MainThread THEN 1 ELSE 0)
  BY DEF NnyIn
<1>3. Cardinality(B) = 0 /\ t # MainThread
  BY <1>1, <1>2
<1>4. B = {}
  BY <1>1, <1>3, FS_EmptySet
<1> QED BY <1>3, <1>4

\* A thread that is not counted yet.
LEMMA NothingCounted ==
  ASSUME NEW c, NEW t, NEW n \in Nat, t # MainThread,
         \A i \in 1 .. n : c[i].th = t => ~Bars(c[i])
  PROVE  NnyIn(c, t, n) = 0
<1>1. {i \in 1 .. n : c[i].th = t /\ Bars(c[i])} = {}
  OBVIOUS
<1> QED BY <1>1, FS_EmptySet DEF NnyIn

-----------------------------------------------------------------------------
(* Threads on the C stack.                                                 *)

\* A part of the stack begins with the host or with a lua_resume.
LEMMA PartBegins ==
  ASSUME NEW c \in Seq(Activation), Stack(c), NEW i \in 1 .. Len(c)
  PROVE  \/ c[i].th = MainThread
         \/ \E j \in 1 .. i : c[j].fn = "lua_resume" /\ c[j].th = c[i].th
<1> DEFINE S == {j \in Nat : j \in 1 .. i /\ c[j].th = c[i].th}
<1>1. S \subseteq Nat /\ i \in S /\ \A j \in S : j \in 1 .. i /\ c[j].th = c[i].th
  BY StackParts
<1>2. \A j \in Nat : j \in 1 .. i /\ c[j].th = c[i].th => j \in S
  OBVIOUS
<1> HIDE DEF S
<1>3. PICK m \in S : \A k \in S : ~(<<k, m>> \in OpToRel(<, Nat))
  BY <1>1, NatLessThanWellFounded, WFMin
<1>4. \A k \in S : ~(k < m)
  BY <1>1, <1>3 DEF OpToRel
<1>5. CASE m = 1
  BY <1>1, <1>5, StackParts
<1>6. CASE m # 1
  <2>1. m \in 2 .. Len(c) /\ m - 1 \in 1 .. i /\ m - 1 < m /\ m - 1 \in Nat
    BY <1>1, <1>6, StackParts
  <2>2. m - 1 \notin S
    BY <1>4, <2>1
  <2>3. c[m - 1].th # c[m].th
    BY <1>1, <1>2, <2>1, <2>2
  <2>4. c[m].fn = "lua_resume"
    BY <2>1, <2>3 DEF Stack
  <2> QED BY <1>1, <2>4
<1> QED BY <1>5, <1>6

\* A thread with an activation is on the stack, with one lua_resume at most.
LEMMA OnTheStack ==
  ASSUME NEW c \in Seq(Activation), Stack(c), NEW i \in 1 .. Len(c)
  PROVE  IsOn(c, c[i].th)
<1>1. CASE c[i].th = MainThread
  BY <1>1 DEF IsOn
<1>2. CASE \E j \in 1 .. i : c[j].fn = "lua_resume" /\ c[j].th = c[i].th
  <2>1. PICK j \in 1 .. i : c[j].fn = "lua_resume" /\ c[j].th = c[i].th
    BY <1>2
  <2>2. j \in ResumesOf(c, c[i].th)
    BY <2>1, StackParts DEF ResumesOf
  <2> QED BY <2>2 DEF IsOn
<1> QED BY <1>1, <1>2, PartBegins

\* A lua_resume is the first activation of its thread, and not the host's.
LEMMA ResumeIsFirst ==
  ASSUME NEW c \in Seq(Activation), Stack(c), NEW k \in 1 .. Len(c),
         c[k].fn = "lua_resume"
  PROVE  /\ k \in 2 .. Len(c) /\ c[k].th # MainThread
         /\ \A i \in 1 .. k - 1 : c[i].th # c[k].th
<1>1. k \in 2 .. Len(c)
  BY StackParts
<1>2. ASSUME NEW i \in 1 .. k - 1, c[i].th = c[k].th
      PROVE  FALSE
  BY <1>2, SameThread
<1>3. c[1].th = MainThread /\ 1 \in 1 .. k - 1
  BY <1>1, StackParts
<1> QED BY <1>1, <1>2, <1>3

\* A thread that waits for another one has no activation above its own part.
LEMMA WaitsBelow ==
  ASSUME NEW c \in Seq(Activation), Stack(c),
         NEW k \in 2 .. Len(c), c[k].fn = "lua_resume",
         NEW i \in k .. Len(c)
  PROVE  c[i].th # c[k - 1].th
<1>1. c[k].th # c[k - 1].th
  BY DEF Stack
<1>2. k - 1 \in 1 .. Len(c) /\ i \in 1 .. Len(c) /\ k \in k - 1 .. i /\ k - 1 <= i
  BY StackParts
<1>3. c[k - 1].th = c[i].th => c[k].th = c[k - 1].th
  BY <1>2 DEF Stack
<1> QED BY <1>1, <1>3

\* What is above the last activation of another thread, or of the same one.
LEMMA AboveCut ==
  ASSUME NEW c \in Seq(Activation), Stack(c), NEW n \in 1 .. Len(c),
         n < Len(c) => c[n + 1].th = c[Len(c)].th
  PROVE  \A i \in n + 1 .. Len(c) : c[i].th = c[Len(c)].th
<1> SUFFICES ASSUME NEW i \in n + 1 .. Len(c)
             PROVE  c[i].th = c[Len(c)].th
  OBVIOUS
<1>1. /\ n + 1 \in 1 .. Len(c) /\ Len(c) \in 1 .. Len(c) /\ n + 1 <= Len(c)
      /\ i \in n + 1 .. Len(c) /\ n < Len(c)
  BY StackParts
<1>2. c[n + 1].th = c[Len(c)].th
  BY <1>1
<1> QED BY <1>1, <1>2 DEF Stack

\* The threads on the stack, when activations of the running one are dropped.
LEMMA CutOn ==
  ASSUME NEW c \in Seq(Activation), Stack(c), NEW d, NEW n, Cut(c, d, n),
         n < Len(c) => c[n + 1].th = c[Len(c)].th
  PROVE  /\ \A t : t # c[Len(c)].th => ResumesOf(d, t) = ResumesOf(c, t)
         /\ \A t : ResumesOf(d, t) \subseteq ResumesOf(c, t)
         /\ c[n].th = c[Len(c)].th => ResumesOf(d, c[n].th) = ResumesOf(c, c[n].th)
<1>1. /\ Len(d) = n /\ n \in 1 .. Len(c) /\ Len(c) \in Nat
      /\ \A i \in 1 .. n : c[i].fn = d[i].fn /\ c[i].th = d[i].th
  BY StackParts, CutStack DEF Cut, Alike
<1>2. \A i \in 1 .. Len(c) : i \notin 1 .. n => c[i].th = c[Len(c)].th
  BY <1>1, AboveCut, SMTT(30)
<1>3. \A t : ResumesOf(d, t) \subseteq ResumesOf(c, t)
  BY <1>1 DEF ResumesOf
<1>4. ASSUME NEW t, t # c[Len(c)].th
      PROVE  ResumesOf(c, t) \subseteq ResumesOf(d, t)
  BY <1>1, <1>2, <1>4 DEF ResumesOf
<1>5. ASSUME c[n].th = c[Len(c)].th
      PROVE  ResumesOf(c, c[n].th) \subseteq ResumesOf(d, c[n].th)
  <2>1. ASSUME NEW k \in 1 .. Len(c), k \notin 1 .. n, c[k].fn = "lua_resume"
        PROVE  c[k].th # c[n].th
    <3>1. n \in 1 .. k - 1
      BY <1>1, <2>1
    <3> QED BY <2>1, <3>1, ResumeIsFirst
  <2> QED BY <1>1, <2>1 DEF ResumesOf
<1>6. \A t : t # c[Len(c)].th => ResumesOf(d, t) = ResumesOf(c, t)
  <2>1. ASSUME NEW t, t # c[Len(c)].th
        PROVE  ResumesOf(d, t) = ResumesOf(c, t)
    <3>1. ResumesOf(d, t) \subseteq ResumesOf(c, t)
      BY <1>3
    <3>2. ResumesOf(c, t) \subseteq ResumesOf(d, t)
      BY <1>4, <2>1
    <3> QED BY <3>1, <3>2
  <2> QED BY <2>1
<1>7. c[n].th = c[Len(c)].th => ResumesOf(d, c[n].th) = ResumesOf(c, c[n].th)
  <2>1. ResumesOf(d, c[n].th) \subseteq ResumesOf(c, c[n].th)
    BY <1>3
  <2> QED BY <1>5, <2>1
<1> QED BY <1>3, <1>6, <1>7

\* And when one is pushed.
LEMMA PushOn ==
  ASSUME NEW c \in Seq(Activation), NEW d, NEW a, Pushed(c, d, a)
  PROVE  /\ \A t : a.fn = "lua_resume" /\ a.th = t =>
                  ResumesOf(d, t) = ResumesOf(c, t) \cup {Len(c) + 1}
         /\ \A t : ~(a.fn = "lua_resume" /\ a.th = t) =>
                  ResumesOf(d, t) = ResumesOf(c, t)
<1>1. /\ Len(c) \in Nat /\ Len(d) = Len(c) + 1 /\ d[Len(c) + 1] = a
      /\ \A i \in 1 .. Len(c) : d[i] = c[i]
  BY DEF Pushed
<1>2. \A i : i \in 1 .. Len(d) <=> i \in 1 .. Len(c) \/ i = Len(c) + 1
  BY <1>1
<1>3. ASSUME NEW t, a.fn = "lua_resume" /\ a.th = t
      PROVE  ResumesOf(d, t) = ResumesOf(c, t) \cup {Len(c) + 1}
  BY <1>1, <1>2, <1>3 DEF ResumesOf
<1>4. ASSUME NEW t, ~(a.fn = "lua_resume" /\ a.th = t)
      PROVE  ResumesOf(d, t) = ResumesOf(c, t)
  BY <1>1, <1>2, <1>4 DEF ResumesOf
<1> QED BY <1>3, <1>4

\* The functions g and h, or the sets, differ for thread t only.
OnlyFor(t, g, h) == \A u \in Thread : u # t => g[u] = h[u]
\* The sets differ for thread t only.
OnlySetFor(t, S, T) == \A u \in Thread : u # t => (u \in S <=> u \in T)

-----------------------------------------------------------------------------
(* What activations have saved, and the bound of the stack.                *)

\* Dropping activations changes nothing that those below have saved.
LEMMA CutSaved ==
  ASSUME NEW c \in Seq(Activation), Stack(c), AllSaved(c),
         NEW d, NEW n, Cut(c, d, n)
  PROVE  AllSaved(d)
<1>1. /\ Len(d) = n /\ n \in 1 .. Len(c) /\ n \in Nat /\ Len(c) \in Nat
      /\ \A i \in 1 .. n : Alike(c[i], d[i])
  BY StackParts, CutStack DEF Cut
<1> SUFFICES ASSUME NEW j \in 1 .. n
             PROVE  Saved(d, j)
  BY <1>1 DEF AllSaved
<1>0. j \in Nat /\ AlikeTo(c, d, j) /\ j - 1 \in Nat /\ AlikeTo(c, d, j - 1)
  BY <1>1 DEF AlikeTo
<1>2. /\ CCallsIn(c, j) = CCallsIn(d, j)
      /\ \A t : NnyIn(c, t, j) = NnyIn(d, t, j)
  BY <1>0, SameCounts
<1>3. \A t : AsideOf(c, t, j - 1) = AsideOf(d, t, j - 1)
  BY <1>0, SameCounts
<1>4. Saved(c, j) /\ Alike(c[j], d[j])
  BY <1>1 DEF AllSaved
<1> QED BY <1>2, <1>3, <1>4 DEF Saved, Alike

\* A pushed activation changes nothing that those below have saved.
LEMMA PushSaved ==
  ASSUME NEW c \in Seq(Activation), AllSaved(c),
         NEW d, NEW a, Pushed(c, d, a), Saved(d, Len(c) + 1)
  PROVE  AllSaved(d)
<1>1. /\ Len(d) = Len(c) + 1 /\ Len(c) \in Nat
      /\ \A i \in 1 .. Len(c) : d[i] = c[i] /\ Alike(c[i], d[i])
  BY DEF Pushed, Alike
<1> SUFFICES ASSUME NEW j \in 1 .. Len(c) + 1
             PROVE  Saved(d, j)
  BY <1>1 DEF AllSaved
<1>2. CASE j = Len(c) + 1
  BY <1>2
<1>3. CASE j \in 1 .. Len(c)
  <2>1. j \in Nat /\ AlikeTo(c, d, j) /\ j - 1 \in Nat /\ AlikeTo(c, d, j - 1)
    BY <1>1, <1>3 DEF AlikeTo
  <2>2. /\ CCallsIn(c, j) = CCallsIn(d, j)
        /\ \A t : NnyIn(c, t, j) = NnyIn(d, t, j)
    BY <2>1, SameCounts
  <2>3. \A t : AsideOf(c, t, j - 1) = AsideOf(d, t, j - 1)
    BY <2>1, SameCounts
  <2>4. Saved(c, j) /\ d[j] = c[j]
    BY <1>1, <1>3 DEF AllSaved
  <2> QED BY <2>2, <2>3, <2>4 DEF Saved
<1> QED BY <1>1, <1>2, <1>3

\* The counts in a stack and in the beginning of it.
LEMMA CutCounts ==
  ASSUME NEW c \in Seq(Activation), Stack(c), NEW d, NEW n, Cut(c, d, n)
  PROVE  /\ CCallsIn(d, n) = CCallsIn(c, n)
         /\ \A t : /\ NnyIn(d, t, n) = NnyIn(c, t, n)
                   /\ AsideOf(d, t, n) = AsideOf(c, t, n)
                   /\ PcallsOf(d, t, n) = PcallsOf(c, t, n)
<1>1. n \in Nat /\ \A i \in 1 .. n : Alike(c[i], d[i])
  BY StackParts, CutStack DEF Cut
<1>2. AlikeTo(c, d, n)
  BY <1>1 DEF AlikeTo
<1> QED BY <1>1, <1>2, SameCounts

\* The same for the activations up to another one.
LEMMA CutCountsAt ==
  ASSUME NEW c \in Seq(Activation), Stack(c), NEW d, NEW n, Cut(c, d, n),
         NEW j \in 0 .. n
  PROVE  \A t : PcallsOf(d, t, j) = PcallsOf(c, t, j)
<1>1. n \in Nat /\ \A i \in 1 .. n : Alike(c[i], d[i])
  BY StackParts, CutStack DEF Cut
<1>2. j \in Nat /\ AlikeTo(c, d, j)
  BY <1>1 DEF AlikeTo
<1> QED BY <1>2, SameCounts

\* Counts of luaD_pcall below a position stay when one is pushed.
LEMMA PushCountsAt ==
  ASSUME NEW c \in Seq(Activation), NEW d, NEW a, Pushed(c, d, a),
         NEW j \in 0 .. Len(c)
  PROVE  \A t : PcallsOf(d, t, j) = PcallsOf(c, t, j)
<1>1. j \in Nat /\ AlikeTo(c, d, j)
  BY DEF Pushed, Alike, AlikeTo
<1> QED BY <1>1, SameCounts

\* The counts in a stack and in one with another activation.
LEMMA PushCounts ==
  ASSUME NEW c \in Seq(Activation), NEW d, NEW a, Pushed(c, d, a)
  PROVE  /\ CCallsIn(d, Len(c)) = CCallsIn(c, Len(c))
         /\ CCallsIn(c, Len(c)) \in Nat
         /\ CCallsIn(d, Len(c) + 1) =
              IF a.fn \in {"luaD_call", "lua_resume"}
              THEN CCallsIn(c, Len(c)) + 1 ELSE CCallsIn(c, Len(c))
         /\ \A t : /\ NnyIn(d, t, Len(c)) = NnyIn(c, t, Len(c))
                   /\ NnyIn(c, t, Len(c)) \in Nat
                   /\ NnyIn(d, t, Len(c) + 1) =
                        IF a.th = t /\ Bars(a)
                        THEN NnyIn(c, t, Len(c)) + 1 ELSE NnyIn(c, t, Len(c))
                   /\ AsideOf(d, t, Len(c)) = AsideOf(c, t, Len(c))
                   /\ PcallsOf(d, t, Len(c)) = PcallsOf(c, t, Len(c))
<1>1. /\ Len(c) \in Nat /\ d[Len(c) + 1] = a
      /\ AlikeTo(d, c, Len(c))
  BY DEF Pushed, Alike, AlikeTo
<1>2. /\ CCallsIn(d, Len(c)) = CCallsIn(c, Len(c))
      /\ \A t : /\ NnyIn(d, t, Len(c)) = NnyIn(c, t, Len(c))
                /\ AsideOf(d, t, Len(c)) = AsideOf(c, t, Len(c))
                /\ PcallsOf(d, t, Len(c)) = PcallsOf(c, t, Len(c))
  BY <1>1, SameCounts
<1> QED BY <1>1, <1>2, NextCounts

\* What a pushed activation adds to the hooks and protected calls of a thread.
LEMMA PushSets ==
  ASSUME NEW c \in Seq(Activation), NEW d, NEW a, Pushed(c, d, a), NEW t
  PROVE  /\ IF a.fn \in {"hook", "GCTM"} /\ a.th = t
            THEN AsideOf(d, t, Len(c) + 1) # {}
            ELSE AsideOf(d, t, Len(c) + 1) = AsideOf(c, t, Len(c))
         /\ ~(a.fn = "luaD_pcall" /\ a.th = t) =>
              PcallsOf(d, t, Len(c) + 1) = PcallsOf(c, t, Len(c))
<1>1. /\ Len(c) \in Nat /\ d[Len(c) + 1] = a
      /\ \A i \in 1 .. Len(c) : d[i] = c[i]
  BY DEF Pushed
<1>2. \A i : i \in 1 .. Len(c) + 1 <=> i \in 1 .. Len(c) \/ i = Len(c) + 1
  BY <1>1
<1>3. ~(a.fn = "luaD_pcall" /\ a.th = t) =>
        PcallsOf(d, t, Len(c) + 1) = PcallsOf(c, t, Len(c))
  BY <1>1, <1>2 DEF PcallsOf
<1>4. IF a.fn \in {"hook", "GCTM"} /\ a.th = t
      THEN AsideOf(d, t, Len(c) + 1) # {}
      ELSE AsideOf(d, t, Len(c) + 1) = AsideOf(c, t, Len(c))
  BY <1>1, <1>2 DEF AsideOf
<1> QED BY <1>3, <1>4

\* There is room for what is not a call that waits for its limit.
LEMMA NotFull ==
  ASSUME NEW c \in Seq(Activation), Stack(c), StackBounded(c), ~Waits(c[Len(c)])
  PROVE  CCallsIn(c, Len(c)) < ErrorCCalls
BY StackParts DEF StackBounded

\* A cut leaves the stack bounded.
LEMMA CutBounded ==
  ASSUME NEW c \in Seq(Activation), Stack(c), StackBounded(c),
         NEW d, NEW n, Cut(c, d, n),
         n < Len(c) \/ CCallsIn(c, n) < ErrorCCalls
  PROVE  StackBounded(d)
<1>1. /\ Len(d) = n /\ n \in 1 .. Len(c) /\ n \in Nat /\ Len(c) \in Nat
      /\ \A i \in 1 .. n : Alike(c[i], d[i])
  BY StackParts, CutStack DEF Cut
<1> SUFFICES ASSUME NEW j \in 1 .. n
             PROVE  CCallsIn(d, j) < ErrorCCalls
  BY <1>1 DEF StackBounded
<1>2. CCallsIn(c, j) = CCallsIn(d, j)
  <2>1. j \in Nat /\ AlikeTo(c, d, j)
    BY <1>1 DEF AlikeTo
  <2> QED BY <2>1, SameCounts
<1>3. CCallsIn(c, j) < ErrorCCalls
  BY <1>1 DEF StackBounded
<1> QED BY <1>2, <1>3

\* So does a push when there is room for one more call.
LEMMA PushBounded ==
  ASSUME NEW c \in Seq(Activation), Stack(c), StackBounded(c),
         CCallsIn(c, Len(c)) < ErrorCCalls,
         NEW d, NEW a, Pushed(c, d, a),
         a.fn \in {"luaD_call", "lua_resume"} =>
           Waits(a) \/ CCallsIn(c, Len(c)) + 1 < ErrorCCalls
  PROVE  StackBounded(d)
<1>1. /\ Len(d) = Len(c) + 1 /\ Len(c) \in Nat /\ d[Len(c) + 1] = a
      /\ \A i \in 1 .. Len(c) : d[i] = c[i] /\ Alike(c[i], d[i])
  BY DEF Pushed, Alike
<1> SUFFICES ASSUME NEW j \in 1 .. Len(c) + 1
             PROVE  \/ CCallsIn(d, j) < ErrorCCalls
                    \/ CCallsIn(d, j) = ErrorCCalls /\ j = Len(d) /\ Waits(d[j])
  BY <1>1 DEF StackBounded
<1>2. CASE j = Len(c) + 1
  BY <1>1, <1>2, PushCounts, LimitAssumption
<1>3. CASE j \in 1 .. Len(c)
  <2>1. CCallsIn(c, j) = CCallsIn(d, j)
    <3>1. j \in Nat /\ AlikeTo(c, d, j)
      BY <1>1, <1>3 DEF AlikeTo
    <3> QED BY <3>1, SameCounts
  <2> QED BY <1>1, <1>3, <2>1 DEF StackBounded
<1> QED BY <1>1, <1>2, <1>3

-----------------------------------------------------------------------------
(* The counters, and whether hooks are allowed.                            *)

\* nCcalls, when activations of the running thread are dropped.
LEMMA CutCalls ==
  ASSUME NEW c \in Seq(Activation), Stack(c), NEW nc, CallsCounted(c, nc),
         NEW d, NEW n, Cut(c, d, n),
         NEW nc2, OnlyFor(c[Len(c)].th, nc2, nc),
         nc2[c[n].th] = CCallsIn(c, n)
  PROVE  CallsCounted(d, nc2)
<1> USE DEF OnlyFor
<1>1. /\ Len(d) = n /\ n \in 1 .. Len(c) /\ n \in Nat /\ Len(c) \in Nat
      /\ \A i \in 1 .. n : Alike(c[i], d[i])
  BY StackParts, CutStack DEF Cut
<1>2. nc2[d[n].th] = CCallsIn(d, n)
  <2>1. n \in Nat /\ AlikeTo(c, d, n) /\ c[n].th = d[n].th
    BY <1>1 DEF AlikeTo, Alike
  <2>2. CCallsIn(c, n) = CCallsIn(d, n)
    BY <2>1, SameCounts
  <2> QED BY <1>1, <2>1, <2>2
<1>3. ASSUME NEW j \in 2 .. n, d[j].fn = "lua_resume"
      PROVE  nc2[d[j - 1].th] = CCallsIn(d, j - 1)
  <2>1. /\ j \in 2 .. Len(c) /\ j - 1 \in Nat /\ j - 1 \in 1 .. n /\ j \in 1 .. n
        /\ Len(c) \in j .. Len(c) /\ j - 1 \in 1 .. Len(c)
    BY <1>1
  <2>2. c[j].fn = "lua_resume" /\ c[j - 1].th = d[j - 1].th
    BY <1>1, <1>3, <2>1 DEF Alike
  <2>3. c[j - 1].th # c[Len(c)].th /\ c[j - 1].th \in Thread
    BY <2>1, <2>2, WaitsBelow, StackParts
  <2>4. CCallsIn(d, j - 1) = CCallsIn(c, j - 1)
    <3>1. AlikeTo(c, d, j - 1)
      BY <1>1, <2>1 DEF AlikeTo
    <3> QED BY <2>1, <3>1, SameCounts
  <2> QED BY <2>1, <2>2, <2>3, <2>4 DEF CallsCounted
<1> QED BY <1>1, <1>2, <1>3 DEF CallsCounted

\* nCcalls, when an activation is pushed.
LEMMA PushCalls ==
  ASSUME NEW c \in Seq(Activation), Stack(c), NEW nc, CallsCounted(c, nc),
         NEW d, NEW a, Pushed(c, d, a), Stack(d),
         NEW nc2, OnlyFor(a.th, nc2, nc),
         nc2[a.th] = CCallsIn(d, Len(c) + 1)
  PROVE  CallsCounted(d, nc2)
<1> USE DEF OnlyFor
<1>1. /\ Len(d) = Len(c) + 1 /\ Len(c) \in Nat /\ d[Len(c) + 1] = a
      /\ d \in Seq(Activation)
      /\ \A i \in 1 .. Len(c) : d[i] = c[i] /\ Alike(c[i], d[i])
  BY DEF Pushed, Alike
<1>2. ASSUME NEW j \in 2 .. Len(d), d[j].fn = "lua_resume"
      PROVE  nc2[d[j - 1].th] = CCallsIn(d, j - 1)
  <2>1. j - 1 \in Nat /\ j - 1 \in 1 .. Len(c) /\ Len(d) \in j .. Len(d)
    BY <1>1
  <2>2. d[j - 1].th # a.th
    BY <1>1, <1>2, <2>1, WaitsBelow
  <2>3. nc2[d[j - 1].th] = nc[c[j - 1].th]
    BY <1>1, <2>1, <2>2, StackParts
  <2>4. CCallsIn(d, j - 1) = CCallsIn(c, j - 1)
    <3>1. AlikeTo(c, d, j - 1)
      BY <1>1, <2>1 DEF AlikeTo
    <3> QED BY <2>1, <3>1, SameCounts
  <2>5. nc[c[j - 1].th] = CCallsIn(c, j - 1)
    <3>1. CASE j = Len(c) + 1
      BY <3>1, <1>1 DEF CallsCounted
    <3>2. CASE j \in 2 .. Len(c)
      BY <3>2, <1>1, <1>2 DEF CallsCounted
    <3> QED BY <1>1, <3>1, <3>2
  <2> QED BY <2>3, <2>4, <2>5
<1> QED BY <1>1, <1>2 DEF CallsCounted

\* nny, when activations of the running thread are dropped.
LEMMA CutNny ==
  ASSUME NEW c \in Seq(Activation), Stack(c), NEW ny, NnyCounted(c, ny),
         NEW d, NEW n, Cut(c, d, n),
         n < Len(c) => c[n + 1].th = c[Len(c)].th,
         NEW ny2, OnlyFor(c[Len(c)].th, ny2, ny),
         ny2[c[Len(c)].th] =
           IF c[n].th = c[Len(c)].th THEN NnyIn(c, c[Len(c)].th, n) ELSE 1
  PROVE  NnyCounted(d, ny2)
<1> USE DEF OnlyFor
<1>1. /\ Len(d) = n /\ n \in 1 .. Len(c) /\ n \in Nat /\ Len(c) \in Nat
      /\ d \in Seq(Activation) /\ Stack(d)
      /\ \A i \in 1 .. n : Alike(c[i], d[i])
  BY StackParts, CutStack DEF Cut
<1>2. \A t : NnyIn(d, t, n) = NnyIn(c, t, n)
  BY CutCounts
<1> SUFFICES ASSUME NEW t \in Thread
             PROVE  ny2[t] = IF IsOn(d, t) THEN NnyIn(d, t, n) ELSE 1
  BY <1>1 DEF NnyCounted
<1>3. CASE t # c[Len(c)].th
  <2>1. IsOn(d, t) <=> IsOn(c, t)
    BY <1>3, CutOn DEF IsOn
  <2>2. \A i \in n + 1 .. Len(c) : c[i].th # t
    BY <1>1, <1>3, AboveCut
  <2>3. NnyIn(c, t, Len(c)) = NnyIn(c, t, n)
    BY <1>1, <2>2, OthersCountNothing
  <2>4. ny[t] = IF IsOn(c, t) THEN NnyIn(c, t, Len(c)) ELSE 1
    BY DEF NnyCounted
  <2> QED BY <1>2, <1>3, <2>1, <2>3, <2>4
<1>4. CASE t = c[Len(c)].th /\ c[n].th = t
  <2>1. n \in 1 .. Len(d) /\ d[n].th = t
    BY <1>1, <1>4 DEF Alike
  <2>2. IsOn(d, t)
    BY <1>1, <2>1, OnTheStack
  <2> QED BY <1>2, <1>4, <2>2
<1>5. CASE t = c[Len(c)].th /\ c[n].th # t
  <2>1. /\ n < Len(c) /\ c[n + 1].th = t /\ n + 1 \in 2 .. Len(c)
        /\ (n + 1) - 1 = n
    BY <1>1, <1>5
  <2>2. c[n + 1].fn = "lua_resume"
    BY <1>5, <2>1 DEF Stack
  <2>3. t # MainThread /\ \A i \in 1 .. n : c[i].th # t
    BY <1>1, <2>1, <2>2, ResumeIsFirst
  <2>4. ResumesOf(d, t) = {}
    BY <1>1, <2>3 DEF ResumesOf, Alike
  <2> QED BY <1>5, <2>3, <2>4 DEF IsOn
<1> QED BY <1>3, <1>4, <1>5

\* nny, when an activation is pushed.
LEMMA PushNny ==
  ASSUME NEW c \in Seq(Activation), Stack(c), NEW ny, NnyCounted(c, ny),
         NEW d, NEW a, Pushed(c, d, a), Stack(d),
         NEW ny2, OnlyFor(a.th, ny2, ny),
         ny2[a.th] = NnyIn(d, a.th, Len(c) + 1)
  PROVE  NnyCounted(d, ny2)
<1> USE DEF OnlyFor
<1>1. /\ Len(d) = Len(c) + 1 /\ Len(c) \in Nat /\ d[Len(c) + 1] = a
      /\ d \in Seq(Activation)
  BY DEF Pushed
<1> SUFFICES ASSUME NEW t \in Thread
             PROVE  ny2[t] = IF IsOn(d, t) THEN NnyIn(d, t, Len(c) + 1) ELSE 1
  BY <1>1 DEF NnyCounted
<1>2. CASE t = a.th
  <2>1. IsOn(d, t)
    BY <1>1, <1>2, OnTheStack
  <2> QED BY <1>2, <2>1
<1>3. CASE t # a.th
  <2>1. IsOn(d, t) <=> IsOn(c, t)
    BY <1>3, PushOn DEF IsOn
  <2>2. NnyIn(d, t, Len(c) + 1) = NnyIn(c, t, Len(c))
    BY <1>3, PushCounts
  <2> QED BY <1>3, <2>1, <2>2 DEF NnyCounted
<1> QED BY <1>2, <1>3

\* allowhook, when activations of the running thread are dropped.
LEMMA CutHooks ==
  ASSUME NEW c \in Seq(Activation), Stack(c), NEW st, NEW ah, HooksRight(c, st, ah),
         NEW d, NEW n, Cut(c, d, n),
         n < Len(c) => c[n + 1].th = c[Len(c)].th,
         NEW st2, NEW ah2,
         OnlyFor(c[Len(c)].th, st2, st), OnlyFor(c[Len(c)].th, ah2, ah),
         ~errorstatus(st2[c[Len(c)].th]) =>
           (ah2[c[Len(c)].th] <=> AsideOf(c, c[Len(c)].th, n) = {})
  PROVE  HooksRight(d, st2, ah2)
<1> USE DEF OnlyFor
<1>1. /\ Len(d) = n /\ n \in 1 .. Len(c) /\ n \in Nat /\ Len(c) \in Nat
      /\ \A i \in 1 .. n : Alike(c[i], d[i])
  BY StackParts, CutStack DEF Cut
<1>2. \A t : AsideOf(d, t, n) = AsideOf(c, t, n)
  BY CutCounts
<1> SUFFICES ASSUME NEW t \in Thread, ~errorstatus(st2[t])
             PROVE  ah2[t] <=> AsideOf(d, t, n) = {}
  BY <1>1 DEF HooksRight
<1>3. CASE t = c[Len(c)].th
  BY <1>2, <1>3
<1>4. CASE t # c[Len(c)].th
  <2>1. \A i \in n + 1 .. Len(c) : c[i].th # t
    BY <1>1, <1>4, AboveCut
  <2>2. AsideOf(c, t, Len(c)) = AsideOf(c, t, n)
    BY <1>1, <2>1, OthersCountNothing
  <2>3. ~errorstatus(st[t]) /\ ah2[t] = ah[t]
    BY <1>4
  <2> QED BY <1>2, <2>2, <2>3 DEF HooksRight
<1> QED BY <1>3, <1>4

\* allowhook, when an activation is pushed.
LEMMA PushHooks ==
  ASSUME NEW c \in Seq(Activation), NEW st, NEW ah, HooksRight(c, st, ah),
         NEW d, NEW a, Pushed(c, d, a), NEW st2, NEW ah2,
         OnlyFor(a.th, st2, st), OnlyFor(a.th, ah2, ah),
         ~errorstatus(st2[a.th]) => (ah2[a.th] <=> AsideOf(d, a.th, Len(c) + 1) = {})
  PROVE  HooksRight(d, st2, ah2)
<1> USE DEF OnlyFor
<1>1. Len(d) = Len(c) + 1 /\ Len(c) \in Nat
  BY DEF Pushed
<1> SUFFICES ASSUME NEW t \in Thread, ~errorstatus(st2[t]), t # a.th
             PROVE  ah2[t] <=> AsideOf(d, t, Len(c) + 1) = {}
  BY <1>1 DEF HooksRight
<1>2. AsideOf(d, t, Len(c) + 1) = AsideOf(c, t, Len(c))
  BY PushSets
<1>3. ~errorstatus(st[t]) /\ ah2[t] = ah[t]
  OBVIOUS
<1> QED BY <1>2, <1>3 DEF HooksRight

-----------------------------------------------------------------------------
(* Frames.                                                                 *)

\* Frames of one kind: a C function, or a Lua function with the same 'fresh'.
SameKind(g, h) == g.lua = h.lua /\ (g.lua => g.fresh = h.fresh)

\* The first n frames are of the same kind.
KindsUpTo(g, h, n) == \A i \in 1 .. n : SameKind(g[i], h[i])

\* luaV_execute, started at a level, runs the frames from there.
ExecutesFrom(g, level) ==
  \A i \in level .. Len(g) : g[i].lua /\ (g[i].fresh <=> i = level)

\* Where an activation stands among the frames of its thread.
LEMMA LevelsRight ==
  ASSUME NEW c \in Seq(Activation), Stack(c),
         NEW f \in [Thread -> Seq(CallInfo)], Frames(c, f), NEW n \in 1 .. Len(c)
  PROVE  /\ LastFrame(c, f, n) \in Nat /\ Len(f[c[n].th]) \in Nat
         /\ c[n].level <= LastFrame(c, f, n)
         /\ LastFrame(c, f, n) <= Len(f[c[n].th])
         /\ c[n].fn \notin {"luaV_execute", "lua_resume"} =>
              c[n].level = LastFrame(c, f, n)
         /\ c[n].fn = "luaV_execute" => c[n].level > 0
         /\ \A j \in 1 .. n : c[j].th = c[n].th =>
              c[j].level \in Nat /\ c[j].level <= LastFrame(c, f, n)
<1>1. /\ n \in Nat /\ Len(c) \in Nat /\ c[n].th \in Thread /\ c[n].level \in Nat
      /\ c[n] \in Activation /\ (c[n].fn = "lua_resume" => c[n].level = 0)
  BY StackParts
<1>2. f[c[n].th] \in Seq(CallInfo) /\ Len(f[c[n].th]) \in Nat
  BY <1>1
<1>3. c[n].level <= Len(f[c[n].th])
  BY DEF Frames
<1>4. /\ LastFrame(c, f, n) \in Nat /\ c[n].level <= LastFrame(c, f, n)
      /\ LastFrame(c, f, n) <= Len(f[c[n].th])
      /\ c[n].fn \notin {"luaV_execute", "lua_resume"} =>
           c[n].level = LastFrame(c, f, n)
  <2>1. CASE LastOfThread(c, n)
    BY <1>1, <1>2, <1>3, <2>1 DEF LastFrame, Frames
  <2>2. CASE ~LastOfThread(c, n)
    <3>1. n < Len(c) /\ c[n + 1].th = c[n].th
      BY <1>1, <2>2 DEF LastOfThread
    <3>2. n + 1 \in 2 .. Len(c) /\ n \in 1 .. (n + 1) - 1 /\ (n + 1) - 1 = n
      BY <1>1, <3>1
    <3>3. /\ c[n + 1].fn # "lua_resume" /\ LiesOn(c[n], c[n + 1])
          /\ Base(c[n + 1]) \in Nat /\ c[n].level <= Base(c[n + 1])
          /\ Base(c[n + 1]) <= c[n + 1].level
      BY <3>1, <3>2, SameThread
    <3>4. c[n + 1] \in Activation /\ c[n + 1].level \in Nat
      BY <3>2, StackParts
    <3>5. c[n].fn \notin {"luaV_execute", "lua_resume"} => c[n].level = Base(c[n + 1])
      BY <1>1, <3>3, <3>4, LiesAbove
    <3>6. c[n + 1].level <= Len(f[c[n].th])
      BY <3>1, <3>2 DEF Frames
    <3>7. LastFrame(c, f, n) = Base(c[n + 1])
      BY <2>2 DEF LastFrame
    <3> QED BY <1>2, <3>3, <3>4, <3>5, <3>6, <3>7
  <2> QED BY <2>1, <2>2
<1>5. c[n].fn = "luaV_execute" => c[n].level > 0
  <2>1. SUFFICES ASSUME c[n].fn = "luaV_execute"
                 PROVE  c[n].level > 0
    OBVIOUS
  <2>2. n # 1
    BY <2>1, StackParts
  <2>3. n \in 2 .. Len(c)
    BY <1>1, <2>2
  <2>4. LiesOn(c[n - 1], c[n])
    BY <2>1, <2>3 DEF Stack
  <2> QED BY <2>1, <2>4 DEF LiesOn
<1>6. ASSUME NEW j \in 1 .. n, c[j].th = c[n].th
      PROVE  c[j].level \in Nat /\ c[j].level <= LastFrame(c, f, n)
  <2>1. j \in 1 .. Len(c) /\ j <= n
    BY <1>1
  <2>2. c[j].level \in Nat /\ c[j].level <= c[n].level
    BY <1>6, <2>1, StackParts DEF Stack
  <2> QED BY <1>1, <1>4, <2>2
<1> QED BY <1>1, <1>2, <1>4, <1>5, <1>6

\* The frames that activation n finds when control comes back to it.
LEMMA CutFrames ==
  ASSUME NEW c \in Seq(Activation), Stack(c),
         NEW f \in [Thread -> Seq(CallInfo)], Frames(c, f),
         NEW d, NEW n, Cut(c, d, n),
         n < Len(c) => c[n + 1].th = c[Len(c)].th,
         NEW f2 \in [Thread -> Seq(CallInfo)],
         OnlyFor(c[Len(c)].th, f2, f),
         c[n].th = c[Len(c)].th =>
           /\ Len(f2[c[n].th]) = LastFrame(c, f, n)
           /\ KindsUpTo(f2[c[n].th], f[c[n].th], LastFrame(c, f, n))
  PROVE  Frames(d, f2)
<1> USE DEF OnlyFor, KindsUpTo
<1>1. /\ Len(d) = n /\ n \in 1 .. Len(c) /\ n \in Nat /\ Len(c) \in Nat
      /\ \A i \in 1 .. n : Alike(c[i], d[i])
  BY StackParts, CutStack DEF Cut
<1> SUFFICES ASSUME NEW j \in 1 .. n
             PROVE  LET a == d[j]
                        frames == f2[a.th]
                    IN  /\ a.level <= Len(frames)
                        /\ LastOfThread(d, j) /\ a.fn \notin {"luaV_execute", "lua_resume"} =>
                             Len(frames) = a.level
                        /\ a.fn = "C" /\ a.level > 0 => ~frames[a.level].lua
                        /\ a.fn = "luaV_execute" =>
                             \A i \in a.level .. LastFrame(d, f2, j) :
                               frames[i].lua /\ (frames[i].fresh <=> i = a.level)
  BY <1>1 DEF Frames
<1> DEFINE t == c[j].th
<1>2. /\ j \in 1 .. Len(c) /\ t \in Thread /\ c[j].level \in Nat
      /\ d[j].th = t /\ d[j].fn = c[j].fn /\ d[j].level = c[j].level
      /\ c[n].th \in Thread
  <2>1. j \in 1 .. Len(c) /\ Alike(c[j], d[j])
    BY <1>1
  <2> QED BY <1>1, <2>1, StackParts DEF Alike
<1>3. /\ c[j].level <= LastFrame(c, f, j) /\ LastFrame(c, f, j) \in Nat
      /\ LastFrame(c, f, j) <= Len(f[t])
      /\ c[j].fn \notin {"luaV_execute", "lua_resume"} =>
           c[j].level = LastFrame(c, f, j)
      /\ c[j].fn = "luaV_execute" => c[j].level > 0
  BY <1>2, LevelsRight
<1>4. /\ LastFrame(d, f2, j) = LastFrame(c, f, j)
      /\ LastFrame(c, f, j) <= Len(f2[t])
      /\ LastOfThread(d, j) => Len(f2[t]) = LastFrame(c, f, j)
      /\ \A i \in 1 .. LastFrame(c, f, j) : SameKind(f2[t][i], f[t][i])
  <2>1. CASE t # c[Len(c)].th
    <3>1. f2[t] = f[t]
      BY <1>2, <2>1
    <3>2. LastOfThread(d, j) <=> LastOfThread(c, j)
      <4>1. CASE j = n
        BY <1>1, <1>2, <2>1, <4>1 DEF LastOfThread
      <4>2. CASE j # n
        BY <1>1, <1>2, <4>2 DEF LastOfThread, Alike
      <4> QED BY <4>1, <4>2
    <3>3. ~LastOfThread(d, j) => Base(d[j + 1]) = Base(c[j + 1])
      BY <1>1 DEF LastOfThread, Alike, Base
    <3> QED BY <1>2, <1>3, <3>1, <3>2, <3>3 DEF LastFrame, SameKind
  <2>2. CASE t = c[Len(c)].th
    <3>1. /\ j \in 1 .. Len(c) /\ Len(c) \in 1 .. Len(c) /\ j <= Len(c)
          /\ n \in j .. Len(c) /\ (j < n => j + 1 \in j .. Len(c))
      BY <1>1, <1>2
    <3>2. c[n].th = t /\ (j < n => c[j + 1].th = t)
      BY <2>2, <3>1, SMTT(30) DEF Stack
    <3>3. CASE j = n
      BY <1>1, <1>2, <1>3, <2>2, <3>2, <3>3 DEF LastFrame, LastOfThread
    <3>4. CASE j < n
      <4>1. ~LastOfThread(c, j) /\ ~LastOfThread(d, j)
        BY <1>1, <1>2, <3>2, <3>4 DEF LastOfThread, Alike
      <4>2. LastFrame(d, f2, j) = Base(c[j + 1]) /\ LastFrame(c, f, j) = Base(c[j + 1])
        BY <1>1, <3>4, <4>1 DEF LastFrame, Alike, Base
      <4>3. j + 1 \in 1 .. n /\ j \in 1 .. (j + 1) - 1 /\ j + 1 \in 1 .. Len(c)
        BY <1>1, <3>4
      <4>4. Base(c[j + 1]) <= c[j + 1].level /\ Base(c[j + 1]) \in Nat
        BY <3>2, <3>4, <4>3, SameThread
      <4>5. c[j + 1].level \in Nat /\ c[j + 1].level <= LastFrame(c, f, n)
        BY <1>1, <3>2, <3>4, <4>3, LevelsRight
      <4>6. LastFrame(c, f, n) \in Nat
        BY <1>1, LevelsRight
      <4> QED BY <2>2, <3>2, <4>1, <4>2, <4>4, <4>5, <4>6
    <3> QED BY <1>1, <3>3, <3>4
  <2> QED BY <2>1, <2>2
<1>5. /\ c[j].fn = "C" /\ c[j].level > 0 => ~f[t][c[j].level].lua
      /\ c[j].fn = "luaV_execute" =>
           \A i \in c[j].level .. LastFrame(c, f, j) :
             f[t][i].lua /\ (f[t][i].fresh <=> i = c[j].level)
  BY <1>2 DEF Frames
<1>6. c[j].fn = "C" /\ c[j].level > 0 => ~f2[t][c[j].level].lua
  BY <1>2, <1>3, <1>4, <1>5 DEF SameKind
<1>7. ASSUME c[j].fn = "luaV_execute", NEW i \in c[j].level .. LastFrame(c, f, j)
      PROVE  f2[t][i].lua /\ (f2[t][i].fresh <=> i = c[j].level)
  <2>1. i \in 1 .. LastFrame(c, f, j)
    BY <1>2, <1>3, <1>7
  <2> QED BY <1>4, <1>5, <1>7, <2>1 DEF SameKind
<1>8. Len(f2[t]) \in Nat
  BY <1>2
<1> QED BY <1>2, <1>3, <1>4, <1>6, <1>7, <1>8

\* What Frames says of the j-th activation.
FrameAt(c, f, j) ==
  LET a == c[j]
      frames == f[a.th]
  IN  /\ a.level <= Len(frames)
      /\ LastOfThread(c, j) /\ a.fn \notin {"luaV_execute", "lua_resume"} =>
           Len(frames) = a.level
      /\ a.fn = "C" /\ a.level > 0 => ~frames[a.level].lua
      /\ a.fn = "luaV_execute" =>
           \A i \in a.level .. LastFrame(c, f, j) :
             frames[i].lua /\ (frames[i].fresh <=> i = a.level)

\* Frames is FrameAt everywhere.
LEMMA FramesAre ==
  ASSUME NEW c, NEW f
  PROVE  Frames(c, f) <=> \A j \in 1 .. Len(c) : FrameAt(c, f, j)
BY Zenon DEF Frames, FrameAt

\* An activation is pushed, for the last frame or for a new one.
LEMMA PushFrames ==
  ASSUME NEW c \in Seq(Activation), Stack(c),
         NEW f \in [Thread -> Seq(CallInfo)], Frames(c, f),
         NEW d, NEW a \in Activation, Pushed(c, d, a), Stack(d),
         a.fn # "lua_resume", a.th = c[Len(c)].th,
         NEW f2 \in [Thread -> Seq(CallInfo)],
         OnlyFor(a.th, f2, f),
         c[Len(c)].fn # "lua_resume" =>
           /\ Base(a) = Len(f[a.th])
           /\ KindsUpTo(f2[a.th], f[a.th], Len(f[a.th])),
         a.level <= Len(f2[a.th]),
         a.fn # "luaV_execute" => a.level = Len(f2[a.th]),
         a.fn = "C" => ~f2[a.th][a.level].lua,
         a.fn = "luaV_execute" => ExecutesFrom(f2[a.th], a.level)
  PROVE  Frames(d, f2)
<1> USE DEF OnlyFor, KindsUpTo, ExecutesFrom
<1> DEFINE n == Len(c)
<1>1. /\ Len(d) = n + 1 /\ n \in Nat \ {0} /\ d[n + 1] = a /\ d \in Seq(Activation)
      /\ \A i \in 1 .. n : d[i] = c[i]
      /\ a.th \in Thread /\ a.level \in Nat /\ Len(f2[a.th]) \in Nat
      /\ n + 1 \in 1 .. Len(d)
  BY StackParts, ActivationFields DEF Pushed
<1>2. LastOfThread(d, n + 1) /\ LastFrame(d, f2, n + 1) = Len(f2[a.th])
  BY <1>1 DEF LastOfThread, LastFrame
<1>a. FrameAt(d, f2, n + 1)
  <2>1. d[n + 1] = a /\ a.level <= Len(f2[a.th])
    BY <1>1
  <2>2. a.fn = "luaV_execute" =>
          \A i \in a.level .. LastFrame(d, f2, n + 1) :
            f2[a.th][i].lua /\ (f2[a.th][i].fresh <=> i = a.level)
    BY <1>2
  <2> QED BY <2>1, <2>2 DEF FrameAt
<1> SUFFICES ASSUME NEW j \in 1 .. n
             PROVE  FrameAt(d, f2, j)
  <2>1. ASSUME NEW j \in 1 .. Len(d), \A i \in 1 .. n : FrameAt(d, f2, i)
        PROVE  FrameAt(d, f2, j)
    <3>1. j \in 1 .. n \/ j = n + 1
      BY <1>1
    <3> QED BY <1>a, <2>1, <3>1
  <2> QED BY <2>1, FramesAre
<1> DEFINE t == c[j].th
<1>3. /\ t \in Thread /\ c[j].level \in Nat /\ d[j] = c[j] /\ j \in 1 .. Len(c)
      /\ j \in Nat /\ n \in 1 .. n
  BY <1>1, StackParts
<1>4. /\ c[j].level <= LastFrame(c, f, j) /\ LastFrame(c, f, j) \in Nat
      /\ LastFrame(c, f, j) <= Len(f[t])
      /\ c[j].fn \notin {"luaV_execute", "lua_resume"} =>
           c[j].level = LastFrame(c, f, j)
      /\ c[j].fn = "luaV_execute" => c[j].level > 0
  BY <1>3, LevelsRight
<1>5. /\ c[j].fn = "C" /\ c[j].level > 0 => ~f[t][c[j].level].lua
      /\ c[j].fn = "luaV_execute" =>
           \A i \in c[j].level .. LastFrame(c, f, j) :
             f[t][i].lua /\ (f[t][i].fresh <=> i = c[j].level)
  BY <1>3 DEF Frames
<1>6. CASE t # a.th
  <2>1. f2[t] = f[t]
    BY <1>3, <1>6
  <2>2. j # n /\ j + 1 \in 1 .. n /\ d[j + 1] = c[j + 1] /\ j # n + 1
    BY <1>1, <1>3, <1>6
  <2>3. LastOfThread(d, j) <=> LastOfThread(c, j)
    BY <1>1, <1>3, <2>2 DEF LastOfThread
  <2>4. LastFrame(d, f2, j) = LastFrame(c, f, j)
    BY <1>1, <1>3, <2>1, <2>2, <2>3 DEF LastFrame
  <2>5. LastOfThread(c, j) => LastFrame(c, f, j) = Len(f[t])
    BY DEF LastFrame
  <2> QED BY <1>3, <1>4, <1>5, <2>1, <2>3, <2>4, <2>5 DEF FrameAt
<1>7. CASE t = a.th /\ c[n].fn # "lua_resume"
  <2>1. /\ d[j + 1].th = t /\ c[n].th = t /\ j + 1 \in 1 .. Len(d) /\ j \in 1 .. Len(d)
        /\ j # Len(d)
    <3>1. j \in 1 .. Len(d) /\ j <= n + 1 /\ j + 1 \in j .. n + 1 /\ j # Len(d)
      BY <1>1, <1>3
    <3>2. d[j].th = d[n + 1].th
      BY <1>1, <1>3, <1>7
    <3>3. d[j + 1].th = d[j].th
      BY <1>1, <3>1, <3>2, SMTT(30) DEF Stack
    <3> QED BY <1>1, <1>3, <1>7, <3>1, <3>3
  <2>2. ~LastOfThread(d, j)
    BY <1>3, <2>1 DEF LastOfThread
  <2>3. LastFrame(d, f2, j) = Base(d[j + 1])
    BY <2>2 DEF LastFrame
  <2>4. LastFrame(c, f, j) = Base(d[j + 1])
    <3>1. CASE j = n
      BY <1>1, <1>7, <3>1 DEF LastFrame, LastOfThread
    <3>2. CASE j # n
      <4>1. j + 1 \in 1 .. n /\ d[j + 1] = c[j + 1]
        BY <1>1, <1>3, <3>2
      <4>2. ~LastOfThread(c, j)
        BY <1>3, <2>1, <4>1 DEF LastOfThread
      <4> QED BY <4>1, <4>2 DEF LastFrame
    <3> QED BY <3>1, <3>2
  <2>5. Len(f[t]) \in Nat /\ Len(f[t]) <= a.level
    BY <1>1, <1>3, <1>7 DEF Base
  <2>6. \A i \in 1 .. LastFrame(c, f, j) : SameKind(f2[t][i], f[t][i])
    BY <1>4, <1>7, <2>5
  <2>7. ASSUME c[j].fn = "C", c[j].level > 0 PROVE ~f2[t][c[j].level].lua
    <3>1. c[j].level \in 1 .. LastFrame(c, f, j)
      BY <1>3, <1>4, <2>7
    <3> QED BY <1>5, <2>6, <2>7, <3>1 DEF SameKind
  <2>8. ASSUME c[j].fn = "luaV_execute", NEW i \in c[j].level .. LastFrame(c, f, j)
        PROVE  f2[t][i].lua /\ (f2[t][i].fresh <=> i = c[j].level)
    <3>1. i \in 1 .. LastFrame(c, f, j)
      BY <1>3, <1>4, <2>8
    <3> QED BY <1>5, <2>6, <2>8, <3>1 DEF SameKind
  <2>9. c[j].level <= Len(f2[t])
    BY <1>1, <1>3, <1>4, <1>7, <2>5
  <2>10. d[j] = c[j] /\ LastFrame(d, f2, j) = LastFrame(c, f, j)
    BY <1>3, <2>3, <2>4
  <2> QED BY <2>2, <2>7, <2>8, <2>9, <2>10 DEF FrameAt
<1>8. CASE t = a.th /\ c[n].fn = "lua_resume"
  <2>1. j = n
    <3>1. \A i \in 1 .. n - 1 : c[i].th # c[n].th
      BY <1>3, <1>8, ResumeIsFirst
    <3>2. j # n => j \in 1 .. n - 1
      BY <1>1, <1>3
    <3> QED BY <1>1, <1>8, <3>1, <3>2
  <2>2. c[j].level = 0 /\ c[j].fn = "lua_resume"
    BY <1>3, <1>8, <2>1, StackParts
  <2> QED BY <1>1, <1>3, <1>8, <2>2 DEF FrameAt
<1> QED BY <1>6, <1>7, <1>8

\* A coroutine is resumed: nothing happens to its frames yet.
LEMMA PushResumeFrames ==
  ASSUME NEW c \in Seq(Activation), Stack(c),
         NEW f \in [Thread -> Seq(CallInfo)], Frames(c, f),
         NEW d, NEW a \in Activation, Pushed(c, d, a), Stack(d), a.fn = "lua_resume"
  PROVE  Frames(d, f)
<1> DEFINE n == Len(c)
<1>1. /\ Len(d) = n + 1 /\ n \in Nat \ {0} /\ d[n + 1] = a /\ d \in Seq(Activation)
      /\ \A i \in 1 .. n : d[i] = c[i]
      /\ a.th \in Thread /\ n + 1 \in 1 .. Len(d) /\ (n + 1) - 1 = n
  BY StackParts, ActivationFields DEF Pushed
<1>2. a.level = 0 /\ \A i \in 1 .. n : c[i].th # a.th
  BY <1>1, StackParts, ResumeIsFirst, SMTT(30)
<1>3. ASSUME NEW j \in 1 .. n
      PROVE  LastFrame(d, f, j) = LastFrame(c, f, j) /\ (LastOfThread(d, j) <=> LastOfThread(c, j))
  <2>1. CASE j = n
    BY <1>1, <1>2, <2>1 DEF LastFrame, LastOfThread
  <2>2. CASE j # n
    <3>1. /\ j + 1 \in 1 .. n /\ d[j + 1] = c[j + 1] /\ d[j] = c[j]
          /\ j # n + 1
      BY <1>1, <2>2
    <3> QED BY <1>1, <2>2, <3>1 DEF LastFrame, LastOfThread
  <2> QED BY <2>1, <2>2
<1>4. Len(f[a.th]) \in Nat
  BY <1>1
<1> QED BY <1>1, <1>2, <1>3, <1>4, SMTT(30) DEF Frames

\* luaV_execute goes on to a frame behind its own, or back from one.
LEMMA ExecuteFrames ==
  ASSUME NEW c \in Seq(Activation), Stack(c),
         NEW f \in [Thread -> Seq(CallInfo)], Frames(c, f),
         c[Len(c)].fn = "luaV_execute",
         NEW f2 \in [Thread -> Seq(CallInfo)],
         OnlyFor(c[Len(c)].th, f2, f),
         KindsUpTo(f2[c[Len(c)].th], f[c[Len(c)].th], c[Len(c)].level),
         c[Len(c)].level <= Len(f2[c[Len(c)].th]),
         ExecutesFrom(f2[c[Len(c)].th], c[Len(c)].level)
  PROVE  Frames(c, f2)
<1> USE DEF OnlyFor, KindsUpTo, ExecutesFrom
<1> DEFINE n == Len(c)
           L0 == c[n].th
<1>1. n \in Nat \ {0} /\ n \in 1 .. n /\ L0 \in Thread /\ c[n].level \in Nat
  BY StackParts
<1>2. Len(f2[L0]) \in Nat
  BY <1>1
<1> SUFFICES ASSUME NEW j \in 1 .. n
             PROVE  LET e == c[j]
                        frames == f2[e.th]
                    IN  /\ e.level <= Len(frames)
                        /\ LastOfThread(c, j) /\ e.fn \notin {"luaV_execute", "lua_resume"} =>
                             Len(frames) = e.level
                        /\ e.fn = "C" /\ e.level > 0 => ~frames[e.level].lua
                        /\ e.fn = "luaV_execute" =>
                             \A i \in e.level .. LastFrame(c, f2, j) :
                               frames[i].lua /\ (frames[i].fresh <=> i = e.level)
  BY DEF Frames
<1> DEFINE t == c[j].th
<1>3. /\ t \in Thread /\ c[j].level \in Nat /\ j \in Nat
      /\ c[j].fn \notin {"luaV_execute", "lua_resume"} =>
           c[j].level = LastFrame(c, f, j)
      /\ c[j].fn = "luaV_execute" => c[j].level > 0
      /\ c[j].level <= LastFrame(c, f, j)
  <2>1. t \in Thread /\ c[j].level \in Nat /\ j \in Nat
    BY <1>1, StackParts
  <2> QED BY <2>1, LevelsRight
<1>4. /\ c[j].level <= Len(f[t])
      /\ c[j].fn = "C" /\ c[j].level > 0 => ~f[t][c[j].level].lua
      /\ c[j].fn = "luaV_execute" =>
           \A i \in c[j].level .. LastFrame(c, f, j) :
             f[t][i].lua /\ (f[t][i].fresh <=> i = c[j].level)
      /\ LastOfThread(c, j) /\ c[j].fn \notin {"luaV_execute", "lua_resume"} =>
           Len(f[t]) = c[j].level
  BY DEF Frames
<1>5. CASE t # L0
  <2>1. f2[t] = f[t]
    BY <1>3, <1>5
  <2> QED BY <1>4, <2>1 DEF LastFrame
<1>6. CASE j = n
  BY <1>1, <1>6 DEF LastFrame, LastOfThread
<1>7. CASE t = L0 /\ j # n
  <2>1. /\ j < n /\ j + 1 \in 1 .. n /\ j \in 1 .. (j + 1) - 1
        /\ j + 1 \in j .. n /\ j <= n
    BY <1>1, <1>3, <1>7
  <2>2. c[j + 1].th = t
    BY <1>1, <1>7, <2>1 DEF Stack
  <2>3. /\ ~LastOfThread(c, j) /\ LastFrame(c, f, j) = Base(c[j + 1])
        /\ LastFrame(c, f2, j) = Base(c[j + 1])
    BY <2>1, <2>2 DEF LastOfThread, LastFrame
  <2>4. Base(c[j + 1]) <= c[j + 1].level /\ Base(c[j + 1]) \in Nat
    BY <2>1, <2>2, SameThread
  <2>5. c[j + 1].level <= c[n].level /\ c[j + 1].level \in Nat
    BY <1>1, <1>7, <2>1, <2>2, StackParts, SMTT(30) DEF Stack
  <2>6. \A i \in 1 .. LastFrame(c, f, j) : SameKind(f2[t][i], f[t][i])
    BY <1>1, <1>7, <2>3, <2>4, <2>5, SMTT(30)
  <2>7. c[j].fn = "C" /\ c[j].level > 0 => ~f2[t][c[j].level].lua
    BY <1>3, <1>4, <2>6 DEF SameKind
  <2>8. ASSUME c[j].fn = "luaV_execute", NEW i \in c[j].level .. LastFrame(c, f, j)
        PROVE  f2[t][i].lua /\ (f2[t][i].fresh <=> i = c[j].level)
    <3>1. i \in 1 .. LastFrame(c, f, j)
      BY <1>3, <2>3, <2>4, <2>8
    <3> QED BY <1>4, <2>6, <2>8, <3>1 DEF SameKind
  <2>9. c[j].level <= Len(f2[t])
    BY <1>1, <1>2, <1>3, <1>7, <2>3, <2>4, <2>5
  <2> QED BY <2>3, <2>7, <2>8, <2>9
<1> QED BY <1>5, <1>6, <1>7

-----------------------------------------------------------------------------
(* Calls that can be interrupted.                                          *)

\* The luaD_call a can be interrupted: protected is for what a yield drops.
CanInterrupt(a, frame, protected) ==
  /\ a.level > 0
  /\ frame.lua \/ frame.k = "k"
  /\ a.caller = "pcallk" => ~frame.lua /\ frame.ypcall /\ protected = {}

\* The frames of calls in thread t are the same, and no protected call is new.
CallersKept(c, t, n, f2, f) ==
  \A j \in 1 .. n :
    c[j].th = t /\ c[j].fn = "luaD_call" /\ c[j].level > 0 =>
      f2[c[j].th][c[j].level] = f[c[j].th][c[j].level]
\* Suspended pcalls among the first n frames were there before.
PcallsKept(c, t, n, f2, f) ==
  \A j \in 1 .. n :
    /\ c[j].th = t /\ c[j].fn = "C" /\ c[j].level > 0
    /\ f2[c[j].th][c[j].level].ypcall
    => j < n /\ f[c[j].th][c[j].level].ypcall
\* A new suspended pcall belongs to the activation that is pushed.
PcallAdded(c, a, f2, f) ==
  \A j \in 1 .. Len(c) :
    /\ c[j].th = a.th /\ c[j].fn = "C" /\ c[j].level > 0
    /\ f2[c[j].th][c[j].level].ypcall
    => \/ f[c[j].th][c[j].level].ypcall
       \/ j = Len(c) /\ a.fn = "luaD_call" /\ a.caller = "pcallk"

\* Interruptible calls stay so when activations are dropped.
LEMMA CutInterruptible ==
  ASSUME NEW c \in Seq(Activation), Stack(c), NEW f, Interruptible(c, f),
         NEW d, NEW n, Cut(c, d, n),
         n < Len(c) => c[n + 1].th = c[Len(c)].th,
         NEW f2, OnlyFor(c[Len(c)].th, f2, f),
         CallersKept(c, c[Len(c)].th, n, f2, f),
         PcallsKept(c, c[Len(c)].th, n, f2, f)
  PROVE  Interruptible(d, f2)
<1> USE DEF OnlyFor, CallersKept, PcallsKept
<1>1. /\ Len(d) = n /\ n \in 1 .. Len(c) /\ n \in Nat /\ Len(c) \in Nat
      /\ \A i \in 1 .. n : Alike(c[i], d[i])
  BY StackParts, CutStack DEF Cut
<1>2. ASSUME NEW j \in 1 .. n
      PROVE  /\ j \in 1 .. Len(c) /\ Alike(c[j], d[j]) /\ c[j].th \in Thread
             /\ PcallsOf(d, d[j].th, j) = PcallsOf(c, c[j].th, j)
             /\ d[j].th = c[j].th /\ d[j].level = c[j].level /\ d[j].fn = c[j].fn
             /\ c[j].level \in Nat
  <2>1. /\ j \in 1 .. Len(c) /\ j \in Nat /\ Alike(c[j], d[j])
        /\ \A i \in 1 .. j : Alike(c[i], d[i])
    BY <1>1
  <2>2. \A t : PcallsOf(c, t, j) = PcallsOf(d, t, j)
    BY <1>1, CutCountsAt
  <2> QED BY <2>1, <2>2, StackParts DEF Alike
<1>3. ASSUME NEW j \in 1 .. n, d[j].fn = "luaD_call", ~d[j].noyield
      PROVE  CanInterrupt(d[j], f2[d[j].th][d[j].level], PcallsOf(d, d[j].th, j))
  <2>1. c[j].fn = "luaD_call" /\ ~c[j].noyield /\ c[j].caller = d[j].caller
    BY <1>2, <1>3 DEF Alike
  <2>2. CanInterrupt(c[j], f[c[j].th][c[j].level], PcallsOf(c, c[j].th, j))
    BY <1>2, <2>1 DEF Interruptible, CanInterrupt
  <2>3. f2[c[j].th][c[j].level] = f[c[j].th][c[j].level]
    <3>1. CASE c[j].th # c[Len(c)].th
      BY <1>2, <3>1
    <3>2. CASE c[j].th = c[Len(c)].th
      BY <2>1, <2>2, <3>2 DEF CanInterrupt
    <3> QED BY <3>1, <3>2
  <2> QED BY <1>2, <2>1, <2>2, <2>3 DEF CanInterrupt
<1>4. ASSUME NEW j \in 1 .. n, d[j].fn = "C", d[j].level > 0,
             f2[d[j].th][d[j].level].ypcall
      PROVE  j < n /\ d[j + 1].fn = "luaD_call" /\ d[j + 1].caller = "pcallk"
  <2>1. f[c[j].th][c[j].level].ypcall
    <3>1. CASE c[j].th # c[Len(c)].th
      BY <1>2, <1>4, <3>1
    <3>2. CASE c[j].th = c[Len(c)].th
      BY <1>2, <1>4, <3>2
    <3> QED BY <3>1, <3>2
  <2>2. j < Len(c) /\ c[j + 1].fn = "luaD_call" /\ c[j + 1].caller = "pcallk"
    BY <1>2, <1>4, <2>1 DEF Interruptible
  <2>3. j < n
    <3>1. CASE c[j].th # c[Len(c)].th
      <4>1. SUFFICES ASSUME j = n
                     PROVE  FALSE
        BY <1>1
      <4>2. n + 1 \in 2 .. Len(c) /\ (n + 1) - 1 = n
        BY <1>1, <2>2, <4>1
      <4>3. c[n + 1].fn = "lua_resume"
        BY <2>2, <3>1, <4>1, <4>2 DEF Stack
      <4> QED BY <2>2, <4>1, <4>3
    <3>2. CASE c[j].th = c[Len(c)].th
      BY <1>2, <1>4, <3>2
    <3> QED BY <3>1, <3>2
  <2>4. j + 1 \in 1 .. n
    BY <1>1, <2>3
  <2> QED BY <1>1, <2>2, <2>3, <2>4 DEF Alike
<1> QED BY <1>1, <1>3, <1>4 DEF Interruptible, CanInterrupt

\* They stay so when one is pushed that can itself be interrupted, or cannot.
LEMMA PushInterruptible ==
  ASSUME NEW c \in Seq(Activation), Stack(c), NEW f, Interruptible(c, f),
         NEW d, NEW a \in Activation, Pushed(c, d, a), Stack(d),
         NEW f2, OnlyFor(a.th, f2, f),
         CallersKept(c, a.th, Len(c), f2, f), PcallAdded(c, a, f2, f),
         a.fn = "luaD_call" /\ ~a.noyield =>
           CanInterrupt(a, f2[a.th][a.level], PcallsOf(c, a.th, Len(c))),
         a.fn = "C" => ~f2[a.th][a.level].ypcall
  PROVE  Interruptible(d, f2)
<1> USE DEF OnlyFor, CallersKept, PcallAdded
<1> DEFINE n == Len(c)
<1>1. /\ Len(d) = n + 1 /\ n \in Nat \ {0} /\ d[n + 1] = a /\ d \in Seq(Activation)
      /\ \A i \in 1 .. n : d[i] = c[i] /\ Alike(c[i], d[i])
      /\ a.th \in Thread
  BY StackParts, ActivationFields DEF Pushed, Alike
<1>2. ASSUME NEW j \in 1 .. n
      PROVE  /\ d[j] = c[j] /\ c[j].th \in Thread /\ j \in Nat
             /\ PcallsOf(d, c[j].th, j) = PcallsOf(c, c[j].th, j)
  <2>1. /\ j \in Nat /\ d[j] = c[j] /\ \A i \in 1 .. j : Alike(c[i], d[i])
    BY <1>1
  <2>2. \A t : PcallsOf(c, t, j) = PcallsOf(d, t, j)
    BY <1>1, PushCountsAt
  <2> QED BY <2>1, <2>2, StackParts
<1>3. ASSUME NEW j \in 1 .. n + 1, d[j].fn = "luaD_call", ~d[j].noyield
      PROVE  CanInterrupt(d[j], f2[d[j].th][d[j].level], PcallsOf(d, d[j].th, j))
  <2>1. CASE j = n + 1
    <3>1. PcallsOf(d, a.th, n + 1) = PcallsOf(c, a.th, n)
      BY <1>1, <1>3, <2>1, PushSets
    <3> QED BY <1>1, <1>3, <2>1, <3>1
  <2>2. CASE j \in 1 .. n
    <3>1. c[j].fn = "luaD_call" /\ ~c[j].noyield
      BY <1>2, <1>3, <2>2
    <3>2. CanInterrupt(c[j], f[c[j].th][c[j].level], PcallsOf(c, c[j].th, j))
      BY <2>2, <3>1 DEF Interruptible, CanInterrupt
    <3>3. f2[c[j].th][c[j].level] = f[c[j].th][c[j].level]
      <4>1. CASE c[j].th # a.th
        BY <1>2, <2>2, <4>1
      <4>2. CASE c[j].th = a.th
        BY <2>2, <3>1, <3>2, <4>2 DEF CanInterrupt
      <4> QED BY <4>1, <4>2
    <3> QED BY <1>2, <2>2, <3>2, <3>3
  <2> QED BY <1>1, <2>1, <2>2
<1>4. ASSUME NEW j \in 1 .. n + 1, d[j].fn = "C", d[j].level > 0,
             f2[d[j].th][d[j].level].ypcall
      PROVE  j < n + 1 /\ d[j + 1].fn = "luaD_call" /\ d[j + 1].caller = "pcallk"
  <2>1. CASE j = n + 1
    BY <1>1, <1>4, <2>1
  <2>2. CASE j \in 1 .. n
    <3>1. d[j] = c[j] /\ c[j].th \in Thread
      BY <1>2, <2>2
    <3>2. \/ f[c[j].th][c[j].level].ypcall
          \/ j = n /\ a.fn = "luaD_call" /\ a.caller = "pcallk"
      <4>1. CASE c[j].th # a.th
        BY <1>4, <3>1, <4>1
      <4>2. CASE c[j].th = a.th
        BY <1>4, <2>2, <3>1, <4>2
      <4> QED BY <4>1, <4>2
    <3>3. CASE f[c[j].th][c[j].level].ypcall
      <4>1. j < n /\ c[j + 1].fn = "luaD_call" /\ c[j + 1].caller = "pcallk"
        BY <1>4, <2>2, <3>1, <3>3 DEF Interruptible
      <4>2. j + 1 \in 1 .. n
        BY <1>1, <2>2, <4>1
      <4> QED BY <1>1, <4>1, <4>2
    <3>4. CASE j = n /\ a.fn = "luaD_call" /\ a.caller = "pcallk"
      BY <1>1, <3>4
    <3> QED BY <3>2, <3>3, <3>4
  <2> QED BY <1>1, <2>1, <2>2
<1> QED BY <1>1, <1>3, <1>4 DEF Interruptible, CanInterrupt

-----------------------------------------------------------------------------
(* Continuations.                                                          *)

\* The activations of a thread that a yield must not drop.
LEMMA CutBars ==
  ASSUME NEW c \in Seq(Activation), Stack(c), NEW d, NEW n, Cut(c, d, n),
         n < Len(c) => c[n + 1].th = c[Len(c)].th
  PROVE  /\ \A t : \A q \in BarsOf(d, t) :
              /\ q \in BarsOf(c, t) /\ q \in 1 .. n /\ c[q].level = d[q].level
         /\ \A t : \A q \in BarsOf(c, t) :
              q \in 1 .. n => q \in BarsOf(d, t) /\ c[q].level = d[q].level
         /\ \A t : \A q \in BarsOf(c, t) : t # c[Len(c)].th => q \in 1 .. n
<1>1. /\ Len(d) = n /\ n \in 1 .. Len(c) /\ n \in Nat /\ Len(c) \in Nat
      /\ \A i \in 1 .. n : Alike(c[i], d[i])
  BY StackParts, CutStack DEF Cut
<1>2. \A i \in 1 .. Len(c) : i \notin 1 .. n => c[i].th = c[Len(c)].th
  BY <1>1, AboveCut
<1>3. \A t : \A q \in BarsOf(c, t) : t # c[Len(c)].th => q \in 1 .. n
  BY <1>2 DEF BarsOf
<1>4. ASSUME NEW t, NEW q \in BarsOf(d, t)
      PROVE  q \in BarsOf(c, t) /\ q \in 1 .. n /\ c[q].level = d[q].level
  <2>1. q \in 1 .. n /\ q \in 1 .. Len(c) /\ d[q].th = t /\ Bars(d[q])
    BY <1>1, <1>4 DEF BarsOf
  <2>2. c[q].th = t /\ Bars(c[q]) /\ c[q].level = d[q].level
    BY <1>1, <2>1 DEF Alike, Bars
  <2> QED BY <2>1, <2>2 DEF BarsOf
<1>5. ASSUME NEW t, NEW q \in BarsOf(c, t), q \in 1 .. n
      PROVE  q \in BarsOf(d, t) /\ c[q].level = d[q].level
  <2>1. q \in 1 .. Len(d) /\ c[q].th = t /\ Bars(c[q])
    BY <1>1, <1>5 DEF BarsOf
  <2>2. d[q].th = t /\ Bars(d[q]) /\ c[q].level = d[q].level
    BY <1>1, <1>5, <2>1 DEF Alike, Bars
  <2> QED BY <2>1, <2>2 DEF BarsOf
<1> QED BY <1>3, <1>4, <1>5

\* What a push adds to the activations that a yield must not drop.
LEMMA PushBars ==
  ASSUME NEW c \in Seq(Activation), NEW d, NEW a, Pushed(c, d, a)
  PROVE  /\ \A t : \A q \in BarsOf(d, t) :
              \/ q \in BarsOf(c, t) /\ q \in 1 .. Len(c) /\ d[q] = c[q]
              \/ q = Len(c) + 1 /\ d[q] = a /\ Bars(a) /\ a.th = t
         /\ \A t : \A q \in BarsOf(c, t) : q \in BarsOf(d, t) /\ d[q] = c[q]
         /\ \A t : Bars(a) /\ a.th = t => Len(c) + 1 \in BarsOf(d, t)
         /\ d[Len(c) + 1] = a /\ Len(d) = Len(c) + 1 /\ Len(c) \in Nat
<1>1. /\ Len(c) \in Nat /\ Len(d) = Len(c) + 1 /\ d[Len(c) + 1] = a
      /\ \A i \in 1 .. Len(c) : d[i] = c[i]
  BY DEF Pushed
<1>2. \A i \in 1 .. Len(d) : i \in 1 .. Len(c) \/ i = Len(c) + 1
  BY <1>1
<1> QED BY <1>1, <1>2 DEF BarsOf

\* Frames that are there still, but for a protected call that is over.
SameContinuation(g, h) ==
  /\ g.lua = h.lua
  /\ ~g.lua => g.k = h.k /\ g.oah = h.oah /\ (g.ypcall => h.ypcall)

\* The first n frames have the same continuations.
ContinueUpTo(g, h, n) == \A i \in 1 .. n : SameContinuation(g[i], h[i])

\* The frames of a coroutine that gives up control or is done.
CanEnd(f, st, t) ==
  /\ ~errorstatus(st[t]) =>
       \A i \in NoContinuation(f, t) :
         i = Len(f[t]) /\ (st[t] = "LUA_YIELD" => f[t][i].k = "NULL")
  /\ \A i \in Ypcalls(f[t]) : f[t][i].oah /\ f[t][i].k = "k"

\* The frames below a pushed activation can be continued, or a yield is barred.
CanContinue(c, f, a) ==
  /\ \A i \in NoContinuation(f, a.th) :
       \/ \E q \in BarsOf(c, a.th) : c[q].level = i
       \/ Bars(a) /\ a.level = i
       \/ i = Len(f[a.th])
  /\ \A i \in Ypcalls(f[a.th]) :
       /\ \A q \in BarsOf(c, a.th) : c[q].level >= i
       /\ Bars(a) => a.level >= i
       /\ f[a.th][i].oah /\ f[a.th][i].k = "k"

\* Nothing has changed for the continuations of thread t.
LEMMA OtherContinuations ==
  ASSUME NEW t, NEW c, NEW f, NEW st, ContinuationsOf(c, f, st, t),
         NEW d, NEW f2, NEW st2, f2[t] = f[t], st2[t] = st[t], ~Unrolling(d, t),
         \A q \in BarsOf(d, t) : q \in BarsOf(c, t) /\ c[q].level = d[q].level,
         \A q \in BarsOf(c, t) : q \in BarsOf(d, t) /\ c[q].level = d[q].level
  PROVE  ContinuationsOf(d, f2, st2, t)
<1>1. NoContinuation(f2, t) = NoContinuation(f, t)
  BY DEF NoContinuation
<1>2. SUFFICES ASSUME ~errorstatus(st[t])
               PROVE  /\ \A i \in NoContinuation(f, t) :
                           \/ \E q \in BarsOf(d, t) : d[q].level = i
                           \/ /\ i = Len(f[t])
                              /\ st[t] = "LUA_YIELD" => f[t][i].k = "NULL"
                              /\ ~Unrolling(d, t)
                      /\ \A i \in Ypcalls(f[t]), q \in BarsOf(d, t) : d[q].level >= i
  BY <1>1 DEF ContinuationsOf
<1>3. ASSUME NEW i \in NoContinuation(f, t)
      PROVE  \/ \E q \in BarsOf(d, t) : d[q].level = i
             \/ /\ i = Len(f[t])
                /\ st[t] = "LUA_YIELD" => f[t][i].k = "NULL"
                /\ ~Unrolling(d, t)
  BY <1>2 DEF ContinuationsOf
<1>4. ASSUME NEW i \in Ypcalls(f[t]), NEW q \in BarsOf(d, t)
      PROVE  d[q].level >= i
  BY <1>2 DEF ContinuationsOf
<1> QED BY <1>3, <1>4

\* Continuations, when control comes back to an activation of the thread.
LEMMA CutContinuations ==
  ASSUME NEW c \in Seq(Activation), Stack(c),
         NEW f \in [Thread -> Seq(CallInfo)], Frames(c, f),
         NEW st, Continuations(c, f, st),
         NEW d, NEW n, Cut(c, d, n), c[n].th = c[Len(c)].th,
         c[n].fn = "lua_resume" => n + 1 = Len(c),
         NEW f2 \in [Thread -> Seq(CallInfo)],
         OnlyFor(c[n].th, f2, f),
         Len(f2[c[n].th]) = LastFrame(c, f, n),
         ContinueUpTo(f2[c[n].th], f[c[n].th], LastFrame(c, f, n)),
         st[c[n].th] = "LUA_OK"
  PROVE  Continuations(d, f2, st)
<1> USE DEF OnlyFor, ContinueUpTo
<1> DEFINE t0 == c[n].th
           m == LastFrame(c, f, n)
<1>1. /\ Len(d) = n /\ n \in 1 .. Len(c) /\ n \in Nat /\ Len(c) \in Nat
      /\ \A i \in 1 .. n : Alike(c[i], d[i])
  BY StackParts, CutStack DEF Cut
<1>2. /\ m \in Nat /\ m <= Len(f[t0]) /\ Len(f[t0]) \in Nat
      /\ t0 \in Thread
  BY <1>1, LevelsRight, StackParts
<1>3. n < Len(c) => c[n + 1].th = c[Len(c)].th
  <2>1. Len(c) \in 1 .. Len(c) /\ n <= Len(c) /\ (n < Len(c) => n + 1 \in n .. Len(c))
    BY <1>1
  <2>2. \A k \in n .. Len(c) : c[k].th = c[n].th
    BY <1>1, <2>1, SMTT(30) DEF Stack
  <2> QED BY <2>1, <2>2
<1>4. ASSUME NEW t \in Thread, t # t0
      PROVE  ContinuationsOf(d, f2, st, t)
  <2>1. f2[t] = f[t] /\ NoContinuation(f2, t) = NoContinuation(f, t)
    BY <1>4 DEF NoContinuation
  <2>2. ~Unrolling(d, t)
    BY <1>1, <1>4 DEF Unrolling, Alike
  <2>3. /\ \A q \in BarsOf(d, t) : q \in BarsOf(c, t) /\ c[q].level = d[q].level
        /\ \A q \in BarsOf(c, t) : q \in BarsOf(d, t) /\ c[q].level = d[q].level
    BY <1>3, <1>4, CutBars
  <2> QED BY <2>1, <2>2, <2>3, OtherContinuations DEF Continuations
<1>5. \A i \in NoContinuation(f2, t0) :
        /\ i \in NoContinuation(f, t0) /\ i \in Nat /\ i <= m
  BY <1>1, <1>2 DEF NoContinuation, SameContinuation
<1>6. \A i \in Ypcalls(f2[t0]) :
        /\ i \in Ypcalls(f[t0]) /\ i \in 1 .. m
        /\ f2[t0][i].k = f[t0][i].k /\ f2[t0][i].oah = f[t0][i].oah
  <2>1. f2[t0] \in Seq(CallInfo) /\ f[t0] \in Seq(CallInfo)
    BY <1>2
  <2>2. DOMAIN f2[t0] = 1 .. m /\ \A i \in 1 .. m : i \in DOMAIN f[t0]
    BY <1>2, <2>1, LenProperties
  <2> QED BY <2>2 DEF Ypcalls, SameContinuation
<1>7. ASSUME NEW i \in NoContinuation(f2, t0)
      PROVE  \/ \E q \in BarsOf(d, t0) : d[q].level = i
             \/ /\ i = Len(f2[t0])
                /\ st[t0] = "LUA_YIELD" => f2[t0][i].k = "NULL"
                /\ ~Unrolling(d, t0)
  <2>1. \/ \E q \in BarsOf(c, t0) : c[q].level = i
        \/ i = Len(f[t0])
    BY <1>2, <1>5, SMTT(30) DEF Continuations, ContinuationsOf, errorstatus, Errors
  <2>2. ~Unrolling(d, t0)
    <3>1. SUFFICES ASSUME Unrolling(d, t0)
                   PROVE  FALSE
      OBVIOUS
    <3>2. c[n].fn = "lua_resume" /\ n + 1 = Len(c)
      BY <1>1, <3>1 DEF Unrolling, Alike
    <3>3. /\ n + 1 \in 2 .. Len(c) /\ n \in 1 .. (n + 1) - 1 /\ (n + 1) - 1 = n
          /\ c[n + 1].th = t0 /\ n + 1 \in 1 .. Len(c)
      BY <1>1, <3>2
    <3>4. LiesOn(c[n], c[n + 1])
      BY <3>3, SameThread
    <3>5. c[n + 1].fn \in {"C", "luaV_execute"}
      BY <3>2, <3>4 DEF LiesOn, CallFrom, UsesApi, RunsCode, Waits
    <3>6. c[n + 1].level \in Nat /\ c[n + 1].level <= Len(f[t0])
      BY <3>3, StackParts DEF Frames
    <3>7. m = c[n + 1].level - 1
      BY <1>1, <3>2, <3>3, <3>5 DEF LastFrame, LastOfThread, Base
    <3>8. ASSUME NEW q \in BarsOf(c, t0)
          PROVE  FALSE
      <4>1. q \in 1 .. Len(c) /\ c[q].th = t0 /\ Bars(c[q])
        BY DEF BarsOf
      <4>2. q \notin 1 .. n - 1
        BY <1>1, <3>2, <4>1, ResumeIsFirst
      <4>3. q = n \/ q = n + 1
        BY <1>1, <3>2, <4>1, <4>2
      <4> QED BY <3>2, <3>5, <4>1, <4>3 DEF Bars
    <3> QED BY <1>2, <1>5, <2>1, <3>6, <3>7, <3>8
  <2>3. ASSUME NEW q \in BarsOf(c, t0), c[q].level = i, q \notin 1 .. n
        PROVE  i = m
    <3>1. /\ q \in 1 .. Len(c) /\ q > n /\ n < Len(c) /\ c[q].th = t0
          /\ n + 1 \in 1 .. Len(c) /\ n + 1 <= q /\ n \in 1 .. (n + 1) - 1
      BY <1>1, <2>3 DEF BarsOf
    <3>2. c[n + 1].th = t0
      BY <1>3, <3>1
    <3>3. Base(c[n + 1]) <= c[n + 1].level /\ Base(c[n + 1]) \in Nat
      BY <3>1, <3>2, SameThread
    <3>4. c[n + 1].level <= c[q].level /\ c[n + 1].level \in Nat
      BY <3>1, <3>2, StackParts, SMTT(40) DEF Stack
    <3>5. m = Base(c[n + 1])
      BY <1>1, <3>1, <3>2 DEF LastFrame, LastOfThread
    <3> QED BY <1>2, <1>5, <2>3, <3>3, <3>4, <3>5
  <2>4. i <= m /\ i \in Nat
    BY <1>5
  <2>5. CASE i = m
    BY <2>2, <2>5, <1>1
  <2>6. CASE i # m
    <3>1. PICK q \in BarsOf(c, t0) : c[q].level = i
      BY <1>2, <2>1, <2>4, <2>6
    <3>2. q \in 1 .. n
      BY <2>3, <2>6, <3>1
    <3> QED BY <1>3, <3>1, <3>2, CutBars
  <2> QED BY <2>5, <2>6
<1>8. \A i \in Ypcalls(f2[t0]), q \in BarsOf(d, t0) : d[q].level >= i
  <2>1. \A i \in Ypcalls(f[t0]), q \in BarsOf(c, t0) : c[q].level >= i
    BY <1>2 DEF Continuations, ContinuationsOf, errorstatus, Errors
  <2>2. \A q \in BarsOf(d, t0) : q \in BarsOf(c, t0) /\ c[q].level = d[q].level
    BY <1>3, CutBars
  <2> QED BY <1>6, <2>1, <2>2
<1>9. \A i \in Ypcalls(f2[t0]) : f2[t0][i].oah /\ f2[t0][i].k = "k"
  BY <1>2, <1>6 DEF Continuations, ContinuationsOf
<1>10. ContinuationsOf(d, f2, st, t0)
  BY <1>7, <1>8, <1>9 DEF ContinuationsOf
<1> QED BY <1>4, <1>10 DEF Continuations

\* A coroutine gives up control, or is done.
LEMMA EndContinuations ==
  ASSUME NEW c \in Seq(Activation), Stack(c),
         NEW f, NEW st, Continuations(c, f, st),
         NEW d, NEW n, Cut(c, d, n), n < Len(c),
         c[n + 1].fn = "lua_resume", c[n + 1].th = c[Len(c)].th,
         NEW f2, NEW st2,
         OnlyFor(c[Len(c)].th, f2, f), OnlyFor(c[Len(c)].th, st2, st),
         CanEnd(f2, st2, c[Len(c)].th)
  PROVE  Continuations(d, f2, st2)
<1> USE DEF OnlyFor, CanEnd
<1> DEFINE t0 == c[Len(c)].th
<1>1. /\ Len(d) = n /\ n \in 1 .. Len(c) /\ n \in Nat /\ Len(c) \in Nat
      /\ \A i \in 1 .. n : Alike(c[i], d[i])
  BY StackParts, CutStack DEF Cut
<1>2. n + 1 \in 2 .. Len(c) /\ (n + 1) - 1 = n /\ n + 1 \in 1 .. Len(c)
  BY <1>1
<1>3. \A t : ~Unrolling(d, t)
  <2>1. UsesApi(c[n])
    BY <1>2 DEF Stack
  <2> QED BY <1>1, <2>1 DEF Unrolling, UsesApi, Alike
<1>4. ASSUME NEW t \in Thread, t # t0
      PROVE  ContinuationsOf(d, f2, st2, t)
  <2>1. f2[t] = f[t] /\ st2[t] = st[t] /\ NoContinuation(f2, t) = NoContinuation(f, t)
    BY <1>4 DEF NoContinuation
  <2>2. ~Unrolling(d, t)
    BY <1>3
  <2>3. /\ \A q \in BarsOf(d, t) : q \in BarsOf(c, t) /\ c[q].level = d[q].level
        /\ \A q \in BarsOf(c, t) : q \in BarsOf(d, t) /\ c[q].level = d[q].level
    BY <1>4, CutBars
  <2> QED BY <2>1, <2>2, <2>3, OtherContinuations DEF Continuations
<1>5. BarsOf(d, t0) = {}
  <2>1. \A i \in 1 .. n : c[i].th # t0
    BY <1>2, ResumeIsFirst
  <2> QED BY <1>1, <2>1 DEF BarsOf, Alike
<1>6. ContinuationsOf(d, f2, st2, t0)
  BY <1>3, <1>5 DEF ContinuationsOf
<1> QED BY <1>4, <1>6 DEF Continuations

\* An activation is pushed on one of the same thread.
LEMMA PushContinuations ==
  ASSUME NEW c \in Seq(Activation),
         NEW f, NEW st, Continuations(c, f, st),
         NEW d, NEW a, Pushed(c, d, a), a.fn # "lua_resume",
         NEW f2, NEW st2,
         OnlyFor(a.th, f2, f), OnlyFor(a.th, st2, st),
         st2[a.th] # "LUA_YIELD",
         CanContinue(c, f2, a)
  PROVE  Continuations(d, f2, st2)
<1> USE DEF OnlyFor, CanContinue
<1>1. \A t : ~Unrolling(d, t)
  BY PushBars DEF Unrolling
<1>2. ASSUME NEW t \in Thread, t # a.th
      PROVE  ContinuationsOf(d, f2, st2, t)
  <2>1. f2[t] = f[t] /\ st2[t] = st[t] /\ NoContinuation(f2, t) = NoContinuation(f, t)
    BY <1>2 DEF NoContinuation
  <2>2. ~Unrolling(d, t)
    BY <1>1
  <2>3. /\ \A q \in BarsOf(d, t) : q \in BarsOf(c, t) /\ d[q] = c[q]
        /\ \A q \in BarsOf(c, t) : q \in BarsOf(d, t) /\ d[q] = c[q]
    BY <1>2, PushBars
  <2> QED BY <2>1, <2>2, <2>3, OtherContinuations DEF Continuations
<1>3. ASSUME NEW i \in NoContinuation(f2, a.th)
      PROVE  \/ \E q \in BarsOf(d, a.th) : d[q].level = i
             \/ i = Len(f2[a.th])
  BY <1>3, PushBars
<1>4. \A i \in Ypcalls(f2[a.th]), q \in BarsOf(d, a.th) : d[q].level >= i
  BY PushBars
<1>5. ContinuationsOf(d, f2, st2, a.th)
  BY <1>1, <1>3, <1>4 DEF ContinuationsOf
<1> QED BY <1>2, <1>5 DEF Continuations

\* A coroutine is resumed: nothing happens to its frames yet.
LEMMA PushResumeContinuations ==
  ASSUME NEW c \in Seq(Activation), NEW f, NEW st, Continuations(c, f, st),
         NEW d, NEW a, Pushed(c, d, a), a.fn = "lua_resume", ~a.entered
  PROVE  Continuations(d, f, st)
<1>1. \A t : ~Unrolling(d, t)
  BY PushBars DEF Unrolling
<1>2. \A t : /\ \A q \in BarsOf(d, t) : q \in BarsOf(c, t) /\ d[q] = c[q]
             /\ \A q \in BarsOf(c, t) : q \in BarsOf(d, t) /\ d[q] = c[q]
  BY PushBars DEF Bars
<1> QED BY <1>1, <1>2, OtherContinuations DEF Continuations

-----------------------------------------------------------------------------
(* Message handlers.                                                       *)

\* The first n frames are the same for the message handler.
SameProtected(g, h, n) ==
  \A i \in 1 .. n :
    /\ i \in Ypcalls(g) <=> i \in Ypcalls(h)
    /\ i \in Ypcalls(g) =>
         g[i].handler = h[i].handler /\ g[i].old_errfunc = h[i].old_errfunc

\* The suspended pcalls are among the first n frames.
YpcallsUpTo(g, n) == \A i \in Ypcalls(g) : i <= n
\* The luaD_pcall of thread t work for the first m frames.
PcallsUpTo(c, t, n, m) == \A j \in PcallsOf(c, t, n) : c[j].level <= m
\* Suspended pcalls behind frame n have saved the handler of those before.
OldHandlers(g, n) ==
  \A i \in Ypcalls(g) : i <= n \/ g[i].old_errfunc = FrameHandler(g, i - 1)

\* Protected calls are at positions of the list of frames.
LEMMA YpcallsAre ==
  ASSUME NEW g \in Seq(CallInfo)
  PROVE  /\ Len(g) \in Nat
         /\ \A i \in Ypcalls(g) : i \in 1 .. Len(g) /\ ~g[i].lua /\ g[i].ypcall
         /\ \A i \in 1 .. Len(g) : ~g[i].lua /\ g[i].ypcall => i \in Ypcalls(g)
BY LenProperties DEF Ypcalls

\* Frames with the same suspended pcalls have the same handler.
LEMMA SameHandler ==
  ASSUME NEW g \in Seq(CallInfo), NEW h \in Seq(CallInfo),
         NEW n, SameProtected(g, h, n),
         NEW e, \A i \in Ypcalls(g) \cup Ypcalls(h) : i <= e => i \in 1 .. n
  PROVE  FrameHandler(g, e) = FrameHandler(h, e)
<1> DEFINE Y == {i \in Ypcalls(g) : i <= e}
<1>1. Y = {i \in Ypcalls(h) : i <= e}
  BY DEF SameProtected
<1>2. CASE Y = {}
  BY <1>1, <1>2 DEF FrameHandler
<1>3. CASE Y # {}
  <2>1. Y \in SUBSET (1 .. Len(g)) /\ Len(g) \in Nat
    BY YpcallsAre
  <2>2. Max(Y) \in Y
    BY <1>3, <2>1, LastPosition
  <2>3. g[Max(Y)].handler = h[Max(Y)].handler
    BY <2>2 DEF SameProtected
  <2> QED BY <1>1, <1>3, <2>3 DEF FrameHandler
<1> QED BY <1>2, <1>3

\* The protected calls of a thread are the same, and so is the handler.
LEMMA SameHandlerAt ==
  ASSUME NEW c, NEW d, NEW t, NEW n \in Nat, NEW k \in Nat, NEW f, NEW f2, NEW e,
         PcallsOf(d, t, k) = PcallsOf(c, t, n),
         \A q \in PcallsOf(c, t, n) : d[q] = c[q],
         FrameHandler(f2[t], e) = FrameHandler(f[t], e)
  PROVE  HandlerAt(d, f2, t, k, e) = HandlerAt(c, f, t, n, e)
<1> DEFINE P == PcallsOf(c, t, n)
<1>1. CASE P = {}
  BY <1>1 DEF HandlerAt
<1>2. CASE P # {}
  <2>1. P \in SUBSET (1 .. n)
    BY DEF PcallsOf
  <2>2. Max(P) \in P
    BY <1>2, <2>1, LastPosition
  <2> QED BY <1>2, <2>2 DEF HandlerAt
<1> QED BY <1>1, <1>2

\* The protected call with the handler in use is the innermost one.
LEMMA NewHandler ==
  ASSUME NEW c, NEW t, NEW n \in Nat, NEW f, NEW e,
         c[n + 1].fn = "luaD_pcall", c[n + 1].th = t
  PROVE  HandlerAt(c, f, t, n + 1, e) = c[n + 1].ef
<1> DEFINE P == PcallsOf(c, t, n + 1)
<1>1. n + 1 \in P /\ P \in SUBSET (1 .. n + 1) /\ n + 1 \in Nat
  BY DEF PcallsOf
<1>2. Max(P) \in P /\ \A i \in P : i <= Max(P)
  BY <1>1, LastPosition
<1>3. Max(P) = n + 1
  BY <1>1, <1>2
<1> QED BY <1>1, <1>3 DEF HandlerAt

\* The handlers of one thread, and what one protected call has saved.
HandlersOf(c, f, st, ef, t) ==
  ~errorstatus(st[t]) =>
    /\ ef[t] = HandlerAt(c, f, t, Len(c), Len(f[t]))
    /\ \A i \in Ypcalls(f[t]) : f[t][i].old_errfunc = FrameHandler(f[t], i - 1)
\* luaD_pcall has saved the handler that was in use.
SavedHandler(c, f, j) ==
  c[j].fn = "luaD_pcall" =>
    c[j].errfunc = HandlerAt(c, f, c[j].th, j - 1, c[j].level)

\* Handlers, for each thread and for each activation.
LEMMA HandlersParts ==
  ASSUME NEW c, NEW f, NEW st, NEW ef
  PROVE  Handlers(c, f, st, ef) <=>
           /\ \A t \in Thread : HandlersOf(c, f, st, ef, t)
           /\ \A j \in 1 .. Len(c) : SavedHandler(c, f, j)
BY DEF Handlers, HandlersOf, SavedHandler

\* Handlers, when activations of the running thread are dropped.
LEMMA CutHandlers ==
  ASSUME NEW c \in Seq(Activation), Stack(c),
         NEW f \in [Thread -> Seq(CallInfo)], NEW st, NEW ef, Handlers(c, f, st, ef),
         NEW d, NEW n, Cut(c, d, n),
         n < Len(c) => c[n + 1].th = c[Len(c)].th,
         NEW f2 \in [Thread -> Seq(CallInfo)], NEW st2, NEW ef2,
         OnlyFor(c[Len(c)].th, f2, f), OnlyFor(c[Len(c)].th, st2, st),
         OnlyFor(c[Len(c)].th, ef2, ef),
         NEW m \in Nat, SameProtected(f2[c[Len(c)].th], f[c[Len(c)].th], m),
         ~errorstatus(st2[c[Len(c)].th]) =>
           /\ ~errorstatus(st[c[Len(c)].th])
           /\ ef2[c[Len(c)].th] =
                HandlerAt(c, f2, c[Len(c)].th, n, Len(f2[c[Len(c)].th]))
           /\ YpcallsUpTo(f2[c[Len(c)].th], m),
         PcallsUpTo(c, c[Len(c)].th, n, m)
  PROVE  Handlers(d, f2, st2, ef2)
<1> USE DEF OnlyFor, YpcallsUpTo, PcallsUpTo
<1> DEFINE t0 == c[Len(c)].th
<1>1. /\ Len(d) = n /\ n \in 1 .. Len(c) /\ n \in Nat /\ Len(c) \in Nat
      /\ \A i \in 1 .. n : Alike(c[i], d[i])
  BY StackParts, CutStack DEF Cut
<1>0. t0 \in Thread
  BY <1>1, StackParts
<1>2. ASSUME NEW j \in 0 .. n, NEW t, NEW e
      PROVE  HandlerAt(d, f2, t, j, e) = HandlerAt(c, f2, t, j, e)
  <2>1. PcallsOf(d, t, j) = PcallsOf(c, t, j)
    BY CutCountsAt
  <2>2. j \in Nat
    BY <1>1
  <2>3. \A q \in PcallsOf(c, t, j) : d[q] = c[q]
    BY <1>1, SMTT(40) DEF PcallsOf, Alike
  <2> QED BY <2>1, <2>2, <2>3, SameHandlerAt
<1>3. ASSUME NEW t \in Thread
      PROVE  HandlersOf(d, f2, st2, ef2, t)
  <2>1. CASE t # t0
    <3>1. f2[t] = f[t] /\ st2[t] = st[t] /\ ef2[t] = ef[t]
      BY <2>1
    <3>2. \A i \in n + 1 .. Len(c) : c[i].th # t
      BY <1>1, <2>1, AboveCut
    <3>3. PcallsOf(c, t, Len(c)) = PcallsOf(c, t, n)
      BY <1>1, <3>2, OthersCountNothing
    <3>4. HandlerAt(c, f2, t, n, Len(f2[t])) = HandlerAt(c, f, t, Len(c), Len(f[t]))
      BY <3>1, <3>3 DEF HandlerAt
    <3>5. HandlerAt(d, f2, t, n, Len(f2[t])) = HandlerAt(c, f2, t, n, Len(f2[t]))
      BY <1>1, <1>2
    <3>6. HandlersOf(c, f, st, ef, t)
      BY HandlersParts
    <3> QED BY <1>1, <3>1, <3>4, <3>5, <3>6 DEF HandlersOf
  <2>2. CASE t = t0
    <3>1. SUFFICES ASSUME ~errorstatus(st2[t0])
                   PROVE  /\ ef2[t0] = HandlerAt(d, f2, t0, n, Len(f2[t0]))
                          /\ \A i \in Ypcalls(f2[t0]) :
                               f2[t0][i].old_errfunc = FrameHandler(f2[t0], i - 1)
      BY <1>0, <1>1, <2>2 DEF HandlersOf
    <3>2. HandlersOf(c, f, st, ef, t0) /\ ~errorstatus(st[t0])
      BY <1>0, <3>1, HandlersParts
    <3>3. ef2[t0] = HandlerAt(d, f2, t0, n, Len(f2[t0]))
      BY <1>1, <1>2, <3>1
    <3>4. ASSUME NEW i \in Ypcalls(f2[t0])
          PROVE  f2[t0][i].old_errfunc = FrameHandler(f2[t0], i - 1)
      <4>1. f2[t0] \in Seq(CallInfo) /\ f[t0] \in Seq(CallInfo)
        BY <1>0
      <4>2. i \in 1 .. m /\ i \in Nat
        BY <3>1, <3>4, <4>1, YpcallsAre
      <4>3. i \in Ypcalls(f[t0]) /\ f2[t0][i].old_errfunc = f[t0][i].old_errfunc
        BY <3>4, <4>2 DEF SameProtected
      <4>4. \A k \in Ypcalls(f2[t0]) \cup Ypcalls(f[t0]) : k <= i - 1 => k \in 1 .. m
        BY <4>1, <4>2, YpcallsAre
      <4>5. FrameHandler(f2[t0], i - 1) = FrameHandler(f[t0], i - 1)
        BY <4>1, <4>4, SameHandler
      <4> QED BY <3>2, <4>3, <4>5 DEF HandlersOf
    <3> QED BY <3>3, <3>4
  <2> QED BY <2>1, <2>2
<1>4. ASSUME NEW j \in 1 .. n
      PROVE  SavedHandler(d, f2, j)
  <2>1. SUFFICES ASSUME d[j].fn = "luaD_pcall"
                 PROVE  d[j].errfunc = HandlerAt(d, f2, d[j].th, j - 1, d[j].level)
    BY DEF SavedHandler
  <2>2. /\ j \in 1 .. Len(c) /\ j - 1 \in 0 .. n /\ c[j] = d[j] /\ j - 1 \in Nat
        /\ c[j].th \in Thread /\ c[j].level \in Nat
    <3>1. j \in 1 .. Len(c) /\ j - 1 \in 0 .. n /\ Alike(c[j], d[j]) /\ j - 1 \in Nat
      BY <1>1
    <3>2. c[j] = d[j]
      BY <2>1, <3>1 DEF Alike
    <3> QED BY <3>1, <3>2, StackParts
  <2>3. c[j].errfunc = HandlerAt(c, f, c[j].th, j - 1, c[j].level)
    BY <2>1, <2>2, HandlersParts DEF SavedHandler
  <2>4. HandlerAt(d, f2, c[j].th, j - 1, c[j].level) = HandlerAt(c, f2, c[j].th, j - 1, c[j].level)
    BY <1>2, <2>2
  <2>5. FrameHandler(f2[c[j].th], c[j].level) = FrameHandler(f[c[j].th], c[j].level)
    <3>1. CASE c[j].th # t0
      BY <2>2, <3>1
    <3>2. CASE c[j].th = t0
      <4>1. f2[t0] \in Seq(CallInfo) /\ f[t0] \in Seq(CallInfo)
        BY <1>0
      <4>2. j \in PcallsOf(c, t0, n)
        BY <2>1, <2>2, <3>2 DEF PcallsOf
      <4>3. c[j].level <= m
        BY <4>2
      <4>4. \A k \in Ypcalls(f2[t0]) \cup Ypcalls(f[t0]) : k <= c[j].level => k \in 1 .. m
        BY <2>2, <4>1, <4>3, YpcallsAre
      <4>5. SameProtected(f2[t0], f[t0], m)
        OBVIOUS
      <4> HIDE DEF t0
      <4>6. \A g, h \in Seq(CallInfo) :
              /\ SameProtected(g, h, m)
              /\ \A k \in Ypcalls(g) \cup Ypcalls(h) : k <= c[j].level => k \in 1 .. m
              => FrameHandler(g, c[j].level) = FrameHandler(h, c[j].level)
        BY ONLY SameHandler
      <4> QED BY <3>2, <4>1, <4>4, <4>5, <4>6
    <3> QED BY <3>1, <3>2
  <2>6. HandlerAt(c, f2, c[j].th, j - 1, c[j].level) = HandlerAt(c, f, c[j].th, j - 1, c[j].level)
    BY <2>5 DEF HandlerAt
  <2> QED BY <2>2, <2>3, <2>4, <2>6
<1> QED BY <1>1, <1>3, <1>4, HandlersParts

\* Handlers, when an activation is pushed.
LEMMA PushHandlers ==
  ASSUME NEW c \in Seq(Activation), Stack(c),
         NEW f \in [Thread -> Seq(CallInfo)], NEW st, NEW ef, Handlers(c, f, st, ef),
         NEW d, NEW a \in Activation, Pushed(c, d, a),
         NEW f2 \in [Thread -> Seq(CallInfo)], NEW ef2,
         OnlyFor(a.th, f2, f), OnlyFor(a.th, ef2, ef),
         NEW m \in Nat, SameProtected(f2[a.th], f[a.th], m),
         ~errorstatus(st[a.th]) =>
           /\ ef2[a.th] = IF a.fn = "luaD_pcall" THEN a.ef
                          ELSE HandlerAt(c, f2, a.th, Len(c), Len(f2[a.th]))
           /\ OldHandlers(f2[a.th], m),
         PcallsUpTo(c, a.th, Len(c), m),
         a.fn = "luaD_pcall" => a.errfunc = HandlerAt(c, f2, a.th, Len(c), a.level)
  PROVE  Handlers(d, f2, st, ef2)
<1> USE DEF OnlyFor, OldHandlers, PcallsUpTo
<1> DEFINE t0 == a.th
           n == Len(c)
<1>1. /\ Len(d) = n + 1 /\ n \in Nat /\ d[n + 1] = a
      /\ \A i \in 1 .. n : d[i] = c[i]
      /\ t0 \in Thread
  BY ActivationFields DEF Pushed
<1>2. ASSUME NEW j \in 0 .. n, NEW t, NEW e
      PROVE  HandlerAt(d, f2, t, j, e) = HandlerAt(c, f2, t, j, e)
  <2>1. PcallsOf(d, t, j) = PcallsOf(c, t, j)
    BY PushCountsAt
  <2>2. j \in Nat
    BY <1>1
  <2>3. \A q \in PcallsOf(c, t, j) : d[q] = c[q]
    BY <1>1 DEF PcallsOf
  <2> QED BY <2>1, <2>2, <2>3, SameHandlerAt
<1>3. ASSUME NEW t, NEW e, ~(a.fn = "luaD_pcall" /\ a.th = t)
      PROVE  HandlerAt(d, f2, t, n + 1, e) = HandlerAt(c, f2, t, n, e)
  <2>1. PcallsOf(d, t, n + 1) = PcallsOf(c, t, n)
    BY <1>3, PushSets
  <2>2. \A q \in PcallsOf(c, t, n) : d[q] = c[q]
    BY <1>1 DEF PcallsOf
  <2>3. n + 1 \in Nat /\ n \in Nat
    BY <1>1
  <2> QED BY <2>1, <2>2, <2>3, SameHandlerAt
<1>4. ASSUME NEW t \in Thread
      PROVE  HandlersOf(d, f2, st, ef2, t)
  <2>1. CASE t # t0
    <3>1. f2[t] = f[t] /\ ef2[t] = ef[t]
      BY <2>1
    <3>2. HandlerAt(c, f2, t, n, Len(f2[t])) = HandlerAt(c, f, t, n, Len(f[t]))
      BY <3>1 DEF HandlerAt
    <3>3. HandlerAt(d, f2, t, n + 1, Len(f2[t])) = HandlerAt(c, f2, t, n, Len(f2[t]))
      BY <1>3, <2>1
    <3>4. HandlersOf(c, f, st, ef, t)
      BY HandlersParts
    <3> QED BY <1>1, <3>1, <3>2, <3>3, <3>4 DEF HandlersOf
  <2>2. CASE t = t0
    <3>1. SUFFICES ASSUME ~errorstatus(st[t0])
                   PROVE  /\ ef2[t0] = HandlerAt(d, f2, t0, n + 1, Len(f2[t0]))
                          /\ \A i \in Ypcalls(f2[t0]) :
                               f2[t0][i].old_errfunc = FrameHandler(f2[t0], i - 1)
      BY <1>1, <2>2 DEF HandlersOf
    <3>2. HandlersOf(c, f, st, ef, t0)
      BY <1>1, <3>1, HandlersParts
    <3>3. ef2[t0] = HandlerAt(d, f2, t0, n + 1, Len(f2[t0]))
      <4>1. CASE a.fn = "luaD_pcall"
        <5>1. d[n + 1].fn = "luaD_pcall" /\ d[n + 1].th = t0 /\ n \in Nat
          BY <1>1, <4>1
        <5>2. HandlerAt(d, f2, t0, n + 1, Len(f2[t0])) = d[n + 1].ef
          BY <5>1, NewHandler
        <5> QED BY <1>1, <3>1, <4>1, <5>2
      <4>2. CASE a.fn # "luaD_pcall"
        BY <1>3, <3>1, <4>2
      <4> QED BY <4>1, <4>2
    <3>4. ASSUME NEW i \in Ypcalls(f2[t0]), i <= m
          PROVE  f2[t0][i].old_errfunc = FrameHandler(f2[t0], i - 1)
      <4>1. f2[t0] \in Seq(CallInfo) /\ f[t0] \in Seq(CallInfo)
        BY <1>1
      <4>2. i \in 1 .. m /\ i \in Nat
        BY <3>4, <4>1, YpcallsAre
      <4>3. i \in Ypcalls(f[t0]) /\ f2[t0][i].old_errfunc = f[t0][i].old_errfunc
        BY <3>4, <4>2 DEF SameProtected
      <4>4. \A k \in Ypcalls(f2[t0]) \cup Ypcalls(f[t0]) : k <= i - 1 => k \in 1 .. m
        BY <4>1, <4>2, YpcallsAre
      <4>5. FrameHandler(f2[t0], i - 1) = FrameHandler(f[t0], i - 1)
        BY <4>1, <4>4, SameHandler
      <4> QED BY <3>1, <3>2, <4>3, <4>5 DEF HandlersOf
    <3> QED BY <3>1, <3>3, <3>4
  <2> QED BY <2>1, <2>2
<1>5. ASSUME NEW j \in 1 .. n
      PROVE  SavedHandler(d, f2, j)
  <2>1. SUFFICES ASSUME c[j].fn = "luaD_pcall"
                 PROVE  c[j].errfunc = HandlerAt(d, f2, c[j].th, j - 1, c[j].level)
    BY <1>1 DEF SavedHandler
  <2>2. /\ j - 1 \in 0 .. n /\ c[j].th \in Thread /\ c[j].level \in Nat
    BY <1>1, StackParts
  <2>3. c[j].errfunc = HandlerAt(c, f, c[j].th, j - 1, c[j].level)
    BY <2>1, <2>2, HandlersParts DEF SavedHandler
  <2>4. HandlerAt(d, f2, c[j].th, j - 1, c[j].level) = HandlerAt(c, f2, c[j].th, j - 1, c[j].level)
    BY <1>2, <2>2
  <2>5. FrameHandler(f2[c[j].th], c[j].level) = FrameHandler(f[c[j].th], c[j].level)
    <3>1. CASE c[j].th # t0
      BY <2>2, <3>1
    <3>2. CASE c[j].th = t0
      <4>1. f2[t0] \in Seq(CallInfo) /\ f[t0] \in Seq(CallInfo)
        BY <1>1
      <4>2. j \in PcallsOf(c, t0, n)
        BY <2>1, <2>2, <3>2 DEF PcallsOf
      <4>3. c[j].level <= m
        BY <4>2
      <4>4. \A k \in Ypcalls(f2[t0]) \cup Ypcalls(f[t0]) : k <= c[j].level => k \in 1 .. m
        BY <2>2, <4>1, <4>3, YpcallsAre
      <4>5. SameProtected(f2[t0], f[t0], m)
        OBVIOUS
      <4> HIDE DEF t0
      <4>6. \A g, h \in Seq(CallInfo) :
              /\ SameProtected(g, h, m)
              /\ \A k \in Ypcalls(g) \cup Ypcalls(h) : k <= c[j].level => k \in 1 .. m
              => FrameHandler(g, c[j].level) = FrameHandler(h, c[j].level)
        BY ONLY SameHandler
      <4> QED BY <3>2, <4>1, <4>4, <4>5, <4>6
    <3> QED BY <3>1, <3>2
  <2>6. HandlerAt(c, f2, c[j].th, j - 1, c[j].level) = HandlerAt(c, f, c[j].th, j - 1, c[j].level)
    BY <2>5 DEF HandlerAt
  <2> QED BY <2>3, <2>4, <2>6
<1>6. SavedHandler(d, f2, n + 1)
  <2>1. SUFFICES ASSUME a.fn = "luaD_pcall"
                 PROVE  a.errfunc = HandlerAt(d, f2, a.th, n, a.level)
    BY <1>1 DEF SavedHandler
  <2> QED BY <1>1, <1>2, <2>1
<1>7. \A j \in 1 .. Len(d) : j \in 1 .. n \/ j = n + 1
  BY <1>1
<1> QED BY <1>4, <1>5, <1>6, <1>7, HandlersParts

-----------------------------------------------------------------------------
(* The status of the threads.                                              *)

\* Nothing waits on a lua_resume that has not been entered.
LEMMA EnteredBelow ==
  ASSUME NEW c \in Seq(Activation), Stack(c), NEW j \in 1 .. Len(c),
         c[j].fn = "lua_resume", j < Len(c)
  PROVE  /\ c[j].entered /\ c[j + 1].fn \in {"C", "luaV_execute"}
         /\ c[j + 1].th = c[j].th
<1>1. j + 1 \in 2 .. Len(c) /\ (j + 1) - 1 = j
  BY StackParts
<1>2. c[j + 1].fn # "lua_resume"
  BY <1>1 DEF Stack, UsesApi
<1>3. LiesOn(c[j], c[j + 1]) /\ c[j + 1].th = c[j].th
  BY <1>1, <1>2 DEF Stack
<1>4. c[j + 1].fn \in {"C", "luaV_execute"}
  BY <1>2, <1>3 DEF LiesOn, CallFrom, UsesApi, RunsCode, Waits
<1>5. c[j].entered
  BY <1>3, <1>4 DEF LiesOn
<1> QED BY <1>3, <1>4, <1>5

\* The running thread has the status of one that runs.
LEMMA Running ==
  ASSUME NEW c \in Seq(Activation), Stack(c),
         NEW f, NEW st, NEW un, ThreadsRight(c, f, st, un),
         NEW j \in 1 .. Len(c),
         c[j].fn = "lua_resume" => c[j].entered
  PROVE  st[c[j].th] = "LUA_OK" /\ c[j].th \notin un
<1>1. c[j].th \in Thread /\ Len(c) \in Nat
  BY StackParts
<1>2. CASE c[j].th = MainThread
  BY <1>1, <1>2 DEF ThreadsRight
<1>3. CASE c[j].th # MainThread
  <2>1. PICK i \in 1 .. j : c[i].fn = "lua_resume" /\ c[i].th = c[j].th
    BY <1>3, PartBegins
  <2>2. i \in 1 .. Len(c) /\ (i = j \/ i < Len(c))
    BY <1>1, <2>1
  <2>3. c[i].entered
    BY <2>1, <2>2, EnteredBelow
  <2>4. i \in ResumesOf(c, c[j].th)
    BY <2>1, <2>2 DEF ResumesOf
  <2> QED BY <1>1, <2>3, <2>4 DEF ThreadsRight
<1> QED BY <1>2, <1>3

\* The status of the threads, when control comes back to an activation.
LEMMA CutThreads ==
  ASSUME NEW c \in Seq(Activation), Stack(c),
         NEW f, NEW st, NEW un, ThreadsRight(c, f, st, un),
         NEW d, NEW n, Cut(c, d, n), c[n].th = c[Len(c)].th,
         c[n].fn = "lua_resume" => d[n].entered,
         NEW f2, NEW st2, NEW un2,
         OnlyFor(c[Len(c)].th, f2, f), OnlyFor(c[Len(c)].th, st2, st),
         OnlySetFor(c[Len(c)].th, un2, un),
         st2[c[Len(c)].th] = "LUA_OK", c[Len(c)].th \notin un2
  PROVE  ThreadsRight(d, f2, st2, un2)
<1> USE DEF OnlyFor, OnlySetFor
<1> DEFINE t0 == c[Len(c)].th
<1>1. /\ Len(d) = n /\ n \in 1 .. Len(c) /\ n \in Nat /\ Len(c) \in Nat
      /\ \A i \in 1 .. n : Alike(c[i], d[i])
      /\ \A i \in 1 .. n - 1 : d[i] = c[i]
      /\ d \in Seq(Activation) /\ Stack(d)
  BY StackParts, CutStack DEF Cut
<1>2. n < Len(c) => c[n + 1].th = t0
  <2>1. Len(c) \in 1 .. Len(c) /\ n <= Len(c) /\ (n < Len(c) => n + 1 \in n .. Len(c))
    BY <1>1
  <2> QED BY <1>1, <2>1 DEF Stack
<1>3. \A t : ResumesOf(d, t) = ResumesOf(c, t)
  BY <1>2, CutOn
<1>4. d[n].th = t0 /\ (d[n].fn = "lua_resume" <=> c[n].fn = "lua_resume")
  BY <1>1 DEF Alike
<1> SUFFICES ASSUME NEW t \in Thread
             PROVE  /\ t \in un2 => t # MainThread /\ st2[t] = "LUA_OK" /\ f2[t] = <<>>
                    /\ st2[t] = "LUA_YIELD" =>
                         f2[t] # <<>> /\ Len(f2[t]) \notin Ypcalls(f2[t])
                    /\ t = MainThread => st2[t] = "LUA_OK"
                    /\ ~IsOn(d, t) /\ st2[t] = "LUA_OK" => f2[t] = <<>>
                    /\ \A j \in ResumesOf(d, t) :
                         IF d[j].entered THEN st2[t] = "LUA_OK" /\ t \notin un2
                         ELSE st2[t] = "LUA_YIELD" \/ t \in un2
  BY DEF ThreadsRight
<1>5. CASE t # t0
  <2>1. f2[t] = f[t] /\ st2[t] = st[t] /\ (t \in un2 <=> t \in un)
    BY <1>5
  <2>2. IsOn(d, t) <=> IsOn(c, t)
    BY <1>3 DEF IsOn
  <2>3. \A j \in ResumesOf(d, t) : j \in ResumesOf(c, t) /\ d[j] = c[j]
    BY <1>1, <1>3, <1>4, <1>5 DEF ResumesOf
  <2> QED BY <2>1, <2>2, <2>3 DEF ThreadsRight
<1>6. CASE t = t0
  <2>1. IsOn(d, t0)
    <3>1. n \in 1 .. Len(d) /\ d[n].th = t0
      BY <1>1, <1>4
    <3> QED BY <1>1, <3>1, OnTheStack
  <2>2. ASSUME NEW j \in ResumesOf(d, t0)
        PROVE  d[j].entered
    <3>1. j \in 1 .. n /\ d[j].fn = "lua_resume"
      BY <1>1 DEF ResumesOf
    <3>2. CASE j = n
      BY <1>4, <3>1, <3>2
    <3>3. CASE j # n
      <4>1. j < Len(d) /\ j \in 1 .. Len(d)
        BY <1>1, <3>1, <3>3
      <4> QED BY <1>1, <3>1, <4>1, EnteredBelow
    <3> QED BY <3>2, <3>3
  <2> QED BY <1>6, <2>1, <2>2
<1> QED BY <1>5, <1>6

\* A coroutine gives up control, or is done.
LEMMA EndThreads ==
  ASSUME NEW c \in Seq(Activation), Stack(c),
         NEW f, NEW st, NEW un, ThreadsRight(c, f, st, un),
         NEW d, NEW n, Cut(c, d, n), n < Len(c), d[n] = c[n],
         c[n + 1].fn = "lua_resume", c[n + 1].th = c[Len(c)].th,
         NEW f2, NEW st2, NEW un2,
         OnlyFor(c[Len(c)].th, f2, f), OnlyFor(c[Len(c)].th, st2, st),
         OnlySetFor(c[Len(c)].th, un2, un),
         st2[c[Len(c)].th] = "LUA_YIELD" =>
           /\ f2[c[Len(c)].th] # <<>>
           /\ Len(f2[c[Len(c)].th]) \notin Ypcalls(f2[c[Len(c)].th]),
         st2[c[Len(c)].th] = "LUA_OK" => f2[c[Len(c)].th] = <<>>,
         c[Len(c)].th \notin un2
  PROVE  ThreadsRight(d, f2, st2, un2)
<1> USE DEF OnlyFor, OnlySetFor
<1> DEFINE t0 == c[Len(c)].th
<1>1. /\ Len(d) = n /\ n \in 1 .. Len(c) /\ n \in Nat /\ Len(c) \in Nat
      /\ \A i \in 1 .. n : d[i] = c[i]
      /\ n + 1 \in 1 .. Len(c) /\ (n + 1) - 1 = n
  BY StackParts DEF Cut
<1>2. t0 # MainThread /\ \A i \in 1 .. n : c[i].th # t0
  BY <1>1, ResumeIsFirst
<1>3. ResumesOf(d, t0) = {}
  BY <1>1, <1>2 DEF ResumesOf
<1>4. \A t : t # t0 => ResumesOf(d, t) = ResumesOf(c, t)
  BY CutOn
<1> SUFFICES ASSUME NEW t \in Thread
             PROVE  /\ t \in un2 => t # MainThread /\ st2[t] = "LUA_OK" /\ f2[t] = <<>>
                    /\ st2[t] = "LUA_YIELD" =>
                         f2[t] # <<>> /\ Len(f2[t]) \notin Ypcalls(f2[t])
                    /\ t = MainThread => st2[t] = "LUA_OK"
                    /\ ~IsOn(d, t) /\ st2[t] = "LUA_OK" => f2[t] = <<>>
                    /\ \A j \in ResumesOf(d, t) :
                         IF d[j].entered THEN st2[t] = "LUA_OK" /\ t \notin un2
                         ELSE st2[t] = "LUA_YIELD" \/ t \in un2
  BY DEF ThreadsRight
<1>5. CASE t # t0
  <2>1. f2[t] = f[t] /\ st2[t] = st[t] /\ (t \in un2 <=> t \in un)
    BY <1>5
  <2>2. IsOn(d, t) <=> IsOn(c, t)
    BY <1>4, <1>5 DEF IsOn
  <2>3. \A j \in ResumesOf(d, t) : j \in ResumesOf(c, t) /\ d[j] = c[j]
    BY <1>1, <1>4, <1>5 DEF ResumesOf
  <2> QED BY <2>1, <2>2, <2>3 DEF ThreadsRight
<1>6. CASE t = t0
  BY <1>2, <1>3, <1>6
<1> QED BY <1>5, <1>6

\* The status of the threads, when an activation of the running one is pushed.
LEMMA PushThreads ==
  ASSUME NEW c \in Seq(Activation), Stack(c),
         NEW f, NEW st, NEW un, ThreadsRight(c, f, st, un),
         NEW d, NEW a \in Activation, Pushed(c, d, a), a.fn # "lua_resume",
         a.th = c[Len(c)].th, st[a.th] = "LUA_OK", a.th \notin un,
         NEW f2, OnlyFor(a.th, f2, f)
  PROVE  ThreadsRight(d, f2, st, un)
<1> USE DEF OnlyFor
<1>1. \A t : ResumesOf(d, t) = ResumesOf(c, t) /\ (IsOn(d, t) <=> IsOn(c, t))
  BY PushOn DEF IsOn
<1>2. \A t : \A j \in ResumesOf(c, t) : d[j] = c[j]
  BY DEF Pushed, ResumesOf
<1>3. IsOn(c, a.th)
  BY StackParts, OnTheStack
<1> SUFFICES ASSUME NEW t \in Thread
             PROVE  /\ t \in un => t # MainThread /\ st[t] = "LUA_OK" /\ f2[t] = <<>>
                    /\ st[t] = "LUA_YIELD" =>
                         f2[t] # <<>> /\ Len(f2[t]) \notin Ypcalls(f2[t])
                    /\ t = MainThread => st[t] = "LUA_OK"
                    /\ ~IsOn(d, t) /\ st[t] = "LUA_OK" => f2[t] = <<>>
                    /\ \A j \in ResumesOf(d, t) :
                         IF d[j].entered THEN st[t] = "LUA_OK" /\ t \notin un
                         ELSE st[t] = "LUA_YIELD" \/ t \in un
  BY DEF ThreadsRight
<1>4. CASE t = a.th
  BY <1>1, <1>2, <1>3, <1>4 DEF ThreadsRight
<1>5. CASE t # a.th
  BY <1>1, <1>2, <1>5 DEF ThreadsRight
<1> QED BY <1>4, <1>5

\* The status of the threads, when one is resumed.
LEMMA PushResumeThreads ==
  ASSUME NEW c \in Seq(Activation), Stack(c),
         NEW f, NEW st, NEW un, ThreadsRight(c, f, st, un),
         NEW d, NEW a \in Activation, Pushed(c, d, a), a.fn = "lua_resume",
         ~a.entered, st[a.th] = "LUA_YIELD" \/ a.th \in un, ResumesOf(c, a.th) = {}
  PROVE  ThreadsRight(d, f, st, un)
<1>1. \A t : t # a.th =>
         ResumesOf(d, t) = ResumesOf(c, t) /\ (IsOn(d, t) <=> IsOn(c, t))
  BY PushOn DEF IsOn
<1>2. \A t : \A j \in ResumesOf(c, t) : d[j] = c[j]
  BY DEF Pushed, ResumesOf
<1>0. ResumesOf(d, a.th) = {Len(c) + 1}
  <2>1. ResumesOf(d, a.th) = ResumesOf(c, a.th) \cup {Len(c) + 1}
    BY PushOn
  <2> QED BY <2>1
<1>3. \A j \in ResumesOf(d, a.th) : d[j] = a
  BY <1>0 DEF Pushed
<1>4. IsOn(d, a.th)
  BY <1>0 DEF IsOn
<1> SUFFICES ASSUME NEW t \in Thread
             PROVE  /\ ~IsOn(d, t) /\ st[t] = "LUA_OK" => f[t] = <<>>
                    /\ \A j \in ResumesOf(d, t) :
                         IF d[j].entered THEN st[t] = "LUA_OK" /\ t \notin un
                         ELSE st[t] = "LUA_YIELD" \/ t \in un
  BY DEF ThreadsRight
<1>5. CASE t = a.th
  BY <1>3, <1>4, <1>5
<1>6. CASE t # a.th
  BY <1>1, <1>2, <1>6 DEF ThreadsRight
<1> QED BY <1>5, <1>6

-----------------------------------------------------------------------------
(* The inductive invariant as a whole, when the C stack changes: control   *)
(* comes back to an activation further down, an activation is pushed, a    *)
(* function starts, a call that can be interrupted is made, lua_resume     *)
(* gets control or ends.  c, f, st, ... are the state, or what the         *)
(* operation has made of it so far: an operation that pushes several       *)
(* activations is taken apart into such moves.                             *)

-----------------------------------------------------------------------------
(* Control comes back to an activation further down.                      *)

\* A yield meets no protected call where there is nothing to stop it.
LEMMA NoPcalls ==
  ASSUME NEW c \in Seq(Activation), Stack(c), c[Len(c)].fn # "luaD_pcall",
         NnyIn(c, c[Len(c)].th, Len(c)) = 0
  PROVE  PcallsOf(c, c[Len(c)].th, Len(c)) = {}
<1> SUFFICES ASSUME NEW q \in 1 .. Len(c), c[q].fn = "luaD_pcall",
                    c[q].th = c[Len(c)].th
             PROVE  FALSE
  BY DEF PcallsOf
<1>1. /\ q < Len(c) /\ q + 1 \in 2 .. Len(c) /\ q + 1 \in 1 .. Len(c)
      /\ (q + 1) - 1 = q /\ Len(c) \in Nat /\ q + 1 \in q .. Len(c)
      /\ Len(c) \in 1 .. Len(c) /\ q <= Len(c)
  BY StackParts
<1>2. \A i \in 1 .. Len(c) : c[i].th = c[Len(c)].th => ~Bars(c[i])
  BY <1>1, NothingBarred
<1>3. c[q + 1].th = c[q].th
  BY <1>1 DEF Stack
<1>4. c[q + 1].fn # "lua_resume" /\ LiesOn(c[q], c[q + 1])
  BY <1>1, <1>3 DEF Stack
<1>5. ~Bars(c[q + 1])
  BY <1>1, <1>2, <1>3
<1>6. c[q + 1] \in Activation
  BY <1>1
<1>7. c[q + 1].fn = "f_parser"
  <2>1. c[q + 1].fn # "luaD_call"
    <3>1. SUFFICES ASSUME c[q + 1].fn = "luaD_call"
                   PROVE  FALSE
      OBVIOUS
    <3>2. CallFrom(c[q], c[q + 1]) /\ ~c[q + 1].noyield
      BY <1>4, <1>5, <3>1 DEF LiesOn, Bars
    <3> QED BY <1>6, <3>1, <3>2, ActivationFields DEF CallFrom, UsesApi, RunsCode, Waits
  <2> QED BY <1>4, <2>1 DEF LiesOn, UsesApi, RunsCode, Waits
<1>8. q > 2 /\ c[q - 1].fn = "luaD_protectedparser"
  <2>1. q + 1 > 3 /\ c[(q + 1) - 2].fn = "luaD_protectedparser"
    BY <1>1, <1>7 DEF Stack
  <2>2. (q + 1) - 2 = q - 1
    BY <1>1
  <2> QED BY <2>1, <2>2
<1>9. c[q - 1].th = c[q].th /\ q - 1 \in 1 .. Len(c)
  BY <1>8 DEF Stack
<1> QED BY <1>2, <1>8, <1>9 DEF Bars

\* The frames that activation n of the running thread finds when control comes
\* back: those it left, and a protected call that could be interrupted is over.
FramesLeft(c, f, n, f2) ==
  LET g == f[c[Len(c)].th]
      g2 == f2[c[Len(c)].th]
      m == LastFrame(c, f, n)
      pcallk == n < Len(c) /\ c[n + 1].fn = "luaD_call" /\ c[n + 1].caller = "pcallk"
  IN  /\ Len(g2) = m
      /\ \A i \in 1 .. m : i < m \/ ~pcallk => g2[i] = g[i]
      /\ pcallk => g2[m] = [g[m] EXCEPT !.ypcall = FALSE]

\* A luaD_call of lua_pcallk is called from the last of its frames, a C function.
LEMMA PcallkFrame ==
  ASSUME NEW c \in Seq(Activation), Stack(c),
         NEW f \in [Thread -> Seq(CallInfo)], Frames(c, f), Interruptible(c, f),
         NEW n \in 1 .. Len(c) - 1, c[n + 1].fn = "luaD_call",
         c[n + 1].caller = "pcallk", c[n + 1].th = c[n].th
  PROVE  /\ LastFrame(c, f, n) = c[n].level /\ c[n].level > 0 /\ c[n].fn = "C"
         /\ LastFrame(c, f, n) \in 1 .. Len(f[c[n].th])
         /\ ~f[c[n].th][LastFrame(c, f, n)].lua
         /\ f[c[n].th][LastFrame(c, f, n)] \in CallInfo
         /\ PcallsOf(c, c[n].th, n) = {}
         /\ \A j \in 1 .. n - 1 : c[j].th = c[n].th => c[j].level < c[n].level
<1>1. /\ n \in 1 .. Len(c) /\ n + 1 \in 2 .. Len(c) /\ n + 1 \in 1 .. Len(c)
      /\ (n + 1) - 1 = n /\ n \in Nat /\ n < Len(c)
      /\ c[n] \in Activation /\ c[n + 1] \in Activation /\ c[n].th \in Thread
  BY StackParts
<1>2. LiesOn(c[n], c[n + 1])
  BY <1>1 DEF Stack
<1>3. CallFrom(c[n], c[n + 1])
  BY <1>2 DEF LiesOn
<1>4. c[n].fn = "C" /\ c[n].level > 0 /\ ~c[n + 1].noyield
  BY <1>3 DEF CallFrom
<1>5. c[n + 1].level = c[n].level
  BY <1>3, <1>4 DEF CallFrom, SameLevel
<1>6. LastFrame(c, f, n) = c[n].level
  BY <1>1, <1>4, LevelsRight
<1>7. c[n].level <= Len(f[c[n].th]) /\ c[n].level \in Nat /\ ~f[c[n].th][c[n].level].lua
  BY <1>1, <1>4, StackParts DEF Frames
<1>8. PcallsOf(c, c[n].th, n + 1) = {}
  BY <1>1, <1>4 DEF Interruptible
<1>9. PcallsOf(c, c[n].th, n) = {}
  BY <1>1, <1>8 DEF PcallsOf
<1>10. ASSUME NEW j \in 1 .. n - 1, c[j].th = c[n].th
       PROVE  c[j].level < c[n].level
  <2>1. c[j].level <= Base(c[n]) /\ c[j].level \in Nat
    BY <1>1, <1>10, SameThread, StackParts
  <2> QED BY <1>4, <1>7, <2>1 DEF Base
<1>11. /\ LastFrame(c, f, n) \in 1 .. Len(f[c[n].th])
       /\ f[c[n].th][LastFrame(c, f, n)] \in CallInfo
  <2>1. f[c[n].th] \in Seq(CallInfo)
    BY <1>1
  <2> QED BY <1>4, <1>6, <1>7, <2>1
<1> QED BY <1>4, <1>6, <1>7, <1>9, <1>10, <1>11

\* What FramesLeft means for each part of the invariant.
LEMMA WhatIsLeft ==
  ASSUME NEW c \in Seq(Activation), Stack(c),
         NEW f \in [Thread -> Seq(CallInfo)], Frames(c, f), Interruptible(c, f),
         NEW n \in 1 .. Len(c), c[n].th = c[Len(c)].th,
         NEW f2 \in [Thread -> Seq(CallInfo)], FramesLeft(c, f, n, f2)
  PROVE  /\ KindsUpTo(f2[c[n].th], f[c[n].th], LastFrame(c, f, n))
         /\ ContinueUpTo(f2[c[n].th], f[c[n].th], LastFrame(c, f, n))
         /\ CallersKept(c, c[Len(c)].th, n, f2, f)
         /\ PcallsKept(c, c[Len(c)].th, n, f2, f)
         /\ \E m \in Nat : /\ SameProtected(f2[c[Len(c)].th], f[c[Len(c)].th], m)
                           /\ YpcallsUpTo(f2[c[Len(c)].th], m)
                           /\ PcallsUpTo(c, c[Len(c)].th, n, m)
<1> DEFINE t0 == c[Len(c)].th
           m == LastFrame(c, f, n)
           g == f[t0]
           g2 == f2[t0]
           pcallk == n < Len(c) /\ c[n + 1].fn = "luaD_call" /\ c[n + 1].caller = "pcallk"
<1>1. /\ n \in Nat /\ Len(c) \in Nat /\ Len(c) \in 1 .. Len(c) /\ t0 \in Thread
      /\ (n < Len(c) => n + 1 \in n .. Len(c)) /\ n <= Len(c)
  BY StackParts
<1>2. /\ Len(g2) = m
      /\ \A i \in 1 .. m : i < m \/ ~pcallk => g2[i] = g[i]
      /\ pcallk => g2[m] = [g[m] EXCEPT !.ypcall = FALSE]
  BY DEF FramesLeft
<1>3. n < Len(c) => c[n + 1].th = t0
  BY <1>1 DEF Stack
<1>4. /\ m \in Nat /\ m <= Len(g)
      /\ \A j \in 1 .. n : c[j].th = t0 => c[j].level \in Nat /\ c[j].level <= m
  BY LevelsRight
<1>5. g \in Seq(CallInfo) /\ g2 \in Seq(CallInfo) /\ DOMAIN g2 = 1 .. m
      /\ \A i \in 1 .. m : i \in DOMAIN g /\ i \in DOMAIN g2
  <2>1. g \in Seq(CallInfo) /\ g2 \in Seq(CallInfo)
    BY <1>1
  <2>2. DOMAIN g = 1 .. Len(g) /\ DOMAIN g2 = 1 .. m /\ Len(g) \in Nat
    BY <1>2, <2>1, LenProperties
  <2> QED BY <1>4, <2>1, <2>2
<1>6. CASE ~pcallk
  <2>1. \A i \in 1 .. m : g2[i] = g[i]
    BY <1>2, <1>6
  <2>2. KindsUpTo(g2, g, m) /\ ContinueUpTo(g2, g, m)
    BY <2>1 DEF KindsUpTo, SameKind, ContinueUpTo, SameContinuation
  <2>3. CallersKept(c, t0, n, f2, f)
    BY <1>4, <2>1 DEF CallersKept
  <2>4. PcallsKept(c, t0, n, f2, f)
    <3>1. SUFFICES ASSUME NEW j \in 1 .. n, c[j].th = t0, c[j].fn = "C", c[j].level > 0,
                          f2[c[j].th][c[j].level].ypcall
                   PROVE  j < n /\ f[c[j].th][c[j].level].ypcall
      BY DEF PcallsKept
    <3>2. f[c[j].th][c[j].level].ypcall
      BY <1>4, <2>1, <3>1
    <3>3. j \in 1 .. Len(c)
      BY <1>1
    <3>4. j < Len(c) /\ c[j + 1].fn = "luaD_call" /\ c[j + 1].caller = "pcallk"
      BY <3>1, <3>2, <3>3 DEF Interruptible
    <3> QED BY <1>1, <1>6, <3>2, <3>4
  <2>5. SameProtected(g2, g, m)
    <3>1. \A i \in 1 .. m : i \in Ypcalls(g2) <=> i \in Ypcalls(g)
      BY <1>5, <2>1 DEF Ypcalls
    <3> QED BY <2>1, <3>1 DEF SameProtected
  <2>6. YpcallsUpTo(g2, m)
    BY <1>2, <1>5, YpcallsAre DEF YpcallsUpTo
  <2>7. PcallsUpTo(c, t0, n, m)
    BY <1>4 DEF PcallsUpTo, PcallsOf
  <2> QED BY <1>4, <2>2, <2>3, <2>4, <2>5, <2>6, <2>7
<1>7. CASE pcallk
  <2>1. n \in 1 .. Len(c) - 1 /\ c[n + 1].th = c[n].th
    BY <1>1, <1>3, <1>7
  <2>2. /\ m = c[n].level /\ c[n].fn = "C" /\ m \in 1 .. Len(g)
        /\ ~g[m].lua /\ g[m] \in CallInfo /\ PcallsOf(c, t0, n) = {}
        /\ \A j \in 1 .. n - 1 : c[j].th = t0 => c[j].level < m
    <3>1. c[n + 1].fn = "luaD_call" /\ c[n + 1].caller = "pcallk"
      BY <1>7
    <3> HIDE DEF m, pcallk, g, g2, t0
    <3>2. /\ LastFrame(c, f, n) = c[n].level /\ c[n].fn = "C"
          /\ LastFrame(c, f, n) \in 1 .. Len(f[c[n].th])
          /\ ~f[c[n].th][LastFrame(c, f, n)].lua
          /\ f[c[n].th][LastFrame(c, f, n)] \in CallInfo
          /\ PcallsOf(c, c[n].th, n) = {}
          /\ \A j \in 1 .. n - 1 : c[j].th = c[n].th => c[j].level < c[n].level
      BY <2>1, <3>1, PcallkFrame
    <3>3. c[n].th = t0
      BY DEF t0
    <3> QED BY <3>2, <3>3 DEF m, g
  <2>3. /\ g2[m] = [g[m] EXCEPT !.ypcall = FALSE]
        /\ \A i \in 1 .. m : i < m => g2[i] = g[i]
    BY <1>2, <1>7
  <2>4. /\ ~g2[m].lua /\ ~g2[m].ypcall /\ g2[m].k = g[m].k /\ g2[m].oah = g[m].oah
        /\ g2[m].lua = g[m].lua
    BY <2>2, <2>3 DEF CallInfo, CFrame, LuaFrame
  <2>5. \A i \in 1 .. m : i = m \/ g2[i] = g[i]
    BY <1>4, <2>3
  <2>6. KindsUpTo(g2, g, m)
    <3>1. ASSUME NEW i \in 1 .. m PROVE SameKind(g2[i], g[i])
      <4> HIDE DEF m, pcallk, g, g2, t0
      <4>1. CASE i = m
        BY <2>2, <2>4, <4>1 DEF SameKind
      <4>2. CASE g2[i] = g[i]
        BY <4>2 DEF SameKind
      <4> QED BY <2>5, <4>1, <4>2
    <3> QED BY <3>1 DEF KindsUpTo
  <2>7. ContinueUpTo(g2, g, m)
    <3>1. ASSUME NEW i \in 1 .. m PROVE SameContinuation(g2[i], g[i])
      <4> HIDE DEF m, pcallk, g, g2, t0
      <4>1. CASE i = m
        BY <2>2, <2>4, <4>1 DEF SameContinuation
      <4>2. CASE g2[i] = g[i]
        BY <4>2 DEF SameContinuation
      <4> QED BY <2>5, <4>1, <4>2
    <3> QED BY <3>1 DEF ContinueUpTo
  <2>8. CallersKept(c, t0, n, f2, f)
    <3>1. SUFFICES ASSUME NEW j \in 1 .. n, c[j].th = t0, c[j].fn = "luaD_call",
                          c[j].level > 0
                   PROVE  f2[c[j].th][c[j].level] = f[c[j].th][c[j].level]
      BY DEF CallersKept
    <3>2. j \in 1 .. n - 1
      BY <1>1, <2>2, <3>1
    <3>3. c[j].level < m /\ c[j].level \in 1 .. m
      BY <1>4, <2>2, <3>1, <3>2
    <3> QED BY <2>3, <3>1, <3>3
  <2>9. PcallsKept(c, t0, n, f2, f)
    <3>1. SUFFICES ASSUME NEW j \in 1 .. n, c[j].th = t0, c[j].fn = "C", c[j].level > 0,
                          f2[c[j].th][c[j].level].ypcall
                   PROVE  j < n /\ f[c[j].th][c[j].level].ypcall
      BY DEF PcallsKept
    <3>2. j # n
      BY <2>2, <2>4, <3>1
    <3>3. j \in 1 .. n - 1 /\ j < n
      BY <1>1, <3>2
    <3>4. c[j].level < m /\ c[j].level \in 1 .. m
      BY <1>4, <2>2, <3>1, <3>3
    <3> QED BY <2>3, <3>1, <3>3, <3>4
  <2>10. m - 1 \in Nat
    BY <2>2
  <2>11. SameProtected(g2, g, m - 1)
    <3>1. \A i \in 1 .. m - 1 : i \in 1 .. m /\ g2[i] = g[i]
      BY <2>2, <2>3
    <3>2. \A i \in 1 .. m - 1 : i \in Ypcalls(g2) <=> i \in Ypcalls(g)
      BY <1>5, <3>1 DEF Ypcalls
    <3> QED BY <3>1, <3>2 DEF SameProtected
  <2>12. YpcallsUpTo(g2, m - 1)
    <3>1. \A i \in Ypcalls(g2) : i \in 1 .. m /\ i # m
      BY <1>2, <1>5, <2>4, YpcallsAre
    <3> QED BY <2>2, <3>1 DEF YpcallsUpTo
  <2>13. PcallsUpTo(c, t0, n, m - 1)
    BY <2>2 DEF PcallsUpTo
  <2> QED BY <2>6, <2>7, <2>8, <2>9, <2>10, <2>11, <2>12, <2>13
<1> QED BY <1>6, <1>7


\* Control comes back to the activation n of the running thread, that finds its
\* frames as it left them, and gets what was saved for it.
ControlBack(c, f, ny, nc, ef, ah, d, n, f2, ny2, nc2, ef2, ah2) ==
  LET t == c[Len(c)].th
  IN  /\ Cut(c, d, n) /\ c[n].th = t
      /\ n < Len(c) \/ CCallsIn(c, n) < ErrorCCalls
      /\ c[n].fn = "lua_resume" => n + 1 = Len(c) /\ d[n].entered
      /\ OnlyFor(t, f2, f) /\ OnlyFor(t, ny2, ny) /\ OnlyFor(t, nc2, nc)
      /\ OnlyFor(t, ef2, ef) /\ OnlyFor(t, ah2, ah)
      /\ FramesLeft(c, f, n, f2)
      /\ nc2[t] = CCallsIn(c, n) /\ ny2[t] = NnyIn(c, t, n)
      /\ ah2[t] <=> AsideOf(c, t, n) = {}
      /\ ef2[t] = HandlerAt(c, f2, t, n, Len(f2[t]))

\* Control comes back to activation n: the invariant holds again.
LEMMA CutStep ==
  ASSUME NEW c, NEW f, NEW st, NEW ny, NEW nc, NEW ef, NEW ah, NEW un,
         Inv(c, f, st, ny, nc, ef, ah, un), NEW d, NEW n, NEW f2,
         NEW ny2, NEW nc2, NEW ef2, NEW ah2,
         Typed(d, f2, st, ny2, nc2, ef2, ah2, un),
         ControlBack(c, f, ny, nc, ef, ah, d, n, f2, ny2, nc2, ef2, ah2)
  PROVE  Inv(d, f2, st, ny2, nc2, ef2, ah2, un)
<1> DEFINE t0 == c[Len(c)].th
<1>0. /\ Cut(c, d, n) /\ c[n].th = t0
      /\ c[n].fn = "lua_resume" => n + 1 = Len(c) /\ d[n].entered
      /\ c[n].fn = "lua_resume" => d[n].entered
      /\ c[n].fn = "lua_resume" => n + 1 = Len(c)
      /\ OnlyFor(t0, f2, f) /\ FramesLeft(c, f, n, f2)
  BY DEF ControlBack
<1>1. /\ Stack(c) /\ Frames(c, f)
      /\ Interruptible(c, f) /\ Continuations(c, f, st)
      /\ AllSaved(c) /\ CallsCounted(c, nc) /\ NnyCounted(c, ny)
      /\ Handlers(c, f, st, ef) /\ HooksRight(c, st, ah)
      /\ ThreadsRight(c, f, st, un) /\ StackBounded(c)
  BY DEF Inv
<1>2. /\ c \in Seq(Activation) /\ f \in [Thread -> Seq(CallInfo)]
      /\ f2 \in [Thread -> Seq(CallInfo)]
  BY DEF Inv, Typed
<1>3. /\ Len(d) = n /\ n \in 1 .. Len(c) /\ n \in Nat /\ Len(c) \in Nat
      /\ Len(c) \in 1 .. Len(c)
  BY <1>0, <1>1, <1>2, StackParts DEF Cut
<1>4. n < Len(c) => c[n + 1].th = t0
  <2>1. n <= Len(c) /\ (n < Len(c) => n + 1 \in n .. Len(c))
    BY <1>3
  <2> QED BY <1>0, <1>1, <1>3, <2>1 DEF Stack
<1>5. st[t0] = "LUA_OK" /\ t0 \notin un
  <2>1. c[n].fn = "lua_resume" => c[n].entered
    <3>1. c[n].fn = "lua_resume" => n < Len(c)
      BY <1>0, <1>3
    <3> QED BY <1>1, <1>2, <1>3, <3>1, EnteredBelow
  <2> QED BY <1>0, <1>1, <1>2, <1>3, <2>1, Running
<1>6. /\ KindsUpTo(f2[c[n].th], f[c[n].th], LastFrame(c, f, n))
      /\ ContinueUpTo(f2[c[n].th], f[c[n].th], LastFrame(c, f, n))
      /\ CallersKept(c, c[Len(c)].th, n, f2, f)
      /\ PcallsKept(c, c[Len(c)].th, n, f2, f)
      /\ \E m \in Nat : /\ SameProtected(f2[c[Len(c)].th], f[c[Len(c)].th], m)
                        /\ YpcallsUpTo(f2[c[Len(c)].th], m)
                        /\ PcallsUpTo(c, c[Len(c)].th, n, m)
  BY <1>0, <1>1, <1>2, <1>3, WhatIsLeft
<1>8. Stack(d)
  BY <1>0, <1>1, <1>2, CutStack
<1>9. Frames(d, f2)
  <2>1. Len(f2[c[n].th]) = LastFrame(c, f, n)
    BY <1>0 DEF FramesLeft
  <2> QED BY <1>0, <1>1, <1>2, <1>4, <1>6, <2>1, CutFrames
<1>10. Interruptible(d, f2)
  BY <1>0, <1>1, <1>2, <1>4, <1>6, CutInterruptible
<1>11. Continuations(d, f2, st)
  <2>1. /\ Len(f2[c[n].th]) = LastFrame(c, f, n) /\ st[c[n].th] = "LUA_OK"
        /\ OnlyFor(c[n].th, f2, f) /\ c[n].th = c[Len(c)].th
    BY <1>0, <1>5 DEF FramesLeft
  <2> QED BY <1>0, <1>1, <1>2, <1>6, <2>1, CutContinuations
<1>12. AllSaved(d)
  BY <1>0, <1>1, <1>2, CutSaved
<1>13. CallsCounted(d, nc2)
  <2>1. nc2[c[n].th] = CCallsIn(c, n) /\ OnlyFor(c[Len(c)].th, nc2, nc)
    BY DEF ControlBack
  <2> QED BY <1>0, <1>1, <1>2, <2>1, CutCalls
<1>14. NnyCounted(d, ny2)
  <2>1. /\ ny2[c[Len(c)].th] =
             IF c[n].th = c[Len(c)].th THEN NnyIn(c, c[Len(c)].th, n) ELSE 1
        /\ OnlyFor(c[Len(c)].th, ny2, ny)
    BY DEF ControlBack
  <2> QED BY <1>0, <1>1, <1>2, <1>4, <2>1, CutNny
<1>15. Handlers(d, f2, st, ef2)
  <2>1. PICK m \in Nat : /\ SameProtected(f2[c[Len(c)].th], f[c[Len(c)].th], m)
                         /\ YpcallsUpTo(f2[c[Len(c)].th], m)
                         /\ PcallsUpTo(c, c[Len(c)].th, n, m)
    BY <1>6
  <2>2. /\ OnlyFor(c[Len(c)].th, ef2, ef) /\ OnlyFor(c[Len(c)].th, st, st)
        /\ ef2[t0] = HandlerAt(c, f2, t0, n, Len(f2[t0]))
    BY DEF ControlBack, OnlyFor
  <2>3. ~errorstatus(st[t0])
    BY <1>5 DEF errorstatus, Errors
  <2> QED BY <1>0, <1>1, <1>2, <1>4, <2>1, <2>2, <2>3, CutHandlers
<1>16. HooksRight(d, st, ah2)
  <2>1. /\ OnlyFor(c[Len(c)].th, st, st) /\ OnlyFor(c[Len(c)].th, ah2, ah)
        /\ ah2[c[Len(c)].th] <=> AsideOf(c, c[Len(c)].th, n) = {}
    BY DEF ControlBack, OnlyFor
  <2> QED BY <1>0, <1>1, <1>2, <1>4, <2>1, CutHooks
<1>17. ThreadsRight(d, f2, st, un)
  <2>1. OnlyFor(c[Len(c)].th, st, st) /\ OnlySetFor(c[Len(c)].th, un, un)
    BY DEF OnlyFor, OnlySetFor
  <2> QED BY <1>0, <1>1, <1>2, <1>5, <2>1, CutThreads
<1>18. StackBounded(d)
  <2>1. n < Len(c) \/ CCallsIn(c, n) < ErrorCCalls
    BY DEF ControlBack
  <2> QED BY <1>0, <1>1, <1>2, <2>1, CutBounded
<1> QED
  BY <1>8, <1>9, <1>10, <1>11, <1>12, <1>13, <1>14, <1>15, <1>16, <1>17, <1>18
  DEF Inv

-----------------------------------------------------------------------------
(* An activation is pushed.                                                *)

\* An activation of the running thread is pushed, for the last frame of g2 or
\* for one that it begins with, and counts and saves what it must.
PushOf(c, f, st, ny, nc, ef, ah, un, d, a, f2, ny2, nc2, ef2, ah2) ==
  LET t == a.th
      n == Len(c)
  IN  /\ Pushed(c, d, a) /\ a \in Activation /\ a.fn # "lua_resume" /\ t = c[n].th
      /\ LiesOn(c[n], a)
      /\ a.fn = "f_parser" => n > 2 /\ c[n - 1].fn = "luaD_protectedparser"
      /\ CCallsIn(c, n) < ErrorCCalls /\ (a.fn = "luaD_call" => ~a.entered)
      /\ OnlyFor(t, f2, f) /\ OnlyFor(t, ny2, ny) /\ OnlyFor(t, nc2, nc)
      /\ OnlyFor(t, ef2, ef) /\ OnlyFor(t, ah2, ah)
      /\ Saved(d, n + 1)
      /\ nc2[t] = CCallsIn(d, n + 1) /\ ny2[t] = NnyIn(d, t, n + 1)
      /\ ah2[t] <=> AsideOf(d, t, n + 1) = {}

\* What has to hold of the frames when a is pushed.
FramesPushed(c, f, a, f2) ==
  LET g == f[a.th]
      g2 == f2[a.th]
  IN  /\ c[Len(c)].fn # "lua_resume" => Base(a) = Len(g) /\ KindsUpTo(g2, g, Len(g))
      /\ a.level <= Len(g2) /\ (a.fn # "luaV_execute" => a.level = Len(g2))
      /\ a.fn = "C" => ~g2[a.level].lua /\ ~g2[a.level].ypcall
      /\ a.fn = "luaV_execute" => ExecutesFrom(g2, a.level)
      /\ CallersKept(c, a.th, Len(c), f2, f) /\ PcallAdded(c, a, f2, f)
      /\ a.fn = "luaD_call" /\ ~a.noyield =>
           CanInterrupt(a, g2[a.level], PcallsOf(c, a.th, Len(c)))
      /\ CanContinue(c, f2, a)

\* What has to hold of the message handlers when a is pushed.
HandlersPushed(c, f, a, f2, ef2) ==
  /\ ef2[a.th] = IF a.fn = "luaD_pcall" THEN a.ef
                 ELSE HandlerAt(c, f2, a.th, Len(c), Len(f2[a.th]))
  /\ a.fn = "luaD_pcall" => a.errfunc = HandlerAt(c, f2, a.th, Len(c), a.level)
  /\ \E m \in Nat : /\ SameProtected(f2[a.th], f[a.th], m)
                    /\ OldHandlers(f2[a.th], m)
                    /\ PcallsUpTo(c, a.th, Len(c), m)

\* An activation is pushed: the invariant holds again.
LEMMA PushStep ==
  ASSUME NEW c, NEW f, NEW st, NEW ny, NEW nc, NEW ef, NEW ah, NEW un,
         Inv(c, f, st, ny, nc, ef, ah, un), NEW d, NEW a, NEW f2,
         NEW ny2, NEW nc2, NEW ef2, NEW ah2,
         Typed(d, f2, st, ny2, nc2, ef2, ah2, un),
         PushOf(c, f, st, ny, nc, ef, ah, un, d, a, f2, ny2, nc2, ef2, ah2),
         FramesPushed(c, f, a, f2), HandlersPushed(c, f, a, f2, ef2)
  PROVE  Inv(d, f2, st, ny2, nc2, ef2, ah2, un)
<1>1. /\ Stack(c) /\ Frames(c, f)
      /\ Interruptible(c, f) /\ Continuations(c, f, st)
      /\ AllSaved(c) /\ CallsCounted(c, nc) /\ NnyCounted(c, ny)
      /\ Handlers(c, f, st, ef) /\ HooksRight(c, st, ah)
      /\ ThreadsRight(c, f, st, un) /\ StackBounded(c)
  BY DEF Inv
<1>2. /\ c \in Seq(Activation) /\ f \in [Thread -> Seq(CallInfo)]
      /\ f2 \in [Thread -> Seq(CallInfo)]
  BY DEF Inv, Typed
<1>3. /\ Pushed(c, d, a) /\ a \in Activation /\ a.fn # "lua_resume"
      /\ a.th = c[Len(c)].th
      /\ LiesOn(c[Len(c)], a)
      /\ a.fn = "f_parser" => Len(c) > 2 /\ c[Len(c) - 1].fn = "luaD_protectedparser"
      /\ CCallsIn(c, Len(c)) < ErrorCCalls /\ (a.fn = "luaD_call" => ~a.entered)
      /\ OnlyFor(a.th, f2, f) /\ OnlyFor(a.th, ny2, ny) /\ OnlyFor(a.th, nc2, nc)
      /\ OnlyFor(a.th, ef2, ef) /\ OnlyFor(a.th, ah2, ah)
      /\ OnlyFor(a.th, st, st)
  BY DEF PushOf, OnlyFor
<1>4. /\ Saved(d, Len(c) + 1)
      /\ nc2[a.th] = CCallsIn(d, Len(c) + 1) /\ ny2[a.th] = NnyIn(d, a.th, Len(c) + 1)
      /\ ah2[a.th] <=> AsideOf(d, a.th, Len(c) + 1) = {}
  BY DEF PushOf
<1>5. Len(c) \in Nat /\ Len(c) \in 1 .. Len(c)
  BY <1>1, <1>2, StackParts
<1>6. st[a.th] = "LUA_OK" /\ a.th \notin un
  <2>1. c[Len(c)].fn = "lua_resume" => c[Len(c)].entered
    BY <1>3 DEF LiesOn, CallFrom, UsesApi, RunsCode, Waits
  <2> QED BY <1>1, <1>2, <1>3, <1>5, <2>1, Running
<1>7. Stack(d)
  BY <1>1, <1>2, <1>3, PushStack
<1>8. Frames(d, f2)
  <2>1. /\ c[Len(c)].fn # "lua_resume" =>
             Base(a) = Len(f[a.th]) /\ KindsUpTo(f2[a.th], f[a.th], Len(f[a.th]))
        /\ a.level <= Len(f2[a.th]) /\ (a.fn # "luaV_execute" => a.level = Len(f2[a.th]))
        /\ a.fn = "C" => ~f2[a.th][a.level].lua
        /\ a.fn = "luaV_execute" => ExecutesFrom(f2[a.th], a.level)
    BY DEF FramesPushed
  <2> QED BY <1>1, <1>2, <1>3, <1>7, <2>1, PushFrames
<1>9. Interruptible(d, f2)
  <2>1. /\ CallersKept(c, a.th, Len(c), f2, f) /\ PcallAdded(c, a, f2, f)
        /\ a.fn = "luaD_call" /\ ~a.noyield =>
             CanInterrupt(a, f2[a.th][a.level], PcallsOf(c, a.th, Len(c)))
        /\ a.fn = "C" => ~f2[a.th][a.level].ypcall
    BY DEF FramesPushed
  <2> QED BY <1>1, <1>2, <1>3, <1>7, <2>1, PushInterruptible
<1>10. Continuations(d, f2, st)
  <2>1. CanContinue(c, f2, a) /\ st[a.th] # "LUA_YIELD"
    BY <1>6 DEF FramesPushed
  <2> QED BY <1>1, <1>2, <1>3, <2>1, PushContinuations
<1>11. AllSaved(d)
  BY <1>1, <1>2, <1>3, <1>4, PushSaved
<1>12. CallsCounted(d, nc2)
  BY <1>1, <1>2, <1>3, <1>4, <1>7, PushCalls
<1>13. NnyCounted(d, ny2)
  BY <1>1, <1>2, <1>3, <1>4, <1>7, PushNny
<1>14. Handlers(d, f2, st, ef2)
  <2>1. PICK m \in Nat : /\ SameProtected(f2[a.th], f[a.th], m)
                         /\ OldHandlers(f2[a.th], m)
                         /\ PcallsUpTo(c, a.th, Len(c), m)
    BY DEF HandlersPushed
  <2>2. /\ ef2[a.th] = IF a.fn = "luaD_pcall" THEN a.ef
                       ELSE HandlerAt(c, f2, a.th, Len(c), Len(f2[a.th]))
        /\ a.fn = "luaD_pcall" => a.errfunc = HandlerAt(c, f2, a.th, Len(c), a.level)
    BY DEF HandlersPushed
  <2> QED BY <1>1, <1>2, <1>3, <2>1, <2>2, PushHandlers
<1>15. HooksRight(d, st, ah2)
  BY <1>1, <1>2, <1>3, <1>4, PushHooks
<1>16. ThreadsRight(d, f2, st, un)
  BY <1>1, <1>2, <1>3, <1>6, PushThreads
<1>17. StackBounded(d)
  <2>1. a.fn \in {"luaD_call", "lua_resume"} => Waits(a)
    BY <1>3 DEF Waits
  <2> QED BY <1>1, <1>2, <1>3, <2>1, PushBounded
<1> QED
  BY <1>7, <1>8, <1>9, <1>10, <1>11, <1>12, <1>13, <1>14, <1>15, <1>16, <1>17
  DEF Inv

\* The running thread can go on, whatever is called: continuations that are
\* there, or a call that a yield must not drop.
LEMMA ContinueSame ==
  ASSUME NEW c \in Seq(Activation), Stack(c), NEW f \in [Thread -> Seq(CallInfo)],
         NEW st, Continuations(c, f, st),
         NEW a, a.th = c[Len(c)].th, a.level = Len(f[a.th]), st[a.th] = "LUA_OK"
  PROVE  CanContinue(c, f, a)
<1>1. a.th \in Thread /\ Len(f[a.th]) \in Nat
  <2>1. c[Len(c)].th \in Thread
    BY StackParts
  <2>2. f[a.th] \in Seq(CallInfo)
    BY <2>1
  <2> QED BY <2>1, <2>2
<1>2. ContinuationsOf(c, f, st, a.th) /\ ~errorstatus(st[a.th])
  BY <1>1 DEF Continuations, errorstatus, Errors
<1>3. \A i \in Ypcalls(f[a.th]) : i <= a.level
  <2>1. f[a.th] \in Seq(CallInfo)
    BY <1>1
  <2> QED BY <2>1, YpcallsAre
<1> QED BY <1>2, <1>3 DEF CanContinue, ContinuationsOf

\* The frames stay as they are.
LEMMA SameFrames ==
  ASSUME NEW c \in Seq(Activation), Stack(c), NEW f \in [Thread -> Seq(CallInfo)],
         Frames(c, f), Interruptible(c, f), NEW st, Continuations(c, f, st),
         NEW a \in Activation, a.th = c[Len(c)].th, a.level = Len(f[a.th]),
         st[a.th] = "LUA_OK", a.fn \notin {"C", "luaV_execute", "lua_resume"},
         LiesOn(c[Len(c)], a),
         a.fn = "luaD_call" /\ ~a.noyield =>
           CanInterrupt(a, f[a.th][a.level], PcallsOf(c, a.th, Len(c)))
  PROVE  FramesPushed(c, f, a, f)
<1>1. CanContinue(c, f, a)
  BY ContinueSame
<1>2. KindsUpTo(f[a.th], f[a.th], Len(f[a.th]))
  BY DEF KindsUpTo, SameKind
<1>3. CallersKept(c, a.th, Len(c), f, f) /\ PcallAdded(c, a, f, f)
  BY DEF CallersKept, PcallAdded
<1>4. Base(a) = a.level /\ a.level <= Len(f[a.th])
  BY DEF Base
<1> QED BY <1>1, <1>2, <1>3, <1>4 DEF FramesPushed

\* Message handlers, when the frames stay as they are.
LEMMA SameHandlers ==
  ASSUME NEW c \in Seq(Activation), Stack(c), NEW f \in [Thread -> Seq(CallInfo)],
         Frames(c, f), NEW st, NEW ef, Handlers(c, f, st, ef),
         NEW a \in Activation, a.th = c[Len(c)].th, a.level = Len(f[a.th]),
         st[a.th] = "LUA_OK", NEW ef2,
         IF a.fn = "luaD_pcall" THEN ef2[a.th] = a.ef /\ a.errfunc = ef[a.th]
         ELSE ef2[a.th] = ef[a.th]
  PROVE  HandlersPushed(c, f, a, f, ef2)
<1>1. a.th \in Thread /\ Len(f[a.th]) \in Nat /\ Len(c) \in 1 .. Len(c)
  <2>1. c[Len(c)].th \in Thread /\ Len(c) \in 1 .. Len(c)
    BY StackParts
  <2>2. f[a.th] \in Seq(CallInfo)
    BY <2>1
  <2> QED BY <2>1, <2>2
<1>2. HandlersOf(c, f, st, ef, a.th)
  BY <1>1, HandlersParts
<1>3. /\ ef[a.th] = HandlerAt(c, f, a.th, Len(c), Len(f[a.th]))
      /\ \A i \in Ypcalls(f[a.th]) : f[a.th][i].old_errfunc = FrameHandler(f[a.th], i - 1)
  BY <1>2 DEF HandlersOf, errorstatus, Errors
<1>4. SameProtected(f[a.th], f[a.th], Len(f[a.th])) /\ OldHandlers(f[a.th], Len(f[a.th]))
  BY <1>3 DEF SameProtected, OldHandlers
<1>5. PcallsUpTo(c, a.th, Len(c), Len(f[a.th]))
  <2>1. LastFrame(c, f, Len(c)) = Len(f[a.th])
    BY DEF LastFrame, LastOfThread
  <2>2. \A j \in 1 .. Len(c) : c[j].th = a.th => c[j].level <= Len(f[a.th])
    BY <1>1, <2>1, LevelsRight
  <2> QED BY <2>2 DEF PcallsUpTo, PcallsOf
<1> QED BY <1>1, <1>3, <1>4, <1>5 DEF HandlersPushed

\* The counters and what hooks are allowed, in the running thread.
LEMMA Counted ==
  ASSUME NEW c \in Seq(Activation), Stack(c),
         NEW nc, CallsCounted(c, nc), NEW ny, NnyCounted(c, ny),
         NEW st, NEW ah, HooksRight(c, st, ah), st[c[Len(c)].th] = "LUA_OK"
  PROVE  /\ nc[c[Len(c)].th] = CCallsIn(c, Len(c))
         /\ ny[c[Len(c)].th] = NnyIn(c, c[Len(c)].th, Len(c))
         /\ ah[c[Len(c)].th] <=> AsideOf(c, c[Len(c)].th, Len(c)) = {}
<1>1. c[Len(c)].th \in Thread /\ Len(c) \in 1 .. Len(c)
  BY StackParts
<1>2. nc[c[Len(c)].th] = CCallsIn(c, Len(c))
  BY DEF CallsCounted
<1>3. IsOn(c, c[Len(c)].th)
  BY <1>1, OnTheStack
<1>4. ny[c[Len(c)].th] = NnyIn(c, c[Len(c)].th, Len(c))
  BY <1>1, <1>3 DEF NnyCounted
<1>5. ah[c[Len(c)].th] <=> AsideOf(c, c[Len(c)].th, Len(c)) = {}
  BY <1>1 DEF HooksRight, errorstatus, Errors
<1> QED BY <1>2, <1>4, <1>5

\* The activation a saves what there is, and is counted.
CountsAs(a, ny, nc, ah, ny2, nc2, ah2) ==
  LET t == a.th
  IN  /\ nc2[t] = IF a.fn \in {"luaD_call", "lua_resume"} THEN nc[t] + 1 ELSE nc[t]
      /\ ny2[t] = IF Bars(a) THEN ny[t] + 1 ELSE ny[t]
      /\ IF a.fn \in {"hook", "GCTM"} THEN ~ah2[t] ELSE ah2[t] <=> ah[t]
      /\ a.fn = "luaD_pcall" =>
           a.nCcalls = nc[t] /\ a.nny = ny[t] /\ (a.allowhook <=> ah[t])
      /\ a.fn = "GCTM" => (a.oldah <=> ah[t])
      /\ a.fn = "hook" => ah[t]

\* Counters that a push changes as CountsAs says are right again.
LEMMA CountsPushed ==
  ASSUME NEW c \in Seq(Activation), Stack(c),
         NEW nc, CallsCounted(c, nc), NEW ny, NnyCounted(c, ny),
         NEW st, NEW ah, HooksRight(c, st, ah), st[c[Len(c)].th] = "LUA_OK",
         NEW d, NEW a \in Activation, Pushed(c, d, a), a.th = c[Len(c)].th,
         a.fn # "lua_resume", NEW ny2, NEW nc2, NEW ah2,
         CountsAs(a, ny, nc, ah, ny2, nc2, ah2)
  PROVE  /\ Saved(d, Len(c) + 1)
         /\ nc2[a.th] = CCallsIn(d, Len(c) + 1)
         /\ ny2[a.th] = NnyIn(d, a.th, Len(c) + 1)
         /\ ah2[a.th] <=> AsideOf(d, a.th, Len(c) + 1) = {}
<1>1. /\ nc[a.th] = CCallsIn(c, Len(c)) /\ ny[a.th] = NnyIn(c, a.th, Len(c))
      /\ ah[a.th] <=> AsideOf(c, a.th, Len(c)) = {}
  BY Counted
<1>2. /\ Len(c) \in Nat /\ (Len(c) + 1) - 1 = Len(c) /\ d[Len(c) + 1] = a
      /\ Len(c) \in 1 .. Len(c)
  BY StackParts DEF Pushed
<1>3. /\ CCallsIn(d, Len(c) + 1) =
           IF a.fn \in {"luaD_call", "lua_resume"}
           THEN CCallsIn(c, Len(c)) + 1 ELSE CCallsIn(c, Len(c))
      /\ NnyIn(d, a.th, Len(c) + 1) =
           IF Bars(a) THEN NnyIn(c, a.th, Len(c)) + 1 ELSE NnyIn(c, a.th, Len(c))
      /\ AsideOf(d, a.th, Len(c)) = AsideOf(c, a.th, Len(c))
  BY PushCounts
<1>4. IF a.fn \in {"hook", "GCTM"} THEN AsideOf(d, a.th, Len(c) + 1) # {}
      ELSE AsideOf(d, a.th, Len(c) + 1) = AsideOf(c, a.th, Len(c))
  BY PushSets
<1>5. nc2[a.th] = CCallsIn(d, Len(c) + 1) /\ ny2[a.th] = NnyIn(d, a.th, Len(c) + 1)
  BY <1>1, <1>3 DEF CountsAs
<1>6. ah2[a.th] <=> AsideOf(d, a.th, Len(c) + 1) = {}
  <2>1. CASE a.fn \in {"hook", "GCTM"}
    <3>1. ~ah2[a.th]
      BY <2>1 DEF CountsAs
    <3> QED BY <2>1, <3>1, <1>4
  <2>2. CASE a.fn \notin {"hook", "GCTM"}
    <3>1. ah2[a.th] <=> ah[a.th]
      BY <2>2 DEF CountsAs
    <3> QED BY <2>2, <3>1, <1>1, <1>4
  <2> QED BY <2>1, <2>2
<1>7. Saved(d, Len(c) + 1)
  <2>1. a.fn = "luaD_pcall" =>
          /\ a.nCcalls = CCallsIn(d, Len(c) + 1)
          /\ a.nny = NnyIn(d, a.th, Len(c) + 1)
    <3>1. SUFFICES ASSUME a.fn = "luaD_pcall"
                   PROVE  /\ a.nCcalls = CCallsIn(d, Len(c) + 1)
                          /\ a.nny = NnyIn(d, a.th, Len(c) + 1)
      OBVIOUS
    <3>2. a.nCcalls = nc[a.th] /\ a.nny = ny[a.th] /\ ~Bars(a)
      BY <3>1 DEF CountsAs, Bars
    <3> QED BY <3>1, <3>2, <1>1, <1>3
  <2>2. a.fn = "luaD_pcall" => (a.allowhook <=> AsideOf(d, a.th, Len(c)) = {})
    <3>1. SUFFICES ASSUME a.fn = "luaD_pcall"
                   PROVE  a.allowhook <=> AsideOf(d, a.th, Len(c)) = {}
      OBVIOUS
    <3>2. a.allowhook <=> ah[a.th]
      BY <3>1 DEF CountsAs
    <3> QED BY <3>2, <1>1, <1>3
  <2>3. a.fn = "GCTM" => (a.oldah <=> AsideOf(d, a.th, Len(c)) = {})
    <3>1. SUFFICES ASSUME a.fn = "GCTM"
                   PROVE  a.oldah <=> AsideOf(d, a.th, Len(c)) = {}
      OBVIOUS
    <3>2. a.oldah <=> ah[a.th]
      BY <3>1 DEF CountsAs
    <3> QED BY <3>2, <1>1, <1>3
  <2>4. a.fn = "hook" => AsideOf(d, a.th, Len(c)) = {}
    <3>1. SUFFICES ASSUME a.fn = "hook" PROVE AsideOf(d, a.th, Len(c)) = {}
      OBVIOUS
    <3>2. ah[a.th]
      BY <3>1 DEF CountsAs
    <3> QED BY <3>2, <1>1, <1>3
  <2> QED BY <1>2, <2>1, <2>2, <2>3, <2>4 DEF Saved
<1> QED BY <1>5, <1>6, <1>7

\* An activation is pushed for the last frame, and no frame changes.
SamePush(c, f, ny, nc, ef, ah, d, a, ny2, nc2, ef2, ah2) ==
  LET t == a.th
      n == Len(c)
  IN  /\ Pushed(c, d, a) /\ a \in Activation /\ t = c[n].th
      /\ a.fn \notin {"C", "luaV_execute", "lua_resume"} /\ a.level = Len(f[t])
      /\ LiesOn(c[n], a)
      /\ a.fn = "f_parser" => n > 2 /\ c[n - 1].fn = "luaD_protectedparser"
      /\ CCallsIn(c, n) < ErrorCCalls
      /\ a.fn = "luaD_call" =>
           ~a.entered /\ (~a.noyield => CanInterrupt(a, f[t][a.level], PcallsOf(c, t, n)))
      /\ OnlyFor(t, ny2, ny) /\ OnlyFor(t, nc2, nc)
      /\ OnlyFor(t, ef2, ef) /\ OnlyFor(t, ah2, ah)
      /\ CountsAs(a, ny, nc, ah, ny2, nc2, ah2)
      /\ IF a.fn = "luaD_pcall" THEN ef2[t] = a.ef /\ a.errfunc = ef[t]
         ELSE ef2[t] = ef[t]

\* An activation is pushed on frames that stay: the invariant holds again.
LEMMA PushSame ==
  ASSUME NEW c, NEW f, NEW st, NEW ny, NEW nc, NEW ef, NEW ah, NEW un,
         Inv(c, f, st, ny, nc, ef, ah, un), NEW d, NEW a,
         NEW ny2, NEW nc2, NEW ef2, NEW ah2,
         Typed(d, f, st, ny2, nc2, ef2, ah2, un),
         SamePush(c, f, ny, nc, ef, ah, d, a, ny2, nc2, ef2, ah2)
  PROVE  Inv(d, f, st, ny2, nc2, ef2, ah2, un)
<1>1. /\ Stack(c) /\ Frames(c, f)
      /\ Interruptible(c, f) /\ Continuations(c, f, st)
      /\ CallsCounted(c, nc) /\ NnyCounted(c, ny)
      /\ Handlers(c, f, st, ef) /\ HooksRight(c, st, ah)
      /\ ThreadsRight(c, f, st, un)
      /\ c \in Seq(Activation) /\ f \in [Thread -> Seq(CallInfo)]
  BY DEF Inv, Typed
<1>2. /\ Pushed(c, d, a) /\ a \in Activation /\ a.th = c[Len(c)].th
      /\ a.fn \notin {"C", "luaV_execute", "lua_resume"} /\ a.level = Len(f[a.th])
      /\ LiesOn(c[Len(c)], a)
      /\ a.fn = "f_parser" => Len(c) > 2 /\ c[Len(c) - 1].fn = "luaD_protectedparser"
      /\ CCallsIn(c, Len(c)) < ErrorCCalls
      /\ OnlyFor(a.th, ny2, ny) /\ OnlyFor(a.th, nc2, nc)
      /\ OnlyFor(a.th, ef2, ef) /\ OnlyFor(a.th, ah2, ah) /\ OnlyFor(a.th, f, f)
      /\ CountsAs(a, ny, nc, ah, ny2, nc2, ah2)
      /\ a.fn # "lua_resume"
  BY DEF SamePush, OnlyFor
<1>3. /\ a.fn = "luaD_call" => ~a.entered
      /\ a.fn = "luaD_call" /\ ~a.noyield =>
           CanInterrupt(a, f[a.th][a.level], PcallsOf(c, a.th, Len(c)))
  BY DEF SamePush
<1>4. IF a.fn = "luaD_pcall" THEN ef2[a.th] = a.ef /\ a.errfunc = ef[a.th]
      ELSE ef2[a.th] = ef[a.th]
  BY DEF SamePush
<1>5. st[c[Len(c)].th] = "LUA_OK" /\ st[a.th] = "LUA_OK"
  <2>1. c[Len(c)].fn # "lua_resume"
    BY <1>2 DEF LiesOn, CallFrom, UsesApi, RunsCode, Waits
  <2>2. Len(c) \in 1 .. Len(c)
    BY <1>1, StackParts
  <2> QED BY <1>1, <1>2, <2>1, <2>2, Running
<1>6. /\ Saved(d, Len(c) + 1)
      /\ nc2[a.th] = CCallsIn(d, Len(c) + 1)
      /\ ny2[a.th] = NnyIn(d, a.th, Len(c) + 1)
      /\ ah2[a.th] <=> AsideOf(d, a.th, Len(c) + 1) = {}
  BY <1>1, <1>2, <1>5, CountsPushed
<1>7. PushOf(c, f, st, ny, nc, ef, ah, un, d, a, f, ny2, nc2, ef2, ah2)
  BY <1>2, <1>3, <1>6 DEF PushOf
<1>8. FramesPushed(c, f, a, f)
  BY <1>1, <1>2, <1>3, <1>5, SameFrames
<1>9. HandlersPushed(c, f, a, f, ef2)
  BY <1>1, <1>2, <1>4, <1>5, SameHandlers
<1> QED BY <1>7, <1>8, <1>9, PushStep

-----------------------------------------------------------------------------
(* Functions start.                                                        *)

\* The list of frames up to a level, where the frame of the activation a is new
\* or has changed.
RunFrames(g, h, a) ==
  /\ Len(g) = a.level /\ a.level > 0 /\ a.level - 1 <= Len(h)
  /\ \A i \in 1 .. a.level - 1 : g[i] = h[i]
  /\ IF a.fn = "C" THEN ~g[a.level].lua /\ ~g[a.level].ypcall
     ELSE g[a.level].lua /\ g[a.level].fresh

\* The handlers of protected calls below.
LEMMA RunHandlers ==
  ASSUME NEW a \in Activation, NEW g \in Seq(CallInfo), NEW h \in Seq(CallInfo),
         RunFrames(g, h, a)
  PROVE  /\ SameProtected(g, h, a.level - 1) /\ YpcallsUpTo(g, a.level - 1)
         /\ FrameHandler(g, a.level) = FrameHandler(h, a.level - 1)
<1>1. /\ Len(h) \in Nat /\ a.level \in Nat /\ a.level > 0 /\ a.level - 1 \in Nat
      /\ DOMAIN g = 1 .. a.level /\ DOMAIN h = 1 .. Len(h)
  <2>1. a.level \in Nat /\ Len(h) \in Nat /\ DOMAIN h = 1 .. Len(h) /\ DOMAIN g = 1 .. Len(g)
    BY ActivationFields, LenProperties
  <2> QED BY <2>1 DEF RunFrames
<1>2. \A i \in 1 .. a.level - 1 : i \in DOMAIN g /\ i \in DOMAIN h /\ g[i] = h[i]
  BY <1>1 DEF RunFrames
<1>3. a.level \notin Ypcalls(g)
  BY DEF RunFrames, Ypcalls
<1>4. YpcallsUpTo(g, a.level - 1)
  <2>1. \A i \in Ypcalls(g) : i \in 1 .. a.level /\ i # a.level
    BY <1>1, <1>3, YpcallsAre DEF RunFrames
  <2> QED BY <1>1, <2>1 DEF YpcallsUpTo
<1>5. SameProtected(g, h, a.level - 1)
  <2>1. \A i \in 1 .. a.level - 1 : i \in Ypcalls(g) <=> i \in Ypcalls(h)
    BY <1>2 DEF Ypcalls
  <2> QED BY <1>2, <2>1 DEF SameProtected
<1>6. FrameHandler(g, a.level - 1) = FrameHandler(h, a.level - 1)
  <2>1. \A i \in Ypcalls(g) \cup Ypcalls(h) : i <= a.level - 1 => i \in 1 .. a.level - 1
    <3>1. \A i \in Ypcalls(g) : i \in Nat \ {0}
      BY YpcallsAre
    <3>2. \A i \in Ypcalls(h) : i \in Nat \ {0}
      BY YpcallsAre
    <3> QED BY <1>1, <3>1, <3>2
  <2> QED BY <1>5, <2>1, SameHandler
<1>7. FrameHandler(g, a.level) = FrameHandler(g, a.level - 1)
  <2>1. {i \in Ypcalls(g) : i <= a.level} = {i \in Ypcalls(g) : i <= a.level - 1}
    <3>1. \A i \in Ypcalls(g) : i \in Nat /\ i <= a.level /\ i <= a.level - 1
      <4>1. \A i \in Ypcalls(g) : i \in Nat /\ i <= a.level - 1
        BY <1>4, YpcallsAre DEF YpcallsUpTo
      <4> QED BY <1>1, <4>1
    <3> QED BY <3>1
  <2> QED BY <2>1 DEF FrameHandler
<1> QED BY <1>4, <1>5, <1>6, <1>7

\* What runs next in the running thread is pushed, with its frame.
RunPush(c, f, ef, d, a, f2, ef2) ==
  LET t == a.th
      n == Len(c)
  IN  /\ Pushed(c, d, a) /\ a \in Activation /\ t = c[n].th
      /\ a.fn \in {"C", "luaV_execute"} /\ LiesOn(c[n], a)
      /\ c[n].fn # "lua_resume" => Len(f[t]) = a.level - 1
      /\ CCallsIn(c, n) < ErrorCCalls
      /\ OnlyFor(t, f2, f) /\ OnlyFor(t, ef2, ef)
      /\ RunFrames(f2[t], f[t], a)
      /\ ef2[t] = HandlerAt(c, f2, t, n, a.level)

\* Where the activations are that the frame of the new one lies on.
LEMMA RunLevels ==
  ASSUME NEW c \in Seq(Activation), Stack(c), NEW f \in [Thread -> Seq(CallInfo)],
         Frames(c, f), NEW a \in Activation, a.th = c[Len(c)].th, a.level > 0,
         c[Len(c)].fn # "lua_resume" => Len(f[a.th]) = a.level - 1
  PROVE  \A j \in 1 .. Len(c) : c[j].th = a.th => c[j].level \in 0 .. a.level - 1
<1>1. /\ Len(c) \in 1 .. Len(c) /\ a.level \in Nat
      /\ LastFrame(c, f, Len(c)) = Len(f[a.th])
  BY StackParts, ActivationFields DEF LastFrame, LastOfThread
<1>2. CASE c[Len(c)].fn # "lua_resume"
  <2>1. \A j \in 1 .. Len(c) : c[j].th = a.th => c[j].level \in Nat /\ c[j].level <= Len(f[a.th])
    BY <1>1, LevelsRight
  <2> QED BY <1>1, <1>2, <2>1
<1>3. CASE c[Len(c)].fn = "lua_resume"
  <2>1. \A j \in 1 .. Len(c) - 1 : c[j].th # a.th
    BY <1>1, <1>3, ResumeIsFirst
  <2>2. c[Len(c)].level = 0
    BY <1>1, <1>3, StackParts
  <2>3. \A j \in 1 .. Len(c) : j = Len(c) \/ j \in 1 .. Len(c) - 1
    BY <1>1
  <2> QED BY <1>1, <2>1, <2>2, <2>3
<1> QED BY <1>2, <1>3

\* The function that called can go on, or must not be interrupted.
LEMMA RunContinue ==
  ASSUME NEW c \in Seq(Activation), Stack(c), NEW f \in [Thread -> Seq(CallInfo)],
         Frames(c, f), Interruptible(c, f), NEW st, Continuations(c, f, st),
         NEW a \in Activation, a.th = c[Len(c)].th, st[a.th] = "LUA_OK",
         a.fn \in {"C", "luaV_execute"}, LiesOn(c[Len(c)], a),
         c[Len(c)].fn # "lua_resume" => Len(f[a.th]) = a.level - 1,
         NEW f2 \in [Thread -> Seq(CallInfo)], RunFrames(f2[a.th], f[a.th], a)
  PROVE  CanContinue(c, f2, a)
<1> DEFINE g == f2[a.th]
           h == f[a.th]
<1>1. a.th \in Thread /\ Len(c) \in 1 .. Len(c) /\ a.level \in Nat
  BY StackParts, ActivationFields
<1>2. /\ g \in Seq(CallInfo) /\ h \in Seq(CallInfo) /\ DOMAIN g = 1 .. a.level
      /\ DOMAIN h = 1 .. Len(h) /\ Len(h) \in Nat /\ Len(g) = a.level
  <2>1. g \in Seq(CallInfo) /\ h \in Seq(CallInfo)
    BY <1>1
  <2> HIDE DEF g, h
  <2>2. DOMAIN g = 1 .. Len(g) /\ DOMAIN h = 1 .. Len(h) /\ Len(h) \in Nat
    BY <2>1, LenProperties
  <2>3. Len(g) = a.level
    BY DEF RunFrames, g, h
  <2> QED BY <2>1, <2>2, <2>3
<1>3. /\ \A i \in NoContinuation(f, a.th) :
           \/ \E q \in BarsOf(c, a.th) : c[q].level = i
           \/ i = Len(h) /\ ~Unrolling(c, a.th)
      /\ \A i \in Ypcalls(h) :
           /\ \A q \in BarsOf(c, a.th) : c[q].level >= i
           /\ h[i].oah /\ h[i].k = "k"
  <2>1. ContinuationsOf(c, f, st, a.th) /\ ~errorstatus(st[a.th])
    BY <1>1 DEF Continuations, errorstatus, Errors
  <2> QED BY <2>1 DEF ContinuationsOf
<1>4. /\ a.level > 0 /\ a.level - 1 <= Len(h)
      /\ \A i \in 1 .. a.level - 1 : g[i] = h[i] /\ i \in 1 .. Len(h)
      /\ ~(~g[a.level].lua /\ g[a.level].ypcall)
  BY <1>1, <1>2, SMTT(30) DEF RunFrames
<1>5. \A i \in Ypcalls(g) : i \in Ypcalls(h) /\ g[i] = h[i]
  <2>1. SUFFICES ASSUME NEW i \in Ypcalls(g) PROVE i \in Ypcalls(h) /\ g[i] = h[i]
    OBVIOUS
  <2>2. i \in 1 .. a.level /\ ~g[i].lua /\ g[i].ypcall
    BY <1>2 DEF Ypcalls
  <2>3. i \in 1 .. a.level - 1
    BY <1>1, <1>4, <2>2
  <2> QED BY <1>2, <1>4, <2>2, <2>3 DEF Ypcalls
<1>6. ~Bars(a)
  BY DEF Bars
<1>7. ASSUME NEW i \in NoContinuation(f2, a.th)
      PROVE  (\E q \in BarsOf(c, a.th) : c[q].level = i) \/ i = Len(g)
  <2>1. SUFFICES ASSUME i # a.level
                 PROVE  \E q \in BarsOf(c, a.th) : c[q].level = i
    BY <1>2
  <2>2. i \in 1 .. a.level - 1 /\ ~g[i].lua /\ g[i].k # "k"
    BY <1>1, <1>2, <1>7, <2>1 DEF NoContinuation
  <2>3. i \in 1 .. Len(h) /\ ~h[i].lua /\ h[i].k # "k"
    BY <1>4, <2>2
  <2>4. i \in NoContinuation(f, a.th)
    BY <2>3 DEF NoContinuation
  <2>5. SUFFICES ASSUME i = Len(h), ~Unrolling(c, a.th)
                 PROVE  \E q \in BarsOf(c, a.th) : c[q].level = i
    BY <1>3, <2>4
  <2>6. c[Len(c)].fn # "lua_resume"
    BY <2>5 DEF Unrolling, LiesOn
  <2>7. Len(h) = a.level - 1
    BY <2>6
  <2>8. CASE c[Len(c)].fn = "luaV_execute"
    <3>1. /\ c[Len(c)].level <= LastFrame(c, f, Len(c))
          /\ LastFrame(c, f, Len(c)) = Len(h)
      BY <1>1, LevelsRight DEF LastFrame, LastOfThread
    <3>2. c[Len(c)].level \in Nat
      BY <1>1, StackParts
    <3>3. Len(h) \in c[Len(c)].level .. LastFrame(c, f, Len(c))
      BY <1>2, <3>1, <3>2
    <3>4. h[Len(h)].lua
      BY <1>1, <2>8, <3>3 DEF Frames
    <3> QED BY <2>3, <2>5, <3>4
  <2>9. CASE c[Len(c)].fn = "luaD_call"
    <3>1. c[Len(c)].level = i
      <4>1. c[Len(c)].level = LastFrame(c, f, Len(c))
        BY <1>1, <2>9, LevelsRight
      <4> QED BY <2>5, <4>1 DEF LastFrame, LastOfThread
    <3>2. c[Len(c)].noyield
      <4>1. ~c[Len(c)].noyield => h[i].lua \/ h[i].k = "k"
        BY <1>1, <2>9, <3>1 DEF Interruptible
      <4> QED BY <2>3, <4>1
    <3>3. Len(c) \in BarsOf(c, a.th)
      BY <1>1, <2>9, <3>2 DEF BarsOf, Bars
    <3> QED BY <3>1, <3>3
  <2> QED BY <2>6, <2>8, <2>9 DEF LiesOn
<1> QED BY <1>3, <1>5, <1>6, <1>7, SMTT(40) DEF CanContinue

\* The frames, when a function starts or goes on.
LEMMA RunFramesPushed ==
  ASSUME NEW c \in Seq(Activation), Stack(c), NEW f \in [Thread -> Seq(CallInfo)],
         Frames(c, f), Interruptible(c, f), NEW st, Continuations(c, f, st),
         NEW a \in Activation, a.th = c[Len(c)].th, st[a.th] = "LUA_OK",
         a.fn \in {"C", "luaV_execute"}, LiesOn(c[Len(c)], a),
         c[Len(c)].fn # "lua_resume" => Len(f[a.th]) = a.level - 1,
         NEW f2 \in [Thread -> Seq(CallInfo)], RunFrames(f2[a.th], f[a.th], a)
  PROVE  FramesPushed(c, f, a, f2)
<1> DEFINE g == f2[a.th]
           h == f[a.th]
<1>1. /\ a.level \in Nat /\ a.level > 0 /\ a.level - 1 <= Len(h) /\ Len(g) = a.level
      /\ \A i \in 1 .. a.level - 1 : g[i] = h[i]
  BY ActivationFields DEF RunFrames
<1>2. \A j \in 1 .. Len(c) : c[j].th = a.th => c[j].level \in 0 .. a.level - 1
  BY <1>1, RunLevels
<1>3. CanContinue(c, f2, a)
  BY RunContinue
<1>4. c[Len(c)].fn # "lua_resume" => Base(a) = Len(h) /\ KindsUpTo(g, h, Len(h))
  <2>1. SUFFICES ASSUME c[Len(c)].fn # "lua_resume"
                 PROVE  Base(a) = Len(h) /\ KindsUpTo(g, h, Len(h))
    OBVIOUS
  <2>2. Len(h) = a.level - 1
    BY <2>1
  <2> QED BY <1>1, <2>2 DEF Base, KindsUpTo, SameKind
<1>5. a.fn = "C" => ~g[a.level].lua /\ ~g[a.level].ypcall
  BY DEF RunFrames
<1>6. a.fn = "luaV_execute" => ExecutesFrom(g, a.level)
  <2>1. SUFFICES ASSUME a.fn = "luaV_execute" PROVE ExecutesFrom(g, a.level)
    OBVIOUS
  <2>2. g[a.level].lua /\ g[a.level].fresh
    BY <2>1 DEF RunFrames
  <2>3. \A i \in a.level .. Len(g) : i = a.level
    BY <1>1
  <2> QED BY <2>2, <2>3 DEF ExecutesFrom
<1>7. CallersKept(c, a.th, Len(c), f2, f)
  <2>1. SUFFICES ASSUME NEW j \in 1 .. Len(c), c[j].th = a.th, c[j].level > 0
                 PROVE  f2[c[j].th][c[j].level] = f[c[j].th][c[j].level]
    BY DEF CallersKept
  <2>2. c[j].level \in 1 .. a.level - 1
    BY <1>1, <1>2, <2>1
  <2> QED BY <1>1, <2>1, <2>2
<1>8. PcallAdded(c, a, f2, f)
  <2>1. SUFFICES ASSUME NEW j \in 1 .. Len(c), c[j].th = a.th, c[j].level > 0,
                        f2[c[j].th][c[j].level].ypcall
                 PROVE  f[c[j].th][c[j].level].ypcall
    BY DEF PcallAdded
  <2>2. c[j].level \in 1 .. a.level - 1
    BY <1>1, <1>2, <2>1
  <2> QED BY <1>1, <2>1, <2>2
<1>9. a.level <= Len(g) /\ a.level = Len(g)
  BY <1>1
<1> QED BY <1>3, <1>4, <1>5, <1>6, <1>7, <1>8, <1>9 DEF FramesPushed

\* The message handlers, when a function starts or goes on.
LEMMA RunHandlersPushed ==
  ASSUME NEW c \in Seq(Activation), Stack(c), NEW f \in [Thread -> Seq(CallInfo)],
         Frames(c, f),
         NEW a \in Activation, a.th = c[Len(c)].th,
         a.fn \in {"C", "luaV_execute"},
         c[Len(c)].fn # "lua_resume" => Len(f[a.th]) = a.level - 1,
         NEW f2 \in [Thread -> Seq(CallInfo)], RunFrames(f2[a.th], f[a.th], a),
         NEW ef2, ef2[a.th] = HandlerAt(c, f2, a.th, Len(c), a.level)
  PROVE  HandlersPushed(c, f, a, f2, ef2)
<1>1. /\ f2[a.th] \in Seq(CallInfo) /\ f[a.th] \in Seq(CallInfo)
      /\ a.level \in Nat /\ a.level > 0 /\ a.level - 1 \in Nat
      /\ Len(f2[a.th]) = a.level
  <2>1. a.th \in Thread /\ a.level \in Nat
    BY ActivationFields
  <2>2. a.level > 0 /\ Len(f2[a.th]) = a.level
    BY DEF RunFrames
  <2> QED BY <2>1, <2>2
<1>2. SameProtected(f2[a.th], f[a.th], a.level - 1) /\ YpcallsUpTo(f2[a.th], a.level - 1)
  BY <1>1, RunHandlers
<1>3. OldHandlers(f2[a.th], a.level - 1)
  BY <1>2 DEF OldHandlers, YpcallsUpTo
<1>4. PcallsUpTo(c, a.th, Len(c), a.level - 1)
  <2>1. \A j \in 1 .. Len(c) : c[j].th = a.th => c[j].level \in 0 .. a.level - 1
    BY <1>1, RunLevels
  <2> QED BY <1>1, <2>1 DEF PcallsUpTo, PcallsOf
<1> QED BY <1>1, <1>2, <1>3, <1>4 DEF HandlersPushed

\* A function starts, goes on, or gets its continuation called.
LEMMA RunStep ==
  ASSUME NEW c, NEW f, NEW st, NEW ny, NEW nc, NEW ef, NEW ah, NEW un,
         Inv(c, f, st, ny, nc, ef, ah, un), NEW d, NEW a, NEW f2, NEW ef2,
         Typed(d, f2, st, ny, nc, ef2, ah, un), RunPush(c, f, ef, d, a, f2, ef2),
         c[Len(c)].fn = "lua_resume" => c[Len(c)].entered
  PROVE  Inv(d, f2, st, ny, nc, ef2, ah, un)
<1>1. /\ Stack(c) /\ Frames(c, f)
      /\ Interruptible(c, f) /\ Continuations(c, f, st)
      /\ CallsCounted(c, nc) /\ NnyCounted(c, ny)
      /\ Handlers(c, f, st, ef) /\ HooksRight(c, st, ah)
      /\ ThreadsRight(c, f, st, un)
      /\ c \in Seq(Activation) /\ f \in [Thread -> Seq(CallInfo)]
      /\ f2 \in [Thread -> Seq(CallInfo)]
  BY DEF Inv, Typed
<1>2. /\ Pushed(c, d, a) /\ a \in Activation /\ a.th = c[Len(c)].th
      /\ a.fn \in {"C", "luaV_execute"} /\ LiesOn(c[Len(c)], a)
      /\ c[Len(c)].fn # "lua_resume" => Len(f[a.th]) = a.level - 1
      /\ CCallsIn(c, Len(c)) < ErrorCCalls
      /\ OnlyFor(a.th, f2, f) /\ OnlyFor(a.th, ef2, ef)
      /\ RunFrames(f2[a.th], f[a.th], a)
      /\ ef2[a.th] = HandlerAt(c, f2, a.th, Len(c), a.level)
  BY DEF RunPush
<1>3. st[c[Len(c)].th] = "LUA_OK" /\ st[a.th] = "LUA_OK"
  <2>2. Len(c) \in 1 .. Len(c)
    BY <1>1, StackParts
  <2> QED BY <1>1, <1>2, <2>2, Running
<1>4. /\ OnlyFor(a.th, ny, ny) /\ OnlyFor(a.th, nc, nc) /\ OnlyFor(a.th, ah, ah)
      /\ CountsAs(a, ny, nc, ah, ny, nc, ah) /\ a.fn # "lua_resume"
  BY <1>2 DEF OnlyFor, CountsAs, Bars
<1>5. /\ Saved(d, Len(c) + 1)
      /\ nc[a.th] = CCallsIn(d, Len(c) + 1)
      /\ ny[a.th] = NnyIn(d, a.th, Len(c) + 1)
      /\ ah[a.th] <=> AsideOf(d, a.th, Len(c) + 1) = {}
  BY <1>1, <1>2, <1>3, <1>4, CountsPushed
<1>6. PushOf(c, f, st, ny, nc, ef, ah, un, d, a, f2, ny, nc, ef2, ah)
  BY <1>2, <1>4, <1>5 DEF PushOf
<1>7. FramesPushed(c, f, a, f2)
  BY <1>1, <1>2, <1>3, RunFramesPushed
<1>8. HandlersPushed(c, f, a, f2, ef2)
  BY <1>1, <1>2, RunHandlersPushed
<1> QED BY <1>6, <1>7, <1>8, PushStep

\* Each thread has a list of frames.
FramesTyped(f) == f \in [Thread -> Seq(CallInfo)]

\* A called function finds the handler of its caller.
LEMMA RunsWithHandler ==
  ASSUME NEW c \in Seq(Activation), Stack(c), NEW f, FramesTyped(f),
         NEW st, NEW ef, Handlers(c, f, st, ef),
         NEW a \in Activation, a.th = c[Len(c)].th, st[a.th] = "LUA_OK",
         NEW f2, FramesTyped(f2),
         NEW g, g = f2[a.th], NEW h, h = f[a.th], RunFrames(g, h, a),
         Len(h) = a.level - 1
  PROVE  ef[a.th] = HandlerAt(c, f2, a.th, Len(c), a.level)
<1>1. /\ a.th \in Thread /\ f2[a.th] \in Seq(CallInfo) /\ f[a.th] \in Seq(CallInfo)
      /\ Len(c) \in Nat
  BY ActivationFields, StackParts DEF FramesTyped
<1>2. HandlersOf(c, f, st, ef, a.th)
  BY <1>1, HandlersParts
<1>3. ef[a.th] = HandlerAt(c, f, a.th, Len(c), a.level - 1)
  BY <1>2 DEF HandlersOf, errorstatus, Errors
<1>4. FrameHandler(f2[a.th], a.level) = FrameHandler(f[a.th], a.level - 1)
  BY <1>1, RunHandlers
<1> QED BY <1>3, <1>4 DEF HandlerAt

\* A function that lua_resume goes on with finds the handler of the protected
\* calls below; its own protected call is over.
LEMMA ResumesWithHandler ==
  ASSUME NEW c \in Seq(Activation), Stack(c), c[Len(c)].fn = "lua_resume",
         NEW f, FramesTyped(f),
         NEW st, NEW ef, Handlers(c, f, st, ef),
         NEW a \in Activation, a.th = c[Len(c)].th, st[a.th] = "LUA_OK",
         NEW f2, FramesTyped(f2),
         NEW g, g = f2[a.th], NEW h, h = f[a.th], RunFrames(g, h, a),
         Len(h) = a.level
  PROVE  HandlerAt(c, f2, a.th, Len(c), a.level) =
           IF a.level \in Ypcalls(h) THEN h[a.level].old_errfunc ELSE ef[a.th]
<1>1. /\ a.th \in Thread /\ f2[a.th] \in Seq(CallInfo) /\ f[a.th] \in Seq(CallInfo)
      /\ Len(c) \in 1 .. Len(c) /\ a.level \in Nat
  BY ActivationFields, StackParts DEF FramesTyped
<1>2. HandlersOf(c, f, st, ef, a.th)
  BY <1>1, HandlersParts
<1>3. /\ ef[a.th] = HandlerAt(c, f, a.th, Len(c), a.level)
      /\ \A i \in Ypcalls(f[a.th]) : f[a.th][i].old_errfunc = FrameHandler(f[a.th], i - 1)
  BY <1>2 DEF HandlersOf, errorstatus, Errors
<1>4. PcallsOf(c, a.th, Len(c)) = {}
  <2>1. \A i \in 1 .. Len(c) - 1 : c[i].th # a.th
    BY <1>1, ResumeIsFirst
  <2>2. \A i \in 1 .. Len(c) : i = Len(c) \/ i \in 1 .. Len(c) - 1
    BY <1>1
  <2> QED BY <2>1, <2>2 DEF PcallsOf
<1>5. FrameHandler(f2[a.th], a.level) = FrameHandler(f[a.th], a.level - 1)
  BY <1>1, RunHandlers
<1>6. ASSUME a.level \notin Ypcalls(f[a.th])
      PROVE  FrameHandler(f[a.th], a.level) = FrameHandler(f[a.th], a.level - 1)
  <2>1. \A i \in Ypcalls(f[a.th]) : i \in Nat /\ i # a.level
    BY <1>1, <1>6, YpcallsAre
  <2>2. \A i \in Ypcalls(f[a.th]) : i <= a.level <=> i <= a.level - 1
    BY <1>1, <2>1
  <2>3. {i \in Ypcalls(f[a.th]) : i <= a.level} = {i \in Ypcalls(f[a.th]) : i <= a.level - 1}
    BY <2>2
  <2> QED BY <2>3 DEF FrameHandler
<1> QED BY <1>3, <1>4, <1>5, <1>6 DEF HandlerAt

-----------------------------------------------------------------------------
(* Calls that can be interrupted.                                          *)

\* Nor is it in a hook or a finalizer.
LEMMA NoAside ==
  ASSUME NEW c \in Seq(Activation), Stack(c), c[Len(c)].fn = "C",
         NnyIn(c, c[Len(c)].th, Len(c)) = 0
  PROVE  AsideOf(c, c[Len(c)].th, Len(c)) = {}
<1> DEFINE A == AsideOf(c, c[Len(c)].th, Len(c))
           q == Max(A)
<1>1. SUFFICES ASSUME A # {} PROVE FALSE
  OBVIOUS
<1>2. Len(c) \in Nat /\ Len(c) \in 1 .. Len(c)
  BY StackParts
<1>3. q \in A /\ \A i \in A : i <= q
  <2>1. A \in SUBSET (1 .. Len(c))
    BY DEF AsideOf
  <2> HIDE DEF A
  <2> QED BY <1>1, <1>2, <2>1, LastPosition
<1> HIDE DEF q
<1>4. q \in 1 .. Len(c) /\ c[q].fn \in {"hook", "GCTM"} /\ c[q].th = c[Len(c)].th
  BY <1>3 DEF AsideOf
<1>5. q < Len(c) /\ q + 1 \in 2 .. Len(c) /\ q + 1 \in 1 .. Len(c) /\ (q + 1) - 1 = q
      /\ q + 1 \in q .. Len(c) /\ ~(q + 1 <= q) /\ q <= Len(c)
  BY <1>2, <1>4
<1>6. c[q + 1].th = c[q].th
  BY <1>2, <1>4, <1>5 DEF Stack
<1>7. c[q + 1].fn # "lua_resume" /\ LiesOn(c[q], c[q + 1])
  BY <1>5, <1>6 DEF Stack
<1>8. ~Bars(c[q + 1])
  BY <1>2, <1>4, <1>5, <1>6, NothingBarred
<1>9. PcallsOf(c, c[Len(c)].th, Len(c)) = {}
  BY <1>2, NoPcalls
<1>10. c[q + 1].fn # "luaD_pcall"
  BY <1>4, <1>5, <1>6, <1>9 DEF PcallsOf
<1>11. c[q + 1].fn \notin {"hook", "GCTM"}
  BY <1>3, <1>4, <1>5, <1>6 DEF AsideOf
<1>12. c[q + 1].fn # "luaD_call"
  <2>1. SUFFICES ASSUME c[q + 1].fn = "luaD_call"
                 PROVE  FALSE
    OBVIOUS
  <2>2. CallFrom(c[q], c[q + 1]) /\ ~c[q + 1].noyield
    BY <1>7, <1>8, <2>1 DEF LiesOn, Bars
  <2> QED BY <1>4, <2>2 DEF CallFrom, UsesApi, RunsCode, Waits
<1> QED BY <1>4, <1>7, <1>10, <1>11, <1>12 DEF LiesOn

\* A C function with a continuation calls, where a yield is allowed; with
\* protect, errors as well.
YieldablePush(c, f, ny, ef, d, a, f2, ef2) ==
  LET t == a.th
      n == Len(c)
      frame == f[t][a.level]
      frame2 == f2[t][a.level]
  IN  /\ Pushed(c, d, a) /\ a \in Activation /\ t = c[n].th
      /\ a.fn = "luaD_call" /\ ~a.noyield /\ ~a.entered
      /\ c[n].fn = "C" /\ c[n].level > 0 /\ a.level = c[n].level
      /\ a.caller \in {"callk", "pcallk"} /\ ny[t] = 0
      /\ CCallsIn(c, n) < ErrorCCalls
      /\ OnlyFor(t, f2, f) /\ OnlyFor(t, ef2, ef)
      /\ Len(f2[t]) = Len(f[t])
      /\ \A i \in 1 .. Len(f[t]) : i # a.level => f2[t][i] = f[t][i]
      /\ ~frame2.lua /\ frame2.k = "k"
      /\ IF a.caller = "callk"
         THEN /\ frame2.ypcall = frame.ypcall
              /\ ef2[t] = ef[t]
         ELSE /\ frame2.ypcall /\ frame2.oah /\ frame2.old_errfunc = ef[t]
              /\ ef2[t] = IF frame2.handler THEN HandlerOf(a.level) ELSE 0

\* What there is where a C function can make such a call.
LEMMA Yieldable ==
  ASSUME NEW c \in Seq(Activation), Stack(c), NEW f \in [Thread -> Seq(CallInfo)],
         Frames(c, f), Interruptible(c, f), NEW ny, NnyCounted(c, ny),
         c[Len(c)].fn = "C", c[Len(c)].level > 0, ny[c[Len(c)].th] = 0
  PROVE  /\ PcallsOf(c, c[Len(c)].th, Len(c)) = {}
         /\ AsideOf(c, c[Len(c)].th, Len(c)) = {}
         /\ \A j \in 1 .. Len(c) : c[j].th = c[Len(c)].th => ~Bars(c[j])
         /\ Len(f[c[Len(c)].th]) = c[Len(c)].level
         /\ ~f[c[Len(c)].th][c[Len(c)].level].lua
         /\ ~f[c[Len(c)].th][c[Len(c)].level].ypcall
         /\ \A j \in 1 .. Len(c) - 1 :
              c[j].th = c[Len(c)].th => c[j].level \in 0 .. c[Len(c)].level - 1
<1>1. /\ Len(c) \in 1 .. Len(c) /\ Len(c) \in Nat /\ c[Len(c)].th \in Thread
      /\ LastOfThread(c, Len(c)) /\ c[Len(c)].level \in Nat
  BY StackParts DEF LastOfThread
<1>2. NnyIn(c, c[Len(c)].th, Len(c)) = 0
  BY <1>1, OnTheStack DEF NnyCounted
<1>3. PcallsOf(c, c[Len(c)].th, Len(c)) = {}
  BY <1>2, NoPcalls
<1>4. AsideOf(c, c[Len(c)].th, Len(c)) = {}
  BY <1>2, NoAside
<1>5. \A j \in 1 .. Len(c) : c[j].th = c[Len(c)].th => ~Bars(c[j])
  BY <1>1, <1>2, NothingBarred
<1>6. Len(f[c[Len(c)].th]) = c[Len(c)].level /\ ~f[c[Len(c)].th][c[Len(c)].level].lua
  BY <1>1 DEF Frames
<1>7. ~f[c[Len(c)].th][c[Len(c)].level].ypcall
  BY <1>1 DEF Interruptible
<1>8. ASSUME NEW j \in 1 .. Len(c) - 1, c[j].th = c[Len(c)].th
      PROVE  c[j].level \in 0 .. c[Len(c)].level - 1
  <2>1. c[j].level <= Base(c[Len(c)])
    BY <1>1, <1>8, SameThread
  <2>2. c[j].level \in Nat
    BY <1>1, <1>8, StackParts
  <2> QED BY <1>1, <2>1, <2>2 DEF Base
<1> QED BY <1>3, <1>4, <1>5, <1>6, <1>7, <1>8

\* The frames, when a call with a continuation is pushed.
LEMMA YieldableFrames ==
  ASSUME NEW c \in Seq(Activation), Stack(c), NEW f \in [Thread -> Seq(CallInfo)],
         Frames(c, f), Interruptible(c, f), NEW st, Continuations(c, f, st),
         NEW ny, NnyCounted(c, ny), st[c[Len(c)].th] = "LUA_OK",
         NEW ef, NEW d, NEW a, NEW f2 \in [Thread -> Seq(CallInfo)], NEW ef2,
         YieldablePush(c, f, ny, ef, d, a, f2, ef2)
  PROVE  FramesPushed(c, f, a, f2)
<1> DEFINE g == f2[a.th]
           h == f[a.th]
<1>1. /\ a \in Activation /\ a.th = c[Len(c)].th /\ a.fn = "luaD_call"
      /\ ~a.noyield /\ c[Len(c)].fn = "C" /\ c[Len(c)].level > 0
      /\ a.level = c[Len(c)].level /\ ny[a.th] = 0
      /\ Len(g) = Len(h) /\ a.caller \in {"callk", "pcallk"}
      /\ \A i \in 1 .. Len(h) : i # a.level => g[i] = h[i]
      /\ ~g[a.level].lua /\ g[a.level].k = "k"
      /\ IF a.caller = "callk" THEN g[a.level].ypcall = h[a.level].ypcall
         ELSE g[a.level].ypcall /\ g[a.level].oah
  BY DEF YieldablePush
<1>2. /\ PcallsOf(c, a.th, Len(c)) = {}
      /\ \A j \in 1 .. Len(c) : c[j].th = a.th => ~Bars(c[j])
      /\ Len(h) = a.level /\ ~h[a.level].lua /\ ~h[a.level].ypcall
      /\ \A j \in 1 .. Len(c) - 1 : c[j].th = a.th => c[j].level \in 0 .. a.level - 1
  <2> HIDE DEF g, h
  <2>1. /\ PcallsOf(c, c[Len(c)].th, Len(c)) = {}
        /\ \A j \in 1 .. Len(c) : c[j].th = c[Len(c)].th => ~Bars(c[j])
        /\ Len(f[c[Len(c)].th]) = c[Len(c)].level
        /\ ~f[c[Len(c)].th][c[Len(c)].level].lua
        /\ ~f[c[Len(c)].th][c[Len(c)].level].ypcall
        /\ \A j \in 1 .. Len(c) - 1 :
             c[j].th = c[Len(c)].th => c[j].level \in 0 .. c[Len(c)].level - 1
    BY <1>1, Yieldable
  <2> QED BY <1>1, <2>1 DEF h
<1>3. /\ a.th \in Thread /\ a.level \in Nat /\ a.level > 0 /\ Len(c) \in 1 .. Len(c)
      /\ Len(c) \in Nat
  BY <1>1, ActivationFields, StackParts
<1>4. /\ g \in Seq(CallInfo) /\ h \in Seq(CallInfo) /\ DOMAIN g = 1 .. a.level
      /\ DOMAIN h = 1 .. a.level
  <2>1. g \in Seq(CallInfo) /\ h \in Seq(CallInfo)
    BY <1>3
  <2>2. DOMAIN g = 1 .. Len(g) /\ DOMAIN h = 1 .. Len(h)
    BY <2>1, LenProperties
  <2> QED BY <1>1, <1>2, <2>1, <2>2
<1>5. \A i \in 1 .. a.level : i = a.level \/ g[i] = h[i]
  BY <1>1, <1>2
<1>6. Base(a) = Len(h) /\ KindsUpTo(g, h, Len(h))
  <2>1. Base(a) = Len(h)
    BY <1>1, <1>2 DEF Base
  <2>2. h[a.level] \in CallInfo /\ g[a.level] \in CallInfo
    BY <1>3, <1>4
  <2>3. h[a.level].lua = g[a.level].lua
    <3>1. h[a.level].lua \in BOOLEAN
      BY <2>2, FrameFields
    <3>2. g[a.level].lua \in BOOLEAN
      BY <2>2, FrameFields
    <3> HIDE DEF g, h
    <3> QED BY <1>1, <1>2, <3>1, <3>2
  <2>4. ASSUME NEW i \in 1 .. a.level PROVE SameKind(g[i], h[i])
    <3> HIDE DEF g, h
    <3> QED BY <1>1, <1>5, <2>3 DEF SameKind
  <2> QED BY <1>2, <2>1, <2>4 DEF KindsUpTo
<1>7. CallersKept(c, a.th, Len(c), f2, f)
  <2>1. SUFFICES ASSUME NEW j \in 1 .. Len(c), c[j].th = a.th, c[j].level > 0,
                        c[j].fn = "luaD_call"
                 PROVE  g[c[j].level] = h[c[j].level]
    BY DEF CallersKept
  <2>2. j \in 1 .. Len(c) - 1
    BY <1>1, <1>3, <2>1
  <2>3. c[j].level \in 1 .. a.level /\ c[j].level # a.level
    BY <1>2, <1>3, <2>1, <2>2
  <2> QED BY <1>5, <2>3
<1>8. PcallAdded(c, a, f2, f)
  <2>1. SUFFICES ASSUME NEW j \in 1 .. Len(c), c[j].th = a.th, c[j].level > 0,
                        g[c[j].level].ypcall
                 PROVE  h[c[j].level].ypcall \/ (j = Len(c) /\ a.caller = "pcallk")
    BY <1>1 DEF PcallAdded
  <2>2. CASE j = Len(c)
    BY <1>1, <1>2, <2>1, <2>2
  <2>3. CASE j # Len(c)
    <3>1. j \in 1 .. Len(c) - 1
      BY <1>3, <2>3
    <3>2. c[j].level \in 1 .. a.level /\ c[j].level # a.level
      BY <1>2, <1>3, <2>1, <3>1, SMTT(30)
    <3> QED BY <1>5, <2>1, <3>2
  <2> QED BY <2>2, <2>3
<1>9. CanInterrupt(a, g[a.level], PcallsOf(c, a.th, Len(c)))
  BY <1>1, <1>2, <1>3 DEF CanInterrupt
<1>10. CanContinue(c, f2, a)
  <2>1. /\ \A i \in NoContinuation(f, a.th) :
             (\E q \in BarsOf(c, a.th) : c[q].level = i) \/ i = Len(h)
        /\ \A i \in Ypcalls(h) : h[i].oah /\ h[i].k = "k"
    <3>1. ContinuationsOf(c, f, st, a.th) /\ ~errorstatus(st[a.th])
      BY <1>1, <1>3 DEF Continuations, errorstatus, Errors
    <3> QED BY <3>1 DEF ContinuationsOf
  <2>2. BarsOf(c, a.th) = {}
    BY <1>2 DEF BarsOf
  <2>3. ASSUME NEW i \in NoContinuation(f2, a.th)
        PROVE  FALSE
    <3>1. i \in 1 .. a.level /\ ~g[i].lua /\ g[i].k # "k"
      BY <1>1, <1>2, <2>3 DEF NoContinuation
    <3>2. i # a.level /\ g[i] = h[i]
      BY <1>1, <1>5, <3>1
    <3>3. i \in NoContinuation(f, a.th)
      BY <1>2, <3>1, <3>2 DEF NoContinuation
    <3> QED BY <1>2, <2>1, <2>2, <3>2, <3>3
  <2>4. ASSUME NEW i \in Ypcalls(g)
        PROVE  g[i].oah /\ g[i].k = "k"
    <3>1. i \in 1 .. a.level /\ ~g[i].lua /\ g[i].ypcall
      BY <1>4, <2>4 DEF Ypcalls
    <3>2. CASE i = a.level
      BY <1>1, <1>2, <3>1, <3>2
    <3>3. CASE i # a.level
      <4>1. g[i] = h[i]
        BY <1>5, <3>1, <3>3
      <4>2. i \in Ypcalls(h)
        BY <1>4, <3>1, <4>1 DEF Ypcalls
      <4> QED BY <2>1, <4>1, <4>2
    <3> QED BY <3>2, <3>3
  <2>5. ~Bars(a)
    BY <1>1 DEF Bars
  <2> QED BY <2>2, <2>3, <2>4, <2>5 DEF CanContinue
<1>11. a.level <= Len(g) /\ a.level = Len(g)
  BY <1>1, <1>2, <1>3
<1> QED BY <1>1, <1>6, <1>7, <1>8, <1>9, <1>10, <1>11 DEF FramesPushed

\* The message handlers, when a call with a continuation is pushed.
LEMMA YieldableHandlers ==
  ASSUME NEW c \in Seq(Activation), Stack(c), NEW f \in [Thread -> Seq(CallInfo)],
         Frames(c, f), Interruptible(c, f), NEW st,
         NEW ny, NnyCounted(c, ny), st[c[Len(c)].th] = "LUA_OK",
         NEW ef, Handlers(c, f, st, ef),
         NEW d, NEW a, NEW f2 \in [Thread -> Seq(CallInfo)], NEW ef2,
         YieldablePush(c, f, ny, ef, d, a, f2, ef2)
  PROVE  HandlersPushed(c, f, a, f2, ef2)
<1> DEFINE g == f2[a.th]
           h == f[a.th]
<1>1. /\ a \in Activation /\ a.th = c[Len(c)].th /\ a.fn = "luaD_call"
      /\ ~a.noyield /\ c[Len(c)].fn = "C" /\ c[Len(c)].level > 0
      /\ a.level = c[Len(c)].level /\ ny[a.th] = 0
      /\ Len(g) = Len(h) /\ a.caller \in {"callk", "pcallk"}
      /\ \A i \in 1 .. Len(h) : i # a.level => g[i] = h[i]
      /\ ~g[a.level].lua
      /\ IF a.caller = "callk"
         THEN g[a.level].ypcall = h[a.level].ypcall /\ ef2[a.th] = ef[a.th]
         ELSE /\ g[a.level].ypcall /\ g[a.level].old_errfunc = ef[a.th]
              /\ ef2[a.th] = IF g[a.level].handler THEN HandlerOf(a.level) ELSE 0
  BY DEF YieldablePush
<1>2. /\ PcallsOf(c, a.th, Len(c)) = {}
      /\ Len(h) = a.level /\ ~h[a.level].lua /\ ~h[a.level].ypcall
  <2> HIDE DEF g, h
  <2>1. /\ PcallsOf(c, c[Len(c)].th, Len(c)) = {}
        /\ Len(f[c[Len(c)].th]) = c[Len(c)].level
        /\ ~f[c[Len(c)].th][c[Len(c)].level].lua
        /\ ~f[c[Len(c)].th][c[Len(c)].level].ypcall
    BY <1>1, Yieldable
  <2> QED BY <1>1, <2>1 DEF h
<1>3. /\ a.th \in Thread /\ a.level \in Nat /\ a.level > 0 /\ a.level - 1 \in Nat
  BY <1>1, ActivationFields
<1>4. /\ g \in Seq(CallInfo) /\ h \in Seq(CallInfo) /\ DOMAIN g = 1 .. a.level
      /\ DOMAIN h = 1 .. a.level
  <2>1. g \in Seq(CallInfo) /\ h \in Seq(CallInfo)
    BY <1>3
  <2>2. DOMAIN g = 1 .. Len(g) /\ DOMAIN h = 1 .. Len(h)
    BY <2>1, LenProperties
  <2> QED BY <1>1, <1>2, <2>1, <2>2
<1>5. HandlersOf(c, f, st, ef, a.th)
  BY <1>3, HandlersParts
<1>6. /\ ef[a.th] = FrameHandler(h, a.level)
      /\ \A i \in Ypcalls(h) : h[i].old_errfunc = FrameHandler(h, i - 1)
  <2>1. /\ ef[a.th] = HandlerAt(c, f, a.th, Len(c), Len(h))
        /\ \A i \in Ypcalls(h) : h[i].old_errfunc = FrameHandler(h, i - 1)
    BY <1>1, <1>5 DEF HandlersOf, errorstatus, Errors
  <2> QED BY <1>2, <2>1 DEF HandlerAt
<1>7. \A i \in 1 .. a.level - 1 : i \in 1 .. a.level /\ g[i] = h[i]
  BY <1>1, <1>2, <1>3
<1>8. SameProtected(g, h, a.level - 1)
  <2>1. \A i \in 1 .. a.level - 1 : i \in Ypcalls(g) <=> i \in Ypcalls(h)
    BY <1>4, <1>7 DEF Ypcalls
  <2> QED BY <1>7, <2>1 DEF SameProtected
<1>9. /\ FrameHandler(g, a.level - 1) = FrameHandler(h, a.level - 1)
      /\ FrameHandler(h, a.level) = FrameHandler(h, a.level - 1)
  <2>1. \A i \in Ypcalls(h) : i \in 1 .. a.level /\ i # a.level
    BY <1>2, <1>4 DEF Ypcalls
  <2>2. \A i \in Ypcalls(g) : i \in 1 .. a.level
    BY <1>4 DEF Ypcalls
  <2>3. \A i \in Ypcalls(g) \cup Ypcalls(h) : i <= a.level - 1 => i \in 1 .. a.level - 1
    BY <1>3, <2>1, <2>2
  <2>4. FrameHandler(g, a.level - 1) = FrameHandler(h, a.level - 1)
    <3> HIDE DEF g, h
    <3> QED BY <1>4, <1>8, <2>3, SameHandler
  <2>5. {i \in Ypcalls(h) : i <= a.level} = {i \in Ypcalls(h) : i <= a.level - 1}
    BY <1>3, <2>1
  <2> QED BY <2>4, <2>5 DEF FrameHandler
<1>10. OldHandlers(g, a.level - 1)
  <2>1. SUFFICES ASSUME NEW i \in Ypcalls(g), ~(i <= a.level - 1)
                 PROVE  g[i].old_errfunc = FrameHandler(g, i - 1)
    BY DEF OldHandlers
  <2>2. i \in 1 .. a.level /\ ~g[i].lua /\ g[i].ypcall
    BY <1>4, <2>1 DEF Ypcalls
  <2>3. i = a.level
    BY <1>3, <2>1, <2>2
  <2>4. a.caller = "pcallk"
    BY <1>1, <1>2, <2>2, <2>3
  <2>5. g[i].old_errfunc = ef[a.th]
    BY <1>1, <2>3, <2>4
  <2> QED BY <1>6, <1>9, <2>3, <2>5
<1>11. PcallsUpTo(c, a.th, Len(c), a.level - 1)
  BY <1>2 DEF PcallsUpTo
<1>12. ef2[a.th] = HandlerAt(c, f2, a.th, Len(c), Len(g))
  <2>1. SUFFICES ef2[a.th] = FrameHandler(g, a.level)
    BY <1>1, <1>2 DEF HandlerAt
  <2>2. CASE a.caller = "callk"
    <3>1. a.level \notin Ypcalls(g)
      BY <1>1, <1>2, <2>2 DEF Ypcalls
    <3>2. \A i \in Ypcalls(g) : i \in 1 .. a.level /\ i # a.level
      BY <1>4, <3>1 DEF Ypcalls
    <3>3. {i \in Ypcalls(g) : i <= a.level} = {i \in Ypcalls(g) : i <= a.level - 1}
      BY <1>3, <3>2
    <3>4. FrameHandler(g, a.level) = FrameHandler(g, a.level - 1)
      BY <3>3 DEF FrameHandler
    <3>5. ef2[a.th] = ef[a.th]
      BY <1>1, <2>2
    <3> QED BY <1>6, <1>9, <3>4, <3>5
  <2>3. CASE a.caller = "pcallk"
    <3>1. /\ g[a.level].ypcall
          /\ ef2[a.th] = IF g[a.level].handler THEN HandlerOf(a.level) ELSE 0
      BY <1>1, <2>3
    <3> DEFINE Y == {i \in Ypcalls(g) : i <= a.level}
    <3>2. a.level \in Y
      <4>1. a.level \in 1 .. a.level /\ ~g[a.level].lua
        BY <1>1, <1>3
      <4> QED BY <1>3, <1>4, <3>1, <4>1 DEF Ypcalls
    <3>3. \A i \in Y : i \in 1 .. a.level
      BY <1>4 DEF Ypcalls
    <3>4. Max(Y) = a.level
      <4> HIDE DEF Y
      <4>1. Max(Y) \in Y /\ \A i \in Y : i <= Max(Y)
        <5>1. Y \in SUBSET (1 .. a.level) /\ Y # {}
          BY <3>2, <3>3
        <5> QED BY <1>3, <5>1, LastPosition
      <4>2. Max(Y) \in 1 .. a.level /\ a.level <= Max(Y)
        BY <3>2, <3>3, <4>1
      <4> QED BY <1>3, <4>2
    <3>5. FrameHandler(g, a.level) = IF g[a.level].handler THEN HandlerOf(a.level) ELSE 0
      BY <3>2, <3>4 DEF FrameHandler
    <3> QED BY <3>1, <3>5
  <2> QED BY <1>1, <2>2, <2>3
<1> QED BY <1>1, <1>3, <1>8, <1>10, <1>11, <1>12 DEF HandlersPushed

\* lua_callk and lua_pcallk with a continuation: the invariant holds again.
LEMMA YieldableStep ==
  ASSUME NEW c, NEW f, NEW st, NEW ny, NEW nc, NEW ef, NEW ah, NEW un,
         Inv(c, f, st, ny, nc, ef, ah, un), NEW d, NEW a, NEW f2, NEW nc2, NEW ef2,
         Typed(d, f2, st, ny, nc2, ef2, ah, un),
         YieldablePush(c, f, ny, ef, d, a, f2, ef2),
         OnlyFor(a.th, nc2, nc), nc2[a.th] = nc[a.th] + 1
  PROVE  Inv(d, f2, st, ny, nc2, ef2, ah, un)
<1>1. /\ Stack(c) /\ Frames(c, f)
      /\ Interruptible(c, f) /\ Continuations(c, f, st)
      /\ CallsCounted(c, nc) /\ NnyCounted(c, ny)
      /\ Handlers(c, f, st, ef) /\ HooksRight(c, st, ah)
      /\ ThreadsRight(c, f, st, un)
      /\ c \in Seq(Activation) /\ f \in [Thread -> Seq(CallInfo)]
      /\ f2 \in [Thread -> Seq(CallInfo)]
  BY DEF Inv, Typed
<1>2. /\ Pushed(c, d, a) /\ a \in Activation /\ a.th = c[Len(c)].th
      /\ a.fn = "luaD_call" /\ ~a.noyield /\ ~a.entered
      /\ c[Len(c)].fn = "C" /\ c[Len(c)].level > 0 /\ a.level = c[Len(c)].level
      /\ a.caller \in {"callk", "pcallk"}
      /\ CCallsIn(c, Len(c)) < ErrorCCalls
      /\ OnlyFor(a.th, f2, f) /\ OnlyFor(a.th, ef2, ef)
  BY DEF YieldablePush
<1>3. st[c[Len(c)].th] = "LUA_OK" /\ st[a.th] = "LUA_OK"
  <2>1. Len(c) \in 1 .. Len(c)
    BY <1>1, StackParts
  <2> QED BY <1>1, <1>2, <2>1, Running
<1>4. /\ OnlyFor(a.th, ny, ny) /\ OnlyFor(a.th, ah, ah)
      /\ CountsAs(a, ny, nc, ah, ny, nc2, ah) /\ a.fn # "lua_resume"
  BY <1>2 DEF OnlyFor, CountsAs, Bars
<1>5. /\ Saved(d, Len(c) + 1)
      /\ nc2[a.th] = CCallsIn(d, Len(c) + 1)
      /\ ny[a.th] = NnyIn(d, a.th, Len(c) + 1)
      /\ ah[a.th] <=> AsideOf(d, a.th, Len(c) + 1) = {}
  BY <1>1, <1>2, <1>3, <1>4, CountsPushed
<1>6. LiesOn(c[Len(c)], a)
  BY <1>2 DEF LiesOn, CallFrom, SameLevel, UsesApi
<1>7. PushOf(c, f, st, ny, nc, ef, ah, un, d, a, f2, ny, nc2, ef2, ah)
  BY <1>2, <1>4, <1>5, <1>6 DEF PushOf
<1>8. c[Len(c)].fn = "C" /\ c[Len(c)].level > 0 /\ NnyCounted(c, ny)
  BY <1>1, <1>2
<1>9. FramesPushed(c, f, a, f2)
  BY <1>1, <1>3, YieldableFrames
<1>10. HandlersPushed(c, f, a, f2, ef2)
  BY <1>1, <1>3, YieldableHandlers
<1> QED BY <1>7, <1>9, <1>10, PushStep

-----------------------------------------------------------------------------
(* Control comes back to lua_resume, or lua_resume ends.                   *)

\* Control is in lua_resume, whatever frames it has left.
LEMMA UnrollFrames ==
  ASSUME NEW c \in Seq(Activation), Stack(c),
         NEW f \in [Thread -> Seq(CallInfo)], Frames(c, f),
         NEW d, NEW n, Cut(c, d, n), c[n].fn = "lua_resume",
         c[n].th = c[Len(c)].th,
         NEW f2 \in [Thread -> Seq(CallInfo)], OnlyFor(c[Len(c)].th, f2, f)
  PROVE  Frames(d, f2)
<1>1. /\ n \in 1 .. Len(c) /\ Len(d) = n /\ n \in Nat /\ Len(c) \in Nat
      /\ \A i \in 1 .. n - 1 : d[i] = c[i]
      /\ d[n].th = c[n].th /\ d[n].fn = "lua_resume" /\ d[n].level = 0
      /\ c[n].th \in Thread
  BY StackParts DEF Cut, Alike
<1>2. \A i \in 1 .. n - 1 : c[i].th # c[n].th
  BY <1>1, ResumeIsFirst
<1>3. f2[c[n].th] \in Seq(CallInfo) /\ Len(f2[c[n].th]) \in Nat
  BY <1>1
<1>4. ASSUME NEW j \in 1 .. n - 1
      PROVE  /\ j \in 1 .. Len(c) /\ d[j] = c[j] /\ f2[c[j].th] = f[c[j].th]
             /\ LastOfThread(d, j) <=> LastOfThread(c, j)
             /\ LastFrame(d, f2, j) = LastFrame(c, f, j)
  <2>1. j \in 1 .. Len(c) /\ d[j] = c[j] /\ c[j].th # c[n].th /\ c[j].th \in Thread
    BY <1>1, <1>2, <1>4, StackParts
  <2>2. f2[c[j].th] = f[c[j].th]
    BY <1>1, <2>1 DEF OnlyFor
  <2>3. j # Len(c) /\ j # Len(d) /\ (j + 1 = n \/ j + 1 \in 1 .. n - 1)
    BY <1>1, <1>4
  <2>4. d[j + 1].th = c[j + 1].th
    BY <1>1, <2>3
  <2>5. LastOfThread(d, j) <=> LastOfThread(c, j)
    BY <2>1, <2>3, <2>4 DEF LastOfThread
  <2>6. ~LastOfThread(c, j) => d[j + 1] = c[j + 1]
    BY <1>1, <2>1, <2>3 DEF LastOfThread
  <2>7. LastFrame(d, f2, j) = LastFrame(c, f, j)
    BY <2>1, <2>2, <2>5, <2>6 DEF LastFrame
  <2> QED BY <2>1, <2>2, <2>5, <2>7
<1>5. ASSUME NEW j \in 1 .. Len(d)
      PROVE  LET a == d[j]
                 frames == f2[a.th]
             IN  /\ a.level <= Len(frames)
                 /\ LastOfThread(d, j) /\ a.fn \notin {"luaV_execute", "lua_resume"} =>
                      Len(frames) = a.level
                 /\ a.fn = "C" /\ a.level > 0 => ~frames[a.level].lua
                 /\ a.fn = "luaV_execute" =>
                      \A i \in a.level .. LastFrame(d, f2, j) :
                        frames[i].lua /\ (frames[i].fresh <=> i = a.level)
  <2>1. CASE j = n
    BY <1>1, <1>3, <2>1
  <2>2. CASE j # n
    <3>1. j \in 1 .. n - 1
      BY <1>1, <2>2
    <3>2. /\ j \in 1 .. Len(c) /\ d[j] = c[j] /\ f2[c[j].th] = f[c[j].th]
          /\ LastOfThread(d, j) <=> LastOfThread(c, j)
          /\ LastFrame(d, f2, j) = LastFrame(c, f, j)
      BY <1>4, <3>1
    <3> QED BY <3>2 DEF Frames
  <2> QED BY <2>1, <2>2
<1> QED BY <1>5 DEF Frames

\* lua_resume, entered, is about to go on with the last of its frames, or is
\* done: n is its activation, the others above it are dropped.
Unrolls(c, f, st, ny, nc, ef, ah, un, d, n, f2, st2, ny2, nc2, ef2, ah2, un2) ==
  LET t == c[Len(c)].th
      g == f2[t]
  IN  /\ Cut(c, d, n) /\ c[n].fn = "lua_resume" /\ c[n].th = t /\ d[n].entered
      /\ n < Len(c) \/ CCallsIn(c, n) < ErrorCCalls
      /\ OnlyFor(t, f2, f) /\ OnlyFor(t, st2, st) /\ OnlyFor(t, ny2, ny)
      /\ OnlyFor(t, nc2, nc) /\ OnlyFor(t, ef2, ef) /\ OnlyFor(t, ah2, ah)
      /\ OnlySetFor(t, un2, un)
      /\ st[t] \notin Errors /\ st2[t] = "LUA_OK" /\ t \notin un2
      /\ ny2[t] = 0 /\ nc2[t] = CCallsIn(c, n) /\ ah2[t]
      /\ NoContinuation(f2, t) = {}
      /\ \A i \in Ypcalls(g) : g[i].oah /\ g[i].k = "k"
      /\ SameProtected(g, f[t], Len(g)) /\ ef2[t] = FrameHandler(g, Len(g))

\* lua_resume gets control of its thread: the invariant holds again.
LEMMA UnrollStep ==
  ASSUME NEW c, NEW f, NEW st, NEW ny, NEW nc, NEW ef, NEW ah, NEW un,
         Inv(c, f, st, ny, nc, ef, ah, un), NEW d, NEW n, NEW f2, NEW st2,
         NEW ny2, NEW nc2, NEW ef2, NEW ah2, NEW un2,
         Typed(d, f2, st2, ny2, nc2, ef2, ah2, un2),
         Unrolls(c, f, st, ny, nc, ef, ah, un, d, n, f2, st2, ny2, nc2, ef2, ah2, un2)
  PROVE  Inv(d, f2, st2, ny2, nc2, ef2, ah2, un2)
<1> DEFINE t0 == c[Len(c)].th
<1>1. /\ Stack(c) /\ Frames(c, f)
      /\ Interruptible(c, f) /\ Continuations(c, f, st)
      /\ AllSaved(c) /\ CallsCounted(c, nc) /\ NnyCounted(c, ny)
      /\ Handlers(c, f, st, ef) /\ HooksRight(c, st, ah)
      /\ ThreadsRight(c, f, st, un) /\ StackBounded(c)
      /\ c \in Seq(Activation) /\ f \in [Thread -> Seq(CallInfo)]
      /\ f2 \in [Thread -> Seq(CallInfo)]
  BY DEF Inv, Typed
<1>2. /\ Cut(c, d, n) /\ c[n].fn = "lua_resume" /\ c[n].th = t0 /\ d[n].entered
      /\ n < Len(c) \/ CCallsIn(c, n) < ErrorCCalls
      /\ OnlyFor(t0, f2, f) /\ OnlyFor(t0, st2, st) /\ OnlyFor(t0, ny2, ny)
      /\ OnlyFor(t0, nc2, nc) /\ OnlyFor(t0, ef2, ef) /\ OnlyFor(t0, ah2, ah)
      /\ OnlySetFor(t0, un2, un)
      /\ st[t0] \notin Errors /\ st2[t0] = "LUA_OK" /\ t0 \notin un2
      /\ ny2[t0] = 0 /\ nc2[t0] = CCallsIn(c, n) /\ ah2[t0]
      /\ NoContinuation(f2, t0) = {}
      /\ \A i \in Ypcalls(f2[t0]) : f2[t0][i].oah /\ f2[t0][i].k = "k"
      /\ SameProtected(f2[t0], f[t0], Len(f2[t0]))
      /\ ef2[t0] = FrameHandler(f2[t0], Len(f2[t0]))
  BY DEF Unrolls
<1>3. /\ Len(d) = n /\ n \in 1 .. Len(c) /\ n \in Nat /\ Len(c) \in Nat
      /\ Len(c) \in 1 .. Len(c) /\ t0 \in Thread /\ n <= Len(c)
  BY <1>1, <1>2, StackParts DEF Cut
<1>4. n < Len(c) => c[n + 1].th = t0
  <2>1. n < Len(c) => n + 1 \in n .. Len(c)
    BY <1>3
  <2> QED BY <1>1, <1>2, <1>3, <2>1, SMTT(30) DEF Stack
<1>5. \A i \in 1 .. n - 1 : c[i].th # t0
  BY <1>1, <1>2, <1>3, ResumeIsFirst
<1>6. \A j \in 1 .. n : c[j].th = t0 => j = n
  <2>1. \A j \in 1 .. n : j = n \/ j \in 1 .. n - 1
    BY <1>3
  <2> QED BY <1>5, <2>1
<1>7. /\ NnyIn(c, t0, n) = 0 /\ AsideOf(c, t0, n) = {} /\ PcallsOf(c, t0, n) = {}
  <2>1. t0 # MainThread
    BY <1>1, <1>2, <1>3, ResumeIsFirst
  <2>2. \A j \in 1 .. n : c[j].th = t0 => ~Bars(c[j])
    BY <1>2, <1>6 DEF Bars
  <2>3. NnyIn(c, t0, n) = 0
    BY <1>3, <2>1, <2>2, NothingCounted
  <2>4. AsideOf(c, t0, n) = {} /\ PcallsOf(c, t0, n) = {}
    BY <1>2, <1>6 DEF AsideOf, PcallsOf
  <2> QED BY <2>3, <2>4
<1>8. Stack(d)
  BY <1>1, <1>2, CutStack
<1>9. Frames(d, f2)
  BY <1>1, <1>2, UnrollFrames
<1>10. Interruptible(d, f2)
  <2>1. CallersKept(c, t0, n, f2, f) /\ PcallsKept(c, t0, n, f2, f)
    BY <1>2, <1>6 DEF CallersKept, PcallsKept
  <2> QED BY <1>1, <1>2, <1>4, <2>1, CutInterruptible
<1>11. Continuations(d, f2, st2)
  <2>1. /\ \A t : \A q \in BarsOf(d, t) :
              /\ q \in BarsOf(c, t) /\ q \in 1 .. n /\ c[q].level = d[q].level
        /\ \A t : \A q \in BarsOf(c, t) :
              q \in 1 .. n => q \in BarsOf(d, t) /\ c[q].level = d[q].level
        /\ \A t : \A q \in BarsOf(c, t) : t # t0 => q \in 1 .. n
    BY <1>1, <1>2, <1>4, CutBars
  <2>2. d[Len(d)].th = t0
    BY <1>2, <1>3 DEF Cut, Alike
  <2>3. ASSUME NEW t \in Thread, t # t0
        PROVE  ContinuationsOf(d, f2, st2, t)
    <3>1. f2[t] = f[t] /\ st2[t] = st[t] /\ ~Unrolling(d, t)
      BY <1>2, <2>2, <2>3 DEF OnlyFor, Unrolling
    <3>2. ContinuationsOf(c, f, st, t)
      BY <1>1 DEF Continuations
    <3>3. /\ \A q \in BarsOf(d, t) : q \in BarsOf(c, t) /\ c[q].level = d[q].level
          /\ \A q \in BarsOf(c, t) : q \in BarsOf(d, t) /\ c[q].level = d[q].level
      BY <2>1, <2>3
    <3> QED BY <3>1, <3>2, <3>3, OtherContinuations
  <2>4. ContinuationsOf(d, f2, st2, t0)
    <3>1. BarsOf(d, t0) = {}
      <4>1. \A q \in BarsOf(d, t0) : q \in 1 .. n /\ q \in BarsOf(c, t0)
        BY <2>1
      <4>2. \A q \in BarsOf(c, t0) : c[q].th = t0 /\ Bars(c[q])
        BY DEF BarsOf
      <4>3. ~Bars(c[n])
        BY <1>2 DEF Bars
      <4> QED BY <1>6, <4>1, <4>2, <4>3
    <3> QED BY <1>2, <3>1 DEF ContinuationsOf
  <2> QED BY <2>3, <2>4 DEF Continuations
<1>12. AllSaved(d)
  BY <1>1, <1>2, CutSaved
<1>13. CallsCounted(d, nc2)
  BY <1>1, <1>2, CutCalls
<1>14. NnyCounted(d, ny2)
  BY <1>1, <1>2, <1>4, <1>7, CutNny
<1>15. Handlers(d, f2, st2, ef2)
  <2>1. Len(f2[t0]) \in Nat /\ f2[t0] \in Seq(CallInfo)
    BY <1>1, <1>3
  <2>2. YpcallsUpTo(f2[t0], Len(f2[t0]))
    <3>1. \A i \in Ypcalls(f2[t0]) : i \in 1 .. Len(f2[t0])
      BY <2>1, YpcallsAre
    <3> QED BY <2>1, <3>1 DEF YpcallsUpTo
  <2>3. PcallsUpTo(c, t0, n, Len(f2[t0]))
    BY <1>7 DEF PcallsUpTo
  <2>4. /\ ~errorstatus(st[t0])
        /\ ef2[t0] = HandlerAt(c, f2, t0, n, Len(f2[t0]))
    BY <1>2, <1>7 DEF errorstatus, HandlerAt
  <2> HIDE DEF t0
  <2>5. /\ OnlyFor(c[Len(c)].th, f2, f) /\ OnlyFor(c[Len(c)].th, st2, st)
        /\ OnlyFor(c[Len(c)].th, ef2, ef)
        /\ SameProtected(f2[c[Len(c)].th], f[c[Len(c)].th], Len(f2[t0]))
        /\ PcallsUpTo(c, c[Len(c)].th, n, Len(f2[t0]))
        /\ n < Len(c) => c[n + 1].th = c[Len(c)].th
    BY <1>2, <1>4, <2>3 DEF t0
  <2>6. ~errorstatus(st2[c[Len(c)].th]) =>
           /\ ~errorstatus(st[c[Len(c)].th])
           /\ ef2[c[Len(c)].th] =
                HandlerAt(c, f2, c[Len(c)].th, n, Len(f2[c[Len(c)].th]))
           /\ YpcallsUpTo(f2[c[Len(c)].th], Len(f2[t0]))
    BY <2>2, <2>4 DEF t0
  <2> QED BY <1>1, <1>2, <2>1, <2>5, <2>6, CutHandlers
<1>16. HooksRight(d, st2, ah2)
  BY <1>1, <1>2, <1>4, <1>7, CutHooks
<1>17. ThreadsRight(d, f2, st2, un2)
  BY <1>1, <1>2, CutThreads
<1>18. StackBounded(d)
  BY <1>1, <1>2, CutBounded
<1>19. Typed(d, f2, st2, ny2, nc2, ef2, ah2, un2)
  OBVIOUS
<1> QED
  BY <1>8, <1>9, <1>10, <1>11, <1>12, <1>13, <1>14, <1>15, <1>16, <1>17, <1>18, <1>19
  DEF Inv

\* A coroutine gives up control: the activations down to the n-th, which has
\* called lua_resume, are dropped.
Ends(c, f, st, ny, nc, ef, ah, un, n, f2, st2, ny2, nc2, ah2, un2) ==
  LET t == c[Len(c)].th
  IN  /\ n \in 1 .. Len(c) /\ n < Len(c)
      /\ c[n + 1].fn = "lua_resume" /\ c[n + 1].th = t
      /\ OnlyFor(t, f2, f) /\ OnlyFor(t, st2, st) /\ OnlyFor(t, ny2, ny)
      /\ OnlyFor(t, nc2, nc) /\ OnlyFor(t, ah2, ah) /\ OnlySetFor(t, un2, un)
      /\ CanEnd(f2, st2, t)
      /\ st2[t] = "LUA_YIELD" => f2[t] # <<>> /\ Len(f2[t]) \notin Ypcalls(f2[t])
      /\ st2[t] = "LUA_OK" => f2[t] = <<>>
      /\ t \notin un2 /\ ny2[t] = 1
      /\ SameProtected(f2[t], f[t], Len(f2[t]))
      /\ st2[t] \notin Errors =>
           st[t] \notin Errors /\ ah2[t] /\ ef[t] = FrameHandler(f2[t], Len(f2[t]))

\* lua_resume ends, or its thread yields or dies: the invariant holds again.
LEMMA EndStep ==
  ASSUME NEW c, NEW f, NEW st, NEW ny, NEW nc, NEW ef, NEW ah, NEW un,
         Inv(c, f, st, ny, nc, ef, ah, un), NEW n, NEW f2, NEW st2,
         NEW ny2, NEW nc2, NEW ah2, NEW un2,
         Typed(SubSeq(c, 1, n), f2, st2, ny2, nc2, ef, ah2, un2),
         Ends(c, f, st, ny, nc, ef, ah, un, n, f2, st2, ny2, nc2, ah2, un2)
  PROVE  Inv(SubSeq(c, 1, n), f2, st2, ny2, nc2, ef, ah2, un2)
<1> DEFINE t0 == c[Len(c)].th
           d == SubSeq(c, 1, n)
<1>1. /\ Stack(c) /\ Frames(c, f)
      /\ Interruptible(c, f) /\ Continuations(c, f, st)
      /\ AllSaved(c) /\ CallsCounted(c, nc) /\ NnyCounted(c, ny)
      /\ Handlers(c, f, st, ef) /\ HooksRight(c, st, ah)
      /\ ThreadsRight(c, f, st, un) /\ StackBounded(c)
      /\ c \in Seq(Activation) /\ f \in [Thread -> Seq(CallInfo)]
      /\ f2 \in [Thread -> Seq(CallInfo)]
  BY DEF Inv, Typed
<1>2. /\ n \in 1 .. Len(c) /\ n < Len(c)
      /\ c[n + 1].fn = "lua_resume" /\ c[n + 1].th = t0
      /\ OnlyFor(t0, f2, f) /\ OnlyFor(t0, st2, st) /\ OnlyFor(t0, ny2, ny)
      /\ OnlyFor(t0, nc2, nc) /\ OnlyFor(t0, ah2, ah) /\ OnlySetFor(t0, un2, un)
      /\ CanEnd(f2, st2, t0)
      /\ st2[t0] = "LUA_YIELD" => f2[t0] # <<>> /\ Len(f2[t0]) \notin Ypcalls(f2[t0])
      /\ st2[t0] = "LUA_OK" => f2[t0] = <<>>
      /\ t0 \notin un2 /\ ny2[t0] = 1
      /\ SameProtected(f2[t0], f[t0], Len(f2[t0]))
      /\ st2[t0] \notin Errors =>
           st[t0] \notin Errors /\ ah2[t0] /\ ef[t0] = FrameHandler(f2[t0], Len(f2[t0]))
  BY DEF Ends
<1>3. /\ n \in Nat /\ Len(c) \in Nat /\ t0 \in Thread
      /\ n + 1 \in 2 .. Len(c) /\ n + 1 \in 1 .. Len(c) /\ (n + 1) - 1 = n
      /\ c[n].th \in Thread
  <2>1. n \in Nat /\ Len(c) \in Nat /\ n + 1 \in 2 .. Len(c) /\ (n + 1) - 1 = n
    BY <1>1, <1>2, StackParts
  <2> QED BY <1>1, <1>2, <2>1, StackParts
<1>4. \A i \in 1 .. n : c[i].th # t0
  BY <1>1, <1>2, <1>3, ResumeIsFirst
<1>5. Cut(c, d, n) /\ \A i \in 1 .. n : d[i] = c[i]
  BY <1>1, <1>2, CutIsCut
<1>6. c[n].th # t0 /\ d[n] = c[n] /\ n \in 1 .. n
  BY <1>2, <1>3, <1>4, <1>5
<1>7. AsideOf(c, t0, n) = {} /\ PcallsOf(c, t0, n) = {}
  BY <1>4 DEF AsideOf, PcallsOf
<1> HIDE DEF d
<1>8. Stack(d)
  BY <1>1, <1>5, CutStack
<1>9. n < Len(c) => c[n + 1].th = c[Len(c)].th
  BY <1>2
<1>10. Frames(d, f2)
  BY <1>1, <1>2, <1>5, <1>6, <1>9, CutFrames
<1>11. Interruptible(d, f2)
  <2>1. CallersKept(c, t0, n, f2, f) /\ PcallsKept(c, t0, n, f2, f)
    BY <1>4 DEF CallersKept, PcallsKept
  <2> QED BY <1>1, <1>2, <1>5, <1>9, <2>1, CutInterruptible
<1>12. Continuations(d, f2, st2)
  BY <1>1, <1>2, <1>5, EndContinuations
<1>13. AllSaved(d)
  BY <1>1, <1>5, CutSaved
<1>14. CallsCounted(d, nc2)
  <2>1. nc[c[n].th] = CCallsIn(c, n)
    BY <1>1, <1>2, <1>3 DEF CallsCounted
  <2>2. nc2[c[n].th] = nc[c[n].th]
    BY <1>2, <1>3, <1>6 DEF OnlyFor
  <2> QED BY <1>1, <1>2, <1>5, <2>1, <2>2, CutCalls
<1>15. NnyCounted(d, ny2)
  BY <1>1, <1>2, <1>5, <1>6, <1>9, CutNny
<1>16. Handlers(d, f2, st2, ef)
  <2>1. Len(f2[t0]) \in Nat /\ f2[t0] \in Seq(CallInfo)
    BY <1>1, <1>3
  <2>2. YpcallsUpTo(f2[t0], Len(f2[t0]))
    <3>1. \A i \in Ypcalls(f2[t0]) : i \in 1 .. Len(f2[t0])
      BY <2>1, YpcallsAre
    <3> QED BY <2>1, <3>1 DEF YpcallsUpTo
  <2>3. PcallsUpTo(c, t0, n, Len(f2[t0]))
    BY <1>7 DEF PcallsUpTo
  <2>4. st2[t0] \notin Errors =>
          st[t0] \notin Errors /\ ef[t0] = HandlerAt(c, f2, t0, n, Len(f2[t0]))
    BY <1>2, <1>7 DEF HandlerAt
  <2> HIDE DEF t0
  <2>5. /\ OnlyFor(c[Len(c)].th, f2, f) /\ OnlyFor(c[Len(c)].th, st2, st)
        /\ OnlyFor(c[Len(c)].th, ef, ef)
        /\ SameProtected(f2[c[Len(c)].th], f[c[Len(c)].th], Len(f2[t0]))
        /\ PcallsUpTo(c, c[Len(c)].th, n, Len(f2[t0]))
    BY <1>2, <2>3 DEF t0, OnlyFor
  <2>6. ~errorstatus(st2[c[Len(c)].th]) =>
           /\ ~errorstatus(st[c[Len(c)].th])
           /\ ef[c[Len(c)].th] =
                HandlerAt(c, f2, c[Len(c)].th, n, Len(f2[c[Len(c)].th]))
           /\ YpcallsUpTo(f2[c[Len(c)].th], Len(f2[t0]))
    BY <2>2, <2>4 DEF t0, errorstatus
  <2> QED BY <1>1, <1>5, <1>9, <2>1, <2>5, <2>6, CutHandlers
<1>17. HooksRight(d, st2, ah2)
  BY <1>1, <1>2, <1>5, <1>7, <1>9, CutHooks DEF errorstatus
<1>18. ThreadsRight(d, f2, st2, un2)
  BY <1>1, <1>2, <1>5, <1>6, EndThreads
<1>19. StackBounded(d)
  BY <1>1, <1>2, <1>5, CutBounded
<1>20. Typed(d, f2, st2, ny2, nc2, ef, ah2, un2)
  BY DEF d
<1>21. Inv(d, f2, st2, ny2, nc2, ef, ah2, un2)
  BY <1>8, <1>10, <1>11, <1>12, <1>13, <1>14, <1>15, <1>16, <1>17, <1>18, <1>19, <1>20
  DEF Inv
<1> QED BY <1>21 DEF d

\* A thread that waits or runs has frames, when C code runs that uses the API.
LEMMA OnHasFrames ==
  ASSUME NEW c \in Seq(Activation), Stack(c),
         NEW f \in [Thread -> Seq(CallInfo)], Frames(c, f), UsesApi(c[Len(c)])
  PROVE  \A i \in 1 .. Len(c) : f[c[i].th] # <<>>
<1>1. Len(c) \in Nat /\ Len(c) \in 1 .. Len(c)
  BY StackParts
<1>2. ASSUME NEW k \in 1 .. Len(c), UsesApi(c[k])
      PROVE  c[k].level \in Nat /\ c[k].level > 0
  <2>1. c[k].level \in Nat /\ k \in Nat
    BY <1>2, StackParts
  <2>2. CASE c[k].fn = "C"
    BY <1>2, <2>1, <2>2 DEF UsesApi
  <2>3. (k # 1 /\ c[k].fn # "lua_resume") \/ c[k].fn = "C"
    BY <1>2, StackParts DEF UsesApi
  <2>4. CASE c[k].fn = "hook"
    <3>1. k \in 2 .. Len(c) /\ k - 1 \in 1 .. Len(c)
      BY <1>1, <2>1, <2>3, <2>4
    <3>2. LiesOn(c[k - 1], c[k])
      BY <2>4, <3>1 DEF Stack
    <3>3. c[k - 1].fn = "luaV_execute" /\ c[k].level >= c[k - 1].level
      BY <2>4, <3>2 DEF LiesOn, SameLevel
    <3>4. c[k - 1].level > 0 /\ c[k - 1].level \in Nat
      BY <3>1, <3>3, LevelsRight, StackParts
    <3> QED BY <2>1, <3>3, <3>4
  <2>5. CASE c[k].fn = "f_parser"
    <3>1. k \in 2 .. Len(c) /\ k - 1 \in 1 .. Len(c)
      BY <1>1, <2>1, <2>3, <2>5
    <3>2. LiesOn(c[k - 1], c[k]) /\ k > 3 /\ c[k - 2].fn = "luaD_protectedparser"
      BY <2>5, <3>1 DEF Stack
    <3>3. /\ k - 1 \in 2 .. Len(c) /\ k - 2 \in 2 .. Len(c)
          /\ (k - 1) - 1 = k - 2 /\ k - 3 \in 1 .. Len(c) /\ (k - 2) - 1 = k - 3
      BY <1>1, <2>1, <3>1, <3>2
    <3>4. c[k - 1].fn = "luaD_pcall" /\ c[k].level = c[k - 1].level
      BY <2>5, <3>2 DEF LiesOn
    <3>5. LiesOn(c[k - 2], c[k - 1]) /\ LiesOn(c[k - 3], c[k - 2])
      BY <3>2, <3>3, <3>4 DEF Stack
    <3>6. c[k - 1].level = c[k - 2].level
      BY <3>4, <3>5 DEF LiesOn
    <3>7. c[k - 3].level > 0 /\ c[k - 2].level = c[k - 3].level
      BY <3>2, <3>5 DEF LiesOn
    <3> QED BY <2>1, <3>4, <3>6, <3>7
  <2> QED BY <1>2, <2>2, <2>4, <2>5 DEF UsesApi
<1>3. ASSUME NEW k \in 1 .. Len(c), UsesApi(c[k])
      PROVE  f[c[k].th] # <<>>
  <2>1. c[k].level \in Nat /\ c[k].level > 0 /\ c[k].level <= Len(f[c[k].th])
    BY <1>2, <1>3 DEF Frames
  <2>2. Len(<<>>) = 0
    OBVIOUS
  <2> QED BY <2>1, <2>2
<1>4. SUFFICES ASSUME NEW i \in 1 .. Len(c)
               PROVE  f[c[i].th] # <<>>
  OBVIOUS
<1> DEFINE T == {k \in 1 .. Len(c) : c[k].th = c[i].th}
           m == Max(T)
<1>5. m \in T /\ \A k \in T : k <= m
  <2>1. T \in SUBSET (1 .. Len(c)) /\ T # {}
    BY <1>4
  <2> HIDE DEF T
  <2> QED BY <1>1, <2>1, LastPosition
<1> HIDE DEF m
<1>6. m \in 1 .. Len(c) /\ c[m].th = c[i].th
  BY <1>5
<1>7. CASE m = Len(c)
  BY <1>1, <1>3, <1>6, <1>7
<1>8. CASE m # Len(c)
  <2>1. m + 1 \in 2 .. Len(c) /\ m + 1 \in 1 .. Len(c) /\ (m + 1) - 1 = m /\ ~(m + 1 <= m)
    BY <1>1, <1>6, <1>8
  <2>2. c[m + 1].th # c[m].th
    BY <1>5, <1>6, <2>1
  <2>3. UsesApi(c[m])
    BY <2>1, <2>2 DEF Stack
  <2> QED BY <1>3, <1>6, <2>3
<1> QED BY <1>7, <1>8

\* A thread that can be resumed has no activation.
LEMMA ResumableIsOff ==
  ASSUME NEW c \in Seq(Activation), Stack(c), c[Len(c)].fn # "lua_resume",
         NEW f, NEW st, NEW un, ThreadsRight(c, f, st, un),
         NEW t \in Thread, t \in un \/ st[t] = "LUA_YIELD"
  PROVE  /\ t # MainThread /\ ResumesOf(c, t) = {}
         /\ \A i \in 1 .. Len(c) : c[i].th # t
<1>1. t # MainThread
  BY DEF ThreadsRight
<1>2. ResumesOf(c, t) = {}
  <2>1. SUFFICES ASSUME NEW j \in ResumesOf(c, t) PROVE FALSE
    OBVIOUS
  <2>2. j \in 1 .. Len(c) /\ c[j].fn = "lua_resume"
    BY <2>1 DEF ResumesOf
  <2>3. Len(c) \in Nat /\ j # Len(c)
    BY <2>2, StackParts
  <2>4. c[j].entered
    BY <2>2, <2>3, EnteredBelow
  <2> QED BY <2>1, <2>4 DEF ThreadsRight
<1>3. ASSUME NEW i \in 1 .. Len(c), c[i].th = t
      PROVE  FALSE
  <2>1. PICK j \in 1 .. i : c[j].fn = "lua_resume" /\ c[j].th = t
    BY <1>1, <1>3, PartBegins
  <2>2. j \in 1 .. Len(c)
    BY <1>3, StackParts
  <2> QED BY <1>2, <2>1, <2>2 DEF ResumesOf
<1> QED BY <1>1, <1>2, <1>3

\* lua_resume, the activation a, is called for a coroutine that can be resumed.
ResumePush(c, ny, nc, un, st, d, a, ny2, nc2) ==
  /\ Pushed(c, d, a) /\ a \in Activation /\ a.fn = "lua_resume" /\ a.level = 0
  /\ ~a.entered /\ UsesApi(c[Len(c)])
  /\ a.th \in un \/ st[a.th] = "LUA_YIELD"
  /\ a.nny = ny[a.th] /\ a.nCcalls = nc[c[Len(c)].th] + 1
  /\ OnlyFor(a.th, ny2, ny) /\ OnlyFor(a.th, nc2, nc)
  /\ ny2[a.th] = 0 /\ nc2[a.th] = nc[c[Len(c)].th] + 1
  /\ CCallsIn(c, Len(c)) + 1 < ErrorCCalls

\* A thread is resumed: the invariant holds again.
LEMMA ResumeStep ==
  ASSUME NEW c, NEW f, NEW st, NEW ny, NEW nc, NEW ef, NEW ah, NEW un,
         Inv(c, f, st, ny, nc, ef, ah, un), NEW d, NEW a, NEW ny2, NEW nc2,
         Typed(d, f, st, ny2, nc2, ef, ah, un),
         ResumePush(c, ny, nc, un, st, d, a, ny2, nc2)
  PROVE  Inv(d, f, st, ny2, nc2, ef, ah, un)
<1>1. /\ Stack(c) /\ Frames(c, f)
      /\ Interruptible(c, f) /\ Continuations(c, f, st)
      /\ AllSaved(c) /\ CallsCounted(c, nc) /\ NnyCounted(c, ny)
      /\ Handlers(c, f, st, ef) /\ HooksRight(c, st, ah)
      /\ ThreadsRight(c, f, st, un) /\ StackBounded(c)
      /\ c \in Seq(Activation) /\ f \in [Thread -> Seq(CallInfo)]
  BY DEF Inv, Typed
<1>2. /\ Pushed(c, d, a) /\ a \in Activation /\ a.fn = "lua_resume" /\ a.level = 0
      /\ ~a.entered /\ UsesApi(c[Len(c)])
      /\ a.th \in un \/ st[a.th] = "LUA_YIELD"
      /\ a.nny = ny[a.th] /\ a.nCcalls = nc[c[Len(c)].th] + 1
      /\ OnlyFor(a.th, ny2, ny) /\ OnlyFor(a.th, nc2, nc)
      /\ ny2[a.th] = 0 /\ nc2[a.th] = nc[c[Len(c)].th] + 1
      /\ CCallsIn(c, Len(c)) + 1 < ErrorCCalls
      /\ OnlyFor(a.th, f, f) /\ OnlyFor(a.th, st, st) /\ OnlyFor(a.th, ef, ef)
      /\ OnlyFor(a.th, ah, ah) /\ ~Bars(a)
      /\ c[Len(c)].fn # "lua_resume" /\ d[Len(c) + 1] = a
  BY DEF ResumePush, OnlyFor, UsesApi, Bars, Pushed
<1>3. a.th \in Thread /\ Len(c) \in Nat /\ Len(c) \in 1 .. Len(c)
  BY <1>1, <1>2, ActivationFields, StackParts
<1>4. /\ a.th # MainThread /\ ResumesOf(c, a.th) = {}
      /\ \A i \in 1 .. Len(c) : c[i].th # a.th
  BY <1>1, <1>2, <1>3, ResumableIsOff
<1>5. Stack(d)
  BY <1>1, <1>2, <1>4, PushResumeStack
<1>6. /\ nc[c[Len(c)].th] = CCallsIn(c, Len(c)) /\ ny[a.th] = 1
  BY <1>1, <1>3, <1>4 DEF CallsCounted, NnyCounted, IsOn
<1>7. /\ CCallsIn(d, Len(c) + 1) = CCallsIn(c, Len(c)) + 1
      /\ NnyIn(d, a.th, Len(c) + 1) = NnyIn(c, a.th, Len(c))
      /\ CCallsIn(c, Len(c)) \in Nat
  BY <1>1, <1>2, PushCounts
<1>8. NnyIn(c, a.th, Len(c)) = 0
  <2>1. \A i \in 1 .. Len(c) : c[i].th = a.th => ~Bars(c[i])
    BY <1>4
  <2> QED BY <1>3, <1>4, <2>1, NothingCounted
<1>9. /\ AsideOf(d, a.th, Len(c) + 1) = AsideOf(c, a.th, Len(c))
      /\ AsideOf(c, a.th, Len(c)) = {} /\ PcallsOf(c, a.th, Len(c)) = {}
  <2>1. AsideOf(d, a.th, Len(c) + 1) = AsideOf(c, a.th, Len(c))
    BY <1>1, <1>2, PushSets
  <2> QED BY <1>4, <2>1 DEF AsideOf, PcallsOf
<1>10. Saved(d, Len(c) + 1)
  BY <1>2, <1>6, <1>7 DEF Saved
<1>11. Frames(d, f)
  BY <1>1, <1>2, <1>5, PushResumeFrames
<1>12. Interruptible(d, f)
  <2>1. CallersKept(c, a.th, Len(c), f, f) /\ PcallAdded(c, a, f, f)
    BY DEF CallersKept, PcallAdded
  <2> QED BY <1>1, <1>2, <1>5, <2>1, PushInterruptible
<1>13. Continuations(d, f, st)
  BY <1>1, <1>2, PushResumeContinuations
<1>14. AllSaved(d)
  BY <1>1, <1>2, <1>10, PushSaved
<1>15. CallsCounted(d, nc2)
  BY <1>1, <1>2, <1>5, <1>6, <1>7, PushCalls
<1>16. NnyCounted(d, ny2)
  BY <1>1, <1>2, <1>5, <1>7, <1>8, PushNny
<1>17. Handlers(d, f, st, ef)
  <2>1. Len(f[a.th]) \in Nat
    BY <1>1, <1>3
  <2>2. PcallsUpTo(c, a.th, Len(c), Len(f[a.th]))
    BY <1>9 DEF PcallsUpTo
  <2>3. SameProtected(f[a.th], f[a.th], Len(f[a.th]))
    BY DEF SameProtected
  <2>4. HandlersOf(c, f, st, ef, a.th)
    BY <1>1, <1>3, HandlersParts
  <2>5. ~errorstatus(st[a.th]) =>
          /\ ef[a.th] = HandlerAt(c, f, a.th, Len(c), Len(f[a.th]))
          /\ OldHandlers(f[a.th], Len(f[a.th]))
    BY <2>4 DEF HandlersOf, OldHandlers
  <2>6. ~errorstatus(st[a.th]) =>
          /\ ef[a.th] = IF a.fn = "luaD_pcall" THEN a.ef
                        ELSE HandlerAt(c, f, a.th, Len(c), Len(f[a.th]))
          /\ OldHandlers(f[a.th], Len(f[a.th]))
    BY <1>2, <2>5
  <2>7. a.fn # "luaD_pcall"
    BY <1>2
  <2> QED BY <1>1, <1>2, <2>1, <2>2, <2>3, <2>6, <2>7, PushHandlers
<1>18. HooksRight(d, st, ah)
  <2>1. ~errorstatus(st[a.th]) => (ah[a.th] <=> AsideOf(c, a.th, Len(c)) = {})
    BY <1>1, <1>3 DEF HooksRight
  <2> QED BY <1>1, <1>2, <1>9, <2>1, PushHooks
<1>19. ThreadsRight(d, f, st, un)
  BY <1>1, <1>2, <1>4, PushResumeThreads
<1>20. StackBounded(d)
  <2>1. CCallsIn(c, Len(c)) < ErrorCCalls
    BY <1>2, <1>7, LimitAssumption
  <2> QED BY <1>1, <1>2, <2>1, PushBounded
<1> QED
  BY <1>5, <1>11, <1>12, <1>13, <1>14, <1>15, <1>16, <1>17, <1>18, <1>19, <1>20
  DEF Inv

\* lua_resume is called, but the C stack is full.
LEMMA NoRoomStep ==
  ASSUME NEW c, NEW f, NEW st, NEW ny, NEW nc, NEW ef, NEW ah, NEW un,
         Inv(c, f, st, ny, nc, ef, ah, un), c[Len(c)].fn # "lua_resume",
         NEW t \in Thread, t \in un \/ st[t] = "LUA_YIELD",
         NEW nc2, OnlyFor(t, nc2, nc), Typed(c, f, st, ny, nc2, ef, ah, un)
  PROVE  Inv(c, f, st, ny, nc2, ef, ah, un)
<1>1. Stack(c) /\ ThreadsRight(c, f, st, un) /\ c \in Seq(Activation) /\ CallsCounted(c, nc)
  BY DEF Inv, Typed
<1>2. \A i \in 1 .. Len(c) : c[i].th # t
  BY <1>1, ResumableIsOff
<1>3. \A i \in 1 .. Len(c) : nc2[c[i].th] = nc[c[i].th]
  BY <1>1, <1>2, StackParts DEF OnlyFor
<1>4. \A i \in 2 .. Len(c) : i - 1 \in 1 .. Len(c)
  BY <1>1, StackParts
<1>5. CallsCounted(c, nc2)
  BY <1>1, <1>3, <1>4, StackParts DEF CallsCounted
<1> QED BY <1>5 DEF Inv

\* A coroutine that is done gets another function.
LEMMA NewFunctionStep ==
  ASSUME NEW c, NEW f, NEW st, NEW ny, NEW nc, NEW ef, NEW ah, NEW un,
         Inv(c, f, st, ny, nc, ef, ah, un), UsesApi(c[Len(c)]),
         NEW t \in Thread, st[t] = "LUA_OK", f[t] = <<>>
  PROVE  Inv(c, f, st, ny, nc, ef, ah, un \cup {t})
<1>1. /\ Stack(c) /\ ThreadsRight(c, f, st, un) /\ Frames(c, f)
      /\ c \in Seq(Activation) /\ f \in [Thread -> Seq(CallInfo)]
  BY DEF Inv, Typed
<1>2. \A i \in 1 .. Len(c) : c[i].th # t
  BY <1>1, OnHasFrames
<1>3. t # MainThread
  <2>1. c[1].th = MainThread /\ 1 \in 1 .. Len(c)
    BY <1>1, StackParts
  <2> QED BY <1>2, <2>1
<1>4. ResumesOf(c, t) = {}
  BY <1>2 DEF ResumesOf
<1>5. ThreadsRight(c, f, st, un \cup {t})
  <2>1. SUFFICES ASSUME NEW u \in Thread
                 PROVE  /\ u \in un \cup {t} => u # MainThread /\ st[u] = "LUA_OK" /\ f[u] = <<>>
                        /\ st[u] = "LUA_YIELD" => f[u] # <<>> /\ Len(f[u]) \notin Ypcalls(f[u])
                        /\ u = MainThread => st[u] = "LUA_OK"
                        /\ ~IsOn(c, u) /\ st[u] = "LUA_OK" => f[u] = <<>>
                        /\ \A j \in ResumesOf(c, u) :
                             IF c[j].entered THEN st[u] = "LUA_OK" /\ u \notin un \cup {t}
                             ELSE st[u] = "LUA_YIELD" \/ u \in un \cup {t}
    BY DEF ThreadsRight
  <2>2. /\ u \in un => u # MainThread /\ st[u] = "LUA_OK" /\ f[u] = <<>>
        /\ st[u] = "LUA_YIELD" => f[u] # <<>> /\ Len(f[u]) \notin Ypcalls(f[u])
        /\ u = MainThread => st[u] = "LUA_OK"
        /\ ~IsOn(c, u) /\ st[u] = "LUA_OK" => f[u] = <<>>
        /\ \A j \in ResumesOf(c, u) :
             IF c[j].entered THEN st[u] = "LUA_OK" /\ u \notin un
             ELSE st[u] = "LUA_YIELD" \/ u \in un
    BY <1>1 DEF ThreadsRight
  <2>3. CASE u = t
    BY <1>3, <1>4, <2>2, <2>3
  <2>4. CASE u # t
    BY <2>2, <2>4
  <2> QED BY <2>3, <2>4
<1>6. Typed(c, f, st, ny, nc, ef, ah, un \cup {t})
  BY DEF Inv, Typed
<1> QED BY <1>5, <1>6 DEF Inv

\* luaV_execute goes on to a new frame, or back to the one before: m frames
\* stay, and those above are of Lua functions it has called.
Executes(c, f, f2, m) ==
  LET t == c[Len(c)].th
      level == c[Len(c)].level
      g == f2[t]
      h == f[t]
  IN  /\ c[Len(c)].fn = "luaV_execute" /\ OnlyFor(t, f2, f)
      /\ m \in Nat /\ level <= m /\ m <= Len(g) /\ m <= Len(h)
      /\ \A i \in 1 .. m : g[i] = h[i]
      /\ \A i \in m + 1 .. Len(g) : g[i].lua /\ ~g[i].fresh

\* luaV_execute calls or returns without a C call: the invariant holds again.
LEMMA ExecuteStep ==
  ASSUME NEW c, NEW f, NEW st, NEW ny, NEW nc, NEW ef, NEW ah, NEW un,
         Inv(c, f, st, ny, nc, ef, ah, un), NEW f2, NEW m, Executes(c, f, f2, m),
         Typed(c, f2, st, ny, nc, ef, ah, un)
  PROVE  Inv(c, f2, st, ny, nc, ef, ah, un)
<1> DEFINE t0 == c[Len(c)].th
           level == c[Len(c)].level
           g == f2[t0]
           h == f[t0]
<1>1. /\ Stack(c) /\ Frames(c, f)
      /\ Interruptible(c, f) /\ Continuations(c, f, st)
      /\ Handlers(c, f, st, ef) /\ ThreadsRight(c, f, st, un)
      /\ c \in Seq(Activation) /\ f \in [Thread -> Seq(CallInfo)]
      /\ f2 \in [Thread -> Seq(CallInfo)]
  BY DEF Inv, Typed
<1>2. /\ c[Len(c)].fn = "luaV_execute" /\ OnlyFor(t0, f2, f)
      /\ m \in Nat /\ level <= m /\ m <= Len(g) /\ m <= Len(h)
      /\ \A i \in 1 .. m : g[i] = h[i]
      /\ \A i \in m + 1 .. Len(g) : g[i].lua /\ ~g[i].fresh
  BY DEF Executes
<1>3. /\ Len(c) \in 1 .. Len(c) /\ t0 \in Thread /\ level \in Nat /\ level > 0
      /\ Len(c) \in Nat
      /\ LastFrame(c, f, Len(c)) = Len(h) /\ LastOfThread(c, Len(c))
  <2>1. Len(c) \in 1 .. Len(c) /\ t0 \in Thread /\ level \in Nat /\ Len(c) \in Nat
    BY <1>1, StackParts
  <2>2. level > 0
    BY <1>1, <1>2, <2>1, LevelsRight
  <2> QED BY <2>1, <2>2 DEF LastFrame, LastOfThread
<1>4. /\ g \in Seq(CallInfo) /\ h \in Seq(CallInfo) /\ DOMAIN g = 1 .. Len(g)
      /\ DOMAIN h = 1 .. Len(h) /\ Len(g) \in Nat /\ Len(h) \in Nat
  <2>1. g \in Seq(CallInfo) /\ h \in Seq(CallInfo)
    BY <1>1, <1>3
  <2> QED BY <2>1, LenProperties
<1>5. \A i \in level .. Len(h) : h[i].lua /\ (h[i].fresh <=> i = level)
  BY <1>1, <1>2, <1>3 DEF Frames
<1>6. \A j \in 1 .. Len(c) - 1 : c[j].th = t0 => c[j].level \in Nat /\ c[j].level < level
  <2>1. SUFFICES ASSUME NEW j \in 1 .. Len(c) - 1, c[j].th = t0
                 PROVE  c[j].level \in Nat /\ c[j].level < level
    OBVIOUS
  <2>2. c[j].level <= Base(c[Len(c)])
    BY <1>1, <1>3, <2>1, SameThread
  <2>3. c[j].level \in Nat
    BY <1>1, <1>3, <2>1, StackParts
  <2> QED BY <1>2, <1>3, <2>2, <2>3 DEF Base
<1>7. Cut(c, c, Len(c))
  BY <1>1, <1>3 DEF Cut, Alike
<1>8. /\ \A i \in Ypcalls(g) : i \in 1 .. m /\ i \in Ypcalls(h) /\ g[i] = h[i]
      /\ \A i \in Ypcalls(h) : i \in 1 .. m /\ i \in Ypcalls(g) /\ g[i] = h[i]
  <2>1. ASSUME NEW i \in Ypcalls(g)
        PROVE  i \in 1 .. m /\ i \in Ypcalls(h) /\ g[i] = h[i]
    <3>1. i \in 1 .. Len(g) /\ ~g[i].lua /\ g[i].ypcall
      BY <1>4, <2>1 DEF Ypcalls
    <3>2. i \in 1 .. m
      BY <1>2, <1>4, <3>1
    <3>3. i \in 1 .. Len(h) /\ g[i] = h[i]
      BY <1>2, <1>4, <3>2
    <3> QED BY <1>4, <3>1, <3>2, <3>3 DEF Ypcalls
  <2>2. ASSUME NEW i \in Ypcalls(h)
        PROVE  i \in 1 .. m /\ i \in Ypcalls(g) /\ g[i] = h[i]
    <3>1. i \in 1 .. Len(h) /\ ~h[i].lua /\ h[i].ypcall
      BY <1>4, <2>2 DEF Ypcalls
    <3>2. i \in 1 .. m
      <4>1. i \in level .. Len(h) => FALSE
        BY <1>5, <3>1
      <4> QED BY <1>2, <1>3, <1>4, <3>1, <4>1
    <3>3. i \in 1 .. Len(g) /\ g[i] = h[i]
      BY <1>2, <1>4, <3>2
    <3> QED BY <1>4, <3>1, <3>2, <3>3 DEF Ypcalls
  <2> QED BY <2>1, <2>2
<1>9. Frames(c, f2)
  <2>1. KindsUpTo(g, h, level)
    <3>1. \A i \in 1 .. level : g[i] = h[i]
      BY <1>2, <1>3
    <3> QED BY <3>1 DEF KindsUpTo, SameKind
  <2>2. ExecutesFrom(g, level)
    <3>1. SUFFICES ASSUME NEW i \in level .. Len(g)
                   PROVE  g[i].lua /\ (g[i].fresh <=> i = level)
      BY DEF ExecutesFrom
    <3>2. CASE i <= m
      <4>1. i \in 1 .. m /\ i \in level .. Len(h)
        BY <1>2, <1>3, <1>4, <3>1, <3>2
      <4> QED BY <1>2, <1>5, <4>1
    <3>3. CASE ~(i <= m)
      <4>1. i \in m + 1 .. Len(g) /\ i # level
        BY <1>2, <1>3, <1>4, <3>1, <3>3
      <4> QED BY <1>2, <4>1
    <3> QED BY <3>2, <3>3
  <2>3. level <= Len(g)
    BY <1>2, <1>3, <1>4
  <2> QED BY <1>1, <1>2, <2>1, <2>2, <2>3, ExecuteFrames
<1>10. Interruptible(c, f2)
  <2>1. CallersKept(c, t0, Len(c), f2, f)
    <3>1. SUFFICES ASSUME NEW j \in 1 .. Len(c), c[j].th = t0, c[j].fn = "luaD_call",
                          c[j].level > 0
                   PROVE  g[c[j].level] = h[c[j].level]
      BY DEF CallersKept
    <3>2. j \in 1 .. Len(c) - 1
      BY <1>2, <1>3, <3>1
    <3>3. c[j].level \in 1 .. m
      BY <1>2, <1>3, <1>6, <3>1, <3>2
    <3> QED BY <1>2, <3>3
  <2>2. PcallsKept(c, t0, Len(c), f2, f)
    <3>1. SUFFICES ASSUME NEW j \in 1 .. Len(c), c[j].th = t0, c[j].fn = "C",
                          c[j].level > 0, g[c[j].level].ypcall
                   PROVE  j < Len(c) /\ h[c[j].level].ypcall
      BY DEF PcallsKept
    <3>2. j \in 1 .. Len(c) - 1 /\ j < Len(c)
      BY <1>2, <1>3, <3>1
    <3>3. c[j].level \in 1 .. m
      BY <1>2, <1>3, <1>6, <3>1, <3>2
    <3> QED BY <1>2, <3>1, <3>2, <3>3
  <2> QED BY <1>1, <1>2, <1>7, <2>1, <2>2, CutInterruptible, SMTT(40)
<1>11. Continuations(c, f2, st)
  <2>1. ASSUME NEW t \in Thread, t # t0
        PROVE  ContinuationsOf(c, f2, st, t)
    <3>1. f2[t] = f[t] /\ ~Unrolling(c, t)
      BY <1>2, <2>1 DEF OnlyFor, Unrolling
    <3>2. ContinuationsOf(c, f, st, t)
      BY <1>1 DEF Continuations
    <3> QED BY <3>1, <3>2, OtherContinuations
  <2>2. ContinuationsOf(c, f2, st, t0)
    <3>1. st[t0] = "LUA_OK"
      BY <1>1, <1>2, <1>3, Running
    <3>2. /\ \A i \in NoContinuation(f, t0) :
                (\E q \in BarsOf(c, t0) : c[q].level = i) \/ i = Len(h)
          /\ \A i \in Ypcalls(h) :
                /\ \A q \in BarsOf(c, t0) : c[q].level >= i
                /\ h[i].oah /\ h[i].k = "k"
      <4>1. ContinuationsOf(c, f, st, t0) /\ ~errorstatus(st[t0])
        BY <1>1, <1>3, <3>1 DEF Continuations, errorstatus, Errors
      <4> QED BY <4>1 DEF ContinuationsOf
    <3>3. ASSUME NEW i \in NoContinuation(f2, t0)
          PROVE  \E q \in BarsOf(c, t0) : c[q].level = i
      <4>1. i \in 1 .. Len(g) /\ ~g[i].lua /\ g[i].k # "k"
        BY <3>3 DEF NoContinuation
      <4>2. i \in 1 .. m
        BY <1>2, <1>4, <4>1
      <4>3. i \in 1 .. Len(h) /\ g[i] = h[i]
        BY <1>2, <1>4, <4>2
      <4>4. i \in NoContinuation(f, t0)
        BY <4>1, <4>3 DEF NoContinuation
      <4>5. i # Len(h)
        <5>1. Len(h) \in level .. Len(h)
          BY <1>2, <1>3, <1>4
        <5> QED BY <1>5, <4>1, <4>3, <5>1
      <4> QED BY <3>2, <4>4, <4>5
    <3>4. \A i \in Ypcalls(g) :
            /\ \A q \in BarsOf(c, t0) : c[q].level >= i
            /\ g[i].oah /\ g[i].k = "k"
      BY <1>8, <3>2
    <3> QED BY <3>3, <3>4 DEF ContinuationsOf
  <2> QED BY <2>1, <2>2 DEF Continuations
<1>12. Handlers(c, f2, st, ef)
  <2>1. SameProtected(g, h, m)
    <3>1. \A i \in 1 .. m : (i \in Ypcalls(g) <=> i \in Ypcalls(h)) /\ g[i] = h[i]
      BY <1>2, <1>8
    <3> QED BY <3>1 DEF SameProtected
  <2>2. YpcallsUpTo(g, m)
    BY <1>2, <1>8 DEF YpcallsUpTo
  <2>3. PcallsUpTo(c, t0, Len(c), m)
    <3>1. SUFFICES ASSUME NEW j \in 1 .. Len(c), c[j].th = t0, c[j].fn = "luaD_pcall"
                   PROVE  c[j].level <= m
      BY DEF PcallsUpTo, PcallsOf
    <3>2. j \in 1 .. Len(c) - 1
      BY <1>2, <1>3, <3>1
    <3> QED BY <1>2, <1>3, <1>6, <3>1, <3>2
  <2>4. ef[t0] = HandlerAt(c, f2, t0, Len(c), Len(g))
    <3>1. HandlersOf(c, f, st, ef, t0)
      BY <1>1, <1>3, HandlersParts
    <3>2. ef[t0] = HandlerAt(c, f, t0, Len(c), Len(h))
      <4>1. ~errorstatus(st[t0])
        BY <1>1, <1>2, <1>3, Running DEF errorstatus, Errors
      <4> QED BY <3>1, <4>1 DEF HandlersOf
    <3>3. FrameHandler(g, Len(g)) = FrameHandler(g, m)
      <4>1. {i \in Ypcalls(g) : i <= Len(g)} = {i \in Ypcalls(g) : i <= m}
        BY <1>2, <1>4, <1>8
      <4> QED BY <4>1 DEF FrameHandler
    <3>4. FrameHandler(h, Len(h)) = FrameHandler(h, m)
      <4>1. {i \in Ypcalls(h) : i <= Len(h)} = {i \in Ypcalls(h) : i <= m}
        BY <1>2, <1>4, <1>8
      <4> QED BY <4>1 DEF FrameHandler
    <3>5. FrameHandler(g, m) = FrameHandler(h, m)
      <4>1. \A i \in Ypcalls(g) \cup Ypcalls(h) : i <= m => i \in 1 .. m
        BY <1>8
      <4> HIDE DEF g, h
      <4> QED BY <1>4, <2>1, <4>1, SameHandler
    <3> QED BY <3>2, <3>3, <3>4, <3>5 DEF HandlerAt
  <2>5. /\ OnlyFor(t0, st, st) /\ OnlyFor(t0, ef, ef)
        /\ ~errorstatus(st[t0])
    <3>1. ~errorstatus(st[t0])
      BY <1>1, <1>2, <1>3, Running DEF errorstatus, Errors
    <3> QED BY <3>1 DEF OnlyFor
  <2> HIDE DEF t0
  <2>6. /\ OnlyFor(c[Len(c)].th, f2, f) /\ OnlyFor(c[Len(c)].th, st, st)
        /\ OnlyFor(c[Len(c)].th, ef, ef)
        /\ SameProtected(f2[c[Len(c)].th], f[c[Len(c)].th], m)
        /\ PcallsUpTo(c, c[Len(c)].th, Len(c), m)
        /\ Len(c) < Len(c) => c[Len(c) + 1].th = c[Len(c)].th
    BY <1>2, <1>3, <2>1, <2>3, <2>5 DEF t0
  <2>7. ~errorstatus(st[c[Len(c)].th]) =>
           /\ ~errorstatus(st[c[Len(c)].th])
           /\ ef[c[Len(c)].th] =
                HandlerAt(c, f2, c[Len(c)].th, Len(c), Len(f2[c[Len(c)].th]))
           /\ YpcallsUpTo(f2[c[Len(c)].th], m)
    BY <2>2, <2>4 DEF t0, g
  <2> QED BY <1>1, <1>2, <1>7, <2>6, <2>7, CutHandlers
<1>13. ThreadsRight(c, f2, st, un)
  <2>1. OnlyFor(t0, st, st) /\ OnlySetFor(t0, un, un)
    BY DEF OnlyFor, OnlySetFor
  <2>2. st[t0] = "LUA_OK" /\ t0 \notin un
    BY <1>1, <1>2, <1>3, Running
  <2>3. c[Len(c)].fn # "lua_resume"
    BY <1>2
  <2> QED BY <1>1, <1>2, <1>7, <2>1, <2>2, <2>3, CutThreads
<1> QED BY <1>9, <1>10, <1>11, <1>12, <1>13 DEF Inv

=============================================================================
