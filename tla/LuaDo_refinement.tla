-------------------------- MODULE LuaDo_refinement --------------------------
(***************************************************************************)
(* LuaDo implements LuaThreads.                                            *)
(*                                                                         *)
(* LuaThreads sees the frames of a thread, with the marks that activations *)
(* on the C stack and protected frames put on them, what a thread can do,  *)
(* which one runs and which ones wait.  For each action of LuaDo there is  *)
(* the step of LuaThreads it comes to, or it changes nothing of that.  The *)
(* invariant tells why: an activation lies in its thread's part of the C   *)
(* stack, so that what a longjmp drops or leaves marks the calls that the  *)
(* error ends or leaves.                                                   *)
(***************************************************************************)
EXTENDS LuaDo_safety

-----------------------------------------------------------------------------
(* What LuaThreads sees of a state, or of one in the middle of a step.     *)

PcallAt(c, t, l) ==
  \E j \in 1 .. Len(c) : c[j].fn = "luaD_pcall" /\ c[j].th = t /\ c[j].level = l
NoyieldAt(c, t, l) ==
  \E j \in 1 .. Len(c) :
    c[j].fn = "luaD_call" /\ c[j].noyield /\ c[j].th = t /\ c[j].level = l
YpcallAt(f, t, i) == ~f[t][i].lua /\ f[t][i].ypcall

FrameCall(c, f, t, i) ==
  [prot |-> (i > 1 /\ YpcallAt(f, t, i - 1)) \/ PcallAt(c, t, i - 1),
   noyield |-> NoyieldAt(c, t, i - 1)]
CallsOf(c, f, st, t) ==
  IF errorstatus(st[t]) THEN <<>> ELSE [i \in 1 .. Len(f[t]) |-> FrameCall(c, f, t, i)]
StateOf(c, st, un, t) ==
  IF errorstatus(st[t]) THEN "dead"
  ELSE IF st[t] = "LUA_YIELD" \/ t \in un THEN "suspended"
  ELSE IF IsOn(c, t) THEN "active" ELSE "finished"
IsEntered(c) == c[Len(c)].fn = "lua_resume" => c[Len(c)].entered
RunningOf(c) == IF IsEntered(c) THEN c[Len(c)].th ELSE c[Len(c) - 1].th
ResumedOf(c) ==
  {<<c[j - 1].th, c[j].th>> : j \in {i \in 1 .. Len(c) : Entered(c[i])}}

\* Calls with the same marks are the same.
LEMMA SameCall ==
  ASSUME NEW p \in BOOLEAN, NEW q \in BOOLEAN, p <=> q,
         NEW m \in BOOLEAN, NEW n \in BOOLEAN, m <=> n
  PROVE  [prot |-> p, noyield |-> m] = [prot |-> q, noyield |-> n]
<1>1. p = q /\ m = n
  OBVIOUS
<1> QED BY <1>1

\* The state of LuaThreads, in these terms.
LEMMA BarsAre ==
  ASSUME IInv
  PROVE  /\ callsBar = [t \in Thread |-> CallsOf(cs, ci, status, t)]
         /\ stateBar = [t \in Thread |-> StateOf(cs, status, unstarted, t)]
         /\ runningBar = RunningOf(cs)
         /\ resumedBar = ResumedOf(cs)
<1>1. cs \in Seq(Activation) /\ ci \in [Thread -> Seq(CallInfo)]
  BY DEF IInv, Inv, Typed
<1>2. DOMAIN cs = 1 .. Len(cs)
  BY <1>1
<1>3. \A t \in Thread : \A i : ProtectedFrame(t, i) <=> (i > 1 /\ YpcallAt(ci, t, i - 1)) \/ PcallAt(cs, t, i - 1)
  BY <1>2 DEF ProtectedFrame, YpcallAt, PcallAt
<1>4. \A t \in Thread : \A i : UninterruptibleFrame(t, i) <=> NoyieldAt(cs, t, i - 1)
  BY <1>2 DEF UninterruptibleFrame, NoyieldAt
<1>5. \A t \in Thread : \A i :
        [prot |-> ProtectedFrame(t, i), noyield |-> UninterruptibleFrame(t, i)]
          = FrameCall(cs, ci, t, i)
  <2> SUFFICES ASSUME NEW t \in Thread, NEW i
               PROVE  [prot |-> ProtectedFrame(t, i), noyield |-> UninterruptibleFrame(t, i)]
                        = FrameCall(cs, ci, t, i)
    OBVIOUS
  <2> DEFINE p == (i > 1 /\ YpcallAt(ci, t, i - 1)) \/ PcallAt(cs, t, i - 1)
  <2>1. /\ ProtectedFrame(t, i) \in BOOLEAN /\ UninterruptibleFrame(t, i) \in BOOLEAN
        /\ p \in BOOLEAN /\ NoyieldAt(cs, t, i - 1) \in BOOLEAN
    BY DEF ProtectedFrame, UninterruptibleFrame, NoyieldAt
  <2>2. /\ ProtectedFrame(t, i) <=> p
        /\ UninterruptibleFrame(t, i) <=> NoyieldAt(cs, t, i - 1)
    BY <1>3, <1>4
  <2>3. FrameCall(cs, ci, t, i) = [prot |-> p, noyield |-> NoyieldAt(cs, t, i - 1)]
    BY DEF FrameCall
  <2> HIDE DEF p
  <2> QED BY <2>1, <2>2, <2>3, SameCall
<1>6. callsBar = [t \in Thread |-> CallsOf(cs, ci, status, t)]
  BY <1>5, Zenon DEF callsBar, CallsOf, Depth
<1>7. \A t : OnStack(t) <=> IsOn(cs, t)
  BY <1>2 DEF OnStack, Resumes, IsOn, ResumesOf
<1>8. stateBar = [t \in Thread |-> StateOf(cs, status, unstarted, t)]
  BY <1>7 DEF stateBar, StateOf
<1>9. runningBar = RunningOf(cs)
  BY DEF runningBar, RunningOf, IsEntered, Top, L
<1>10. resumedBar = ResumedOf(cs)
  BY <1>2 DEF resumedBar, ResumedOf
<1> QED BY <1>6, <1>8, <1>9, <1>10

-----------------------------------------------------------------------------
(* The calls of a thread.                                                  *)

\* Activations that mark a call as protected, or as not to be interrupted.
Marks(a) == a.fn = "luaD_pcall" \/ (a.fn = "luaD_call" /\ a.noyield)

\* The activations of t that work for frames up to n mark them alike.
SameMarks(c, d, t, n) ==
  \A l \in 0 .. n - 1 :
    /\ PcallAt(c, t, l) <=> PcallAt(d, t, l)
    /\ NoyieldAt(c, t, l) <=> NoyieldAt(d, t, l)
\* And so do the frames.
SameYpcalls(f, g, t, n) ==
  \A i \in 1 .. n - 1 : YpcallAt(f, t, i) <=> YpcallAt(g, t, i)

\* The first n calls of a thread, if they are marked alike.
LEMMA SameCalls ==
  ASSUME NEW c, NEW d, NEW f, NEW g, NEW t, NEW n \in Nat,
         SameMarks(c, d, t, n), SameYpcalls(f, g, t, n)
  PROVE  \A i \in 1 .. n : FrameCall(c, f, t, i) = FrameCall(d, g, t, i)
<1> SUFFICES ASSUME NEW i \in 1 .. n
             PROVE  FrameCall(c, f, t, i) = FrameCall(d, g, t, i)
  OBVIOUS
<1> DEFINE p == (i > 1 /\ YpcallAt(f, t, i - 1)) \/ PcallAt(c, t, i - 1)
           q == (i > 1 /\ YpcallAt(g, t, i - 1)) \/ PcallAt(d, t, i - 1)
           m == NoyieldAt(c, t, i - 1)
           k == NoyieldAt(d, t, i - 1)
<1>1. i - 1 \in 0 .. n - 1 /\ (i > 1 => i - 1 \in 1 .. n - 1)
  OBVIOUS
<1>2. (p <=> q) /\ (m <=> k)
  BY <1>1 DEF SameMarks, SameYpcalls
<1>3. p \in BOOLEAN /\ q \in BOOLEAN /\ m \in BOOLEAN /\ k \in BOOLEAN
  BY DEF PcallAt, NoyieldAt
<1>4. /\ FrameCall(c, f, t, i) = [prot |-> p, noyield |-> m]
      /\ FrameCall(d, g, t, i) = [prot |-> q, noyield |-> k]
  BY DEF FrameCall
<1> HIDE DEF p, q, m, k
<1> QED BY <1>2, <1>3, <1>4, SameCall

\* The calls of a thread are a sequence of calls, one for each frame.
LEMMA CallsTyped ==
  ASSUME NEW c, NEW f, NEW st, NEW t, f[t] \in Seq(CallInfo)
  PROVE  /\ CallsOf(c, f, st, t) \in Seq(Threads!Call)
         /\ ~errorstatus(st[t]) =>
              /\ Len(CallsOf(c, f, st, t)) = Len(f[t])
              /\ DOMAIN CallsOf(c, f, st, t) = 1 .. Len(f[t])
              /\ \A i \in 1 .. Len(f[t]) :
                   CallsOf(c, f, st, t)[i] = FrameCall(c, f, t, i)
<1>1. \A i : FrameCall(c, f, t, i) \in Threads!Call
  BY DEF FrameCall, Threads!Call, PcallAt, NoyieldAt
<1>2. CASE errorstatus(st[t])
  BY <1>2 DEF CallsOf
<1>3. CASE ~errorstatus(st[t])
  <2>1. CallsOf(c, f, st, t) = [i \in 1 .. Len(f[t]) |-> FrameCall(c, f, t, i)]
    BY <1>3 DEF CallsOf
  <2>2. Len(f[t]) \in Nat
    OBVIOUS
  <2>3. CallsOf(c, f, st, t) \in Seq(Threads!Call)
    BY <1>1, <2>1, <2>2
  <2>4. Len(CallsOf(c, f, st, t)) = Len(f[t])
    BY <2>1, <2>2
  <2> QED BY <2>1, <2>3, <2>4
<1> QED BY <1>2, <1>3

\* Names for what becomes of a sequence of calls, which the provers would expand.
FirstCalls(s, n) == SubSeq(s, 1, n)
OneCallMore(s, u, x) == x \in Threads!Call /\ u = Append(s, x)

\* A thread keeps its first n calls and has no others.
LEMMA CallsCut ==
  ASSUME NEW c, NEW f, NEW st, NEW d, NEW g, NEW st2, NEW t,
         f[t] \in Seq(CallInfo), g[t] \in Seq(CallInfo),
         ~errorstatus(st[t]), ~errorstatus(st2[t]),
         NEW n \in 0 .. Len(f[t]), Len(g[t]) = n,
         SameMarks(c, d, t, n), SameYpcalls(f, g, t, n)
  PROVE  /\ CallsOf(d, g, st2, t) = FirstCalls(CallsOf(c, f, st, t), n)
         /\ n = Len(f[t]) => CallsOf(d, g, st2, t) = CallsOf(c, f, st, t)
<1> DEFINE C == Threads!Call
           s == CallsOf(c, f, st, t)
           u == CallsOf(d, g, st2, t)
<1>1. /\ s \in Seq(C) /\ u \in Seq(C) /\ Len(s) = Len(f[t]) /\ Len(u) = n
      /\ \A i \in 1 .. Len(f[t]) : s[i] = FrameCall(c, f, t, i)
      /\ \A i \in 1 .. n : u[i] = FrameCall(d, g, t, i)
  <2>1. /\ s \in Seq(C) /\ Len(s) = Len(f[t])
        /\ \A i \in 1 .. Len(f[t]) : s[i] = FrameCall(c, f, t, i)
    BY CallsTyped
  <2>2. /\ u \in Seq(C) /\ Len(u) = Len(g[t])
        /\ \A i \in 1 .. Len(g[t]) : u[i] = FrameCall(d, g, t, i)
    BY CallsTyped
  <2> HIDE DEF s, u, C
  <2> QED BY <2>1, <2>2
<1>2. n \in Nat /\ Len(f[t]) \in Nat /\ \A i \in 1 .. n : i \in 1 .. Len(f[t])
  OBVIOUS
<1>3. \A i \in 1 .. n : FrameCall(c, f, t, i) = FrameCall(d, g, t, i)
  BY <1>2, SameCalls
<1> HIDE DEF C, s, u
<1>4. \A i \in 1 .. n : u[i] = s[i]
  BY <1>1, <1>2, <1>3, Zenon
<1>5. /\ SubSeq(s, 1, n) \in Seq(C) /\ Len(SubSeq(s, 1, n)) = n
      /\ \A i \in 1 .. n : SubSeq(s, 1, n)[i] = s[i]
  BY <1>1, <1>2, FirstOnes
<1>6. u = SubSeq(s, 1, n)
  BY <1>1, <1>4, <1>5, SeqEqual
<1>7. n = Len(f[t]) => u = s
  BY <1>1, <1>4, SeqEqual
<1> QED BY <1>6, <1>7 DEF s, u, FirstCalls

\* A thread makes one more call.
LEMMA CallsGrow ==
  ASSUME NEW c, NEW f, NEW st, NEW d, NEW g, NEW st2, NEW t,
         f[t] \in Seq(CallInfo), g[t] \in Seq(CallInfo),
         ~errorstatus(st[t]), ~errorstatus(st2[t]),
         Len(g[t]) = Len(f[t]) + 1,
         SameMarks(c, d, t, Len(f[t])), SameYpcalls(f, g, t, Len(f[t]))
  PROVE  OneCallMore(CallsOf(c, f, st, t), CallsOf(d, g, st2, t), FrameCall(d, g, t, Len(f[t]) + 1))
<1> DEFINE n == Len(f[t])
           C == Threads!Call
           s == CallsOf(c, f, st, t)
           u == CallsOf(d, g, st2, t)
           x == FrameCall(d, g, t, n + 1)
<1>1. /\ s \in Seq(C) /\ u \in Seq(C) /\ Len(s) = n /\ Len(u) = n + 1
      /\ \A i \in 1 .. n : s[i] = FrameCall(c, f, t, i)
      /\ \A i \in 1 .. n + 1 : u[i] = FrameCall(d, g, t, i)
  <2>1. /\ s \in Seq(C) /\ Len(s) = Len(f[t])
        /\ \A i \in 1 .. Len(f[t]) : s[i] = FrameCall(c, f, t, i)
    BY CallsTyped
  <2>2. /\ u \in Seq(C) /\ Len(u) = Len(g[t])
        /\ \A i \in 1 .. Len(g[t]) : u[i] = FrameCall(d, g, t, i)
    BY CallsTyped
  <2> HIDE DEF s, u, C
  <2> QED BY <2>1, <2>2
<1>2. n \in Nat
  OBVIOUS
<1>3. \A i \in 1 .. n : FrameCall(c, f, t, i) = FrameCall(d, g, t, i)
  BY <1>2, SameCalls
<1>4. x \in C
  BY DEF FrameCall, Threads!Call, PcallAt, NoyieldAt
<1>5. u[n + 1] = x
  BY <1>1, <1>2
<1> HIDE DEF C, s, u, x
<1>6. \A i \in 1 .. n : u[i] = s[i]
  <2>1. \A i \in 1 .. n : i \in 1 .. n + 1
    BY <1>2
  <2> QED BY <1>1, <1>3, <2>1, Zenon
<1>7. /\ Append(s, x) \in Seq(C) /\ Len(Append(s, x)) = n + 1
      /\ \A i \in 1 .. n : Append(s, x)[i] = s[i]
      /\ Append(s, x)[n + 1] = x
  BY <1>1, <1>4, AppendProperties
<1>8. \A i \in 1 .. n + 1 : u[i] = Append(s, x)[i]
  BY <1>2, <1>5, <1>6, <1>7
<1>9. u = Append(s, x)
  BY <1>1, <1>7, <1>8, SeqEqual
<1> QED BY <1>4, <1>9 DEF s, u, x, C, OneCallMore

\* The calls of a thread that nothing touches.
LEMMA OtherCalls ==
  ASSUME NEW c, NEW f, NEW st, NEW d, NEW g, NEW st2, NEW t,
         f[t] \in Seq(CallInfo), g[t] = f[t], st2[t] = st[t],
         SameMarks(c, d, t, Len(f[t]))
  PROVE  CallsOf(d, g, st2, t) = CallsOf(c, f, st, t)
<1>1. CASE errorstatus(st[t])
  BY <1>1 DEF CallsOf
<1>2. CASE ~errorstatus(st[t])
  <2>1. SameYpcalls(f, g, t, Len(f[t]))
    BY DEF SameYpcalls, YpcallAt
  <2>2. Len(f[t]) \in 0 .. Len(f[t])
    OBVIOUS
  <2> QED BY <1>2, <2>1, <2>2, CallsCut
<1> QED BY <1>1, <1>2

-----------------------------------------------------------------------------
(* Activations come and go.                                                *)

EnteredSame(c, d, n) == \A i \in 1 .. n : Entered(d[i]) <=> Entered(c[i])
IsFrames(f) == f \in [Thread -> Seq(CallInfo)]

\* What an activation adds to the marks.
LEMMA PushMarks ==
  ASSUME NEW c \in Seq(Activation), NEW d, NEW a, Pushed(c, d, a), NEW t, NEW n \in Nat,
         Marks(a) /\ a.th = t => n <= a.level
  PROVE  a.level \in Nat => SameMarks(c, d, t, n)
<1>1. /\ Len(c) \in Nat /\ Len(d) = Len(c) + 1 /\ d[Len(c) + 1] = a
      /\ \A i \in 1 .. Len(c) : d[i] = c[i]
  BY DEF Pushed
<1>2. \A i : i \in 1 .. Len(d) <=> i \in 1 .. Len(c) \/ i = Len(c) + 1
  BY <1>1
<1> SUFFICES ASSUME a.level \in Nat, NEW l \in 0 .. n - 1
             PROVE  /\ PcallAt(c, t, l) <=> PcallAt(d, t, l)
                    /\ NoyieldAt(c, t, l) <=> NoyieldAt(d, t, l)
  BY DEF SameMarks
<1>3. CASE Marks(a) /\ a.th = t
  <2>1. l # a.level
    BY <1>3
  <2> QED BY <1>1, <1>2, <2>1 DEF PcallAt, NoyieldAt
<1>4. CASE ~(Marks(a) /\ a.th = t)
  BY <1>1, <1>2, <1>4 DEF PcallAt, NoyieldAt, Marks
<1> QED BY <1>3, <1>4

\* What dropping activations leaves of the marks.
LEMMA CutMarks ==
  ASSUME NEW c \in Seq(Activation), Stack(c), NEW d, NEW n, Cut(c, d, n), NEW t, NEW m \in Nat,
         \A j \in n + 1 .. Len(c) :
           c[j].th = t /\ Marks(c[j]) => m <= c[j].level
  PROVE  SameMarks(c, d, t, m)
<1>1. /\ Len(d) = n /\ n \in 1 .. Len(c) /\ Len(c) \in Nat
      /\ \A i \in 1 .. n : Alike(c[i], d[i])
      /\ \A i \in 1 .. Len(c) : c[i].level \in Nat
  BY StackParts, CutStack DEF Cut
<1>2. \A i \in 1 .. n : /\ c[i].fn = d[i].fn /\ c[i].th = d[i].th /\ c[i].level = d[i].level
                        /\ c[i].fn = "luaD_call" => c[i].noyield = d[i].noyield
  BY <1>1 DEF Alike
<1>3. \A i \in 1 .. Len(c) : i \in 1 .. n \/ i \in n + 1 .. Len(c)
  BY <1>1
<1>4. \A i \in 1 .. n : i \in 1 .. Len(c)
  BY <1>1
<1> SUFFICES ASSUME NEW l \in 0 .. m - 1
             PROVE  /\ PcallAt(c, t, l) <=> PcallAt(d, t, l)
                    /\ NoyieldAt(c, t, l) <=> NoyieldAt(d, t, l)
  BY DEF SameMarks
<1>5. \A i \in n + 1 .. Len(c) :
        c[i].th = t /\ Marks(c[i]) => c[i].level # l
  <2> SUFFICES ASSUME NEW i \in n + 1 .. Len(c), c[i].th = t,
                      Marks(c[i]), c[i].level = l
               PROVE  FALSE
    OBVIOUS
  <2>1. m <= l
    OBVIOUS
  <2>2. i \in 1 .. Len(c)
    BY <1>1
  <2>3. l \in Nat
    BY <1>1, <2>2
  <2> QED BY <2>1, <2>3
<1>6. PcallAt(c, t, l) <=> PcallAt(d, t, l)
  <2>1. \A i \in 1 .. n : (c[i].fn = "luaD_pcall" /\ c[i].th = t /\ c[i].level = l) <=>
                           (d[i].fn = "luaD_pcall" /\ d[i].th = t /\ d[i].level = l)
    BY <1>2
  <2>2. \A i \in n + 1 .. Len(c) : ~(c[i].fn = "luaD_pcall" /\ c[i].th = t /\ c[i].level = l)
    BY <1>5 DEF Marks
  <2> QED BY <1>1, <1>3, <1>4, <2>1, <2>2 DEF PcallAt
<1>7. NoyieldAt(c, t, l) <=> NoyieldAt(d, t, l)
  <2>1. \A i \in 1 .. n : (c[i].fn = "luaD_call" /\ c[i].noyield /\ c[i].th = t /\ c[i].level = l) <=>
                           (d[i].fn = "luaD_call" /\ d[i].noyield /\ d[i].th = t /\ d[i].level = l)
    BY <1>2
  <2>2. \A i \in n + 1 .. Len(c) : ~(c[i].fn = "luaD_call" /\ c[i].noyield /\ c[i].th = t /\ c[i].level = l)
    BY <1>5 DEF Marks
  <2> QED BY <1>1, <1>3, <1>4, <2>1, <2>2 DEF NoyieldAt
<1> QED BY <1>6, <1>7

\* Activations other than lua_resume do not change who waits for whom.
LEMMA CutResumed ==
  ASSUME NEW c \in Seq(Activation), Stack(c), NEW d, NEW n, Cut(c, d, n),
         EnteredSame(c, d, n),
         \A j \in n + 1 .. Len(c) : c[j].fn # "lua_resume"
  PROVE  ResumedOf(d) = ResumedOf(c)
<1>1. /\ Len(d) = n /\ n \in 1 .. Len(c) /\ Len(c) \in Nat
      /\ \A i \in 1 .. n : c[i].th = d[i].th
      /\ \A i \in 1 .. Len(c) : c[i].fn = "lua_resume" => i > 1
  BY StackParts, CutStack DEF Cut, Alike
<1>2. {i \in 1 .. Len(c) : Entered(c[i])} = {i \in 1 .. Len(d) : Entered(d[i])}
  <2>1. \A i \in 1 .. Len(c) : i \in 1 .. n \/ ~Entered(c[i])
    BY <1>1 DEF Entered
  <2>2. \A i \in 1 .. n : i \in 1 .. Len(c) /\ (Entered(d[i]) <=> Entered(c[i]))
    BY <1>1 DEF EnteredSame
  <2> QED BY <1>1, <2>1, <2>2
<1>3. \A i \in {j \in 1 .. Len(d) : Entered(d[j])} :
        /\ i \in 1 .. n /\ i - 1 \in 1 .. n
        /\ d[i].th = c[i].th /\ d[i - 1].th = c[i - 1].th
  <2> SUFFICES ASSUME NEW i \in 1 .. Len(d), Entered(d[i])
               PROVE  /\ i \in 1 .. n /\ i - 1 \in 1 .. n
                      /\ d[i].th = c[i].th /\ d[i - 1].th = c[i - 1].th
    OBVIOUS
  <2>1. i \in 1 .. Len(c) /\ Entered(c[i])
    BY <1>2
  <2>2. i > 1
    BY <1>1, <2>1 DEF Entered
  <2> QED BY <1>1, <2>2
<1> QED BY <1>2, <1>3, Zenon DEF ResumedOf

\* And neither does a lua_resume before it is entered.
LEMMA PushResumed ==
  ASSUME NEW c \in Seq(Activation), Stack(c), NEW d, NEW a, Pushed(c, d, a),
         a.fn = "lua_resume" => ~a.entered
  PROVE  ResumedOf(d) = ResumedOf(c)
<1>1. /\ Len(c) \in Nat /\ Len(d) = Len(c) + 1 /\ d[Len(c) + 1] = a
      /\ \A i \in 1 .. Len(c) : d[i] = c[i]
      /\ \A i \in 1 .. Len(c) : c[i].fn = "lua_resume" => i > 1
  BY StackParts DEF Pushed
<1>2. {i \in 1 .. Len(c) : Entered(c[i])} = {i \in 1 .. Len(d) : Entered(d[i])}
  <2>1. \A i : i \in 1 .. Len(d) <=> i \in 1 .. Len(c) \/ i = Len(c) + 1
    BY <1>1
  <2>2. ~Entered(a)
    BY DEF Entered
  <2> QED BY <1>1, <2>1, <2>2
<1>3. \A i \in {j \in 1 .. Len(c) : Entered(c[j])} :
        d[i].th = c[i].th /\ d[i - 1].th = c[i - 1].th
  <2> SUFFICES ASSUME NEW i \in 1 .. Len(c), Entered(c[i])
               PROVE  d[i].th = c[i].th /\ d[i - 1].th = c[i - 1].th
    OBVIOUS
  <2>1. i > 1
    BY <1>1 DEF Entered
  <2>2. i - 1 \in 1 .. Len(c)
    BY <1>1, <2>1
  <2> QED BY <1>1, <2>2
<1> QED BY <1>2, <1>3, Zenon DEF ResumedOf

-----------------------------------------------------------------------------
(* Moves that LuaThreads does not see.                                     *)

SameView(c, f, d, g, st, un) ==
  /\ \A t \in Thread : CallsOf(d, g, st, t) = CallsOf(c, f, st, t)
  /\ \A t \in Thread : StateOf(d, st, un, t) = StateOf(c, st, un, t)
  /\ RunningOf(d) = RunningOf(c) /\ ResumedOf(d) = ResumedOf(c)

\* A function of the interpreter is called.
LEMMA PushView ==
  ASSUME NEW c \in Seq(Activation), Stack(c), NEW f, IsFrames(f), NEW st, NEW un,
         NEW d, NEW a \in Activation, Pushed(c, d, a), a.th = c[Len(c)].th,
         a.fn # "lua_resume", IsEntered(c),
         Marks(a) => Len(f[a.th]) <= a.level
  PROVE  SameView(c, f, d, f, st, un)
<1>1. Len(c) \in 1 .. Len(c) /\ Len(d) = Len(c) + 1 /\ d[Len(d)] = a
  BY StackParts DEF Pushed
<1>2. ASSUME NEW t \in Thread
      PROVE  CallsOf(d, f, st, t) = CallsOf(c, f, st, t)
  <2>1. a.level \in Nat /\ f[t] \in Seq(CallInfo) /\ Len(f[t]) \in Nat
    BY ActivationFields DEF IsFrames
  <2>2. SameMarks(c, d, t, Len(f[t]))
    BY <2>1, PushMarks
  <2> QED BY <2>1, <2>2, OtherCalls
<1>3. ASSUME NEW t \in Thread
      PROVE  StateOf(d, st, un, t) = StateOf(c, st, un, t)
  <2>1. ResumesOf(d, t) = ResumesOf(c, t)
    BY PushOn
  <2> QED BY <2>1 DEF StateOf, IsOn
<1>4. RunningOf(d) = RunningOf(c)
  BY <1>1 DEF RunningOf, IsEntered
<1>5. ResumedOf(d) = ResumedOf(c)
  BY PushResumed
<1> QED BY <1>2, <1>3, <1>4, <1>5 DEF SameView

\* Control comes back to an activation of the same thread.
LEMMA CutView ==
  ASSUME NEW c \in Seq(Activation), Stack(c), NEW f, IsFrames(f), NEW st, NEW un,
         NEW d, NEW n, Cut(c, d, n), EnteredSame(c, d, n), IsEntered(c), IsEntered(d),
         c[n].th = c[Len(c)].th,
         \A j \in n + 1 .. Len(c) :
           /\ c[j].th = c[Len(c)].th /\ c[j].fn # "lua_resume"
           /\ Marks(c[j]) => Len(f[c[Len(c)].th]) <= c[j].level
  PROVE  SameView(c, f, d, f, st, un)
<1>1. /\ n \in 1 .. Len(c) /\ Len(c) \in Nat /\ Len(d) = n /\ d[n].th = c[n].th
  BY StackParts DEF Cut, Alike
<1>2. ASSUME NEW t \in Thread
      PROVE  CallsOf(d, f, st, t) = CallsOf(c, f, st, t)
  <2>1. f[t] \in Seq(CallInfo) /\ Len(f[t]) \in Nat
    BY DEF IsFrames
  <2>2. SameMarks(c, d, t, Len(f[t]))
    BY <2>1, CutMarks
  <2> QED BY <2>1, <2>2, OtherCalls
<1>3. ASSUME NEW t \in Thread
      PROVE  StateOf(d, st, un, t) = StateOf(c, st, un, t)
  <2>1. n < Len(c) => c[n + 1].th = c[Len(c)].th
    BY <1>1
  <2>2. ResumesOf(d, t) = ResumesOf(c, t)
    BY <2>1, CutOn
  <2> QED BY <2>2 DEF StateOf, IsOn
<1>4. RunningOf(d) = RunningOf(c)
  BY <1>1 DEF RunningOf
<1>5. ResumedOf(d) = ResumedOf(c)
  BY CutResumed
<1> QED BY <1>2, <1>3, <1>4, <1>5 DEF SameView

\* Frames change in what does not matter.
LEMMA FramesView ==
  ASSUME NEW c, NEW f, NEW g, IsFrames(f), IsFrames(g), NEW st, NEW un,
         \A t \in Thread : Len(g[t]) = Len(f[t]) /\ SameYpcalls(f, g, t, Len(f[t]))
  PROVE  SameView(c, f, c, g, st, un)
<1>1. ASSUME NEW t \in Thread
      PROVE  CallsOf(c, g, st, t) = CallsOf(c, f, st, t)
  <2>1. CASE errorstatus(st[t])
    BY <2>1 DEF CallsOf
  <2>2. CASE ~errorstatus(st[t])
    <3>1. /\ f[t] \in Seq(CallInfo) /\ g[t] \in Seq(CallInfo)
          /\ Len(f[t]) \in 0 .. Len(f[t]) /\ Len(g[t]) = Len(f[t])
          /\ SameYpcalls(f, g, t, Len(f[t])) /\ SameMarks(c, c, t, Len(f[t]))
      BY DEF IsFrames, SameMarks
    <3> QED BY <2>2, <3>1, CallsCut
  <2> QED BY <2>1, <2>2
<1> QED BY <1>1 DEF SameView

-----------------------------------------------------------------------------
(* Steps of LuaThreads.                                                    *)

Maps == [Threads!Next]_(Threads!vars)

\* The calls and the state of one thread change.
LEMMA OneThread ==
  ASSUME IInv, IInv', NEW u \in Thread
  PROVE  /\ callsBar[u] = CallsOf(cs, ci, status, u)
         /\ stateBar[u] = StateOf(cs, status, unstarted, u)
         /\ runningBar = RunningOf(cs) /\ resumedBar = ResumedOf(cs)
         /\ runningBar' = RunningOf(cs') /\ resumedBar' = ResumedOf(cs')
         /\ (\A t \in Thread : t # u =>
               CallsOf(cs', ci', status', t) = CallsOf(cs, ci, status, t))
            => callsBar' = [callsBar EXCEPT ![u] = CallsOf(cs', ci', status', u)]
         /\ (\A t \in Thread : t # u =>
               StateOf(cs', status', unstarted', t) = StateOf(cs, status, unstarted, t))
            => stateBar' = [stateBar EXCEPT ![u] = StateOf(cs', status', unstarted', u)]
<1>1. /\ callsBar = [t \in Thread |-> CallsOf(cs, ci, status, t)]
      /\ stateBar = [t \in Thread |-> StateOf(cs, status, unstarted, t)]
      /\ runningBar = RunningOf(cs) /\ resumedBar = ResumedOf(cs)
  BY BarsAre
<1>2. /\ callsBar' = [t \in Thread |-> CallsOf(cs', ci', status', t)]
      /\ stateBar' = [t \in Thread |-> StateOf(cs', status', unstarted', t)]
      /\ runningBar' = RunningOf(cs') /\ resumedBar' = ResumedOf(cs')
  <2>1. (callsBar = [t \in Thread |-> CallsOf(cs, ci, status, t)]
         /\ stateBar = [t \in Thread |-> StateOf(cs, status, unstarted, t)]
         /\ runningBar = RunningOf(cs) /\ resumedBar = ResumedOf(cs))'
    BY BarsAre, PTL
  <2> QED BY <2>1
<1>3. ASSUME \A t \in Thread : t # u =>
               CallsOf(cs', ci', status', t) = CallsOf(cs, ci, status, t)
      PROVE  callsBar' = [callsBar EXCEPT ![u] = CallsOf(cs', ci', status', u)]
  BY <1>1, <1>2, <1>3
<1>4. ASSUME \A t \in Thread : t # u =>
               StateOf(cs', status', unstarted', t) = StateOf(cs, status, unstarted, t)
      PROVE  stateBar' = [stateBar EXCEPT ![u] = StateOf(cs', status', unstarted', u)]
  BY <1>1, <1>2, <1>4
<1> QED BY <1>1, <1>2, <1>3, <1>4

\* The step that LuaThreads does not see.
LEMMA NoStep ==
  ASSUME IInv, IInv', UNCHANGED <<status, unstarted>>,
         SameView(cs, ci, cs', ci', status, unstarted)
  PROVE  UNCHANGED Threads!vars
<1>1. /\ runningBar' = runningBar /\ resumedBar' = resumedBar
  BY ThreadAssumption, OneThread DEF SameView
<1>2. callsBar' = callsBar /\ stateBar' = stateBar
  <2>1. /\ callsBar = [t \in Thread |-> CallsOf(cs, ci, status, t)]
        /\ stateBar = [t \in Thread |-> StateOf(cs, status, unstarted, t)]
    BY BarsAre
  <2>2. \A t \in Thread : /\ CallsOf(cs', ci', status', t) = CallsOf(cs, ci, status, t)
                          /\ StateOf(cs', status', unstarted', t) = StateOf(cs, status, unstarted, t)
    BY DEF SameView
  <2>3. /\ callsBar' = [callsBar EXCEPT ![MainThread] = CallsOf(cs', ci', status', MainThread)]
        /\ stateBar' = [stateBar EXCEPT ![MainThread] = StateOf(cs', status', unstarted', MainThread)]
    BY <2>2, ThreadAssumption, OneThread
  <2> QED BY <2>1, <2>2, <2>3, ThreadAssumption
<1> QED BY <1>1, <1>2 DEF Threads!vars

\* First the frames of the running thread become those of g, then nothing
\* that matters changes.
LeadsTo(g) ==
  /\ UNCHANGED <<status, unstarted>>
  /\ IsEntered(cs)
  /\ IsFrames(g) /\ OnlyFor(L, g, ci)
  /\ SameView(cs, g, cs', ci', status, unstarted)

\* What LuaThreads sees of such a step.
LEMMA LedTo ==
  ASSUME IInv, IInv', NEW g, LeadsTo(g)
  PROVE  /\ callsBar[L] = CallsOf(cs, ci, status, L)
         /\ callsBar' = [callsBar EXCEPT ![L] = CallsOf(cs, g, status, L)]
         /\ runningBar = L
         /\ UNCHANGED <<stateBar, runningBar, resumedBar>>
         /\ ~errorstatus(status[L]) /\ L \in Thread
         /\ ci[L] \in Seq(CallInfo) /\ g[L] \in Seq(CallInfo)
<1>1. /\ L \in Thread /\ ci \in [Thread -> Seq(CallInfo)]
      /\ cs \in Seq(Activation) /\ Top = cs[Len(cs)] /\ L = cs[Len(cs)].th
  BY Here DEF Parts, L, Top
<1>2. /\ UNCHANGED <<status, unstarted>> /\ IsEntered(cs)
      /\ g \in [Thread -> Seq(CallInfo)] /\ \A u \in Thread : u # L => g[u] = ci[u]
      /\ \A t \in Thread : CallsOf(cs', ci', status, t) = CallsOf(cs, g, status, t)
      /\ \A t \in Thread : StateOf(cs', status, unstarted, t) = StateOf(cs, status, unstarted, t)
      /\ RunningOf(cs') = RunningOf(cs) /\ ResumedOf(cs') = ResumedOf(cs)
  BY DEF LeadsTo, OnlyFor, SameView, IsFrames
<1>3. ASSUME NEW t \in Thread, t # L
      PROVE  CallsOf(cs', ci', status', t) = CallsOf(cs, ci, status, t)
  <2>1. /\ ci[t] \in Seq(CallInfo) /\ g[t] = ci[t]
        /\ SameMarks(cs, cs, t, Len(ci[t]))
    BY <1>1, <1>2, <1>3 DEF SameMarks
  <2>2. CallsOf(cs, g, status, t) = CallsOf(cs, ci, status, t)
    BY <2>1, OtherCalls
  <2> QED BY <1>2, <2>2
<1>4. callsBar' = [callsBar EXCEPT ![L] = CallsOf(cs', ci', status', L)]
  BY <1>1, <1>3, OneThread
<1>5. runningBar = L
  BY <1>1, <1>2, OneThread DEF RunningOf
<1>6. UNCHANGED <<runningBar, resumedBar>>
  BY <1>1, <1>2, OneThread
<1>7. stateBar' = stateBar
  <2>1. stateBar' = [stateBar EXCEPT ![L] = StateOf(cs', status', unstarted', L)]
    BY <1>1, <1>2, OneThread
  <2>2. stateBar = [t \in Thread |-> StateOf(cs, status, unstarted, t)]
    BY BarsAre
  <2> QED BY <1>1, <1>2, <2>1, <2>2
<1>8. ~errorstatus(status[L])
  <2>1. Top.fn = "lua_resume" => Top.entered
    BY <1>1, <1>2 DEF IsEntered
  <2> QED BY <2>1, Here DEF errorstatus, Errors
<1>9. callsBar[L] = CallsOf(cs, ci, status, L)
  BY <1>1, OneThread
<1> QED BY <1>1, <1>2, <1>4, <1>5, <1>6, <1>7, <1>8, <1>9

\* The running thread makes a call.
LEMMA EnterMaps ==
  ASSUME IInv, IInv', NEW g, LeadsTo(g),
         Len(g[L]) = Depth(L) + 1, SameYpcalls(ci, g, L, Depth(L))
  PROVE  Maps
<1> DEFINE x == FrameCall(cs, g, L, Len(ci[L]) + 1)
<1>1. OneCallMore(CallsOf(cs, ci, status, L), CallsOf(cs, g, status, L), x)
  <2>1. /\ SameMarks(cs, cs, L, Len(ci[L]))
        /\ ~errorstatus(status[L]) /\ ci[L] \in Seq(CallInfo) /\ g[L] \in Seq(CallInfo)
        /\ Len(g[L]) = Len(ci[L]) + 1 /\ SameYpcalls(ci, g, L, Len(ci[L]))
    BY LedTo DEF SameMarks, Depth
  <2> QED BY <2>1, CallsGrow
<1> HIDE DEF x
<1>2. Threads!Enter(x)
  BY <1>1, LedTo DEF Threads!Enter, OneCallMore
<1>3. x \in Threads!Call
  BY <1>1 DEF OneCallMore
<1> QED BY <1>2, <1>3 DEF Maps, Threads!Next

\* Calls of the running thread end, or nothing happens.
LEMMA CutMaps ==
  ASSUME IInv, IInv', NEW g, LeadsTo(g),
         NEW n \in 0 .. Depth(L), Len(g[L]) = n, SameYpcalls(ci, g, L, n),
         \/ n >= Depth(L) - 1
         \/ n + 1 \in Threads!Protected(L) /\ \A j \in Threads!Protected(L) : j <= n + 1
  PROVE  Maps
<1> DEFINE s == CallsOf(cs, ci, status, L)
           u == CallsOf(cs, g, status, L)
<1>1. /\ u = SubSeq(s, 1, n) /\ (n = Depth(L) => u = s) /\ Len(s) = Depth(L)
      /\ Depth(L) \in Nat
  <2>1. /\ SameMarks(cs, cs, L, n) /\ Depth(L) = Len(ci[L])
        /\ ~errorstatus(status[L]) /\ ci[L] \in Seq(CallInfo) /\ g[L] \in Seq(CallInfo)
    BY LedTo DEF SameMarks, Depth
  <2>2. n \in 0 .. Len(ci[L])
    BY <2>1
  <2>3. /\ CallsOf(cs, g, status, L) = FirstCalls(CallsOf(cs, ci, status, L), n)
        /\ n = Len(ci[L]) => CallsOf(cs, g, status, L) = CallsOf(cs, ci, status, L)
    BY <2>1, <2>2, CallsCut
  <2>4. Len(CallsOf(cs, ci, status, L)) = Len(ci[L])
    BY <2>1, CallsTyped
  <2> QED BY <2>1, <2>3, <2>4 DEF FirstCalls
<1>2. /\ callsBar[L] = s /\ callsBar' = [callsBar EXCEPT ![L] = u] /\ runningBar = L
      /\ UNCHANGED <<stateBar, runningBar, resumedBar>>
      /\ L \in Thread
  BY LedTo
<1> HIDE DEF s, u
<1>3. CASE n = Depth(L)
  <2>1. callsBar = [t \in Thread |-> CallsOf(cs, ci, status, t)]
    BY BarsAre
  <2>2. callsBar' = callsBar
    BY <1>1, <1>2, <1>3, <2>1 DEF s
  <2> QED BY <1>2, <2>2 DEF Maps, Threads!vars
<1>4. CASE n = Depth(L) - 1
  <2>1. s # <<>> /\ n = Len(s) - 1
    BY <1>1, <1>4
  <2>2. Threads!Return
    BY <1>1, <1>2, <2>1 DEF Threads!Return
  <2> QED BY <2>2 DEF Maps, Threads!Next
<1>5. CASE n + 1 \in Threads!Protected(L) /\ \A j \in Threads!Protected(L) : j <= n + 1
  <2>1. (n + 1) - 1 = n
    OBVIOUS
  <2>2. Threads!Error
    BY <1>1, <1>2, <1>5, <2>1 DEF Threads!Error
  <2> QED BY <2>2 DEF Maps, Threads!Next
<1>6. n = Depth(L) \/ n = Depth(L) - 1 \/ ~(n >= Depth(L) - 1)
  BY <1>1
<1> QED BY <1>3, <1>4, <1>5, <1>6

-----------------------------------------------------------------------------
(* A coroutine gives control back.                                         *)

\* The activations of the running thread go, from its lua_resume on.
Leaves(c, d, j) ==
  /\ j \in 2 .. Len(c) /\ c[j].fn = "lua_resume" /\ c[j].th = c[Len(c)].th
  /\ d = SubSeq(c, 1, j - 1)

\* What is left when they are gone.
LEMMA LeftBehind ==
  ASSUME NEW c \in Seq(Activation), Stack(c), NEW d, NEW j, Leaves(c, d, j)
  PROVE  /\ d \in Seq(Activation) /\ Len(d) = j - 1 /\ j - 1 \in 1 .. Len(c)
         /\ \A i \in 1 .. j - 1 : d[i] = c[i] /\ c[i].th # c[j].th
         /\ \A i \in j .. Len(c) : c[i].th = c[j].th
         /\ \A i \in j + 1 .. Len(c) : c[i].fn # "lua_resume"
         /\ IsEntered(d)
<1>1. /\ Len(c) \in Nat /\ j \in 2 .. Len(c) /\ j - 1 \in 1 .. Len(c) /\ (j - 1) + 1 = j
      /\ Len(c) \in 1 .. Len(c) /\ j \in 1 .. Len(c)
  BY StackParts DEF Leaves
<1>2. /\ d \in Seq(Activation) /\ Len(d) = j - 1 /\ \A i \in 1 .. j - 1 : d[i] = c[i]
  BY <1>1, FirstOnes DEF Leaves
<1>3. \A i \in 1 .. j - 1 : c[i].th # c[j].th
  BY <1>1, ResumeIsFirst DEF Leaves
<1>4. \A i \in j .. Len(c) : c[i].th = c[j].th
  BY <1>1 DEF Leaves, Stack
<1>5. ASSUME NEW i \in j + 1 .. Len(c), c[i].fn = "lua_resume"
      PROVE  FALSE
  <2>1. i \in 1 .. Len(c) /\ j \in 1 .. i - 1 /\ i \in j .. Len(c)
    BY <1>1
  <2> QED BY <1>4, <1>5, <2>1, ResumeIsFirst
<1>6. IsEntered(d)
  <2>1. c[j].fn = "lua_resume" => UsesApi(c[j - 1])
    BY <1>1 DEF Stack
  <2>2. c[j - 1].fn # "lua_resume"
    BY <2>1 DEF UsesApi, Leaves
  <2>3. d[Len(d)] = c[j - 1]
    BY <1>1, <1>2
  <2> QED BY <2>2, <2>3 DEF IsEntered
<1> QED BY <1>1, <1>2, <1>3, <1>4, <1>5, <1>6

\* Who waits for whom then.
LEMMA LeftResumed ==
  ASSUME NEW c \in Seq(Activation), Stack(c), NEW d, NEW j, Leaves(c, d, j)
  PROVE  /\ RunningOf(d) = c[j - 1].th
         /\ c[j].entered => /\ <<c[j - 1].th, c[j].th>> \in ResumedOf(c)
                            /\ ResumedOf(d) = ResumedOf(c) \ {<<c[j - 1].th, c[j].th>>}
         /\ ~c[j].entered => ResumedOf(d) = ResumedOf(c)
<1>1. /\ d \in Seq(Activation) /\ Len(d) = j - 1 /\ j - 1 \in 1 .. Len(c)
      /\ \A i \in 1 .. j - 1 : d[i] = c[i] /\ c[i].th # c[j].th
      /\ \A i \in j + 1 .. Len(c) : c[i].fn # "lua_resume"
      /\ IsEntered(d)
  BY LeftBehind
<1>2. j \in 2 .. Len(c) /\ c[j].fn = "lua_resume" /\ Len(c) \in Nat
  BY StackParts DEF Leaves
<1>3. RunningOf(d) = c[j - 1].th
  BY <1>1, <1>2 DEF RunningOf
<1> DEFINE E == {i \in 1 .. Len(c) : Entered(c[i])}
           D == {i \in 1 .. Len(d) : Entered(d[i])}
           p(i) == <<c[i - 1].th, c[i].th>>
<1>4. ResumedOf(c) = {p(i) : i \in E} /\ ResumedOf(d) = {<<d[i - 1].th, d[i].th>> : i \in D}
  BY DEF ResumedOf
<1>5. \A i \in D : /\ i \in E /\ i # j /\ i - 1 \in 1 .. j - 1 /\ i \in 1 .. j - 1
                   /\ d[i - 1].th = c[i - 1].th /\ d[i].th = c[i].th
  <2> SUFFICES ASSUME NEW i \in 1 .. Len(d), Entered(d[i])
               PROVE  /\ i \in E /\ i # j /\ i - 1 \in 1 .. j - 1 /\ i \in 1 .. j - 1
                      /\ d[i - 1].th = c[i - 1].th /\ d[i].th = c[i].th
    OBVIOUS
  <2>1. i \in 1 .. j - 1 /\ i \in 1 .. Len(c) /\ Entered(c[i]) /\ c[i].fn = "lua_resume" /\ i # j
    BY <1>1, <1>2 DEF Entered
  <2>2. i > 1
    BY <2>1, StackParts
  <2> QED BY <1>1, <1>2, <2>1, <2>2
<1>6. \A i \in E : i \in D \/ i = j
  BY <1>1, <1>2 DEF Entered
<1>7. j \in E <=> c[j].entered
  BY <1>2 DEF Entered
<1>8. ResumedOf(d) = {p(i) : i \in D}
  <2> DEFINE q(i) == <<d[i - 1].th, d[i].th>>
  <2>1. \A i \in D : q(i) = p(i)
    BY <1>5
  <2>2. ResumedOf(d) = {q(i) : i \in D}
    BY <1>4
  <2> HIDE DEF D, p, q
  <2> QED BY <2>1, <2>2
<1>9. p(j) \notin {p(i) : i \in D}
  BY <1>1, <1>5
<1> HIDE DEF E, D, p
<1>10. CASE c[j].entered
  <2>1. p(j) \in ResumedOf(c)
    BY <1>4, <1>7, <1>10
  <2>2. ResumedOf(d) = ResumedOf(c) \ {p(j)}
    BY <1>4, <1>5, <1>6, <1>8, <1>9
  <2> QED BY <1>3, <1>10, <2>1, <2>2 DEF p
<1>11. CASE ~c[j].entered
  <2>1. E = D
    BY <1>5, <1>6, <1>7, <1>11
  <2> QED BY <1>3, <1>4, <1>8, <1>11, <2>1
<1> QED BY <1>10, <1>11

\* The other threads do not notice, and the thread itself has no activation.
LEMMA LeftAlone ==
  ASSUME NEW c \in Seq(Activation), Stack(c), NEW d, NEW j, Leaves(c, d, j)
  PROVE  /\ \A t, n : n \in Nat /\ t # c[j].th => SameMarks(c, d, t, n)
         /\ \A t : t # c[j].th => ResumesOf(d, t) = ResumesOf(c, t)
         /\ \A l : ~PcallAt(d, c[j].th, l) /\ ~NoyieldAt(d, c[j].th, l)
         /\ ~IsOn(d, c[j].th)
<1>1. /\ Len(d) = j - 1 /\ j - 1 \in 1 .. Len(c) /\ d \in Seq(Activation)
      /\ \A i \in 1 .. j - 1 : d[i] = c[i] /\ c[i].th # c[j].th
      /\ \A i \in j .. Len(c) : c[i].th = c[j].th
  BY LeftBehind
<1>2. j \in 2 .. Len(c) /\ c[j].fn = "lua_resume" /\ Len(c) \in Nat /\ (j - 1) + 1 = j
  BY StackParts DEF Leaves
<1>3. Cut(c, d, j - 1)
  BY <1>1, CutIsCut DEF Leaves
<1>4. ASSUME NEW t, NEW n, n \in Nat, t # c[j].th
      PROVE  SameMarks(c, d, t, n)
  <2>1. \A i \in (j - 1) + 1 .. Len(c) : c[i].th # t
    BY <1>1, <1>2, <1>4
  <2> QED BY <1>3, <1>4, <2>1, CutMarks
<1>5. ASSUME NEW t, t # c[j].th
      PROVE  ResumesOf(d, t) = ResumesOf(c, t)
  BY <1>1, <1>2, <1>3, <1>5, CutOn DEF Leaves
<1>6. \A l : ~PcallAt(d, c[j].th, l) /\ ~NoyieldAt(d, c[j].th, l)
  BY <1>1 DEF PcallAt, NoyieldAt
<1>7. ~IsOn(d, c[j].th)
  <2>1. c[j].th # MainThread
    BY <1>2, ResumeIsFirst
  <2>2. ResumesOf(d, c[j].th) = {}
    BY <1>1 DEF ResumesOf
  <2> QED BY <2>1, <2>2 DEF IsOn
<1> QED BY <1>4, <1>5, <1>6, <1>7

\* The running thread gives control back.
LEMMA LeaveMaps ==
  ASSUME IInv, IInv', NEW j, Leaves(cs, cs', j), IsEntered(cs),
         OnlyFor(L, ci', ci), OnlyFor(L, status', status),
         OnlySetFor(L, unstarted', unstarted)
  PROVE  /\ Threads!Leave(StateOf(cs', status', unstarted', L))
         /\ callsBar' = [callsBar EXCEPT ![L] = CallsOf(cs', ci', status', L)]
         /\ runningBar = L /\ L \in Thread
         /\ callsBar[L] = CallsOf(cs, ci, status, L)
<1>1. /\ L \in Thread /\ ci \in [Thread -> Seq(CallInfo)] /\ Stack(cs)
      /\ cs \in Seq(Activation) /\ Top = cs[Len(cs)] /\ L = cs[Len(cs)].th
      /\ Len(cs) \in 1 .. Len(cs)
  BY Here DEF Parts, L, Top, IInv, Inv
<1>2. j \in 2 .. Len(cs) /\ cs[j].fn = "lua_resume" /\ cs[j].th = L
  BY <1>1 DEF Leaves
<1>3. cs[j].entered
  <2>1. CASE j = Len(cs)
    BY <1>2, <2>1 DEF IsEntered
  <2>2. CASE j # Len(cs)
    <3>1. j \in 1 .. Len(cs) /\ j < Len(cs)
      BY <1>1, <1>2, <2>2
    <3> QED BY <1>1, <1>2, <3>1, EnteredBelow
  <2> QED BY <2>1, <2>2
<1>4. ASSUME NEW t \in Thread, t # L
      PROVE  CallsOf(cs', ci', status', t) = CallsOf(cs, ci, status, t)
  <2>1. ci'[t] = ci[t] /\ status'[t] = status[t] /\ ci[t] \in Seq(CallInfo)
        /\ Len(ci[t]) \in Nat
    BY <1>1, <1>4 DEF OnlyFor
  <2>2. SameMarks(cs, cs', t, Len(ci[t]))
    BY <1>1, <1>2, <1>4, <2>1, LeftAlone
  <2> QED BY <2>1, <2>2, OtherCalls
<1>5. ASSUME NEW t \in Thread, t # L
      PROVE  StateOf(cs', status', unstarted', t) = StateOf(cs, status, unstarted, t)
  <2>1. status'[t] = status[t] /\ (t \in unstarted' <=> t \in unstarted)
    BY <1>5 DEF OnlyFor, OnlySetFor
  <2>2. ResumesOf(cs', t) = ResumesOf(cs, t)
    BY <1>1, <1>2, <1>5, LeftAlone
  <2> QED BY <2>1, <2>2 DEF StateOf, IsOn
<1>6. /\ callsBar' = [callsBar EXCEPT ![L] = CallsOf(cs', ci', status', L)]
      /\ stateBar' = [stateBar EXCEPT ![L] = StateOf(cs', status', unstarted', L)]
      /\ runningBar = L /\ callsBar[L] = CallsOf(cs, ci, status, L)
      /\ runningBar' = RunningOf(cs') /\ resumedBar = ResumedOf(cs)
      /\ resumedBar' = ResumedOf(cs')
  BY <1>1, <1>4, <1>5, OneThread DEF RunningOf
<1>7. /\ RunningOf(cs') = cs[j - 1].th
      /\ <<cs[j - 1].th, L>> \in ResumedOf(cs)
      /\ ResumedOf(cs') = ResumedOf(cs) \ {<<cs[j - 1].th, L>>}
  BY <1>1, <1>2, <1>3, LeftResumed
<1>8. cs[j - 1].th \in Thread
  <2>1. j - 1 \in 1 .. Len(cs)
    BY <1>1, <1>2
  <2> QED BY <1>1, <2>1, StackParts
<1>9. Threads!Leave(StateOf(cs', status', unstarted', L))
  BY <1>6, <1>7, <1>8 DEF Threads!Leave
<1> QED BY <1>1, <1>6, <1>9

-----------------------------------------------------------------------------
(* Steps in which the running thread stays the same.                       *)

\* d is c without activations of the thread on top, which work for frames
\* behind the first n ones.
Dropped(c, d, n) ==
  /\ EnteredSame(c, d, Len(d)) /\ Cut(c, d, Len(d)) /\ c[Len(d)].th = c[Len(c)].th
  /\ \A j \in Len(d) + 1 .. Len(c) :
       /\ c[j].th = c[Len(c)].th /\ c[j].fn # "lua_resume"
       /\ Marks(c[j]) => n <= c[j].level

\* They are not missed.
LEMMA DroppedView ==
  ASSUME NEW c \in Seq(Activation), Stack(c), IsEntered(c), NEW f, IsFrames(f),
         NEW st, NEW un, NEW d, Dropped(c, d, Len(f[c[Len(c)].th]))
  PROVE  /\ SameView(c, f, d, f, st, un) /\ IsEntered(d)
         /\ d[Len(d)].th = c[Len(c)].th
<1>1. /\ Cut(c, d, Len(d)) /\ EnteredSame(c, d, Len(d)) /\ c[Len(d)].th = c[Len(c)].th
      /\ \A j \in Len(d) + 1 .. Len(c) :
           /\ c[j].th = c[Len(c)].th /\ c[j].fn # "lua_resume"
           /\ Marks(c[j]) => Len(f[c[Len(c)].th]) <= c[j].level
  BY DEF Dropped
<1>2. /\ Len(d) \in 1 .. Len(c) /\ Len(c) \in Nat /\ Alike(c[Len(d)], d[Len(d)])
  BY <1>1, StackParts DEF Cut
<1>3. IsEntered(d)
  <2> SUFFICES ASSUME d[Len(d)].fn = "lua_resume" PROVE d[Len(d)].entered
    BY DEF IsEntered
  <2>1. c[Len(d)].fn = "lua_resume"
    BY <1>2 DEF Alike
  <2>2. c[Len(d)].entered
    <3>1. CASE Len(d) = Len(c)
      BY <2>1, <3>1 DEF IsEntered
    <3>2. CASE Len(d) < Len(c)
      BY <1>2, <2>1, <3>2, EnteredBelow
    <3> QED BY <1>2, <3>1, <3>2
  <2>3. Len(d) \in 1 .. Len(d)
    BY <1>2
  <2> QED BY <1>1, <2>1, <2>2, <2>3 DEF EnteredSame, Entered
<1>4. SameView(c, f, d, f, st, un)
  BY <1>1, <1>3, CutView
<1>5. d[Len(d)].th = c[Len(c)].th
  BY <1>1, <1>2 DEF Alike
<1> QED BY <1>3, <1>4, <1>5

\* Control goes back to an activation of the same thread, which may call others.
Moves(S) ==
  /\ UNCHANGED <<status, unstarted>> /\ OnlyFor(L, ci', ci) /\ IsEntered(cs) /\ IsEntered(cs')
  /\ Dropped(cs, S, Len(ci'[L])) /\ Dropped(cs', S, Len(ci'[L]))

\* LuaThreads sees of it what happens to the frames.
LEMMA MovesLead ==
  ASSUME IInv, IInv', NEW S, Moves(S)
  PROVE  LeadsTo(ci')
<1>1. /\ cs \in Seq(Activation) /\ Stack(cs) /\ L = cs[Len(cs)].th
  BY DEF IInv, Inv, Typed, L, Top
<1>2. /\ cs' \in Seq(Activation) /\ Stack(cs') /\ IsFrames(ci')
  BY DEF IInv, Inv, Typed, IsFrames
<1>3. /\ UNCHANGED <<status, unstarted>> /\ OnlyFor(L, ci', ci) /\ IsEntered(cs)
      /\ Dropped(cs, S, Len(ci'[cs[Len(cs)].th])) /\ IsEntered(cs')
  BY <1>1 DEF Moves
<1>4. /\ SameView(cs, ci', S, ci', status, unstarted) /\ S[Len(S)].th = L
  BY <1>1, <1>2, <1>3, DroppedView
<1>5. Dropped(cs', S, Len(ci'[L]))
  BY DEF Moves
<1>6. cs'[Len(cs')].th = L
  <2>1. /\ Cut(cs', S, Len(S)) /\ cs'[Len(S)].th = cs'[Len(cs')].th
    BY <1>5 DEF Dropped
  <2>2. Alike(cs'[Len(S)], S[Len(S)])
    BY <2>1 DEF Cut
  <2> QED BY <1>4, <2>1, <2>2 DEF Alike
<1>7. Dropped(cs', S, Len(ci'[cs'[Len(cs')].th]))
  BY <1>5, <1>6
<1>8. SameView(cs', ci', S, ci', status, unstarted)
  BY <1>2, <1>3, <1>7, DroppedView
<1>9. SameView(cs, ci', cs', ci', status, unstarted)
  BY <1>4, <1>8 DEF SameView
<1> QED BY <1>2, <1>3, <1>9 DEF LeadsTo

\* Nothing is dropped.
LEMMA NothingDropped ==
  ASSUME NEW c \in Seq(Activation), Stack(c), NEW n
  PROVE  Dropped(c, c, n)
<1>1. Len(c) \in Nat \ {0} /\ Len(c) \in 1 .. Len(c)
  BY StackParts
<1>2. Cut(c, c, Len(c)) /\ EnteredSame(c, c, Len(c))
  BY <1>1 DEF Cut, Alike, EnteredSame
<1>3. \A j \in Len(c) + 1 .. Len(c) : FALSE
  BY <1>1
<1> QED BY <1>2, <1>3 DEF Dropped

\* Activations are pushed.
LEMMA PushMoves ==
  ASSUME IInv, IInv', UNCHANGED <<status, unstarted>>, OnlyFor(L, ci', ci), IsEntered(cs),
         IsEntered(cs'), Dropped(cs', cs, Len(ci'[L]))
  PROVE  LeadsTo(ci')
<1>1. Dropped(cs, cs, Len(ci'[L]))
  BY NothingDropped DEF IInv, Inv, Typed
<1> QED BY <1>1, MovesLead DEF Moves

\* Activations are popped.
LEMMA PopMoves ==
  ASSUME IInv, IInv', UNCHANGED <<status, unstarted>>, OnlyFor(L, ci', ci), IsEntered(cs),
         Dropped(cs, cs', Len(ci'[L]))
  PROVE  LeadsTo(ci')
<1>1. Dropped(cs', cs', Len(ci'[L]))
  <2>1. cs' \in Seq(Activation) /\ Stack(cs')
    BY DEF IInv, Inv, Typed
  <2> QED BY <2>1, NothingDropped
<1>2. IsEntered(cs')
  <2>1. /\ cs \in Seq(Activation) /\ Stack(cs) /\ L = cs[Len(cs)].th /\ IsFrames(ci')
    BY DEF IInv, Inv, Typed, L, Top, IsFrames
  <2> QED BY <2>1, DroppedView
<1> QED BY <1>1, <1>2, MovesLead DEF Moves

\* The frames of L stay, but for what LuaThreads does not see.
FramesStay ==
  /\ OnlyFor(L, ci', ci) /\ Len(ci'[L]) = Depth(L) /\ SameYpcalls(ci, ci', L, Depth(L))

\* Such a step is nothing to LuaThreads.
LEMMA StayMaps ==
  ASSUME IInv, IInv', LeadsTo(ci'), FramesStay
  PROVE  Maps
<1>1. Depth(L) \in Nat
  BY Here
<1>2. /\ Depth(L) \in 0 .. Depth(L) /\ Depth(L) >= Depth(L) - 1
  BY <1>1
<1> QED BY <1>2, CutMaps DEF FramesStay

\* Frames that are what they were.
LEMMA SameStay ==
  ASSUME UNCHANGED ci
  PROVE  FramesStay /\ OnlyFor(L, ci', ci) /\ Len(ci'[L]) = Depth(L)
BY DEF FramesStay, OnlyFor, SameYpcalls, YpcallAt, Depth

-----------------------------------------------------------------------------
(* Functions of the interpreter are called.                                *)

\* The activation a of the running thread does not work for the first n frames.
Adds(c, a, n) ==
  /\ a \in Activation /\ a.th = c[Len(c)].th /\ a.fn # "lua_resume"
  /\ Marks(a) => n <= a.level

Added(c, a, d) == d = Append(c, a)

\* One activation more.
LEMMA AddOne ==
  ASSUME NEW c \in Seq(Activation), NEW b, NEW n, Dropped(c, b, n),
         NEW a, Adds(c, a, n), NEW d, Added(c, a, d)
  PROVE  Dropped(d, b, n) /\ d \in Seq(Activation) /\ d[Len(d)] = a
<1>1. /\ EnteredSame(c, b, Len(b)) /\ Cut(c, b, Len(b)) /\ c[Len(b)].th = c[Len(c)].th
      /\ \A j \in Len(b) + 1 .. Len(c) :
           /\ c[j].th = c[Len(c)].th /\ c[j].fn # "lua_resume"
           /\ Marks(c[j]) => n <= c[j].level
  BY DEF Dropped
<1>2. /\ a \in Activation /\ a.th = c[Len(c)].th /\ a.fn # "lua_resume"
      /\ Marks(a) => n <= a.level
  BY DEF Adds
<1>3. /\ d \in Seq(Activation) /\ Len(d) = Len(c) + 1 /\ d[Len(d)] = a
      /\ \A i \in 1 .. Len(c) : d[i] = c[i]
  BY <1>2, TopOfPushed DEF Added
<1>4. /\ b \in Seq(Activation) /\ Len(b) \in 1 .. Len(c) /\ Len(c) \in Nat
      /\ \A i \in 1 .. Len(b) - 1 : b[i] = c[i]
      /\ Alike(c[Len(b)], b[Len(b)])
  BY <1>1 DEF Cut
<1>5. /\ Len(b) \in 1 .. Len(d) /\ d[Len(b)] = c[Len(b)]
      /\ \A i \in 1 .. Len(b) : d[i] = c[i]
      /\ \A i \in 1 .. Len(b) - 1 : b[i] = d[i]
  <2>1. /\ Len(b) \in 1 .. Len(d) /\ Len(b) \in 1 .. Len(c)
        /\ \A i \in 1 .. Len(b) : i \in 1 .. Len(c)
        /\ \A i \in 1 .. Len(b) - 1 : i \in 1 .. Len(b)
    BY <1>3, <1>4
  <2>2. /\ d[Len(b)] = c[Len(b)]
        /\ \A i \in 1 .. Len(b) : d[i] = c[i]
    BY <1>3, <2>1
  <2> QED BY <1>4, <2>1, <2>2
<1>6. Cut(d, b, Len(b)) /\ EnteredSame(d, b, Len(b))
  BY <1>1, <1>4, <1>5 DEF Cut, EnteredSame
<1>7. ASSUME NEW j \in Len(b) + 1 .. Len(d)
      PROVE  /\ d[j].th = d[Len(d)].th /\ d[j].fn # "lua_resume"
             /\ Marks(d[j]) => n <= d[j].level
  <2>1. CASE j = Len(d)
    BY <1>2, <1>3, <2>1
  <2>2. CASE j # Len(d)
    <3>1. j \in Len(b) + 1 .. Len(c) /\ j \in 1 .. Len(c)
      BY <1>3, <1>4, <2>2, SMTT(30)
    <3> QED BY <1>1, <1>2, <1>3, <3>1
  <2> QED BY <2>1, <2>2
<1>8. d[Len(b)].th = d[Len(d)].th
  BY <1>1, <1>2, <1>3, <1>5
<1> QED BY <1>3, <1>6, <1>7, <1>8 DEF Dropped

\* The frames stay, and activations of the running thread come on top.
LEMMA AddsMap ==
  ASSUME IInv, IInv', UNCHANGED <<status, unstarted>>, FramesStay, IsEntered(cs),
         Dropped(cs', cs, Depth(L)), cs'[Len(cs')].fn # "lua_resume"
  PROVE  Maps
<1>1. /\ OnlyFor(L, ci', ci) /\ Len(ci'[L]) = Depth(L)
  BY DEF FramesStay
<1>2. IsEntered(cs')
  BY DEF IsEntered
<1>3. LeadsTo(ci')
  BY <1>1, <1>2, PushMoves
<1> QED BY <1>3, StayMaps

\* The running thread, to which activations are added.
LEMMA AddTo ==
  ASSUME IInv, NEW a, a \in Activation, a.th = L, a.fn # "lua_resume", a.level = Depth(L)
  PROVE  /\ Adds(cs, a, Depth(L)) /\ cs \in Seq(Activation)
         /\ Dropped(cs, cs, Depth(L)) /\ L = cs[Len(cs)].th
<1>1. /\ cs \in Seq(Activation) /\ Stack(cs) /\ L = cs[Len(cs)].th /\ Depth(L) \in Nat
  BY Here DEF IInv, Inv, Typed, L, Top
<1>3. Adds(cs, a, Depth(L))
  BY <1>1 DEF Adds
<1>4. Dropped(cs, cs, Depth(L))
  BY <1>1, NothingDropped
<1> QED BY <1>1, <1>3, <1>4

\* One activation is pushed.
LEMMA PushOneMaps ==
  ASSUME IInv, IInv', UNCHANGED <<status, unstarted>>, FramesStay, IsEntered(cs),
         NEW a, a \in Activation, a.th = L, a.fn # "lua_resume", a.level = Depth(L),
         Added(cs, a, cs')
  PROVE  Maps
<1>1. /\ Adds(cs, a, Depth(L)) /\ cs \in Seq(Activation)
      /\ Dropped(cs, cs, Depth(L))
  BY AddTo
<1>2. Dropped(cs', cs, Depth(L)) /\ cs'[Len(cs')] = a
  BY <1>1, AddOne
<1> QED BY <1>2, AddsMap

\* Two.
LEMMA PushTwoMaps ==
  ASSUME IInv, IInv', UNCHANGED <<status, unstarted>>, FramesStay, IsEntered(cs),
         NEW a, a \in Activation, a.th = L, a.fn # "lua_resume", a.level = Depth(L),
         NEW b, b \in Activation, b.th = L, b.fn # "lua_resume", b.level = Depth(L),
         NEW d, Added(cs, a, d), Added(d, b, cs')
  PROVE  Maps
<1>1. /\ Adds(cs, a, Depth(L)) /\ cs \in Seq(Activation)
      /\ Dropped(cs, cs, Depth(L)) /\ Depth(L) \in Nat
  BY AddTo, Here
<1>2. Dropped(d, cs, Depth(L)) /\ d \in Seq(Activation) /\ d[Len(d)] = a
  BY <1>1, AddOne
<1>3. Adds(d, b, Depth(L))
  BY <1>1, <1>2 DEF Adds
<1>4. Dropped(cs', cs, Depth(L)) /\ cs'[Len(cs')] = b
  BY <1>1, <1>2, <1>3, AddOne
<1> QED BY <1>4, AddsMap

\* Three.
LEMMA PushThreeMaps ==
  ASSUME IInv, IInv', UNCHANGED <<status, unstarted>>, FramesStay, IsEntered(cs),
         NEW a, a \in Activation, a.th = L, a.fn # "lua_resume", a.level = Depth(L),
         NEW b, b \in Activation, b.th = L, b.fn # "lua_resume", b.level = Depth(L),
         NEW e, e \in Activation, e.th = L, e.fn # "lua_resume", e.level = Depth(L),
         NEW d, Added(cs, a, d), NEW d2, Added(d, b, d2), Added(d2, e, cs')
  PROVE  Maps
<1>1. /\ Adds(cs, a, Depth(L)) /\ cs \in Seq(Activation)
      /\ Dropped(cs, cs, Depth(L)) /\ Depth(L) \in Nat
  BY AddTo, Here
<1>2. Dropped(d, cs, Depth(L)) /\ d \in Seq(Activation) /\ d[Len(d)] = a
  BY <1>1, AddOne
<1>3. Adds(d, b, Depth(L))
  BY <1>1, <1>2 DEF Adds
<1>4. Dropped(d2, cs, Depth(L)) /\ d2 \in Seq(Activation) /\ d2[Len(d2)] = b
  BY <1>1, <1>2, <1>3, AddOne
<1>5. Adds(d2, e, Depth(L))
  BY <1>1, <1>4 DEF Adds
<1>6. Dropped(cs', cs, Depth(L)) /\ cs'[Len(cs')] = e
  BY <1>1, <1>4, <1>5, AddOne
<1> QED BY <1>6, AddsMap

\* luaD_call is called, on whatever runs.
LEMMA CallMaps ==
  ASSUME IInv, IInv', UNCHANGED <<status, unstarted>>, FramesStay, IsEntered(cs),
         NEW noyield \in BOOLEAN,
         NEW caller \in {"callk", "pcallk", "f_call", "luaT_callTM", "luaG_errormsg"},
         luaD_call(caller, noyield, cs)
  PROVE  Maps
<1> DEFINE a == CallRecord(L, Depth(L), caller, noyield)
<1>1. cs' = Append(cs, a)
  BY DEF luaD_call, CallActivation, CallRecord
<1>2. a \in Activation /\ a.th = L /\ a.fn # "lua_resume" /\ a.level = Depth(L)
  BY Here DEF CallRecord, Activation
<1>3. Added(cs, a, cs')
  BY <1>1 DEF Added
<1> HIDE DEF a
<1> QED BY <1>2, <1>3, PushOneMaps

-----------------------------------------------------------------------------
(* The actions of that kind.                                               *)

\* luaT_callTM calls luaD_call.
LEMMA CallTMMaps == ASSUME IInv, IInv', luaT_callTM PROVE Maps
<1>1. /\ luaD_call("luaT_callTM", ~TopFrame.lua, cs)
      /\ UNCHANGED <<ci, status, errfunc, allowhook, unstarted>>
      /\ Top.fn \in {"luaV_execute", "f_parser", "C", "hook"}
  BY DEF luaT_callTM, InFunction
<1>2. FramesStay /\ IsEntered(cs)
  BY <1>1, SameStay DEF IsEntered, Top
<1>3. (~TopFrame.lua) \in BOOLEAN
  OBVIOUS
<1> HIDE DEF TopFrame
<1> QED BY <1>1, <1>2, <1>3, CallMaps

\* lua_callk saves a continuation, and calls luaD_call.
LEMMA CallkMaps == ASSUME IInv, IInv', NEW k \in BOOLEAN, lua_callk(k) PROVE Maps
<1> DEFINE y == k /\ nny[L] = 0
<1>1. /\ InC /\ ~InHost /\ (k => InFunction) /\ luaD_call("callk", ~y, cs)
      /\ ci' = IF y THEN [ci EXCEPT ![L][Depth(L)].k = "k"] ELSE ci
      /\ UNCHANGED <<status, errfunc, allowhook, unstarted>>
  BY DEF lua_callk
<1>2. IsEntered(cs)
  BY <1>1 DEF InC, IsEntered, Top
<1>3. (~y) \in BOOLEAN
  OBVIOUS
<1>4. FramesStay
  <2>1. CASE ~y
    BY <1>1, <2>1, SameStay
  <2>2. CASE y
    <3>1. /\ L \in Thread /\ ci \in [Thread -> Seq(CallInfo)] /\ ci[L] \in Seq(CallInfo)
          /\ Depth(L) = Len(ci[L]) /\ Depth(L) \in Nat
      BY Here DEF Parts, L, Top, Depth
    <3>2. ci' = [ci EXCEPT ![L] = [ci[L] EXCEPT ![Depth(L)] = [ci[L][Depth(L)] EXCEPT !.k = "k"]]]
      BY <1>1, <2>2
    <3>3. /\ OnlyFor(L, ci', ci)
          /\ ci'[L] = [ci[L] EXCEPT ![Depth(L)] = [ci[L][Depth(L)] EXCEPT !.k = "k"]]
      BY <3>1, <3>2 DEF OnlyFor
    <3>4. Len(ci'[L]) = Depth(L) /\ \A i \in 1 .. Depth(L) - 1 : ci'[L][i] = ci[L][i]
      <4>1. DOMAIN ci'[L] = 1 .. Len(ci[L])
        BY <3>1, <3>3
      <4>2. ci'[L] \in Seq(CallInfo)
        BY <3>1 DEF IInv, Inv, Typed
      <4> QED BY <3>1, <3>3, <4>1, <4>2
    <3> QED BY <3>3, <3>4 DEF FramesStay, SameYpcalls, YpcallAt
  <2> QED BY <2>1, <2>2
<1> HIDE DEF y
<1> QED BY <1>1, <1>2, <1>3, <1>4, CallMaps

\* lua_pcallk calls luaD_pcall, or marks its frame and calls luaD_call.
LEMMA PcallkMaps ==
  ASSUME IInv, IInv', NEW k \in BOOLEAN, NEW handler \in BOOLEAN, lua_pcallk(k, handler)
  PROVE  Maps
<1> DEFINE ef == IF handler THEN HandlerOf(Depth(L)) ELSE 0
<1>1. /\ InC /\ (k => InFunction) /\ UNCHANGED <<status, allowhook, unstarted>>
  BY DEF lua_pcallk
<1>2. IsEntered(cs)
  BY <1>1 DEF InC, IsEntered, Top
<1>3. /\ L \in Thread /\ ci \in [Thread -> Seq(CallInfo)] /\ ci[L] \in Seq(CallInfo)
      /\ Depth(L) = Len(ci[L]) /\ Depth(L) \in Nat
      /\ nny[L] \in Nat /\ nCcalls[L] \in Nat /\ errfunc[L] \in Nat
      /\ allowhook[L] \in BOOLEAN
  BY Here DEF Parts, L, Top, Depth
<1>4. CASE k /\ nny[L] = 0
  <2> DEFINE frame == [ci[L][Depth(L)] EXCEPT !.k = "k", !.old_errfunc = errfunc[L],
                         !.oah = allowhook[L], !.ypcall = TRUE, !.handler = handler]
  <2>1. /\ ci' = [ci EXCEPT ![L] = [ci[L] EXCEPT ![Depth(L)] = frame]]
        /\ luaD_call("pcallk", FALSE, cs)
    BY <1>4 DEF lua_pcallk
  <2> HIDE DEF frame
  <2>2. /\ OnlyFor(L, ci', ci) /\ ci'[L] = [ci[L] EXCEPT ![Depth(L)] = frame]
    BY <1>3, <2>1 DEF OnlyFor
  <2>3. Len(ci'[L]) = Depth(L) /\ \A i \in 1 .. Depth(L) - 1 : ci'[L][i] = ci[L][i]
    <3>1. DOMAIN ci'[L] = 1 .. Len(ci[L])
      BY <1>3, <2>2
    <3>2. ci'[L] \in Seq(CallInfo)
      BY <1>3 DEF IInv, Inv, Typed
    <3> QED BY <1>3, <2>2, <3>1, <3>2
  <2>4. FramesStay
    BY <2>2, <2>3 DEF FramesStay, SameYpcalls, YpcallAt
  <2> QED BY <1>1, <1>2, <2>1, <2>4, CallMaps
<1>5. CASE ~(k /\ nny[L] = 0)
  <2>1. luaD_call("f_call", TRUE, Append(cs, PcallActivation(ef))) /\ UNCHANGED ci
    BY <1>5 DEF lua_pcallk
  <2>2. ef \in Nat
    BY <1>3 DEF HandlerOf
  <2> HIDE DEF ef
  <2> DEFINE p == PcallRecord(L, Depth(L), nny[L], nCcalls[L], errfunc[L], allowhook[L], ef)
             a == CallRecord(L, Depth(L), "f_call", TRUE)
             d == Append(cs, p)
  <2>3. cs' = Append(d, a)
    BY <2>1 DEF luaD_call, CallActivation, CallRecord, PcallActivation, PcallRecord
  <2>4. /\ p \in Activation /\ p.th = L /\ p.fn # "lua_resume" /\ p.level = Depth(L)
        /\ a \in Activation /\ a.th = L /\ a.fn # "lua_resume" /\ a.level = Depth(L)
    BY <1>3, <2>2 DEF Activation, PcallRecord, CallRecord
  <2>5. Added(cs, p, d) /\ Added(d, a, cs')
    BY <2>3 DEF Added
  <2> HIDE DEF p, a, d
  <2>6. FramesStay
    BY <2>1, SameStay
  <2> QED BY <1>1, <1>2, <2>4, <2>5, <2>6, PushTwoMaps
<1> QED BY <1>4, <1>5

\* luaD_hook calls the hook.
LEMMA HookMaps == ASSUME IInv, IInv', luaD_hook PROVE Maps
<1> DEFINE a == [fn |-> "hook", th |-> L, level |-> Depth(L)]
<1>1. /\ Top.fn = "luaV_execute" /\ cs' = Append(cs, a)
      /\ UNCHANGED <<ci, status, nny, nCcalls, errfunc, unstarted>>
  BY DEF luaD_hook
<1>2. a \in Activation /\ a.th = L /\ a.fn # "lua_resume" /\ a.level = Depth(L)
  BY Here DEF Activation, Runs
<1>3. FramesStay /\ IsEntered(cs)
  BY <1>1, SameStay DEF IsEntered, Top
<1>4. Added(cs, a, cs')
  BY <1>1 DEF Added
<1> HIDE DEF a
<1> QED BY <1>1, <1>2, <1>3, <1>4, PushOneMaps

\* GCTM calls a finalizer.
LEMMA GCTMMaps == ASSUME IInv, IInv', GCTM PROVE Maps
<1> DEFINE b == [fn |-> "GCTM", th |-> L, level |-> Depth(L), oldah |-> allowhook[L],
                 status |-> "LUA_OK"]
           p == PcallRecord(L, Depth(L), nny[L], nCcalls[L], errfunc[L], FALSE, 0)
           a == CallRecord(L, Depth(L), "f_call", TRUE)
           d == Append(cs, b)
           d2 == Append(d, p)
<1>1. /\ Allocates /\ UNCHANGED <<ci, status, unstarted>>
  BY DEF GCTM
<1>2. /\ cs \in Seq(Activation) /\ L \in Thread /\ Depth(L) \in Nat
      /\ nny[L] \in Nat /\ nCcalls[L] \in Nat /\ errfunc[L] \in Nat
      /\ allowhook[L] \in BOOLEAN
  BY Here DEF Parts, L, Top
<1>3. IsEntered(cs) /\ FramesStay
  BY <1>1, AllocatesHere, SameStay DEF IsEntered, Top
<1>4. /\ b \in Activation /\ b.th = L /\ b.fn # "lua_resume" /\ b.level = Depth(L)
      /\ p \in Activation /\ p.th = L /\ p.fn # "lua_resume" /\ p.level = Depth(L)
      /\ a \in Activation /\ a.th = L /\ a.fn # "lua_resume" /\ a.level = Depth(L)
  BY <1>2 DEF Activation, PcallRecord, CallRecord, Errors
<1>5. cs' = Append(Append(Append(cs, b), p), a)
  <2>1. [PcallActivation(0) EXCEPT !.allowhook = FALSE] = p
    <3>1. \A x : [PcallActivation(0) EXCEPT !.allowhook = x] =
                  PcallRecord(L, Depth(L), nny[L], nCcalls[L], errfunc[L], x, 0)
      BY DEF PcallActivation, PcallRecord
    <3> QED BY <3>1
  <2>2. CallActivation("f_call", TRUE) = a
    BY DEF CallActivation, CallRecord
  <2>3. luaD_call("f_call", TRUE, cs \o <<b, [PcallActivation(0) EXCEPT !.allowhook = FALSE]>>)
    BY DEF GCTM
  <2>4. luaD_call("f_call", TRUE, cs \o <<b, p>>)
    BY <2>1, <2>3
  <2> HIDE DEF a, b, p
  <2>5. cs \o <<b, p>> = Append(Append(cs, b), p)
    BY <1>2, <1>4, TwoMore
  <2> QED BY <2>2, <2>4, <2>5 DEF luaD_call
<1>6. Added(cs, b, d) /\ Added(d, p, d2) /\ Added(d2, a, cs')
  BY <1>5 DEF Added
<1> HIDE DEF a, b, p, d, d2
<1> QED BY <1>1, <1>3, <1>4, <1>6, PushThreeMaps

\* luaD_protectedparser calls luaD_pcall, which calls the parser.
LEMMA ProtectedParserMaps == ASSUME IInv, IInv', luaD_protectedparser PROVE Maps
<1> DEFINE b == [fn |-> "luaD_protectedparser", th |-> L, level |-> Depth(L)]
           p == PcallRecord(L, Depth(L), nny[L] + 1, nCcalls[L], errfunc[L],
                            allowhook[L], errfunc[L])
           a == [fn |-> "f_parser", th |-> L, level |-> Depth(L)]
           d == Append(cs, b)
           d2 == Append(d, p)
<1>1. /\ InFunction /\ UNCHANGED <<ci, status, nCcalls, errfunc, allowhook, unstarted>>
  BY DEF luaD_protectedparser
<1>2. /\ cs \in Seq(Activation) /\ L \in Thread /\ Depth(L) \in Nat
      /\ nny[L] \in Nat /\ nCcalls[L] \in Nat /\ errfunc[L] \in Nat
      /\ allowhook[L] \in BOOLEAN
  BY Here DEF Parts, L, Top
<1>3. IsEntered(cs) /\ FramesStay
  BY <1>1, SameStay DEF InFunction, IsEntered, Top
<1>4. /\ b \in Activation /\ b.th = L /\ b.fn # "lua_resume" /\ b.level = Depth(L)
      /\ p \in Activation /\ p.th = L /\ p.fn # "lua_resume" /\ p.level = Depth(L)
      /\ a \in Activation /\ a.th = L /\ a.fn # "lua_resume" /\ a.level = Depth(L)
  BY <1>2 DEF Activation, PcallRecord, Runs
<1>5. cs' = Append(Append(Append(cs, b), p), a)
  <2>1. [PcallActivation(errfunc[L]) EXCEPT !.nny = @ + 1] = p
    BY DEF PcallActivation, PcallRecord
  <2>2. cs' = cs \o <<b, [PcallActivation(errfunc[L]) EXCEPT !.nny = @ + 1], a>>
    BY DEF luaD_protectedparser
  <2>3. cs' = cs \o <<b, p, a>>
    BY <2>1, <2>2
  <2> HIDE DEF a, b, p
  <2> QED BY <1>2, <1>4, <2>3, ThreeMore
<1>6. Added(cs, b, d) /\ Added(d, p, d2) /\ Added(d2, a, cs')
  BY <1>5 DEF Added
<1> HIDE DEF a, b, p, d, d2
<1> QED BY <1>1, <1>3, <1>4, <1>6, PushThreeMaps

-----------------------------------------------------------------------------
(* Functions of the interpreter, and those of Lua, return.                 *)

\* The activation on top ends.
LEMMA PopDropped ==
  ASSUME NEW c \in Seq(Activation), Stack(c), NEW d, Cut(c, d, Len(c) - 1),
         c[Len(c) - 1].fn = "lua_resume" => d[Len(c) - 1] = c[Len(c) - 1],
         NEW m, c[Len(c)].fn # "lua_resume",
         Marks(c[Len(c)]) => m <= c[Len(c)].level
  PROVE  Dropped(c, d, m)
<1>1. /\ Len(d) = Len(c) - 1 /\ Len(d) \in 1 .. Len(c) /\ Len(c) \in Nat
      /\ \A i \in 1 .. Len(d) - 1 : d[i] = c[i]
      /\ Alike(c[Len(d)], d[Len(d)])
  BY StackParts DEF Cut
<1>2. EnteredSame(c, d, Len(d))
  <2> SUFFICES ASSUME NEW i \in 1 .. Len(d) PROVE Entered(d[i]) <=> Entered(c[i])
    BY DEF EnteredSame
  <2>1. CASE i = Len(d)
    BY <1>1, <2>1 DEF Entered, Alike
  <2>2. CASE i # Len(d)
    BY <1>1, <2>2
  <2> QED BY <2>1, <2>2
<1>3. Len(c) \in 2 .. Len(c)
  BY <1>1
<1>4. c[Len(c) - 1].th = c[Len(c)].th
  BY <1>3 DEF Stack
<1>5. \A j \in Len(d) + 1 .. Len(c) : j = Len(c)
  BY <1>1
<1> QED BY <1>1, <1>2, <1>4, <1>5 DEF Dropped

\* Frames of which at most the last one ended.
FramesEnd ==
  /\ OnlyFor(L, ci', ci)
  /\ Len(ci'[L]) = Depth(L) \/ Len(ci'[L]) = Depth(L) - 1
  /\ SameYpcalls(ci, ci', L, Len(ci'[L]))

\* Such a step is a return, or nothing to LuaThreads.
LEMMA EndsMap ==
  ASSUME IInv, IInv', LeadsTo(ci'), FramesEnd
  PROVE  Maps
<1>1. Depth(L) \in Nat /\ ci'[L] \in Seq(CallInfo)
  BY Here DEF IInv, Inv, Typed
<1>2. Len(ci'[L]) \in Nat
  BY <1>1
<1>3. /\ Len(ci'[L]) \in 0 .. Depth(L) /\ Len(ci'[L]) >= Depth(L) - 1
  BY <1>1, <1>2 DEF FramesEnd
<1> QED BY <1>3, CutMaps DEF FramesEnd

\* What runs returns, with the frame it ran in or without.
LEMMA PopMaps ==
  ASSUME IInv, IInv', UNCHANGED <<status, unstarted>>, Top.fn # "lua_resume", FramesEnd,
         Cut(cs, cs', Len(cs) - 1),
         cs[Len(cs) - 1].fn = "lua_resume" => cs'[Len(cs) - 1] = cs[Len(cs) - 1]
  PROVE  Maps
<1>1. /\ cs \in Seq(Activation) /\ Stack(cs) /\ Top = cs[Len(cs)] /\ Depth(L) \in Nat
      /\ Top.fn \notin {"luaV_execute", "lua_resume"} => Depth(L) = Top.level
  BY Here DEF IInv, Inv, Typed, Top
<1>2. Len(ci'[L]) <= Depth(L)
  BY <1>1 DEF FramesEnd
<1>3. Dropped(cs, cs', Len(ci'[L]))
  BY <1>1, <1>2, PopDropped DEF Marks
<1>4. IsEntered(cs)
  BY <1>1 DEF IsEntered
<1>5. LeadsTo(ci')
  BY <1>3, <1>4, PopMoves DEF FramesEnd
<1> QED BY <1>5, EndsMap

\* It returns to what called it.
LEMMA BelowMaps ==
  ASSUME IInv, IInv', UNCHANGED <<status, unstarted>>, Len(cs) > 1,
         Top.fn # "lua_resume", FramesEnd, cs' = Below
  PROVE  Maps
<1>1. cs \in Seq(Activation) /\ Len(cs) \in Nat
  BY Here DEF Parts
<1> DEFINE n == Len(cs) - 1
<1>2. n \in 1 .. Len(cs) /\ n \in 1 .. n /\ cs' = SubSeq(cs, 1, n)
  BY <1>1 DEF Below
<1> HIDE DEF n
<1>3. Cut(cs, SubSeq(cs, 1, n), n) /\ \A i \in 1 .. n : SubSeq(cs, 1, n)[i] = cs[i]
  BY <1>1, <1>2, CutIsCut
<1>4. Cut(cs, cs', n) /\ cs'[n] = cs[n]
  BY <1>2, <1>3
<1> QED BY <1>4, PopMaps DEF n

\* Without its frame.
LEMMA SameEnd ==
  ASSUME UNCHANGED ci
  PROVE  FramesEnd
BY DEF FramesEnd, OnlyFor, SameYpcalls, YpcallAt, Depth

\* With its frame.
LEMMA LastEnds ==
  ASSUME IInv, Depth(L) > 0, ci' = [ci EXCEPT ![L] = SubSeq(ci[L], 1, Depth(L) - 1)]
  PROVE  FramesEnd
<1>1. Depth(L) \in 1 .. Depth(L)
  BY Here
<1>2. OnlyFor(L, ci', ci) /\ Kept(ci'[L], ci[L], Depth(L) - 1)
  BY <1>1, FrameDropped
<1>3. \A i \in 1 .. (Depth(L) - 1) - 1 : i \in 1 .. Depth(L) - 1
  BY <1>1
<1> QED BY <1>2, <1>3 DEF FramesEnd, Kept, SameYpcalls, YpcallAt

\* What is not the host has something below it.
LEMMA SomethingBelow ==
  ASSUME IInv, ~InHost
  PROVE  Len(cs) > 1
BY Here

\* The parser returns to luaD_pcall.
LEMMA ParserReturnsMaps == ASSUME IInv, IInv', f_parser_returns PROVE Maps
BY SomethingBelow, SameEnd, BelowMaps DEF f_parser_returns, InHost

\* luaD_protectedparser returns.
LEMMA ProtectedParserReturnsMaps ==
  ASSUME IInv, IInv', luaD_protectedparser_returns PROVE Maps
BY SomethingBelow, SameEnd, BelowMaps DEF luaD_protectedparser_returns, InHost

\* GCTM returns to what allocated.
LEMMA GCTMReturnsMaps == ASSUME IInv, IInv', GCTM_returns PROVE Maps
BY SomethingBelow, SameEnd, BelowMaps DEF GCTM_returns, InHost

\* The hook returns to luaV_execute.
LEMMA HookReturnsMaps == ASSUME IInv, IInv', hook_returns PROVE Maps
BY SomethingBelow, SameEnd, BelowMaps DEF hook_returns, InHost

\* A C function returns, with its frame.
LEMMA CReturnsMaps == ASSUME IInv, IInv', C_returns PROVE Maps
<1>1. /\ Top.fn = "C" /\ Top.level > 0 /\ cs' = Below /\ UNCHANGED <<status, unstarted>>
      /\ ci' = [ci EXCEPT ![L] = SubSeq(ci[L], 1, Top.level - 1)]
  BY DEF C_returns, InFunction
<1>2. Len(cs) > 1 /\ Depth(L) = Top.level /\ Top.level \in Nat
  BY <1>1, Here, SomethingBelow DEF InHost
<1> QED BY <1>1, <1>2, LastEnds, BelowMaps

\* luaD_pcall returns; there was no error.
LEMMA PcallEndsMaps == ASSUME IInv, IInv', luaD_pcall_ends PROVE Maps
<1>1. /\ Top.fn = "luaD_pcall" /\ UNCHANGED <<ci, status, unstarted>>
      /\ cs' = IF cs[Len(cs) - 1].fn = "GCTM"
               THEN [SubSeq(cs, 1, Len(cs) - 1) EXCEPT ![Len(cs) - 1].status = "LUA_OK"]
               ELSE SubSeq(cs, 1, Len(cs) - 1)
  BY DEF luaD_pcall_ends, luaD_pcall_returns
<1>2. /\ cs \in Seq(Activation) /\ Len(cs) \in Nat /\ Len(cs) > 1
  BY <1>1, Here, SomethingBelow DEF Parts, InHost
<1> DEFINE n == Len(cs) - 1
           st == "LUA_OK"
<1>3. n \in 1 .. Len(cs) /\ n \in 1 .. n /\ st \in {"LUA_OK"} \cup Errors
  BY <1>2
<1>4. cs' = IF cs[n].fn = "GCTM" THEN [SubSeq(cs, 1, n) EXCEPT ![n].status = st]
            ELSE SubSeq(cs, 1, n)
  BY <1>1
<1> HIDE DEF n, st
<1>5. Cut(cs, cs', n)
  BY <1>2, <1>3, <1>4, PcallCut
<1>6. cs[n].fn = "lua_resume" => cs'[n] = cs[n]
  <2>1. \A i \in 1 .. n : SubSeq(cs, 1, n)[i] = cs[i]
    BY <1>2, <1>3, CutIsCut
  <2> QED BY <1>3, <1>4, <2>1
<1> QED BY <1>1, <1>5, <1>6, SameEnd, PopMaps DEF n

\* OP_RETURN ends a frame, and luaV_execute if it began there.
LEMMA OpReturnMaps == ASSUME IInv, IInv', OP_RETURN PROVE Maps
<1>1. /\ Top.fn = "luaV_execute" /\ cs' = IF TopFrame.fresh THEN Below ELSE cs
      /\ ci' = [ci EXCEPT ![L] = SubSeq(ci[L], 1, Depth(L) - 1)]
      /\ UNCHANGED <<status, nny, nCcalls, errfunc, allowhook, unstarted>>
  BY DEF OP_RETURN
<1>2. Depth(L) > 0 /\ Len(cs) > 1
  <2>1. Top.level > 0 /\ Depth(L) >= Top.level /\ Depth(L) \in Nat /\ Top \in Activation
    BY <1>1, Here
  <2>2. Top.level \in Nat
    BY <2>1, ActivationFields
  <2> QED BY <1>1, <2>1, <2>2, SomethingBelow DEF InHost
<1>3. FramesEnd
  BY <1>1, <1>2, LastEnds
<1>4. CASE cs' = Below
  BY <1>1, <1>2, <1>3, <1>4, BelowMaps
<1>5. CASE cs' = cs
  <2>1. Dropped(cs, cs, Len(ci'[L]))
    BY NothingDropped DEF IInv, Inv, Typed
  <2>2. IsEntered(cs)
    BY <1>1 DEF IsEntered, Top
  <2>3. LeadsTo(ci')
    BY <1>1, <1>3, <1>5, <2>1, <2>2, PopMoves DEF FramesEnd
  <2> QED BY <1>3, <2>3, EndsMap
<1> QED BY <1>1, <1>4, <1>5

\* luaD_call returns, and its caller goes on.
LEMMA CallReturnsMaps ==
  ASSUME IInv, IInv', luaD_call_returns, Top.caller # "luaG_errormsg"
  PROVE  Maps
<1>1. /\ Top.fn = "luaD_call" /\ cs' = Below /\ UNCHANGED <<status, unstarted>>
      /\ IF Top.caller = "pcallk" THEN ci' = [ci EXCEPT ![L][Depth(L)].ypcall = FALSE]
         ELSE ci' = ci
  BY DEF luaD_call_returns
<1>2. Len(cs) > 1
  BY <1>1, SomethingBelow DEF InHost
<1>3. FramesEnd
  <2>1. CASE Top.caller = "pcallk"
    <3> DEFINE frame == [ci[L][Depth(L)] EXCEPT !.ypcall = FALSE]
    <3>1. ci' = [ci EXCEPT ![L] = [ci[L] EXCEPT ![Depth(L)] = frame]]
      BY <1>1, <2>1
    <3> HIDE DEF frame
    <3>2. /\ L \in Thread /\ ci \in [Thread -> Seq(CallInfo)] /\ ci[L] \in Seq(CallInfo)
          /\ Depth(L) = Len(ci[L]) /\ Depth(L) \in Nat
      BY Here DEF Parts, L, Top, Depth
    <3>3. /\ OnlyFor(L, ci', ci) /\ ci'[L] = [ci[L] EXCEPT ![Depth(L)] = frame]
      BY <3>1, <3>2 DEF OnlyFor
    <3>4. Len(ci'[L]) = Depth(L) /\ \A i \in 1 .. Depth(L) - 1 : ci'[L][i] = ci[L][i]
      <4>1. DOMAIN ci'[L] = 1 .. Len(ci[L])
        BY <3>2, <3>3
      <4>2. ci'[L] \in Seq(CallInfo)
        BY <3>2 DEF IInv, Inv, Typed
      <4> QED BY <3>2, <3>3, <4>1, <4>2
    <3> QED BY <3>3, <3>4 DEF FramesEnd, SameYpcalls, YpcallAt
  <2>2. CASE Top.caller # "pcallk"
    BY <1>1, <2>2, SameEnd
  <2> QED BY <2>1, <2>2
<1> QED BY <1>1, <1>2, <1>3, BelowMaps

-----------------------------------------------------------------------------
(* Functions of Lua are called.                                            *)

\* A function gets a frame, and perhaps an activation.
LEMMA PrecallMaps ==
  ASSUME IInv, IInv', UNCHANGED <<status, unstarted>>, Top.fn # "lua_resume",
         NEW frame, ci' = [ci EXCEPT ![L] = Append(ci[L], frame)],
         Dropped(cs', cs, Depth(L) + 1), cs'[Len(cs')].fn # "lua_resume"
  PROVE  Maps
<1>1. /\ L \in Thread /\ ci \in [Thread -> Seq(CallInfo)] /\ ci[L] \in Seq(CallInfo)
      /\ Depth(L) = Len(ci[L]) /\ Depth(L) \in Nat
  BY Here DEF Parts, L, Top, Depth
<1>2. /\ ci'[L] = Append(ci[L], frame) /\ OnlyFor(L, ci', ci)
  BY <1>1 DEF OnlyFor
<1>3. Len(ci'[L]) = Depth(L) + 1 /\ \A i \in 1 .. Depth(L) : ci'[L][i] = ci[L][i]
  BY <1>1, <1>2
<1>4. SameYpcalls(ci, ci', L, Depth(L))
  BY <1>1, <1>3 DEF SameYpcalls, YpcallAt
<1>5. IsEntered(cs) /\ IsEntered(cs')
  BY DEF IsEntered, Top
<1>6. LeadsTo(ci')
  BY <1>2, <1>3, <1>5, PushMoves
<1> QED BY <1>3, <1>4, <1>6, EnterMaps

\* The activation that runs the function.
LEMMA RunsOn ==
  ASSUME IInv, NEW c \in Seq(Activation), c[Len(c)].th = L, NEW n, Dropped(c, cs, n),
         NEW a, a \in Activation, a.th = L, a.fn \in {"C", "luaV_execute"}, Added(c, a, cs')
  PROVE  Dropped(cs', cs, n) /\ cs'[Len(cs')].fn # "lua_resume"
<1>1. Adds(c, a, n)
  BY DEF Adds, Marks
<1>2. Dropped(cs', cs, n) /\ cs'[Len(cs')] = a
  BY <1>1, AddOne
<1> QED BY <1>2

\* luaD_call marked as entered is much the same.
LEMMA MarkDropped ==
  ASSUME IInv, Top.fn \in {"luaD_call", "lua_resume"},
         NEW d, d = [cs EXCEPT ![Len(cs)].entered = TRUE], NEW n,
         Top.fn = "lua_resume" => Top.entered
  PROVE  d \in Seq(Activation) /\ d[Len(d)].th = L /\ Dropped(d, cs, n)
<1>1. /\ cs \in Seq(Activation) /\ Len(cs) \in Nat \ {0} /\ cs # <<>>
      /\ Top = cs[Len(cs)] /\ L = cs[Len(cs)].th
  BY Here DEF Parts, Top, L
<1>2. Cut(cs, d, Len(cs)) /\ d[Len(cs)].entered
  BY <1>1, EnterIsCut
<1>3. /\ d \in Seq(Activation) /\ Len(d) = Len(cs) /\ Alike(cs[Len(cs)], d[Len(cs)])
      /\ \A i \in 1 .. Len(cs) - 1 : d[i] = cs[i]
  BY <1>2 DEF Cut
<1>4. Cut(d, cs, Len(cs))
  BY <1>1, <1>3 DEF Cut, Alike
<1>5. EnteredSame(d, cs, Len(cs))
  <2> SUFFICES ASSUME NEW i \in 1 .. Len(cs) PROVE Entered(cs[i]) <=> Entered(d[i])
    BY DEF EnteredSame
  <2>1. CASE i = Len(cs)
    BY <1>1, <1>2, <1>3, <2>1 DEF Entered, Alike
  <2>2. CASE i # Len(cs)
    BY <1>1, <1>3, <2>2
  <2> QED BY <2>1, <2>2
<1>6. \A j \in Len(cs) + 1 .. Len(d) : FALSE
  BY <1>1, <1>3
<1> QED BY <1>1, <1>3, <1>4, <1>5, <1>6 DEF Dropped, Alike

\* OP_CALL enters a function; the same luaV_execute goes on in one of Lua.
LEMMA OpCallMaps == ASSUME IInv, IInv', OP_CALL PROVE Maps
<1>1. Top.fn = "luaV_execute" /\ UNCHANGED <<status, unstarted>>
  BY DEF OP_CALL
<1>2. PICK lua \in BOOLEAN : luaD_precall(lua, FALSE, cs)
  BY DEF OP_CALL
<1> DEFINE frame == NewFrame(lua, FALSE)
           a == [fn |-> "C", th |-> L, level |-> Depth(L) + 1]
<1>3. /\ ci' = [ci EXCEPT ![L] = Append(ci[L], frame)]
      /\ cs' = cs \/ Added(cs, a, cs')
  BY <1>2 DEF luaD_precall, Added
<1>4. /\ cs \in Seq(Activation) /\ L = cs[Len(cs)].th /\ Top = cs[Len(cs)] /\ Stack(cs)
      /\ L \in Thread /\ Depth(L) \in Nat
  BY Here DEF Parts, L, Top, IInv, Inv
<1>5. a \in Activation /\ a.th = L /\ a.fn \in {"C", "luaV_execute"}
  BY <1>4 DEF Activation, Runs
<1> HIDE DEF frame, a
<1>6. Dropped(cs, cs, Depth(L) + 1)
  BY <1>4, NothingDropped
<1>7. Dropped(cs', cs, Depth(L) + 1) /\ cs'[Len(cs')].fn # "lua_resume"
  <2>1. CASE cs' = cs
    BY <1>1, <1>4, <1>6, <2>1
  <2>2. CASE Added(cs, a, cs')
    BY <1>4, <1>5, <1>6, <2>2, RunsOn
  <2> QED BY <1>3, <2>1, <2>2
<1> QED BY <1>1, <1>3, <1>7, PrecallMaps

\* luaD_call enters its function.
LEMMA CallEntersMaps ==
  ASSUME IInv, IInv', Top.fn = "luaD_call", NEW lua \in BOOLEAN,
         luaD_precall(lua, TRUE, [cs EXCEPT ![Len(cs)].entered = TRUE]),
         UNCHANGED <<status, unstarted>>
  PROVE  Maps
<1> DEFINE frame == NewFrame(lua, TRUE)
           a == [fn |-> IF lua THEN "luaV_execute" ELSE "C", th |-> L,
                 level |-> Depth(L) + 1]
           d == [cs EXCEPT ![Len(cs)].entered = TRUE]
<1>1. /\ ci' = [ci EXCEPT ![L] = Append(ci[L], frame)] /\ Added(d, a, cs')
  BY DEF luaD_precall, Added
<1>2. a \in Activation /\ a.th = L /\ a.fn \in {"C", "luaV_execute"}
  BY Here DEF Activation, Runs
<1>3. d \in Seq(Activation) /\ d[Len(d)].th = L /\ Dropped(d, cs, Depth(L) + 1)
  BY MarkDropped
<1> HIDE DEF frame, a, d
<1>4. Dropped(cs', cs, Depth(L) + 1) /\ cs'[Len(cs')].fn # "lua_resume"
  BY <1>1, <1>2, <1>3, RunsOn
<1> QED BY <1>1, <1>4, PrecallMaps

-----------------------------------------------------------------------------
(* lua_resume goes on, or ends.                                            *)

\* The last frame changes in what does not matter.
LEMMA LastChanges ==
  ASSUME IInv, IInv', NEW frame,
         ci' = [ci EXCEPT ![L] = [ci[L] EXCEPT ![Depth(L)] = frame]]
  PROVE  FramesStay
<1>1. /\ L \in Thread /\ ci \in [Thread -> Seq(CallInfo)] /\ ci[L] \in Seq(CallInfo)
      /\ Depth(L) = Len(ci[L]) /\ Depth(L) \in Nat
  BY Here DEF Parts, L, Top, Depth
<1>2. OnlyFor(L, ci', ci) /\ ci'[L] = [ci[L] EXCEPT ![Depth(L)] = frame]
  BY <1>1 DEF OnlyFor
<1>3. Len(ci'[L]) = Depth(L) /\ \A i \in 1 .. Depth(L) - 1 : ci'[L][i] = ci[L][i]
  <2>1. DOMAIN ci'[L] = 1 .. Len(ci[L])
    BY <1>1, <1>2
  <2>2. ci'[L] \in Seq(CallInfo)
    BY <1>1 DEF IInv, Inv, Typed
  <2> QED BY <1>1, <1>2, <2>1, <2>2
<1> QED BY <1>2, <1>3 DEF FramesStay, SameYpcalls, YpcallAt

\* What a thread that ran is without activations and frames.
LEMMA OffFinished ==
  ASSUME IInv, IsEntered(cs), NEW d, NEW j, Leaves(cs, d, j)
  PROVE  StateOf(d, status, unstarted, L) = "finished"
<1>1. /\ cs \in Seq(Activation) /\ Stack(cs) /\ Top = cs[Len(cs)] /\ L = cs[Len(cs)].th
  BY DEF IInv, Inv, Typed, L, Top
<1>2. status[L] = "LUA_OK" /\ L \notin unstarted
  BY <1>1, Here DEF IsEntered
<1>3. cs[j].th = L
  BY <1>1 DEF Leaves
<1>4. ~IsOn(d, L)
  BY <1>1, <1>3, LeftAlone
<1> QED BY <1>2, <1>4 DEF StateOf, errorstatus, Errors

\* A turn of the loop of unroll.
LEMMA UnrollMaps == ASSUME IInv, IInv', unroll PROVE Maps
<1>1. Top.fn = "lua_resume" /\ Top.entered /\ UNCHANGED <<status, unstarted>>
  BY DEF unroll
<1>2. /\ cs \in Seq(Activation) /\ Top = cs[Len(cs)] /\ L = cs[Len(cs)].th
      /\ Len(cs) \in Nat /\ Len(cs) > 1
      /\ L \in Thread /\ Depth(L) \in Nat /\ Depth(L) = Len(ci[L])
  BY <1>1, Here DEF Parts, L, Top, InHost, Depth
<1>3. IsEntered(cs)
  BY <1>1, <1>2 DEF IsEntered
<1>4. CASE ci[L] = <<>>
  <2>1. cs' = SubSeq(cs, 1, Len(cs) - 1) /\ ci' = ci
    BY <1>1, <1>4 DEF unroll, lua_resume_returns
  <2>2. Leaves(cs, cs', Len(cs))
    BY <1>1, <1>2, <2>1 DEF Leaves
  <2>3. OnlyFor(L, ci', ci) /\ OnlyFor(L, status', status) /\ OnlySetFor(L, unstarted', unstarted)
    BY <1>1, <2>1 DEF OnlyFor, OnlySetFor
  <2>4. /\ Threads!Leave(StateOf(cs', status', unstarted', L))
        /\ callsBar' = [callsBar EXCEPT ![L] = CallsOf(cs', ci', status', L)]
        /\ runningBar = L /\ callsBar[L] = CallsOf(cs, ci, status, L)
    BY <1>3, <2>2, <2>3, LeaveMaps
  <2>5. StateOf(cs', status', unstarted', L) = "finished"
    BY <1>1, <1>3, <2>2, OffFinished
  <2>6. \A c : CallsOf(c, ci, status, L) = <<>>
    BY <1>4 DEF CallsOf
  <2>7. callsBar' = callsBar
    <3>1. callsBar = [t \in Thread |-> CallsOf(cs, ci, status, t)]
      BY BarsAre
    <3> QED BY <1>1, <1>2, <2>1, <2>4, <2>6, <3>1
  <2>8. Threads!Finish
    BY <2>4, <2>5, <2>6, <2>7 DEF Threads!Finish
  <2> QED BY <2>8 DEF Maps, Threads!Next
<1>5. CASE ci[L] # <<>>
  <2> DEFINE frame == IF TopFrame.lua THEN [ci[L][Depth(L)] EXCEPT !.fresh = TRUE]
                      ELSE [ci[L][Depth(L)] EXCEPT !.ypcall = FALSE]
             a == [fn |-> IF TopFrame.lua THEN "luaV_execute" ELSE "C", th |-> L,
                   level |-> Depth(L)]
  <2>1. /\ cs' = Append(cs, a)
        /\ ci' = [ci EXCEPT ![L] = [ci[L] EXCEPT ![Depth(L)] = frame]]
    BY <1>1, <1>5 DEF unroll, execute, finishCcall, Depth
  <2>2. a \in Activation /\ a.th = L /\ a.fn # "lua_resume" /\ a.level = Depth(L)
    BY <1>2 DEF Activation, Runs
  <2>3. Added(cs, a, cs')
    BY <2>1 DEF Added
  <2> HIDE DEF frame, a
  <2>4. FramesStay
    BY <2>1, LastChanges
  <2> QED BY <1>1, <1>3, <2>2, <2>3, <2>4, PushOneMaps
<1> QED BY <1>4, <1>5

-----------------------------------------------------------------------------
(* Errors.                                                                 *)

\* What runs has not ended with an error.
LEMMA RunsWell ==
  ASSUME IInv, IsEntered(cs)
  PROVE  ~errorstatus(status[L]) /\ status[L] = "LUA_OK" /\ L \notin unstarted
<1>1. Top.fn = "lua_resume" => Top.entered
  BY DEF IsEntered, Top
<1> QED BY <1>1, Here DEF errorstatus, Errors

\* The protected calls of the running thread.
LEMMA ProtectedHere ==
  ASSUME IInv, ~errorstatus(status[L]), NEW i
  PROVE  i \in Threads!Protected(L) <=>
           /\ i \in 1 .. Depth(L)
           /\ (i > 1 /\ YpcallAt(ci, L, i - 1)) \/ PcallAt(cs, L, i - 1)
<1>1. L \in Thread /\ ci[L] \in Seq(CallInfo) /\ Depth(L) = Len(ci[L])
  BY Here DEF Parts, L, Top, Depth
<1>2. callsBar[L] = CallsOf(cs, ci, status, L)
  <2>1. callsBar = [t \in Thread |-> CallsOf(cs, ci, status, t)]
    BY BarsAre
  <2> QED BY <1>1, <2>1
<1>3. /\ DOMAIN CallsOf(cs, ci, status, L) = 1 .. Len(ci[L])
      /\ \A k \in 1 .. Len(ci[L]) : CallsOf(cs, ci, status, L)[k] = FrameCall(cs, ci, L, k)
  BY <1>1, CallsTyped
<1>4. i \in Threads!Protected(L) <=> i \in DOMAIN callsBar[L] /\ callsBar[L][i].prot
  BY DEF Threads!Protected
<1>5. FrameCall(cs, ci, L, i).prot <=> (i > 1 /\ YpcallAt(ci, L, i - 1)) \/ PcallAt(cs, L, i - 1)
  BY DEF FrameCall
<1> QED BY <1>1, <1>2, <1>3, <1>4, <1>5

\* A luaD_pcall calls what must not be interrupted.
LEMMA PcallBars ==
  ASSUME NEW c \in Seq(Activation), Stack(c), NEW j \in 2 .. Len(c), j < Len(c),
         c[j].fn = "luaD_pcall", c[j + 1].th = c[j].th
  PROVE  \E q \in BarsOf(c, c[j].th) : c[q].level = c[j].level
<1>1. /\ Len(c) \in Nat /\ j \in 1 .. Len(c) /\ j - 1 \in 1 .. Len(c)
      /\ j + 1 \in 2 .. Len(c) /\ j + 1 \in 1 .. Len(c) /\ (j + 1) - 1 = j /\ (j + 1) - 2 = j - 1
  BY StackParts
<1>2. c[j + 1].fn # "lua_resume" /\ LiesOn(c[j], c[j + 1])
  BY <1>1 DEF Stack
<1>3. c[j + 1].fn \in Runs \cup {"luaD_protectedparser", "luaD_call",
                                 "luaD_pcall", "GCTM", "lua_resume"}
  BY <1>1, StackParts, ActivationFields
<1>4. CASE c[j + 1].fn = "luaD_call"
  <2>1. CallFrom(c[j], c[j + 1])
    BY <1>2, <1>4 DEF LiesOn
  <2>2. c[j + 1].level = c[j].level /\ c[j + 1].noyield
    BY <2>1 DEF CallFrom, SameLevel, UsesApi, RunsCode, Waits
  <2> QED BY <1>1, <1>4, <2>2 DEF BarsOf, Bars
<1>5. CASE c[j + 1].fn = "f_parser"
  <2>1. c[(j + 1) - 2].fn = "luaD_protectedparser"
    BY <1>1, <1>5 DEF Stack
  <2>2. c[j - 1].th = c[j].th /\ LiesOn(c[j - 1], c[j])
    BY DEF Stack
  <2>3. c[j].level = c[j - 1].level
    BY <2>2 DEF LiesOn
  <2> QED BY <1>1, <2>1, <2>2, <2>3 DEF BarsOf, Bars
<1>6. CASE c[j + 1].fn \notin {"luaD_call", "f_parser"}
  BY <1>2, <1>3, <1>6 DEF LiesOn, Runs, RunsCode, UsesApi, Waits
<1> QED BY <1>4, <1>5, <1>6

\* What a longjmp of an error finds.
LEMMA JumpHere ==
  ASSUME IInv, Len(cs) > 1
  PROVE  /\ errorJmp \in 2 .. Len(cs) /\ errorJmp \in 1 .. Len(cs)
         /\ errorJmp - 1 \in 1 .. Len(cs)
         /\ cs[errorJmp].th = L /\ cs[errorJmp].fn \in {"luaD_pcall", "lua_resume"}
         /\ \A i \in errorJmp .. Len(cs) : cs[i].th = L
         /\ \A i \in 1 .. Len(cs) :
              cs[i].fn \in {"luaD_pcall", "lua_resume"} /\ cs[i].th = L => i <= errorJmp
<1>1. /\ cs \in Seq(Activation) /\ Stack(cs) /\ Len(cs) \in Nat /\ L = cs[Len(cs)].th
  BY Here DEF Parts, Inv, IInv, Top, L
<1> DEFINE P == {i \in 1 .. Len(cs) : /\ cs[i].fn \in {"luaD_pcall", "lua_resume"}
                                      /\ cs[i].th = cs[Len(cs)].th}
<1>2. Protectors(L) = P
  BY <1>1 DEF Protectors
<1>3. errorJmp = Max(P)
  BY <1>2 DEF errorJmp
<1>4. /\ P # {} /\ Max(P) \in P /\ Max(P) \in 2 .. Len(cs)
      /\ \A i \in P : i <= Max(P)
      /\ \A i \in Max(P) .. Len(cs) : cs[i].th = cs[Len(cs)].th
      /\ Max(P) - 1 \in 1 .. Len(cs)
  BY <1>1, Jumps
<1> QED BY <1>1, <1>3, <1>4

\* An error comes to a luaD_pcall.
LEMMA CatchMaps ==
  ASSUME IInv, IInv', Len(cs) > 1, Top.fn # "luaD_pcall",
         NEW st \in Errors, NEW ah, luaD_throw(st, ah), cs[errorJmp].fn = "luaD_pcall"
  PROVE  Maps
<1> DEFINE j == errorJmp
<1>1. /\ cs \in Seq(Activation) /\ Stack(cs) /\ Len(cs) \in Nat /\ Len(cs) \in 1 .. Len(cs)
      /\ Frames(cs, ci) /\ Continuations(cs, ci, status)
      /\ Top = cs[Len(cs)] /\ L = cs[Len(cs)].th /\ L \in Thread
      /\ ci \in [Thread -> Seq(CallInfo)] /\ ci[L] \in Seq(CallInfo)
      /\ Depth(L) = Len(ci[L]) /\ Depth(L) \in Nat
  BY Here DEF Parts, Inv, IInv, Top, L, Depth
<1>2. /\ j \in 2 .. Len(cs) /\ j \in 1 .. Len(cs) /\ j - 1 \in 1 .. Len(cs)
      /\ cs[j].th = L
      /\ \A i \in j .. Len(cs) : cs[i].th = L
      /\ \A i \in 1 .. Len(cs) :
           cs[i].fn \in {"luaD_pcall", "lua_resume"} /\ cs[i].th = L => i <= j
  BY JumpHere
<1>3. /\ UNCHANGED <<status, unstarted>>
      /\ cs' = IF cs[j - 1].fn = "GCTM"
               THEN [SubSeq(cs, 1, j - 1) EXCEPT ![j - 1].status = st]
               ELSE SubSeq(cs, 1, j - 1)
      /\ ci' = [ci EXCEPT ![L] = SubSeq(ci[L], 1, cs[j].level)]
  BY DEF luaD_throw, luaD_pcall_returns, Errors
<1>4. cs[j].fn = "luaD_pcall"
  OBVIOUS
<1> HIDE DEF j
<1>5. /\ j < Len(cs) /\ Top.fn # "lua_resume"
  BY <1>1, <1>2, <1>4
<1>6. IsEntered(cs)
  BY <1>1, <1>5 DEF IsEntered
<1> DEFINE l == cs[j].level
<1>7. /\ l \in Nat /\ l <= Depth(L) /\ l \in 0 .. Depth(L)
  <2>1. l \in Nat
    BY <1>1, <1>2, StackParts
  <2>2. l <= Len(ci[L])
    BY <1>1, <1>2 DEF Frames
  <2> QED BY <1>1, <2>1, <2>2
<1>8. /\ OnlyFor(L, ci', ci) /\ Len(ci'[L]) = l
      /\ \A i \in 1 .. l : ci'[L][i] = ci[L][i]
  <2>1. ci'[L] = SubSeq(ci[L], 1, l) /\ OnlyFor(L, ci', ci)
    BY <1>1, <1>3 DEF OnlyFor
  <2>2. l \in 0 .. Len(ci[L])
    BY <1>1, <1>7
  <2> HIDE DEF l
  <2>3. /\ Len(SubSeq(ci[L], 1, l)) = l
        /\ \A i \in 1 .. l : SubSeq(ci[L], 1, l)[i] = ci[L][i]
    BY <1>1, <2>2, FirstOnes
  <2> QED BY <2>1, <2>3
<1>9. Cut(cs, cs', j - 1)
  <2>1. st \in {"LUA_OK"} \cup Errors
    OBVIOUS
  <2> QED BY <1>1, <1>2, <1>3, <2>1, PcallCut
<1>10. cs[j - 1].th = L /\ cs[j - 1].fn # "lua_resume"
  <2>1. cs[j - 1].th = cs[j].th /\ LiesOn(cs[j - 1], cs[j])
    BY <1>1, <1>2, <1>4 DEF Stack
  <2> QED BY <1>2, <1>4, <2>1 DEF LiesOn
<1>11. Dropped(cs, cs', l)
  <2>1. /\ Len(cs') = j - 1 /\ \A i \in 1 .. (j - 1) - 1 : cs'[i] = cs[i]
        /\ Alike(cs[j - 1], cs'[j - 1])
    BY <1>9 DEF Cut
  <2>2. EnteredSame(cs, cs', j - 1)
    <3> SUFFICES ASSUME NEW i \in 1 .. j - 1 PROVE Entered(cs'[i]) <=> Entered(cs[i])
      BY DEF EnteredSame
    <3>1. CASE i = j - 1
      BY <1>10, <2>1, <3>1 DEF Entered, Alike
    <3>2. CASE i # j - 1
      BY <1>2, <2>1, <3>2
    <3> QED BY <3>1, <3>2
  <2>3. \A i \in (j - 1) + 1 .. Len(cs) : i \in j .. Len(cs) /\ i \in 1 .. Len(cs)
    BY <1>1, <1>2
  <2>4. ASSUME NEW i \in (j - 1) + 1 .. Len(cs)
        PROVE  /\ cs[i].th = cs[Len(cs)].th /\ cs[i].fn # "lua_resume"
               /\ Marks(cs[i]) => l <= cs[i].level
    <3>1. cs[i].th = L /\ i \in 1 .. Len(cs) /\ j <= i
      BY <1>2, <2>3
    <3>2. cs[i].fn # "lua_resume"
      BY <1>2, <1>4, <3>1
    <3>3. cs[j].level <= cs[i].level
      BY <1>1, <1>2, <3>1 DEF Stack
    <3> QED BY <1>1, <3>1, <3>2, <3>3
  <2> QED BY <1>1, <1>9, <1>10, <2>1, <2>2, <2>4 DEF Dropped
<1>12. LeadsTo(ci')
  BY <1>3, <1>6, <1>8, <1>11, PopMoves
<1>13. SameYpcalls(ci, ci', L, l)
  <2>1. \A i \in 1 .. l - 1 : i \in 1 .. l
    BY <1>7
  <2> QED BY <1>8, <2>1 DEF SameYpcalls, YpcallAt
<1>14. CASE l >= Depth(L) - 1
  BY <1>7, <1>8, <1>12, <1>13, <1>14, CutMaps
<1>15. CASE ~(l >= Depth(L) - 1)
  <2>1. ~errorstatus(status[L])
    BY <1>6, RunsWell
  <2>2. l + 1 \in Threads!Protected(L)
    <3>1. PcallAt(cs, L, (l + 1) - 1)
      BY <1>2, <1>4, <1>7 DEF PcallAt
    <3>2. l + 1 \in 1 .. Depth(L)
      BY <1>1, <1>7, <1>15
    <3> QED BY <2>1, <3>1, <3>2, ProtectedHere
  <2>3. ASSUME NEW i \in Threads!Protected(L)
        PROVE  i <= l + 1
    <3>1. /\ i \in 1 .. Depth(L)
          /\ (i > 1 /\ YpcallAt(ci, L, i - 1)) \/ PcallAt(cs, L, i - 1)
      BY <2>1, <2>3, ProtectedHere
    <3>2. CASE PcallAt(cs, L, i - 1)
      <4>1. PICK q \in 1 .. Len(cs) : cs[q].fn = "luaD_pcall" /\ cs[q].th = L /\ cs[q].level = i - 1
        BY <3>2 DEF PcallAt
      <4>2. q <= j
        BY <1>2, <4>1
      <4>3. cs[q].level <= cs[j].level
        BY <1>1, <1>2, <4>1, <4>2 DEF Stack
      <4> QED BY <1>1, <1>7, <3>1, <4>1, <4>3
    <3>3. CASE i > 1 /\ YpcallAt(ci, L, i - 1)
      <4>1. i - 1 \in Ypcalls(ci[L])
        <5>1. i - 1 \in 1 .. Len(ci[L])
          BY <1>1, <3>1, <3>3
        <5>2. i - 1 \in DOMAIN ci[L]
          BY <1>1, <5>1
        <5> QED BY <3>3, <5>2 DEF Ypcalls, YpcallAt
      <4>2. PICK q \in BarsOf(cs, L) : cs[q].level = l
        <5>1. cs[j + 1].th = cs[j].th
          <6>1. j + 1 \in j .. Len(cs)
            BY <1>1, <1>2, <1>5
          <6> QED BY <1>2, <6>1
        <5>2. \E q \in BarsOf(cs, cs[j].th) : cs[q].level = cs[j].level
          BY <1>1, <1>2, <1>4, <1>5, <5>1, PcallBars
        <5> QED BY <1>2, <5>2
      <4>3. ContinuationsOf(cs, ci, status, L)
        BY <1>1 DEF Continuations
      <4>4. cs[q].level >= i - 1
        BY <2>1, <4>1, <4>3 DEF ContinuationsOf
      <4> QED BY <1>1, <1>7, <3>1, <4>2, <4>4
    <3> QED BY <3>1, <3>2, <3>3
  <2> HIDE DEF l
  <2> QED BY <1>7, <1>8, <1>12, <1>13, <2>2, <2>3, CutMaps
<1> QED BY <1>14, <1>15

\* An error comes to a suspended pcall.
LEMMA RecoverMaps ==
  ASSUME IInv, IInv', Len(cs) > 1, Top.fn # "lua_resume",
         NEW st, NEW ah, luaD_throw(st, ah), cs[errorJmp].fn = "lua_resume",
         Ypcalls(ci[L]) # {}
  PROVE  Maps
<1> DEFINE j == errorJmp
           i == Max(Ypcalls(ci[L]))
           S == SubSeq(cs, 1, j)
           g == SubSeq(ci[L], 1, i)
           a == [fn |-> "C", th |-> L, level |-> Len(g)]
<1>1. /\ cs \in Seq(Activation) /\ Stack(cs) /\ Len(cs) \in Nat /\ Len(cs) \in 1 .. Len(cs)
      /\ Continuations(cs, ci, status)
      /\ Top = cs[Len(cs)] /\ L = cs[Len(cs)].th /\ L \in Thread
      /\ ci \in [Thread -> Seq(CallInfo)] /\ ci[L] \in Seq(CallInfo)
      /\ Depth(L) = Len(ci[L]) /\ Depth(L) \in Nat
  BY Here DEF Parts, Inv, IInv, Top, L, Depth
<1>2. /\ j \in 2 .. Len(cs) /\ j \in 1 .. Len(cs) /\ j \in 1 .. j /\ j < Len(cs)
      /\ cs[j].th = L /\ cs[j].fn = "lua_resume"
      /\ \A k \in j .. Len(cs) : cs[k].th = L
      /\ \A k \in 1 .. Len(cs) :
           cs[k].fn \in {"luaD_pcall", "lua_resume"} /\ cs[k].th = L => k <= j
  BY <1>1, JumpHere
<1>3. /\ UNCHANGED <<status, unstarted>> /\ Added(S, a, cs')
      /\ ci' = [ci EXCEPT ![L] = [g EXCEPT ![Len(g)].ypcall = FALSE]]
  BY DEF luaD_throw, recover, finishCcall, Added
<1>4. IsEntered(cs)
  BY <1>1 DEF IsEntered
<1> HIDE DEF j
<1>5. ~errorstatus(status[L]) /\ ContinuationsOf(cs, ci, status, L)
  BY <1>1, <1>4, RunsWell DEF Continuations
<1>6. /\ i \in Ypcalls(ci[L]) /\ i \in 1 .. Depth(L) /\ i \in 0 .. Depth(L) /\ i \in Nat
      /\ \A k \in Ypcalls(ci[L]) : k <= i
  <2>1. Ypcalls(ci[L]) \in SUBSET (1 .. Len(ci[L]))
    BY <1>1, YpcallsAre
  <2>2. i \in Ypcalls(ci[L]) /\ \A k \in Ypcalls(ci[L]) : k <= i
    BY <1>1, <2>1, LastPosition
  <2>3. i \in 1 .. Depth(L)
    BY <1>1, <2>1, <2>2
  <2> HIDE DEF i
  <2>4. i \in 0 .. Depth(L) /\ i \in Nat
    BY <1>1, <2>3
  <2> QED BY <2>2, <2>3, <2>4
<1> HIDE DEF i
<1>7. /\ g \in Seq(CallInfo) /\ Len(g) = i /\ \A k \in 1 .. i : g[k] = ci[L][k]
  BY <1>1, <1>6, FirstFrames
<1>8. a \in Activation /\ a.th = L /\ a.fn = "C" /\ a.level = i
  BY <1>1, <1>6, <1>7 DEF Activation, Runs
<1> HIDE DEF a, g
<1>9. /\ OnlyFor(L, ci', ci) /\ Len(ci'[L]) = i
      /\ \A k \in 1 .. i - 1 : ci'[L][k] = ci[L][k]
  <2>1. ci'[L] = [g EXCEPT ![i] = [g[i] EXCEPT !.ypcall = FALSE]] /\ OnlyFor(L, ci', ci)
    BY <1>1, <1>3, <1>7 DEF OnlyFor
  <2> DEFINE x == [g[i] EXCEPT !.ypcall = FALSE]
  <2>2. ci'[L] = [g EXCEPT ![i] = x]
    BY <2>1
  <2> HIDE DEF x
  <2>3. ci'[L] \in Seq(CallInfo)
    BY <1>1 DEF IInv, Inv, Typed
  <2>4. DOMAIN ci'[L] = 1 .. i
    BY <1>7, <2>2
  <2> QED BY <1>6, <1>7, <2>1, <2>2, <2>3, <2>4
<1>10. SameYpcalls(ci, ci', L, i)
  BY <1>9 DEF SameYpcalls, YpcallAt
<1>11. \A k \in 1 .. Len(cs) : cs[k].th = L => cs[k].fn # "luaD_pcall"
  <2> SUFFICES ASSUME NEW k \in 1 .. Len(cs), cs[k].th = L, cs[k].fn = "luaD_pcall"
               PROVE  FALSE
    OBVIOUS
  <2>1. k \in 1 .. j - 1
    BY <1>2
  <2> QED BY <1>1, <1>2, <2>1, ResumeIsFirst
<1>12. Cut(cs, S, j) /\ S \in Seq(Activation) /\ Len(S) = j /\ \A k \in 1 .. j : S[k] = cs[k]
  BY <1>1, <1>2, CutIsCut DEF Cut
<1> HIDE DEF S
<1>13. Stack(S) /\ S[Len(S)].th = L
  BY <1>1, <1>2, <1>12, CutStack
<1>14. Dropped(cs, S, i)
  <2>1. EnteredSame(cs, S, j)
    BY <1>12 DEF EnteredSame
  <2>2. ASSUME NEW k \in j + 1 .. Len(cs)
        PROVE  /\ cs[k].th = cs[Len(cs)].th /\ cs[k].fn # "lua_resume"
               /\ Marks(cs[k]) => i <= cs[k].level
    <3>1. k \in 1 .. Len(cs) /\ k \in j .. Len(cs) /\ ~(k <= j)
      BY <1>1, <1>2
    <3>2. cs[k].th = L /\ cs[k].fn \notin {"luaD_pcall", "lua_resume"}
      BY <1>2, <3>1
    <3>3. ASSUME Marks(cs[k]) PROVE i <= cs[k].level
      <4>1. k \in BarsOf(cs, L)
        BY <3>1, <3>2, <3>3 DEF Marks, Bars, BarsOf
      <4>2. cs[k].level >= i
        BY <1>5, <1>6, <4>1 DEF ContinuationsOf
      <4>3. cs[k].level \in Nat
        BY <1>1, <3>1, StackParts
      <4> QED BY <1>6, <4>2, <4>3
    <3> QED BY <1>1, <3>2, <3>3
  <2> QED BY <1>1, <1>2, <1>12, <2>1, <2>2 DEF Dropped
<1>15. Dropped(cs', S, i) /\ IsEntered(cs')
  <2>1. Dropped(S, S, i)
    BY <1>12, <1>13, NothingDropped
  <2>2. Adds(S, a, i)
    BY <1>8, <1>13 DEF Adds, Marks
  <2>3. Dropped(cs', S, i) /\ cs'[Len(cs')] = a
    BY <1>3, <1>12, <2>1, <2>2, AddOne
  <2> QED BY <1>8, <2>3 DEF IsEntered
<1>16. LeadsTo(ci')
  BY <1>3, <1>4, <1>9, <1>14, <1>15, MovesLead DEF Moves
<1>17. CASE i >= Depth(L) - 1
  BY <1>6, <1>9, <1>10, <1>16, <1>17, CutMaps
<1>18. CASE ~(i >= Depth(L) - 1)
  <2>1. i + 1 \in Threads!Protected(L)
    <3>1. i + 1 \in 1 .. Depth(L) /\ i + 1 > 1 /\ (i + 1) - 1 = i
      BY <1>1, <1>6, <1>18
    <3>2. YpcallAt(ci, L, i)
      BY <1>1, <1>6 DEF Ypcalls, YpcallAt
    <3> QED BY <1>5, <3>1, <3>2, ProtectedHere
  <2>2. ASSUME NEW k \in Threads!Protected(L)
        PROVE  k <= i + 1
    <3>1. /\ k \in 1 .. Depth(L)
          /\ (k > 1 /\ YpcallAt(ci, L, k - 1)) \/ PcallAt(cs, L, k - 1)
      BY <1>5, <2>2, ProtectedHere
    <3>2. ~PcallAt(cs, L, k - 1)
      BY <1>11 DEF PcallAt
    <3>3. k - 1 \in DOMAIN ci[L] /\ YpcallAt(ci, L, k - 1)
      BY <1>1, <3>1, <3>2
    <3>4. k - 1 \in Ypcalls(ci[L])
      BY <3>3 DEF Ypcalls, YpcallAt
    <3> QED BY <1>1, <1>6, <3>1, <3>4
  <2> QED BY <1>6, <1>9, <1>10, <1>16, <2>1, <2>2, CutMaps
<1> QED BY <1>17, <1>18

\* An error ends the coroutine.
LEMMA DieMaps ==
  ASSUME IInv, IInv', Len(cs) > 1, IsEntered(cs),
         NEW st \in Errors, NEW ah, luaD_throw(st, ah), cs[errorJmp].fn = "lua_resume",
         Ypcalls(ci[L]) = {}
  PROVE  Maps
<1> DEFINE j == errorJmp
<1>1. /\ cs \in Seq(Activation) /\ Stack(cs) /\ Len(cs) \in Nat
      /\ Top = cs[Len(cs)] /\ L = cs[Len(cs)].th /\ L \in Thread
      /\ ci \in [Thread -> Seq(CallInfo)] /\ ci[L] \in Seq(CallInfo)
      /\ status \in [Thread -> {"LUA_OK", "LUA_YIELD"} \cup Errors]
      /\ Depth(L) = Len(ci[L]) /\ Depth(L) \in Nat
  BY Here DEF Parts, Inv, IInv, Typed, Top, L, Depth
<1>2. /\ j \in 2 .. Len(cs) /\ j \in 1 .. Len(cs)
      /\ cs[j].th = L /\ cs[j].fn = "lua_resume"
      /\ \A k \in 1 .. Len(cs) :
           cs[k].fn \in {"luaD_pcall", "lua_resume"} /\ cs[k].th = L => k <= j
  BY JumpHere
<1>3. /\ status' = [status EXCEPT ![L] = st] /\ unstarted' = unstarted \ {L}
      /\ cs' = SubSeq(cs, 1, j - 1) /\ ci' = ci
  BY DEF luaD_throw, lua_resume_returns
<1> HIDE DEF j
<1>4. /\ OnlyFor(L, ci', ci) /\ OnlyFor(L, status', status)
      /\ OnlySetFor(L, unstarted', unstarted) /\ status'[L] = st
  BY <1>1, <1>3 DEF OnlyFor, OnlySetFor
<1>5. Leaves(cs, cs', j)
  BY <1>1, <1>2, <1>3 DEF Leaves
<1>6. /\ Threads!Leave(StateOf(cs', status', unstarted', L))
      /\ callsBar' = [callsBar EXCEPT ![L] = CallsOf(cs', ci', status', L)]
      /\ runningBar = L
  BY <1>4, <1>5, LeaveMaps
<1>7. /\ StateOf(cs', status', unstarted', L) = "dead"
      /\ CallsOf(cs', ci', status', L) = <<>>
  BY <1>4 DEF StateOf, CallsOf, errorstatus
<1>8. Threads!Protected(L) = {}
  <2> SUFFICES ASSUME NEW i \in Threads!Protected(L) PROVE FALSE
    OBVIOUS
  <2>1. /\ i \in 1 .. Depth(L)
        /\ (i > 1 /\ YpcallAt(ci, L, i - 1)) \/ PcallAt(cs, L, i - 1)
    BY RunsWell, ProtectedHere
  <2>2. CASE PcallAt(cs, L, i - 1)
    <3>1. PICK q \in 1 .. Len(cs) : cs[q].fn = "luaD_pcall" /\ cs[q].th = L
      BY <2>2 DEF PcallAt
    <3>2. q \in 1 .. j - 1
      BY <1>2, <3>1
    <3> QED BY <1>1, <1>2, <3>1, <3>2, ResumeIsFirst
  <2>3. CASE i > 1 /\ YpcallAt(ci, L, i - 1)
    <3>1. i - 1 \in DOMAIN ci[L]
      BY <1>1, <2>1, <2>3
    <3> QED BY <2>3, <3>1 DEF Ypcalls, YpcallAt
  <2> QED BY <2>1, <2>2, <2>3
<1>9. Threads!Error
  BY <1>6, <1>7, <1>8 DEF Threads!Error
<1> QED BY <1>9 DEF Maps, Threads!Next

\* luaD_throw, from what runs.
LEMMA ThrowMaps ==
  ASSUME IInv, IInv', Len(cs) > 1, Top.fn \notin {"luaD_pcall", "lua_resume"},
         NEW st \in Errors, NEW ah, luaD_throw(st, ah)
  PROVE  Maps
<1>1. IsEntered(cs)
  BY DEF IsEntered, Top
<1>2. cs[errorJmp].fn \in {"luaD_pcall", "lua_resume"}
  BY JumpHere
<1> QED BY <1>1, <1>2, CatchMaps, RecoverMaps, DieMaps

\* luaG_errormsg: the message handler is called, or the error thrown.
LEMMA ErrormsgMaps ==
  ASSUME IInv, IInv', Len(cs) > 1, Top.fn \notin {"luaD_pcall", "lua_resume"}, luaG_errormsg
  PROVE  Maps
<1>1. CASE errfunc[L] # 0
  <2>1. /\ luaD_call("luaG_errormsg", TRUE, cs)
        /\ UNCHANGED <<ci, status, errfunc, allowhook, unstarted>>
    BY <1>1 DEF luaG_errormsg
  <2>2. FramesStay /\ IsEntered(cs)
    BY <2>1, SameStay DEF IsEntered, Top
  <2> QED BY <2>1, <2>2, CallMaps
<1>2. CASE errfunc[L] = 0
  <2>1. luaD_throw("LUA_ERRRUN", allowhook[L])
    BY <1>2 DEF luaG_errormsg
  <2> QED BY <2>1, ThrowMaps DEF Errors
<1> QED BY <1>1, <1>2

\* An error in whatever runs.
LEMMA RunErrorMaps == ASSUME IInv, IInv', RunError PROVE Maps
<1>1. Top.fn \in Runs /\ ~InHost /\ luaG_errormsg
  BY DEF RunError
<1>2. Len(cs) > 1 /\ Top.fn \notin {"luaD_pcall", "lua_resume"}
  BY <1>1, SomethingBelow DEF Runs
<1> QED BY <1>1, <1>2, ErrormsgMaps

\* No memory, or an error of syntax.
LEMMA ThrowErrorMaps == ASSUME IInv, IInv', ThrowError PROVE Maps
<1>1. Allocates /\ luaD_throw("LUA_ERRMEM", allowhook[L])
  BY DEF ThrowError
<1>2. Len(cs) > 1 /\ Top.fn \notin {"luaD_pcall", "lua_resume"}
  BY <1>1, AllocatesHere DEF Allocates, Runs
<1> QED BY <1>1, <1>2, ThrowMaps DEF Errors

\* The error of a finalizer.
LEMMA GCTMRethrowsMaps == ASSUME IInv, IInv', GCTM_rethrows PROVE Maps
<1>1. Top.fn = "GCTM" /\ luaD_throw("LUA_ERRGCMM", Top.oldah)
  BY DEF GCTM_rethrows
<1>2. Len(cs) > 1
  BY <1>1, SomethingBelow DEF InHost
<1> QED BY <1>1, <1>2, ThrowMaps DEF Errors

\* luaD_call returns to its caller, or to luaG_errormsg, which throws.
LEMMA AnyCallReturnsMaps == ASSUME IInv, IInv', luaD_call_returns PROVE Maps
<1>1. Top.fn = "luaD_call" /\ Len(cs) > 1
  BY SomethingBelow DEF luaD_call_returns, InHost
<1>2. CASE Top.caller = "luaG_errormsg"
  <2>1. luaD_throw("LUA_ERRRUN", allowhook[L])
    BY <1>2 DEF luaD_call_returns
  <2> QED BY <1>1, <2>1, ThrowMaps DEF Errors
<1>3. CASE Top.caller # "luaG_errormsg"
  BY <1>3, CallReturnsMaps
<1> QED BY <1>2, <1>3

\* luaD_call enters its function, or there is an error.
LEMMA AnyCallEntersMaps == ASSUME IInv, IInv', luaD_call_enters PROVE Maps
<1>1. Top.fn = "luaD_call" /\ Len(cs) > 1
  BY SomethingBelow DEF luaD_call_enters, InHost
<1>2. CASE luaD_throw("LUA_ERRERR", allowhook[L])
  BY <1>1, <1>2, ThrowMaps DEF Errors
<1>3. CASE luaG_errormsg
  BY <1>1, <1>3, ErrormsgMaps
<1>4. CASE /\ \E lua \in BOOLEAN :
                luaD_precall(lua, TRUE, [cs EXCEPT ![Len(cs)].entered = TRUE])
           /\ UNCHANGED <<status, unstarted>>
  BY <1>1, <1>4, CallEntersMaps
<1> QED BY <1>2, <1>3, <1>4 DEF luaD_call_enters

\* What lua_resume finds before it starts: nobody knows of it yet.
LEMMA WaitingHere ==
  ASSUME IInv, Top.fn = "lua_resume", ~Top.entered
  PROVE  /\ Len(cs) \in 2 .. Len(cs) /\ Len(cs) - 1 \in 1 .. Len(cs)
         /\ cs[Len(cs) - 1].th \in Thread
         /\ runningBar = cs[Len(cs) - 1].th
         /\ stateBar[L] = "suspended" /\ ~errorstatus(status[L])
         /\ status[L] = "LUA_OK" => ci[L] = <<>> /\ L \in unstarted
<1>1. /\ cs \in Seq(Activation) /\ Stack(cs) /\ Len(cs) \in Nat
      /\ Top = cs[Len(cs)] /\ L = cs[Len(cs)].th /\ L \in Thread /\ Len(cs) > 1
  BY Here DEF Parts, Inv, IInv, Top, L, InHost
<1>2. /\ Len(cs) \in 2 .. Len(cs) /\ Len(cs) - 1 \in 1 .. Len(cs)
      /\ cs[Len(cs) - 1].th \in Thread
  BY <1>1, StackParts
<1>3. IF status[L] = "LUA_OK" THEN L \in unstarted /\ ci[L] = <<>>
      ELSE status[L] = "LUA_YIELD"
  BY EnteredHere
<1>4. runningBar = cs[Len(cs) - 1].th
  <2>1. ~IsEntered(cs)
    BY <1>1 DEF IsEntered
  <2> QED BY <1>1, <2>1, OneThread, BarsAre DEF RunningOf
<1>5. stateBar[L] = "suspended" /\ ~errorstatus(status[L])
  <2>1. stateBar = [t \in Thread |-> StateOf(cs, status, unstarted, t)]
    BY BarsAre
  <2> QED BY <1>1, <1>3, <2>1 DEF StateOf, errorstatus, Errors
<1> QED BY <1>2, <1>3, <1>4, <1>5

\* The main function of a coroutine cannot be called.
LEMMA ResumeFailsMaps == ASSUME IInv, IInv', resume_fails PROVE Maps
<1>1. /\ Top.fn = "lua_resume" /\ ~Top.entered /\ status[L] = "LUA_OK"
      /\ luaG_errormsg
  BY DEF resume_fails
<1>2. /\ cs \in Seq(Activation) /\ Stack(cs) /\ Len(cs) \in Nat
      /\ ThreadsRight(cs, ci, status, unstarted) /\ Handlers(cs, ci, status, errfunc)
      /\ Top = cs[Len(cs)] /\ L = cs[Len(cs)].th /\ L \in Thread
      /\ ci \in [Thread -> Seq(CallInfo)] /\ ci[L] \in Seq(CallInfo)
      /\ status \in [Thread -> {"LUA_OK", "LUA_YIELD"} \cup Errors]
  BY Here DEF Parts, Inv, IInv, Typed, Top, L
<1>3. /\ Len(cs) \in 2 .. Len(cs) /\ Len(cs) - 1 \in 1 .. Len(cs)
      /\ runningBar = cs[Len(cs) - 1].th /\ stateBar[L] = "suspended"
      /\ ~errorstatus(status[L]) /\ ci[L] = <<>> /\ L \in unstarted
  BY <1>1, WaitingHere
<1> DEFINE m == Len(cs)
<1>a. /\ m \in 1 .. Len(cs) /\ m \in 2 .. Len(cs) /\ m = Len(cs)
      /\ cs[m].fn = "lua_resume" /\ cs[m].th = L /\ ~cs[m].entered
  BY <1>1, <1>2, <1>3
<1> HIDE DEF m
<1>4. Ypcalls(ci[L]) = {}
  BY <1>3 DEF Ypcalls
<1>5. luaD_throw("LUA_ERRRUN", allowhook[L])
  <2>1. errfunc[L] = HandlerAt(cs, ci, L, Len(cs), Len(ci[L]))
    BY <1>2, <1>3 DEF Handlers
  <2>2. PcallsOf(cs, L, Len(cs)) = {}
    BY <1>2, <1>a, FirstOfThread
  <2>3. errfunc[L] = 0
    BY <1>4, <2>1, <2>2 DEF HandlerAt, FrameHandler
  <2> QED BY <1>1, <2>3 DEF luaG_errormsg
<1>6. errorJmp = Len(cs)
  <2>1. errorJmp \in 2 .. Len(cs) /\ Len(cs) <= errorJmp
    BY <1>a, <1>2, JumpHere
  <2> QED BY <1>2, <2>1
<1>7. /\ status' = [status EXCEPT ![L] = "LUA_ERRRUN"] /\ unstarted' = unstarted \ {L}
      /\ cs' = SubSeq(cs, 1, Len(cs) - 1) /\ ci' = ci
  BY <1>1, <1>2, <1>4, <1>5, <1>6 DEF luaD_throw, lua_resume_returns
<1>8. Leaves(cs, cs', m)
  BY <1>2, <1>7, <1>a DEF Leaves
<1>9. /\ RunningOf(cs') = cs[m - 1].th
      /\ ResumedOf(cs') = ResumedOf(cs)
      /\ \A t, n : n \in Nat /\ t # L => SameMarks(cs, cs', t, n)
      /\ \A t : t # L => ResumesOf(cs', t) = ResumesOf(cs, t)
  <2>1. RunningOf(cs') = cs[m - 1].th /\ ResumedOf(cs') = ResumedOf(cs)
    BY <1>2, <1>8, <1>a, LeftResumed
  <2>2. /\ \A t, n : n \in Nat /\ t # L => SameMarks(cs, cs', t, n)
        /\ \A t : t # L => ResumesOf(cs', t) = ResumesOf(cs, t)
    BY <1>2, <1>8, <1>a, LeftAlone
  <2> QED BY <2>1, <2>2
<1>10. CallsOf(cs, ci, status, L) = <<>> /\ CallsOf(cs', ci', status', L) = <<>>
  <2>1. CallsOf(cs', ci', status', L) = <<>>
    BY <1>2, <1>7 DEF CallsOf, errorstatus, Errors
  <2>2. Len(ci[L]) = 0
    BY <1>3
  <2> QED BY <1>3, <2>1, <2>2 DEF CallsOf
<1>11. ASSUME NEW t \in Thread, t # L
       PROVE  /\ CallsOf(cs', ci', status', t) = CallsOf(cs, ci, status, t)
              /\ StateOf(cs', status', unstarted', t) = StateOf(cs, status, unstarted, t)
  <2>1. /\ ci'[t] = ci[t] /\ status'[t] = status[t] /\ (t \in unstarted' <=> t \in unstarted)
        /\ ci[t] \in Seq(CallInfo) /\ Len(ci[t]) \in Nat
    BY <1>2, <1>7, <1>11
  <2>2. SameMarks(cs, cs', t, Len(ci[t])) /\ ResumesOf(cs', t) = ResumesOf(cs, t)
    BY <1>9, <1>11, <2>1
  <2>3. CallsOf(cs', ci', status', t) = CallsOf(cs, ci, status, t)
    BY <2>1, <2>2, OtherCalls
  <2> QED BY <2>1, <2>2, <2>3 DEF StateOf, IsOn
<1>12. StateOf(cs', status', unstarted', L) = "dead"
  BY <1>2, <1>7 DEF StateOf, errorstatus, Errors
<1>13. /\ callsBar' = [callsBar EXCEPT ![L] = CallsOf(cs', ci', status', L)]
       /\ stateBar' = [stateBar EXCEPT ![L] = StateOf(cs', status', unstarted', L)]
       /\ callsBar[L] = CallsOf(cs, ci, status, L)
       /\ runningBar' = RunningOf(cs') /\ resumedBar = ResumedOf(cs)
       /\ resumedBar' = ResumedOf(cs')
  BY <1>2, <1>11, OneThread
<1>14. callsBar' = callsBar
  <2>1. callsBar = [t \in Thread |-> CallsOf(cs, ci, status, t)]
    BY BarsAre
  <2> QED BY <1>2, <1>10, <1>13, <2>1
<1>15. Threads!Abort(L)
  BY <1>3, <1>9, <1>10, <1>12, <1>13, <1>14, <1>a DEF Threads!Abort
<1> QED BY <1>2, <1>15 DEF Maps, Threads!Next

-----------------------------------------------------------------------------
(* Yields.                                                                 *)

\* A thread that can yield marks no call.
LEMMA NothingMarked ==
  ASSUME IInv, nny[L] = 0, Top.fn \in {"C", "hook"}
  PROVE  \A l : ~PcallAt(cs, L, l) /\ ~NoyieldAt(cs, L, l)
<1>1. /\ cs \in Seq(Activation) /\ Stack(cs) /\ Len(cs) \in Nat /\ Len(cs) \in 1 .. Len(cs)
      /\ Top = cs[Len(cs)] /\ L = cs[Len(cs)].th /\ L \in Thread
      /\ NnyCounted(cs, nny)
  BY Here DEF Parts, Inv, IInv, Top, L
<1>2. NnyIn(cs, L, Len(cs)) = 0
  <2>1. IsOn(cs, L)
    BY <1>1, OnTheStack
  <2> QED BY <1>1, <2>1 DEF NnyCounted
<1>3. \A i \in 1 .. Len(cs) : cs[i].th = L => ~Bars(cs[i])
  BY <1>1, <1>2, NothingBarred
<1>4. PcallsOf(cs, L, Len(cs)) = {}
  BY <1>1, <1>2, NoPcalls
<1> QED BY <1>3, <1>4 DEF PcallAt, NoyieldAt, Bars, PcallsOf

\* The frames g are those of the running thread when it yields.
LEMMA YieldMaps ==
  ASSUME IInv, IInv', nny[L] = 0, Top.fn \in {"C", "hook"}, ~InHost,
         NEW g, throwYield(g), Len(g) = Depth(L),
         \A i \in 1 .. Depth(L) - 1 : g[i] = ci[L][i]
  PROVE  Maps
<1> DEFINE j == errorJmp
<1>1. /\ cs \in Seq(Activation) /\ Stack(cs) /\ Len(cs) \in Nat
      /\ Top = cs[Len(cs)] /\ L = cs[Len(cs)].th /\ L \in Thread
      /\ ci \in [Thread -> Seq(CallInfo)] /\ ci[L] \in Seq(CallInfo)
      /\ status \in [Thread -> {"LUA_OK", "LUA_YIELD"} \cup Errors]
      /\ Depth(L) = Len(ci[L]) /\ Depth(L) \in Nat
  BY Here DEF Parts, Inv, IInv, Typed, Top, L, Depth
<1>2. j \in 2 .. Len(cs) /\ cs[j].fn = "lua_resume" /\ cs[j].th = L
  BY YieldJump
<1>3. /\ status' = [status EXCEPT ![L] = "LUA_YIELD"] /\ ci' = [ci EXCEPT ![L] = g]
      /\ cs' = SubSeq(cs, 1, j - 1) /\ unstarted' = unstarted
  BY DEF throwYield, lua_resume_returns
<1> HIDE DEF j
<1>4. /\ OnlyFor(L, ci', ci) /\ OnlyFor(L, status', status)
      /\ OnlySetFor(L, unstarted', unstarted)
      /\ status'[L] = "LUA_YIELD" /\ ci'[L] = g
  BY <1>1, <1>3 DEF OnlyFor, OnlySetFor
<1>5. Leaves(cs, cs', j)
  BY <1>1, <1>2, <1>3 DEF Leaves
<1>6. IsEntered(cs)
  BY <1>1 DEF IsEntered
<1>7. /\ Threads!Leave(StateOf(cs', status', unstarted', L))
      /\ callsBar' = [callsBar EXCEPT ![L] = CallsOf(cs', ci', status', L)]
      /\ runningBar = L /\ callsBar[L] = CallsOf(cs, ci, status, L)
  BY <1>4, <1>5, <1>6, LeaveMaps
<1>8. ~errorstatus(status[L]) /\ ~errorstatus(status'[L])
  BY <1>4, <1>6, RunsWell DEF errorstatus, Errors
<1>9. StateOf(cs', status', unstarted', L) = "suspended"
  BY <1>4, <1>8 DEF StateOf
<1>10. CallsOf(cs', ci', status', L) = CallsOf(cs, ci, status, L)
  <2>1. \A l : ~PcallAt(cs', L, l) /\ ~NoyieldAt(cs', L, l)
    BY <1>1, <1>2, <1>5, LeftAlone
  <2>2. SameMarks(cs, cs', L, Depth(L))
    BY <2>1, NothingMarked DEF SameMarks
  <2>3. SameYpcalls(ci, ci', L, Depth(L))
    BY <1>4 DEF SameYpcalls, YpcallAt
  <2>4. /\ ci'[L] \in Seq(CallInfo) /\ Len(ci'[L]) = Depth(L)
        /\ Depth(L) \in 0 .. Len(ci[L])
    BY <1>1, <1>4 DEF IInv, Inv, Typed
  <2> QED BY <1>1, <1>8, <2>2, <2>3, <2>4, CallsCut, SMTT(30)
<1>11. callsBar' = callsBar
  <2>1. callsBar = [t \in Thread |-> CallsOf(cs, ci, status, t)]
    BY BarsAre
  <2> QED BY <1>1, <1>7, <1>10, <2>1
<1>12. \A i \in DOMAIN callsBar[L] : ~callsBar[L][i].noyield
  <2>1. /\ DOMAIN CallsOf(cs, ci, status, L) = 1 .. Len(ci[L])
        /\ \A i \in 1 .. Len(ci[L]) : CallsOf(cs, ci, status, L)[i] = FrameCall(cs, ci, L, i)
    BY <1>1, <1>8, CallsTyped
  <2>2. \A i : ~FrameCall(cs, ci, L, i).noyield
    BY NothingMarked DEF FrameCall
  <2> QED BY <1>7, <2>1, <2>2
<1>13. Threads!Yield
  BY <1>7, <1>9, <1>11, <1>12 DEF Threads!Yield
<1> QED BY <1>13 DEF Maps, Threads!Next

\* lua_yield in a hook.
LEMMA HookYieldsMaps == ASSUME IInv, IInv', hook_yields PROVE Maps
<1>1. Top.fn = "hook" /\ nny[L] = 0 /\ throwYield(ci[L])
  BY DEF hook_yields
<1> QED BY <1>1, YieldMaps DEF InHost, Depth

\* lua_yieldk.
LEMMA YieldkMaps == ASSUME IInv, IInv', NEW k \in BOOLEAN, lua_yieldk(k) PROVE Maps
<1> DEFINE x == IF k THEN "k" ELSE "NULL"
           frame == [ci[L][Depth(L)] EXCEPT !.k = x]
           g == [ci[L] EXCEPT ![Depth(L)] = frame]
<1>1. /\ Top.fn = "C" /\ ~InHost /\ nny[L] = 0 /\ throwYield(g)
  BY DEF lua_yieldk, InFunction, InHost
<1>2. /\ ci[L] \in Seq(CallInfo) /\ Depth(L) = Len(ci[L]) /\ Depth(L) \in Nat
  BY Here DEF Parts, L, Top, Depth
<1>3. ci' = [ci EXCEPT ![L] = g]
  BY <1>1 DEF throwYield
<1> HIDE DEF frame
<1>4. FramesStay
  BY <1>3, LastChanges
<1>5. Len(g) = Depth(L) /\ \A i \in 1 .. Depth(L) - 1 : g[i] = ci[L][i]
  <2>1. /\ L \in Thread /\ ci \in [Thread -> Seq(CallInfo)]
    BY Here DEF Parts, L, Top
  <2>2. ci'[L] = g
    BY <1>3, <2>1
  <2>3. Len(g) = Depth(L)
    BY <1>4, <2>2 DEF FramesStay
  <2> QED BY <1>2, <2>3
<1> HIDE DEF g
<1> QED BY <1>1, <1>5, YieldMaps

-----------------------------------------------------------------------------
(* Coroutines are resumed, and get functions to run.                       *)

\* lua_resume is called: LuaThreads does not see it before it does something.
LEMMA LuaResumeMaps == ASSUME IInv, IInv', NEW t \in Thread, lua_resume(t) PROVE Maps
<1> DEFINE a == [fn |-> "lua_resume", th |-> t, level |-> 0, nny |-> nny[t],
                 nCcalls |-> nCcalls[L] + 1, entered |-> FALSE]
<1>1. /\ InC /\ ~InHost /\ CanResume(t)
      /\ UNCHANGED <<ci, status, unstarted>>
  BY DEF lua_resume
<1>2. /\ cs \in Seq(Activation) /\ Stack(cs) /\ Len(cs) \in Nat /\ Len(cs) \in 1 .. Len(cs)
      /\ ThreadsRight(cs, ci, status, unstarted)
      /\ Top = cs[Len(cs)] /\ L = cs[Len(cs)].th
      /\ ci \in [Thread -> Seq(CallInfo)]
      /\ nny[t] \in Nat /\ nCcalls[L] \in Nat
  BY Here DEF Parts, Inv, IInv, Typed, Top, L
<1>3. cs[Len(cs)].fn # "lua_resume" /\ IsEntered(cs)
  BY <1>1, <1>2 DEF InC, IsEntered
<1>4. ResumesOf(cs, t) = {}
  <2>1. t \in unstarted \/ status[t] = "LUA_YIELD"
    BY <1>1 DEF CanResume
  <2> QED BY <1>2, <1>3, <2>1, ResumableIsOff
<1>5. CASE cs' = cs
  <2>1. SameView(cs, ci, cs', ci', status, unstarted)
    BY <1>1, <1>5 DEF SameView
  <2> QED BY <1>1, <2>1, NoStep DEF Maps
<1>6. CASE cs' = Append(cs, a)
  <2>1. /\ a \in Activation /\ a.fn = "lua_resume" /\ a.th = t /\ ~a.entered
        /\ a.level \in Nat /\ ~Marks(a)
    BY <1>2 DEF Activation, Marks
  <2> HIDE DEF a
  <2>2. Pushed(cs, cs', a)
    BY <1>2, <1>6, <2>1, PushIsPush
  <2>3. /\ Len(cs') = Len(cs) + 1 /\ cs'[Len(cs')] = a /\ cs'[Len(cs)] = cs[Len(cs)]
    BY <1>2, <2>2 DEF Pushed
  <2>4. ASSUME NEW u \in Thread
        PROVE  CallsOf(cs', ci, status, u) = CallsOf(cs, ci, status, u)
    <3>1. ci[u] \in Seq(CallInfo) /\ Len(ci[u]) \in Nat
      BY <1>2
    <3>2. SameMarks(cs, cs', u, Len(ci[u]))
      BY <1>2, <2>1, <2>2, <3>1, PushMarks
    <3> QED BY <3>1, <3>2, OtherCalls
  <2>5. ASSUME NEW u \in Thread
        PROVE  StateOf(cs', status, unstarted, u) = StateOf(cs, status, unstarted, u)
    <3>1. CASE u = t
      BY <1>1, <3>1 DEF StateOf, CanResume, errorstatus, Errors
    <3>2. CASE u # t
      <4>1. ResumesOf(cs', u) = ResumesOf(cs, u)
        BY <1>2, <2>1, <2>2, <3>2, PushOn
      <4> QED BY <4>1 DEF StateOf, IsOn
    <3> QED BY <3>1, <3>2
  <2>6. RunningOf(cs') = RunningOf(cs)
    <3>1. ~IsEntered(cs')
      BY <2>1, <2>3 DEF IsEntered
    <3>2. Len(cs') - 1 = Len(cs)
      BY <1>2, <2>3
    <3> QED BY <1>3, <2>3, <3>1, <3>2 DEF RunningOf
  <2>7. ResumedOf(cs') = ResumedOf(cs)
    BY <1>2, <2>1, <2>2, PushResumed
  <2>8. SameView(cs, ci, cs', ci', status, unstarted)
    BY <1>1, <2>4, <2>5, <2>6, <2>7 DEF SameView
  <2> QED BY <1>1, <2>8, NoStep DEF Maps
<1> QED BY <1>5, <1>6 DEF lua_resume

\* lua_xmove: a coroutine that is done gets another function to run.
LEMMA NewFunctionMaps == ASSUME IInv, IInv', NEW t \in Thread, NewFunction(t) PROVE Maps
<1>1. /\ InFunction /\ t \notin unstarted /\ status[t] = "LUA_OK" /\ ci[t] = <<>>
      /\ unstarted' = unstarted \cup {t}
      /\ UNCHANGED <<ci, status, cs>>
  BY DEF NewFunction
<1>2. /\ cs \in Seq(Activation) /\ Stack(cs) /\ Frames(cs, ci)
      /\ ci \in [Thread -> Seq(CallInfo)] /\ UsesApi(cs[Len(cs)])
  BY <1>1, Here DEF Parts, Inv, IInv, InFunction, Top, UsesApi
<1>3. ~IsOn(cs, t)
  <2>1. \A i \in 1 .. Len(cs) : ci[cs[i].th] # <<>>
    BY <1>2, OnHasFrames
  <2>2. t # MainThread
    BY <1>1, <1>2, <2>1, StackParts
  <2>3. ResumesOf(cs, t) = {}
    BY <1>1, <2>1 DEF ResumesOf
  <2> QED BY <2>2, <2>3 DEF IsOn
<1>4. /\ StateOf(cs, status, unstarted, t) = "finished"
      /\ StateOf(cs', status', unstarted', t) = "suspended"
      /\ \A u \in Thread : u # t =>
           StateOf(cs', status', unstarted', u) = StateOf(cs, status, unstarted, u)
      /\ \A u \in Thread : CallsOf(cs', ci', status', u) = CallsOf(cs, ci, status, u)
  BY <1>1, <1>3 DEF StateOf, errorstatus, Errors
<1>5. /\ stateBar[t] = StateOf(cs, status, unstarted, t)
      /\ stateBar' = [stateBar EXCEPT ![t] = StateOf(cs', status', unstarted', t)]
      /\ callsBar[t] = CallsOf(cs, ci, status, t)
      /\ callsBar' = [callsBar EXCEPT ![t] = CallsOf(cs', ci', status', t)]
      /\ runningBar' = runningBar /\ resumedBar' = resumedBar
  BY <1>1, <1>4, OneThread
<1>6. callsBar' = callsBar
  <2>1. callsBar = [u \in Thread |-> CallsOf(cs, ci, status, u)]
    BY BarsAre
  <2> QED BY <1>4, <1>5, <2>1
<1>7. Threads!Reuse(t)
  BY <1>4, <1>5, <1>6 DEF Threads!Reuse
<1> QED BY <1>7 DEF Maps, Threads!Next

-----------------------------------------------------------------------------
(* A coroutine starts, or goes on.                                         *)

\* The lua_resume on top of c is entered in d.
Opens(c, d) ==
  /\ c[Len(c)].fn = "lua_resume" /\ ~c[Len(c)].entered
  /\ Cut(c, d, Len(c)) /\ d[Len(c)].entered

\* Who waits for whom then.
LEMMA OpenResumed ==
  ASSUME NEW c \in Seq(Activation), Stack(c), NEW d, Opens(c, d)
  PROVE  /\ RunningOf(d) = c[Len(c)].th
         /\ ResumedOf(d) = ResumedOf(c) \cup {<<c[Len(c) - 1].th, c[Len(c)].th>>}
<1> DEFINE m == Len(c)
           E == {i \in 1 .. Len(c) : Entered(c[i])}
           D == {i \in 1 .. Len(d) : Entered(d[i])}
           p(i) == <<c[i - 1].th, c[i].th>>
<1>1. /\ m \in Nat /\ m \in 1 .. m /\ m > 1 /\ m - 1 \in 1 .. m - 1
      /\ c[m].fn = "lua_resume" /\ ~c[m].entered /\ d[m].entered
      /\ Len(d) = m /\ d \in Seq(Activation)
      /\ \A i \in 1 .. m - 1 : d[i] = c[i]
      /\ d[m].fn = "lua_resume" /\ d[m].th = c[m].th
  BY StackParts DEF Opens, Cut, Alike
<1>2. RunningOf(d) = c[m].th
  BY <1>1 DEF RunningOf, IsEntered
<1>3. /\ \A i \in D : i \in E \/ i = m
      /\ \A i \in E : i \in D /\ i # m
      /\ m \in D
  BY <1>1 DEF Entered
<1>4. \A i \in D : d[i - 1].th = c[i - 1].th /\ d[i].th = c[i].th
  <2> SUFFICES ASSUME NEW i \in D
               PROVE  d[i - 1].th = c[i - 1].th /\ d[i].th = c[i].th
    OBVIOUS
  <2>1. CASE i = m
    BY <1>1, <2>1
  <2>2. CASE i # m
    <3>1. i \in 1 .. m - 1 /\ c[i].fn = "lua_resume"
      BY <1>1, <2>2 DEF Entered
    <3>2. i \in 1 .. Len(c)
      BY <1>1, <3>1
    <3>3. i > 1
      BY <3>1, <3>2, StackParts
    <3>4. i - 1 \in 1 .. m - 1
      BY <1>1, <3>1, <3>3
    <3> QED BY <1>1, <3>1, <3>4
  <2> QED BY <2>1, <2>2
<1>5. ResumedOf(d) = {p(i) : i \in D}
  <2> DEFINE q(i) == <<d[i - 1].th, d[i].th>>
  <2>1. \A i \in D : q(i) = p(i)
    BY <1>4
  <2>2. ResumedOf(d) = {q(i) : i \in D}
    BY DEF ResumedOf
  <2> HIDE DEF D, p, q
  <2> QED BY <2>1, <2>2
<1>6. ResumedOf(c) = {p(i) : i \in E}
  BY DEF ResumedOf
<1>7. p(m) = <<c[Len(c) - 1].th, c[Len(c)].th>>
  OBVIOUS
<1> HIDE DEF E, D, p
<1>8. ResumedOf(d) = ResumedOf(c) \cup {p(m)}
  BY <1>3, <1>5, <1>6
<1> QED BY <1>2, <1>7, <1>8

\* The thread that d runs has one activation more in e, or not.
GoesOn(d, e) ==
  \/ e = d
  \/ \E a \in Activation :
       Pushed(d, e, a) /\ a.fn \in {"C", "luaV_execute"} /\ a.th = d[Len(d)].th

\* What the activations of a resumed coroutine tell.
LEMMA ResumedParts ==
  ASSUME NEW c \in Seq(Activation), Stack(c), NEW d, Opens(c, d), NEW e, GoesOn(d, e)
  PROVE  /\ RunningOf(e) = c[Len(c)].th
         /\ ResumedOf(e) = ResumedOf(c) \cup {<<c[Len(c) - 1].th, c[Len(c)].th>>}
         /\ \A t, n : n \in Nat => SameMarks(c, e, t, n)
         /\ \A l : ~PcallAt(e, c[Len(c)].th, l) /\ ~NoyieldAt(e, c[Len(c)].th, l)
         /\ \A t : ResumesOf(e, t) = ResumesOf(c, t)
<1> DEFINE m == Len(c)
<1>1. /\ m \in Nat /\ m \in 1 .. Len(c) /\ m = Len(c)
      /\ c[m].fn = "lua_resume" /\ Cut(c, d, m)
      /\ Len(d) = m /\ d \in Seq(Activation) /\ Alike(c[m], d[m])
      /\ \A i \in 1 .. m - 1 : d[i] = c[i]
  BY StackParts DEF Opens, Cut
<1>2. d[m].th = c[m].th /\ Stack(d)
  BY <1>1, CutStack DEF Alike
<1>3. /\ RunningOf(d) = c[Len(c)].th
      /\ ResumedOf(d) = ResumedOf(c) \cup {<<c[Len(c) - 1].th, c[Len(c)].th>>}
  BY OpenResumed
<1> HIDE DEF m
<1>4. /\ \A t, n : n \in Nat => SameMarks(c, d, t, n)
      /\ \A t : ResumesOf(d, t) = ResumesOf(c, t)
  <2>1. ASSUME NEW t, NEW n, n \in Nat PROVE SameMarks(c, d, t, n)
    <3>1. \A i \in m + 1 .. Len(c) : FALSE
      BY <1>1
    <3> QED BY <1>1, <2>1, <3>1, CutMarks
  <2>2. ASSUME NEW t PROVE ResumesOf(d, t) = ResumesOf(c, t)
    <3>1. ~(m < Len(c))
      BY <1>1
    <3> QED BY <1>1, <1>2, <3>1, CutOn
  <2> QED BY <2>1, <2>2
<1>5. \A l : ~PcallAt(d, c[m].th, l) /\ ~NoyieldAt(d, c[m].th, l)
  <2> SUFFICES ASSUME NEW i \in 1 .. Len(d), d[i].th = c[m].th
               PROVE  d[i].fn = "lua_resume"
    BY DEF PcallAt, NoyieldAt
  <2>1. \A k \in 1 .. m - 1 : c[k].th # c[m].th
    BY <1>1, ResumeIsFirst
  <2>2. i = m
    BY <1>1, <2>1
  <2> QED BY <1>1, <2>2 DEF Alike
<1>6. CASE e = d
  BY <1>1, <1>3, <1>4, <1>5, <1>6
<1>7. ASSUME NEW a \in Activation, Pushed(d, e, a), a.fn \in {"C", "luaV_execute"},
             a.th = d[Len(d)].th
      PROVE  /\ RunningOf(e) = c[m].th /\ ResumedOf(e) = ResumedOf(d)
             /\ \A t, n : n \in Nat => SameMarks(c, e, t, n)
             /\ \A l : ~PcallAt(e, c[m].th, l) /\ ~NoyieldAt(e, c[m].th, l)
             /\ \A t : ResumesOf(e, t) = ResumesOf(d, t)
  <2>1. /\ Len(e) = m + 1 /\ e[Len(e)] = a /\ a.th = c[m].th /\ a.level \in Nat
        /\ a.fn # "lua_resume" /\ ~Marks(a)
        /\ \A i \in 1 .. m : e[i] = d[i]
    BY <1>1, <1>2, <1>7, ActivationFields DEF Pushed, Marks
  <2>2. RunningOf(e) = c[m].th
    BY <2>1 DEF RunningOf, IsEntered
  <2>3. ResumedOf(e) = ResumedOf(d)
    BY <1>1, <1>2, <1>7, <2>1, PushResumed
  <2>4. ASSUME NEW t, NEW n, n \in Nat PROVE SameMarks(c, e, t, n)
    <3>1. SameMarks(d, e, t, n)
      BY <1>1, <1>7, <2>1, <2>4, PushMarks
    <3> QED BY <1>4, <2>4, <3>1 DEF SameMarks
  <2>5. ASSUME NEW l PROVE ~PcallAt(e, c[m].th, l) /\ ~NoyieldAt(e, c[m].th, l)
    <3>1. \A i \in 1 .. Len(e) : i = Len(e) \/ (i \in 1 .. Len(d) /\ e[i] = d[i])
      BY <1>1, <2>1
    <3> QED BY <1>5, <2>1, <3>1 DEF PcallAt, NoyieldAt, Marks
  <2>6. ASSUME NEW t PROVE ResumesOf(e, t) = ResumesOf(d, t)
    BY <1>1, <1>7, <2>1, PushOn
  <2> QED BY <2>2, <2>3, <2>4, <2>5, <2>6
<1>8. CASE \E a \in Activation :
             Pushed(d, e, a) /\ a.fn \in {"C", "luaV_execute"} /\ a.th = d[Len(d)].th
  <2>1. /\ RunningOf(e) = c[m].th /\ ResumedOf(e) = ResumedOf(d)
        /\ \A t, n : n \in Nat => SameMarks(c, e, t, n)
        /\ \A l : ~PcallAt(e, c[m].th, l) /\ ~NoyieldAt(e, c[m].th, l)
        /\ \A t : ResumesOf(e, t) = ResumesOf(d, t)
    BY <1>7, <1>8
  <2> QED BY <1>1, <1>3, <1>4, <2>1
<1> QED BY <1>6, <1>8 DEF GoesOn

\* What LuaThreads sees of it, the calls of the coroutine aside.
LEMMA ResumedMaps ==
  ASSUME IInv, IInv', NEW d, Opens(cs, d), GoesOn(d, cs'),
         OnlyFor(L, ci', ci), OnlyFor(L, status', status),
         OnlySetFor(L, unstarted', unstarted),
         status'[L] = "LUA_OK", L \notin unstarted'
  PROVE  /\ stateBar[L] = "suspended" /\ stateBar' = [stateBar EXCEPT ![L] = "active"]
         /\ runningBar' = L /\ resumedBar' = resumedBar \cup {<<runningBar, L>>}
         /\ callsBar[L] = CallsOf(cs, ci, status, L)
         /\ callsBar' = [callsBar EXCEPT ![L] = CallsOf(cs', ci', status', L)]
         /\ L \in Thread /\ ~errorstatus(status[L]) /\ ~errorstatus(status'[L])
<1>1. /\ cs \in Seq(Activation) /\ Stack(cs) /\ Len(cs) \in 1 .. Len(cs)
      /\ Top = cs[Len(cs)] /\ L = cs[Len(cs)].th /\ L \in Thread
      /\ ci \in [Thread -> Seq(CallInfo)]
  BY Here DEF Parts, Inv, IInv, Top, L
<1>2. Top.fn = "lua_resume" /\ ~Top.entered
  BY <1>1 DEF Opens
<1>3. /\ runningBar = cs[Len(cs) - 1].th /\ stateBar[L] = "suspended"
      /\ ~errorstatus(status[L])
  BY <1>2, WaitingHere
<1>4. /\ RunningOf(cs') = L /\ ResumedOf(cs') = ResumedOf(cs) \cup {<<runningBar, L>>}
      /\ \A t, n : n \in Nat => SameMarks(cs, cs', t, n)
      /\ \A t : ResumesOf(cs', t) = ResumesOf(cs, t)
  BY <1>1, <1>3, ResumedParts
<1>5. ASSUME NEW t \in Thread, t # L
      PROVE  /\ CallsOf(cs', ci', status', t) = CallsOf(cs, ci, status, t)
             /\ StateOf(cs', status', unstarted', t) = StateOf(cs, status, unstarted, t)
  <2>1. /\ ci'[t] = ci[t] /\ status'[t] = status[t] /\ (t \in unstarted' <=> t \in unstarted)
        /\ ci[t] \in Seq(CallInfo) /\ Len(ci[t]) \in Nat
    BY <1>1, <1>5 DEF OnlyFor, OnlySetFor
  <2>2. SameMarks(cs, cs', t, Len(ci[t])) /\ ResumesOf(cs', t) = ResumesOf(cs, t)
    BY <1>4, <2>1
  <2>3. CallsOf(cs', ci', status', t) = CallsOf(cs, ci, status, t)
    BY <2>1, <2>2, OtherCalls
  <2> QED BY <2>1, <2>2, <2>3 DEF StateOf, IsOn
<1>6. StateOf(cs', status', unstarted', L) = "active"
  <2>1. IsOn(cs, L)
    BY <1>1, OnTheStack
  <2>2. IsOn(cs', L)
    BY <1>4, <2>1 DEF IsOn
  <2> QED BY <2>2 DEF StateOf, errorstatus, Errors
<1>7. /\ callsBar' = [callsBar EXCEPT ![L] = CallsOf(cs', ci', status', L)]
      /\ stateBar' = [stateBar EXCEPT ![L] = StateOf(cs', status', unstarted', L)]
      /\ callsBar[L] = CallsOf(cs, ci, status, L)
      /\ runningBar' = RunningOf(cs') /\ resumedBar = ResumedOf(cs)
      /\ resumedBar' = ResumedOf(cs')
  BY <1>1, <1>5, OneThread
<1>8. ~errorstatus(status'[L])
  BY DEF errorstatus, Errors
<1> QED BY <1>1, <1>3, <1>4, <1>6, <1>7, <1>8

\* A coroutine starts.
LEMMA StartMaps ==
  ASSUME IInv, IInv', NEW d, Opens(cs, d), GoesOn(d, cs'),
         OnlyFor(L, ci', ci), OnlyFor(L, status', status),
         OnlySetFor(L, unstarted', unstarted),
         status'[L] = "LUA_OK", L \notin unstarted',
         Len(ci[L]) = 0, Len(ci'[L]) = 1
  PROVE  Maps
<1>1. /\ stateBar[L] = "suspended" /\ stateBar' = [stateBar EXCEPT ![L] = "active"]
      /\ runningBar' = L /\ resumedBar' = resumedBar \cup {<<runningBar, L>>}
      /\ callsBar[L] = CallsOf(cs, ci, status, L)
      /\ callsBar' = [callsBar EXCEPT ![L] = CallsOf(cs', ci', status', L)]
      /\ L \in Thread /\ ~errorstatus(status[L]) /\ ~errorstatus(status'[L])
  BY ResumedMaps
<1>2. cs \in Seq(Activation) /\ Stack(cs) /\ L = cs[Len(cs)].th
  BY Here DEF Parts, Inv, IInv, L, Top
<1>3. \A l : ~PcallAt(cs', L, l) /\ ~NoyieldAt(cs', L, l)
  BY <1>2, ResumedParts
<1>4. CallsOf(cs, ci, status, L) = <<>>
  BY <1>1 DEF CallsOf
<1>5. CallsOf(cs', ci', status', L) = <<[prot |-> FALSE, noyield |-> FALSE]>>
  <2> DEFINE x == [prot |-> FALSE, noyield |-> FALSE]
  <2>1. FrameCall(cs', ci', L, 1) = x
    <3>1. ~PcallAt(cs', L, 1 - 1) /\ ~NoyieldAt(cs', L, 1 - 1)
      BY <1>3
    <3>2. /\ ((1 > 1 /\ YpcallAt(ci', L, 1 - 1)) \/ PcallAt(cs', L, 1 - 1)) = FALSE
          /\ NoyieldAt(cs', L, 1 - 1) = FALSE
      <4>1. NoyieldAt(cs', L, 1 - 1) \in BOOLEAN
        BY DEF NoyieldAt
      <4>2. ((1 > 1 /\ YpcallAt(ci', L, 1 - 1)) \/ PcallAt(cs', L, 1 - 1)) \in BOOLEAN
        OBVIOUS
      <4>3. ~(1 > 1)
        OBVIOUS
      <4> QED BY <3>1, <4>1, <4>2, <4>3
    <3> QED BY <3>2 DEF FrameCall
  <2>2. CallsOf(cs', ci', status', L) = [i \in 1 .. 1 |-> FrameCall(cs', ci', L, i)]
    BY <1>1 DEF CallsOf
  <2> HIDE DEF x
  <2>3. CallsOf(cs', ci', status', L) = [i \in 1 .. 1 |-> x]
    BY <2>1, <2>2
  <2>4. CallsOf(cs', ci', status', L) = <<x>>
    BY <2>3
  <2> QED BY <2>4 DEF x
<1>6. Threads!Resume(L)
  BY <1>1, <1>4, <1>5 DEF Threads!Resume
<1> QED BY <1>1, <1>6 DEF Maps, Threads!Next

\* A coroutine goes on; the function that yielded may be done.
LEMMA GoOnMaps ==
  ASSUME IInv, IInv', NEW d, Opens(cs, d), GoesOn(d, cs'),
         OnlyFor(L, ci', ci), OnlyFor(L, status', status),
         OnlySetFor(L, unstarted', unstarted),
         status'[L] = "LUA_OK", L \notin unstarted', ci[L] # <<>>,
         Len(ci'[L]) = Depth(L) \/ Len(ci'[L]) = Depth(L) - 1,
         SameYpcalls(ci, ci', L, Len(ci'[L]))
  PROVE  Maps
<1> DEFINE n == Len(ci'[L])
           s == CallsOf(cs, ci, status, L)
           u == CallsOf(cs', ci', status', L)
<1>1. /\ stateBar[L] = "suspended" /\ stateBar' = [stateBar EXCEPT ![L] = "active"]
      /\ runningBar' = L /\ resumedBar' = resumedBar \cup {<<runningBar, L>>}
      /\ callsBar[L] = s
      /\ callsBar' = [callsBar EXCEPT ![L] = u]
      /\ L \in Thread /\ ~errorstatus(status[L]) /\ ~errorstatus(status'[L])
  BY ResumedMaps
<1>2. /\ cs \in Seq(Activation) /\ Stack(cs) /\ L = cs[Len(cs)].th
      /\ ci[L] \in Seq(CallInfo) /\ Depth(L) = Len(ci[L])
  BY Here DEF Parts, Inv, IInv, L, Top, Depth
<1>3. ci'[L] \in Seq(CallInfo)
  BY <1>1 DEF IInv, Inv, Typed
<1>4. n \in Nat /\ n \in 0 .. Len(ci[L]) /\ Len(ci[L]) > 0
  BY <1>2, <1>3
<1>5. SameMarks(cs, cs', L, n)
  BY <1>2, <1>4, ResumedParts
<1>6. u = FirstCalls(s, n)
  BY <1>1, <1>2, <1>3, <1>4, <1>5, CallsCut
<1>7. Len(s) = Len(ci[L]) /\ s # <<>>
  <2>1. s \in Seq(Threads!Call) /\ Len(s) = Len(ci[L])
    BY <1>1, <1>2, CallsTyped
  <2> HIDE DEF s
  <2> QED BY <1>4, <2>1
<1>8. n \in {Len(s) - 1, Len(s)}
  BY <1>2, <1>7
<1> HIDE DEF s, u, n
<1>9. u = SubSeq(s, 1, n)
  BY <1>6 DEF FirstCalls
<1>10. Threads!Resume(L)
  BY <1>1, <1>7, <1>8, <1>9 DEF Threads!Resume
<1> QED BY <1>1, <1>10 DEF Maps, Threads!Next

\* resume.
LEMMA ResumeMaps == ASSUME IInv, IInv', resume PROVE Maps
<1> DEFINE d == [cs EXCEPT ![Len(cs)].entered = TRUE]
<1>1. Top.fn = "lua_resume" /\ ~Top.entered
  BY DEF resume
<1>2. /\ cs \in Seq(Activation) /\ Len(cs) \in Nat \ {0}
      /\ Top = cs[Len(cs)] /\ L = cs[Len(cs)].th /\ L \in Thread
      /\ ci \in [Thread -> Seq(CallInfo)] /\ ci[L] \in Seq(CallInfo)
      /\ status \in [Thread -> {"LUA_OK", "LUA_YIELD"} \cup Errors]
      /\ Depth(L) = Len(ci[L]) /\ Depth(L) \in Nat
  BY Here DEF Parts, Inv, IInv, Typed, L, Top, Depth
<1>3. Opens(cs, d) /\ d \in Seq(Activation) /\ d[Len(d)].th = L
  <2>1. Cut(cs, d, Len(cs)) /\ d[Len(cs)].entered
    BY <1>1, <1>2, EnterIsCut
  <2> HIDE DEF d
  <2> QED BY <1>1, <1>2, <2>1 DEF Opens, Cut, Alike
<1>4. IF status[L] = "LUA_OK" THEN L \in unstarted /\ ci[L] = <<>>
      ELSE /\ status[L] = "LUA_YIELD" /\ L \notin unstarted /\ ci[L] # <<>>
           /\ Len(ci[L]) > 0
  BY <1>1, EnteredHere
<1>5. CASE status[L] = "LUA_OK"
  <2>1. /\ unstarted' = unstarted \ {L} /\ status' = status
    BY <1>5 DEF resume
  <2>2. PICK lua \in BOOLEAN : luaD_precall(lua, TRUE, d)
    BY <1>5 DEF resume
  <2> DEFINE frame == NewFrame(lua, TRUE)
             a == [fn |-> IF lua THEN "luaV_execute" ELSE "C", th |-> L,
                   level |-> Depth(L) + 1]
  <2>3. ci' = [ci EXCEPT ![L] = Append(ci[L], frame)] /\ cs' = Append(d, a)
    BY <2>2 DEF luaD_precall
  <2>4. a \in Activation /\ a.fn \in {"C", "luaV_execute"} /\ a.th = L
    BY <1>2 DEF Activation, Runs
  <2>5. frame \in CallInfo
    BY DEF NewFrame, CallInfo, LuaFrame, CFrame
  <2> HIDE DEF a, d, frame
  <2>6. Pushed(d, cs', a)
    BY <1>3, <2>3, <2>4, PushIsPush
  <2>7. GoesOn(d, cs')
    BY <1>3, <2>4, <2>6 DEF GoesOn
  <2>8. /\ OnlyFor(L, ci', ci) /\ OnlyFor(L, status', status)
        /\ OnlySetFor(L, unstarted', unstarted)
        /\ status'[L] = "LUA_OK" /\ L \notin unstarted'
    BY <1>2, <1>5, <2>1, <2>3 DEF OnlyFor, OnlySetFor
  <2>9. Len(ci[L]) = 0 /\ Len(ci'[L]) = 1
    <3>1. ci'[L] = Append(ci[L], frame) /\ Len(ci[L]) = 0
      BY <1>2, <1>4, <1>5, <2>3
    <3> QED BY <1>2, <2>5, <3>1
  <2> QED BY <1>3, <2>7, <2>8, <2>9, StartMaps
<1>6. CASE status[L] # "LUA_OK"
  <2>1. unstarted' = unstarted /\ status' = [status EXCEPT ![L] = "LUA_OK"]
    BY <1>6 DEF resume
  <2>2. /\ TopFrame.lua => execute(d)
        /\ ~TopFrame.lua /\ TopFrame.k = "NULL" =>
             /\ ci' = [ci EXCEPT ![L] = SubSeq(ci[L], 1, Depth(L) - 1)] /\ cs' = d
        /\ ~TopFrame.lua /\ TopFrame.k # "NULL" =>
             /\ cs' = Append(d, [fn |-> "C", th |-> L, level |-> Depth(L)]) /\ ci' = ci
    BY <1>6 DEF resume
  <2> HIDE DEF d
  <2>3. /\ OnlyFor(L, status', status) /\ OnlySetFor(L, unstarted', unstarted)
        /\ status'[L] = "LUA_OK" /\ L \notin unstarted'
    BY <1>2, <1>4, <1>6, <2>1 DEF OnlyFor, OnlySetFor
  <2>4. Depth(L) > 0 /\ Depth(L) \in 1 .. Depth(L) /\ Depth(L) - 1 \in 0 .. Depth(L)
    BY <1>2, <1>4, <1>6
  <2>5. /\ GoesOn(d, cs') /\ OnlyFor(L, ci', ci)
        /\ Len(ci'[L]) = Depth(L) \/ Len(ci'[L]) = Depth(L) - 1
        /\ SameYpcalls(ci, ci', L, Len(ci'[L]))
    <3>1. CASE TopFrame.lua
      <4> DEFINE a == [fn |-> "luaV_execute", th |-> L, level |-> Depth(L)]
      <4>1. ci' = [ci EXCEPT ![L][Depth(L)].fresh = TRUE] /\ cs' = Append(d, a)
        BY <2>2, <3>1 DEF execute
      <4>2. a \in Activation /\ a.fn \in {"C", "luaV_execute"} /\ a.th = L
        BY <1>2 DEF Activation, Runs
      <4> HIDE DEF a
      <4>3. Pushed(d, cs', a)
        BY <1>3, <4>1, <4>2, PushIsPush
      <4>4. GoesOn(d, cs')
        BY <1>3, <4>2, <4>3 DEF GoesOn
      <4>5. FramesStay
        <5> DEFINE frame == [ci[L][Depth(L)] EXCEPT !.fresh = TRUE]
        <5>1. ci' = [ci EXCEPT ![L] = [ci[L] EXCEPT ![Depth(L)] = frame]]
          BY <4>1
        <5> HIDE DEF frame
        <5> QED BY <5>1, LastChanges
      <4>6. OnlyFor(L, ci', ci) /\ Len(ci'[L]) = Depth(L) /\ SameYpcalls(ci, ci', L, Depth(L))
        BY <4>5 DEF FramesStay
      <4> QED BY <4>4, <4>6
    <3>2. CASE ~TopFrame.lua /\ TopFrame.k = "NULL"
      <4>1. ci' = [ci EXCEPT ![L] = SubSeq(ci[L], 1, Depth(L) - 1)] /\ cs' = d
        BY <2>2, <3>2
      <4>2. ci'[L] = SubSeq(ci[L], 1, Depth(L) - 1) /\ OnlyFor(L, ci', ci)
        BY <1>2, <4>1 DEF OnlyFor
      <4>3. /\ Len(ci'[L]) = Depth(L) - 1
            /\ \A i \in 1 .. Depth(L) - 1 : ci'[L][i] = ci[L][i]
        BY <1>2, <2>4, <4>2, FirstOnes
      <4>4. SameYpcalls(ci, ci', L, Len(ci'[L]))
        <5>1. \A i \in 1 .. Len(ci'[L]) - 1 : i \in 1 .. Depth(L) - 1
          BY <1>2, <4>3
        <5> QED BY <4>3, <5>1 DEF SameYpcalls, YpcallAt
      <4> QED BY <4>1, <4>2, <4>3, <4>4 DEF GoesOn
    <3>3. CASE ~TopFrame.lua /\ TopFrame.k # "NULL"
      <4> DEFINE a == [fn |-> "C", th |-> L, level |-> Depth(L)]
      <4>1. cs' = Append(d, a) /\ ci' = ci
        BY <2>2, <3>3
      <4>2. a \in Activation /\ a.fn \in {"C", "luaV_execute"} /\ a.th = L
        BY <1>2 DEF Activation, Runs
      <4> HIDE DEF a
      <4>3. Pushed(d, cs', a)
        BY <1>3, <4>1, <4>2, PushIsPush
      <4>4. GoesOn(d, cs')
        BY <1>3, <4>2, <4>3 DEF GoesOn
      <4> QED BY <1>2, <4>1, <4>4 DEF OnlyFor, SameYpcalls, YpcallAt
    <3> QED BY <3>1, <3>2, <3>3
  <2> QED BY <1>3, <1>4, <1>6, <2>3, <2>5, GoOnMaps
<1> QED BY <1>5, <1>6

-----------------------------------------------------------------------------
(* LuaDo implements LuaThreads.                                            *)

\* Nobody has been called, and no coroutine resumed.
LEMMA InitMaps == ASSUME Init PROVE Threads!Init
<1>1. /\ ci = [t \in Thread |-> <<>>] /\ status = [t \in Thread |-> "LUA_OK"]
      /\ unstarted = Thread \ {MainThread} /\ cs = <<Host>>
      /\ Host.fn = "C" /\ Host.th = MainThread
  BY DEF Init, Host
<1>2. Len(cs) = 1 /\ cs[1] = Host
  BY <1>1
<1>3. IInv
  BY InitRight
<1>4. /\ callsBar = [t \in Thread |-> CallsOf(cs, ci, status, t)]
      /\ stateBar = [t \in Thread |-> StateOf(cs, status, unstarted, t)]
      /\ runningBar = RunningOf(cs) /\ resumedBar = ResumedOf(cs)
  BY <1>3, BarsAre
<1>5. callsBar = [t \in Thread |-> <<>>]
  <2>1. \A t \in Thread : CallsOf(cs, ci, status, t) = <<>>
    BY <1>1 DEF CallsOf
  <2> QED BY <1>4, <2>1
<1>6. stateBar = [t \in Thread |-> IF t = MainThread THEN "active" ELSE "suspended"]
  <2>1. ASSUME NEW t \in Thread
        PROVE  StateOf(cs, status, unstarted, t)
                 = IF t = MainThread THEN "active" ELSE "suspended"
    <3>1. status[t] = "LUA_OK" /\ ~errorstatus(status[t])
      BY <1>1 DEF errorstatus, Errors
    <3>2. t \in unstarted <=> t # MainThread
      BY <1>1
    <3> QED BY <3>1, <3>2 DEF StateOf, IsOn
  <2> QED BY <1>4, <2>1
<1>7. runningBar = MainThread
  BY <1>1, <1>2, <1>4 DEF RunningOf, IsEntered
<1>8. resumedBar = {}
  <2>1. {i \in 1 .. Len(cs) : Entered(cs[i])} = {}
    BY <1>1, <1>2 DEF Entered
  <2> QED BY <1>4, <2>1 DEF ResumedOf
<1> QED BY <1>5, <1>6, <1>7, <1>8 DEF Threads!Init

\* Every step of LuaDo is one of LuaThreads, or LuaThreads does not see it.
LEMMA StepMaps ==
  ASSUME IInv, IInv', [Next]_vars
  PROVE  Maps
<1>1. ASSUME CallStep PROVE Maps
  <2>1. CASE luaD_call_enters
    BY <2>1, AnyCallEntersMaps
  <2>2. CASE luaD_call_returns
    BY <2>2, AnyCallReturnsMaps
  <2>3. CASE C_returns
    BY <2>3, CReturnsMaps
  <2>4. CASE OP_CALL
    BY <2>4, OpCallMaps
  <2>5. CASE OP_RETURN
    BY <2>5, OpReturnMaps
  <2>6. CASE luaT_callTM
    BY <2>6, CallTMMaps
  <2>7. CASE \E k \in BOOLEAN : lua_callk(k)
    BY <2>7, CallkMaps
  <2>8. CASE \E k, handler \in BOOLEAN : lua_pcallk(k, handler)
    BY <2>8, PcallkMaps
  <2>9. CASE luaD_pcall_ends
    BY <2>9, PcallEndsMaps
  <2>10. CASE luaD_protectedparser
    BY <2>10, ProtectedParserMaps
  <2>11. CASE f_parser_returns
    BY <2>11, ParserReturnsMaps
  <2>12. CASE luaD_protectedparser_returns
    BY <2>12, ProtectedParserReturnsMaps
  <2> QED BY <1>1, <2>1, <2>2, <2>3, <2>4, <2>5, <2>6, <2>7, <2>8, <2>9, <2>10, <2>11,
             <2>12 DEF CallStep
<1>2. ASSUME ErrorStep PROVE Maps
  BY <1>2, RunErrorMaps, ThrowErrorMaps DEF ErrorStep
<1>3. ASSUME AsideStep PROVE Maps
  BY <1>3, GCTMMaps, GCTMReturnsMaps, GCTMRethrowsMaps, HookMaps, HookReturnsMaps,
     HookYieldsMaps DEF AsideStep
<1>4. ASSUME CoroutineStep PROVE Maps
  BY <1>4, YieldkMaps, LuaResumeMaps, NewFunctionMaps, ResumeMaps, ResumeFailsMaps,
     UnrollMaps DEF CoroutineStep
<1>5. CASE UNCHANGED vars
  <2>1. ci' = ci /\ status' = status /\ unstarted' = unstarted /\ cs' = cs
    BY <1>5 DEF vars
  <2>2. SameView(cs, ci, cs', ci', status, unstarted)
    BY <2>1 DEF SameView
  <2> QED BY <2>1, <2>2, NoStep DEF Maps
<1> QED BY <1>1, <1>2, <1>3, <1>4, <1>5 DEF Next

\* Calls, errors, yields and resumptions come to what LuaThreads promises.
THEOREM ThreadsImplemented ==
  ASSUME NoMetamethodsInHooks
  PROVE  Spec => ImplementsThreads
<1>1. IInv /\ IInv' /\ [Next]_vars => [Threads!Next]_(Threads!vars)
  BY StepMaps DEF Maps
<1> QED BY <1>1, Invariance, InitMaps, PTL DEF Spec, ImplementsThreads, Threads!Spec
=============================================================================
