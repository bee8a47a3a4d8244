---------------------------- MODULE LuaDo_safety ----------------------------
(***************************************************************************)
(* Calls, errors and coroutines of ldo.c keep the inductive invariant, and *)
(* with it the properties that the runs of LuaDo_MC check on small         *)
(* instances: here for every set of threads, every limit and every depth.  *)
(* First what the operations are made of: the calls, the returns, the      *)
(* errors that drop activations or let a suspended pcall go on, and a      *)
(* coroutine that begins, yields, goes on, fails or ends.                  *)
(***************************************************************************)
EXTENDS LuaDo_proofs

-----------------------------------------------------------------------------
(* The calls the code makes, one activation at a time.                     *)

\* A field of one thread is assigned.
LEMMA Put ==
  ASSUME NEW S, NEW g \in [Thread -> S], NEW t \in Thread, NEW x \in S
  PROVE  /\ [g EXCEPT ![t] = x] \in [Thread -> S]
         /\ [g EXCEPT ![t] = x][t] = x
         /\ OnlyFor(t, [g EXCEPT ![t] = x], g)
BY DEF OnlyFor

\* Assigning what is there already changes nothing.
LEMMA PutSame ==
  ASSUME NEW S, NEW g \in [Thread -> S], NEW t \in Thread
  PROVE  [g EXCEPT ![t] = g[t]] = g
OBVIOUS

\* What the invariant says of the running thread's fields and of their types.
Parts(c, f, st, ny, nc, ef, ah, un) ==
  /\ c \in Seq(Activation) /\ Len(c) \in Nat \ {0} /\ Len(c) \in 1 .. Len(c)
  /\ c[Len(c)] \in Activation /\ c[Len(c)].th \in Thread /\ c[Len(c)].level \in Nat
  /\ f \in [Thread -> Seq(CallInfo)]
  /\ f[c[Len(c)].th] \in Seq(CallInfo) /\ Len(f[c[Len(c)].th]) \in Nat
  /\ st \in [Thread -> {"LUA_OK", "LUA_YIELD"} \cup Errors]
  /\ ny \in [Thread -> Nat] /\ ny[c[Len(c)].th] \in Nat
  /\ nc \in [Thread -> Nat] /\ nc[c[Len(c)].th] \in Nat
  /\ ef \in [Thread -> Nat] /\ ef[c[Len(c)].th] \in Nat
  /\ ah \in [Thread -> BOOLEAN] /\ ah[c[Len(c)].th] \in BOOLEAN
  /\ un \in SUBSET Thread
  /\ CCallsIn(c, Len(c)) \in Nat

\* The types of what a configuration consists of.
LEMMA PartsRight ==
  ASSUME NEW c, NEW f, NEW st, NEW ny, NEW nc, NEW ef, NEW ah, NEW un,
         Inv(c, f, st, ny, nc, ef, ah, un)
  PROVE  Parts(c, f, st, ny, nc, ef, ah, un)
<1>1. c \in Seq(Activation) /\ Stack(c)
  BY DEF Inv, Typed
<1>2. /\ Len(c) \in Nat \ {0} /\ Len(c) \in 1 .. Len(c)
      /\ c[Len(c)] \in Activation /\ c[Len(c)].th \in Thread /\ c[Len(c)].level \in Nat
  BY <1>1, StackParts
<1>3. CCallsIn(c, Len(c)) \in Nat
  BY <1>2, NextCounts
<1>4. /\ f \in [Thread -> Seq(CallInfo)]
      /\ st \in [Thread -> {"LUA_OK", "LUA_YIELD"} \cup Errors]
      /\ ny \in [Thread -> Nat] /\ nc \in [Thread -> Nat] /\ ef \in [Thread -> Nat]
      /\ ah \in [Thread -> BOOLEAN] /\ un \in SUBSET Thread
  BY DEF Inv, Typed
<1>5. f[c[Len(c)].th] \in Seq(CallInfo) /\ Len(f[c[Len(c)].th]) \in Nat
  BY <1>2, <1>4
<1>6. /\ ny[c[Len(c)].th] \in Nat /\ nc[c[Len(c)].th] \in Nat
      /\ ef[c[Len(c)].th] \in Nat /\ ah[c[Len(c)].th] \in BOOLEAN
  BY <1>2, <1>4
<1> QED BY <1>1, <1>2, <1>3, <1>4, <1>5, <1>6 DEF Parts

\* luaD_call is called: it counts itself.
CallRecord(t, level, caller, noyield) ==
  [fn |-> "luaD_call", th |-> t, level |-> level, noyield |-> noyield,
   caller |-> caller, entered |-> FALSE]

\* What luaD_call does before it calls its function: a is its activation.
CallOf(c, f, ny, nc, t, level, caller, noyield, a, d, ny2, nc2) ==
  /\ t = c[Len(c)].th /\ level = Len(f[t]) /\ noyield \in BOOLEAN
  /\ caller \in {"callk", "pcallk", "f_call", "luaT_callTM", "luaG_errormsg"}
  /\ a = CallRecord(t, level, caller, noyield)
  /\ CallFrom(c[Len(c)], a) /\ CCallsIn(c, Len(c)) < ErrorCCalls
  /\ ~noyield => CanInterrupt(a, f[t][level], PcallsOf(c, t, Len(c)))
  /\ d = Append(c, a)
  /\ ny2 = IF noyield THEN [ny EXCEPT ![t] = ny[t] + 1] ELSE ny
  /\ nc2 = [nc EXCEPT ![t] = nc[t] + 1]

\* luaD_call is pushed.
LEMMA CallPushed ==
  ASSUME NEW c, NEW f, NEW st, NEW ny, NEW nc, NEW ef, NEW ah, NEW un,
         Inv(c, f, st, ny, nc, ef, ah, un), NEW t, NEW level, NEW caller, NEW noyield,
         NEW a, NEW d, NEW ny2, NEW nc2,
         CallOf(c, f, ny, nc, t, level, caller, noyield, a, d, ny2, nc2)
  PROVE  Inv(d, f, st, ny2, nc2, ef, ah, un)
<1> USE DEF CallOf
<1>1. Parts(c, f, st, ny, nc, ef, ah, un)
  BY PartsRight
<1>2. /\ c \in Seq(Activation) /\ t \in Thread /\ level \in Nat
      /\ ny \in [Thread -> Nat] /\ ny[t] \in Nat
      /\ nc \in [Thread -> Nat] /\ nc[t] \in Nat
  BY <1>1 DEF Parts
<1>3. /\ a.fn = "luaD_call" /\ a.th = t /\ a.level = level /\ a.noyield = noyield
      /\ a.caller = caller /\ a.entered = FALSE /\ a \in Activation
  BY <1>2 DEF CallRecord, Activation
<1>4. nc2 \in [Thread -> Nat] /\ nc2[t] = nc[t] + 1 /\ OnlyFor(t, nc2, nc)
  BY <1>2 DEF OnlyFor
<1>5. /\ ny2 \in [Thread -> Nat] /\ OnlyFor(t, ny2, ny)
      /\ ny2[t] = IF noyield THEN ny[t] + 1 ELSE ny[t]
  BY <1>2, Put DEF OnlyFor
<1>6. Pushed(c, d, a) /\ d \in Seq(Activation)
  BY <1>2, <1>3, PushIsPush
<1>7. Typed(d, f, st, ny2, nc2, ef, ah, un)
  BY <1>1, <1>4, <1>5, <1>6 DEF Parts, Typed
<1>8. CountsAs(a, ny, nc, ah, ny2, nc2, ah)
  BY <1>3, <1>4, <1>5 DEF CountsAs, Bars
<1>9. LiesOn(c[Len(c)], a)
  BY <1>3 DEF LiesOn
<1>10. a.noyield \/ CanInterrupt(a, f[t][a.level], PcallsOf(c, t, Len(c)))
  BY <1>3
<1>11. SamePush(c, f, ny, nc, ef, ah, d, a, ny2, nc2, ef, ah)
  BY <1>3, <1>4, <1>5, <1>6, <1>8, <1>9, <1>10 DEF SamePush, OnlyFor
<1> QED BY <1>7, <1>11, PushSame

\* luaD_pcall is called: it saves what it puts back after an error, and sets the
\* message handler.
PcallRecord(t, level, ny, nc, ef, ah, e) ==
  [fn |-> "luaD_pcall", th |-> t, level |-> level, nny |-> ny, nCcalls |-> nc,
   errfunc |-> ef, allowhook |-> ah, ef |-> e]

\* What luaD_pcall does before it calls its function: a is its activation.
PcallOf(c, f, ny, nc, ef, ah, t, level, e, a, d, ef2) ==
  /\ t = c[Len(c)].th /\ level = Len(f[t]) /\ e \in Nat
  /\ c[Len(c)].fn \in {"C", "hook", "f_parser", "GCTM", "luaD_protectedparser"}
  /\ c[Len(c)].level = level
  /\ a = PcallRecord(t, level, ny[t], nc[t], ef[t], ah[t], e)
  /\ d = Append(c, a) /\ ef2 = [ef EXCEPT ![t] = e]

\* luaD_pcall is pushed.
LEMMA PcallPushed ==
  ASSUME NEW c, NEW f, NEW st, NEW ny, NEW nc, NEW ef, NEW ah, NEW un,
         Inv(c, f, st, ny, nc, ef, ah, un), NEW t, NEW level, NEW e, NEW a, NEW d, NEW ef2,
         PcallOf(c, f, ny, nc, ef, ah, t, level, e, a, d, ef2)
  PROVE  Inv(d, f, st, ny, nc, ef2, ah, un)
<1> USE DEF PcallOf
<1>1. Parts(c, f, st, ny, nc, ef, ah, un)
  BY PartsRight
<1>2. /\ c \in Seq(Activation) /\ t \in Thread /\ level \in Nat
      /\ ny[t] \in Nat /\ nc[t] \in Nat /\ ef[t] \in Nat /\ ah[t] \in BOOLEAN
      /\ ef \in [Thread -> Nat]
  BY <1>1 DEF Parts
<1>3. /\ a.fn = "luaD_pcall" /\ a.th = t /\ a.level = level /\ a.nny = ny[t]
      /\ a.nCcalls = nc[t] /\ a.errfunc = ef[t] /\ a.allowhook = ah[t] /\ a.ef = e
      /\ a \in Activation
  BY <1>2 DEF PcallRecord, Activation
<1>4. ef2 \in [Thread -> Nat] /\ ef2[t] = e /\ OnlyFor(t, ef2, ef)
  BY <1>2 DEF OnlyFor
<1>5. Pushed(c, d, a) /\ d \in Seq(Activation)
  <2>1. c \in Seq(Activation) /\ a \in Activation /\ d = Append(c, a)
    BY <1>2, <1>3
  <2> HIDE DEF PcallOf
  <2> QED BY <2>1, PushIsPush
<1>6. Typed(d, f, st, ny, nc, ef2, ah, un)
  BY <1>1, <1>4, <1>5 DEF Parts, Typed
<1>7. CountsAs(a, ny, nc, ah, ny, nc, ah)
  BY <1>3 DEF CountsAs, Bars
<1>8. LiesOn(c[Len(c)], a)
  BY <1>3 DEF LiesOn
<1>9. CCallsIn(c, Len(c)) < ErrorCCalls
  <2>1. Stack(c) /\ StackBounded(c)
    BY DEF Inv
  <2>2. ~Waits(c[Len(c)])
    BY DEF Waits
  <2> QED BY <1>2, <2>1, <2>2, NotFull
<1>10. SamePush(c, f, ny, nc, ef, ah, d, a, ny, nc, ef2, ah)
  BY <1>3, <1>4, <1>5, <1>7, <1>8, <1>9 DEF SamePush, OnlyFor
<1> QED BY <1>6, <1>10, PushSame

\* A hook or a finalizer: hooks are off while it runs.
LEMMA AsidePushed ==
  ASSUME NEW c, NEW f, NEW st, NEW ny, NEW nc, NEW ef, NEW ah, NEW un,
         Inv(c, f, st, ny, nc, ef, ah, un), NEW t, t = c[Len(c)].th,
         NEW a \in Activation, a.fn \in {"hook", "GCTM"}, a.th = t,
         a.level = Len(f[t]), LiesOn(c[Len(c)], a), CCallsIn(c, Len(c)) < ErrorCCalls,
         IF a.fn = "hook" THEN ah[t] ELSE a.oldah = ah[t],
         NEW d, d = Append(c, a), NEW ah2, ah2 = [ah EXCEPT ![t] = FALSE]
  PROVE  Inv(d, f, st, ny, nc, ef, ah2, un)
<1>1. Parts(c, f, st, ny, nc, ef, ah, un)
  BY PartsRight
<1>2. c \in Seq(Activation) /\ t \in Thread /\ ah \in [Thread -> BOOLEAN]
  BY <1>1 DEF Parts
<1>3. ah2 \in [Thread -> BOOLEAN] /\ ah2[t] = FALSE /\ OnlyFor(t, ah2, ah)
  BY <1>2 DEF OnlyFor
<1>4. Pushed(c, d, a) /\ d \in Seq(Activation)
  BY <1>2, PushIsPush
<1>5. Typed(d, f, st, ny, nc, ef, ah2, un)
  BY <1>1, <1>3, <1>4 DEF Parts, Typed
<1>6. CountsAs(a, ny, nc, ah, ny, nc, ah2)
  BY <1>3 DEF CountsAs, Bars
<1>7. SamePush(c, f, ny, nc, ef, ah, d, a, ny, nc, ef, ah2)
  BY <1>3, <1>4, <1>6 DEF SamePush, OnlyFor
<1> QED BY <1>5, <1>7, PushSame

\* What luaD_protectedparser does before it calls luaD_pcall, and f_parser.
ParserOf(c, f, ny, t, a, d, ny2) ==
  /\ t = c[Len(c)].th
  /\ a \in Activation /\ a.fn \in {"luaD_protectedparser", "f_parser"} /\ a.th = t
  /\ a.level = Len(f[t]) /\ LiesOn(c[Len(c)], a)
  /\ a.fn = "f_parser" => Len(c) > 2 /\ c[Len(c) - 1].fn = "luaD_protectedparser"
  /\ CCallsIn(c, Len(c)) < ErrorCCalls /\ d = Append(c, a)
  /\ a.fn = "luaD_protectedparser" => ny2 = [ny EXCEPT ![t] = ny[t] + 1]
  /\ a.fn = "f_parser" => ny2 = ny

\* The parser: it is not to be interrupted.
LEMMA ParserPushed ==
  ASSUME NEW c, NEW f, NEW st, NEW ny, NEW nc, NEW ef, NEW ah, NEW un,
         Inv(c, f, st, ny, nc, ef, ah, un), NEW t, NEW a, NEW d, NEW ny2,
         ParserOf(c, f, ny, t, a, d, ny2)
  PROVE  Inv(d, f, st, ny2, nc, ef, ah, un)
<1> USE DEF ParserOf
<1>1. Parts(c, f, st, ny, nc, ef, ah, un)
  BY PartsRight
<1>2. c \in Seq(Activation) /\ t \in Thread /\ ny \in [Thread -> Nat] /\ ny[t] \in Nat
  BY <1>1 DEF Parts
<1>3. /\ ny2 \in [Thread -> Nat] /\ OnlyFor(t, ny2, ny)
      /\ ny2[t] = IF a.fn = "luaD_protectedparser" THEN ny[t] + 1 ELSE ny[t]
  <2>1. CASE a.fn = "f_parser"
    <3>1. ny2 = ny
      BY <2>1
    <3> QED BY <1>2, <2>1, <3>1 DEF OnlyFor
  <2>2. CASE a.fn = "luaD_protectedparser"
    <3>1. ny2 = [ny EXCEPT ![t] = ny[t] + 1] /\ ny[t] + 1 \in Nat
      BY <1>2, <2>2
    <3> HIDE DEF ParserOf
    <3>2. ny2 \in [Thread -> Nat] /\ OnlyFor(t, ny2, ny) /\ ny2[t] = ny[t] + 1
      BY <1>2, <3>1 DEF OnlyFor
    <3> QED BY <2>2, <3>2
  <2> QED BY <2>1, <2>2
<1>4. Pushed(c, d, a) /\ d \in Seq(Activation)
  BY <1>2, PushIsPush
<1>5. Typed(d, f, st, ny2, nc, ef, ah, un)
  BY <1>1, <1>3, <1>4 DEF Parts, Typed
<1>6. CountsAs(a, ny, nc, ah, ny2, nc, ah)
  BY <1>3 DEF CountsAs, Bars
<1>7. SamePush(c, f, ny, nc, ef, ah, d, a, ny2, nc, ef, ah)
  BY <1>3, <1>4, <1>6 DEF SamePush, OnlyFor
<1> QED BY <1>5, <1>7, PushSame

-----------------------------------------------------------------------------
(* Errors.                                                                 *)

\* The lua_longjmp of the running thread: all activations above it are its own.
LEMMA Jumps ==
  ASSUME NEW c \in Seq(Activation), Stack(c), Len(c) > 1,
         NEW P, P = {j \in 1 .. Len(c) : /\ c[j].fn \in {"luaD_pcall", "lua_resume"}
                                         /\ c[j].th = c[Len(c)].th}
  PROVE  /\ P # {} /\ Max(P) \in P /\ Max(P) \in 2 .. Len(c)
         /\ \A i \in P : i <= Max(P)
         /\ \A i \in Max(P) .. Len(c) : c[i].th = c[Len(c)].th
         /\ Max(P) - 1 \in 1 .. Len(c) /\ Max(P) - 1 < Len(c)
         /\ (Max(P) - 1) + 1 = Max(P)
<1> DEFINE t == c[Len(c)].th
<1>1. /\ Len(c) \in Nat /\ Len(c) \in 1 .. Len(c) /\ 1 \in 1 .. Len(c)
      /\ c[1].fn = "C" /\ c[1].th = MainThread /\ c[1].level = 0
      /\ 2 \in 2 .. Len(c) /\ 2 \in 1 .. Len(c)
  BY StackParts
<1>2. P # {}
  <2>1. CASE t # MainThread
    <3>1. PICK j \in 1 .. Len(c) : c[j].fn = "lua_resume" /\ c[j].th = t
      BY <1>1, <2>1, PartBegins
    <3> QED BY <3>1
  <2>2. CASE t = MainThread
    <3>1. \A k \in 1 .. Len(c) : c[k].th = t
      BY <1>1, <2>2 DEF Stack
    <3>2. c[2].th = t
      BY <1>1, <3>1
    <3>3. c[2].th = c[2 - 1].th
      BY <1>1, <3>1
    <3>4. c[2].fn # "lua_resume" /\ LiesOn(c[2 - 1], c[2])
      BY <1>1, <3>3 DEF Stack
    <3>5. LiesOn(c[1], c[2])
      BY <3>4
    <3>6. c[2].fn # "luaD_call"
      <4>1. ~CallFrom(c[1], c[2])
        BY <1>1 DEF CallFrom, UsesApi, RunsCode, Waits
      <4> QED BY <3>5, <4>1 DEF LiesOn
    <3>7. c[2].fn = "luaD_pcall"
      BY <1>1, <3>4, <3>5, <3>6 DEF LiesOn, UsesApi, RunsCode, Waits
    <3> QED BY <1>1, <3>2, <3>7
  <2> QED BY <2>1, <2>2
<1>3. Max(P) \in P /\ \A i \in P : i <= Max(P)
  <2>1. P \in SUBSET (1 .. Len(c))
    OBVIOUS
  <2> QED BY <1>1, <1>2, <2>1, LastPosition
<1>4. Max(P) \in 1 .. Len(c) /\ c[Max(P)].th = t /\ Max(P) # 1
  BY <1>1, <1>3
<1>5. Max(P) \in 2 .. Len(c)
  BY <1>1, <1>4
<1>6. \A i \in Max(P) .. Len(c) : c[i].th = t
  BY <1>1, <1>4 DEF Stack
<1> QED BY <1>1, <1>2, <1>3, <1>5, <1>6

\* What called luaD_pcall: GCTM gets the status.
LEMMA PcallCut ==
  ASSUME NEW c \in Seq(Activation), NEW n \in 1 .. Len(c),
         NEW st \in {"LUA_OK"} \cup Errors, NEW d,
         d = IF c[n].fn = "GCTM" THEN [SubSeq(c, 1, n) EXCEPT ![n].status = st]
             ELSE SubSeq(c, 1, n)
  PROVE  Cut(c, d, n)
<1>1. CASE c[n].fn = "GCTM"
  <2>1. Cut(c, [SubSeq(c, 1, n) EXCEPT ![n].status = st], n)
    BY <1>1, StatusIsCut
  <2> QED BY <1>1, <2>1
<1>2. CASE c[n].fn # "GCTM"
  <2>1. Cut(c, SubSeq(c, 1, n), n)
    BY CutIsCut
  <2> QED BY <1>2, <2>1
<1> QED BY <1>1, <1>2

\* What luaD_pcall puts back when it returns with status st1: j is its activation.
PcallEnds(c, f, ny, ah, j, st1, d, f2, ny2, ah2) ==
  /\ j \in 2 .. Len(c) /\ c[j].fn = "luaD_pcall" /\ c[j].th = c[Len(c)].th
  /\ st1 \in {"LUA_OK"} \cup Errors /\ (st1 = "LUA_OK" => j = Len(c)) /\ Cut(c, d, j - 1)
  /\ IF st1 = "LUA_OK" THEN f2 = f /\ ny2 = ny /\ ah2 = ah
     ELSE /\ f2 = [f EXCEPT ![c[j].th] = SubSeq(f[c[j].th], 1, c[j].level)]
          /\ ny2 = [ny EXCEPT ![c[j].th] = c[j].nny]
          /\ ah2 = [ah EXCEPT ![c[j].th] = c[j].allowhook]

\* luaD_pcall, activation j, returns st1: after an error it puts back what it
\* has saved.
LEMMA PcallReturns ==
  ASSUME NEW c, NEW f, NEW st, NEW ny, NEW nc, NEW ef, NEW ah, NEW un,
         Inv(c, f, st, ny, nc, ef, ah, un), NEW j, NEW st1, NEW d, NEW f2, NEW ny2, NEW ah2,
         PcallEnds(c, f, ny, ah, j, st1, d, f2, ny2, ah2)
  PROVE  Inv(d, f2, st, ny2, [nc EXCEPT ![c[j].th] = c[j].nCcalls],
             [ef EXCEPT ![c[j].th] = c[j].errfunc], ah2, un)
<1> USE DEF PcallEnds
<1> DEFINE t == c[j].th
           n == j - 1
           level == c[j].level
           nc2 == [nc EXCEPT ![t] = c[j].nCcalls]
           ef2 == [ef EXCEPT ![t] = c[j].errfunc]
<1>1. Parts(c, f, st, ny, nc, ef, ah, un)
  BY PartsRight
<1>2. /\ Stack(c) /\ Frames(c, f) /\ AllSaved(c) /\ NnyCounted(c, ny)
      /\ Handlers(c, f, st, ef) /\ HooksRight(c, st, ah) /\ ThreadsRight(c, f, st, un)
      /\ CallsCounted(c, nc)
  BY DEF Inv
<1>3. /\ c \in Seq(Activation) /\ Len(c) \in Nat /\ Len(c) \in 1 .. Len(c)
      /\ f \in [Thread -> Seq(CallInfo)] /\ ny \in [Thread -> Nat]
      /\ nc \in [Thread -> Nat] /\ ef \in [Thread -> Nat] /\ ah \in [Thread -> BOOLEAN]
  BY <1>1 DEF Parts
<1>4. /\ j \in 1 .. Len(c) /\ n \in 1 .. Len(c) /\ n < Len(c) /\ n + 1 = j
      /\ n \in Nat /\ j \in Nat /\ j - 1 = n
  BY <1>3
<1>5. /\ c[j] \in Activation /\ t \in Thread /\ level \in Nat /\ c[j].nny \in Nat
      /\ c[j].nCcalls \in Nat /\ c[j].errfunc \in Nat /\ c[j].allowhook \in BOOLEAN
      /\ f[t] \in Seq(CallInfo) /\ c[n] \in Activation
  BY <1>2, <1>3, <1>4, StackParts, ActivationFields
<1>6. /\ c[n].th = t /\ LiesOn(c[n], c[j])
  <2>1. c[j].fn # "lua_resume"
    OBVIOUS
  <2> QED BY <1>2, <2>1 DEF Stack
<1>7. c[n].fn # "lua_resume"
  BY <1>6 DEF LiesOn
<1>8. /\ c[j].nCcalls = CCallsIn(c, n) /\ c[j].nny = NnyIn(c, t, n)
      /\ c[j].allowhook <=> AsideOf(c, t, n) = {}
  <2>1. /\ c[j].nCcalls = CCallsIn(c, j) /\ c[j].nny = NnyIn(c, t, j)
        /\ c[j].allowhook <=> AsideOf(c, t, n) = {}
    BY <1>2, <1>4 DEF AllSaved, Saved
  <2>2. CCallsIn(c, n + 1) = CCallsIn(c, n) /\ NnyIn(c, t, n + 1) = NnyIn(c, t, n)
    <3>1. c[n + 1].fn \notin {"luaD_call", "lua_resume"} /\ ~Bars(c[n + 1])
      BY <1>4 DEF Bars
    <3> QED BY <1>4, <3>1, NextCounts
  <2> QED BY <1>4, <2>1, <2>2
<1>9. /\ LastFrame(c, f, n) = level /\ level <= Len(f[t])
  <2>1. ~LastOfThread(c, n)
    BY <1>4, <1>6 DEF LastOfThread
  <2>2. LastFrame(c, f, n) = Base(c[j])
    BY <1>4, <2>1 DEF LastFrame
  <2> QED BY <1>2, <1>4, <2>2 DEF Base, Frames
<1>10. st1 = "LUA_OK" => Len(f[t]) = level
  <2>1. SUFFICES ASSUME st1 = "LUA_OK" PROVE Len(f[t]) = level
    OBVIOUS
  <2>2. j = Len(c) /\ LastOfThread(c, j)
    BY <2>1 DEF LastOfThread
  <2> QED BY <1>2, <1>4, <2>2 DEF Frames
<1>11. /\ f2 \in [Thread -> Seq(CallInfo)] /\ OnlyFor(t, f2, f)
       /\ Len(f2[t]) = level /\ \A i \in 1 .. level : f2[t][i] = f[t][i]
  <2>1. CASE st1 = "LUA_OK"
    BY <1>3, <1>10, <2>1 DEF OnlyFor
  <2>2. CASE st1 # "LUA_OK"
    <3>1. level \in 0 .. Len(f[t])
      BY <1>5, <1>9
    <3>2. /\ SubSeq(f[t], 1, level) \in Seq(CallInfo) /\ Len(SubSeq(f[t], 1, level)) = level
          /\ \A i \in 1 .. level : SubSeq(f[t], 1, level)[i] = f[t][i]
      BY <1>5, <3>1, FirstOnes
    <3>3. f2 = [f EXCEPT ![t] = SubSeq(f[t], 1, level)]
      BY <2>2
    <3> HIDE DEF t, level
    <3> QED BY <1>3, <1>5, <3>2, <3>3 DEF OnlyFor
  <2> QED BY <2>1, <2>2
<1>12. st[t] = "LUA_OK"
  BY <1>2, <1>3, <1>4, Running
<1>13. /\ ny2 \in [Thread -> Nat] /\ OnlyFor(t, ny2, ny) /\ ny2[t] = NnyIn(c, t, n)
  <2>1. CASE st1 = "LUA_OK"
    <3>1. ny[t] = NnyIn(c, t, Len(c))
      BY <1>2, <1>3, <1>12, Counted
    <3>2. NnyIn(c, t, n + 1) = NnyIn(c, t, n)
      <4>1. ~Bars(c[n + 1])
        BY <1>4 DEF Bars
      <4> QED BY <1>4, <4>1, NextCounts
    <3>3. n + 1 = Len(c)
      BY <1>4, <2>1
    <3> QED BY <1>3, <2>1, <3>1, <3>2, <3>3 DEF OnlyFor
  <2>2. CASE st1 # "LUA_OK"
    BY <1>3, <1>5, <1>8, <2>2 DEF OnlyFor
  <2> QED BY <2>1, <2>2
<1>14. /\ ah2 \in [Thread -> BOOLEAN] /\ OnlyFor(t, ah2, ah)
       /\ ah2[t] <=> AsideOf(c, t, n) = {}
  <2>1. CASE st1 = "LUA_OK"
    <3>1. ah[t] <=> AsideOf(c, t, Len(c)) = {}
      BY <1>2, <1>3, <1>12, Counted
    <3>2. AsideOf(c, t, Len(c)) = AsideOf(c, t, n)
      <4>1. n + 1 = Len(c) /\ \A i \in 1 .. Len(c) : i = Len(c) \/ i \in 1 .. n
        BY <1>3, <1>4, <2>1
      <4>2. \A i \in 1 .. n : i \in 1 .. Len(c)
        BY <1>3, <1>4
      <4>3. c[Len(c)].fn \notin {"hook", "GCTM"}
        BY <2>1
      <4> QED BY <4>1, <4>2, <4>3 DEF AsideOf
    <3> QED BY <1>3, <2>1, <3>1, <3>2 DEF OnlyFor
  <2>2. CASE st1 # "LUA_OK"
    <3>1. ah2 = [ah EXCEPT ![t] = c[j].allowhook]
      BY <2>2
    <3>2. /\ ah2 \in [Thread -> BOOLEAN] /\ OnlyFor(t, ah2, ah) /\ ah2[t] = c[j].allowhook
      BY <1>3, <1>5, <3>1 DEF OnlyFor
    <3> QED BY <1>8, <3>2
  <2> QED BY <2>1, <2>2
<1>15. /\ nc2 \in [Thread -> Nat] /\ OnlyFor(t, nc2, nc) /\ nc2[t] = CCallsIn(c, n)
  BY <1>3, <1>5, <1>8 DEF OnlyFor
<1>16. /\ ef2 \in [Thread -> Nat] /\ OnlyFor(t, ef2, ef) /\ ef2[t] = c[j].errfunc
  BY <1>3, <1>5 DEF OnlyFor
<1>17. Cut(c, d, n) /\ d \in Seq(Activation)
  BY DEF Cut
<1> HIDE DEF nc2, ef2
<1>18. Typed(d, f2, st, ny2, nc2, ef2, ah2, un)
  BY <1>1, <1>11, <1>13, <1>14, <1>15, <1>16, <1>17 DEF Parts, Typed
<1>19. ef2[t] = HandlerAt(c, f2, t, n, Len(f2[t]))
  <2>1. c[j].errfunc = HandlerAt(c, f, t, n, level)
    <3>1. SavedHandler(c, f, j)
      BY <1>2, <1>4, HandlersParts
    <3> QED BY <3>1 DEF SavedHandler
  <2>2. FrameHandler(f2[t], level) = FrameHandler(f[t], level)
    <3>1. f2[t] \in Seq(CallInfo)
      BY <1>5, <1>11
    <3>2. SameProtected(f2[t], f[t], level)
      <4>1. \A i \in 1 .. level : i \in Ypcalls(f2[t]) <=> i \in Ypcalls(f[t])
        <5>1. \A i \in 1 .. level : i \in DOMAIN f[t] /\ i \in DOMAIN f2[t]
          <6>1. DOMAIN f[t] = 1 .. Len(f[t]) /\ DOMAIN f2[t] = 1 .. level /\ Len(f[t]) \in Nat
            BY <1>5, <1>11, <3>1, LenProperties
          <6> QED BY <1>5, <1>9, <6>1
        <5> QED BY <1>11, <5>1 DEF Ypcalls
      <4> QED BY <1>11, <4>1 DEF SameProtected
    <3>3. \A i \in Ypcalls(f2[t]) \cup Ypcalls(f[t]) : i <= level => i \in 1 .. level
      <4>1. \A i \in Ypcalls(f2[t]) : i \in Nat \ {0}
        BY <3>1, YpcallsAre
      <4>2. \A i \in Ypcalls(f[t]) : i \in Nat \ {0}
        BY <1>5, YpcallsAre
      <4> QED BY <1>5, <4>1, <4>2
    <3> HIDE DEF t, level
    <3> QED BY <1>5, <3>1, <3>2, <3>3, SameHandler
  <2> QED BY <1>11, <1>16, <2>1, <2>2 DEF HandlerAt
<1>20. FramesLeft(c, f, n, f2)
  <2>1. c[n + 1].fn # "luaD_call"
    BY <1>4
  <2>2. c[Len(c)].th = t
    OBVIOUS
  <2> HIDE DEF t, level, n
  <2> QED BY <1>9, <1>11, <2>1, <2>2 DEF FramesLeft
<1>21. ControlBack(c, f, ny, nc, ef, ah, d, n, f2, ny2, nc2, ef2, ah2)
  <2>1. c[Len(c)].th = t
    OBVIOUS
  <2> HIDE DEF t, level, n
  <2> QED BY <1>4, <1>6, <1>7, <1>11, <1>13, <1>14, <1>15, <1>16, <1>17, <1>19, <1>20, <2>1
    DEF ControlBack
<1>22. Inv(d, f2, st, ny2, nc2, ef2, ah2, un)
  BY <1>18, <1>21, CutStep
<1> QED BY <1>22 DEF nc2, ef2

-----------------------------------------------------------------------------
(* Returns.                                                                *)

\* The running activation returns to the one below it: what its code undoes.
Returning(c, f, ny, nc, ef, ah, f2, ny2, nc2, ef2, ah2) ==
  LET a == c[Len(c)]
      t == c[Len(c)].th
  IN  /\ Len(c) > 1 /\ a.fn \notin {"lua_resume", "luaD_pcall"}
      /\ OnlyFor(t, f2, f) /\ OnlyFor(t, ny2, ny) /\ OnlyFor(t, nc2, nc)
      /\ OnlyFor(t, ef2, ef) /\ OnlyFor(t, ah2, ah)
      /\ FramesLeft(c, f, Len(c) - 1, f2)
      /\ nc2[t] = IF a.fn = "luaD_call" THEN nc[t] - 1 ELSE nc[t]
      /\ ny2[t] = IF Bars(a) THEN ny[t] - 1 ELSE ny[t]
      /\ IF a.fn = "hook" THEN ah2[t]
         ELSE ah2[t] <=> IF a.fn = "GCTM" THEN a.oldah ELSE ah[t]
      /\ ef2[t] = IF a.fn = "luaD_call" /\ a.caller = "pcallk"
                  THEN f[t][a.level].old_errfunc ELSE ef[t]

\* The handler of the frames up to d, when none above n is a protected call.
LEMMA NoneAbove ==
  ASSUME NEW g, NEW n, NEW d, \A i \in Ypcalls(g) : i <= n <=> i <= d
  PROVE  FrameHandler(g, n) = FrameHandler(g, d)
<1>1. {i \in Ypcalls(g) : i <= n} = {i \in Ypcalls(g) : i <= d}
  OBVIOUS
<1> QED BY <1>1 DEF FrameHandler

\* The frames an activation leaves are no protected calls.
LEMMA NothingProtected ==
  ASSUME NEW c \in Seq(Activation), Stack(c), Len(c) > 1,
         c[Len(c)].fn # "lua_resume",
         NEW f \in [Thread -> Seq(CallInfo)], Frames(c, f), Interruptible(c, f)
  PROVE  \A i \in Ypcalls(f[c[Len(c)].th]) : i <= LastFrame(c, f, Len(c) - 1)
<1> DEFINE a == c[Len(c)]
           t == c[Len(c)].th
           m == LastFrame(c, f, Len(c) - 1)
<1>1. /\ Len(c) \in Nat /\ Len(c) \in 1 .. Len(c) /\ Len(c) \in 2 .. Len(c)
      /\ Len(c) - 1 \in 1 .. Len(c) /\ Len(c) - 1 # Len(c) /\ (Len(c) - 1) + 1 = Len(c)
      /\ a \in Activation /\ t \in Thread /\ a.level \in Nat /\ f[t] \in Seq(CallInfo)
  BY StackParts
<1>2. c[Len(c) - 1].th = t
  BY <1>1 DEF Stack
<1>3. m = Base(a)
  BY <1>1, <1>2 DEF LastFrame, LastOfThread
<1>4. /\ LastOfThread(c, Len(c)) /\ LastFrame(c, f, Len(c)) = Len(f[t])
  BY <1>1 DEF LastOfThread, LastFrame
<1>5. /\ Len(f[t]) \in Nat
      /\ \A i \in Ypcalls(f[t]) : i \in 1 .. Len(f[t]) /\ ~f[t][i].lua /\ f[t][i].ypcall
  BY <1>1, YpcallsAre
<1> SUFFICES ASSUME NEW i \in Ypcalls(f[t]) PROVE i <= m
  OBVIOUS
<1>9. i \in Nat /\ i <= Len(f[t]) /\ Len(f[t]) \in Nat /\ a.level \in Nat /\ i \in 1 .. Len(f[t])
  <2>1. i \in 1 .. Len(f[t]) /\ Len(f[t]) \in Nat
    BY <1>5
  <2>2. i \in Nat /\ i <= Len(f[t])
    BY <2>1
  <2> QED BY <1>1, <2>1, <2>2
<1> HIDE DEF m
<1>6. CASE a.fn = "luaV_execute"
  <2>1. \A k \in a.level .. Len(f[t]) : f[t][k].lua
    BY <1>1, <1>4, <1>6 DEF Frames
  <2>2. i \notin a.level .. Len(f[t])
    BY <1>5, <2>1
  <2>3. Base(a) = a.level - 1
    BY <1>6 DEF Base
  <2> QED BY <1>3, <1>9, <2>2, <2>3
<1>7. CASE a.fn = "C"
  <2>1. Len(f[t]) = a.level
    BY <1>1, <1>4, <1>7 DEF Frames
  <2>2. a.level > 0 => ~f[t][a.level].ypcall
    <3>1. \A j \in 1 .. Len(c) :
            c[j].fn = "C" /\ c[j].level > 0 /\ f[c[j].th][c[j].level].ypcall => j < Len(c)
      BY DEF Interruptible
    <3>2. Len(c) \in 1 .. Len(c) /\ ~(Len(c) < Len(c))
      <4>1. Len(c) \in Nat /\ Len(c) \in 1 .. Len(c)
        BY <1>1
      <4> QED BY <4>1
    <3> QED BY <1>7, <3>1, <3>2
  <2>3. i # a.level
    <3>1. f[t][i].ypcall /\ i > 0
      BY <1>5, <1>9
    <3> QED BY <2>2, <3>1
  <2>4. Base(a) = a.level - 1
    BY <1>7 DEF Base
  <2> QED BY <1>3, <1>9, <2>1, <2>3, <2>4
<1>8. CASE a.fn \notin {"luaV_execute", "C"}
  <2>1. Len(f[t]) = a.level
    BY <1>1, <1>4, <1>8 DEF Frames
  <2>2. Base(a) = a.level
    BY <1>8 DEF Base
  <2> QED BY <1>3, <1>9, <2>1, <2>2
<1> QED BY <1>6, <1>7, <1>8

\* The message handler that is in use after the return.
LEMMA HandlerBack ==
  ASSUME NEW c \in Seq(Activation), Stack(c), Len(c) > 1,
         c[Len(c)].fn \notin {"lua_resume", "luaD_pcall"},
         NEW f \in [Thread -> Seq(CallInfo)], Frames(c, f), Interruptible(c, f),
         NEW st, NEW ef, Handlers(c, f, st, ef), st[c[Len(c)].th] = "LUA_OK",
         NEW f2 \in [Thread -> Seq(CallInfo)], FramesLeft(c, f, Len(c) - 1, f2)
  PROVE  HandlerAt(c, f2, c[Len(c)].th, Len(c) - 1, Len(f2[c[Len(c)].th])) =
           IF c[Len(c)].fn = "luaD_call" /\ c[Len(c)].caller = "pcallk"
           THEN f[c[Len(c)].th][c[Len(c)].level].old_errfunc
           ELSE ef[c[Len(c)].th]
<1> DEFINE a == c[Len(c)]
           t == c[Len(c)].th
           n == Len(c) - 1
           m == LastFrame(c, f, n)
           pcallk == a.fn = "luaD_call" /\ a.caller = "pcallk"
<1>1. /\ Len(c) \in Nat /\ Len(c) \in 1 .. Len(c) /\ Len(c) \in 2 .. Len(c)
      /\ n \in 1 .. Len(c) /\ n \in 1 .. Len(c) - 1 /\ n < Len(c) /\ n + 1 = Len(c)
      /\ n \in Nat /\ a \in Activation /\ t \in Thread /\ a.level \in Nat
      /\ f[t] \in Seq(CallInfo) /\ f2[t] \in Seq(CallInfo)
  BY StackParts
<1>2. c[n].th = t
  BY <1>1 DEF Stack
<1>3. PcallsOf(c, t, Len(c)) = PcallsOf(c, t, n)
  <2>1. \A i \in 1 .. Len(c) : i = Len(c) \/ i \in 1 .. n
    <3>1. Len(c) \in Nat
      BY <1>1
    <3> QED BY <3>1
  <2>2. \A i \in 1 .. n : i \in 1 .. Len(c)
    BY <1>1
  <2> QED BY <2>1, <2>2 DEF PcallsOf
<1>4. /\ ef[t] = HandlerAt(c, f, t, Len(c), Len(f[t]))
      /\ \A i \in Ypcalls(f[t]) : f[t][i].old_errfunc = FrameHandler(f[t], i - 1)
  <2>1. HandlersOf(c, f, st, ef, t)
    BY <1>1, HandlersParts
  <2> QED BY <2>1 DEF HandlersOf, errorstatus, Errors
<1>5. /\ m \in Nat /\ Len(f[t]) \in Nat /\ m <= Len(f[t])
  BY <1>1, <1>2, LevelsRight
<1>6. /\ Len(f2[t]) = m /\ \A i \in 1 .. m : i < m \/ ~pcallk => f2[t][i] = f[t][i]
      /\ pcallk => f2[t][m] = [f[t][m] EXCEPT !.ypcall = FALSE]
  BY <1>1 DEF FramesLeft
<1>7. /\ \A i \in Ypcalls(f2[t]) : i \in 1 .. m /\ ~f2[t][i].lua /\ f2[t][i].ypcall
      /\ \A i \in Ypcalls(f[t]) : i \in 1 .. Len(f[t]) /\ ~f[t][i].lua /\ f[t][i].ypcall
      /\ \A i \in 1 .. m : ~f2[t][i].lua /\ f2[t][i].ypcall => i \in Ypcalls(f2[t])
      /\ \A i \in 1 .. Len(f[t]) : ~f[t][i].lua /\ f[t][i].ypcall => i \in Ypcalls(f[t])
  BY <1>1, <1>6, YpcallsAre
<1>8. \A i \in Ypcalls(f[t]) : i <= m
  BY NothingProtected
<1>9. CASE ~pcallk
  <2>1. SameProtected(f2[t], f[t], m)
    <3>1. \A i \in 1 .. m : f2[t][i] = f[t][i] /\ i \in 1 .. Len(f[t])
      BY <1>5, <1>6, <1>9
    <3>2. \A i \in 1 .. m : i \in Ypcalls(f2[t]) <=> i \in Ypcalls(f[t])
      BY <1>7, <3>1
    <3> QED BY <3>1, <3>2 DEF SameProtected
  <2>2. \A i \in Ypcalls(f2[t]) \cup Ypcalls(f[t]) : i <= m => i \in 1 .. m
    BY <1>5, <1>7
  <2>3. FrameHandler(f2[t], m) = FrameHandler(f[t], m)
    BY <1>1, <2>1, <2>2, SameHandler
  <2>4. FrameHandler(f[t], m) = FrameHandler(f[t], Len(f[t]))
    <3>1. \A i \in Ypcalls(f[t]) : i <= m <=> i <= Len(f[t])
      BY <1>5, <1>7, <1>8
    <3> QED BY <3>1, NoneAbove
  <2> QED BY <1>3, <1>4, <1>6, <1>9, <2>3, <2>4 DEF HandlerAt
<1>10. CASE pcallk
  <2>1. /\ m = c[n].level /\ m > 0 /\ c[n].fn = "C" /\ m \in 1 .. Len(f[t])
        /\ ~f[t][m].lua /\ f[t][m] \in CallInfo /\ PcallsOf(c, t, n) = {}
    <3>1. c[n + 1].fn = "luaD_call" /\ c[n + 1].caller = "pcallk" /\ c[n + 1].th = c[n].th
      BY <1>1, <1>2, <1>10
    <3>2. /\ LastFrame(c, f, n) = c[n].level /\ c[n].level > 0 /\ c[n].fn = "C"
          /\ LastFrame(c, f, n) \in 1 .. Len(f[c[n].th])
          /\ ~f[c[n].th][LastFrame(c, f, n)].lua
          /\ f[c[n].th][LastFrame(c, f, n)] \in CallInfo
          /\ PcallsOf(c, c[n].th, n) = {}
      BY <1>1, <3>1, PcallkFrame
    <3> HIDE DEF pcallk, a
    <3> QED BY <1>2, <3>2
  <2>2. a.level = m
    <3>1. LiesOn(c[n], a)
      BY <1>1 DEF Stack
    <3> QED BY <1>10, <2>1, <3>1 DEF LiesOn, CallFrom, SameLevel
  <2>3. m \in Ypcalls(f[t])
    <3>1. a.fn = "luaD_call" /\ ~a.noyield
      <4>1. LiesOn(c[n], a)
        BY <1>1 DEF Stack
      <4> QED BY <1>10, <4>1 DEF LiesOn, CallFrom
    <3>2. f[t][a.level].ypcall
      BY <1>1, <1>10, <3>1 DEF Interruptible
    <3> QED BY <1>7, <2>1, <2>2, <3>2
  <2>4. f[t][m].old_errfunc = FrameHandler(f[t], m - 1)
    BY <1>4, <2>3
  <2>5. m \notin Ypcalls(f2[t])
    <3>1. ~[f[t][m] EXCEPT !.ypcall = FALSE].ypcall
      BY <2>1 DEF CallInfo, LuaFrame, CFrame
    <3> QED BY <1>6, <1>7, <1>10, <3>1
  <2>6. FrameHandler(f2[t], m) = FrameHandler(f2[t], m - 1)
    <3>1. \A i \in Ypcalls(f2[t]) : i \in 1 .. m /\ i # m
      BY <1>7, <2>5
    <3>2. \A i \in Ypcalls(f2[t]) : i <= m <=> i <= m - 1
      BY <1>5, <3>1
    <3> QED BY <3>2, NoneAbove
  <2>7. FrameHandler(f2[t], m - 1) = FrameHandler(f[t], m - 1)
    <3>1. \A i \in 1 .. m - 1 : f2[t][i] = f[t][i] /\ i \in 1 .. Len(f[t]) /\ i \in 1 .. m
      BY <1>5, <1>6
    <3>2. \A i \in 1 .. m - 1 : i \in Ypcalls(f2[t]) <=> i \in Ypcalls(f[t])
      BY <1>7, <3>1
    <3>3. SameProtected(f2[t], f[t], m - 1)
      BY <3>1, <3>2 DEF SameProtected
    <3>4. \A i \in Ypcalls(f2[t]) \cup Ypcalls(f[t]) : i <= m - 1 => i \in 1 .. m - 1
      BY <1>5, <1>7
    <3> QED BY <1>1, <3>3, <3>4, SameHandler
  <2> QED BY <1>3, <1>4, <1>6, <1>10, <2>1, <2>2, <2>4, <2>6, <2>7 DEF HandlerAt
<1> QED BY <1>9, <1>10

\* The activation on top returns to the one below: the invariant holds again.
LEMMA ReturnStep ==
  ASSUME NEW c, NEW f, NEW st, NEW ny, NEW nc, NEW ef, NEW ah, NEW un,
         Inv(c, f, st, ny, nc, ef, ah, un), NEW f2,
         NEW ny2, NEW nc2, NEW ef2, NEW ah2,
         Typed(SubSeq(c, 1, Len(c) - 1), f2, st, ny2, nc2, ef2, ah2, un),
         Returning(c, f, ny, nc, ef, ah, f2, ny2, nc2, ef2, ah2)
  PROVE  Inv(SubSeq(c, 1, Len(c) - 1), f2, st, ny2, nc2, ef2, ah2, un)
<1> DEFINE a == c[Len(c)]
           t == c[Len(c)].th
           n == Len(c) - 1
           d == SubSeq(c, 1, n)
<1>1. /\ Stack(c) /\ Frames(c, f) /\ Interruptible(c, f) /\ AllSaved(c)
      /\ CallsCounted(c, nc) /\ NnyCounted(c, ny) /\ Handlers(c, f, st, ef)
      /\ HooksRight(c, st, ah) /\ ThreadsRight(c, f, st, un)
      /\ c \in Seq(Activation) /\ f \in [Thread -> Seq(CallInfo)]
      /\ f2 \in [Thread -> Seq(CallInfo)]
  BY DEF Inv, Typed
<1>2. /\ Len(c) > 1 /\ a.fn \notin {"lua_resume", "luaD_pcall"}
      /\ FramesLeft(c, f, n, f2)
  BY DEF Returning
<1>3. /\ Len(c) \in Nat /\ Len(c) \in 1 .. Len(c) /\ Len(c) \in 2 .. Len(c)
      /\ n \in 1 .. Len(c) /\ n < Len(c) /\ n + 1 = Len(c)
      /\ n \in Nat /\ a \in Activation /\ t \in Thread
  BY <1>1, <1>2, StackParts
<1>4. c[n].th = t /\ st[t] = "LUA_OK"
  <2>1. c[n].th = t
    BY <1>1, <1>2, <1>3 DEF Stack
  <2> QED BY <1>1, <1>2, <1>3, <2>1, Running
<1>5. /\ nc[t] = CCallsIn(c, Len(c)) /\ ny[t] = NnyIn(c, t, Len(c))
      /\ ah[t] <=> AsideOf(c, t, Len(c)) = {}
  BY <1>1, <1>4, Counted
<1>6. nc2[t] = CCallsIn(c, n) /\ ny2[t] = NnyIn(c, t, n)
  <2>1. /\ CCallsIn(c, n) \in Nat
        /\ CCallsIn(c, n + 1) = IF c[n + 1].fn \in {"luaD_call", "lua_resume"}
                                THEN CCallsIn(c, n) + 1 ELSE CCallsIn(c, n)
        /\ NnyIn(c, t, n) \in Nat
        /\ NnyIn(c, t, n + 1) = IF c[n + 1].th = t /\ Bars(c[n + 1])
                                THEN NnyIn(c, t, n) + 1 ELSE NnyIn(c, t, n)
    BY <1>3, NextCounts
  <2>2. /\ nc2[t] = IF a.fn = "luaD_call" THEN nc[t] - 1 ELSE nc[t]
        /\ ny2[t] = IF Bars(a) THEN ny[t] - 1 ELSE ny[t]
    BY DEF Returning
  <2> QED BY <1>2, <1>3, <1>5, <2>1, <2>2
<1>7. ah2[t] <=> AsideOf(c, t, n) = {}
  <2>1. Saved(c, Len(c))
    BY <1>1, <1>3 DEF AllSaved
  <2>2. CASE a.fn \in {"hook", "GCTM"}
    BY <1>2, <2>1, <2>2 DEF Returning, Saved
  <2>3. CASE a.fn \notin {"hook", "GCTM"}
    <3>1. \A i \in 1 .. Len(c) : i = Len(c) \/ i \in 1 .. n
      <4>1. Len(c) \in Nat
        BY <1>3
      <4> QED BY <4>1
    <3>2. \A i \in 1 .. n : i \in 1 .. Len(c)
      BY <1>3
    <3>3. AsideOf(c, t, Len(c)) = AsideOf(c, t, n)
      BY <2>3, <3>1, <3>2 DEF AsideOf
    <3> QED BY <1>5, <2>3, <3>3 DEF Returning
  <2> QED BY <2>2, <2>3
<1>8. ef2[t] = HandlerAt(c, f2, t, n, Len(f2[t]))
  <2>1. HandlerAt(c, f2, t, n, Len(f2[t])) =
          IF a.fn = "luaD_call" /\ a.caller = "pcallk"
          THEN f[t][a.level].old_errfunc ELSE ef[t]
    BY <1>1, <1>2, <1>4, HandlerBack
  <2> QED BY <2>1 DEF Returning
<1>9. Cut(c, d, n) /\ d[n] = c[n]
  <2>1. n \in 1 .. n
    BY <1>3
  <2> QED BY <1>1, <1>3, <2>1, CutIsCut
<1>10. c[n].fn = "lua_resume" => n + 1 = Len(c) /\ d[n].entered
  BY <1>1, <1>3, <1>9, EnteredBelow
<1>11. ControlBack(c, f, ny, nc, ef, ah, d, n, f2, ny2, nc2, ef2, ah2)
  BY <1>2, <1>3, <1>4, <1>6, <1>7, <1>8, <1>9, <1>10 DEF ControlBack, Returning
<1> QED BY <1>11, CutStep

-----------------------------------------------------------------------------
(* Functions start, and go on after they were interrupted.                 *)

\* luaD_precall, and the function it calls begins to run.
LEMMA PrecallStep ==
  ASSUME NEW c, NEW f, NEW st, NEW ny, NEW nc, NEW ef, NEW ah, NEW un,
         Inv(c, f, st, ny, nc, ef, ah, un), NEW t, t = c[Len(c)].th,
         NEW a \in Activation, a.fn \in {"C", "luaV_execute"}, a.th = t,
         a.level = Len(f[t]) + 1, LiesOn(c[Len(c)], a),
         c[Len(c)].fn = "lua_resume" => c[Len(c)].entered,
         NEW frame \in CallInfo,
         IF a.fn = "C" THEN ~frame.lua /\ ~frame.ypcall ELSE frame.lua /\ frame.fresh
  PROVE  Inv(Append(c, a), [f EXCEPT ![t] = Append(f[t], frame)], st, ny, nc, ef, ah, un)
<1> DEFINE f2 == [f EXCEPT ![t] = Append(f[t], frame)]
           d == Append(c, a)
<1>1. Parts(c, f, st, ny, nc, ef, ah, un)
  BY PartsRight
<1>2. /\ Stack(c) /\ StackBounded(c) /\ Handlers(c, f, st, ef)
      /\ ThreadsRight(c, f, st, un)
  BY DEF Inv
<1>3. /\ c \in Seq(Activation) /\ Len(c) \in 1 .. Len(c) /\ t \in Thread
      /\ f \in [Thread -> Seq(CallInfo)] /\ f[t] \in Seq(CallInfo) /\ Len(f[t]) \in Nat
  BY <1>1 DEF Parts
<1>4. /\ Append(f[t], frame) \in Seq(CallInfo) /\ Len(Append(f[t], frame)) = Len(f[t]) + 1
      /\ \A i \in 1 .. Len(f[t]) : Append(f[t], frame)[i] = f[t][i]
      /\ Append(f[t], frame)[Len(f[t]) + 1] = frame
  BY <1>3, AppendProperties
<1>5. /\ f2 \in [Thread -> Seq(CallInfo)] /\ f2[t] = Append(f[t], frame)
      /\ OnlyFor(t, f2, f)
  BY <1>3, <1>4 DEF OnlyFor
<1>6. Pushed(c, d, a) /\ d \in Seq(Activation)
  BY <1>3, PushIsPush
<1> HIDE DEF f2, d
<1>7. RunFrames(f2[t], f[t], a)
  <2>1. a.level > 0 /\ a.level - 1 = Len(f[t]) /\ a.level - 1 <= Len(f[t])
    BY <1>3
  <2> QED BY <1>4, <1>5, <2>1 DEF RunFrames
<1>8. CCallsIn(c, Len(c)) < ErrorCCalls
  <2>1. ~Waits(c[Len(c)])
    BY DEF Waits, LiesOn
  <2> QED BY <1>2, <1>3, <2>1, NotFull
<1>9. st[t] = "LUA_OK"
  BY <1>2, <1>3, Running
<1>10. ef[t] = HandlerAt(c, f2, t, Len(c), a.level)
  <2>1. Len(f[t]) = a.level - 1 /\ f2[t] = f2[a.th] /\ f[t] = f[a.th]
    BY <1>3
  <2>2. st[a.th] = "LUA_OK" /\ RunFrames(f2[t], f[t], a) /\ a.th = c[Len(c)].th
    BY <1>7, <1>9
  <2>3. c \in Seq(Activation) /\ Stack(c) /\ Handlers(c, f, st, ef)
    BY <1>2, <1>3
  <2>4. FramesTyped(f) /\ FramesTyped(f2)
    BY <1>3, <1>5 DEF FramesTyped
  <2>5. ef[a.th] = HandlerAt(c, f2, a.th, Len(c), a.level)
    BY <2>1, <2>2, <2>3, <2>4, RunsWithHandler
  <2> QED BY <2>5
<1>11. RunPush(c, f, ef, d, a, f2, ef)
  <2>1. Len(f[t]) = a.level - 1 /\ OnlyFor(t, ef, ef)
    BY <1>3 DEF OnlyFor
  <2> QED BY <1>5, <1>6, <1>7, <1>8, <1>10, <2>1 DEF RunPush
<1>12. Typed(d, f2, st, ny, nc, ef, ah, un)
  BY <1>1, <1>5, <1>6 DEF Typed, Parts
<1>13. Inv(d, f2, st, ny, nc, ef, ah, un)
  BY <1>11, <1>12, RunStep
<1> QED BY <1>13 DEF d, f2

\* luaD_call enters the function.
LEMMA EnterStep ==
  ASSUME NEW c, NEW f, NEW st, NEW ny, NEW nc, NEW ef, NEW ah, NEW un,
         Inv(c, f, st, ny, nc, ef, ah, un), c[Len(c)].fn = "luaD_call",
         CCallsIn(c, Len(c)) < ErrorCCalls,
         NEW d, d = [c EXCEPT ![Len(c)].entered = TRUE]
  PROVE  Inv(d, f, st, ny, nc, ef, ah, un)
<1>1. Parts(c, f, st, ny, nc, ef, ah, un)
  BY PartsRight
<1>2. /\ Stack(c) /\ Frames(c, f) /\ Handlers(c, f, st, ef)
      /\ CallsCounted(c, nc) /\ NnyCounted(c, ny) /\ HooksRight(c, st, ah)
      /\ ThreadsRight(c, f, st, un)
  BY DEF Inv
<1>3. /\ c \in Seq(Activation) /\ Len(c) \in 1 .. Len(c) /\ Len(c) \in Nat /\ c # <<>>
      /\ c[Len(c)].th \in Thread /\ f[c[Len(c)].th] \in Seq(CallInfo)
  BY <1>1 DEF Parts
<1>4. Cut(c, d, Len(c)) /\ d[Len(c)].entered
  BY <1>3, EnterIsCut
<1>5. st[c[Len(c)].th] = "LUA_OK"
  BY <1>2, <1>3, Running
<1>6. /\ nc[c[Len(c)].th] = CCallsIn(c, Len(c))
      /\ ny[c[Len(c)].th] = NnyIn(c, c[Len(c)].th, Len(c))
      /\ ah[c[Len(c)].th] <=> AsideOf(c, c[Len(c)].th, Len(c)) = {}
  BY <1>2, <1>3, <1>5, Counted
<1>7. ef[c[Len(c)].th] =
        HandlerAt(c, f, c[Len(c)].th, Len(c), Len(f[c[Len(c)].th]))
  <2>1. HandlersOf(c, f, st, ef, c[Len(c)].th)
    BY <1>2, <1>3, HandlersParts
  <2> QED BY <1>5, <2>1 DEF HandlersOf, errorstatus, Errors
<1>8. FramesLeft(c, f, Len(c), f)
  <2>1. LastFrame(c, f, Len(c)) = Len(f[c[Len(c)].th])
    BY DEF LastFrame, LastOfThread
  <2>2. ~(Len(c) < Len(c))
    BY <1>3
  <2> QED BY <2>1, <2>2 DEF FramesLeft
<1>9. ControlBack(c, f, ny, nc, ef, ah, d, Len(c), f, ny, nc, ef, ah)
  BY <1>4, <1>6, <1>7, <1>8 DEF ControlBack, OnlyFor
<1>10. Typed(d, f, st, ny, nc, ef, ah, un)
  BY <1>1, <1>4 DEF Typed, Parts, Cut
<1> QED BY <1>9, <1>10, CutStep

\* lua_resume is the first activation of its thread.
LEMMA FirstOfThread ==
  ASSUME NEW c \in Seq(Activation), Stack(c), NEW j \in 1 .. Len(c),
         c[j].fn = "lua_resume", NEW t, t = c[j].th
  PROVE  /\ PcallsOf(c, t, j) = {} /\ AsideOf(c, t, j) = {} /\ NnyIn(c, t, j) = 0
         /\ t # MainThread
         /\ \A i \in 1 .. j : c[i].th = t => ~Bars(c[i])
<1>1. t # MainThread /\ \A i \in 1 .. j - 1 : c[i].th # t
  BY ResumeIsFirst
<1>2. \A i \in 1 .. j : i = j \/ i \in 1 .. j - 1
  <2>1. j \in Nat
    BY StackParts
  <2> QED BY <2>1
<1>3. \A i \in 1 .. j : c[i].th = t => c[i].fn = "lua_resume"
  BY <1>1, <1>2
<1>4. \A i \in 1 .. j : c[i].th = t => ~Bars(c[i])
  BY <1>3 DEF Bars
<1>5. NnyIn(c, t, j) = 0
  <2>1. j \in Nat
    BY StackParts
  <2> QED BY <1>1, <1>4, <2>1, NothingCounted
<1> QED BY <1>1, <1>3, <1>4, <1>5 DEF PcallsOf, AsideOf

\* Each thread has a message handler, or 0.
HandlersTyped(ef) == ef \in [Thread -> Nat]

\* lua_resume goes on with the last frame: execute and finishCcall.
LEMMA ContinueStep ==
  ASSUME NEW c, NEW f, NEW st, NEW ny, NEW nc, NEW ef, NEW ah, NEW un,
         Inv(c, f, st, ny, nc, ef, ah, un), NEW t, t = c[Len(c)].th,
         c[Len(c)].fn = "lua_resume", c[Len(c)].entered,
         NEW a \in Activation, a.fn \in {"C", "luaV_execute"}, a.th = t,
         a.level = Len(f[t]), NEW f2, NEW ef2,
         FramesTyped(f2), HandlersTyped(ef2),
         OnlyFor(t, f2, f), OnlyFor(t, ef2, ef), RunFrames(f2[t], f[t], a),
         ef2[t] = IF a.level \in Ypcalls(f[t]) THEN f[t][a.level].old_errfunc ELSE ef[t]
  PROVE  Inv(Append(c, a), f2, st, ny, nc, ef2, ah, un)
<1>1. Parts(c, f, st, ny, nc, ef, ah, un)
  BY PartsRight
<1>2. /\ Stack(c) /\ StackBounded(c) /\ Handlers(c, f, st, ef)
      /\ ThreadsRight(c, f, st, un)
  BY DEF Inv
<1>3. /\ c \in Seq(Activation) /\ Len(c) \in 1 .. Len(c) /\ t \in Thread
      /\ f \in [Thread -> Seq(CallInfo)]
  BY <1>1 DEF Parts
<1>4. Pushed(c, Append(c, a), a) /\ Append(c, a) \in Seq(Activation)
  BY <1>3, PushIsPush
<1>5. CCallsIn(c, Len(c)) < ErrorCCalls
  <2>1. ~Waits(c[Len(c)])
    BY DEF Waits
  <2> QED BY <1>2, <1>3, <2>1, NotFull
<1>6. st[c[Len(c)].th] = "LUA_OK"
  <2>1. c \in Seq(Activation) /\ Len(c) \in 1 .. Len(c)
    BY <1>3
  <2> QED BY <1>2, <2>1, Running
<1>7. HandlerAt(c, f2, a.th, Len(c), a.level) =
        IF a.level \in Ypcalls(f[t]) THEN f[t][a.level].old_errfunc ELSE ef[a.th]
  <2>1. /\ st[a.th] = "LUA_OK" /\ RunFrames(f2[t], f[t], a) /\ f2[t] = f2[a.th]
        /\ f[t] = f[a.th] /\ a.th = c[Len(c)].th /\ Len(f[t]) = a.level
    BY <1>6
  <2>2. c \in Seq(Activation) /\ Stack(c) /\ Handlers(c, f, st, ef)
    BY <1>2, <1>3
  <2>3. FramesTyped(f)
    BY <1>3 DEF FramesTyped
  <2> QED BY <2>1, <2>2, <2>3, ResumesWithHandler
<1>8. LiesOn(c[Len(c)], a)
  BY DEF LiesOn, RunFrames
<1>9. RunPush(c, f, ef, Append(c, a), a, f2, ef2)
  BY <1>4, <1>5, <1>7, <1>8 DEF RunPush
<1>10. Typed(Append(c, a), f2, st, ny, nc, ef2, ah, un)
  BY <1>1, <1>4 DEF Typed, Parts, FramesTyped, HandlersTyped
<1> QED BY <1>9, <1>10, RunStep

\* execute: a Lua function goes on in a new luaV_execute.
LEMMA ExecuteAgain ==
  ASSUME NEW c, NEW f, NEW st, NEW ny, NEW nc, NEW ef, NEW ah, NEW un,
         Inv(c, f, st, ny, nc, ef, ah, un), NEW t, t = c[Len(c)].th,
         c[Len(c)].fn = "lua_resume", c[Len(c)].entered,
         f[t] # <<>>, f[t][Len(f[t])].lua
  PROVE  Inv(Append(c, [fn |-> "luaV_execute", th |-> t, level |-> Len(f[t])]),
             [f EXCEPT ![t][Len(f[t])].fresh = TRUE], st, ny, nc, ef, ah, un)
<1> DEFINE a == [fn |-> "luaV_execute", th |-> t, level |-> Len(f[t])]
           n == Len(f[t])
           g == [f[t] EXCEPT ![n].fresh = TRUE]
           f2 == [f EXCEPT ![t][Len(f[t])].fresh = TRUE]
<1>1. Parts(c, f, st, ny, nc, ef, ah, un)
  BY PartsRight
<1>2. /\ c \in Seq(Activation) /\ t \in Thread /\ ef \in [Thread -> Nat]
      /\ f \in [Thread -> Seq(CallInfo)] /\ f[t] \in Seq(CallInfo) /\ n \in Nat
  BY <1>1 DEF Parts
<1>3. n \in 1 .. n /\ n > 0
  BY <1>2
<1>4. /\ a \in Activation /\ a.fn = "luaV_execute" /\ a.th = t /\ a.level = n
  BY <1>2 DEF Activation, Runs
<1>5. f[t][n] \in CallInfo
  BY <1>2, <1>3
<1>6. [f[t][n] EXCEPT !.fresh = TRUE] \in CallInfo
  <2>1. f[t][n] \in LuaFrame
    BY <1>5 DEF CallInfo, CFrame
  <2>2. [f[t][n] EXCEPT !.fresh = TRUE] \in LuaFrame
    BY <2>1 DEF LuaFrame
  <2> QED BY <2>2 DEF CallInfo
<1>7. /\ [f[t][n] EXCEPT !.fresh = TRUE].lua /\ [f[t][n] EXCEPT !.fresh = TRUE].fresh
  <2>1. f[t][n] \in LuaFrame
    BY <1>5 DEF CallInfo, CFrame
  <2> QED BY <2>1 DEF LuaFrame
<1>8. g = [f[t] EXCEPT ![n] = [f[t][n] EXCEPT !.fresh = TRUE]]
  OBVIOUS
<1>9. /\ g \in Seq(CallInfo) /\ Len(g) = n /\ g[n] = [f[t][n] EXCEPT !.fresh = TRUE]
      /\ \A i \in 1 .. n - 1 : g[i] = f[t][i]
  <2> DEFINE x == [f[t][n] EXCEPT !.fresh = TRUE]
  <2>1. g = [f[t] EXCEPT ![n] = x] /\ x \in CallInfo
    BY <1>6, <1>8
  <2> HIDE DEF x, g
  <2>2. g \in Seq(CallInfo) /\ Len(g) = n /\ \A i \in 1 .. n : g[i] = IF i = n THEN x ELSE f[t][i]
    BY <1>2, <1>3, <2>1, ExceptSeq
  <2>3. \A i \in 1 .. n - 1 : i \in 1 .. n /\ i # n
    BY <1>2
  <2> QED BY <1>3, <2>2, <2>3 DEF x
<1>10. f2 = [f EXCEPT ![t] = g]
  OBVIOUS
<1> HIDE DEF f2, g
<1>11. f2 \in [Thread -> Seq(CallInfo)] /\ f2[t] = g /\ OnlyFor(t, f2, f)
  BY <1>2, <1>9, <1>10 DEF OnlyFor
<1>12. RunFrames(f2[t], f[t], a)
  <2>1. Len(g) = a.level /\ a.level > 0 /\ a.level - 1 <= Len(f[t])
    BY <1>2, <1>3, <1>4, <1>9
  <2>2. \A i \in 1 .. a.level - 1 : g[i] = f[t][i]
    BY <1>4, <1>9
  <2>3. a.fn # "C" /\ g[a.level].lua /\ g[a.level].fresh
    BY <1>4, <1>7, <1>9
  <2> QED BY <1>11, <2>1, <2>2, <2>3 DEF RunFrames
<1>13. a.level \notin Ypcalls(f[t])
  BY <1>4 DEF Ypcalls
<1> HIDE DEF a
<1>14. OnlyFor(t, ef, ef)
  BY DEF OnlyFor
<1>15. Inv(Append(c, a), f2, st, ny, nc, ef, ah, un)
  <2>1. FramesTyped(f2) /\ HandlersTyped(ef)
    BY <1>2, <1>11 DEF FramesTyped, HandlersTyped
  <2>2. OnlyFor(t, f2, f)
    BY <1>11
  <2> QED BY <1>4, <1>12, <1>13, <1>14, <2>1, <2>2, ContinueStep
<1> QED BY <1>15 DEF a, f2

\* finishCcall: the continuation of a C function is called.
LEMMA FinishStep ==
  ASSUME NEW c, NEW f, NEW st, NEW ny, NEW nc, NEW ef, NEW ah, NEW un,
         Inv(c, f, st, ny, nc, ef, ah, un), NEW t, t = c[Len(c)].th,
         c[Len(c)].fn = "lua_resume", c[Len(c)].entered,
         f[t] # <<>>, ~f[t][Len(f[t])].lua,
         NEW ef2, ef2 = IF f[t][Len(f[t])].ypcall
                        THEN [ef EXCEPT ![t] = f[t][Len(f[t])].old_errfunc] ELSE ef
  PROVE  Inv(Append(c, [fn |-> "C", th |-> t, level |-> Len(f[t])]),
             [f EXCEPT ![t] = [f[t] EXCEPT ![Len(f[t])].ypcall = FALSE]],
             st, ny, nc, ef2, ah, un)
<1> DEFINE a == [fn |-> "C", th |-> t, level |-> Len(f[t])]
           n == Len(f[t])
           x == [f[t][n] EXCEPT !.ypcall = FALSE]
           g == [f[t] EXCEPT ![n].ypcall = FALSE]
           f2 == [f EXCEPT ![t] = g]
<1>1. Parts(c, f, st, ny, nc, ef, ah, un)
  BY PartsRight
<1>2. /\ c \in Seq(Activation) /\ t \in Thread /\ ef \in [Thread -> Nat]
      /\ f \in [Thread -> Seq(CallInfo)] /\ f[t] \in Seq(CallInfo) /\ n \in Nat
  BY <1>1 DEF Parts
<1>3. n \in 1 .. n /\ n > 0
  BY <1>2
<1>4. /\ a \in Activation /\ a.fn = "C" /\ a.th = t /\ a.level = n
  BY <1>2 DEF Activation, Runs
<1>5. f[t][n] \in CFrame
  <2>1. f[t][n] \in CallInfo
    BY <1>2, <1>3
  <2> QED BY <2>1 DEF CallInfo, LuaFrame
<1>6. x \in CallInfo /\ ~x.lua /\ ~x.ypcall
  <2>1. x \in CFrame /\ ~x.lua /\ ~x.ypcall
    BY <1>5 DEF CFrame
  <2> QED BY <2>1 DEF CallInfo
<1>7. g = [f[t] EXCEPT ![n] = x]
  OBVIOUS
<1>8. f[t][n].old_errfunc \in Nat
  BY <1>5 DEF CFrame
<1> HIDE DEF x, g
<1>9. /\ g \in Seq(CallInfo) /\ Len(g) = n /\ g[n] = x
      /\ \A i \in 1 .. n - 1 : g[i] = f[t][i]
  <2>1. g \in Seq(CallInfo) /\ Len(g) = n /\ \A i \in 1 .. n : g[i] = IF i = n THEN x ELSE f[t][i]
    BY <1>2, <1>3, <1>6, <1>7, ExceptSeq
  <2>2. \A i \in 1 .. n - 1 : i \in 1 .. n /\ i # n
    BY <1>2
  <2> QED BY <1>3, <2>1, <2>2
<1>10. f2 \in [Thread -> Seq(CallInfo)] /\ f2[t] = g /\ OnlyFor(t, f2, f)
  BY <1>2, <1>9 DEF OnlyFor
<1> HIDE DEF f2
<1>11. RunFrames(f2[t], f[t], a)
  BY <1>2, <1>3, <1>4, <1>6, <1>9, <1>10, SMTT(40) DEF RunFrames
<1>12. n \in Ypcalls(f[t]) <=> f[t][n].ypcall
  BY <1>2, <1>3, YpcallsAre
<1>13. /\ ef2 \in [Thread -> Nat] /\ OnlyFor(t, ef2, ef)
       /\ ef2[t] = IF f[t][n].ypcall THEN f[t][n].old_errfunc ELSE ef[t]
  BY <1>2, <1>8 DEF OnlyFor
<1>14. ef2[t] = IF a.level \in Ypcalls(f[t]) THEN f[t][a.level].old_errfunc ELSE ef[t]
  BY <1>4, <1>12, <1>13
<1> HIDE DEF a
<1>15. Inv(Append(c, a), f2, st, ny, nc, ef2, ah, un)
  <2>1. FramesTyped(f2) /\ HandlersTyped(ef2)
    BY <1>10, <1>13 DEF FramesTyped, HandlersTyped
  <2>2. OnlyFor(t, f2, f) /\ OnlyFor(t, ef2, ef)
    BY <1>10, <1>13
  <2> QED BY <1>4, <1>11, <1>14, <2>1, <2>2, ContinueStep
<1> QED BY <1>15 DEF a, f2, g

-----------------------------------------------------------------------------
(* Coroutines begin, fail, yield and end.                                  *)

\* What a lua_resume at position j finds in its thread.
LEMMA ResumeFinds ==
  ASSUME NEW c, NEW f, NEW st, NEW ny, NEW nc, NEW ef, NEW ah, NEW un,
         Inv(c, f, st, ny, nc, ef, ah, un), NEW j \in 2 .. Len(c),
         c[j].fn = "lua_resume", NEW t, t = c[j].th, t = c[Len(c)].th
  PROVE  /\ c[j] \in Activation /\ j \in 1 .. Len(c) /\ j - 1 \in 1 .. Len(c)
         /\ j - 1 < Len(c) /\ (j - 1) + 1 = j
         /\ c[j].nCcalls = CCallsIn(c, j) /\ c[j].nCcalls \in Nat /\ c[j].nCcalls - 1 \in Nat
         /\ c[j].nny = 1
<1>1. Parts(c, f, st, ny, nc, ef, ah, un)
  BY PartsRight
<1>2. c \in Seq(Activation) /\ Len(c) \in Nat
  BY <1>1 DEF Parts
<1>3. j \in 1 .. Len(c) /\ j - 1 \in 1 .. Len(c) /\ j - 1 < Len(c) /\ (j - 1) + 1 = j /\ j \in Nat /\ j - 1 \in Nat
  BY <1>2
<1>4. c[j] \in Activation
  BY <1>2, <1>3
<1>5. c[j].nCcalls = CCallsIn(c, j) /\ c[j].nny = 1
  BY <1>3 DEF Inv, AllSaved, Saved
<1>6. /\ CCallsIn(c, j - 1) \in Nat /\ CCallsIn(c, j) = CCallsIn(c, j - 1) + 1
  <2>1. CCallsIn(c, j - 1) \in Nat /\ CCallsIn(c, (j - 1) + 1) = CCallsIn(c, j - 1) + 1
    BY <1>3, NextCounts
  <2> QED BY <1>3, <2>1
<1> QED BY <1>3, <1>4, <1>5, <1>6

\* A thread ends with an error.
LEMMA DieStep ==
  ASSUME NEW c, NEW f, NEW st, NEW ny, NEW nc, NEW ef, NEW ah, NEW un,
         Inv(c, f, st, ny, nc, ef, ah, un), NEW j \in 2 .. Len(c),
         c[j].fn = "lua_resume", NEW t, t = c[j].th, t = c[Len(c)].th,
         Ypcalls(f[t]) = {}, NEW st1 \in Errors, NEW x \in BOOLEAN
  PROVE  Inv(SubSeq(c, 1, j - 1), f, [st EXCEPT ![t] = st1],
             [ny EXCEPT ![t] = c[j].nny], [nc EXCEPT ![t] = c[j].nCcalls - 1],
             ef, [ah EXCEPT ![t] = x], un \ {t})
<1> DEFINE st2 == [st EXCEPT ![t] = st1]
           ny2 == [ny EXCEPT ![t] = c[j].nny]
           nc2 == [nc EXCEPT ![t] = c[j].nCcalls - 1]
           ah2 == [ah EXCEPT ![t] = x]
           un2 == un \ {t}
<1>1. Parts(c, f, st, ny, nc, ef, ah, un)
  BY PartsRight
<1>2. /\ c \in Seq(Activation) /\ t \in Thread
      /\ st \in [Thread -> {"LUA_OK", "LUA_YIELD"} \cup Errors]
      /\ ny \in [Thread -> Nat] /\ nc \in [Thread -> Nat] /\ ah \in [Thread -> BOOLEAN]
      /\ un \in SUBSET Thread
  BY <1>1 DEF Parts
<1>3. /\ j - 1 \in 1 .. Len(c) /\ j - 1 < Len(c) /\ (j - 1) + 1 = j
      /\ c[j].nCcalls - 1 \in Nat /\ c[j].nny = 1
  BY ResumeFinds
<1>4. /\ st2 \in [Thread -> {"LUA_OK", "LUA_YIELD"} \cup Errors]
      /\ st2[t] = st1 /\ OnlyFor(t, st2, st)
  BY <1>2 DEF OnlyFor
<1>5. /\ ny2 \in [Thread -> Nat] /\ ny2[t] = 1 /\ OnlyFor(t, ny2, ny)
  BY <1>2, <1>3 DEF OnlyFor
<1>6. nc2 \in [Thread -> Nat] /\ OnlyFor(t, nc2, nc)
  BY <1>2, <1>3 DEF OnlyFor
<1>7. ah2 \in [Thread -> BOOLEAN] /\ OnlyFor(t, ah2, ah)
  BY <1>2 DEF OnlyFor
<1>8. un2 \in SUBSET Thread /\ t \notin un2 /\ OnlySetFor(t, un2, un)
  BY <1>2 DEF OnlySetFor
<1>9. SubSeq(c, 1, j - 1) \in Seq(Activation)
  BY <1>2, <1>3, CutIsCut DEF Cut
<1> HIDE DEF st2, ny2, nc2, ah2, un2
<1>10. Typed(SubSeq(c, 1, j - 1), f, st2, ny2, nc2, ef, ah2, un2)
  BY <1>1, <1>4, <1>5, <1>6, <1>7, <1>8, <1>9 DEF Typed, Parts
<1>11. CanEnd(f, st2, t)
  BY <1>4 DEF CanEnd, errorstatus
<1>12. SameProtected(f[t], f[t], Len(f[t])) /\ OnlyFor(t, f, f)
  BY DEF SameProtected, OnlyFor
<1>13. Ends(c, f, st, ny, nc, ef, ah, un, j - 1, f, st2, ny2, nc2, ah2, un2)
  <2>1. st2[t] \in Errors /\ st2[t] # "LUA_YIELD" /\ st2[t] # "LUA_OK"
    BY <1>4 DEF Errors
  <2>2. c[(j - 1) + 1].fn = "lua_resume" /\ c[(j - 1) + 1].th = t
    BY <1>3
  <2> QED BY <1>3, <1>4, <1>5, <1>6, <1>7, <1>8, <1>11, <1>12, <2>1, <2>2 DEF Ends
<1>14. Inv(SubSeq(c, 1, j - 1), f, st2, ny2, nc2, ef, ah2, un2)
  BY <1>10, <1>13, EndStep
<1> QED BY <1>14 DEF st2, ny2, nc2, ah2, un2

\* The main function of a coroutine has returned.
LEMMA DoneStep ==
  ASSUME NEW c, NEW f, NEW st, NEW ny, NEW nc, NEW ef, NEW ah, NEW un,
         Inv(c, f, st, ny, nc, ef, ah, un),
         c[Len(c)].fn = "lua_resume", c[Len(c)].entered, NEW t, t = c[Len(c)].th,
         f[t] = <<>>
  PROVE  Inv(SubSeq(c, 1, Len(c) - 1), f, st,
             [ny EXCEPT ![t] = c[Len(c)].nny], [nc EXCEPT ![t] = c[Len(c)].nCcalls - 1],
             ef, ah, un)
<1> DEFINE j == Len(c)
           ny2 == [ny EXCEPT ![t] = c[j].nny]
           nc2 == [nc EXCEPT ![t] = c[j].nCcalls - 1]
<1>1. Parts(c, f, st, ny, nc, ef, ah, un)
  BY PartsRight
<1>2. /\ Stack(c) /\ Handlers(c, f, st, ef) /\ HooksRight(c, st, ah)
      /\ CallsCounted(c, nc) /\ NnyCounted(c, ny) /\ ThreadsRight(c, f, st, un)
  BY DEF Inv
<1>3. /\ c \in Seq(Activation) /\ t \in Thread /\ j \in 1 .. Len(c)
      /\ ny \in [Thread -> Nat] /\ nc \in [Thread -> Nat]
  BY <1>1 DEF Parts
<1>4. j \in 2 .. Len(c)
  BY <1>2, <1>3, ResumeIsFirst
<1>5. /\ j - 1 \in 1 .. Len(c) /\ j - 1 < Len(c) /\ (j - 1) + 1 = j
      /\ c[j].nCcalls - 1 \in Nat /\ c[j].nny = 1
  BY <1>4, ResumeFinds
<1>6. /\ ny2 \in [Thread -> Nat] /\ ny2[t] = 1 /\ OnlyFor(t, ny2, ny)
  BY <1>3, <1>5 DEF OnlyFor
<1>7. nc2 \in [Thread -> Nat] /\ OnlyFor(t, nc2, nc)
  BY <1>3, <1>5 DEF OnlyFor
<1>8. SubSeq(c, 1, j - 1) \in Seq(Activation)
  BY <1>3, <1>5, CutIsCut DEF Cut
<1>9. st[t] = "LUA_OK" /\ t \notin un
  BY <1>2, <1>3, Running
<1>10. PcallsOf(c, t, j) = {} /\ AsideOf(c, t, j) = {}
  BY <1>2, <1>3, FirstOfThread
<1>11. ah[t]
  BY <1>2, <1>3, <1>9, <1>10, Counted
<1>12. ef[t] = FrameHandler(f[t], Len(f[t]))
  <2>1. HandlersOf(c, f, st, ef, t)
    BY <1>2, <1>3, HandlersParts
  <2>2. ef[t] = HandlerAt(c, f, t, Len(c), Len(f[t]))
    BY <1>9, <2>1 DEF HandlersOf, errorstatus, Errors
  <2> QED BY <1>10, <2>2 DEF HandlerAt
<1> HIDE DEF ny2, nc2
<1>13. Typed(SubSeq(c, 1, j - 1), f, st, ny2, nc2, ef, ah, un)
  BY <1>1, <1>6, <1>7, <1>8 DEF Typed, Parts
<1>14. CanEnd(f, st, t)
  BY DEF CanEnd, NoContinuation, Ypcalls
<1>15. /\ SameProtected(f[t], f[t], Len(f[t])) /\ OnlyFor(t, f, f) /\ OnlyFor(t, st, st)
       /\ OnlyFor(t, ah, ah) /\ OnlySetFor(t, un, un)
  BY DEF SameProtected, OnlyFor, OnlySetFor
<1>16. Ends(c, f, st, ny, nc, ef, ah, un, j - 1, f, st, ny2, nc2, ah, un)
  <2>1. st[t] \notin Errors /\ st[t] # "LUA_YIELD"
    BY <1>9 DEF Errors
  <2>2. c[(j - 1) + 1].fn = "lua_resume" /\ c[(j - 1) + 1].th = t
    BY <1>5
  <2> QED BY <1>5, <1>6, <1>7, <1>9, <1>11, <1>12, <1>14, <1>15, <2>1, <2>2 DEF Ends
<1>17. Inv(SubSeq(c, 1, j - 1), f, st, ny2, nc2, ef, ah, un)
  BY <1>13, <1>16, EndStep
<1> QED BY <1>17 DEF ny2, nc2

\* The first frames of a list are the same for the message handler.
LEMMA FirstFrames ==
  ASSUME NEW g \in Seq(CallInfo), NEW n \in 0 .. Len(g)
  PROVE  /\ SubSeq(g, 1, n) \in Seq(CallInfo) /\ Len(SubSeq(g, 1, n)) = n
         /\ \A i \in 1 .. n : SubSeq(g, 1, n)[i] = g[i] /\ i \in 1 .. Len(g)
         /\ SameProtected(SubSeq(g, 1, n), g, n)
         /\ FrameHandler(SubSeq(g, 1, n), n) = FrameHandler(g, n)
<1> DEFINE h == SubSeq(g, 1, n)
<1>1. h \in Seq(CallInfo) /\ Len(h) = n /\ \A i \in 1 .. n : h[i] = g[i]
  BY FirstOnes
<1>2. n \in Nat /\ Len(g) \in Nat
  OBVIOUS
<1>3. \A i \in 1 .. n : i \in 1 .. Len(g)
  BY <1>2
<1> HIDE DEF h
<1>4. /\ \A i \in Ypcalls(h) : i \in 1 .. n /\ ~h[i].lua /\ h[i].ypcall
      /\ \A i \in 1 .. n : ~h[i].lua /\ h[i].ypcall => i \in Ypcalls(h)
      /\ \A i \in Ypcalls(g) : i \in 1 .. Len(g) /\ ~g[i].lua /\ g[i].ypcall
      /\ \A i \in 1 .. Len(g) : ~g[i].lua /\ g[i].ypcall => i \in Ypcalls(g)
  BY <1>1, YpcallsAre
<1>5. SameProtected(h, g, n)
  BY <1>1, <1>3, <1>4 DEF SameProtected
<1>6. \A i \in Ypcalls(h) \cup Ypcalls(g) : i <= n => i \in 1 .. n
  BY <1>2, <1>4
<1>7. FrameHandler(h, n) = FrameHandler(g, n)
  BY <1>1, <1>5, <1>6, SameHandler
<1> QED BY <1>1, <1>3, <1>5, <1>7 DEF h

\* An interrupted protected call of thread t catches an error of the resume j:
\* i is its frame, g the frames up to it, ef2 the error functions afterwards.
Recovers(c, f, ef, j, t, i, g, ef2) ==
  /\ c[j].fn = "lua_resume" /\ t = c[j].th /\ t = c[Len(c)].th
  /\ Ypcalls(f[t]) # {} /\ i = Max(Ypcalls(f[t])) /\ g = SubSeq(f[t], 1, i)
  /\ ef2 = IF g[Len(g)].ypcall THEN [ef EXCEPT ![t] = g[Len(g)].old_errfunc] ELSE ef

\* An interrupted protected call catches an error of its thread.
LEMMA RecoverStep ==
  ASSUME NEW c, NEW f, NEW st, NEW ny, NEW nc, NEW ef, NEW ah, NEW un,
         Inv(c, f, st, ny, nc, ef, ah, un), NEW j \in 2 .. Len(c), j < Len(c),
         NEW t, NEW i, NEW g, NEW ef2, Recovers(c, f, ef, j, t, i, g, ef2)
  PROVE  Inv(Append(SubSeq(c, 1, j), [fn |-> "C", th |-> t, level |-> Len(g)]),
             [f EXCEPT ![t] = [g EXCEPT ![Len(g)].ypcall = FALSE]], st,
             [ny EXCEPT ![t] = 0], [nc EXCEPT ![t] = c[j].nCcalls], ef2,
             [ah EXCEPT ![t] = f[t][i].oah], un)
<1> DEFINE d == SubSeq(c, 1, j)
           f1 == [f EXCEPT ![t] = g]
           ny2 == [ny EXCEPT ![t] = 0]
           nc2 == [nc EXCEPT ![t] = c[j].nCcalls]
           ef1 == [ef EXCEPT ![t] = FrameHandler(g, i)]
           ah2 == [ah EXCEPT ![t] = f[t][i].oah]
<1> HIDE DEF d, f1, ny2, nc2, ef1, ah2
<1>1. Parts(c, f, st, ny, nc, ef, ah, un)
  BY PartsRight
<1>0. c[j].fn = "lua_resume" /\ c[j].th = t /\ c[Len(c)].th = t
  BY DEF Recovers
<1>a. ef2 = IF g[Len(g)].ypcall THEN [ef EXCEPT ![t] = g[Len(g)].old_errfunc] ELSE ef
  BY Zenon DEF Recovers
<1>2. Stack(c) /\ Continuations(c, f, st) /\ ThreadsRight(c, f, st, un)
  BY DEF Inv
<1>3. /\ c \in Seq(Activation) /\ t \in Thread /\ f[t] \in Seq(CallInfo)
      /\ Len(f[t]) \in Nat /\ Len(c) \in Nat
      /\ f \in [Thread -> Seq(CallInfo)] /\ ny \in [Thread -> Nat]
      /\ nc \in [Thread -> Nat] /\ ef \in [Thread -> Nat] /\ ah \in [Thread -> BOOLEAN]
  <2>1. t \in Thread
    BY <1>0, <1>1 DEF Parts
  <2> QED BY <1>1, <2>1 DEF Parts
<1>4. /\ j \in 1 .. Len(c) /\ c[j].nCcalls = CCallsIn(c, j) /\ c[j].nCcalls \in Nat
  BY <1>0, ResumeFinds
<1>5. c[j].entered
  BY <1>0, <1>2, <1>3, <1>4, EnteredBelow
<1>6. st[t] = "LUA_OK" /\ t \notin un
  <2>1. c \in Seq(Activation) /\ j \in 1 .. Len(c)
    BY <1>3, <1>4
  <2>2. st[c[j].th] = "LUA_OK" /\ c[j].th \notin un
    BY <1>2, <1>5, <2>1, Running
  <2> QED BY <1>0, <2>2
<1>7. /\ i \in Ypcalls(f[t]) /\ i \in 1 .. Len(f[t]) /\ i \in 0 .. Len(f[t]) /\ i \in Nat /\ i > 0
      /\ \A k \in Ypcalls(f[t]) : k <= i
  <2>1. Ypcalls(f[t]) \in SUBSET (1 .. Len(f[t]))
    BY <1>3, YpcallsAre
  <2>2. i \in Ypcalls(f[t]) /\ \A k \in Ypcalls(f[t]) : k <= i
    <3> DEFINE S == Ypcalls(f[t])
               n == Len(f[t])
    <3>1. n \in Nat /\ S \in SUBSET (1 .. n)
      BY <1>3, <2>1
    <3>2. S # {} /\ i = Max(S)
      BY DEF Recovers
    <3> HIDE DEF S, n
    <3>3. Max(S) \in S /\ \A k \in S : k <= Max(S)
      BY <3>1, <3>2, LastPosition
    <3>4. i \in S /\ \A k \in S : k <= i
      BY <3>2, <3>3
    <3> QED BY <3>4 DEF S
  <2>3. i \in 1 .. Len(f[t]) /\ Len(f[t]) \in Nat
    BY <1>3, <2>1, <2>2
  <2>4. i \in 0 .. Len(f[t]) /\ i \in Nat /\ i > 0
    BY <2>3
  <2> QED BY <2>2, <2>3, <2>4
<1>8. /\ g \in Seq(CallInfo) /\ Len(g) = i
      /\ \A k \in 1 .. i : g[k] = f[t][k] /\ k \in 1 .. Len(f[t])
      /\ SameProtected(g, f[t], i)
  <2> DEFINE s == f[t]
  <2>1. s \in Seq(CallInfo) /\ i \in 0 .. Len(s) /\ g = SubSeq(s, 1, i)
    BY <1>3, <1>7 DEF Recovers
  <2> HIDE DEF s
  <2>2. /\ g \in Seq(CallInfo) /\ Len(g) = i
        /\ \A k \in 1 .. i : g[k] = s[k] /\ k \in 1 .. Len(s)
        /\ SameProtected(g, s, i)
    BY <2>1, FirstFrames
  <2> QED BY <2>2 DEF s
<1>9. /\ ~f[t][i].lua /\ f[t][i].ypcall /\ f[t][i].oah /\ f[t][i].k = "k"
      /\ f[t][i] \in CFrame
  <2>1. ~f[t][i].lua /\ f[t][i].ypcall
    BY <1>3, <1>7, YpcallsAre
  <2>2. f[t][i].oah /\ f[t][i].k = "k"
    BY <1>2, <1>3, <1>7 DEF Continuations, ContinuationsOf
  <2>3. f[t][i] \in CallInfo
    BY <1>3, <1>7
  <2> QED BY <2>1, <2>2, <2>3 DEF CallInfo, LuaFrame
<1>10. g[i] = f[t][i] /\ i \in 1 .. i
  <2>1. i \in 1 .. i
    BY <1>7
  <2> QED BY <1>8, <2>1
<1>11. /\ f1 \in [Thread -> Seq(CallInfo)] /\ f1[t] = g /\ OnlyFor(t, f1, f)
  BY <1>3, <1>8 DEF f1, OnlyFor
<1>12. ny2 \in [Thread -> Nat] /\ ny2[t] = 0 /\ OnlyFor(t, ny2, ny)
  BY <1>3 DEF ny2, OnlyFor
<1>13. nc2 \in [Thread -> Nat] /\ nc2[t] = CCallsIn(c, j) /\ OnlyFor(t, nc2, nc)
  BY <1>3, <1>4 DEF nc2, OnlyFor
<1>14. FrameHandler(g, i) \in Nat
  <2>1. {k \in Ypcalls(g) : k <= i} \in SUBSET (1 .. Len(g)) /\ Len(g) \in Nat
    BY <1>8, YpcallsAre
  <2>2. CASE {k \in Ypcalls(g) : k <= i} = {}
    BY <2>2 DEF FrameHandler
  <2>3. CASE {k \in Ypcalls(g) : k <= i} # {}
    <3>1. Max({k \in Ypcalls(g) : k <= i}) \in 1 .. Len(g)
      BY <2>1, <2>3, LastPosition
    <3> QED BY <3>1 DEF FrameHandler, HandlerOf
  <2> QED BY <2>2, <2>3
<1>15. ef1 \in [Thread -> Nat] /\ ef1[t] = FrameHandler(g, i) /\ OnlyFor(t, ef1, ef)
  BY <1>3, <1>14 DEF ef1, OnlyFor
<1>16. ah2 \in [Thread -> BOOLEAN] /\ ah2[t] /\ OnlyFor(t, ah2, ah)
  <2>1. f[t][i].oah \in BOOLEAN
    BY <1>9 DEF CFrame
  <2> QED BY <1>3, <1>9, <2>1 DEF ah2, OnlyFor
<1>17. /\ Cut(c, d, j) /\ d[j] = c[j] /\ Len(d) = j /\ d \in Seq(Activation)
  <2>1. j \in 1 .. j
    BY <1>3
  <2>2. Cut(c, SubSeq(c, 1, j), j) /\ SubSeq(c, 1, j)[j] = c[j] /\ Len(SubSeq(c, 1, j)) = j
    BY <1>3, <1>4, <2>1, CutIsCut DEF Cut
  <2> QED BY <2>2 DEF d, Cut
<1>18. NoContinuation(f1, t) = {}
  <2> SUFFICES ASSUME NEW k \in 1 .. i, ~g[k].lua, g[k].k # "k" PROVE FALSE
    BY <1>8, <1>11 DEF NoContinuation
  <2>1. k \in NoContinuation(f, t) /\ k # i /\ k \in Nat /\ k < i
    <3>1. k \in 1 .. Len(f[t]) /\ g[k] = f[t][k]
      BY <1>8
    <3>2. k \in NoContinuation(f, t)
      BY <3>1 DEF NoContinuation
    <3>3. k # i
      BY <1>9, <1>10
    <3>4. k \in Nat /\ k < i
      BY <1>7, <3>3
    <3> QED BY <3>2, <3>3, <3>4
  <2>2. ContinuationsOf(c, f, st, t)
    BY <1>2, <1>3 DEF Continuations
  <2>3. ~errorstatus(st[t])
    BY <1>6 DEF errorstatus, Errors
  <2>4. \/ \E q \in BarsOf(c, t) : c[q].level = k
        \/ k = Len(f[t])
    BY <2>1, <2>2, <2>3 DEF ContinuationsOf
  <2>5. \A q \in BarsOf(c, t) : c[q].level >= i
    BY <1>7, <2>2, <2>3, SMTT(30) DEF ContinuationsOf
  <2>6. k # Len(f[t])
    BY <1>7, <2>1
  <2>7. PICK q \in BarsOf(c, t) : c[q].level = k
    BY <2>4, <2>6
  <2>8. k >= i
    BY <2>5, <2>7
  <2> QED BY <1>7, <2>1, <2>8
<1>19. \A k \in Ypcalls(g) : g[k].oah /\ g[k].k = "k"
  <2>1. \A k \in Ypcalls(g) : k \in 1 .. i
    BY <1>8, YpcallsAre
  <2>2. \A k \in Ypcalls(g) : k \in Ypcalls(f[t])
    BY <1>8, <2>1 DEF SameProtected
  <2>3. \A k \in Ypcalls(f[t]) : f[t][k].oah /\ f[t][k].k = "k"
    BY <1>2, <1>3 DEF Continuations, ContinuationsOf
  <2> QED BY <1>8, <2>1, <2>2, <2>3
<1>20. Unrolls(c, f, st, ny, nc, ef, ah, un, d, j, f1, st, ny2, nc2, ef1, ah2, un)
  <2>1. st[t] \notin Errors
    BY <1>6 DEF Errors
  <2>2. OnlyFor(t, st, st) /\ OnlySetFor(t, un, un)
    BY DEF OnlyFor, OnlySetFor
  <2>3. /\ f1[t] = g /\ SameProtected(f1[t], f[t], Len(f1[t]))
        /\ ef1[t] = FrameHandler(f1[t], Len(f1[t]))
        /\ \A k \in Ypcalls(f1[t]) : f1[t][k].oah /\ f1[t][k].k = "k"
    BY <1>8, <1>11, <1>15, <1>19
  <2>4. d[j].entered /\ Cut(c, d, j) /\ nc2[t] = CCallsIn(c, j)
    BY <1>5, <1>13, <1>17
  <2>5. OnlyFor(t, f1, f) /\ OnlyFor(t, ny2, ny) /\ OnlyFor(t, nc2, nc) /\ OnlyFor(t, ef1, ef)
    BY <1>11, <1>12, <1>13, <1>15
  <2>6. ny2[t] = 0 /\ ah2[t] /\ OnlyFor(t, ah2, ah)
    BY <1>12, <1>16
  <2> QED BY <1>0, <1>6, <1>18, <2>1, <2>2, <2>3, <2>4, <2>5, <2>6 DEF Unrolls
<1>21. Inv(d, f1, st, ny2, nc2, ef1, ah2, un)
  <2>1. Typed(d, f1, st, ny2, nc2, ef1, ah2, un)
    BY <1>1, <1>11, <1>12, <1>13, <1>15, <1>16, <1>17 DEF Typed, Parts
  <2> QED BY <1>20, <2>1, UnrollStep
<1>22. Inv(Append(d, [fn |-> "C", th |-> t, level |-> Len(f1[t])]),
           [f1 EXCEPT ![t] = [f1[t] EXCEPT ![Len(f1[t])].ypcall = FALSE]],
           st, ny2, nc2, ef2, ah2, un)
  <2>1. t = d[Len(d)].th /\ d[Len(d)].fn = "lua_resume" /\ d[Len(d)].entered
    BY <1>0, <1>5, <1>17
  <2>2. f1[t] # <<>>
    BY <1>7, <1>8, <1>11
  <2>3. ~f1[t][Len(f1[t])].lua
    BY <1>8, <1>9, <1>10, <1>11
  <2>4. ef2 = [ef1 EXCEPT ![t] = g[Len(g)].old_errfunc]
    <3>1. g[Len(g)].ypcall
      BY <1>8, <1>9, <1>10
    <3>2. ef2 = [ef EXCEPT ![t] = g[Len(g)].old_errfunc]
      BY <1>a, <3>1
    <3>3. [ef1 EXCEPT ![t] = g[Len(g)].old_errfunc] = [ef EXCEPT ![t] = g[Len(g)].old_errfunc]
      BY <1>3 DEF ef1
    <3> QED BY <3>2, <3>3
  <2>5. ef2 = IF f1[t][Len(f1[t])].ypcall
              THEN [ef1 EXCEPT ![t] = f1[t][Len(f1[t])].old_errfunc] ELSE ef1
    <3>1. f1[t][Len(f1[t])].ypcall /\ f1[t] = g
      BY <1>8, <1>9, <1>10, <1>11
    <3> QED BY <2>4, <3>1
  <2> QED BY <1>21, <2>1, <2>2, <2>3, <2>5, FinishStep
<1>23. /\ [f1 EXCEPT ![t] = [f1[t] EXCEPT ![Len(f1[t])].ypcall = FALSE]] =
             [f EXCEPT ![t] = [g EXCEPT ![Len(g)].ypcall = FALSE]]
  BY <1>3, <1>11 DEF f1
<1> QED BY <1>11, <1>22, <1>23 DEF d, ny2, nc2, ah2

\* lua_resume enters resume: the frame of a C function that yielded without a
\* continuation is dropped.
EnterOf(c, f, t, d, f2) ==
  /\ c[Len(c)].fn = "lua_resume" /\ ~c[Len(c)].entered /\ t = c[Len(c)].th
  /\ d = [c EXCEPT ![Len(c)].entered = TRUE]
  /\ IF f[t] # <<>> /\ ~f[t][Len(f[t])].lua /\ f[t][Len(f[t])].k = "NULL"
     THEN f2 = [f EXCEPT ![t] = SubSeq(f[t], 1, Len(f[t]) - 1)] ELSE f2 = f

\* lua_resume enters resume, which takes the thread out of its sleep.
LEMMA ResumeEnters ==
  ASSUME NEW c, NEW f, NEW st, NEW ny, NEW nc, NEW ef, NEW ah, NEW un,
         Inv(c, f, st, ny, nc, ef, ah, un), NEW t, NEW d, NEW f2, EnterOf(c, f, t, d, f2)
  PROVE  Inv(d, f2, [st EXCEPT ![t] = "LUA_OK"], ny, nc, ef, ah, un \ {t})
<1> USE DEF EnterOf
<1> DEFINE st2 == [st EXCEPT ![t] = "LUA_OK"]
           un2 == un \ {t}
           n == Len(f[t])
<1>1. Parts(c, f, st, ny, nc, ef, ah, un)
  BY PartsRight
<1>2. /\ Stack(c) /\ Continuations(c, f, st) /\ ThreadsRight(c, f, st, un)
      /\ CallsCounted(c, nc) /\ NnyCounted(c, ny) /\ HooksRight(c, st, ah)
      /\ Handlers(c, f, st, ef) /\ StackBounded(c)
  BY DEF Inv
<1>3. /\ c \in Seq(Activation) /\ t \in Thread /\ f[t] \in Seq(CallInfo)
      /\ n \in Nat /\ Len(c) \in Nat /\ Len(c) \in 1 .. Len(c)
      /\ f \in [Thread -> Seq(CallInfo)] /\ un \in SUBSET Thread
      /\ st \in [Thread -> {"LUA_OK", "LUA_YIELD"} \cup Errors]
  BY <1>1 DEF Parts
<1>4. Cut(c, d, Len(c)) /\ d[Len(c)].entered /\ d \in Seq(Activation)
  <2>1. c # <<>>
    BY <1>3
  <2> QED BY <1>3, <2>1, EnterIsCut DEF Cut
<1>5. /\ PcallsOf(c, t, Len(c)) = {} /\ AsideOf(c, t, Len(c)) = {}
      /\ NnyIn(c, t, Len(c)) = 0 /\ BarsOf(c, t) = {}
  <2>1. /\ PcallsOf(c, t, Len(c)) = {} /\ AsideOf(c, t, Len(c)) = {}
        /\ NnyIn(c, t, Len(c)) = 0
        /\ \A i \in 1 .. Len(c) : c[i].th = t => ~Bars(c[i])
    BY <1>2, <1>3, FirstOfThread
  <2> QED BY <2>1 DEF BarsOf
<1>6. st[t] = "LUA_YIELD" \/ (t \in un /\ st[t] = "LUA_OK" /\ f[t] = <<>>)
  <2>1. Len(c) \in ResumesOf(c, t)
    BY <1>3 DEF ResumesOf
  <2> QED BY <1>2, <1>3, <2>1 DEF ThreadsRight
<1>7. /\ st2 \in [Thread -> {"LUA_OK", "LUA_YIELD"} \cup Errors]
      /\ st2[t] = "LUA_OK" /\ OnlyFor(t, st2, st)
      /\ un2 \in SUBSET Thread /\ t \notin un2 /\ OnlySetFor(t, un2, un)
  BY <1>3 DEF OnlyFor, OnlySetFor
<1>8. ~errorstatus(st[t]) /\ st[t] \notin Errors
  BY <1>6 DEF errorstatus, Errors
<1>9. /\ nc[t] = CCallsIn(c, Len(c)) /\ ny[t] = 0 /\ ah[t]
  <2>1. nc[t] = CCallsIn(c, Len(c))
    BY <1>2 DEF CallsCounted
  <2>2. IsOn(c, t)
    BY <1>2, <1>3, OnTheStack
  <2>3. ny[t] = 0
    BY <1>2, <1>3, <1>5, <2>2 DEF NnyCounted
  <2>4. ah[t]
    BY <1>2, <1>3, <1>5, <1>8 DEF HooksRight
  <2> QED BY <2>1, <2>3, <2>4
<1>10. ContinuationsOf(c, f, st, t)
  BY <1>2, <1>3 DEF Continuations
<1>11. /\ \A i \in NoContinuation(f, t) : i = n /\ f[t][i].k = "NULL"
       /\ \A i \in Ypcalls(f[t]) : f[t][i].oah /\ f[t][i].k = "k"
  <2>1. CASE st[t] = "LUA_YIELD"
    BY <1>5, <1>8, <1>10, <2>1 DEF ContinuationsOf
  <2>2. CASE f[t] = <<>>
    BY <2>2 DEF NoContinuation, Ypcalls
  <2> QED BY <1>6, <2>1, <2>2
<1>12. ef[t] = FrameHandler(f[t], n)
  <2>1. HandlersOf(c, f, st, ef, t)
    BY <1>2, <1>3, HandlersParts
  <2> QED BY <1>5, <1>8, <2>1 DEF HandlersOf, HandlerAt
<1>13. /\ f2 \in [Thread -> Seq(CallInfo)] /\ OnlyFor(t, f2, f)
       /\ NoContinuation(f2, t) = {}
       /\ \A i \in Ypcalls(f2[t]) : f2[t][i].oah /\ f2[t][i].k = "k"
       /\ SameProtected(f2[t], f[t], Len(f2[t]))
       /\ ef[t] = FrameHandler(f2[t], Len(f2[t]))
  <2>1. CASE f[t] # <<>> /\ ~f[t][n].lua /\ f[t][n].k = "NULL"
    <3> DEFINE g == SubSeq(f[t], 1, n - 1)
    <3>1. n - 1 \in 0 .. n /\ n - 1 \in Nat /\ n \in 1 .. n
      BY <1>3, <2>1
    <3>2. /\ g \in Seq(CallInfo) /\ Len(g) = n - 1
          /\ \A i \in 1 .. n - 1 : g[i] = f[t][i] /\ i \in 1 .. n
          /\ SameProtected(g, f[t], n - 1)
          /\ FrameHandler(g, n - 1) = FrameHandler(f[t], n - 1)
      BY <1>3, <3>1, FirstFrames
    <3>3. f2 = [f EXCEPT ![t] = g]
      BY <2>1
    <3> HIDE DEF g
    <3>4. /\ f2 \in [Thread -> Seq(CallInfo)] /\ OnlyFor(t, f2, f) /\ f2[t] = g
      BY <1>3, <3>2, <3>3 DEF OnlyFor
    <3>5. \A i \in 1 .. n - 1 : i # n
      BY <1>3
    <3>6. NoContinuation(f2, t) = {}
      <4> SUFFICES ASSUME NEW i \in NoContinuation(f2, t) PROVE FALSE
        OBVIOUS
      <4>1. i \in 1 .. n - 1 /\ ~g[i].lua /\ g[i].k # "k"
        BY <3>2, <3>4 DEF NoContinuation
      <4>2. i \in 1 .. n /\ g[i] = f[t][i]
        BY <3>2, <4>1
      <4>3. i \in NoContinuation(f, t)
        BY <4>1, <4>2 DEF NoContinuation
      <4> QED BY <1>11, <3>5, <4>1, <4>3
    <3>7. \A i \in Ypcalls(g) : i \in Ypcalls(f[t]) /\ i \in 1 .. n - 1
      <4>1. \A i \in Ypcalls(g) : i \in 1 .. n - 1
        BY <3>2, YpcallsAre
      <4> QED BY <3>2, <4>1 DEF SameProtected
    <3>8. \A i \in Ypcalls(g) : g[i].oah /\ g[i].k = "k"
      BY <1>11, <3>2, <3>7
    <3>9. FrameHandler(f[t], n - 1) = FrameHandler(f[t], n)
      <4>1. n \notin Ypcalls(f[t])
        BY <1>11, <2>1
      <4>2. \A i \in Ypcalls(f[t]) : i \in 1 .. n /\ i # n
        BY <1>3, <4>1, YpcallsAre
      <4>3. \A i \in Ypcalls(f[t]) : i <= n - 1 <=> i <= n
        BY <1>3, <4>2
      <4> QED BY <4>3, NoneAbove
    <3> QED BY <1>12, <3>2, <3>4, <3>6, <3>8, <3>9
  <2>2. CASE ~(f[t] # <<>> /\ ~f[t][n].lua /\ f[t][n].k = "NULL")
    <3>1. f2 = f
      BY <2>2
    <3>2. NoContinuation(f, t) = {}
      <4>1. n \notin NoContinuation(f, t)
        <5>1. CASE f[t] = <<>>
          BY <5>1 DEF NoContinuation
        <5>2. CASE f[t] # <<>>
          BY <1>11, <2>2, <5>2 DEF NoContinuation
        <5> QED BY <5>1, <5>2
      <4> QED BY <1>11, <4>1
    <3> QED BY <1>3, <1>11, <1>12, <3>1, <3>2 DEF OnlyFor, SameProtected
  <2> QED BY <2>1, <2>2
<1>14. CCallsIn(c, Len(c)) < ErrorCCalls
  <2>1. ~Waits(c[Len(c)])
    BY DEF Waits
  <2> QED BY <1>2, <1>3, <2>1, NotFull
<1> HIDE DEF st2, un2
<1>15. Unrolls(c, f, st, ny, nc, ef, ah, un, d, Len(c), f2, st2, ny, nc, ef, ah, un2)
  <2>1. OnlyFor(t, ny, ny) /\ OnlyFor(t, nc, nc) /\ OnlyFor(t, ef, ef) /\ OnlyFor(t, ah, ah)
    BY DEF OnlyFor
  <2> QED BY <1>4, <1>7, <1>8, <1>9, <1>13, <1>14, <2>1 DEF Unrolls
<1>16. Typed(d, f2, st2, ny, nc, ef, ah, un2)
  BY <1>1, <1>4, <1>7, <1>13 DEF Typed, Parts
<1>17. Inv(d, f2, st2, ny, nc, ef, ah, un2)
  BY <1>15, <1>16, UnrollStep
<1> QED BY <1>17 DEF st2, un2

\* The frames of a thread when it yields: the last one has got its continuation.
YieldFrames(g, h) ==
  /\ h # <<>> /\ Len(h) \notin Ypcalls(h)
  /\ Len(g) = Len(h) /\ \A i \in 1 .. Len(h) : i < Len(h) => g[i] = h[i]
  /\ ~g[Len(h)].lua => g[Len(h)].k \in {"k", "NULL"} /\ ~g[Len(h)].ypcall

\* Each thread has hooks on or off.
HooksTyped(ah) == ah \in [Thread -> BOOLEAN]

\* A coroutine yields.
LEMMA YieldStep ==
  ASSUME NEW c, NEW f, NEW st, NEW ny, NEW nc, NEW ef, NEW ah, NEW un,
         Inv(c, f, st, ny, nc, ef, ah, un), NEW j \in 2 .. Len(c), j < Len(c),
         c[j].fn = "lua_resume", NEW t, t = c[j].th, t = c[Len(c)].th,
         c[Len(c)].fn # "luaD_pcall", ny[t] = 0,
         NEW f2, FramesTyped(f2), OnlyFor(t, f2, f), YieldFrames(f2[t], f[t]),
         NEW ah2, HooksTyped(ah2), OnlyFor(t, ah2, ah), ah2[t]
  PROVE  Inv(SubSeq(c, 1, j - 1), f2, [st EXCEPT ![t] = "LUA_YIELD"],
             [ny EXCEPT ![t] = c[j].nny], [nc EXCEPT ![t] = c[j].nCcalls - 1],
             ef, ah2, un)
<1> DEFINE st2 == [st EXCEPT ![t] = "LUA_YIELD"]
           ny2 == [ny EXCEPT ![t] = c[j].nny]
           nc2 == [nc EXCEPT ![t] = c[j].nCcalls - 1]
           n == Len(f[t])
<1>1. Parts(c, f, st, ny, nc, ef, ah, un)
  BY PartsRight
<1>2. /\ Stack(c) /\ Continuations(c, f, st) /\ ThreadsRight(c, f, st, un)
      /\ CallsCounted(c, nc) /\ NnyCounted(c, ny) /\ HooksRight(c, st, ah)
      /\ Handlers(c, f, st, ef)
  BY DEF Inv
<1>3. /\ c \in Seq(Activation) /\ t \in Thread /\ f[t] \in Seq(CallInfo)
      /\ n \in Nat /\ Len(c) \in Nat /\ Len(c) \in 1 .. Len(c)
      /\ f \in [Thread -> Seq(CallInfo)]
      /\ st \in [Thread -> {"LUA_OK", "LUA_YIELD"} \cup Errors]
      /\ ny \in [Thread -> Nat] /\ nc \in [Thread -> Nat] /\ ah \in [Thread -> BOOLEAN]
  BY <1>1 DEF Parts
<1>4. /\ j - 1 \in 1 .. Len(c) /\ j - 1 < Len(c) /\ (j - 1) + 1 = j
      /\ c[j].nCcalls - 1 \in Nat /\ c[j].nny = 1 /\ j \in 1 .. Len(c)
  <2>1. j \in 1 .. Len(c) /\ j - 1 \in 1 .. Len(c) /\ j - 1 < Len(c) /\ (j - 1) + 1 = j
    BY <1>3
  <2>2. c[j].nCcalls - 1 \in Nat /\ c[j].nny = 1
    BY ResumeFinds
  <2> QED BY <2>1, <2>2
<1>5. st[t] = "LUA_OK" /\ t \notin un
  <2>1. c \in Seq(Activation) /\ j \in 1 .. Len(c)
    BY <1>3, <1>4
  <2>2. c[j].entered
    BY <1>2, <2>1, EnteredBelow
  <2>3. st[c[j].th] = "LUA_OK" /\ c[j].th \notin un
    BY <1>2, <2>1, <2>2, Running
  <2> QED BY <2>3
<1>6. /\ ny[t] = NnyIn(c, t, Len(c)) /\ NnyIn(c, t, Len(c)) = 0
  <2>1. st[c[Len(c)].th] = "LUA_OK" /\ c \in Seq(Activation)
    BY <1>3, <1>5
  <2>2. ny[c[Len(c)].th] = NnyIn(c, c[Len(c)].th, Len(c))
    BY <1>2, <2>1, Counted
  <2> QED BY <2>2
<1>7. PcallsOf(c, t, Len(c)) = {} /\ BarsOf(c, t) = {}
  <2>1. c \in Seq(Activation) /\ Len(c) \in Nat
    BY <1>3
  <2>2. PcallsOf(c, t, Len(c)) = {}
    BY <1>2, <1>6, <2>1, NoPcalls
  <2>3. \A i \in 1 .. Len(c) : c[i].th = t => ~Bars(c[i])
    BY <1>6, <2>1, NothingBarred
  <2> QED BY <2>2, <2>3 DEF BarsOf
<1>8. ~errorstatus(st[t]) /\ st[t] \notin Errors
  BY <1>5 DEF errorstatus, Errors
<1>9. ef[t] = FrameHandler(f[t], n)
  <2>1. HandlersOf(c, f, st, ef, t)
    BY <1>2, <1>3, HandlersParts
  <2> QED BY <1>7, <1>8, <2>1 DEF HandlersOf, HandlerAt
<1>10. /\ \A i \in NoContinuation(f, t) : i = n
       /\ \A i \in Ypcalls(f[t]) : f[t][i].oah /\ f[t][i].k = "k"
  <2>1. ContinuationsOf(c, f, st, t)
    BY <1>2, <1>3 DEF Continuations
  <2> QED BY <1>7, <1>8, <2>1 DEF ContinuationsOf
<1>11. /\ st2 \in [Thread -> {"LUA_OK", "LUA_YIELD"} \cup Errors]
       /\ st2[t] = "LUA_YIELD" /\ OnlyFor(t, st2, st)
  BY <1>3 DEF OnlyFor
<1>12. /\ ny2 \in [Thread -> Nat] /\ ny2[t] = 1 /\ OnlyFor(t, ny2, ny)
  BY <1>3, <1>4 DEF OnlyFor
<1>13. nc2 \in [Thread -> Nat] /\ OnlyFor(t, nc2, nc)
  BY <1>3, <1>4 DEF OnlyFor
<1>14. ah2 \in [Thread -> BOOLEAN] /\ OnlyFor(t, ah2, ah)
  BY DEF HooksTyped
<1>15. SubSeq(c, 1, j - 1) \in Seq(Activation)
  BY <1>3, <1>4, CutIsCut DEF Cut
<1>16. f2 \in [Thread -> Seq(CallInfo)]
  BY DEF FramesTyped
<1> HIDE DEF st2, ny2, nc2
<1>17. Typed(SubSeq(c, 1, j - 1), f2, st2, ny2, nc2, ef, ah2, un)
  BY <1>1, <1>11, <1>12, <1>13, <1>14, <1>15, <1>16 DEF Typed, Parts
<1>18. f2[t] \in Seq(CallInfo)
  BY <1>3, <1>16
<1>19. /\ n \in 1 .. n /\ n \notin Ypcalls(f[t]) /\ Len(f2[t]) = n
       /\ \A i \in 1 .. n : i # n => f2[t][i] = f[t][i]
       /\ ~f2[t][n].lua => f2[t][n].k \in {"k", "NULL"} /\ ~f2[t][n].ypcall
  <2>1. n \in 1 .. n
    BY <1>3 DEF YieldFrames
  <2>2. \A i \in 1 .. n : i # n => i < n
    BY <1>3
  <2> QED BY <2>1, <2>2 DEF YieldFrames
<1>20. /\ \A i \in Ypcalls(f2[t]) : i \in 1 .. n /\ ~f2[t][i].lua /\ f2[t][i].ypcall
       /\ \A i \in 1 .. n : ~f2[t][i].lua /\ f2[t][i].ypcall => i \in Ypcalls(f2[t])
       /\ \A i \in Ypcalls(f[t]) : i \in 1 .. n /\ ~f[t][i].lua /\ f[t][i].ypcall
       /\ \A i \in 1 .. n : ~f[t][i].lua /\ f[t][i].ypcall => i \in Ypcalls(f[t])
  BY <1>3, <1>18, <1>19, YpcallsAre
<1>21. n \notin Ypcalls(f2[t])
  BY <1>19, <1>20
<1>22. SameProtected(f2[t], f[t], n)
  <2>1. \A i \in 1 .. n : i \in Ypcalls(f2[t]) <=> i \in Ypcalls(f[t])
    BY <1>19, <1>20, <1>21
  <2>2. \A i \in Ypcalls(f2[t]) : f2[t][i] = f[t][i]
    BY <1>19, <1>20, <1>21
  <2> QED BY <2>1, <2>2 DEF SameProtected
<1>23. ef[t] = FrameHandler(f2[t], n)
  <2>1. \A i \in Ypcalls(f2[t]) \cup Ypcalls(f[t]) : i <= n => i \in 1 .. n
    BY <1>20
  <2>2. FrameHandler(f2[t], n) = FrameHandler(f[t], n)
    BY <1>3, <1>18, <1>22, <2>1, SameHandler
  <2> QED BY <1>9, <2>2
<1>24. CanEnd(f2, st2, t)
  <2>1. \A i \in NoContinuation(f2, t) : i = n /\ f2[t][i].k = "NULL"
    <3> SUFFICES ASSUME NEW i \in NoContinuation(f2, t) PROVE i = n /\ f2[t][i].k = "NULL"
      OBVIOUS
    <3>1. i \in 1 .. n /\ ~f2[t][i].lua /\ f2[t][i].k # "k"
      BY <1>19 DEF NoContinuation
    <3>2. i # n => i \in NoContinuation(f, t)
      BY <1>19, <3>1 DEF NoContinuation
    <3>3. i = n
      BY <1>10, <3>2
    <3> QED BY <1>19, <3>1, <3>3
  <2>2. \A i \in Ypcalls(f2[t]) : f2[t][i].oah /\ f2[t][i].k = "k"
    <3>1. \A i \in Ypcalls(f2[t]) : i \in 1 .. n /\ i # n /\ i \in Ypcalls(f[t])
      BY <1>20, <1>21, <1>22 DEF SameProtected
    <3>2. \A i \in 1 .. n : i # n => f2[t][i] = f[t][i]
      BY <1>19
    <3> QED BY <1>10, <3>1, <3>2
  <2> QED BY <1>19, <2>1, <2>2 DEF CanEnd
<1>25. Ends(c, f, st, ny, nc, ef, ah, un, j - 1, f2, st2, ny2, nc2, ah2, un)
  <2>1. st2[t] \notin Errors /\ st2[t] # "LUA_OK"
    BY <1>11 DEF Errors
  <2>2. c[(j - 1) + 1].fn = "lua_resume" /\ c[(j - 1) + 1].th = t
    BY <1>4
  <2>3. OnlySetFor(t, un, un)
    BY DEF OnlySetFor
  <2>4. f2[t] # <<>> /\ Len(f2[t]) \notin Ypcalls(f2[t])
    <3>1. Len(f2[t]) = n /\ n \in 1 .. n
      BY <1>19
    <3>2. f2[t] # <<>>
      BY <3>1
    <3> QED BY <1>21, <3>1, <3>2
  <2>5. /\ OnlyFor(t, f2, f) /\ OnlyFor(t, st2, st) /\ OnlyFor(t, ny2, ny)
        /\ OnlyFor(t, nc2, nc) /\ OnlyFor(t, ah2, ah)
    BY <1>11, <1>12, <1>13, <1>14, <1>19
  <2>6. SameProtected(f2[t], f[t], Len(f2[t])) /\ ef[t] = FrameHandler(f2[t], Len(f2[t]))
    BY <1>19, <1>22, <1>23
  <2>7. t \notin un /\ ny2[t] = 1 /\ st[t] \notin Errors /\ ah2[t]
    BY <1>5, <1>8, <1>12, <1>14, <1>19
  <2>8. j - 1 \in 1 .. Len(c) /\ j - 1 < Len(c)
    BY <1>4
  <2> QED BY <1>24, <2>1, <2>2, <2>3, <2>4, <2>5, <2>6, <2>7, <2>8 DEF Ends
<1>26. Inv(SubSeq(c, 1, j - 1), f2, st2, ny2, nc2, ef, ah2, un)
  BY <1>17, <1>25, EndStep
<1> QED BY <1>26 DEF st2, ny2, nc2

-----------------------------------------------------------------------------
(* The actions preserve the invariant.                                     *)

\* Where the running thread is: L->ci is the frame that the C code works for.
LEMMA Here ==
  ASSUME IInv
  PROVE  /\ Parts(cs, ci, status, nny, nCcalls, errfunc, allowhook, unstarted)
         /\ Top \in Activation /\ L \in Thread /\ Depth(L) \in Nat
         /\ Top.fn \notin {"luaV_execute", "lua_resume"} => Depth(L) = Top.level
         /\ Top.fn = "luaV_execute" =>
              /\ Top.level > 0 /\ Depth(L) >= Top.level
              /\ \A i \in Top.level .. Depth(L) :
                   ci[L][i].lua /\ (ci[L][i].fresh <=> i = Top.level)
         /\ InFunction => ~TopFrame.lua
         /\ ~InHost => Len(cs) > 1
         /\ nCcalls[L] = CCallsIn(cs, Len(cs))
         /\ ~Waits(Top) => nCcalls[L] < ErrorCCalls
         /\ (Top.fn = "lua_resume" => Top.entered) => status[L] = "LUA_OK" /\ L \notin unstarted
<1> USE DEF IInv
<1>1. Parts(cs, ci, status, nny, nCcalls, errfunc, allowhook, unstarted)
  BY PartsRight
<1>2. /\ Stack(cs) /\ Frames(cs, ci) /\ CallsCounted(cs, nCcalls)
      /\ StackBounded(cs) /\ ThreadsRight(cs, ci, status, unstarted)
  BY DEF Inv
<1>3. /\ cs \in Seq(Activation) /\ Len(cs) \in 1 .. Len(cs) /\ Len(cs) \in Nat
      /\ Top \in Activation /\ L \in Thread /\ Depth(L) \in Nat
      /\ Top = cs[Len(cs)] /\ L = cs[Len(cs)].th /\ Top.level \in Nat
  BY <1>1 DEF Parts, Top, L, Depth
<1>4. LastOfThread(cs, Len(cs)) /\ LastFrame(cs, ci, Len(cs)) = Depth(L)
  BY <1>3 DEF LastOfThread, LastFrame, Depth
<1>5. Top.fn \notin {"luaV_execute", "lua_resume"} => Depth(L) = Top.level
  BY <1>2, <1>3, <1>4 DEF Frames, Depth
<1>6. Top.fn = "luaV_execute" =>
        /\ Top.level > 0 /\ Depth(L) >= Top.level
        /\ \A i \in Top.level .. Depth(L) :
             ci[L][i].lua /\ (ci[L][i].fresh <=> i = Top.level)
  <2>1. Top.fn = "luaV_execute" => Top.level > 0
    <3>1. ci \in [Thread -> Seq(CallInfo)]
      BY <1>1 DEF Parts
    <3>2. cs[Len(cs)].fn = "luaV_execute" => cs[Len(cs)].level > 0
      BY <1>2, <1>3, <3>1, LevelsRight
    <3> QED BY <1>3, <3>2
  <2>2. Top.level <= Depth(L)
    BY <1>2, <1>3 DEF Frames, Depth
  <2>3. Top.fn = "luaV_execute" =>
          \A i \in Top.level .. Depth(L) :
             ci[L][i].lua /\ (ci[L][i].fresh <=> i = Top.level)
    BY <1>2, <1>3, <1>4 DEF Frames
  <2> QED BY <1>3, <2>1, <2>2, <2>3
<1>7. InFunction => ~TopFrame.lua
  <2>1. InFunction => ~ci[L][Top.level].lua
    BY <1>2, <1>3 DEF Frames, InFunction
  <2> QED BY <1>5, <2>1 DEF InFunction, TopFrame
<1>8. ~InHost => Len(cs) > 1
  <2>1. Len(cs) = 1 => Top = Host
    BY <1>2, <1>3 DEF Stack
  <2>2. Top = Host => InHost
    BY DEF Host, InHost
  <2>3. Len(cs) = 1 \/ Len(cs) > 1
    BY <1>3
  <2> QED BY <2>1, <2>2, <2>3
<1>9. nCcalls[L] = CCallsIn(cs, Len(cs))
  BY <1>2, <1>3 DEF CallsCounted
<1>10. ~Waits(Top) => nCcalls[L] < ErrorCCalls
  BY <1>2, <1>3, <1>9, NotFull
<1>11. (Top.fn = "lua_resume" => Top.entered) => status[L] = "LUA_OK" /\ L \notin unstarted
  BY <1>2, <1>3, Running
<1> QED BY <1>1, <1>3, <1>5, <1>6, <1>7, <1>8, <1>9, <1>10, <1>11

\* A longjmp for an error ends in luaD_pcall, in an interrupted lua_pcallk, or in
\* lua_resume, and each puts back what is right where it goes on.
LEMMA ThrowStep ==
  ASSUME IInv, Len(cs) > 1, Top.fn = "lua_resume" => ci[L] = <<>>,
         NEW st \in Errors, NEW ah \in BOOLEAN, luaD_throw(st, ah)
  PROVE  IInv'
<1> DEFINE j == errorJmp
<1>1. Inv(cs, ci, status, nny, nCcalls, errfunc, allowhook, unstarted)
  BY DEF IInv
<1>2. /\ cs \in Seq(Activation) /\ Stack(cs) /\ Len(cs) \in Nat
      /\ Top = cs[Len(cs)] /\ L = cs[Len(cs)].th
  BY Here DEF Parts, Inv, IInv, Top, L
<1>3. Protectors(L) = {i \in 1 .. Len(cs) : /\ cs[i].fn \in {"luaD_pcall", "lua_resume"}
                                            /\ cs[i].th = cs[Len(cs)].th}
  BY <1>2 DEF Protectors
<1>4. /\ j \in Protectors(L) /\ j \in 2 .. Len(cs) /\ j - 1 \in 1 .. Len(cs)
  BY <1>2, <1>3, Jumps DEF errorJmp
<1>5. /\ cs[j].th = L /\ cs[j].fn \in {"luaD_pcall", "lua_resume"}
  BY <1>2, <1>3, <1>4
<1> HIDE DEF j
<1>6. CASE cs[j].fn = "luaD_pcall"
  <2>1. luaD_pcall_returns(j, st) /\ UNCHANGED <<status, unstarted>>
    BY <1>6 DEF luaD_throw, j
  <2>2. /\ nCcalls' = [nCcalls EXCEPT ![L] = cs[j].nCcalls]
        /\ errfunc' = [errfunc EXCEPT ![L] = cs[j].errfunc]
        /\ cs' = IF cs[j - 1].fn = "GCTM"
                 THEN [SubSeq(cs, 1, j - 1) EXCEPT ![j - 1].status = st]
                 ELSE SubSeq(cs, 1, j - 1)
        /\ st # "LUA_OK"
    BY <2>1 DEF luaD_pcall_returns, Errors
  <2>3. /\ ci' = [ci EXCEPT ![cs[j].th] = SubSeq(ci[cs[j].th], 1, cs[j].level)]
        /\ allowhook' = [allowhook EXCEPT ![cs[j].th] = cs[j].allowhook]
        /\ nny' = [nny EXCEPT ![cs[j].th] = cs[j].nny]
    BY <1>5, <2>1, <2>2 DEF luaD_pcall_returns
  <2>4. Cut(cs, cs', j - 1)
    BY <1>2, <1>4, <2>2, PcallCut
  <2>5. Inv(cs', ci', status, nny', [nCcalls EXCEPT ![cs[j].th] = cs[j].nCcalls],
            [errfunc EXCEPT ![cs[j].th] = cs[j].errfunc], allowhook', unstarted)
    <3>1. IF st = "LUA_OK" THEN ci' = ci /\ nny' = nny /\ allowhook' = allowhook
          ELSE /\ ci' = [ci EXCEPT ![cs[j].th] = SubSeq(ci[cs[j].th], 1, cs[j].level)]
               /\ nny' = [nny EXCEPT ![cs[j].th] = cs[j].nny]
               /\ allowhook' = [allowhook EXCEPT ![cs[j].th] = cs[j].allowhook]
      BY <2>2, <2>3
    <3>2. /\ st \in {"LUA_OK"} \cup Errors /\ (st = "LUA_OK" => j = Len(cs))
          /\ cs[j].th = cs[Len(cs)].th
      BY <1>2, <1>5, <2>2
    <3>3. PcallEnds(cs, ci, nny, allowhook, j, st, cs', ci', nny', allowhook')
      BY <1>4, <1>6, <2>4, <3>1, <3>2, Zenon DEF PcallEnds
    <3> QED BY <1>1, <3>3, PcallReturns
  <2> QED BY <1>5, <2>1, <2>2, <2>5 DEF IInv
<1>7. CASE cs[j].fn = "lua_resume" /\ Ypcalls(ci[L]) # {}
  <2> DEFINE i == Max(Ypcalls(ci[L]))
             g == SubSeq(ci[L], 1, i)
  <2>1. recover(j)
    BY <1>7 DEF luaD_throw, j
  <2>2. j < Len(cs)
    <3>1. Ypcalls(<<>>) = {}
      BY DEF Ypcalls
    <3>2. j # Len(cs)
      BY <1>2, <1>7, <3>1
    <3> QED BY <1>2, <1>4, <3>2
  <2>3. /\ cs' = Append(SubSeq(cs, 1, j), [fn |-> "C", th |-> L, level |-> Len(g)])
        /\ ci' = [ci EXCEPT ![L] = [g EXCEPT ![Len(g)].ypcall = FALSE]]
        /\ errfunc' = IF g[Len(g)].ypcall
                      THEN [errfunc EXCEPT ![L] = g[Len(g)].old_errfunc] ELSE errfunc
        /\ allowhook' = [allowhook EXCEPT ![L] = ci[L][i].oah]
        /\ nny' = [nny EXCEPT ![L] = 0]
        /\ nCcalls' = [nCcalls EXCEPT ![L] = cs[j].nCcalls]
        /\ status' = status /\ unstarted' = unstarted
    BY <2>1 DEF recover, finishCcall
  <2>4. Recovers(cs, ci, errfunc, j, L, i, g, errfunc')
    <3>1. cs[j].fn = "lua_resume" /\ L = cs[j].th /\ L = cs[Len(cs)].th
      BY <1>2, <1>5, <1>7
    <3>2. errfunc' = IF g[Len(g)].ypcall
                     THEN [errfunc EXCEPT ![L] = g[Len(g)].old_errfunc] ELSE errfunc
      BY <2>3
    <3> QED BY <1>7, <3>1, <3>2 DEF Recovers
  <2> HIDE DEF i, g
  <2>5. Inv(Append(SubSeq(cs, 1, j), [fn |-> "C", th |-> L, level |-> Len(g)]),
            [ci EXCEPT ![L] = [g EXCEPT ![Len(g)].ypcall = FALSE]], status,
            [nny EXCEPT ![L] = 0], [nCcalls EXCEPT ![L] = cs[j].nCcalls], errfunc',
            [allowhook EXCEPT ![L] = ci[L][i].oah], unstarted)
    <3>1. Inv(cs, ci, status, nny, nCcalls, errfunc, allowhook, unstarted)
      BY <1>1
    <3> HIDE DEF j
    <3> QED BY <1>4, <2>2, <2>4, <3>1, RecoverStep
  <2> QED BY <2>3, <2>5 DEF IInv
<1>8. CASE cs[j].fn = "lua_resume" /\ Ypcalls(ci[L]) = {}
  <2>1. /\ status' = [status EXCEPT ![L] = st] /\ unstarted' = unstarted \ {L}
        /\ allowhook' = [allowhook EXCEPT ![L] = ah] /\ ci' = ci
        /\ nny' = [nny EXCEPT ![L] = cs[j].nny]
        /\ nCcalls' = [nCcalls EXCEPT ![L] = cs[j].nCcalls - 1]
        /\ cs' = SubSeq(cs, 1, j - 1) /\ errfunc' = errfunc
    BY <1>8 DEF luaD_throw, lua_resume_returns, j
  <2>2. Inv(SubSeq(cs, 1, j - 1), ci, [status EXCEPT ![L] = st],
            [nny EXCEPT ![L] = cs[j].nny], [nCcalls EXCEPT ![L] = cs[j].nCcalls - 1],
            errfunc, [allowhook EXCEPT ![L] = ah], unstarted \ {L})
    BY <1>1, <1>2, <1>4, <1>5, <1>8, DieStep
  <2> QED BY <2>1, <2>2 DEF IInv
<1> QED BY <1>5, <1>6, <1>7, <1>8

\* luaD_call, from whatever runs.
LEMMA CallHere ==
  ASSUME IInv, NEW noyield \in BOOLEAN,
         NEW caller \in {"callk", "pcallk", "f_call", "luaT_callTM", "luaG_errormsg"},
         CallFrom(Top, CallRecord(L, Depth(L), caller, noyield)),
         nCcalls[L] < ErrorCCalls,
         ~noyield => CanInterrupt(CallRecord(L, Depth(L), caller, noyield),
                                  ci[L][Depth(L)], PcallsOf(cs, L, Len(cs))),
         luaD_call(caller, noyield, cs),
         UNCHANGED <<ci, status, errfunc, allowhook, unstarted>>
  PROVE  IInv'
<1> DEFINE a == CallRecord(L, Depth(L), caller, noyield)
<1>1. Inv(cs, ci, status, nny, nCcalls, errfunc, allowhook, unstarted)
  BY DEF IInv
<1>2. CCallsIn(cs, Len(cs)) < ErrorCCalls
  BY Here
<1>3. /\ cs' = Append(cs, a)
      /\ nny' = IF noyield THEN [nny EXCEPT ![L] = nny[L] + 1] ELSE nny
      /\ nCcalls' = [nCcalls EXCEPT ![L] = nCcalls[L] + 1]
  BY DEF luaD_call, CallActivation, CallRecord
<1>4. L = cs[Len(cs)].th /\ Top = cs[Len(cs)] /\ Depth(L) = Len(ci[L])
  BY DEF L, Top, Depth
<1>5. CallFrom(cs[Len(cs)], a)
  BY <1>4
<1>6. ~noyield => CanInterrupt(a, ci[L][Depth(L)], PcallsOf(cs, L, Len(cs)))
  OBVIOUS
<1>7. a = CallRecord(L, Depth(L), caller, noyield)
  OBVIOUS
<1> HIDE DEF a
<1>8. CallOf(cs, ci, nny, nCcalls, L, Depth(L), caller, noyield, a, cs', nny', nCcalls')
  BY <1>2, <1>3, <1>4, <1>5, <1>6, <1>7, Zenon DEF CallOf
<1>9. Inv(cs', ci, status, nny', nCcalls', errfunc, allowhook, unstarted)
  BY <1>1, <1>8, CallPushed
<1> QED BY <1>9 DEF IInv

\* The frame of what runs.
LEMMA FrameHere ==
  ASSUME IInv, Top.fn # "lua_resume", NEW caller, NEW noyield
  PROVE  SameLevel(Top, CallRecord(L, Depth(L), caller, noyield))
<1>1. /\ Top.fn # "luaV_execute" => Depth(L) = Top.level
      /\ Top.fn = "luaV_execute" => Depth(L) >= Top.level
  BY Here
<1>2. CallRecord(L, Depth(L), caller, noyield).level = Depth(L)
  BY DEF CallRecord
<1> QED BY <1>1, <1>2 DEF SameLevel

\* luaG_errormsg, in whatever runs or is about to be called.
LEMMA ErrormsgStep ==
  ASSUME IInv, RunsCode(Top) \/ Waits(Top), nCcalls[L] < ErrorCCalls, luaG_errormsg
  PROVE  IInv'
<1>1. Top.fn # "lua_resume" /\ ~InHost
  BY DEF RunsCode, UsesApi, Waits, InHost
<1>2. CASE errfunc[L] # 0
  <2>1. /\ luaD_call("luaG_errormsg", TRUE, cs)
        /\ UNCHANGED <<ci, status, errfunc, allowhook, unstarted>>
    BY <1>2 DEF luaG_errormsg
  <2>2. SameLevel(Top, CallRecord(L, Depth(L), "luaG_errormsg", TRUE))
    BY <1>1, FrameHere
  <2>3. CallFrom(Top, CallRecord(L, Depth(L), "luaG_errormsg", TRUE))
    BY <2>2 DEF CallFrom, CallRecord
  <2> QED BY <2>1, <2>3, CallHere
<1>3. CASE errfunc[L] = 0
  <2>1. luaD_throw("LUA_ERRRUN", allowhook[L])
    BY <1>3 DEF luaG_errormsg
  <2>2. Len(cs) > 1 /\ allowhook[L] \in BOOLEAN
    BY <1>1, Here DEF Parts, L, Top
  <2> QED BY <1>1, <2>1, <2>2, ThrowStep DEF Errors
<1> QED BY <1>2, <1>3

\* The error in whatever runs, or in the allocation it makes.
LEMMA AllocatesHere ==
  ASSUME IInv, Allocates
  PROVE  /\ Len(cs) > 1 /\ Top.fn # "lua_resume" /\ nCcalls[L] < ErrorCCalls
         /\ allowhook[L] \in BOOLEAN /\ (RunsCode(Top) \/ Waits(Top))
<1>1. Top.fn # "lua_resume" /\ ~InHost
  BY DEF Allocates, Runs, InHost
<1>2. RunsCode(Top) \/ Waits(Top)
  BY <1>1 DEF Allocates, Runs, InHost, RunsCode, UsesApi, Waits
<1>3. nCcalls[L] < ErrorCCalls
  BY Here DEF Allocates, Waits, Runs
<1>4. Len(cs) > 1 /\ allowhook[L] \in BOOLEAN
  BY <1>1, Here DEF Parts, L, Top
<1> QED BY <1>1, <1>2, <1>3, <1>4

\* RunError keeps the invariant.
LEMMA RunErrorRight == ASSUME IInv, RunError PROVE IInv'
<1>1. RunsCode(Top) /\ ~Waits(Top)
  BY DEF RunError, Runs, InHost, RunsCode, UsesApi, Waits
<1>2. nCcalls[L] < ErrorCCalls
  BY <1>1, Here
<1> QED BY <1>1, <1>2, ErrormsgStep DEF RunError

\* ThrowError keeps the invariant.
LEMMA ThrowErrorRight == ASSUME IInv, ThrowError PROVE IInv'
<1>1. Allocates /\ luaD_throw("LUA_ERRMEM", allowhook[L])
  BY DEF ThrowError
<1>2. Len(cs) > 1 /\ Top.fn # "lua_resume" /\ allowhook[L] \in BOOLEAN
  BY <1>1, AllocatesHere
<1> QED BY <1>1, <1>2, ThrowStep DEF Errors

\* An error in a finalizer that is thrown again keeps the invariant.
LEMMA GCTMRethrowsRight == ASSUME IInv, GCTM_rethrows PROVE IInv'
<1>1. Top.fn = "GCTM" /\ luaD_throw("LUA_ERRGCMM", Top.oldah)
  BY DEF GCTM_rethrows
<1>2. Len(cs) > 1 /\ Top.oldah \in BOOLEAN
  BY <1>1, Here, ActivationFields DEF InHost
<1> QED BY <1>1, <1>2, ThrowStep DEF Errors

\* A coroutine whose function cannot be called dies: the invariant stays.
LEMMA ResumeFailsRight == ASSUME IInv, resume_fails PROVE IInv'
<1>1. /\ Top.fn = "lua_resume" /\ ~Top.entered /\ status[L] = "LUA_OK"
      /\ luaG_errormsg
  BY DEF resume_fails
<1>2. /\ Inv(cs, ci, status, nny, nCcalls, errfunc, allowhook, unstarted)
      /\ Top = cs[Len(cs)] /\ L = cs[Len(cs)].th
  BY DEF IInv, L, Top
<1>3. /\ cs \in Seq(Activation) /\ Len(cs) \in 1 .. Len(cs) /\ Len(cs) \in Nat \ {0}
      /\ L \in Thread /\ allowhook[L] \in BOOLEAN /\ Len(cs) > 1
  BY <1>1, Here DEF Parts, L, Top, InHost
<1>4. /\ Stack(cs) /\ ThreadsRight(cs, ci, status, unstarted)
      /\ Handlers(cs, ci, status, errfunc)
  BY <1>2 DEF Inv
<1>5. L \in unstarted
  BY <1>1, <1>2, <1>3, <1>4 DEF ThreadsRight, ResumesOf
<1>6. ci[L] = <<>>
  BY <1>3, <1>4, <1>5 DEF ThreadsRight
<1>7. errfunc[L] = HandlerAt(cs, ci, L, Len(cs), Len(ci[L]))
  BY <1>1, <1>3, <1>4 DEF Handlers, errorstatus, Errors
<1>8. PcallsOf(cs, L, Len(cs)) = {}
  BY <1>1, <1>2, <1>3, <1>4, FirstOfThread
<1>9. Ypcalls(ci[L]) = {}
  BY <1>6 DEF Ypcalls
<1>10. errfunc[L] = 0
  BY <1>7, <1>8, <1>9 DEF HandlerAt, FrameHandler
<1>11. luaD_throw("LUA_ERRRUN", allowhook[L])
  BY <1>1, <1>10 DEF luaG_errormsg
<1> QED BY <1>3, <1>6, <1>11, ThrowStep DEF Errors

\* luaD_precall, in the call that it enters.
LEMMA CallEntersRight == ASSUME IInv, luaD_call_enters PROVE IInv'
<1>1. Top.fn = "luaD_call" /\ ~Top.entered
  BY DEF luaD_call_enters
<1>2. /\ Inv(cs, ci, status, nny, nCcalls, errfunc, allowhook, unstarted)
      /\ Top = cs[Len(cs)] /\ L = cs[Len(cs)].th /\ Depth(L) = Len(ci[L])
  BY DEF IInv, L, Top, Depth
<1>3. /\ cs \in Seq(Activation) /\ Len(cs) \in 1 .. Len(cs) /\ Len(cs) \in Nat \ {0}
      /\ L \in Thread /\ Depth(L) \in Nat /\ Depth(L) = Top.level
      /\ allowhook[L] \in BOOLEAN /\ Len(cs) > 1
      /\ nCcalls[L] = CCallsIn(cs, Len(cs))
  BY <1>1, Here DEF Parts, L, Top, InHost
<1>4. CASE luaD_throw("LUA_ERRERR", allowhook[L])
  BY <1>1, <1>3, <1>4, ThrowStep DEF Errors
<1>5. CASE nCcalls[L] < ErrorCCalls /\ luaG_errormsg
  BY <1>1, <1>5, ErrormsgStep DEF Waits
<1>6. CASE /\ nCcalls[L] < ErrorCCalls
           /\ \E lua \in BOOLEAN :
                luaD_precall(lua, TRUE, [cs EXCEPT ![Len(cs)].entered = TRUE])
           /\ UNCHANGED <<status, nny, nCcalls, errfunc, allowhook, unstarted>>
  <2> DEFINE d == [cs EXCEPT ![Len(cs)].entered = TRUE]
  <2>1. PICK lua \in BOOLEAN : luaD_precall(lua, TRUE, d)
    BY <1>6
  <2> DEFINE a == [fn |-> IF lua THEN "luaV_execute" ELSE "C", th |-> L,
                   level |-> Depth(L) + 1]
             frame == NewFrame(lua, TRUE)
  <2>2. /\ ci' = [ci EXCEPT ![L] = Append(ci[L], frame)]
        /\ cs' = Append(d, a)
    BY <2>1 DEF luaD_precall
  <2>3. Inv(d, ci, status, nny, nCcalls, errfunc, allowhook, unstarted)
    BY <1>1, <1>2, <1>3, <1>6, EnterStep
  <2>4. Len(d) = Len(cs) /\ Cut(cs, d, Len(cs)) /\ d[Len(d)].entered
    BY <1>1, <1>2, <1>3, EnterIsCut DEF Cut
  <2>5. /\ d[Len(d)].fn = "luaD_call" /\ d[Len(d)].th = L
        /\ d[Len(d)].level = Depth(L)
    BY <1>1, <1>2, <1>3, <2>4 DEF Cut, Alike
  <2>6. /\ a \in Activation /\ a.fn \in {"C", "luaV_execute"} /\ a.th = L
        /\ a.level = Len(ci[L]) + 1
        /\ a.fn = IF lua THEN "luaV_execute" ELSE "C"
    BY <1>2, <1>3 DEF Activation, Runs
  <2>7. /\ frame \in CallInfo
        /\ IF lua THEN frame.lua /\ frame.fresh ELSE ~frame.lua /\ ~frame.ypcall
    BY DEF NewFrame, CallInfo, LuaFrame, CFrame
  <2> HIDE DEF d, a, frame
  <2>8. LiesOn(d[Len(d)], a)
    <3>1. Depth(L) \in Nat /\ Depth(L) = Len(ci[L])
      BY <1>2, <1>3
    <3>2. a.level = Depth(L) + 1 /\ d[Len(d)].level = Depth(L)
      BY <2>5, <2>6, <3>1
    <3>3. a.level > 0 /\ a.level = d[Len(d)].level + 1
      BY <3>1, <3>2
    <3>4. d[Len(d)].entered
      BY <2>4
    <3> QED BY <2>5, <2>6, <3>3, <3>4 DEF LiesOn
  <2>9. Inv(Append(d, a), [ci EXCEPT ![L] = Append(ci[L], frame)], status, nny,
            nCcalls, errfunc, allowhook, unstarted)
    BY <2>3, <2>5, <2>6, <2>7, <2>8, PrecallStep
  <2> QED BY <1>6, <2>2, <2>9 DEF IInv
<1> QED BY <1>4, <1>5, <1>6 DEF luaD_call_enters

\* A function called by luaV_execute.
LEMMA OpCallRight == ASSUME IInv, OP_CALL PROVE IInv'
<1>1. /\ Top.fn = "luaV_execute"
      /\ UNCHANGED <<status, nny, nCcalls, errfunc, allowhook, unstarted>>
  BY DEF OP_CALL
<1>2. /\ Inv(cs, ci, status, nny, nCcalls, errfunc, allowhook, unstarted)
      /\ Top = cs[Len(cs)] /\ L = cs[Len(cs)].th /\ Depth(L) = Len(ci[L])
  BY DEF IInv, L, Top, Depth
<1>3. /\ cs \in Seq(Activation) /\ L \in Thread /\ Depth(L) \in Nat
      /\ Top.level \in Nat /\ Depth(L) >= Top.level
      /\ ci \in [Thread -> Seq(CallInfo)] /\ ci[L] \in Seq(CallInfo)
  BY <1>1, <1>2, Here DEF Parts
<1>4. PICK lua \in BOOLEAN : luaD_precall(lua, FALSE, cs)
  BY DEF OP_CALL
<1> DEFINE frame == NewFrame(lua, FALSE)
<1>5. /\ ci' = [ci EXCEPT ![L] = Append(ci[L], frame)]
      /\ cs' = IF lua THEN cs ELSE Append(cs, [fn |-> "C", th |-> L, level |-> Depth(L) + 1])
  BY <1>4 DEF luaD_precall
<1>6. /\ frame \in CallInfo
      /\ IF lua THEN frame.lua /\ ~frame.fresh ELSE ~frame.lua /\ ~frame.ypcall
  BY DEF NewFrame, CallInfo, LuaFrame, CFrame
<1> HIDE DEF frame
<1>7. CASE ~lua
  <2> DEFINE a == [fn |-> "C", th |-> L, level |-> Depth(L) + 1]
  <2>1. /\ a \in Activation /\ a.fn = "C" /\ a.th = L /\ a.level = Len(ci[L]) + 1
    BY <1>2, <1>3 DEF Activation, Runs
  <2>2. cs' = Append(cs, a)
    BY <1>5, <1>7
  <2> HIDE DEF a
  <2>3. LiesOn(cs[Len(cs)], a)
    BY <1>1, <1>2, <1>3, <2>1 DEF LiesOn
  <2>4. Inv(Append(cs, a), [ci EXCEPT ![L] = Append(ci[L], frame)], status, nny,
            nCcalls, errfunc, allowhook, unstarted)
    BY <1>1, <1>2, <1>6, <1>7, <2>1, <2>3, PrecallStep
  <2> QED BY <1>1, <1>5, <2>2, <2>4 DEF IInv
<1>8. CASE lua
  <2> DEFINE g == Append(ci[L], frame)
             m == Depth(L)
  <2>1. /\ g \in Seq(CallInfo) /\ Len(g) = m + 1
        /\ \A i \in 1 .. m : g[i] = ci[L][i]
        /\ g[m + 1] = frame
    BY <1>2, <1>3, <1>6
  <2> HIDE DEF g
  <2>2. cs' = cs /\ ci' = [ci EXCEPT ![L] = g]
    BY <1>5, <1>8 DEF g
  <2>3. ci' \in [Thread -> Seq(CallInfo)] /\ ci'[L] = g /\ OnlyFor(L, ci', ci)
    BY <1>3, <2>1, <2>2 DEF OnlyFor
  <2>4. \A i \in m + 1 .. Len(g) : g[i].lua /\ ~g[i].fresh
    <3>3. \A i \in m + 1 .. Len(g) : i = m + 1
      BY <1>3, <2>1
    <3> QED BY <1>6, <1>8, <2>1, <3>3
  <2>5. m \in Nat /\ Top.level <= m /\ m <= Len(g) /\ m <= Len(ci[L])
    BY <1>2, <1>3, <2>1
  <2>6. Executes(cs, ci, ci', m)
    BY <1>1, <1>2, <2>1, <2>3, <2>4, <2>5 DEF Executes
  <2>7. Typed(cs, ci', status, nny, nCcalls, errfunc, allowhook, unstarted)
    BY <1>2, <2>3 DEF Inv, Typed
  <2>8. Inv(cs, ci', status, nny, nCcalls, errfunc, allowhook, unstarted)
    BY <1>2, <2>6, <2>7, ExecuteStep
  <2> QED BY <1>1, <2>2, <2>8 DEF IInv
<1> QED BY <1>7, <1>8

\* What the activation that ends leaves to the one that called it.
LEMMA ReturnHere ==
  ASSUME IInv, Len(cs) > 1, Top.fn \notin {"lua_resume", "luaD_pcall"}
  PROVE  /\ Len(cs) \in Nat /\ Len(cs) - 1 \in 1 .. Len(cs) /\ (Len(cs) - 1) + 1 = Len(cs)
         /\ LastFrame(cs, ci, Len(cs) - 1) = Base(Top)
         /\ Base(Top) \in Nat /\ Base(Top) <= Depth(L)
         /\ Top.fn = "luaD_call" => nCcalls[L] - 1 \in Nat
         /\ Bars(Top) => nny[L] - 1 \in Nat
<1> DEFINE n == Len(cs) - 1
<1>1. /\ Inv(cs, ci, status, nny, nCcalls, errfunc, allowhook, unstarted)
      /\ Top = cs[Len(cs)] /\ L = cs[Len(cs)].th /\ Depth(L) = Len(ci[L])
  BY DEF IInv, L, Top, Depth
<1>2. /\ cs \in Seq(Activation) /\ Len(cs) \in 1 .. Len(cs) /\ Len(cs) \in Nat
      /\ Top \in Activation /\ L \in Thread /\ Depth(L) \in Nat /\ Top.level \in Nat
  BY <1>1, Here DEF Parts
<1>3. /\ Stack(cs) /\ Frames(cs, ci) /\ CallsCounted(cs, nCcalls) /\ NnyCounted(cs, nny)
  BY <1>1 DEF Inv
<1>4. n \in 1 .. Len(cs) /\ n + 1 = Len(cs) /\ n \in Nat /\ n # Len(cs)
  BY <1>2
<1> HIDE DEF n
<1>5. cs[Len(cs) - 1].th = cs[Len(cs)].th /\ LiesOn(cs[Len(cs) - 1], cs[Len(cs)])
  <2>1. Len(cs) \in 2 .. Len(cs)
    BY <1>2
  <2> QED BY <1>1, <1>3, <2>1 DEF Stack
<1>6. cs[n].th = L /\ LiesOn(cs[n], Top)
  BY <1>1, <1>5 DEF n
<1>7. LastFrame(cs, ci, n) = Base(Top)
  <2>1. cs[n + 1] = Top
    BY <1>1, <1>4
  <2>2. ~LastOfThread(cs, n)
    BY <1>1, <1>4, <1>6, <2>1 DEF LastOfThread
  <2> QED BY <2>1, <2>2 DEF LastFrame
<1>8. Base(Top) \in Nat /\ Base(Top) <= Depth(L)
  <2>1. cs[n] \in Activation /\ (cs[n].fn = "lua_resume" => cs[n].level = 0)
    BY <1>2, <1>3, <1>4, StackParts
  <2>2. Base(Top) \in Nat /\ Base(Top) <= Top.level
    BY <1>2, <1>6, <2>1, LiesAbove
  <2>3. Top.level <= Depth(L)
    BY <1>1, <1>2, <1>3 DEF Frames
  <2> QED BY <1>2, <2>2, <2>3
<1>9. Top.fn = "luaD_call" => nCcalls[L] - 1 \in Nat
  <2>1. nCcalls[L] = CCallsIn(cs, n + 1)
    BY <1>1, <1>3, <1>4 DEF CallsCounted
  <2>2. /\ CCallsIn(cs, n) \in Nat
        /\ Top.fn = "luaD_call" => CCallsIn(cs, n + 1) = CCallsIn(cs, n) + 1
    <3>1. /\ CCallsIn(cs, n) \in Nat
          /\ cs[n + 1].fn \in {"luaD_call", "lua_resume"} =>
               CCallsIn(cs, n + 1) = CCallsIn(cs, n) + 1
      BY <1>4, NextCounts
    <3> QED BY <1>1, <1>4, <3>1
  <2> QED BY <2>1, <2>2
<1>10. Bars(Top) => nny[L] - 1 \in Nat
  <2>1. nny[L] = NnyIn(cs, L, n + 1)
    <3>1. IsOn(cs, L)
      BY <1>1, <1>2, <1>3, OnTheStack
    <3> QED BY <1>2, <1>3, <1>4, <3>1 DEF NnyCounted
  <2>2. /\ NnyIn(cs, L, n) \in Nat
        /\ Bars(Top) => NnyIn(cs, L, n + 1) = NnyIn(cs, L, n) + 1
    <3>1. /\ NnyIn(cs, L, n) \in Nat
          /\ NnyIn(cs, L, n + 1) = IF cs[n + 1].th = L /\ Bars(cs[n + 1])
                                   THEN NnyIn(cs, L, n) + 1 ELSE NnyIn(cs, L, n)
      BY <1>4, NextCounts
    <3> QED BY <1>1, <1>4, <3>1
  <2> QED BY <2>1, <2>2
<1>11. Len(cs) - 1 \in 1 .. Len(cs) /\ (Len(cs) - 1) + 1 = Len(cs)
  BY <1>4 DEF n
<1>12. LastFrame(cs, ci, Len(cs) - 1) = Base(Top)
  BY <1>7 DEF n
<1> QED BY <1>2, <1>8, <1>9, <1>10, <1>11, <1>12

\* A return, with the frames that the caller had.
Kept(frames, f, n) == Len(frames) = n /\ \A i \in 1 .. n : frames[i] = f[i]

\* A return of the activation on top, in terms of the state and the next one.
LEMMA ReturnsHere ==
  ASSUME IInv, Len(cs) > 1, Top.fn \notin {"lua_resume", "luaD_pcall"},
         ~(Top.fn = "luaD_call" /\ Top.caller = "pcallk"),
         cs' = Below, UNCHANGED <<status, unstarted, errfunc>>,
         ci' \in [Thread -> Seq(CallInfo)], OnlyFor(L, ci', ci),
         Kept(ci'[L], ci[L], Base(Top)),
         nCcalls' = IF Top.fn = "luaD_call" THEN [nCcalls EXCEPT ![L] = nCcalls[L] - 1]
                    ELSE nCcalls,
         nny' = IF Bars(Top) THEN [nny EXCEPT ![L] = nny[L] - 1] ELSE nny,
         allowhook' \in [Thread -> BOOLEAN], OnlyFor(L, allowhook', allowhook),
         IF Top.fn = "hook" THEN allowhook'[L]
         ELSE allowhook'[L] = IF Top.fn = "GCTM" THEN Top.oldah ELSE allowhook[L]
  PROVE  IInv'
<1>1. /\ Inv(cs, ci, status, nny, nCcalls, errfunc, allowhook, unstarted)
      /\ Top = cs[Len(cs)] /\ L = cs[Len(cs)].th
  BY DEF IInv, L, Top
<1>2. /\ cs \in Seq(Activation) /\ L \in Thread /\ Len(cs) \in Nat
      /\ nCcalls \in [Thread -> Nat] /\ nny \in [Thread -> Nat]
  BY <1>1, Here DEF Parts
<1>3. /\ (Len(cs) - 1) + 1 = Len(cs) /\ Len(cs) - 1 \in 0 .. Len(cs)
      /\ LastFrame(cs, ci, Len(cs) - 1) = Base(Top)
      /\ Top.fn = "luaD_call" => nCcalls[L] - 1 \in Nat
      /\ Bars(Top) => nny[L] - 1 \in Nat
  BY <1>2, ReturnHere
<1>4. FramesLeft(cs, ci, Len(cs) - 1, ci')
  <2>1. ~(cs[(Len(cs) - 1) + 1].fn = "luaD_call" /\ cs[(Len(cs) - 1) + 1].caller = "pcallk")
    BY <1>1, <1>3
  <2> QED BY <1>1, <1>3, <2>1 DEF FramesLeft, Kept
<1>5. /\ nCcalls' \in [Thread -> Nat] /\ OnlyFor(L, nCcalls', nCcalls)
      /\ nCcalls'[L] = IF Top.fn = "luaD_call" THEN nCcalls[L] - 1 ELSE nCcalls[L]
  BY <1>2, <1>3, Put DEF OnlyFor
<1>6. /\ nny' \in [Thread -> Nat] /\ OnlyFor(L, nny', nny)
      /\ nny'[L] = IF Bars(Top) THEN nny[L] - 1 ELSE nny[L]
  BY <1>2, <1>3, Put DEF OnlyFor
<1>7. OnlyFor(L, errfunc, errfunc)
  BY DEF OnlyFor
<1>8. Returning(cs, ci, nny, nCcalls, errfunc, allowhook, ci', nny', nCcalls',
                errfunc, allowhook')
  BY <1>1, <1>4, <1>5, <1>6, <1>7 DEF Returning
<1>9. cs' = SubSeq(cs, 1, Len(cs) - 1) /\ cs' \in Seq(Activation)
  BY <1>2, <1>3, FirstOnes DEF Below
<1>10. Typed(cs', ci', status, nny', nCcalls', errfunc, allowhook', unstarted)
  BY <1>1, <1>5, <1>6, <1>9 DEF Inv, Typed
<1>11. Inv(cs', ci', status, nny', nCcalls', errfunc, allowhook', unstarted)
  BY <1>1, <1>8, <1>9, <1>10, ReturnStep
<1> QED BY <1>11 DEF IInv

\* The end of what leaves the frames alone.
LEMMA AsideReturns ==
  ASSUME IInv, Len(cs) > 1, Top.fn \in {"f_parser", "luaD_protectedparser", "GCTM",
                                        "hook", "luaD_call"},
         ~(Top.fn = "luaD_call" /\ Top.caller = "pcallk"),
         cs' = Below, UNCHANGED <<ci, status, unstarted, errfunc>>,
         nCcalls' = IF Top.fn = "luaD_call" THEN [nCcalls EXCEPT ![L] = nCcalls[L] - 1]
                    ELSE nCcalls,
         nny' = IF Bars(Top) THEN [nny EXCEPT ![L] = nny[L] - 1] ELSE nny,
         allowhook' = IF Top.fn = "hook" THEN [allowhook EXCEPT ![L] = TRUE]
                      ELSE IF Top.fn = "GCTM" THEN [allowhook EXCEPT ![L] = Top.oldah]
                      ELSE allowhook
  PROVE  IInv'
<1>1. /\ Top \in Activation /\ L \in Thread /\ Depth(L) = Top.level
      /\ ci \in [Thread -> Seq(CallInfo)] /\ allowhook \in [Thread -> BOOLEAN]
  BY Here DEF Parts
<1>2. OnlyFor(L, ci, ci) /\ ci' = ci
  BY DEF OnlyFor
<1>3. Kept(ci[L], ci[L], Base(Top))
  BY <1>1 DEF Kept, Base, Depth
<1>4. /\ allowhook' \in [Thread -> BOOLEAN] /\ OnlyFor(L, allowhook', allowhook)
      /\ IF Top.fn = "hook" THEN allowhook'[L]
         ELSE allowhook'[L] = IF Top.fn = "GCTM" THEN Top.oldah ELSE allowhook[L]
  <2>1. CASE Top.fn = "hook"
    <3>1. allowhook' = [allowhook EXCEPT ![L] = TRUE]
      BY <2>1
    <3>2. /\ allowhook' \in [Thread -> BOOLEAN] /\ allowhook'[L] = TRUE
          /\ \A u \in Thread : u # L => allowhook'[u] = allowhook[u]
      BY <1>1, <3>1
    <3> QED BY <2>1, <3>2 DEF OnlyFor
  <2>2. CASE Top.fn = "GCTM"
    <3>1. allowhook' = [allowhook EXCEPT ![L] = Top.oldah] /\ Top.oldah \in BOOLEAN
      BY <1>1, <2>2, ActivationFields
    <3>2. /\ allowhook' \in [Thread -> BOOLEAN] /\ allowhook'[L] = Top.oldah
          /\ \A u \in Thread : u # L => allowhook'[u] = allowhook[u]
      BY <1>1, <3>1
    <3> QED BY <2>2, <3>2 DEF OnlyFor
  <2>3. CASE Top.fn \notin {"hook", "GCTM"}
    <3>1. allowhook' = allowhook
      BY <2>3
    <3> QED BY <1>1, <2>3, <3>1 DEF OnlyFor
  <2> QED BY <2>1, <2>2, <2>3
<1> QED BY <1>1, <1>2, <1>3, <1>4, ReturnsHere

\* f_parser_returns keeps the invariant.
LEMMA ParserReturnsRight == ASSUME IInv, f_parser_returns PROVE IInv'
<1>1. Top.fn = "f_parser" /\ Len(cs) > 1
  BY Here DEF f_parser_returns, InHost
<1>2. ~Bars(Top)
  BY <1>1 DEF Bars
<1> QED BY <1>1, <1>2, AsideReturns DEF f_parser_returns

\* luaD_protectedparser_returns keeps the invariant.
LEMMA ProtectedParserReturnsRight ==
  ASSUME IInv, luaD_protectedparser_returns PROVE IInv'
<1>1. Top.fn = "luaD_protectedparser" /\ Len(cs) > 1
  BY Here DEF luaD_protectedparser_returns, InHost
<1>2. Bars(Top)
  BY <1>1 DEF Bars
<1> QED BY <1>1, <1>2, AsideReturns DEF luaD_protectedparser_returns

\* GCTM_returns keeps the invariant.
LEMMA GCTMReturnsRight == ASSUME IInv, GCTM_returns PROVE IInv'
<1>1. Top.fn = "GCTM" /\ Len(cs) > 1
  BY Here DEF GCTM_returns, InHost
<1>2. ~Bars(Top)
  BY <1>1 DEF Bars
<1> QED BY <1>1, <1>2, AsideReturns DEF GCTM_returns

\* hook_returns keeps the invariant.
LEMMA HookReturnsRight == ASSUME IInv, hook_returns PROVE IInv'
<1>1. Top.fn = "hook" /\ Len(cs) > 1
  BY Here DEF hook_returns, InHost
<1>2. ~Bars(Top)
  BY <1>1 DEF Bars
<1> QED BY <1>1, <1>2, AsideReturns DEF hook_returns

\* The function that lua_pcallk called returns, and nothing interrupted it.
LEMMA PcallkReturns ==
  ASSUME IInv, Top.fn = "luaD_call", Top.entered, Top.caller = "pcallk",
         luaD_call_returns
  PROVE  IInv'
<1>1. /\ Inv(cs, ci, status, nny, nCcalls, errfunc, allowhook, unstarted)
      /\ Top = cs[Len(cs)] /\ L = cs[Len(cs)].th /\ Depth(L) = Len(ci[L])
  BY DEF IInv, L, Top, Depth
<1>2. /\ cs \in Seq(Activation) /\ L \in Thread /\ Len(cs) \in Nat /\ Len(cs) > 1
      /\ Top \in Activation /\ Depth(L) = Top.level /\ Depth(L) \in Nat
      /\ ci \in [Thread -> Seq(CallInfo)] /\ ci[L] \in Seq(CallInfo)
      /\ nCcalls \in [Thread -> Nat] /\ nny \in [Thread -> Nat]
      /\ errfunc \in [Thread -> Nat]
  BY <1>1, Here DEF Parts, InHost
<1>3. /\ (Len(cs) - 1) + 1 = Len(cs) /\ Len(cs) - 1 \in 1 .. Len(cs) - 1
      /\ Len(cs) - 1 \in 0 .. Len(cs)
      /\ LastFrame(cs, ci, Len(cs) - 1) = Base(Top)
      /\ nCcalls[L] - 1 \in Nat
  BY <1>2, ReturnHere
<1>4. Base(Top) = Depth(L)
  BY <1>2 DEF Base
<1>5. /\ Depth(L) \in 1 .. Len(ci[L]) /\ ~ci[L][Depth(L)].lua
      /\ ci[L][Depth(L)] \in CallInfo
  <2>1. cs[Len(cs) - 1].th = cs[Len(cs)].th
    <3>1. Len(cs) \in 2 .. Len(cs) /\ Stack(cs)
      BY <1>1, <1>2 DEF Inv
    <3> QED BY <1>1, <3>1 DEF Stack
  <2>2. Stack(cs) /\ Frames(cs, ci) /\ Interruptible(cs, ci)
    BY <1>1 DEF Inv
  <2> DEFINE n == Len(cs) - 1
  <2>3. /\ n \in 1 .. Len(cs) - 1 /\ cs[n + 1].fn = "luaD_call"
        /\ cs[n + 1].caller = "pcallk" /\ cs[n + 1].th = cs[n].th /\ cs[n].th = L
        /\ LastFrame(cs, ci, n) = Depth(L)
    BY <1>1, <1>3, <1>4, <2>1
  <2>4. cs \in Seq(Activation) /\ ci \in [Thread -> Seq(CallInfo)]
    BY <1>2
  <2> HIDE DEF n
  <2>5. /\ LastFrame(cs, ci, n) \in 1 .. Len(ci[cs[n].th])
        /\ ~ci[cs[n].th][LastFrame(cs, ci, n)].lua
        /\ ci[cs[n].th][LastFrame(cs, ci, n)] \in CallInfo
    BY <2>2, <2>3, <2>4, PcallkFrame
  <2> QED BY <2>3, <2>5
<1>6. ~Top.noyield
  <2>1. Stack(cs) /\ Len(cs) \in 2 .. Len(cs)
    BY <1>1, <1>2 DEF Inv
  <2>2. LiesOn(cs[Len(cs) - 1], Top)
    BY <1>1, <2>1 DEF Stack
  <2>3. CallFrom(cs[Len(cs) - 1], Top)
    BY <2>2 DEF LiesOn
  <2> QED BY <2>3 DEF CallFrom
<1> DEFINE frame == [ci[L][Depth(L)] EXCEPT !.ypcall = FALSE]
           g == [ci[L] EXCEPT ![Depth(L)] = frame]
<1>7. /\ nCcalls' = [nCcalls EXCEPT ![L] = nCcalls[L] - 1] /\ nny' = nny
      /\ cs' = Below /\ ci' = [ci EXCEPT ![L] = g]
      /\ errfunc' = [errfunc EXCEPT ![L] = ci[L][Depth(L)].old_errfunc]
      /\ status' = status /\ allowhook' = allowhook /\ unstarted' = unstarted
  BY <1>6 DEF luaD_call_returns, TopFrame
<1>8. frame \in CallInfo
  <2>1. ci[L][Depth(L)] \in CFrame
    BY <1>5 DEF CallInfo, LuaFrame
  <2> QED BY <2>1 DEF CallInfo, CFrame
<1>9. frame = [ci[L][Depth(L)] EXCEPT !.ypcall = FALSE]
  OBVIOUS
<1> HIDE DEF frame
<1>10. /\ g \in Seq(CallInfo) /\ Len(g) = Len(ci[L]) /\ g[Depth(L)] = frame
       /\ \A i \in 1 .. Len(ci[L]) : i # Depth(L) => g[i] = ci[L][i]
  BY <1>2, <1>5, <1>8
<1> HIDE DEF g
<1>11. /\ ci' \in [Thread -> Seq(CallInfo)] /\ ci'[L] = g /\ OnlyFor(L, ci', ci)
  BY <1>2, <1>7, <1>10 DEF OnlyFor
<1>12. FramesLeft(cs, ci, Len(cs) - 1, ci')
  <2>1. LastFrame(cs, ci, Len(cs) - 1) = Len(ci[L])
    BY <1>1, <1>3, <1>4
  <2>2. cs[(Len(cs) - 1) + 1] = Top
    BY <1>1, <1>3
  <2>3. \A i \in 1 .. Len(ci[L]) : i < Len(ci[L]) => g[i] = ci[L][i]
    BY <1>1, <1>2, <1>10
  <2>4. \A i \in 1 .. Len(ci[L]) : i < Len(ci[L]) \/ FALSE => g[i] = ci[L][i]
    BY <2>3
  <2>5. g[Len(ci[L])] = [ci[L][Len(ci[L])] EXCEPT !.ypcall = FALSE]
    BY <1>1, <1>9, <1>10
  <2>6. Len(cs) - 1 < Len(cs)
    BY <1>2
  <2> QED BY <1>1, <1>10, <1>11, <2>1, <2>2, <2>3, <2>5, <2>6 DEF FramesLeft
<1>13. /\ nCcalls' \in [Thread -> Nat] /\ OnlyFor(L, nCcalls', nCcalls)
       /\ nCcalls'[L] = nCcalls[L] - 1
  BY <1>2, <1>3, <1>7 DEF OnlyFor
<1>14. /\ errfunc' \in [Thread -> Nat] /\ OnlyFor(L, errfunc', errfunc)
       /\ errfunc'[L] = ci[L][Top.level].old_errfunc
  <2>1. ci[L][Depth(L)].old_errfunc \in Nat
    BY <1>5, FrameFields
  <2> QED BY <1>2, <1>7, <2>1 DEF OnlyFor
<1>15. OnlyFor(L, nny, nny) /\ OnlyFor(L, allowhook, allowhook)
  BY DEF OnlyFor
<1>16. ~Bars(Top)
  BY <1>6 DEF Bars
<1>17. Returning(cs, ci, nny, nCcalls, errfunc, allowhook, ci', nny, nCcalls',
                 errfunc', allowhook)
  BY <1>1, <1>2, <1>11, <1>12, <1>13, <1>14, <1>15, <1>16 DEF Returning
<1>18. cs' = SubSeq(cs, 1, Len(cs) - 1) /\ cs' \in Seq(Activation)
  BY <1>2, <1>3, <1>7, FirstOnes DEF Below
<1>19. Typed(cs', ci', status, nny, nCcalls', errfunc', allowhook, unstarted)
  BY <1>1, <1>11, <1>13, <1>14, <1>18 DEF Inv, Typed
<1>20. Inv(cs', ci', status, nny, nCcalls', errfunc', allowhook, unstarted)
  BY <1>1, <1>17, <1>18, <1>19, ReturnStep
<1> QED BY <1>7, <1>20 DEF IInv

\* luaD_call_returns keeps the invariant.
LEMMA CallReturnsRight == ASSUME IInv, luaD_call_returns PROVE IInv'
<1>1. /\ Top.fn = "luaD_call" /\ Top.entered /\ Len(cs) > 1
      /\ allowhook[L] \in BOOLEAN
  BY Here DEF luaD_call_returns, InHost, Parts, L, Top
<1>2. CASE Top.caller = "luaG_errormsg"
  <2>1. luaD_throw("LUA_ERRRUN", allowhook[L])
    BY <1>2 DEF luaD_call_returns
  <2> QED BY <1>1, <2>1, ThrowStep DEF Errors
<1>3. CASE Top.caller = "pcallk"
  BY <1>1, <1>3, PcallkReturns
<1>4. CASE Top.caller \notin {"luaG_errormsg", "pcallk"}
  <2>1. /\ nCcalls' = [nCcalls EXCEPT ![L] = nCcalls[L] - 1]
        /\ nny' = IF Top.noyield THEN [nny EXCEPT ![L] = nny[L] - 1] ELSE nny
        /\ cs' = Below
        /\ UNCHANGED <<ci, errfunc, status, allowhook, unstarted>>
    BY <1>4 DEF luaD_call_returns
  <2>2. Bars(Top) <=> Top.noyield
    BY <1>1 DEF Bars
  <2> QED BY <1>1, <1>4, <2>1, <2>2, AsideReturns
<1> QED BY <1>2, <1>3, <1>4

\* The frames below the one that is dropped.
LEMMA FrameDropped ==
  ASSUME IInv, NEW n \in 1 .. Depth(L),
         ci' = [ci EXCEPT ![L] = SubSeq(ci[L], 1, n - 1)]
  PROVE  /\ ci' \in [Thread -> Seq(CallInfo)] /\ OnlyFor(L, ci', ci)
         /\ Kept(ci'[L], ci[L], n - 1)
<1>1. /\ ci \in [Thread -> Seq(CallInfo)] /\ ci[L] \in Seq(CallInfo) /\ L \in Thread
      /\ Depth(L) = Len(ci[L]) /\ Depth(L) \in Nat
  BY Here DEF Parts, L, Top, Depth
<1> DEFINE g == SubSeq(ci[L], 1, n - 1)
<1>2. n - 1 \in 0 .. Len(ci[L])
  BY <1>1
<1>3. g \in Seq(CallInfo) /\ Len(g) = n - 1 /\ \A i \in 1 .. n - 1 : g[i] = ci[L][i]
  BY <1>1, <1>2, FirstOnes
<1> HIDE DEF g
<1>4. ci' = [ci EXCEPT ![L] = g]
  BY DEF g
<1> QED BY <1>1, <1>3, <1>4 DEF OnlyFor, Kept

\* C_returns keeps the invariant.
LEMMA CReturnsRight == ASSUME IInv, C_returns PROVE IInv'
<1>1. /\ Top.fn = "C" /\ Top.level > 0 /\ cs' = Below
      /\ ci' = [ci EXCEPT ![L] = SubSeq(ci[L], 1, Top.level - 1)]
      /\ UNCHANGED <<status, nny, nCcalls, errfunc, allowhook, unstarted>>
  BY DEF C_returns, InFunction
<1>2. /\ Depth(L) = Top.level /\ Depth(L) \in Nat /\ Len(cs) > 1
      /\ allowhook \in [Thread -> BOOLEAN]
  <2>1. ~InHost
    BY <1>1, Here DEF InHost
  <2> QED BY <1>1, <2>1, Here DEF Parts
<1>3. /\ ci' \in [Thread -> Seq(CallInfo)] /\ OnlyFor(L, ci', ci)
      /\ Kept(ci'[L], ci[L], Top.level - 1)
  <2>1. Top.level \in 1 .. Depth(L)
    BY <1>1, <1>2
  <2> QED BY <1>1, <2>1, FrameDropped
<1>4. Base(Top) = Top.level - 1 /\ ~Bars(Top)
  BY <1>1 DEF Base, Bars
<1>5. OnlyFor(L, allowhook', allowhook)
  BY <1>1 DEF OnlyFor
<1> QED BY <1>1, <1>2, <1>3, <1>4, <1>5, ReturnsHere

\* OP_RETURN keeps the invariant.
LEMMA OpReturnRight == ASSUME IInv, OP_RETURN PROVE IInv'
<1>1. /\ Top.fn = "luaV_execute" /\ cs' = IF TopFrame.fresh THEN Below ELSE cs
      /\ ci' = [ci EXCEPT ![L] = SubSeq(ci[L], 1, Depth(L) - 1)]
      /\ UNCHANGED <<status, nny, nCcalls, errfunc, allowhook, unstarted>>
  BY DEF OP_RETURN
<1>2. /\ Depth(L) \in Nat /\ Len(cs) > 1 /\ allowhook \in [Thread -> BOOLEAN]
      /\ Top.level \in Nat /\ Top.level > 0 /\ Depth(L) >= Top.level
      /\ \A i \in Top.level .. Depth(L) :
           ci[L][i].lua /\ (ci[L][i].fresh <=> i = Top.level)
      /\ Top = cs[Len(cs)] /\ L = cs[Len(cs)].th /\ Depth(L) = Len(ci[L])
  BY <1>1, Here DEF Parts, InHost, Depth, L, Top
<1>3. TopFrame.fresh <=> Depth(L) = Top.level
  <2>1. Depth(L) \in Top.level .. Depth(L)
    BY <1>2
  <2> QED BY <1>2, <2>1 DEF TopFrame
<1>4. /\ ci' \in [Thread -> Seq(CallInfo)] /\ OnlyFor(L, ci', ci)
      /\ Kept(ci'[L], ci[L], Depth(L) - 1)
  <2>1. Depth(L) \in 1 .. Depth(L)
    BY <1>2
  <2> QED BY <1>1, <2>1, FrameDropped
<1>5. CASE TopFrame.fresh
  <2>1. Base(Top) = Depth(L) - 1 /\ ~Bars(Top)
    BY <1>1, <1>3, <1>5 DEF Base, Bars
  <2>2. OnlyFor(L, allowhook', allowhook)
    BY <1>1 DEF OnlyFor
  <2>3. cs' = Below
    BY <1>1, <1>5
  <2> QED BY <1>1, <1>2, <1>4, <2>1, <2>2, <2>3, ReturnsHere
<1>6. CASE ~TopFrame.fresh
  <2>1. Inv(cs, ci, status, nny, nCcalls, errfunc, allowhook, unstarted)
    BY DEF IInv
  <2> DEFINE m == Depth(L) - 1
  <2>2. /\ m \in Nat /\ Top.level <= m /\ m <= Len(ci[L]) /\ m = Len(ci'[L])
        /\ \A i \in m + 1 .. Len(ci'[L]) : FALSE
    BY <1>2, <1>3, <1>4, <1>6 DEF Kept
  <2>3. \A i \in 1 .. m : ci'[L][i] = ci[L][i]
    BY <1>4 DEF Kept
  <2> HIDE DEF m
  <2>4. Executes(cs, ci, ci', m)
    <3>1. /\ cs[Len(cs)].fn = "luaV_execute" /\ L = cs[Len(cs)].th /\ Top = cs[Len(cs)]
          /\ OnlyFor(L, ci', ci)
      BY <1>1, <1>2, <1>4
    <3>2. \A i \in m + 1 .. Len(ci'[L]) : ci'[L][i].lua /\ ~ci'[L][i].fresh
      BY <2>2
    <3>3. m \in Nat /\ Top.level <= m /\ m <= Len(ci[L]) /\ m <= Len(ci'[L])
      BY <2>2
    <3> QED BY <2>3, <3>1, <3>2, <3>3 DEF Executes
  <2>5. Typed(cs, ci', status, nny, nCcalls, errfunc, allowhook, unstarted)
    BY <1>4, <2>1 DEF Inv, Typed
  <2>6. Inv(cs, ci', status, nny, nCcalls, errfunc, allowhook, unstarted)
    BY <2>1, <2>4, <2>5, ExecuteStep
  <2>7. cs' = cs
    BY <1>1, <1>6
  <2> QED BY <1>1, <2>6, <2>7 DEF IInv
<1> QED BY <1>5, <1>6

\* The frame that lua_load was called in is that of a C function.
LEMMA ParserFrame ==
  ASSUME IInv, Top.fn = "f_parser"
  PROVE  ~TopFrame.lua
<1>1. /\ Inv(cs, ci, status, nny, nCcalls, errfunc, allowhook, unstarted)
      /\ Top = cs[Len(cs)] /\ L = cs[Len(cs)].th
  BY DEF IInv, L, Top
<1>2. /\ cs \in Seq(Activation) /\ L \in Thread /\ Len(cs) \in Nat /\ Len(cs) > 1
      /\ Depth(L) = Top.level
  BY <1>1, Here DEF Parts, InHost
<1>3. Stack(cs) /\ Frames(cs, ci)
  BY <1>1 DEF Inv
<1>4. Len(cs) > 3 /\ cs[Len(cs) - 2].fn = "luaD_protectedparser"
  <2>1. Len(cs) \in 2 .. Len(cs)
    BY <1>2
  <2> QED BY <1>1, <1>3, <2>1 DEF Stack
<1> DEFINE n == Len(cs)
<1>5. /\ n \in 2 .. Len(cs) /\ n - 1 \in 2 .. Len(cs) /\ n - 2 \in 2 .. Len(cs)
      /\ n - 3 \in 1 .. Len(cs) /\ (n - 1) - 1 = n - 2 /\ (n - 2) - 1 = n - 3
  BY <1>2, <1>4
<1>6. \A j \in 2 .. Len(cs) : cs[j].fn # "lua_resume" =>
        LiesOn(cs[j - 1], cs[j]) /\ cs[j].th = cs[j - 1].th
  BY <1>3 DEF Stack
<1> HIDE DEF n
<1>7. cs[n - 1].fn = "luaD_pcall" /\ cs[n - 1].level = Top.level /\ cs[n - 1].th = L
  <2>1. cs[n] = Top /\ Top.fn = "f_parser" /\ cs[n].th = L
    BY <1>1 DEF n
  <2>2. LiesOn(cs[n - 1], cs[n]) /\ cs[n].th = cs[n - 1].th
    BY <1>5, <1>6, <2>1
  <2> QED BY <2>1, <2>2 DEF LiesOn
<1>8. cs[n - 2].fn = "luaD_protectedparser" /\ cs[n - 2].level = Top.level /\ cs[n - 2].th = L
  <2>1. cs[n - 2].fn = "luaD_protectedparser"
    BY <1>4 DEF n
  <2>2. LiesOn(cs[n - 2], cs[n - 1]) /\ cs[n - 1].th = cs[n - 2].th
    BY <1>5, <1>6, <1>7
  <2> QED BY <1>7, <2>1, <2>2 DEF LiesOn
<1>9. cs[n - 3].fn = "C" /\ cs[n - 3].level > 0 /\ cs[n - 3].level = Top.level /\ cs[n - 3].th = L
  <2>1. LiesOn(cs[n - 3], cs[n - 2]) /\ cs[n - 2].th = cs[n - 3].th
    BY <1>5, <1>6, <1>8
  <2> QED BY <1>8, <2>1 DEF LiesOn
<1>10. ~ci[L][Top.level].lua
  BY <1>3, <1>5, <1>9 DEF Frames
<1> QED BY <1>2, <1>10 DEF TopFrame

\* A metamethod, called by Lua code or by a C function.
LEMMA CallTMRight == ASSUME NoMetamethodsInHooks, IInv, luaT_callTM PROVE IInv'
<1> DEFINE a == CallRecord(L, Depth(L), "luaT_callTM", ~TopFrame.lua)
<1>1. /\ Top.fn \in {"luaV_execute", "f_parser"} \/ InFunction
      /\ luaD_call("luaT_callTM", ~TopFrame.lua, cs)
      /\ UNCHANGED <<ci, status, errfunc, allowhook, unstarted>>
  BY DEF luaT_callTM, NoMetamethodsInHooks
<1>2. RunsCode(Top) /\ Top.fn # "hook" /\ ~Waits(Top) /\ Top.fn # "lua_resume"
  BY <1>1 DEF RunsCode, UsesApi, InFunction, Waits
<1>3. nCcalls[L] < ErrorCCalls
  BY <1>2, Here
<1>4. Top.fn = "luaV_execute" => TopFrame.lua /\ Depth(L) > 0
  <2>1. Top.fn = "luaV_execute" =>
          /\ Top.level \in Nat /\ Depth(L) \in Nat /\ Depth(L) \in Top.level .. Depth(L)
          /\ Top.level > 0
    BY Here, ActivationFields
  <2>2. Top.fn = "luaV_execute" =>
          \A i \in Top.level .. Depth(L) : ci[L][i].lua
    BY Here
  <2> QED BY <2>1, <2>2 DEF TopFrame
<1>5. Top.fn # "luaV_execute" => ~TopFrame.lua
  BY <1>1, Here, ParserFrame
<1>6. (~TopFrame.lua) \in BOOLEAN
  OBVIOUS
<1>7. /\ a.fn = "luaD_call" /\ a.caller = "luaT_callTM" /\ a.level = Depth(L)
      /\ a.noyield = ~TopFrame.lua
  BY DEF CallRecord
<1>8. SameLevel(Top, a)
  BY <1>2, FrameHere
<1> HIDE DEF a
<1>9. a.noyield <=> Top.fn # "luaV_execute"
  BY <1>4, <1>5, <1>7
<1>10. CallFrom(Top, a)
  BY <1>2, <1>7, <1>8, <1>9 DEF CallFrom
<1>11. ~~TopFrame.lua => CanInterrupt(a, ci[L][Depth(L)], PcallsOf(cs, L, Len(cs)))
  BY <1>4, <1>5, <1>7 DEF CanInterrupt, TopFrame
<1> QED BY <1>1, <1>3, <1>6, <1>10, <1>11, CallHere DEF a

\* The last activation of a C stack that has got another one.
LEMMA TopOfPushed ==
  ASSUME NEW c \in Seq(Activation), NEW a \in Activation, NEW d, d = Append(c, a)
  PROVE  /\ d \in Seq(Activation) /\ Len(d) = Len(c) + 1 /\ d[Len(d)] = a
         /\ \A i \in 1 .. Len(c) : d[i] = c[i]
  OBVIOUS

\* What lua_pcall does for a call that is not to be interrupted: p and a are the
\* activations of luaD_pcall and of the luaD_call above it.
ProtectedOf(c, f, ny, nc, ef, ah, t, level, e, p, a, d, ef2, ny2, nc2) ==
  /\ t = c[Len(c)].th /\ level = Len(f[t]) /\ e \in Nat
  /\ c[Len(c)].fn \in {"C", "hook", "f_parser", "GCTM", "luaD_protectedparser"}
  /\ c[Len(c)].level = level
  /\ p = PcallRecord(t, level, ny[t], nc[t], ef[t], ah[t], e)
  /\ a = CallRecord(t, level, "f_call", TRUE)
  /\ d = Append(Append(c, p), a) /\ ef2 = [ef EXCEPT ![t] = e]
  /\ ny2 = [ny EXCEPT ![t] = ny[t] + 1] /\ nc2 = [nc EXCEPT ![t] = nc[t] + 1]

\* luaD_pcall and its function, from c.
LEMMA ProtectedCall ==
  ASSUME NEW c, NEW f, NEW st, NEW ny, NEW nc, NEW ef, NEW ah, NEW un,
         Inv(c, f, st, ny, nc, ef, ah, un), NEW t, NEW level, NEW e, NEW p, NEW a, NEW d,
         NEW ef2, NEW ny2, NEW nc2,
         ProtectedOf(c, f, ny, nc, ef, ah, t, level, e, p, a, d, ef2, ny2, nc2)
  PROVE  Inv(d, f, st, ny2, nc2, ef2, ah, un)
<1> DEFINE b == Append(c, p)
<1>a. /\ t = c[Len(c)].th /\ level = Len(f[t]) /\ e \in Nat
      /\ p = PcallRecord(t, level, ny[t], nc[t], ef[t], ah[t], e)
  BY DEF ProtectedOf
<1>b. /\ a = CallRecord(t, level, "f_call", TRUE)
      /\ ny2 = [ny EXCEPT ![t] = ny[t] + 1] /\ nc2 = [nc EXCEPT ![t] = nc[t] + 1]
  BY DEF ProtectedOf
<1>5. d = Append(b, a)
  BY DEF ProtectedOf
<1>c. PcallOf(c, f, ny, nc, ef, ah, t, level, e, p, b, ef2)
  BY DEF ProtectedOf, PcallOf
<1>d. b = Append(c, p)
  OBVIOUS
<1> HIDE DEF b
<1>1. Inv(b, f, st, ny, nc, ef2, ah, un)
  BY <1>c, PcallPushed
<1>2. /\ c \in Seq(Activation) /\ t \in Thread /\ level \in Nat
      /\ ny[t] \in Nat /\ nc[t] \in Nat /\ ef[t] \in Nat /\ ah[t] \in BOOLEAN
  BY <1>a, PartsRight DEF Parts
<1>3. p \in Activation /\ p.fn = "luaD_pcall" /\ p.th = t /\ p.level = level
  BY <1>a, <1>2 DEF PcallRecord, Activation
<1>4. Len(b) = Len(c) + 1 /\ b[Len(b)] = p
  BY <1>d, <1>2, <1>3, TopOfPushed
<1>6. CCallsIn(b, Len(b)) < ErrorCCalls
  <2>1. b \in Seq(Activation) /\ Stack(b) /\ StackBounded(b)
    BY <1>1 DEF Inv, Typed
  <2>2. ~Waits(b[Len(b)])
    BY <1>3, <1>4 DEF Waits
  <2> QED BY <2>1, <2>2, NotFull
<1>7. CallFrom(b[Len(b)], a)
  BY <1>b, <1>3, <1>4 DEF CallFrom, CallRecord, SameLevel
<1>8. t = b[Len(b)].th
  BY <1>3, <1>4
<1>9. CallOf(b, f, ny, nc, t, level, "f_call", TRUE, a, d, ny2, nc2)
  BY <1>a, <1>b, <1>5, <1>6, <1>7, <1>8, Zenon DEF CallOf
<1> QED BY <1>1, <1>9, CallPushed

\* A call that a C function allows to be interrupted: it gave a continuation.
LEMMA InterruptibleCall ==
  ASSUME IInv, InFunction, nny[L] = 0, NEW caller \in {"callk", "pcallk"},
         NEW frame \in CallInfo, ~frame.lua, frame.k = "k",
         caller = "callk" => frame.ypcall = TopFrame.ypcall,
         caller = "pcallk" => /\ frame.ypcall /\ frame.oah = allowhook[L]
                              /\ frame.old_errfunc = errfunc[L],
         ci' = [ci EXCEPT ![L] = [ci[L] EXCEPT ![Depth(L)] = frame]],
         luaD_call(caller, FALSE, cs),
         errfunc' = IF caller = "callk" THEN errfunc
                    ELSE [errfunc EXCEPT ![L] = IF frame.handler THEN HandlerOf(Depth(L)) ELSE 0],
         UNCHANGED <<status, allowhook, unstarted>>
  PROVE  IInv'
<1> DEFINE a == CallRecord(L, Depth(L), caller, FALSE)
           g == [ci[L] EXCEPT ![Depth(L)] = frame]
<1>1. /\ Inv(cs, ci, status, nny, nCcalls, errfunc, allowhook, unstarted)
      /\ Top = cs[Len(cs)] /\ L = cs[Len(cs)].th /\ Depth(L) = Len(ci[L])
  BY DEF IInv, L, Top, Depth
<1>2. /\ cs \in Seq(Activation) /\ L \in Thread /\ Len(cs) \in 1 .. Len(cs)
      /\ Top.fn = "C" /\ Top.level > 0 /\ Depth(L) = Top.level /\ Depth(L) \in Nat
      /\ ci \in [Thread -> Seq(CallInfo)] /\ ci[L] \in Seq(CallInfo)
      /\ nCcalls \in [Thread -> Nat] /\ errfunc \in [Thread -> Nat]
      /\ nCcalls[L] \in Nat /\ CCallsIn(cs, Len(cs)) < ErrorCCalls
      /\ status[L] = "LUA_OK"
  BY <1>1, Here DEF Parts, InFunction, Waits
<1>3. /\ cs' = Append(cs, a) /\ nny' = nny
      /\ nCcalls' = [nCcalls EXCEPT ![L] = nCcalls[L] + 1]
  BY DEF luaD_call, CallActivation, CallRecord
<1>4. /\ a.fn = "luaD_call" /\ a.th = L /\ a.level = Depth(L) /\ ~a.noyield
      /\ a.caller = caller /\ ~a.entered /\ a \in Activation
  BY <1>2 DEF CallRecord, Activation
<1> HIDE DEF a
<1>5. Pushed(cs, cs', a) /\ cs' \in Seq(Activation)
  BY <1>2, <1>3, <1>4, PushIsPush
<1>6. /\ g \in Seq(CallInfo) /\ Len(g) = Len(ci[L]) /\ g[Depth(L)] = frame
      /\ \A i \in 1 .. Len(ci[L]) : i # Depth(L) => g[i] = ci[L][i]
  <2>1. Depth(L) \in 1 .. Len(ci[L])
    BY <1>1, <1>2
  <2> QED BY <1>2, <2>1
<1> HIDE DEF g
<1>7. /\ ci' \in [Thread -> Seq(CallInfo)] /\ ci'[L] = g /\ OnlyFor(L, ci', ci)
  <2>1. ci' = [ci EXCEPT ![L] = g]
    BY DEF g
  <2> QED BY <1>2, <1>6, <2>1 DEF OnlyFor
<1>8. /\ nCcalls' \in [Thread -> Nat] /\ nCcalls'[L] = nCcalls[L] + 1
      /\ OnlyFor(L, nCcalls', nCcalls)
  BY <1>2, <1>3 DEF OnlyFor
<1>9. /\ errfunc' \in [Thread -> Nat] /\ OnlyFor(L, errfunc', errfunc)
      /\ errfunc'[L] = IF caller = "callk" THEN errfunc[L]
                       ELSE IF frame.handler THEN HandlerOf(Depth(L)) ELSE 0
  <2> DEFINE e == IF frame.handler THEN HandlerOf(Depth(L)) ELSE 0
  <2>1. e \in Nat
    BY <1>2 DEF HandlerOf
  <2>2. errfunc' = IF caller = "callk" THEN errfunc ELSE [errfunc EXCEPT ![L] = e]
    OBVIOUS
  <2>3. e = IF frame.handler THEN HandlerOf(Depth(L)) ELSE 0
    OBVIOUS
  <2> HIDE DEF e
  <2>4. CASE caller = "callk"
    BY <1>2, <2>2, <2>4 DEF OnlyFor
  <2>5. CASE caller # "callk"
    BY <1>2, <2>1, <2>2, <2>3, <2>5 DEF OnlyFor
  <2> QED BY <2>4, <2>5
<1>10. caller = "pcallk" => frame.oah
  <2>1. /\ Stack(cs) /\ Frames(cs, ci) /\ Interruptible(cs, ci) /\ NnyCounted(cs, nny)
        /\ HooksRight(cs, status, allowhook)
    BY <1>1 DEF Inv
  <2>2. AsideOf(cs, L, Len(cs)) = {}
    BY <1>1, <1>2, <2>1, Yieldable
  <2>3. allowhook[L]
    BY <1>2, <2>1, <2>2 DEF HooksRight, errorstatus, Errors
  <2> QED BY <2>3
<1>11. YieldablePush(cs, ci, nny, errfunc, cs', a, ci', errfunc')
  <2>1. /\ Len(ci'[L]) = Len(ci[L]) /\ ci'[L][a.level] = frame
        /\ \A i \in 1 .. Len(ci[L]) : i # a.level => ci'[L][i] = ci[L][i]
        /\ ci[L][a.level] = TopFrame
    BY <1>4, <1>6, <1>7 DEF TopFrame
  <2>2. /\ a.caller \in {"callk", "pcallk"} /\ a.level = cs[Len(cs)].level
        /\ cs[Len(cs)].fn = "C" /\ cs[Len(cs)].level > 0 /\ a.th = cs[Len(cs)].th
    BY <1>1, <1>2, <1>4
  <2>3. IF a.caller = "callk"
        THEN frame.ypcall = TopFrame.ypcall /\ errfunc'[L] = errfunc[L]
        ELSE /\ frame.ypcall /\ frame.oah /\ frame.old_errfunc = errfunc[L]
             /\ errfunc'[L] = IF frame.handler THEN HandlerOf(a.level) ELSE 0
    BY <1>4, <1>9, <1>10
  <2>4. OnlyFor(a.th, ci', ci) /\ OnlyFor(a.th, errfunc', errfunc) /\ a.th = L
    BY <1>4, <1>7, <1>9
  <2> QED BY <1>2, <1>4, <1>5, <2>1, <2>2, <2>3, <2>4 DEF YieldablePush
<1>12. Typed(cs', ci', status, nny, nCcalls', errfunc', allowhook, unstarted)
  BY <1>1, <1>5, <1>7, <1>8, <1>9 DEF Inv, Typed
<1>13. OnlyFor(a.th, nCcalls', nCcalls) /\ nCcalls'[a.th] = nCcalls[a.th] + 1
  BY <1>4, <1>8
<1>14. Inv(cs', ci', status, nny, nCcalls', errfunc', allowhook, unstarted)
  BY <1>1, <1>11, <1>12, <1>13, YieldableStep
<1> QED BY <1>3, <1>14 DEF IInv

\* The frame of the C function that runs.
LEMMA TopFrameHere ==
  ASSUME IInv, InFunction
  PROVE  TopFrame \in CallInfo /\ ~TopFrame.lua /\ Depth(L) = Top.level /\ Depth(L) > 0
<1>1. /\ ci[L] \in Seq(CallInfo) /\ Depth(L) = Top.level /\ Depth(L) \in Nat
      /\ Top.level > 0 /\ ~TopFrame.lua /\ Depth(L) = Len(ci[L])
  BY Here DEF Parts, InFunction, Depth, L, Top
<1>2. Depth(L) \in 1 .. Len(ci[L])
  BY <1>1
<1> QED BY <1>1, <1>2 DEF TopFrame

\* lua_callk keeps the invariant.
LEMMA CallkRight == ASSUME IInv, NEW k \in BOOLEAN, lua_callk(k) PROVE IInv'
<1>1. InC /\ ~InHost /\ (k => InFunction) /\ UNCHANGED <<status, errfunc, allowhook, unstarted>>
  BY DEF lua_callk
<1>2. CASE k /\ nny[L] = 0
  <2> DEFINE frame == [ci[L][Depth(L)] EXCEPT !.k = "k"]
  <2>1. /\ ci' = [ci EXCEPT ![L] = [ci[L] EXCEPT ![Depth(L)] = frame]]
        /\ luaD_call("callk", FALSE, cs)
    BY <1>2 DEF lua_callk
  <2>2. frame \in CallInfo /\ ~frame.lua /\ frame.k = "k" /\ frame.ypcall = TopFrame.ypcall
    <3>1. TopFrame \in CallInfo /\ ~TopFrame.lua
      BY <1>1, <1>2, TopFrameHere
    <3>2. TopFrame \in CFrame
      BY <3>1 DEF CallInfo, LuaFrame
    <3> QED BY <3>2 DEF CallInfo, CFrame, TopFrame
  <2> HIDE DEF frame
  <2> QED BY <1>1, <1>2, <2>1, <2>2, InterruptibleCall
<1>3. CASE ~(k /\ nny[L] = 0)
  <2>1. luaD_call("callk", TRUE, cs) /\ UNCHANGED <<ci, status, errfunc, allowhook, unstarted>>
    BY <1>1, <1>3 DEF lua_callk
  <2>2. /\ UsesApi(Top) /\ ~Waits(Top) /\ Top.fn # "lua_resume"
    BY <1>1 DEF InC, InHost, UsesApi, Waits
  <2>3. SameLevel(Top, CallRecord(L, Depth(L), "callk", TRUE))
    BY <2>2, FrameHere
  <2>4. CallFrom(Top, CallRecord(L, Depth(L), "callk", TRUE))
    BY <2>2, <2>3 DEF CallFrom, CallRecord
  <2>5. nCcalls[L] < ErrorCCalls
    BY <2>2, Here
  <2> QED BY <2>1, <2>4, <2>5, CallHere
<1> QED BY <1>2, <1>3

\* Two activations are pushed at once.
LEMMA TwoMore ==
  ASSUME NEW S, NEW s \in Seq(S), NEW a \in S, NEW b \in S
  PROVE  s \o <<a, b>> = Append(Append(s, a), b)
OBVIOUS

\* Three activations are pushed at once.
LEMMA ThreeMore ==
  ASSUME NEW S, NEW s \in Seq(S), NEW a \in S, NEW b \in S, NEW e \in S
  PROVE  s \o <<a, b, e>> = Append(Append(Append(s, a), b), e)
OBVIOUS

\* The frame of what runs.
LEMMA LevelHere ==
  ASSUME IInv, Top.fn # "lua_resume", NEW a, a.level = Depth(L)
  PROVE  SameLevel(Top, a)
<1>1. /\ Top.fn # "luaV_execute" => Depth(L) = Top.level
      /\ Top.fn = "luaV_execute" => Depth(L) >= Top.level
  BY Here
<1> QED BY <1>1 DEF SameLevel

\* lua_pcallk keeps the invariant.
LEMMA PcallkRight ==
  ASSUME IInv, NEW k \in BOOLEAN, NEW handler \in BOOLEAN, lua_pcallk(k, handler)
  PROVE  IInv'
<1> DEFINE ef == IF handler THEN HandlerOf(Depth(L)) ELSE 0
<1>1. /\ InC /\ (k => InFunction) /\ UNCHANGED <<status, allowhook, unstarted>>
      /\ errfunc' = [errfunc EXCEPT ![L] = ef]
  BY DEF lua_pcallk
<1>2. CASE k /\ nny[L] = 0
  <2> DEFINE frame == [ci[L][Depth(L)] EXCEPT !.k = "k", !.old_errfunc = errfunc[L],
                         !.oah = allowhook[L], !.ypcall = TRUE, !.handler = handler]
  <2>1. /\ ci' = [ci EXCEPT ![L] = [ci[L] EXCEPT ![Depth(L)] = frame]]
        /\ luaD_call("pcallk", FALSE, cs)
    BY <1>2 DEF lua_pcallk
  <2>2. /\ frame \in CallInfo /\ ~frame.lua /\ frame.k = "k" /\ frame.ypcall
        /\ frame.oah = allowhook[L] /\ frame.old_errfunc = errfunc[L]
        /\ frame.handler = handler
    <3>1. TopFrame \in CallInfo /\ ~TopFrame.lua
      BY <1>1, <1>2, TopFrameHere
    <3>2. TopFrame \in CFrame
      BY <3>1 DEF CallInfo, LuaFrame
    <3>3. errfunc[L] \in Nat /\ allowhook[L] \in BOOLEAN
      BY Here DEF Parts, L, Top
    <3> QED BY <3>2, <3>3 DEF CallInfo, CFrame, TopFrame
  <2> HIDE DEF frame
  <2>3. errfunc' = IF "pcallk" = "callk" THEN errfunc
                   ELSE [errfunc EXCEPT ![L] =
                           IF frame.handler THEN HandlerOf(Depth(L)) ELSE 0]
    BY <1>1, <2>2
  <2> QED BY <1>1, <1>2, <2>1, <2>2, <2>3, InterruptibleCall
<1>3. CASE ~(k /\ nny[L] = 0)
  <2>1. luaD_call("f_call", TRUE, Append(cs, PcallActivation(ef))) /\ ci' = ci
    BY <1>3 DEF lua_pcallk
  <2>2. /\ Inv(cs, ci, status, nny, nCcalls, errfunc, allowhook, unstarted)
        /\ L = cs[Len(cs)].th /\ Depth(L) = Len(ci[L]) /\ Top = cs[Len(cs)]
    BY DEF IInv, L, Top, Depth
  <2>3. /\ cs[Len(cs)].fn \in {"C", "hook", "f_parser", "GCTM", "luaD_protectedparser"}
        /\ cs[Len(cs)].level = Depth(L) /\ Depth(L) \in Nat
    BY <1>1, <2>2, Here DEF InC
  <2>4. ef \in Nat
    BY <2>3 DEF HandlerOf
  <2> HIDE DEF ef
  <2> DEFINE p == PcallRecord(L, Depth(L), nny[L], nCcalls[L], errfunc[L], allowhook[L], ef)
             a == CallRecord(L, Depth(L), "f_call", TRUE)
  <2>5. /\ cs' = Append(Append(cs, p), a)
        /\ nny' = [nny EXCEPT ![L] = nny[L] + 1]
        /\ nCcalls' = [nCcalls EXCEPT ![L] = nCcalls[L] + 1]
    BY <2>1 DEF luaD_call, CallActivation, CallRecord, PcallActivation, PcallRecord
  <2>6. Inv(cs', ci, status, nny', nCcalls', errfunc', allowhook, unstarted)
    <3>1. ProtectedOf(cs, ci, nny, nCcalls, errfunc, allowhook, L, Depth(L), ef, p, a, cs',
                      errfunc', nny', nCcalls')
      BY <1>1, <2>2, <2>3, <2>4, <2>5, Zenon DEF ProtectedOf
    <3> HIDE DEF p, a
    <3> QED BY <2>2, <3>1, ProtectedCall
  <2> QED BY <1>1, <2>1, <2>6 DEF IInv
<1> QED BY <1>2, <1>3

\* luaD_pcall_ends keeps the invariant.
LEMMA PcallEndsRight == ASSUME IInv, luaD_pcall_ends PROVE IInv'
<1> DEFINE j == Len(cs)
<1>1. /\ Inv(cs, ci, status, nny, nCcalls, errfunc, allowhook, unstarted)
      /\ L = cs[Len(cs)].th /\ Top = cs[Len(cs)]
  BY DEF IInv, L, Top
<1>2. /\ cs[j].fn = "luaD_pcall" /\ cs[j].th = L /\ luaD_pcall_returns(j, "LUA_OK")
      /\ UNCHANGED <<status, unstarted>>
  BY <1>1 DEF luaD_pcall_ends
<1>3. /\ cs \in Seq(Activation) /\ j \in 2 .. Len(cs) /\ j - 1 \in 1 .. Len(cs)
      /\ j = Len(cs)
  BY <1>1, <1>2, Here DEF Parts, InHost
<1> HIDE DEF j
<1>4. /\ nCcalls' = [nCcalls EXCEPT ![L] = cs[j].nCcalls]
      /\ errfunc' = [errfunc EXCEPT ![L] = cs[j].errfunc]
      /\ cs' = IF cs[j - 1].fn = "GCTM"
               THEN [SubSeq(cs, 1, j - 1) EXCEPT ![j - 1].status = "LUA_OK"]
               ELSE SubSeq(cs, 1, j - 1)
      /\ ci' = ci /\ nny' = nny /\ allowhook' = allowhook
  BY <1>2 DEF luaD_pcall_returns
<1>5. Cut(cs, cs', j - 1)
  BY <1>3, <1>4, PcallCut
<1>6. Inv(cs', ci', status, nny', [nCcalls EXCEPT ![cs[j].th] = cs[j].nCcalls],
          [errfunc EXCEPT ![cs[j].th] = cs[j].errfunc], allowhook', unstarted)
  <2> DEFINE st == "LUA_OK"
  <2>1. IF st = "LUA_OK" THEN ci' = ci /\ nny' = nny /\ allowhook' = allowhook
        ELSE /\ ci' = [ci EXCEPT ![cs[j].th] = SubSeq(ci[cs[j].th], 1, cs[j].level)]
             /\ nny' = [nny EXCEPT ![cs[j].th] = cs[j].nny]
             /\ allowhook' = [allowhook EXCEPT ![cs[j].th] = cs[j].allowhook]
    BY <1>4
  <2>2. /\ st \in {"LUA_OK"} \cup Errors /\ (st = "LUA_OK" => j = Len(cs))
        /\ cs[j].th = cs[Len(cs)].th
    BY <1>3
  <2> HIDE DEF st
  <2>3. PcallEnds(cs, ci, nny, allowhook, j, st, cs', ci', nny', allowhook')
    BY <1>2, <1>3, <1>5, <2>1, <2>2, Zenon DEF PcallEnds
  <2> QED BY <1>1, <2>3, PcallReturns
<1> QED BY <1>2, <1>4, <1>6 DEF IInv

\* A hook, called by Lua code.
LEMMA HookRight == ASSUME IInv, luaD_hook PROVE IInv'
<1> DEFINE a == [fn |-> "hook", th |-> L, level |-> Depth(L)]
<1>1. /\ Top.fn = "luaV_execute" /\ allowhook[L]
      /\ allowhook' = [allowhook EXCEPT ![L] = FALSE] /\ cs' = Append(cs, a)
      /\ UNCHANGED <<ci, status, nny, nCcalls, errfunc, unstarted>>
  BY DEF luaD_hook
<1>2. /\ Inv(cs, ci, status, nny, nCcalls, errfunc, allowhook, unstarted)
      /\ L = cs[Len(cs)].th /\ Depth(L) = Len(ci[L]) /\ Top = cs[Len(cs)]
  BY DEF IInv, L, Top, Depth
<1>3. CCallsIn(cs, Len(cs)) < ErrorCCalls /\ L \in Thread /\ Depth(L) \in Nat
  BY <1>1, Here DEF Waits
<1>4. a.fn = "hook" /\ a.th = L /\ a.level = Depth(L) /\ a \in Activation
  BY <1>3 DEF Activation, Runs
<1> HIDE DEF a
<1>5. LiesOn(cs[Len(cs)], a)
  <2>1. SameLevel(Top, a)
    BY <1>1, <1>4, LevelHere
  <2> QED BY <1>1, <1>2, <1>4, <2>1 DEF LiesOn
<1>6. Inv(cs', ci, status, nny, nCcalls, errfunc, allowhook', unstarted)
  <2>1. IF a.fn = "hook" THEN allowhook[L] ELSE a.oldah = allowhook[L]
    BY <1>1, <1>4
  <2>2. a.fn \in {"hook", "GCTM"} /\ a.level = Len(ci[L])
    BY <1>2, <1>4
  <2> QED BY <1>1, <1>2, <1>3, <1>4, <1>5, <2>1, <2>2, AsidePushed
<1> QED BY <1>1, <1>6 DEF IInv

\* A finalizer, called by an allocation.
LEMMA GCTMRight == ASSUME IInv, GCTM PROVE IInv'
<1> DEFINE b == [fn |-> "GCTM", th |-> L, level |-> Depth(L), oldah |-> allowhook[L],
                 status |-> "LUA_OK"]
           p == PcallRecord(L, Depth(L), nny[L], nCcalls[L], errfunc[L], FALSE, 0)
           a == CallRecord(L, Depth(L), "f_call", TRUE)
           e == Append(cs, b)
<1>1. /\ Allocates /\ allowhook' = [allowhook EXCEPT ![L] = FALSE]
      /\ errfunc' = [errfunc EXCEPT ![L] = 0]
      /\ UNCHANGED <<ci, status, unstarted>>
  BY DEF GCTM
<1>2. /\ Inv(cs, ci, status, nny, nCcalls, errfunc, allowhook, unstarted)
      /\ L = cs[Len(cs)].th /\ Depth(L) = Len(ci[L]) /\ Top = cs[Len(cs)]
  BY DEF IInv, L, Top, Depth
<1>3. /\ cs \in Seq(Activation) /\ L \in Thread /\ Depth(L) \in Nat
      /\ nny[L] \in Nat /\ nCcalls[L] \in Nat /\ errfunc[L] \in Nat
      /\ allowhook[L] \in BOOLEAN /\ allowhook \in [Thread -> BOOLEAN]
      /\ nCcalls[L] = CCallsIn(cs, Len(cs))
  BY <1>2, Here DEF Parts
<1>4. CCallsIn(cs, Len(cs)) < ErrorCCalls /\ (RunsCode(Top) \/ Waits(Top))
      /\ Top.fn # "lua_resume"
  BY <1>1, <1>3, AllocatesHere
<1>5. /\ b.fn = "GCTM" /\ b.th = L /\ b.level = Depth(L) /\ b.oldah = allowhook[L]
      /\ b \in Activation /\ p \in Activation /\ a \in Activation
  BY <1>3 DEF Activation, Runs, PcallRecord, CallRecord, Errors
<1>6. /\ cs' = Append(Append(Append(cs, b), p), a)
      /\ nny' = [nny EXCEPT ![L] = nny[L] + 1]
      /\ nCcalls' = [nCcalls EXCEPT ![L] = nCcalls[L] + 1]
  <2>1. [PcallActivation(0) EXCEPT !.allowhook = FALSE] = p
    <3>1. \A x : [PcallActivation(0) EXCEPT !.allowhook = x] =
                  PcallRecord(L, Depth(L), nny[L], nCcalls[L], errfunc[L], x, 0)
      BY DEF PcallActivation, PcallRecord
    <3> QED BY <3>1
  <2>2. CallActivation("f_call", TRUE) = a
    BY DEF CallActivation, CallRecord
  <2>3. luaD_call("f_call", TRUE, cs \o <<b, [PcallActivation(0) EXCEPT !.allowhook = FALSE]>>)
    BY DEF GCTM
  <2>4. luaD_call("f_call", TRUE, cs \o <<b, p>>)
    BY <2>1, <2>3
  <2> HIDE DEF a, b, p
  <2>5. cs \o <<b, p>> = Append(Append(cs, b), p)
    BY <1>3, <1>5, TwoMore
  <2> QED BY <2>2, <2>4, <2>5 DEF luaD_call
<1> HIDE DEF b
<1>7. LiesOn(cs[Len(cs)], b)
  <2>1. SameLevel(Top, b)
    BY <1>4, <1>5, LevelHere
  <2> QED BY <1>2, <1>4, <1>5, <2>1 DEF LiesOn
<1>8. e = Append(cs, b)
  OBVIOUS
<1>9. p = PcallRecord(L, Depth(L), nny[L], nCcalls[L], errfunc[L], allowhook'[L], 0)
  BY <1>1, <1>3
<1>10. a = CallRecord(L, Depth(L), "f_call", TRUE)
  OBVIOUS
<1>11. cs' = Append(Append(e, p), a)
  BY <1>6
<1> HIDE DEF e, p, a
<1>12. Inv(e, ci, status, nny, nCcalls, errfunc, allowhook', unstarted)
  <2>1. IF b.fn = "hook" THEN allowhook[L] ELSE b.oldah = allowhook[L]
    BY <1>5
  <2>2. b.fn \in {"hook", "GCTM"} /\ b.level = Len(ci[L])
    BY <1>2, <1>5
  <2> QED BY <1>1, <1>2, <1>4, <1>5, <1>7, <1>8, <2>1, <2>2, AsidePushed
<1>13. /\ L = e[Len(e)].th /\ e[Len(e)].level = Depth(L)
       /\ e[Len(e)].fn \in {"C", "hook", "f_parser", "GCTM", "luaD_protectedparser"}
  BY <1>3, <1>5, <1>8, TopOfPushed
<1>14. Inv(cs', ci, status, nny', nCcalls', errfunc', allowhook', unstarted)
  <2>1. 0 \in Nat
    OBVIOUS
  <2>2. /\ nny' = [nny EXCEPT ![L] = nny[L] + 1]
        /\ nCcalls' = [nCcalls EXCEPT ![L] = nCcalls[L] + 1]
        /\ errfunc' = [errfunc EXCEPT ![L] = 0] /\ Depth(L) = Len(ci[L])
    BY <1>1, <1>2, <1>6
  <2>3. ProtectedOf(e, ci, nny, nCcalls, errfunc, allowhook', L, Depth(L), 0, p, a, cs',
                    errfunc', nny', nCcalls')
    BY <1>9, <1>10, <1>11, <1>13, <2>1, <2>2, Zenon DEF ProtectedOf
  <2> QED BY <1>12, <2>3, ProtectedCall
<1> QED BY <1>1, <1>14 DEF IInv

\* lua_load: the parser runs in a luaD_pcall of its own.
LEMMA ProtectedParserRight == ASSUME IInv, luaD_protectedparser PROVE IInv'
<1> DEFINE b == [fn |-> "luaD_protectedparser", th |-> L, level |-> Depth(L)]
           p == PcallRecord(L, Depth(L), nny[L] + 1, nCcalls[L], errfunc[L],
                            allowhook[L], errfunc[L])
           a == [fn |-> "f_parser", th |-> L, level |-> Depth(L)]
           d == Append(cs, b)
           e == Append(d, p)
<1>1. /\ InFunction /\ nny' = [nny EXCEPT ![L] = nny[L] + 1]
      /\ UNCHANGED <<ci, status, nCcalls, errfunc, allowhook, unstarted>>
  BY DEF luaD_protectedparser
<1>2. /\ Inv(cs, ci, status, nny, nCcalls, errfunc, allowhook, unstarted)
      /\ L = cs[Len(cs)].th /\ Depth(L) = Len(ci[L]) /\ Top = cs[Len(cs)]
  BY DEF IInv, L, Top, Depth
<1>3. /\ cs \in Seq(Activation) /\ L \in Thread /\ Depth(L) \in Nat
      /\ nny[L] \in Nat /\ nCcalls[L] \in Nat /\ errfunc[L] \in Nat
      /\ allowhook[L] \in BOOLEAN /\ Len(cs) \in Nat /\ Len(cs) > 1
      /\ nny \in [Thread -> Nat] /\ errfunc \in [Thread -> Nat]
      /\ Top.fn = "C" /\ Top.level > 0 /\ Depth(L) = Top.level
      /\ CCallsIn(cs, Len(cs)) < ErrorCCalls
  BY <1>1, <1>2, Here DEF Parts, InFunction, Waits, InHost
<1>4. /\ b.fn = "luaD_protectedparser" /\ b.th = L /\ b.level = Depth(L)
      /\ b \in Activation
      /\ p.fn = "luaD_pcall" /\ p.th = L /\ p.level = Depth(L) /\ p \in Activation
      /\ a.fn = "f_parser" /\ a.th = L /\ a.level = Depth(L) /\ a \in Activation
  BY <1>3 DEF Activation, Runs, PcallRecord
<1>5. cs' = Append(Append(Append(cs, b), p), a)
  <2>1. [PcallActivation(errfunc[L]) EXCEPT !.nny = @ + 1] = p
    BY DEF PcallActivation, PcallRecord
  <2>2. cs' = cs \o <<b, [PcallActivation(errfunc[L]) EXCEPT !.nny = @ + 1], a>>
    BY DEF luaD_protectedparser
  <2>3. cs' = cs \o <<b, p, a>>
    BY <2>1, <2>2
  <2> HIDE DEF a, b, p
  <2> QED BY <1>3, <1>4, <2>3, ThreeMore
<1>6. /\ nny'[L] = nny[L] + 1
      /\ p = PcallRecord(L, Depth(L), nny'[L], nCcalls[L], errfunc[L], allowhook[L], errfunc[L])
  BY <1>1, <1>3
<1>7. d = Append(cs, b) /\ e = Append(d, p) /\ cs' = Append(e, a)
  BY <1>5
<1> HIDE DEF a, b, p, d, e
<1>8. Inv(d, ci, status, nny', nCcalls, errfunc, allowhook, unstarted)
  <2>1. LiesOn(cs[Len(cs)], b)
    BY <1>2, <1>3, <1>4 DEF LiesOn
  <2>2. /\ b.fn = "luaD_protectedparser" => nny' = [nny EXCEPT ![L] = nny[L] + 1]
        /\ b.fn = "f_parser" => nny' = nny
        /\ b.level = Len(ci[L]) /\ b.fn \in {"luaD_protectedparser", "f_parser"}
        /\ b.fn = "f_parser" => Len(cs) > 2 /\ cs[Len(cs) - 1].fn = "luaD_protectedparser"
    BY <1>1, <1>2, <1>4
  <2>3. ParserOf(cs, ci, nny, L, b, d, nny')
    BY <1>2, <1>3, <1>4, <1>7, <2>1, <2>2, Zenon DEF ParserOf
  <2> QED BY <1>2, <2>3, ParserPushed
<1>9. d \in Seq(Activation) /\ Len(d) = Len(cs) + 1 /\ d[Len(d)] = b
  BY <1>3, <1>4, <1>7, TopOfPushed
<1>10. Inv(e, ci, status, nny', nCcalls, errfunc, allowhook, unstarted)
  <2>1. errfunc = [errfunc EXCEPT ![L] = errfunc[L]]
    BY <1>3, PutSame
  <2>2. /\ L = d[Len(d)].th /\ d[Len(d)].level = Depth(L) /\ Depth(L) = Len(ci[L])
        /\ d[Len(d)].fn \in {"C", "hook", "f_parser", "GCTM", "luaD_protectedparser"}
    BY <1>2, <1>4, <1>9
  <2>3. errfunc[L] \in Nat
    BY <1>3
  <2>4. PcallOf(d, ci, nny', nCcalls, errfunc, allowhook, L, Depth(L), errfunc[L], p, e,
                errfunc)
    BY <1>6, <1>7, <2>1, <2>2, <2>3, Zenon DEF PcallOf
  <2> QED BY <1>8, <2>4, PcallPushed
<1>11. e \in Seq(Activation) /\ Len(e) = Len(cs) + 2 /\ e[Len(e)] = p /\ e[Len(e) - 1] = b
  <2>1. /\ e \in Seq(Activation) /\ Len(e) = Len(d) + 1 /\ e[Len(e)] = p
        /\ \A i \in 1 .. Len(d) : e[i] = d[i]
    BY <1>4, <1>7, <1>9, TopOfPushed
  <2>2. Len(e) - 1 = Len(d) /\ Len(d) \in 1 .. Len(d)
    BY <1>3, <1>9, <2>1
  <2>3. e[Len(e) - 1] = b
    BY <1>9, <2>1, <2>2
  <2>4. Len(e) = Len(cs) + 2
    BY <1>3, <1>9, <2>1
  <2> QED BY <2>1, <2>3, <2>4
<1>12. Inv(cs', ci, status, nny', nCcalls, errfunc, allowhook, unstarted)
  <2>1. LiesOn(e[Len(e)], a)
    BY <1>4, <1>11 DEF LiesOn
  <2>2. CCallsIn(e, Len(e)) < ErrorCCalls
    <3>1. Stack(e) /\ StackBounded(e)
      BY <1>10 DEF Inv
    <3>2. ~Waits(e[Len(e)])
      BY <1>4, <1>11 DEF Waits
    <3> QED BY <1>11, <3>1, <3>2, NotFull
  <2>3. /\ a.fn # "luaD_protectedparser"
        /\ a.fn \in {"luaD_protectedparser", "f_parser"} /\ a.level = Len(ci[L])
        /\ a \in Activation /\ a.th = L /\ L = e[Len(e)].th
    BY <1>2, <1>4, <1>11
  <2>4. a.fn = "f_parser" => Len(e) > 2 /\ e[Len(e) - 1].fn = "luaD_protectedparser"
    BY <1>3, <1>4, <1>11
  <2>5. ParserOf(e, ci, nny', L, a, cs', nny')
    BY <1>7, <2>1, <2>2, <2>3, <2>4, Zenon DEF ParserOf
  <2> QED BY <1>10, <2>5, ParserPushed
<1> QED BY <1>1, <1>12 DEF IInv

\* Where the longjmp for a yield ends.
LEMMA YieldJump ==
  ASSUME IInv, nny[L] = 0, Top.fn \in {"C", "hook"}, ~InHost
  PROVE  /\ errorJmp \in 2 .. Len(cs) /\ errorJmp < Len(cs)
         /\ cs[errorJmp].fn = "lua_resume" /\ cs[errorJmp].th = L
<1> DEFINE j == errorJmp
<1>1. /\ Inv(cs, ci, status, nny, nCcalls, errfunc, allowhook, unstarted)
      /\ Top = cs[Len(cs)] /\ L = cs[Len(cs)].th
  BY DEF IInv, L, Top
<1>2. /\ cs \in Seq(Activation) /\ L \in Thread /\ Len(cs) \in Nat /\ Len(cs) > 1
      /\ Len(cs) \in 1 .. Len(cs)
  BY <1>1, Here DEF Parts
<1>3. Stack(cs) /\ NnyCounted(cs, nny)
  BY <1>1 DEF Inv
<1>4. NnyIn(cs, L, Len(cs)) = 0
  <2>1. IsOn(cs, L)
    BY <1>1, <1>2, <1>3, OnTheStack
  <2> QED BY <1>2, <1>3, <2>1 DEF NnyCounted
<1>5. PcallsOf(cs, L, Len(cs)) = {}
  BY <1>1, <1>2, <1>3, <1>4, NoPcalls
<1>6. Protectors(L) = {i \in 1 .. Len(cs) : /\ cs[i].fn \in {"luaD_pcall", "lua_resume"}
                                            /\ cs[i].th = cs[Len(cs)].th}
  BY <1>1, <1>2 DEF Protectors
<1>7. j \in Protectors(L) /\ j \in 2 .. Len(cs)
  BY <1>2, <1>3, <1>6, Jumps DEF errorJmp
<1> HIDE DEF j
<1>8. /\ cs[j].fn \in {"luaD_pcall", "lua_resume"} /\ cs[j].th = L /\ j \in 1 .. Len(cs)
  BY <1>1, <1>6, <1>7
<1>9. cs[j].fn = "lua_resume"
  BY <1>5, <1>8 DEF PcallsOf
<1>10. j # Len(cs)
  BY <1>1, <1>9
<1>11. j < Len(cs)
  BY <1>2, <1>7, <1>10
<1> QED BY <1>7, <1>8, <1>9, <1>11 DEF j

\* A yield, with the frames as lua_yieldk leaves them.
LEMMA YieldHere ==
  ASSUME IInv, nny[L] = 0, Top.fn \in {"C", "hook"}, ~InHost,
         NEW g \in Seq(CallInfo), YieldFrames(g, ci[L]), throwYield(g),
         allowhook' \in [Thread -> BOOLEAN], OnlyFor(L, allowhook', allowhook),
         allowhook'[L]
  PROVE  IInv'
<1> DEFINE j == errorJmp
<1>1. /\ Inv(cs, ci, status, nny, nCcalls, errfunc, allowhook, unstarted)
      /\ Top = cs[Len(cs)] /\ L = cs[Len(cs)].th
  BY DEF IInv, L, Top
<1>2. L \in Thread /\ ci \in [Thread -> Seq(CallInfo)]
  BY <1>1, Here DEF Parts
<1>3. /\ j \in 2 .. Len(cs) /\ j < Len(cs)
      /\ cs[j].fn = "lua_resume" /\ cs[j].th = L
  BY YieldJump
<1>4. /\ status' = [status EXCEPT ![L] = "LUA_YIELD"] /\ ci' = [ci EXCEPT ![L] = g]
      /\ nny' = [nny EXCEPT ![L] = cs[j].nny]
      /\ nCcalls' = [nCcalls EXCEPT ![L] = cs[j].nCcalls - 1]
      /\ cs' = SubSeq(cs, 1, j - 1) /\ errfunc' = errfunc /\ unstarted' = unstarted
  BY DEF throwYield, lua_resume_returns
<1> HIDE DEF j
<1>5. FramesTyped(ci') /\ ci'[L] = g /\ OnlyFor(L, ci', ci)
  BY <1>2, <1>4 DEF FramesTyped, OnlyFor
<1>6. YieldFrames(ci'[L], ci[L])
  BY <1>5
<1>7. HooksTyped(allowhook')
  BY DEF HooksTyped
<1>8. Inv(SubSeq(cs, 1, j - 1), ci', [status EXCEPT ![L] = "LUA_YIELD"],
          [nny EXCEPT ![L] = cs[j].nny], [nCcalls EXCEPT ![L] = cs[j].nCcalls - 1],
          errfunc, allowhook', unstarted)
  <2>1. cs[Len(cs)].fn # "luaD_pcall"
    BY <1>1
  <2> QED BY <1>1, <1>3, <1>5, <1>6, <1>7, <2>1, YieldStep
<1> QED BY <1>4, <1>8 DEF IInv

\* hook_yields keeps the invariant.
LEMMA HookYieldsRight == ASSUME IInv, hook_yields PROVE IInv'
<1>1. /\ Top.fn = "hook" /\ nny[L] = 0 /\ throwYield(ci[L])
      /\ allowhook' = [allowhook EXCEPT ![L] = TRUE] /\ ~InHost
  BY DEF hook_yields, InHost
<1>2. /\ Inv(cs, ci, status, nny, nCcalls, errfunc, allowhook, unstarted)
      /\ Top = cs[Len(cs)] /\ L = cs[Len(cs)].th /\ Depth(L) = Len(ci[L])
  BY DEF IInv, L, Top, Depth
<1>3. /\ cs \in Seq(Activation) /\ L \in Thread /\ Len(cs) \in Nat /\ Len(cs) > 1
      /\ ci \in [Thread -> Seq(CallInfo)] /\ ci[L] \in Seq(CallInfo)
      /\ Depth(L) = Top.level /\ Depth(L) \in Nat /\ allowhook \in [Thread -> BOOLEAN]
  BY <1>1, <1>2, Here DEF Parts
<1>4. Stack(cs) /\ Frames(cs, ci)
  BY <1>2 DEF Inv
<1> DEFINE n == Len(cs) - 1
<1>5. /\ n \in 1 .. Len(cs) /\ n + 1 = Len(cs)
      /\ LastFrame(cs, ci, n) = Top.level
  BY <1>1, <1>3, ReturnHere DEF Base
<1>6. cs[n].th = L /\ LiesOn(cs[n], Top)
  <2>1. Len(cs) \in 2 .. Len(cs)
    BY <1>3
  <2> QED BY <1>1, <1>2, <1>4, <2>1 DEF Stack
<1> HIDE DEF n
<1>7. cs[n].fn = "luaV_execute" /\ cs[n].level <= Top.level
  BY <1>1, <1>6 DEF LiesOn, SameLevel
<1>8. cs[n].level > 0 /\ cs[n].level \in Nat
  <2>1. cs[n].level > 0
    BY <1>3, <1>4, <1>5, <1>7, LevelsRight
  <2>2. cs[n].level \in Nat
    BY <1>3, <1>4, <1>5, StackParts
  <2> QED BY <2>1, <2>2
<1>9. ci[L][Len(ci[L])].lua /\ Len(ci[L]) > 0
  <2>1. \A i \in cs[n].level .. LastFrame(cs, ci, n) : ci[L][i].lua
    BY <1>4, <1>5, <1>6, <1>7 DEF Frames
  <2>2. Top.level \in cs[n].level .. Top.level
    BY <1>3, <1>7, <1>8
  <2> QED BY <1>2, <1>3, <1>5, <1>7, <1>8, <2>1, <2>2
<1>10. YieldFrames(ci[L], ci[L])
  <2>1. Len(ci[L]) \notin Ypcalls(ci[L])
    BY <1>9 DEF Ypcalls
  <2>2. ci[L] # <<>>
    BY <1>9
  <2> QED BY <1>9, <2>1, <2>2 DEF YieldFrames
<1>11. /\ allowhook' \in [Thread -> BOOLEAN] /\ OnlyFor(L, allowhook', allowhook)
       /\ allowhook'[L]
  BY <1>1, <1>3 DEF OnlyFor
<1> QED BY <1>1, <1>3, <1>10, <1>11, YieldHere

\* lua_yieldk keeps the invariant.
LEMMA YieldkRight == ASSUME IInv, NEW k \in BOOLEAN, lua_yieldk(k) PROVE IInv'
<1> DEFINE x == IF k THEN "k" ELSE "NULL"
           frame == [ci[L][Depth(L)] EXCEPT !.k = x]
           g == [ci[L] EXCEPT ![Depth(L)] = frame]
<1>1. /\ Top.fn = "C" /\ Top.level > 0 /\ nny[L] = 0 /\ throwYield(g)
      /\ allowhook' = allowhook /\ InFunction
  BY DEF lua_yieldk, InFunction
<1>2. /\ Inv(cs, ci, status, nny, nCcalls, errfunc, allowhook, unstarted)
      /\ Top = cs[Len(cs)] /\ L = cs[Len(cs)].th /\ Depth(L) = Len(ci[L])
  BY DEF IInv, L, Top, Depth
<1>3. /\ cs \in Seq(Activation) /\ L \in Thread /\ Len(cs) \in Nat
      /\ ci \in [Thread -> Seq(CallInfo)] /\ ci[L] \in Seq(CallInfo)
      /\ Depth(L) = Top.level /\ Depth(L) \in Nat /\ allowhook \in [Thread -> BOOLEAN]
      /\ status[L] = "LUA_OK" /\ ~InHost
  BY <1>1, <1>2, Here DEF Parts, InHost
<1>4. TopFrame \in CallInfo /\ ~TopFrame.lua
  BY <1>1, TopFrameHere
<1>5. /\ Stack(cs) /\ Frames(cs, ci) /\ Interruptible(cs, ci) /\ NnyCounted(cs, nny)
      /\ HooksRight(cs, status, allowhook)
  BY <1>2 DEF Inv
<1>6. AsideOf(cs, L, Len(cs)) = {} /\ ~TopFrame.ypcall
  BY <1>1, <1>2, <1>3, <1>5, Yieldable DEF TopFrame
<1>7. allowhook[L]
  BY <1>3, <1>5, <1>6 DEF HooksRight, errorstatus, Errors
<1>8. /\ frame \in CallInfo /\ ~frame.lua /\ frame.k \in {"k", "NULL"} /\ ~frame.ypcall
  <2>1. TopFrame \in CFrame
    BY <1>4 DEF CallInfo, LuaFrame
  <2>2. x \in {"k", "NULL"}
    OBVIOUS
  <2> HIDE DEF x
  <2>3. frame \in CFrame /\ frame.k = x /\ frame.ypcall = TopFrame.ypcall /\ frame.lua = TopFrame.lua
    BY <2>1, <2>2 DEF CFrame, TopFrame
  <2> QED BY <1>4, <1>6, <2>2, <2>3 DEF CallInfo
<1> HIDE DEF frame
<1>9. /\ g \in Seq(CallInfo) /\ Len(g) = Len(ci[L]) /\ g[Len(ci[L])] = frame
      /\ \A i \in 1 .. Len(ci[L]) : i < Len(ci[L]) => g[i] = ci[L][i]
  <2>1. Depth(L) \in 1 .. Len(ci[L]) /\ ci[L] \in Seq(CallInfo) /\ frame \in CallInfo
    BY <1>1, <1>2, <1>3, <1>8
  <2>2. /\ g \in Seq(CallInfo) /\ Len(g) = Len(ci[L]) /\ g[Depth(L)] = frame
        /\ \A i \in 1 .. Len(ci[L]) : i # Depth(L) => g[i] = ci[L][i]
    BY <2>1
  <2>3. Depth(L) = Len(ci[L]) /\ Len(ci[L]) \in Nat
    BY <1>2, <1>3
  <2> HIDE DEF g
  <2> QED BY <2>2, <2>3
<1> HIDE DEF g
<1>10. YieldFrames(g, ci[L])
  <2>1. Len(ci[L]) \notin Ypcalls(ci[L])
    BY <1>2, <1>6 DEF Ypcalls, TopFrame
  <2>3. Len(ci[L]) > 0
    BY <1>1, <1>2, <1>3
  <2>2. ci[L] # <<>>
    BY <2>3
  <2> QED BY <1>8, <1>9, <2>1, <2>2 DEF YieldFrames
<1>11. OnlyFor(L, allowhook', allowhook)
  BY <1>1 DEF OnlyFor
<1> QED BY <1>1, <1>3, <1>7, <1>9, <1>10, <1>11, YieldHere

\* lua_resume keeps the invariant.
LEMMA LuaResumeRight == ASSUME IInv, NEW t \in Thread, lua_resume(t) PROVE IInv'
<1> DEFINE a == [fn |-> "lua_resume", th |-> t, level |-> 0, nny |-> nny[t],
                 nCcalls |-> nCcalls[L] + 1, entered |-> FALSE]
<1>1. /\ InC /\ ~InHost /\ CanResume(t)
      /\ nCcalls' = [nCcalls EXCEPT ![t] = nCcalls[L] + 1]
      /\ UNCHANGED <<ci, status, errfunc, allowhook, unstarted>>
  BY DEF lua_resume
<1>2. /\ Inv(cs, ci, status, nny, nCcalls, errfunc, allowhook, unstarted)
      /\ L = cs[Len(cs)].th /\ Top = cs[Len(cs)]
  BY DEF IInv, L, Top
<1>3. /\ cs \in Seq(Activation) /\ nCcalls \in [Thread -> Nat] /\ nny \in [Thread -> Nat]
      /\ nCcalls[L] \in Nat /\ nny[t] \in Nat /\ nCcalls[L] = CCallsIn(cs, Len(cs))
  BY <1>2, Here DEF Parts
<1>4. UsesApi(Top) /\ Top.fn # "lua_resume"
  BY <1>1 DEF InC, InHost, UsesApi
<1>5. t \in unstarted \/ status[t] = "LUA_YIELD"
  BY <1>1 DEF CanResume
<1>6. /\ nCcalls' \in [Thread -> Nat] /\ nCcalls'[t] = nCcalls[L] + 1
      /\ OnlyFor(t, nCcalls', nCcalls)
  BY <1>1, <1>3 DEF OnlyFor
<1>7. CASE nCcalls[L] + 1 >= LUAI_MAXCCALLS
  <2>1. cs' = cs /\ nny' = nny
    BY <1>7 DEF lua_resume
  <2>2. Typed(cs, ci, status, nny, nCcalls', errfunc, allowhook, unstarted)
    BY <1>2, <1>6 DEF Inv, Typed
  <2>3. Inv(cs, ci, status, nny, nCcalls', errfunc, allowhook, unstarted)
    BY <1>2, <1>4, <1>5, <1>6, <2>2, NoRoomStep
  <2> QED BY <1>1, <2>1, <2>3 DEF IInv
<1>8. CASE ~(nCcalls[L] + 1 >= LUAI_MAXCCALLS)
  <2>1. cs' = Append(cs, a) /\ nny' = [nny EXCEPT ![t] = 0]
    BY <1>8 DEF lua_resume
  <2>2. /\ a.fn = "lua_resume" /\ a.th = t /\ a.level = 0 /\ a.nny = nny[t]
        /\ a.nCcalls = nCcalls[L] + 1 /\ ~a.entered /\ a \in Activation
    BY <1>3 DEF Activation
  <2> HIDE DEF a
  <2>3. Pushed(cs, cs', a) /\ cs' \in Seq(Activation)
    BY <1>3, <2>1, <2>2, PushIsPush
  <2>4. nny' \in [Thread -> Nat] /\ nny'[t] = 0 /\ OnlyFor(t, nny', nny)
    BY <1>3, <2>1 DEF OnlyFor
  <2>5. CCallsIn(cs, Len(cs)) + 1 < ErrorCCalls
    BY <1>3, <1>8, LimitAssumption
  <2>6. ResumePush(cs, nny, nCcalls, unstarted, status, cs', a, nny', nCcalls')
    BY <1>2, <1>4, <1>5, <1>6, <2>2, <2>3, <2>4, <2>5 DEF ResumePush
  <2>7. Typed(cs', ci, status, nny', nCcalls', errfunc, allowhook, unstarted)
    BY <1>2, <1>6, <2>3, <2>4 DEF Inv, Typed
  <2>8. Inv(cs', ci, status, nny', nCcalls', errfunc, allowhook, unstarted)
    BY <1>2, <2>6, <2>7, ResumeStep
  <2> QED BY <1>1, <2>8 DEF IInv
<1> QED BY <1>7, <1>8

\* NewFunction keeps the invariant.
LEMMA NewFunctionRight == ASSUME IInv, NEW t \in Thread, NewFunction(t) PROVE IInv'
<1>1. /\ InFunction /\ status[t] = "LUA_OK" /\ ci[t] = <<>>
      /\ unstarted' = unstarted \cup {t}
      /\ UNCHANGED <<ci, status, nny, nCcalls, errfunc, allowhook, cs>>
  BY DEF NewFunction
<1>2. /\ Inv(cs, ci, status, nny, nCcalls, errfunc, allowhook, unstarted)
      /\ UsesApi(cs[Len(cs)])
  BY <1>1 DEF IInv, InFunction, UsesApi, Top
<1>3. Inv(cs, ci, status, nny, nCcalls, errfunc, allowhook, unstarted \cup {t})
  BY <1>1, <1>2, NewFunctionStep
<1> QED BY <1>1, <1>3 DEF IInv

\* One turn of unroll.
LEMMA UnrollRight == ASSUME IInv, unroll PROVE IInv'
<1>1. /\ Top.fn = "lua_resume" /\ Top.entered
      /\ UNCHANGED <<status, allowhook, unstarted>>
  BY DEF unroll
<1>2. /\ Inv(cs, ci, status, nny, nCcalls, errfunc, allowhook, unstarted)
      /\ L = cs[Len(cs)].th /\ Top = cs[Len(cs)] /\ Depth(L) = Len(ci[L])
  BY DEF IInv, L, Top, Depth
<1>3. CASE ci[L] = <<>>
  <2>1. /\ nny' = [nny EXCEPT ![L] = cs[Len(cs)].nny]
        /\ nCcalls' = [nCcalls EXCEPT ![L] = cs[Len(cs)].nCcalls - 1]
        /\ cs' = SubSeq(cs, 1, Len(cs) - 1) /\ errfunc' = errfunc /\ ci' = ci
    BY <1>3 DEF unroll, lua_resume_returns
  <2>2. Inv(SubSeq(cs, 1, Len(cs) - 1), ci, status,
            [nny EXCEPT ![L] = cs[Len(cs)].nny],
            [nCcalls EXCEPT ![L] = cs[Len(cs)].nCcalls - 1], errfunc, allowhook, unstarted)
    BY <1>1, <1>2, <1>3, DoneStep
  <2> QED BY <1>1, <2>1, <2>2 DEF IInv
<1>4. CASE ci[L] # <<>> /\ TopFrame.lua
  <2>1. /\ ci' = [ci EXCEPT ![L][Len(ci[L])].fresh = TRUE]
        /\ cs' = Append(cs, [fn |-> "luaV_execute", th |-> L, level |-> Len(ci[L])])
        /\ UNCHANGED <<nny, nCcalls, errfunc>>
    BY <1>2, <1>4 DEF unroll, execute
  <2>2. ci[L][Len(ci[L])].lua
    BY <1>2, <1>4 DEF TopFrame
  <2>3. Inv(Append(cs, [fn |-> "luaV_execute", th |-> L, level |-> Len(ci[L])]),
            [ci EXCEPT ![L][Len(ci[L])].fresh = TRUE], status, nny, nCcalls, errfunc,
            allowhook, unstarted)
    BY <1>1, <1>2, <1>4, <2>2, ExecuteAgain
  <2> QED BY <1>1, <2>1, <2>3 DEF IInv
<1>5. CASE ci[L] # <<>> /\ ~TopFrame.lua
  <2>1. /\ ci' = [ci EXCEPT ![L] = [ci[L] EXCEPT ![Len(ci[L])].ypcall = FALSE]]
        /\ cs' = Append(cs, [fn |-> "C", th |-> L, level |-> Len(ci[L])])
        /\ errfunc' = IF ci[L][Len(ci[L])].ypcall
                      THEN [errfunc EXCEPT ![L] = ci[L][Len(ci[L])].old_errfunc] ELSE errfunc
        /\ UNCHANGED <<nny, nCcalls>>
    BY <1>5 DEF unroll, finishCcall
  <2>2. ~ci[L][Len(ci[L])].lua
    BY <1>2, <1>5 DEF TopFrame
  <2>3. Inv(Append(cs, [fn |-> "C", th |-> L, level |-> Len(ci[L])]),
            [ci EXCEPT ![L] = [ci[L] EXCEPT ![Len(ci[L])].ypcall = FALSE]], status, nny,
            nCcalls, errfunc', allowhook, unstarted)
    BY <1>1, <1>2, <1>5, <2>1, <2>2, FinishStep
  <2> QED BY <1>1, <2>1, <2>3 DEF IInv
<1> QED BY <1>3, <1>4, <1>5

\* lua_resume is entered: what activation and frames there are then.
LEMMA EnteredHere ==
  ASSUME IInv, Top.fn = "lua_resume", ~Top.entered,
         NEW d, d = [cs EXCEPT ![Len(cs)].entered = TRUE]
  PROVE  /\ d \in Seq(Activation) /\ Len(d) = Len(cs)
         /\ d[Len(d)].fn = "lua_resume" /\ d[Len(d)].th = L /\ d[Len(d)].entered
         /\ L \in Thread /\ Depth(L) \in Nat
         /\ IF status[L] = "LUA_OK" THEN L \in unstarted /\ ci[L] = <<>>
            ELSE /\ status[L] = "LUA_YIELD" /\ L \notin unstarted /\ ci[L] # <<>>
                 /\ Len(ci[L]) > 0 /\ Len(ci[L]) \notin Ypcalls(ci[L])
<1>1. /\ Inv(cs, ci, status, nny, nCcalls, errfunc, allowhook, unstarted)
      /\ Top = cs[Len(cs)] /\ L = cs[Len(cs)].th /\ Depth(L) = Len(ci[L])
  BY DEF IInv, L, Top, Depth
<1>2. /\ cs \in Seq(Activation) /\ Len(cs) \in 1 .. Len(cs) /\ Len(cs) \in Nat \ {0}
      /\ L \in Thread /\ Depth(L) \in Nat /\ ci[L] \in Seq(CallInfo)
  BY <1>1, Here DEF Parts
<1>3. Cut(cs, d, Len(cs)) /\ d[Len(cs)].entered
  <2>1. cs # <<>> /\ cs[Len(cs)].fn \in {"luaD_call", "lua_resume"}
    BY <1>1, <1>2
  <2> QED BY <1>2, <2>1, EnterIsCut
<1>4. /\ d \in Seq(Activation) /\ Len(d) = Len(cs) /\ Alike(cs[Len(cs)], d[Len(cs)])
  BY <1>3 DEF Cut
<1>5. d[Len(d)].fn = "lua_resume" /\ d[Len(d)].th = L /\ d[Len(d)].entered
  BY <1>1, <1>3, <1>4 DEF Alike
<1>6. ThreadsRight(cs, ci, status, unstarted)
  BY <1>1 DEF Inv
<1>7. status[L] = "LUA_YIELD" \/ L \in unstarted
  <2>1. Len(cs) \in ResumesOf(cs, L)
    BY <1>1, <1>2 DEF ResumesOf
  <2> QED BY <1>1, <1>2, <1>6, <2>1 DEF ThreadsRight
<1>8. /\ L \in unstarted => status[L] = "LUA_OK" /\ ci[L] = <<>>
      /\ status[L] = "LUA_YIELD" => ci[L] # <<>> /\ Len(ci[L]) \notin Ypcalls(ci[L])
  BY <1>2, <1>6 DEF ThreadsRight
<1>9. ci[L] # <<>> => Len(ci[L]) > 0
  BY <1>2
<1>10. IF status[L] = "LUA_OK" THEN L \in unstarted /\ ci[L] = <<>>
       ELSE /\ status[L] = "LUA_YIELD" /\ L \notin unstarted /\ ci[L] # <<>>
            /\ Len(ci[L]) > 0 /\ Len(ci[L]) \notin Ypcalls(ci[L])
  BY <1>7, <1>8, <1>9
<1> QED BY <1>2, <1>4, <1>5, <1>10

\* A coroutine starts: its function is called.
LEMMA StartsRight ==
  ASSUME IInv, Top.fn = "lua_resume", ~Top.entered, status[L] = "LUA_OK", resume
  PROVE  IInv'
<1> DEFINE d == [cs EXCEPT ![Len(cs)].entered = TRUE]
<1>1. /\ unstarted' = unstarted \ {L} /\ status' = status
      /\ \E lua \in BOOLEAN : luaD_precall(lua, TRUE, d)
      /\ UNCHANGED <<nny, nCcalls, errfunc, allowhook>>
  BY DEF resume
<1>2. /\ Inv(cs, ci, status, nny, nCcalls, errfunc, allowhook, unstarted)
      /\ L = cs[Len(cs)].th /\ Top = cs[Len(cs)] /\ Depth(L) = Len(ci[L])
  BY DEF IInv, L, Top, Depth
<1>3. PICK lua \in BOOLEAN : luaD_precall(lua, TRUE, d)
  BY <1>1
<1> DEFINE a == [fn |-> IF lua THEN "luaV_execute" ELSE "C", th |-> L,
                 level |-> Depth(L) + 1]
           frame == NewFrame(lua, TRUE)
<1>4. ci' = [ci EXCEPT ![L] = Append(ci[L], frame)] /\ cs' = Append(d, a)
  BY <1>3 DEF luaD_precall
<1>5. d = [cs EXCEPT ![Len(cs)].entered = TRUE]
  OBVIOUS
<1> HIDE DEF d
<1>6. /\ d[Len(d)].fn = "lua_resume" /\ d[Len(d)].th = L /\ d[Len(d)].entered
      /\ L \in Thread /\ Depth(L) \in Nat /\ ci[L] = <<>>
  BY <1>5, EnteredHere
<1>7. [status EXCEPT ![L] = "LUA_OK"] = status
  BY <1>2, Here, PutSame DEF Parts
<1>8. Inv(d, ci, status, nny, nCcalls, errfunc, allowhook, unstarted \ {L})
  <2>1. Inv(d, ci, [status EXCEPT ![L] = "LUA_OK"], nny, nCcalls, errfunc, allowhook,
            unstarted \ {L})
    <3>1. ~(ci[L] # <<>> /\ ~ci[L][Len(ci[L])].lua /\ ci[L][Len(ci[L])].k = "NULL")
      BY <1>6
    <3>2. IF ci[L] # <<>> /\ ~ci[L][Len(ci[L])].lua /\ ci[L][Len(ci[L])].k = "NULL"
          THEN ci = [ci EXCEPT ![L] = SubSeq(ci[L], 1, Len(ci[L]) - 1)] ELSE ci = ci
      BY <3>1
    <3>3. cs[Len(cs)].fn = "lua_resume" /\ ~cs[Len(cs)].entered
      BY <1>2
    <3>4. EnterOf(cs, ci, L, d, ci)
      BY <1>2, <1>5, <3>2, <3>3 DEF EnterOf
    <3> QED BY <1>2, <3>4, ResumeEnters
  <2> QED BY <1>7, <2>1
<1>9. /\ a \in Activation /\ a.fn \in {"C", "luaV_execute"} /\ a.th = L
      /\ a.level = Depth(L) + 1 /\ a.fn = IF lua THEN "luaV_execute" ELSE "C"
  BY <1>6 DEF Activation, Runs
<1>10. /\ frame \in CallInfo
       /\ IF a.fn = "C" THEN ~frame.lua /\ ~frame.ypcall ELSE frame.lua /\ frame.fresh
  <2>1. IF lua THEN frame.lua /\ frame.fresh ELSE ~frame.lua /\ ~frame.ypcall
    BY DEF NewFrame
  <2>2. frame \in CallInfo
    BY DEF NewFrame, CallInfo, LuaFrame, CFrame
  <2> QED BY <1>9, <2>1, <2>2
<1> HIDE DEF a, frame
<1>11. LiesOn(d[Len(d)], a)
  <2>1. a.level > 0
    <3>1. Depth(L) \in Nat
      BY <1>6
    <3> QED BY <1>9, <3>1
  <2> QED BY <1>6, <1>9, <2>1 DEF LiesOn
<1>12. Inv(Append(d, a), [ci EXCEPT ![L] = Append(ci[L], frame)], status, nny, nCcalls,
           errfunc, allowhook, unstarted \ {L})
  BY <1>2, <1>6, <1>8, <1>9, <1>10, <1>11, PrecallStep
<1> QED BY <1>1, <1>4, <1>12 DEF IInv

\* A coroutine goes on after a yield.
LEMMA GoesOnRight ==
  ASSUME IInv, Top.fn = "lua_resume", ~Top.entered, status[L] # "LUA_OK", resume
  PROVE  IInv'
<1> DEFINE d == [cs EXCEPT ![Len(cs)].entered = TRUE]
<1>1. /\ unstarted' = unstarted /\ status' = [status EXCEPT ![L] = "LUA_OK"]
      /\ UNCHANGED <<nny, nCcalls, errfunc, allowhook>>
  BY DEF resume
<1>2. /\ Inv(cs, ci, status, nny, nCcalls, errfunc, allowhook, unstarted)
      /\ L = cs[Len(cs)].th /\ Top = cs[Len(cs)] /\ Depth(L) = Len(ci[L])
  BY DEF IInv, L, Top, Depth
<1>3. d = [cs EXCEPT ![Len(cs)].entered = TRUE]
  OBVIOUS
<1>4. /\ TopFrame.lua => execute(d)
      /\ ~TopFrame.lua /\ TopFrame.k = "NULL" =>
           /\ ci' = [ci EXCEPT ![L] = SubSeq(ci[L], 1, Depth(L) - 1)] /\ cs' = d
      /\ ~TopFrame.lua /\ TopFrame.k # "NULL" =>
           /\ cs' = Append(d, [fn |-> "C", th |-> L, level |-> Depth(L)]) /\ ci' = ci
  BY DEF resume
<1> HIDE DEF d
<1>5. /\ d[Len(d)].fn = "lua_resume" /\ d[Len(d)].th = L /\ d[Len(d)].entered
      /\ L \in Thread /\ Depth(L) \in Nat /\ L \notin unstarted /\ ci[L] # <<>>
      /\ Len(ci[L]) > 0 /\ Len(ci[L]) \notin Ypcalls(ci[L])
  BY <1>3, EnteredHere
<1>6. unstarted \ {L} = unstarted
  BY <1>5
<1>7. TopFrame = ci[L][Len(ci[L])]
  BY <1>2 DEF TopFrame
<1> DEFINE cut == [ci EXCEPT ![L] = SubSeq(ci[L], 1, Len(ci[L]) - 1)]
<1>8. /\ ~(~TopFrame.lua /\ TopFrame.k = "NULL") =>
           Inv(d, ci, status', nny, nCcalls, errfunc, allowhook, unstarted)
      /\ ~TopFrame.lua /\ TopFrame.k = "NULL" =>
           Inv(d, cut, status', nny, nCcalls, errfunc, allowhook, unstarted)
  <2>1. cut = [ci EXCEPT ![L] = SubSeq(ci[L], 1, Len(ci[L]) - 1)]
    OBVIOUS
  <2> HIDE DEF cut
  <2>2. ASSUME ~(~TopFrame.lua /\ TopFrame.k = "NULL")
        PROVE  Inv(d, ci, [status EXCEPT ![L] = "LUA_OK"], nny, nCcalls, errfunc, allowhook,
                   unstarted \ {L})
    <3>1. ~(ci[L] # <<>> /\ ~ci[L][Len(ci[L])].lua /\ ci[L][Len(ci[L])].k = "NULL")
      BY <1>7, <2>2
    <3>2. IF ci[L] # <<>> /\ ~ci[L][Len(ci[L])].lua /\ ci[L][Len(ci[L])].k = "NULL"
          THEN ci = [ci EXCEPT ![L] = SubSeq(ci[L], 1, Len(ci[L]) - 1)] ELSE ci = ci
      BY <3>1
    <3>3. cs[Len(cs)].fn = "lua_resume" /\ ~cs[Len(cs)].entered
      BY <1>2
    <3>4. EnterOf(cs, ci, L, d, ci)
      BY <1>2, <1>3, <3>2, <3>3 DEF EnterOf
    <3> QED BY <1>2, <3>4, ResumeEnters
  <2>3. ASSUME ~TopFrame.lua /\ TopFrame.k = "NULL"
        PROVE  Inv(d, cut, [status EXCEPT ![L] = "LUA_OK"], nny, nCcalls, errfunc, allowhook,
                   unstarted \ {L})
    <3>1. ~ci[L][Len(ci[L])].lua /\ ci[L][Len(ci[L])].k = "NULL" /\ ci[L] # <<>>
      BY <1>5, <1>7, <2>3
    <3>2. cs[Len(cs)].fn = "lua_resume" /\ ~cs[Len(cs)].entered
      BY <1>2
    <3>3. EnterOf(cs, ci, L, d, cut)
      BY <1>2, <1>3, <2>1, <3>1, <3>2 DEF EnterOf
    <3> QED BY <1>2, <3>3, ResumeEnters
  <2> QED BY <1>1, <1>6, <2>2, <2>3
<1>9. CASE TopFrame.lua
  <2>1. Inv(d, ci, status', nny, nCcalls, errfunc, allowhook, unstarted)
    BY <1>8, <1>9
  <2>2. /\ ci' = [ci EXCEPT ![L][Len(ci[L])].fresh = TRUE]
        /\ cs' = Append(d, [fn |-> "luaV_execute", th |-> L, level |-> Len(ci[L])])
    BY <1>2, <1>4, <1>9 DEF execute
  <2>3. ci[L][Len(ci[L])].lua
    BY <1>7, <1>9
  <2>4. Inv(Append(d, [fn |-> "luaV_execute", th |-> L, level |-> Len(ci[L])]),
            [ci EXCEPT ![L][Len(ci[L])].fresh = TRUE], status', nny, nCcalls, errfunc,
            allowhook, unstarted)
    BY <1>5, <2>1, <2>3, ExecuteAgain
  <2> QED BY <1>1, <2>2, <2>4 DEF IInv
<1>10. CASE ~TopFrame.lua /\ TopFrame.k = "NULL"
  <2>1. /\ ci' = [ci EXCEPT ![L] = SubSeq(ci[L], 1, Len(ci[L]) - 1)] /\ cs' = d
    BY <1>2, <1>4, <1>10
  <2>2. Inv(d, ci', status', nny, nCcalls, errfunc, allowhook, unstarted)
    BY <1>8, <1>10, <2>1
  <2> QED BY <1>1, <2>1, <2>2 DEF IInv
<1>11. CASE ~TopFrame.lua /\ TopFrame.k # "NULL"
  <2> DEFINE a == [fn |-> "C", th |-> L, level |-> Len(ci[L])]
  <2>1. Inv(d, ci, status', nny, nCcalls, errfunc, allowhook, unstarted)
    BY <1>8, <1>11
  <2>2. cs' = Append(d, a) /\ ci' = ci
    BY <1>2, <1>4, <1>11
  <2>3. a \in Activation /\ a.fn = "C" /\ a.th = L /\ a.level = Len(ci[L])
    BY <1>2, <1>5 DEF Activation, Runs
  <2> HIDE DEF a
  <2>4. FramesTyped(ci) /\ HandlersTyped(errfunc) /\ ci[L] \in Seq(CallInfo)
    BY <1>2, Here DEF Parts, FramesTyped, HandlersTyped
  <2>5. OnlyFor(L, ci, ci) /\ OnlyFor(L, errfunc, errfunc)
    BY DEF OnlyFor
  <2>6. RunFrames(ci[L], ci[L], a)
    <3>1. ~ci[L][Len(ci[L])].lua /\ ~ci[L][Len(ci[L])].ypcall
      <4>1. Len(ci[L]) \in DOMAIN ci[L]
        BY <1>5, <2>4
      <4> QED BY <1>5, <1>7, <1>11, <4>1 DEF Ypcalls
    <3>2. Len(ci[L]) \in Nat /\ Len(ci[L]) > 0
      BY <1>5, <2>4
    <3> QED BY <2>3, <3>1, <3>2 DEF RunFrames
  <2>7. errfunc[L] = IF a.level \in Ypcalls(ci[L]) THEN ci[L][a.level].old_errfunc
                     ELSE errfunc[L]
    BY <1>5, <2>3
  <2>8. Inv(Append(d, a), ci, status', nny, nCcalls, errfunc, allowhook, unstarted)
    <3>1. a.fn \in {"C", "luaV_execute"} /\ L = d[Len(d)].th
      BY <1>5, <2>3
    <3> QED BY <1>5, <2>1, <2>3, <2>4, <2>5, <2>6, <2>7, <3>1, ContinueStep
  <2> QED BY <1>1, <2>2, <2>8 DEF IInv
<1> QED BY <1>9, <1>10, <1>11

\* resume keeps the invariant: a coroutine starts, or goes on.
LEMMA ResumeRight == ASSUME IInv, resume PROVE IInv'
<1>1. Top.fn = "lua_resume" /\ ~Top.entered
  BY DEF resume
<1> QED BY <1>1, StartsRight, GoesOnRight

-----------------------------------------------------------------------------
(* The first state, and every step.                                        *)

\* The host is alone on the C stack.
LEMMA InitRight == ASSUME Init PROVE IInv
<1> DEFINE c == <<Host>>
<1>1. /\ cs = c /\ ci = [t \in Thread |-> <<>>] /\ status = [t \in Thread |-> "LUA_OK"]
      /\ nny = [t \in Thread |-> 1] /\ nCcalls = [t \in Thread |-> 0]
      /\ errfunc = [t \in Thread |-> 0] /\ allowhook = [t \in Thread |-> TRUE]
      /\ unstarted = Thread \ {MainThread}
  BY DEF Init, Host
<1>2. /\ Host \in Activation /\ Host.fn = "C" /\ Host.th = MainThread /\ Host.level = 0
  BY ThreadAssumption DEF Host, Activation, Runs
<1>3. /\ c \in Seq(Activation) /\ c # <<>> /\ Len(c) = 1 /\ c[1] = Host
      /\ 1 .. Len(c) = {1} /\ 2 .. Len(c) = {}
  BY <1>2
<1> HIDE DEF c
<1>4. Typed(c, ci, status, nny, nCcalls, errfunc, allowhook, unstarted)
  <2>1. /\ ci \in [Thread -> Seq(CallInfo)]
        /\ status \in [Thread -> {"LUA_OK", "LUA_YIELD"} \cup Errors]
        /\ nny \in [Thread -> Nat] /\ nCcalls \in [Thread -> Nat]
        /\ errfunc \in [Thread -> Nat] /\ allowhook \in [Thread -> BOOLEAN]
        /\ unstarted \in SUBSET Thread
    BY <1>1
  <2> QED BY <1>3, <2>1 DEF Typed
<1>5. Stack(c)
  BY <1>2, <1>3 DEF Stack
<1>6. /\ \A t \in Thread : Len(ci[t]) = 0 /\ ci[t] = <<>> /\ 1 .. Len(ci[t]) = {}
                           /\ Ypcalls(ci[t]) = {}
  BY <1>1 DEF Ypcalls
<1>7. Frames(c, ci)
  BY <1>2, <1>3, <1>6, ThreadAssumption DEF Frames
<1>8. Interruptible(c, ci)
  BY <1>2, <1>3 DEF Interruptible
<1>9. Continuations(c, ci, status)
  BY <1>6 DEF Continuations, ContinuationsOf, NoContinuation
<1>10. /\ {i \in 1 .. 1 : c[i].fn \in {"luaD_call", "lua_resume"}} = {}
       /\ \A t : {i \in 1 .. 1 : c[i].th = t /\ Bars(c[i])} = {}
       /\ \A t : AsideOf(c, t, 1) = {} /\ PcallsOf(c, t, 1) = {}
       /\ \A t : ResumesOf(c, t) = {}
  BY <1>2, <1>3 DEF Bars, AsideOf, PcallsOf, ResumesOf
<1>11. /\ CCallsIn(c, 1) = 0
       /\ \A t : NnyIn(c, t, 1) = IF t = MainThread THEN 1 ELSE 0
  BY <1>10, FS_EmptySet DEF CCallsIn, NnyIn
<1>12. AllSaved(c)
  BY <1>2, <1>3 DEF AllSaved, Saved
<1>13. CallsCounted(c, nCcalls)
  BY <1>1, <1>2, <1>3, <1>11, ThreadAssumption DEF CallsCounted
<1>14. NnyCounted(c, nny)
  <2> SUFFICES ASSUME NEW t \in Thread
               PROVE  nny[t] = IF IsOn(c, t) THEN NnyIn(c, t, Len(c)) ELSE 1
    BY DEF NnyCounted
  <2>1. nny[t] = 1 /\ (IsOn(c, t) <=> t = MainThread)
    BY <1>1, <1>10 DEF IsOn
  <2> QED BY <1>3, <1>11, <2>1
<1>15. Handlers(c, ci, status, errfunc)
  BY <1>1, <1>2, <1>3, <1>6, <1>10 DEF Handlers, HandlerAt, FrameHandler
<1>16. HooksRight(c, status, allowhook)
  BY <1>1, <1>3, <1>10 DEF HooksRight
<1>17. ThreadsRight(c, ci, status, unstarted)
  BY <1>1, <1>6, <1>10 DEF ThreadsRight
<1>18. StackBounded(c)
  BY <1>3, <1>11, LimitAssumption DEF StackBounded
<1> QED BY <1>1, <1>4, <1>5, <1>7, <1>8, <1>9, <1>12, <1>13, <1>14, <1>15, <1>16, <1>17,
           <1>18 DEF IInv, Inv

\* Every step keeps the invariant.
LEMMA StepRight ==
  ASSUME NoMetamethodsInHooks, IInv, [Next]_vars
  PROVE  IInv'
<1>1. ASSUME CallStep PROVE IInv'
  <2>1. CASE luaD_call_enters
    BY <2>1, CallEntersRight
  <2>2. CASE luaD_call_returns
    BY <2>2, CallReturnsRight
  <2>3. CASE C_returns
    BY <2>3, CReturnsRight
  <2>4. CASE OP_CALL
    BY <2>4, OpCallRight
  <2>5. CASE OP_RETURN
    BY <2>5, OpReturnRight
  <2>6. CASE luaT_callTM
    BY <2>6, CallTMRight
  <2>7. CASE \E k \in BOOLEAN : lua_callk(k)
    BY <2>7, CallkRight
  <2>8. CASE \E k, handler \in BOOLEAN : lua_pcallk(k, handler)
    BY <2>8, PcallkRight
  <2>9. CASE luaD_pcall_ends
    BY <2>9, PcallEndsRight
  <2>10. CASE luaD_protectedparser
    BY <2>10, ProtectedParserRight
  <2>11. CASE f_parser_returns
    BY <2>11, ParserReturnsRight
  <2>12. CASE luaD_protectedparser_returns
    BY <2>12, ProtectedParserReturnsRight
  <2> QED BY <1>1, <2>1, <2>2, <2>3, <2>4, <2>5, <2>6, <2>7, <2>8, <2>9, <2>10, <2>11,
             <2>12 DEF CallStep
<1>2. ASSUME ErrorStep PROVE IInv'
  BY <1>2, RunErrorRight, ThrowErrorRight DEF ErrorStep
<1>3. ASSUME AsideStep PROVE IInv'
  BY <1>3, GCTMRight, GCTMReturnsRight, GCTMRethrowsRight, HookRight, HookReturnsRight,
     HookYieldsRight DEF AsideStep
<1>4. ASSUME CoroutineStep PROVE IInv'
  BY <1>4, YieldkRight, LuaResumeRight, NewFunctionRight, ResumeRight, ResumeFailsRight,
     UnrollRight DEF CoroutineStep
<1>5. CASE UNCHANGED vars
  <2>1. /\ ci' = ci /\ status' = status /\ nny' = nny /\ nCcalls' = nCcalls
        /\ errfunc' = errfunc /\ allowhook' = allowhook /\ unstarted' = unstarted
        /\ cs' = cs
    BY <1>5 DEF vars
  <2> QED BY <2>1 DEF IInv
<1> QED BY <1>1, <1>2, <1>3, <1>4, <1>5 DEF Next

\* What the invariant says of the counters.
LEMMA CountersFollow == ASSUME IInv PROVE CountersRight
<1>1. /\ Stack(cs) /\ CallsCounted(cs, nCcalls) /\ NnyCounted(cs, nny)
      /\ cs \in Seq(Activation) /\ Len(cs) \in Nat \ {0} /\ DOMAIN cs = 1 .. Len(cs)
      /\ L = cs[Len(cs)].th
  BY Here DEF IInv, Inv, Parts, L, Top
<1>2. \A j : CCalls(j) = CCallsIn(cs, j)
  BY DEF CCalls, CCallsIn
<1>3. nCcalls[L] = CCalls(Len(cs))
  BY <1>1, <1>2 DEF CallsCounted
<1>4. ASSUME NEW j \in DOMAIN cs, cs[j].fn = "lua_resume"
      PROVE  nCcalls[cs[j - 1].th] = CCalls(j - 1)
  <2>1. j \in 2 .. Len(cs)
    BY <1>1, <1>4, ResumeIsFirst
  <2> QED BY <1>1, <1>2, <1>4, <2>1 DEF CallsCounted
<1>5. ASSUME NEW t \in Thread
      PROVE  nny[t] = Cardinality(Uninterruptible(t))
                        + (IF t = MainThread \/ ~OnStack(t) THEN 1 ELSE 0)
  <2>1. Uninterruptible(t) = {i \in 1 .. Len(cs) : cs[i].th = t /\ Bars(cs[i])}
    BY <1>1 DEF Uninterruptible, Bars
  <2>2. OnStack(t) <=> IsOn(cs, t)
    BY <1>1 DEF OnStack, IsOn, Resumes, ResumesOf
  <2>3. CASE IsOn(cs, t)
    BY <1>1, <2>1, <2>2, <2>3 DEF NnyCounted, NnyIn
  <2>4. CASE ~IsOn(cs, t)
    <3>1. \A i \in 1 .. Len(cs) : cs[i].th # t
      BY <1>1, <2>4, OnTheStack
    <3>2. Uninterruptible(t) = {}
      BY <2>1, <3>1
    <3> QED BY <1>1, <2>2, <2>4, <3>2, FS_EmptySet DEF NnyCounted
  <2> QED BY <2>3, <2>4
<1> QED BY <1>3, <1>4, <1>5 DEF CountersRight

\* What it says of where a longjmp goes.
LEMMA LongjmpFollows == ASSUME IInv PROVE LongjmpRight
<1> SUFFICES ASSUME Top.fn \in Runs, ~InHost
             PROVE  /\ Protectors(L) # {}
                    /\ \A j \in errorJmp .. Len(cs) : cs[j].th = L
                    /\ nny[L] = 0 => cs[errorJmp].fn = "lua_resume"
  BY DEF LongjmpRight
<1>1. /\ Stack(cs) /\ NnyCounted(cs, nny) /\ Len(cs) > 1
      /\ cs \in Seq(Activation) /\ Len(cs) \in Nat \ {0} /\ DOMAIN cs = 1 .. Len(cs)
      /\ L = cs[Len(cs)].th /\ Top = cs[Len(cs)] /\ L \in Thread
  BY Here DEF IInv, Inv, Parts, L, Top
<1>2. Protectors(L) = {j \in 1 .. Len(cs) : /\ cs[j].fn \in {"luaD_pcall", "lua_resume"}
                                            /\ cs[j].th = cs[Len(cs)].th}
  BY <1>1 DEF Protectors
<1>3. /\ Protectors(L) # {} /\ errorJmp \in Protectors(L)
      /\ \A j \in errorJmp .. Len(cs) : cs[j].th = L
  BY <1>1, <1>2, Jumps DEF errorJmp
<1>4. ASSUME nny[L] = 0 PROVE cs[errorJmp].fn = "lua_resume"
  <2>1. IsOn(cs, L)
    BY <1>1, OnTheStack
  <2>2. NnyIn(cs, cs[Len(cs)].th, Len(cs)) = 0
    BY <1>1, <1>4, <2>1 DEF NnyCounted
  <2>3. Top.fn # "luaD_pcall"
    BY DEF Runs
  <2>4. PcallsOf(cs, cs[Len(cs)].th, Len(cs)) = {}
    BY <1>1, <2>2, <2>3, NoPcalls
  <2>5. errorJmp \in 1 .. Len(cs) /\ cs[errorJmp].th = cs[Len(cs)].th
        /\ cs[errorJmp].fn \in {"luaD_pcall", "lua_resume"}
    BY <1>2, <1>3
  <2> QED BY <2>4, <2>5 DEF PcallsOf
<1> QED BY <1>3, <1>4

\* What it says of the frames that are found by what gets control.
LEMMA ControlFollows == ASSUME IInv PROVE ControlRight
<1>1. /\ Inv(cs, ci, status, nny, nCcalls, errfunc, allowhook, unstarted)
      /\ Stack(cs) /\ Continuations(cs, ci, status)
      /\ ThreadsRight(cs, ci, status, unstarted)
      /\ cs \in Seq(Activation) /\ Len(cs) \in Nat \ {0} /\ Len(cs) \in 1 .. Len(cs)
      /\ L = cs[Len(cs)].th /\ Top = cs[Len(cs)]
      /\ ci \in [Thread -> Seq(CallInfo)]
  BY Here DEF IInv, Inv, Parts, L, Top
<1>2. ASSUME NEW t \in Thread, NEW i \in DOMAIN ci[t], ~ci[t][i].lua
      PROVE  /\ status[t] = "LUA_YIELD" =>
                  ci[t][i].k = "k" \/ (ci[t][i].k = "NULL" /\ i = Depth(t))
             /\ Top.fn = "lua_resume" /\ Top.entered /\ t = L => ci[t][i].k = "k"
  <2>1. ContinuationsOf(cs, ci, status, t) /\ i \in 1 .. Len(ci[t]) /\ Depth(t) = Len(ci[t])
    BY <1>1, <1>2 DEF Continuations, Depth
  <2>2. ASSUME status[t] = "LUA_YIELD", ci[t][i].k # "k"
        PROVE  ci[t][i].k = "NULL" /\ i = Depth(t)
    <3>1. i \in NoContinuation(ci, t) /\ ~errorstatus(status[t])
      BY <1>2, <2>1, <2>2 DEF NoContinuation, errorstatus, Errors
    <3>2. \A q \in 1 .. Len(cs) : cs[q].th = t => cs[q].fn = "lua_resume"
      <4> SUFFICES ASSUME NEW q \in 1 .. Len(cs), cs[q].th = t, cs[q].fn # "lua_resume"
                   PROVE  FALSE
        OBVIOUS
      <4> QED BY <1>1, <2>2, Running
    <3>3. BarsOf(cs, t) = {}
      BY <3>2 DEF BarsOf, Bars
    <3> QED BY <2>1, <2>2, <3>1, <3>3 DEF ContinuationsOf
  <2>3. ASSUME Top.fn = "lua_resume", Top.entered, t = L
        PROVE  ci[t][i].k = "k"
    <3> SUFFICES ASSUME ci[t][i].k # "k" PROVE FALSE
      OBVIOUS
    <3>1. status[t] = "LUA_OK"
      BY <1>1, <2>3, Running
    <3>2. i \in NoContinuation(ci, t) /\ ~errorstatus(status[t])
      BY <1>2, <2>1, <3>1 DEF NoContinuation, errorstatus, Errors
    <3>3. \A q \in 1 .. Len(cs) : cs[q].th = t => ~Bars(cs[q])
      BY <1>1, <2>3, FirstOfThread
    <3>4. BarsOf(cs, t) = {}
      BY <3>3 DEF BarsOf
    <3>5. Unrolling(cs, t)
      BY <1>1, <2>3 DEF Unrolling
    <3> QED BY <2>1, <3>2, <3>4, <3>5 DEF ContinuationsOf
  <2> QED BY <2>2, <2>3
<1>3. /\ Top.fn \notin {"luaV_execute", "lua_resume"} => Depth(L) = Top.level
      /\ Top.fn = "C" /\ ~InHost => ~TopFrame.lua
      /\ Top.fn = "luaV_execute" =>
           /\ Depth(L) >= Top.level
           /\ \A i \in Top.level .. Depth(L) :
                ci[L][i].lua /\ (ci[L][i].fresh <=> i = Top.level)
  <2>1. Top.fn = "C" /\ ~InHost => InFunction
    BY Here, ActivationFields DEF InHost, InFunction
  <2> QED BY <2>1, Here
<1> QED BY <1>2, <1>3 DEF ControlRight

\* What it says of the message handlers.
LEMMA HandlerFollows == ASSUME IInv PROVE HandlerRight
<1>1. /\ Handlers(cs, ci, status, errfunc) /\ ci \in [Thread -> Seq(CallInfo)]
      /\ cs \in Seq(Activation)
  BY Here DEF IInv, Inv, Parts
<1> SUFFICES ASSUME NEW t \in Thread, ~errorstatus(status[t])
             PROVE  errfunc[t] = HandlerInUse(t)
  BY DEF HandlerRight
<1>2. errfunc[t] = HandlerAt(cs, ci, t, Len(cs), Len(ci[t]))
  BY <1>1 DEF Handlers
<1>3. {j \in DOMAIN cs : cs[j].fn = "luaD_pcall" /\ cs[j].th = t} = PcallsOf(cs, t, Len(cs))
  BY <1>1 DEF PcallsOf
<1>4. {i \in Ypcalls(ci[t]) : i <= Len(ci[t])} = Ypcalls(ci[t])
  <2>1. ci[t] \in Seq(CallInfo)
    BY <1>1
  <2> QED BY <2>1, YpcallsAre
<1> QED BY <1>2, <1>3, <1>4 DEF HandlerInUse, HandlerAt, FrameHandler

\* What it says of the hooks.
LEMMA HooksFollow == ASSUME IInv PROVE HooksOffInside
<1>1. HooksRight(cs, status, allowhook) /\ cs \in Seq(Activation)
  BY Here DEF IInv, Inv, Parts
<1> QED BY <1>1 DEF HooksOffInside, HooksRight, AsideOf

\* What it says of the depth of the C stack.
LEMMA BoundFollows == ASSUME IInv PROVE CStackBounded
<1>1. StackBounded(cs) /\ Len(cs) \in 1 .. Len(cs) /\ CCallsIn(cs, Len(cs)) \in Nat
      /\ ErrorCCalls \in Nat
  BY Here, LimitAssumption DEF IInv, Inv, Parts
<1>2. CCallsIn(cs, Len(cs)) <= ErrorCCalls
  BY <1>1 DEF StackBounded
<1> QED BY <1>2 DEF CStackBounded, CCalls, CCallsIn

\* What it says of the status of the coroutines.
LEMMA StatusFollows == ASSUME IInv PROVE StatusTold
<1> SUFFICES ASSUME InFunction, NEW t \in Thread
             PROVE  /\ costatus(t) = "suspended" <=> CanResume(t)
                    /\ costatus(t) \in {"running", "normal"} <=> OnStack(t)
  BY DEF StatusTold
<1>1. /\ Stack(cs) /\ Frames(cs, ci) /\ ThreadsRight(cs, ci, status, unstarted)
      /\ cs \in Seq(Activation) /\ Len(cs) \in Nat \ {0} /\ Len(cs) \in 1 .. Len(cs)
      /\ DOMAIN cs = 1 .. Len(cs) /\ L = cs[Len(cs)].th /\ Top = cs[Len(cs)]
      /\ ci \in [Thread -> Seq(CallInfo)] /\ L \in Thread
      /\ status \in [Thread -> {"LUA_OK", "LUA_YIELD"} \cup Errors]
      /\ Top.fn = "C" /\ Top.level \in Nat /\ Top.level > 0
  BY Here, ActivationFields DEF IInv, Inv, Parts, L, Top, InFunction
<1>2. OnStack(t) <=> IsOn(cs, t)
  BY <1>1 DEF OnStack, IsOn, Resumes, ResumesOf
<1>3. UsesApi(cs[Len(cs)])
  BY <1>1 DEF UsesApi
<1>4. \A i \in 1 .. Len(cs) : ci[cs[i].th] # <<>>
  BY <1>1, <1>3, OnHasFrames
<1>5. IsOn(cs, t) => ci[t] # <<>>
  <2>1. CASE t = MainThread
    <3>1. cs[1].th = MainThread /\ 1 \in 1 .. Len(cs)
      BY <1>1, StackParts
    <3> QED BY <1>4, <2>1, <3>1
  <2>2. CASE ResumesOf(cs, t) # {}
    BY <1>4, <2>2 DEF ResumesOf
  <2> QED BY <2>1, <2>2 DEF IsOn
<1>6. t \in unstarted \/ status[t] = "LUA_YIELD" =>
        /\ ~IsOn(cs, t) /\ \A i \in 1 .. Len(cs) : cs[i].th # t
  BY <1>1, ResumableIsOff DEF IsOn
<1>7. CASE t = L
  <2>1. costatus(t) = "running"
    BY <1>7 DEF costatus
  <2>2. IsOn(cs, t)
    BY <1>1, <1>7, OnTheStack
  <2>3. ~CanResume(t)
    BY <1>1, <1>6, <1>7 DEF CanResume
  <2> QED BY <1>2, <2>1, <2>2, <2>3
<1>8. CASE t # L /\ status[t] = "LUA_YIELD"
  BY <1>2, <1>6, <1>8 DEF costatus, CanResume
<1>9. CASE t # L /\ status[t] \in Errors
  <2>1. status[t] \notin {"LUA_OK", "LUA_YIELD"}
    BY <1>9 DEF Errors
  <2>2. costatus(t) = "dead" /\ ~CanResume(t)
    BY <1>9, <2>1 DEF costatus, CanResume, errorstatus
  <2>3. ~IsOn(cs, t)
    <3>1. t # MainThread
      BY <1>1, <2>1 DEF ThreadsRight
    <3>2. ASSUME NEW j \in ResumesOf(cs, t) PROVE FALSE
      <4>1. j \in 1 .. Len(cs) /\ cs[j].fn = "lua_resume" /\ cs[j].th = t
        BY DEF ResumesOf
      <4>2. j < Len(cs)
        BY <1>1, <4>1
      <4>3. cs[j].entered
        BY <1>1, <4>1, <4>2, EnteredBelow
      <4> QED BY <1>1, <2>1, <4>1, <4>3 DEF ThreadsRight
    <3> QED BY <3>1, <3>2 DEF IsOn
  <2> QED BY <1>2, <2>2, <2>3
<1>10. CASE t # L /\ status[t] = "LUA_OK"
  <2>1. ~errorstatus(status[t])
    BY <1>10 DEF errorstatus, Errors
  <2>2. CASE ci[t] # <<>>
    <3>1. costatus(t) = "normal" /\ ~CanResume(t)
      BY <1>10, <2>1, <2>2 DEF costatus, CanResume
    <3>2. IsOn(cs, t)
      BY <1>1, <1>10, <2>2 DEF ThreadsRight
    <3> QED BY <1>2, <3>1, <3>2
  <2>3. CASE ci[t] = <<>>
    <3>1. ~IsOn(cs, t)
      BY <1>5, <2>3
    <3> QED BY <1>2, <1>10, <2>1, <2>3, <3>1 DEF costatus, CanResume
  <2> QED BY <2>2, <2>3
<1> QED BY <1>1, <1>7, <1>8, <1>9, <1>10

-----------------------------------------------------------------------------
(* The theorems.  A hook that can yield through a metamethod breaks        *)
(* LongjmpRight and HooksOffInside: the premise excludes it (see README).  *)

\* What each activation has saved, and which lie on which, stays as IInv says
\* in every behaviour of ldo.c: calls, errors, yields and resumptions.
THEOREM Invariance ==
  ASSUME NoMetamethodsInHooks
  PROVE  Spec => []IInv
<1>1. Init => IInv
  BY InitRight
<1>2. IInv /\ [Next]_vars => IInv'
  BY StepRight
<1> QED BY <1>1, <1>2, PTL DEF Spec

\* The state of the threads and of the C stack keeps its type.
THEOREM TypeCorrect ==
  ASSUME NoMetamethodsInHooks
  PROVE  Spec => []TypeOK
<1>1. IInv => TypeOK
  BY DEF IInv, Inv, Typed, Stack, TypeOK
<1> QED BY <1>1, Invariance, PTL

\* nCcalls and nny are what the C stack says, after any mixture of returns,
\* errors and yields.
THEOREM Counters ==
  ASSUME NoMetamethodsInHooks
  PROVE  Spec => []CountersRight
<1>1. IInv => CountersRight
  BY CountersFollow
<1> QED BY <1>1, Invariance, PTL

\* A longjmp finds a protector, drops activations of its own thread only, and
\* one for a yield gets to lua_resume.
THEOREM Longjmps ==
  ASSUME NoMetamethodsInHooks
  PROVE  Spec => []LongjmpRight
<1>1. IInv => LongjmpRight
  BY LongjmpFollows
<1> QED BY <1>1, Invariance, PTL

\* What gets control finds L->ci where it left it, and what a yield has left
\* can be finished.
THEOREM Control ==
  ASSUME NoMetamethodsInHooks
  PROVE  Spec => []ControlRight
<1>1. IInv => ControlRight
  BY ControlFollows
<1> QED BY <1>1, Invariance, PTL

\* The message handler in use is that of the innermost protected call.
THEOREM MessageHandlers ==
  ASSUME NoMetamethodsInHooks
  PROVE  Spec => []HandlerRight
<1>1. IInv => HandlerRight
  BY HandlerFollows
<1> QED BY <1>1, Invariance, PTL

\* Hooks are off in a thread just while it runs a hook or a finalizer.
THEOREM HooksOff ==
  ASSUME NoMetamethodsInHooks
  PROVE  Spec => []HooksOffInside
<1>1. IInv => HooksOffInside
  BY HooksFollow
<1> QED BY <1>1, Invariance, PTL

\* Nested C calls never pass the limit for errors in message handlers.
THEOREM Bounded ==
  ASSUME NoMetamethodsInHooks
  PROVE  Spec => []CStackBounded
<1>1. IInv => CStackBounded
  BY BoundFollows
<1> QED BY <1>1, Invariance, PTL

\* coroutine.status tells which coroutines can be resumed, and which run or wait.
THEOREM Statuses ==
  ASSUME NoMetamethodsInHooks
  PROVE  Spec => []StatusTold
<1>1. IInv => StatusTold
  BY StatusFollows
<1> QED BY <1>1, Invariance, PTL
=============================================================================
