----------------------------- MODULE LuaDo_Inv -----------------------------
(***************************************************************************)
(* The inductive invariant of LuaDo.  What an activation puts back when it *)
(* gets control again was saved when it was called, in a C variable or in  *)
(* a CallInfo: the invariant says what each activation on the C stack has  *)
(* saved, which activations lie on which, and which frames they work for.  *)
(*                                                                         *)
(* c is the C stack and f the lists of CallInfo, or what they become.      *)
(***************************************************************************)
EXTENDS LuaDo

-----------------------------------------------------------------------------
(* The shape of the C stack.                                               *)

\* A metamethod called from a hook can yield: then LongjmpRight and
\* HooksOffInside do not hold (see the README), and nothing below is claimed.
NoMetamethodsInHooks == "metamethods in hooks" \notin Uses

UsesApi(a) == a.fn \in {"C", "hook", "f_parser"} /\ ~(a.fn = "C" /\ a.level = 0)
RunsCode(a) == UsesApi(a) \/ a.fn = "luaV_execute"
SameLevel(b, a) ==
  IF b.fn = "luaV_execute" THEN a.level >= b.level ELSE a.level = b.level
Waits(b) == b.fn = "luaD_call" /\ ~b.entered

\* luaD_call, from the activation b.
CallFrom(b, a) ==
  /\ SameLevel(b, a)
  /\ CASE a.caller = "f_call" -> b.fn = "luaD_pcall" /\ a.noyield
       [] a.caller = "callk" -> UsesApi(b) /\ (b.fn # "C" => a.noyield)
       [] a.caller = "pcallk" -> b.fn = "C" /\ b.level > 0 /\ ~a.noyield
       [] a.caller = "luaT_callTM" ->
            /\ RunsCode(b) /\ b.fn # "hook"
            /\ a.noyield <=> b.fn # "luaV_execute"
       [] OTHER -> (RunsCode(b) \/ Waits(b)) /\ a.noyield

\* The activation a, which is not a lua_resume, can lie on b.
LiesOn(b, a) ==
  CASE a.fn \in {"C", "luaV_execute"} ->
         /\ a.level > 0
         /\ \/ b.fn = "lua_resume" /\ b.entered
            \/ b.fn = "luaD_call" /\ b.entered /\ a.level = b.level + 1
            \/ b.fn = "luaV_execute" /\ a.fn = "C" /\ a.level > b.level
    [] a.fn = "luaD_call" -> CallFrom(b, a)
    [] a.fn = "luaD_pcall" ->
         /\ b.fn \in {"C", "hook", "f_parser", "GCTM", "luaD_protectedparser"}
         /\ a.level = b.level
    [] a.fn = "GCTM" -> (RunsCode(b) \/ Waits(b)) /\ SameLevel(b, a)
    [] a.fn = "hook" -> b.fn = "luaV_execute" /\ SameLevel(b, a)
    [] a.fn = "luaD_protectedparser" -> b.fn = "C" /\ b.level > 0 /\ a.level = b.level
    [] OTHER -> a.fn = "f_parser" /\ b.fn = "luaD_pcall" /\ a.level = b.level

Host == [fn |-> "C", th |-> MainThread, level |-> 0]

\* Each thread has one part of the C stack, and a lua_resume begins it.
Stack(c) ==
  /\ c # <<>> /\ c[1] = Host
  /\ \A j \in 2 .. Len(c) :
       /\ (c[j].fn = "lua_resume") <=> (c[j].th # c[j - 1].th)
       /\ IF c[j].fn = "lua_resume" THEN UsesApi(c[j - 1]) /\ c[j].level = 0
          ELSE LiesOn(c[j - 1], c[j])
       /\ c[j].fn = "f_parser" => j > 3 /\ c[j - 2].fn = "luaD_protectedparser"
  /\ \A i, j \in 1 .. Len(c) :
       c[i].th = c[j].th /\ i <= j =>
         /\ c[i].level <= c[j].level
         /\ \A k \in i .. j : c[k].th = c[i].th

\* The last frame below activation a, and the one that is the last when control
\* comes back to activation j: luaV_execute can go on to frames behind its own.
Base(a) == IF a.fn \in {"C", "luaV_execute"} THEN a.level - 1 ELSE a.level
LastOfThread(c, j) == (j = Len(c)) \/ (c[j + 1].th # c[j].th)
LastFrame(c, f, j) == IF LastOfThread(c, j) THEN Len(f[c[j].th]) ELSE Base(c[j + 1])

Frames(c, f) ==
  \A j \in 1 .. Len(c) :
    LET a == c[j]
        frames == f[a.th]
    IN  /\ a.level <= Len(frames)
        /\ LastOfThread(c, j) /\ a.fn \notin {"luaV_execute", "lua_resume"} =>
             Len(frames) = a.level
        /\ a.fn = "C" /\ a.level > 0 => ~frames[a.level].lua
        /\ a.fn = "luaV_execute" =>
             \A i \in a.level .. LastFrame(c, f, j) :
               frames[i].lua /\ (frames[i].fresh <=> i = a.level)

-----------------------------------------------------------------------------
(* Continuations.                                                          *)

\* Activations of t that a yield must not drop.
Bars(a) == (a.fn = "luaD_call" /\ a.noyield) \/ a.fn = "luaD_protectedparser"
BarsOf(c, t) == {i \in 1 .. Len(c) : c[i].th = t /\ Bars(c[i])}
PcallsOf(c, t, n) == {i \in 1 .. n : c[i].fn = "luaD_pcall" /\ c[i].th = t}

\* A call that can be interrupted: its caller can go on after it.
Interruptible(c, f) ==
  /\ \A j \in 1 .. Len(c) :
       LET a == c[j]
           frame == f[a.th][a.level]
       IN  a.fn = "luaD_call" /\ ~a.noyield =>
             /\ a.level > 0
             /\ frame.lua \/ frame.k = "k"
             /\ a.caller = "pcallk" =>
                  ~frame.lua /\ frame.ypcall /\ PcallsOf(c, a.th, j) = {}
  /\ \A j \in 1 .. Len(c) :
       /\ c[j].fn = "C" /\ c[j].level > 0
       /\ f[c[j].th][c[j].level].ypcall
       => j < Len(c) /\ c[j + 1].fn = "luaD_call" /\ c[j + 1].caller = "pcallk"

\* The C functions of a thread that have no continuation.
NoContinuation(f, t) == {i \in 1 .. Len(f[t]) : ~f[t][i].lua /\ f[t][i].k # "k"}
Unrolling(c, t) ==
  LET a == c[Len(c)] IN a.fn = "lua_resume" /\ a.th = t /\ a.entered

ContinuationsOf(c, f, st, t) ==
  /\ ~errorstatus(st[t]) =>
       /\ \A i \in NoContinuation(f, t) :
            \/ \E q \in BarsOf(c, t) : c[q].level = i
            \/ /\ i = Len(f[t])
               /\ st[t] = "LUA_YIELD" => f[t][i].k = "NULL"
               /\ ~Unrolling(c, t)
       /\ \A i \in Ypcalls(f[t]), q \in BarsOf(c, t) : c[q].level >= i
  /\ \A i \in Ypcalls(f[t]) : f[t][i].oah /\ f[t][i].k = "k"
Continuations(c, f, st) == \A t \in Thread : ContinuationsOf(c, f, st, t)

-----------------------------------------------------------------------------
(* What was saved.                                                         *)

CCallsIn(c, n) ==
  Cardinality({i \in 1 .. n : c[i].fn \in {"luaD_call", "lua_resume"}})
NnyIn(c, t, n) ==
  Cardinality({i \in 1 .. n : c[i].th = t /\ Bars(c[i])})
    + (IF t = MainThread THEN 1 ELSE 0)

\* The hooks and finalizers of t among the first n activations.
AsideOf(c, t, n) == {i \in 1 .. n : c[i].fn \in {"hook", "GCTM"} /\ c[i].th = t}

\* What activation j has saved is what there was when it was called.
Saved(c, j) ==
  LET a == c[j]
  IN  /\ a.fn \in {"luaD_pcall", "lua_resume"} => a.nCcalls = CCallsIn(c, j)
      /\ a.fn = "lua_resume" => a.nny = 1
      /\ a.fn = "luaD_pcall" =>
           /\ a.nny = NnyIn(c, a.th, j)
           /\ a.allowhook <=> AsideOf(c, a.th, j - 1) = {}
      /\ a.fn = "GCTM" => (a.oldah <=> AsideOf(c, a.th, j - 1) = {})
      /\ a.fn = "hook" => AsideOf(c, a.th, j - 1) = {}
AllSaved(c) == \A j \in 1 .. Len(c) : Saved(c, j)

\* The threads with a part of the C stack.
ResumesOf(c, t) == {j \in 1 .. Len(c) : c[j].fn = "lua_resume" /\ c[j].th = t}
IsOn(c, t) == t = MainThread \/ ResumesOf(c, t) # {}

\* The counters of the running thread, and of those that wait for others.
CallsCounted(c, nc) ==
  /\ nc[c[Len(c)].th] = CCallsIn(c, Len(c))
  /\ \A j \in 2 .. Len(c) :
       c[j].fn = "lua_resume" => nc[c[j - 1].th] = CCallsIn(c, j - 1)
NnyCounted(c, ny) ==
  \A t \in Thread : ny[t] = IF IsOn(c, t) THEN NnyIn(c, t, Len(c)) ELSE 1
HooksRight(c, st, ah) ==
  \A t \in Thread : ~errorstatus(st[t]) => (ah[t] <=> AsideOf(c, t, Len(c)) = {})

\* The handler of the innermost of the first n activations or d frames.
FrameHandler(frames, d) ==
  LET Y == {i \in Ypcalls(frames) : i <= d}
  IN  IF Y # {} /\ frames[Max(Y)].handler THEN HandlerOf(Max(Y)) ELSE 0
HandlerAt(c, f, t, n, d) ==
  LET P == PcallsOf(c, t, n)
  IN  IF P # {} THEN c[Max(P)].ef ELSE FrameHandler(f[t], d)

Handlers(c, f, st, ef) ==
  /\ \A t \in Thread : ~errorstatus(st[t]) =>
       /\ ef[t] = HandlerAt(c, f, t, Len(c), Len(f[t]))
       /\ \A i \in Ypcalls(f[t]) : f[t][i].old_errfunc = FrameHandler(f[t], i - 1)
  /\ \A j \in 1 .. Len(c) :
       c[j].fn = "luaD_pcall" =>
         c[j].errfunc = HandlerAt(c, f, c[j].th, j - 1, c[j].level)

-----------------------------------------------------------------------------
(* The status of the threads, and the bound of the C stack.                *)

ThreadsRight(c, f, st, un) ==
  \A t \in Thread :
    /\ t \in un => t # MainThread /\ st[t] = "LUA_OK" /\ f[t] = <<>>
    /\ st[t] = "LUA_YIELD" => f[t] # <<>> /\ Len(f[t]) \notin Ypcalls(f[t])
    /\ t = MainThread => st[t] = "LUA_OK"
    /\ ~IsOn(c, t) /\ st[t] = "LUA_OK" => f[t] = <<>>
    /\ \A j \in ResumesOf(c, t) :
         IF c[j].entered THEN st[t] = "LUA_OK" /\ t \notin un
         ELSE st[t] = "LUA_YIELD" \/ t \in un

StackBounded(c) ==
  \A j \in 1 .. Len(c) :
    \/ CCallsIn(c, j) < ErrorCCalls
    \/ CCallsIn(c, j) = ErrorCCalls /\ j = Len(c) /\ Waits(c[j])

Typed(c, f, st, ny, nc, ef, ah, un) ==
  /\ f \in [Thread -> Seq(CallInfo)]
  /\ st \in [Thread -> {"LUA_OK", "LUA_YIELD"} \cup Errors]
  /\ ny \in [Thread -> Nat]
  /\ nc \in [Thread -> Nat]
  /\ ef \in [Thread -> Nat]
  /\ ah \in [Thread -> BOOLEAN]
  /\ un \in SUBSET Thread
  /\ c \in Seq(Activation)

\* The inductive invariant, of a state or of one in the middle of a step.
Inv(c, f, st, ny, nc, ef, ah, un) ==
  /\ Typed(c, f, st, ny, nc, ef, ah, un)
  /\ Stack(c) /\ Frames(c, f)
  /\ Interruptible(c, f) /\ Continuations(c, f, st)
  /\ AllSaved(c) /\ CallsCounted(c, nc) /\ NnyCounted(c, ny)
  /\ Handlers(c, f, st, ef) /\ HooksRight(c, st, ah)
  /\ ThreadsRight(c, f, st, un) /\ StackBounded(c)

IInv == Inv(cs, ci, status, nny, nCcalls, errfunc, allowhook, unstarted)
=============================================================================
