------------------------------- MODULE LuaDo -------------------------------
(***************************************************************************)
(* Calls, errors and coroutines of ldo.c.  A thread has a list of CallInfo *)
(* of its own, but all threads run on one C stack: the activations of the  *)
(* C functions of the interpreter, and of C functions called from Lua.     *)
(* An error or a yield is a longjmp, which drops the activations above the *)
(* innermost luaD_rawrunprotected of its thread; the fields of lua_State   *)
(* that count them have to be put right by what runs next.                 *)
(*                                                                         *)
(* Left out: values, results and the size of the stack; of callstatus, the *)
(* bits that are read for debug information only.  A tail call replaces    *)
(* a frame by one with the same bits, and changes nothing here.            *)
(*                                                                         *)
(* A definition called X_faulty (or X_faulty2) is a wrong version of the   *)
(* one that follows it, and part of no specification: TLC shows with it    *)
(* that a property notices that fault.                                     *)
(***************************************************************************)
EXTENDS Naturals, Sequences, FiniteSets, FiniteSetsExt

CONSTANTS
  Thread,          \* lua_State
  MainThread,      \* g->mainthread
  LUAI_MAXCCALLS,  \* the limit on nested C calls,
  ErrorCCalls,     \* and the one while an overflow is handled: 9/8 of it
  Uses,            \* what programs use, of Features
  MainFrames,      \* bound: CallInfo entries of the main thread,
  MaxFrames        \* and of a coroutine

Features == {"lua_load", "finalizers", "hooks", "metamethods in hooks"}

ASSUME ThreadAssumption == MainThread \in Thread
ASSUME LimitAssumption ==
  /\ LUAI_MAXCCALLS \in Nat \ {0}
  /\ ErrorCCalls \in Nat
  /\ ErrorCCalls > LUAI_MAXCCALLS
  /\ Uses \subseteq Features
  /\ MainFrames \in Nat /\ MaxFrames \in Nat

VARIABLES
  ci,         \* [Thread -> Seq(CallInfo)]: from above base_ci up to L->ci
  status,     \* [Thread -> LUA_OK, LUA_YIELD or the error that ended it]
  nny,        \* [Thread -> Nat]: calls that must not be interrupted
  nCcalls,    \* [Thread -> Nat]: nested C calls
  errfunc,    \* [Thread -> Nat]: where the message handler in use is, or 0
  allowhook,  \* [Thread -> BOOLEAN]
  unstarted,  \* SUBSET Thread: threads with only a function in their stack
  cs          \* Seq(Activation): the C stack

vars == <<ci, status, nny, nCcalls, errfunc, allowhook, unstarted, cs>>

Errors == {"LUA_ERRRUN", "LUA_ERRMEM", "LUA_ERRERR", "LUA_ERRGCMM"}

\* Frames.  'handler': the C function holds a message handler in its stack for
\* its last lua_pcallk with a continuation.  'k' is not set when a function
\* is called: it is what the CallInfo held before.
LuaFrame == [lua : {TRUE}, fresh : BOOLEAN]
CFrame == [lua : {FALSE}, k : {"unset", "NULL", "k"}, ypcall : BOOLEAN,
           oah : BOOLEAN, old_errfunc : Nat, handler : BOOLEAN]
CallInfo == LuaFrame \cup CFrame

NewFrame(lua, fresh) ==
  IF lua THEN [lua |-> TRUE, fresh |-> fresh]
  ELSE [lua |-> FALSE, k |-> "unset", ypcall |-> FALSE, oah |-> FALSE,
        old_errfunc |-> 0, handler |-> FALSE]

\* The stack position of the message handler of the frame at a level.
HandlerOf(level) == level + 1

Depth(t) == Len(ci[t])
Ypcalls(frames) ==
  {i \in DOMAIN frames : ~frames[i].lua /\ frames[i].ypcall}

\* Activations.  'level' is the local variable ci: the frame they work for.
Runs == {"C", "luaV_execute", "hook", "f_parser"}
Activation ==
  [fn : Runs \cup {"luaD_protectedparser"}, th : Thread, level : Nat]
    \cup [fn : {"luaD_call"}, th : Thread, level : Nat, noyield : BOOLEAN,
          caller : {"callk", "pcallk", "f_call", "luaT_callTM", "luaG_errormsg"},
          entered : BOOLEAN]
    \cup [fn : {"luaD_pcall"}, th : Thread, level : Nat, nny : Nat,
          nCcalls : Nat, errfunc : Nat, allowhook : BOOLEAN, ef : Nat]
    \cup [fn : {"GCTM"}, th : Thread, level : Nat, oldah : BOOLEAN,
          status : {"LUA_OK"} \cup Errors]
    \cup [fn : {"lua_resume"}, th : Thread, level : Nat, nny : Nat,
          nCcalls : Nat, entered : BOOLEAN]

Top == cs[Len(cs)]
L == Top.th
Below == SubSeq(cs, 1, Len(cs) - 1)
errorstatus(st) == st \in Errors

\* C code that may use the API: a function or a continuation; a hook; the
\* reader of lua_load.  The host (lua.c) calls it outside any function.
InC == Top.fn \in {"C", "hook", "f_parser"}
InFunction == Top.fn = "C" /\ Top.level > 0
InHost == Top.fn = "C" /\ Top.level = 0
TopFrame == ci[L][Depth(L)]

\* Code that allocates: whatever runs, and luaD_precall, for the stack.
Allocates ==
  \/ Top.fn \in Runs /\ ~InHost
  \/ Top.fn = "luaD_call" /\ ~Top.entered /\ nCcalls[L] < ErrorCCalls

Init ==
  /\ ci = [t \in Thread |-> <<>>]
  /\ status = [t \in Thread |-> "LUA_OK"]
  /\ nny = [t \in Thread |-> 1]
  /\ nCcalls = [t \in Thread |-> 0]
  /\ errfunc = [t \in Thread |-> 0]
  /\ allowhook = [t \in Thread |-> TRUE]
  /\ unstarted = Thread \ {MainThread}
  /\ cs = <<[fn |-> "C", th |-> MainThread, level |-> 0]>>
-----------------------------------------------------------------------------
(* Long jumps.                                                             *)

\* The activations that hold a lua_longjmp of thread t.
Protectors(t) ==
  {j \in DOMAIN cs : cs[j].fn \in {"luaD_pcall", "lua_resume"} /\ cs[j].th = t}
errorJmp == Max(Protectors(L))

\* Fault: the depth of the C stack is not put back after an error.
luaD_pcall_returns_faulty(j, st) ==
  LET e == cs[j]
  IN  /\ errfunc' = [errfunc EXCEPT ![L] = e.errfunc]
      /\ cs' = IF cs[j - 1].fn = "GCTM"
               THEN [SubSeq(cs, 1, j - 1) EXCEPT ![j - 1].status = st]
               ELSE SubSeq(cs, 1, j - 1)
      /\ IF st = "LUA_OK" THEN UNCHANGED <<ci, allowhook, nny, nCcalls>>
         ELSE /\ ci' = [ci EXCEPT ![L] = SubSeq(@, 1, e.level)]
              /\ allowhook' = [allowhook EXCEPT ![L] = e.allowhook]
              /\ nny' = [nny EXCEPT ![L] = e.nny]
              /\ UNCHANGED nCcalls

\* luaD_pcall, the activation j, returns st to what called it.
luaD_pcall_returns(j, st) ==
  LET e == cs[j]
      S == SubSeq(cs, 1, j - 1)
  IN  /\ nCcalls' = [nCcalls EXCEPT ![L] = e.nCcalls]
      /\ errfunc' = [errfunc EXCEPT ![L] = e.errfunc]
      /\ cs' = IF cs[j - 1].fn = "GCTM" THEN [S EXCEPT ![j - 1].status = st]
               ELSE S
      /\ IF st = "LUA_OK" THEN UNCHANGED <<ci, allowhook, nny>>
         ELSE /\ ci' = [ci EXCEPT ![L] = SubSeq(@, 1, e.level)]
              /\ allowhook' = [allowhook EXCEPT ![L] = e.allowhook]
              /\ nny' = [nny EXCEPT ![L] = e.nny]

\* Fault: the message handler of the finished pcall stays in use.
finishCcall_faulty(frames, S) ==
  /\ ci' = [ci EXCEPT ![L] = [frames EXCEPT ![Len(frames)].ypcall = FALSE]]
  /\ UNCHANGED errfunc
  /\ cs' = Append(S, [fn |-> "C", th |-> L, level |-> Len(frames)])

\* finishCcall, up to the call of the continuation of the last of 'frames'.
finishCcall(frames, S) ==
  LET i == Len(frames)
      f == frames[i]
  IN  /\ ci' = [ci EXCEPT ![L] = [frames EXCEPT ![i].ypcall = FALSE]]
      /\ errfunc' = IF f.ypcall THEN [errfunc EXCEPT ![L] = f.old_errfunc]
                    ELSE errfunc
      /\ cs' = Append(S, [fn |-> "C", th |-> L, level |-> i])

\* Fault: the recover point is the outermost suspended pcall.
recover_faulty(j) ==
  LET i == Min(Ypcalls(ci[L]))
  IN  /\ finishCcall(SubSeq(ci[L], 1, i), SubSeq(cs, 1, j))
      /\ allowhook' = [allowhook EXCEPT ![L] = ci[L][i].oah]
      /\ nny' = [nny EXCEPT ![L] = 0]
      /\ nCcalls' = [nCcalls EXCEPT ![L] = cs[j].nCcalls]
      /\ UNCHANGED <<status, unstarted>>

\* Fault: hooks stay off when the error came from a hook.
recover_faulty2(j) ==
  LET i == Max(Ypcalls(ci[L]))
  IN  /\ finishCcall(SubSeq(ci[L], 1, i), SubSeq(cs, 1, j))
      /\ nny' = [nny EXCEPT ![L] = 0]
      /\ nCcalls' = [nCcalls EXCEPT ![L] = cs[j].nCcalls]
      /\ UNCHANGED <<status, unstarted, allowhook>>

\* lua_resume, the activation j, after its rawrunprotected: a suspended
\* pcall gets the error, and its function goes on.
recover(j) ==
  LET i == Max(Ypcalls(ci[L]))
  IN  /\ finishCcall(SubSeq(ci[L], 1, i), SubSeq(cs, 1, j))
      /\ allowhook' = [allowhook EXCEPT ![L] = ci[L][i].oah]
      /\ nny' = [nny EXCEPT ![L] = 0]
      /\ nCcalls' = [nCcalls EXCEPT ![L] = cs[j].nCcalls]
      /\ UNCHANGED <<status, unstarted>>

\* Fault: nny is decremented, not set to what it was.
lua_resume_returns_faulty(j) ==
  /\ nny' = [nny EXCEPT ![L] = @ - 1]
  /\ nCcalls' = [nCcalls EXCEPT ![L] = cs[j].nCcalls - 1]
  /\ cs' = SubSeq(cs, 1, j - 1)
  /\ UNCHANGED errfunc

lua_resume_returns(j) ==
  /\ nny' = [nny EXCEPT ![L] = cs[j].nny]
  /\ nCcalls' = [nCcalls EXCEPT ![L] = cs[j].nCcalls - 1]
  /\ cs' = SubSeq(cs, 1, j - 1)
  /\ UNCHANGED errfunc

\* Fault: a thread that ends with an error is not marked as dead.
luaD_throw_faulty(st, ah) ==
  LET j == errorJmp
  IN  IF cs[j].fn = "luaD_pcall"
        THEN luaD_pcall_returns(j, st) /\ UNCHANGED <<status, unstarted>>
      ELSE IF Ypcalls(ci[L]) # {}
        THEN recover(j)
      ELSE /\ allowhook' = [allowhook EXCEPT ![L] = ah]
           /\ lua_resume_returns(j)
           /\ UNCHANGED <<ci, status, unstarted>>

\* luaD_throw, with what its longjmp leads to; ah is L->allowhook.
luaD_throw(st, ah) ==
  LET j == errorJmp
  IN  IF cs[j].fn = "luaD_pcall"
        THEN luaD_pcall_returns(j, st) /\ UNCHANGED <<status, unstarted>>
      ELSE IF Ypcalls(ci[L]) # {}
        THEN recover(j)
      ELSE /\ status' = [status EXCEPT ![L] = st]  \* dead
           /\ unstarted' = unstarted \ {L}
           /\ allowhook' = [allowhook EXCEPT ![L] = ah]
           /\ lua_resume_returns(j)
           /\ UNCHANGED ci

\* luaD_throw(L, LUA_YIELD), with 'frames' as lua_yieldk leaves them.
throwYield(frames) ==
  /\ status' = [status EXCEPT ![L] = "LUA_YIELD"]
  /\ ci' = [ci EXCEPT ![L] = frames]
  /\ lua_resume_returns(errorJmp)
  /\ UNCHANGED unstarted
-----------------------------------------------------------------------------
(* Calls.                                                                  *)

\* luaD_call is called: it counts itself and then, as an action of its own,
\* enters the function.
CallActivation(caller, noyield) ==
  [fn |-> "luaD_call", th |-> L, level |-> Depth(L), noyield |-> noyield,
   caller |-> caller, entered |-> FALSE]

luaD_call(caller, noyield, S) ==
  /\ nCcalls' = [nCcalls EXCEPT ![L] = @ + 1]
  /\ nny' = IF noyield THEN [nny EXCEPT ![L] = @ + 1] ELSE nny
  /\ cs' = Append(S, CallActivation(caller, noyield))

\* luaG_errormsg: the message handler is called, and then the error thrown.
luaG_errormsg ==
  IF errfunc[L] # 0
    THEN /\ luaD_call("luaG_errormsg", TRUE, cs)
         /\ UNCHANGED <<ci, status, errfunc, allowhook, unstarted>>
    ELSE luaD_throw("LUA_ERRRUN", allowhook[L])

\* The new frame and the activation that runs it.  A Lua function called by
\* OP_CALL goes on in the luaV_execute that runs already.
luaD_precall(lua, fresh, S) ==
  /\ Depth(L) < IF L = MainThread THEN MainFrames ELSE MaxFrames
  /\ ci' = [ci EXCEPT ![L] = Append(@, NewFrame(lua, fresh))]
  /\ cs' = IF lua /\ ~fresh THEN S
           ELSE Append(S, [fn |-> IF lua THEN "luaV_execute" ELSE "C",
                           th |-> L, level |-> Depth(L) + 1])

\* Fault: an error while an overflow is handled is like any other.
luaD_call_enters_faulty ==
  /\ Top.fn = "luaD_call"
  /\ ~Top.entered
  /\ \/ luaG_errormsg
     \/ /\ nCcalls[L] # LUAI_MAXCCALLS
        /\ \E lua \in BOOLEAN :
             luaD_precall(lua, TRUE, [cs EXCEPT ![Len(cs)].entered = TRUE])
        /\ UNCHANGED <<status, nny, nCcalls, errfunc, allowhook, unstarted>>

\* stackerror, then the call; or the value cannot be called.
luaD_call_enters ==
  /\ Top.fn = "luaD_call"
  /\ ~Top.entered
  /\ \/ /\ nCcalls[L] >= ErrorCCalls
        /\ luaD_throw("LUA_ERRERR", allowhook[L])
     \/ /\ nCcalls[L] < ErrorCCalls
        /\ luaG_errormsg
     \/ /\ nCcalls[L] < ErrorCCalls
        /\ nCcalls[L] # LUAI_MAXCCALLS
        /\ \E lua \in BOOLEAN :
             luaD_precall(lua, TRUE, [cs EXCEPT ![Len(cs)].entered = TRUE])
        /\ UNCHANGED <<status, nny, nCcalls, errfunc, allowhook, unstarted>>

\* The function has returned; what follows the call in its caller.
luaD_call_returns ==
  /\ Top.fn = "luaD_call"
  /\ Top.entered
  /\ IF Top.caller = "luaG_errormsg"
       THEN luaD_throw("LUA_ERRRUN", allowhook[L])
       ELSE /\ nCcalls' = [nCcalls EXCEPT ![L] = @ - 1]
            /\ nny' = IF Top.noyield THEN [nny EXCEPT ![L] = @ - 1] ELSE nny
            /\ cs' = Below
            /\ IF Top.caller = "pcallk"
                 THEN /\ ci' = [ci EXCEPT ![L][Depth(L)].ypcall = FALSE]
                      /\ errfunc' = [errfunc EXCEPT ![L] = TopFrame.old_errfunc]
                 ELSE UNCHANGED <<ci, errfunc>>
            /\ UNCHANGED <<status, allowhook, unstarted>>

\* luaD_poscall, at the end of a C function or a continuation.
C_returns ==
  /\ InFunction
  /\ ci' = [ci EXCEPT ![L] = SubSeq(@, 1, Top.level - 1)]
  /\ cs' = Below
  /\ UNCHANGED <<status, nny, nCcalls, errfunc, allowhook, unstarted>>

OP_CALL ==
  /\ Top.fn = "luaV_execute"
  /\ \E lua \in BOOLEAN : luaD_precall(lua, FALSE, cs)
  /\ UNCHANGED <<status, nny, nCcalls, errfunc, allowhook, unstarted>>

OP_RETURN ==
  /\ Top.fn = "luaV_execute"
  /\ ci' = [ci EXCEPT ![L] = SubSeq(@, 1, Depth(L) - 1)]
  /\ cs' = IF TopFrame.fresh THEN Below ELSE cs
  /\ UNCHANGED <<status, nny, nCcalls, errfunc, allowhook, unstarted>>

\* A metamethod, or the iterator of a loop.
luaT_callTM ==
  /\ \/ Top.fn \in {"luaV_execute", "f_parser"}
     \/ InFunction
     \/ Top.fn = "hook" /\ "metamethods in hooks" \in Uses
  /\ luaD_call("luaT_callTM", ~TopFrame.lua, cs)
  /\ UNCHANGED <<ci, status, errfunc, allowhook, unstarted>>

\* k: is there a continuation?
lua_callk(k) ==
  /\ InC /\ ~InHost
  /\ k => InFunction
  /\ LET yieldable == k /\ nny[L] = 0
     IN  /\ ci' = IF yieldable THEN [ci EXCEPT ![L][Depth(L)].k = "k"] ELSE ci
         /\ luaD_call("callk", ~yieldable, cs)
  /\ UNCHANGED <<status, errfunc, allowhook, unstarted>>

\* luaD_pcall up to the call of its function, called with message handler ef.
PcallActivation(ef) ==
  [fn |-> "luaD_pcall", th |-> L, level |-> Depth(L), nny |-> nny[L],
   nCcalls |-> nCcalls[L], errfunc |-> errfunc[L], allowhook |-> allowhook[L],
   ef |-> ef]

\* Fault: f_call does not keep the function it calls from yielding.
lua_pcallk_faulty(k, handler) ==
  /\ InC
  /\ ~(k /\ nny[L] = 0)
  /\ k => InFunction
  /\ LET ef == IF handler THEN HandlerOf(Depth(L)) ELSE 0
     IN  /\ errfunc' = [errfunc EXCEPT ![L] = ef]
         /\ luaD_call("f_call", FALSE, Append(cs, PcallActivation(ef)))
  /\ UNCHANGED <<ci, status, allowhook, unstarted>>

lua_pcallk(k, handler) ==
  /\ InC
  /\ k => InFunction
  /\ LET ef == IF handler THEN HandlerOf(Depth(L)) ELSE 0
     IN  /\ errfunc' = [errfunc EXCEPT ![L] = ef]
         /\ IF k /\ nny[L] = 0
              THEN /\ ci' = [ci EXCEPT ![L][Depth(L)] =
                               [@ EXCEPT !.k = "k",
                                         !.old_errfunc = errfunc[L],
                                         !.oah = allowhook[L],
                                         !.ypcall = TRUE,
                                         !.handler = handler]]
                   /\ luaD_call("pcallk", FALSE, cs)
              ELSE /\ luaD_call("f_call", TRUE, Append(cs, PcallActivation(ef)))
                   /\ UNCHANGED ci
  /\ UNCHANGED <<status, allowhook, unstarted>>

\* The function that luaD_pcall called has returned.
luaD_pcall_ends ==
  /\ Top.fn = "luaD_pcall"
  /\ luaD_pcall_returns(Len(cs), "LUA_OK")
  /\ UNCHANGED <<status, unstarted>>

\* Fault: the parser's calls are not counted, and its end counts down.
luaD_protectedparser_faulty ==
  /\ "lua_load" \in Uses
  /\ InFunction
  /\ cs' = cs \o
       << [fn |-> "luaD_protectedparser", th |-> L, level |-> Depth(L)],
          PcallActivation(errfunc[L]),
          [fn |-> "f_parser", th |-> L, level |-> Depth(L)] >>
  /\ UNCHANGED <<ci, status, nny, nCcalls, errfunc, allowhook, unstarted>>

\* lua_load: the parser, which may call the reader, a function in C.
luaD_protectedparser ==
  /\ "lua_load" \in Uses
  /\ InFunction
  /\ nny' = [nny EXCEPT ![L] = @ + 1]
  /\ cs' = cs \o
       << [fn |-> "luaD_protectedparser", th |-> L, level |-> Depth(L)],
          [PcallActivation(errfunc[L]) EXCEPT !.nny = @ + 1],
          [fn |-> "f_parser", th |-> L, level |-> Depth(L)] >>
  /\ UNCHANGED <<ci, status, nCcalls, errfunc, allowhook, unstarted>>

f_parser_returns ==
  /\ Top.fn = "f_parser"
  /\ cs' = Below
  /\ UNCHANGED <<ci, status, nny, nCcalls, errfunc, allowhook, unstarted>>

luaD_protectedparser_returns ==
  /\ Top.fn = "luaD_protectedparser"
  /\ nny' = [nny EXCEPT ![L] = @ - 1]
  /\ cs' = Below
  /\ UNCHANGED <<ci, status, nCcalls, errfunc, allowhook, unstarted>>
-----------------------------------------------------------------------------
(* Errors.                                                                 *)

\* lua_error and luaG_runerror, in whatever runs.
RunError ==
  /\ Top.fn \in Runs /\ ~InHost
  /\ luaG_errormsg

\* Memory and syntax errors have no use for a message handler.
ThrowError ==
  /\ Allocates
  /\ luaD_throw("LUA_ERRMEM", allowhook[L])
-----------------------------------------------------------------------------
(* Finalizers and hooks.                                                   *)

\* The collector calls a finalizer, in any allocation.
GCTM ==
  /\ "finalizers" \in Uses
  /\ Allocates
  /\ allowhook' = [allowhook EXCEPT ![L] = FALSE]
  /\ errfunc' = [errfunc EXCEPT ![L] = 0]
  /\ luaD_call("f_call", TRUE, cs \o
       << [fn |-> "GCTM", th |-> L, level |-> Depth(L),
           oldah |-> allowhook[L], status |-> "LUA_OK"],
          [PcallActivation(0) EXCEPT !.allowhook = FALSE] >>)
  /\ UNCHANGED <<ci, status, unstarted>>

\* lua_gc and the collector in full propagate the error, lua_close does not.
GCTM_returns ==
  /\ Top.fn = "GCTM"
  /\ Top.status = "LUA_OK"
  /\ allowhook' = [allowhook EXCEPT ![L] = Top.oldah]
  /\ cs' = Below
  /\ UNCHANGED <<ci, status, nny, nCcalls, errfunc, unstarted>>

GCTM_rethrows ==
  /\ Top.fn = "GCTM"
  /\ Top.status # "LUA_OK"
  /\ luaD_throw("LUA_ERRGCMM", Top.oldah)

\* luaD_hook, of a line or count hook: 'allowhook' is off while it runs.
luaD_hook ==
  /\ "hooks" \in Uses
  /\ Top.fn = "luaV_execute"
  /\ allowhook[L]
  /\ allowhook' = [allowhook EXCEPT ![L] = FALSE]
  /\ cs' = Append(cs, [fn |-> "hook", th |-> L, level |-> Depth(L)])
  /\ UNCHANGED <<ci, status, nny, nCcalls, errfunc, unstarted>>

hook_returns ==
  /\ Top.fn = "hook"
  /\ allowhook' = [allowhook EXCEPT ![L] = TRUE]
  /\ cs' = Below
  /\ UNCHANGED <<ci, status, nny, nCcalls, errfunc, unstarted>>

\* lua_yield as the last thing in a hook, and then luaG_traceexec.
hook_yields ==
  /\ Top.fn = "hook"
  /\ nny[L] = 0
  /\ allowhook' = [allowhook EXCEPT ![L] = TRUE]
  /\ throwYield(ci[L])
-----------------------------------------------------------------------------
(* Coroutines.                                                             *)

\* From a C function; k: is there a continuation?  With nny > 0 it is an
\* error, as any other (RunError).
lua_yieldk(k) ==
  /\ InFunction
  /\ nny[L] = 0
  /\ throwYield([ci[L] EXCEPT ![Depth(L)].k = IF k THEN "k" ELSE "NULL"])
  /\ UNCHANGED allowhook

\* auxresume refuses a thread without a function to start, and lua_resume
\* one that is running, waiting or dead; nothing changes then.
CanResume(t) ==
  \/ status[t] = "LUA_OK" /\ ci[t] = <<>> /\ t \in unstarted
  \/ status[t] = "LUA_YIELD"

lua_resume(t) ==
  /\ InC /\ ~InHost
  /\ CanResume(t)
  /\ nCcalls' = [nCcalls EXCEPT ![t] = nCcalls[L] + 1]
  /\ IF nCcalls[L] + 1 >= LUAI_MAXCCALLS
       THEN UNCHANGED <<nny, cs>>
       ELSE /\ nny' = [nny EXCEPT ![t] = 0]
            /\ cs' = Append(cs, [fn |-> "lua_resume", th |-> t, level |-> 0,
                                 nny |-> nny[t], nCcalls |-> nCcalls[L] + 1,
                                 entered |-> FALSE])
  /\ UNCHANGED <<ci, status, errfunc, allowhook, unstarted>>

\* Fault: the frame luaV_execute starts with is not marked.
execute_faulty(S) ==
  /\ cs' = Append(S, [fn |-> "luaV_execute", th |-> L, level |-> Depth(L)])
  /\ UNCHANGED ci

\* luaV_execute, on a frame that is there already.
execute(S) ==
  /\ ci' = [ci EXCEPT ![L][Depth(L)].fresh = TRUE]
  /\ cs' = Append(S, [fn |-> "luaV_execute", th |-> L, level |-> Depth(L)])

\* resume.  A function that yielded without a continuation is done.
resume ==
  /\ Top.fn = "lua_resume"
  /\ ~Top.entered
  /\ LET S == [cs EXCEPT ![Len(cs)].entered = TRUE]
     IN  IF status[L] = "LUA_OK"
           THEN /\ unstarted' = unstarted \ {L}
                /\ \E lua \in BOOLEAN : luaD_precall(lua, TRUE, S)
                /\ UNCHANGED status
           ELSE /\ status' = [status EXCEPT ![L] = "LUA_OK"]
                /\ UNCHANGED unstarted
                /\ IF TopFrame.lua
                     THEN execute(S)
                   ELSE IF TopFrame.k = "NULL"
                     THEN /\ ci' = [ci EXCEPT ![L] = SubSeq(@, 1, Depth(L) - 1)]
                          /\ cs' = S
                   ELSE /\ cs' = Append(S, [fn |-> "C", th |-> L,
                                            level |-> Depth(L)])
                        /\ UNCHANGED ci
  /\ UNCHANGED <<nny, nCcalls, errfunc, allowhook>>

\* The function a coroutine was to start with cannot be called.
resume_fails ==
  /\ Top.fn = "lua_resume"
  /\ ~Top.entered
  /\ status[L] = "LUA_OK"
  /\ luaG_errormsg

\* One turn of the loop of unroll, or the end of lua_resume.
unroll ==
  /\ Top.fn = "lua_resume"
  /\ Top.entered
  /\ IF ci[L] = <<>>
       THEN lua_resume_returns(Len(cs)) /\ UNCHANGED ci
     ELSE IF TopFrame.lua
       THEN execute(cs) /\ UNCHANGED <<nny, nCcalls, errfunc>>
     ELSE finishCcall(ci[L], cs) /\ UNCHANGED <<nny, nCcalls>>
  /\ UNCHANGED <<status, allowhook, unstarted>>

\* lua_xmove: a coroutine that is done gets another function to run.
NewFunction(t) ==
  /\ InFunction
  /\ t \notin unstarted
  /\ status[t] = "LUA_OK" /\ ci[t] = <<>>
  /\ unstarted' = unstarted \cup {t}
  /\ UNCHANGED <<ci, status, nny, nCcalls, errfunc, allowhook, cs>>
-----------------------------------------------------------------------------
CallStep ==
  \/ luaD_call_enters \/ luaD_call_returns
  \/ C_returns \/ OP_CALL \/ OP_RETURN \/ luaT_callTM
  \/ \E k \in BOOLEAN : lua_callk(k)
  \/ \E k, handler \in BOOLEAN : lua_pcallk(k, handler)
  \/ luaD_pcall_ends
  \/ luaD_protectedparser \/ f_parser_returns \/ luaD_protectedparser_returns

ErrorStep == RunError \/ ThrowError

AsideStep ==
  \/ GCTM \/ GCTM_returns \/ GCTM_rethrows
  \/ luaD_hook \/ hook_returns \/ hook_yields

CoroutineStep ==
  \/ \E k \in BOOLEAN : lua_yieldk(k)
  \/ \E t \in Thread : lua_resume(t) \/ NewFunction(t)
  \/ resume \/ resume_fails \/ unroll

Next == CallStep \/ ErrorStep \/ AsideStep \/ CoroutineStep

Spec == Init /\ [][Next]_vars
-----------------------------------------------------------------------------
(* Properties.                                                             *)

\* The state keeps its type (lstate.h:75-110, ldo.c).
TypeOK ==
  /\ ci \in [Thread -> Seq(CallInfo)]
  /\ status \in [Thread -> {"LUA_OK", "LUA_YIELD"} \cup Errors]
  /\ nny \in [Thread -> Nat]
  /\ nCcalls \in [Thread -> Nat]
  /\ errfunc \in [Thread -> Nat]
  /\ allowhook \in [Thread -> BOOLEAN]
  /\ unstarted \in SUBSET Thread
  /\ cs \in Seq(Activation) /\ cs # <<>>

Resumes(t) == {j \in DOMAIN cs : cs[j].fn = "lua_resume" /\ cs[j].th = t}
OnStack(t) == t = MainThread \/ Resumes(t) # {}

\* Nested C calls up to the activation j, and what of t must not be interrupted.
CCalls(j) ==
  Cardinality({i \in 1 .. j : cs[i].fn \in {"luaD_call", "lua_resume"}})
Uninterruptible(t) ==
  {i \in DOMAIN cs : /\ cs[i].th = t
                     /\ \/ cs[i].fn = "luaD_call" /\ cs[i].noyield
                        \/ cs[i].fn = "luaD_protectedparser"}

\* The C stack is bounded, also by errors in message handlers that have errors
\* (stackerror, ldo.c:481-486).
CStackBounded == CCalls(Len(cs)) <= ErrorCCalls

\* After any mixture of returns, errors and yields, nCcalls is the number of C
\* calls that are really nested (lstate.h, ldo.c:496, 658, 679), for the running
\* thread and for each that waits for one it resumed; and nny counts what a
\* yield must not interrupt (ldo.c:509, 736, 787, lapi.c:918): the activations in
\* progress, and 1 for what is not inside a coroutine.
CountersRight ==
  /\ nCcalls[L] = CCalls(Len(cs))
  /\ \A j \in DOMAIN cs :
       cs[j].fn = "lua_resume" => nCcalls[cs[j - 1].th] = CCalls(j - 1)
  /\ \A t \in Thread :
       nny[t] = Cardinality(Uninterruptible(t))
                  + (IF t = MainThread \/ ~OnStack(t) THEN 1 ELSE 0)

\* A longjmp drops activations of its own thread only, and one for a yield is
\* not caught by a luaD_pcall on the way to lua_resume.
LongjmpRight ==
  Top.fn \in Runs /\ ~InHost =>
    /\ Protectors(L) # {}
    /\ \A j \in errorJmp .. Len(cs) : cs[j].th = L
    /\ nny[L] = 0 => cs[errorJmp].fn = "lua_resume"

\* Metamethods can yield only when called from Lua code: ltm.c:152.
MetamethodsYieldInLua ==
  nny[L] = 0 =>
    \A j \in DOMAIN cs :
      /\ cs[j].fn = "luaD_call" /\ cs[j].caller = "luaT_callTM" /\ cs[j].th = L
      => cs[j - 1].fn = "luaV_execute"

\* Whatever gets control back, by a return or by a longjmp, finds L->ci where it
\* left it (the lua_asserts at lvm.c:793, 1186): luaV_execute at one of the
\* Lua frames it runs, of which the first and no other is 'fresh'.  And each C
\* function a coroutine has left by a yield can be finished: it gave a
\* continuation (the lua_assert at ldo.c:522), unless it called lua_yield itself.
ControlRight ==
  /\ Top.fn \notin {"luaV_execute", "lua_resume"} => Depth(L) = Top.level
  /\ Top.fn = "C" /\ ~InHost => ~TopFrame.lua
  /\ Top.fn = "luaV_execute" =>
       /\ Depth(L) >= Top.level
       /\ \A i \in Top.level .. Depth(L) :
            ci[L][i].lua /\ (ci[L][i].fresh <=> i = Top.level)
  /\ \A t \in Thread : \A i \in DOMAIN ci[t] :
       ~ci[t][i].lua =>
         /\ status[t] = "LUA_YIELD" =>
              ci[t][i].k = "k" \/ (ci[t][i].k = "NULL" /\ i = Depth(t))
         /\ Top.fn = "lua_resume" /\ Top.entered /\ t = L => ci[t][i].k = "k"

\* The message handler in use is that of the innermost protected call, also
\* when that call was interrupted and resumed, or another one recovered from
\* an error (ldo.c:528, 593, 739, lapi.c:982).
HandlerInUse(t) ==
  LET pcalls == {j \in DOMAIN cs : cs[j].fn = "luaD_pcall" /\ cs[j].th = t}
  IN  IF pcalls # {} THEN cs[Max(pcalls)].ef
      ELSE IF Ypcalls(ci[t]) # {} /\ ci[t][Max(Ypcalls(ci[t]))].handler
        THEN HandlerOf(Max(Ypcalls(ci[t])))
      ELSE 0
HandlerRight ==
  \A t \in Thread : ~errorstatus(status[t]) => errfunc[t] = HandlerInUse(t)

\* Hooks are off in a thread while it runs a hook or a finalizer, and at no
\* other time, whatever errors those raise (ldo.c:269, 735, 590, lgc.c:824).
HooksOffInside ==
  \A t \in Thread :
    ~errorstatus(status[t]) =>
      (allowhook[t] <=> ~\E j \in DOMAIN cs : /\ cs[j].fn \in {"hook", "GCTM"}
                                             /\ cs[j].th = t)

\* luaB_costatus (lcorolib.c), called by the running thread.
costatus(t) ==
  IF t = L THEN "running"
  ELSE IF status[t] = "LUA_YIELD" THEN "suspended"
  ELSE IF errorstatus(status[t]) THEN "dead"
  ELSE IF ci[t] # <<>> THEN "normal"
  ELSE IF t \in unstarted THEN "suspended" ELSE "dead"

\* coroutine.status tells the truth: just the suspended coroutines can be
\* resumed, and the normal ones wait for a coroutine they resumed.
StatusTold ==
  InFunction => \A t \in Thread :
    /\ costatus(t) = "suspended" <=> CanResume(t)
    /\ costatus(t) \in {"running", "normal"} <=> OnStack(t)
-----------------------------------------------------------------------------
(* LuaDo implements LuaThreads.                                            *)

ProtectedFrame(t, i) ==
  \/ i > 1 /\ ~ci[t][i - 1].lua /\ ci[t][i - 1].ypcall
  \/ \E j \in DOMAIN cs :
       cs[j].fn = "luaD_pcall" /\ cs[j].th = t /\ cs[j].level = i - 1

UninterruptibleFrame(t, i) ==
  \E j \in DOMAIN cs :
    cs[j].fn = "luaD_call" /\ cs[j].noyield /\ cs[j].th = t /\ cs[j].level = i - 1

callsBar ==
  [t \in Thread |->
     IF errorstatus(status[t]) THEN <<>>
     ELSE [i \in 1 .. Depth(t) |-> [prot |-> ProtectedFrame(t, i),
                                    noyield |-> UninterruptibleFrame(t, i)]]]

Entered(a) == a.fn = "lua_resume" /\ a.entered
runningBar == IF Top.fn = "lua_resume" /\ ~Top.entered THEN cs[Len(cs) - 1].th ELSE L
resumedBar ==
  {<<cs[j - 1].th, cs[j].th>> : j \in {i \in DOMAIN cs : Entered(cs[i])}}

stateBar ==
  [t \in Thread |->
     IF errorstatus(status[t]) THEN "dead"
     ELSE IF status[t] = "LUA_YIELD" \/ t \in unstarted THEN "suspended"
     ELSE IF OnStack(t) THEN "active" ELSE "finished"]

Threads == INSTANCE LuaThreads WITH
  calls <- callsBar, state <- stateBar,
  running <- runningBar, resumed <- resumedBar

\* Calls, errors, yields and resumptions come to what LuaThreads promises.
ImplementsThreads == Threads!Spec
=============================================================================
