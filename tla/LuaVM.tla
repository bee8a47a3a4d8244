------------------------------- MODULE LuaVM -------------------------------
(***************************************************************************)
(* The virtual machine: luaV_execute (lvm.c), one action per instruction,  *)
(* with the calls it makes to luaD_precall, luaD_poscall (ldo.c),          *)
(* luaF_findupval and luaF_close (lfunc.c).  Metamethods, hooks, errors    *)
(* other than their being one, and the collector are left out; the only    *)
(* function of the host is print.  The state vm has the stack, the frames  *)
(* (ci), top, the closures, the upvalues, the list of the open ones, the   *)
(* tables, the closure each prototype remembers and what was printed.      *)
(***************************************************************************)
EXTENDS LuaParser

VARIABLES main,   \* the FuncState the main function was compiled in
          vm

Junk == Val("junk", 0, "")

cur   == Last(vm.ci)
cl    == vm.cls[cur.cl]
instr == cl.p.code[cur.pc + 1]
A == instr.A
B == instr.B
C == instr.C
Is(op) == vm.st = "running" /\ instr.op = op
RA(r) == cur.base + r                     \* the place of a register in the stack
R(r)  == vm.stk[RA(r) + 1]
K(k)  == cl.p.k[k + 1]
RKV(x) == IF ISK(x) THEN K(x - BITRK) ELSE R(x)

Put1(M, place, val) == [M EXCEPT !.stk[place + 1] = val]
Advance(M, n) == [M EXCEPT !.ci[Len(M.ci)].pc = @ + n]
To(M)         == vm' = Advance(M, 1) /\ UNCHANGED main
Set(val)      == To(Put1(vm, RA(A), val))
Throw         == vm' = [vm EXCEPT !.st = "error"] /\ UNCHANGED main
Jumped(M, n)  == vm' = Advance(M, 1 + n) /\ UNCHANGED main

(***************************************************************************)
(* Tables, without metatables                                              *)
(***************************************************************************)
Key(k) == IF k.tt = "flt" /\ k.i % 2 = 0 THEN Ival(k.i \div 2) ELSE k
Get(tab, k) == IF Key(k) \in DOMAIN tab THEN tab[Key(k)] ELSE Nil
With(tab, k, val) ==
    IF val = Nil THEN [x \in DOMAIN tab \ {Key(k)} |-> tab[x]] ELSE (Key(k) :> val) @@ tab
Border(tab) == CHOOSE n \in 0..Cardinality(DOMAIN tab) :
                   (n = 0 \/ Ival(n) \in DOMAIN tab) /\ Ival(n + 1) \notin DOMAIN tab
StoreTab(M, t, k, val) == [M EXCEPT !.tabs[t.i] = With(@, k, val)]

(***************************************************************************)
(* Upvalues (lfunc.c)                                                      *)
(***************************************************************************)
UpGet(u) == IF vm.upv[u].open THEN vm.stk[vm.upv[u].lev + 1] ELSE vm.upv[u].val
\* luaF_findupval: the open upvalues are in a list, the highest level first.
FindUpval(M, level) ==
    LET above == {n \in DOMAIN M.open : M.upv[M.open[n]].lev > level}
        at    == Cardinality(above) + 1
        u     == Len(M.upv) + 1
    IN IF at <= Len(M.open) /\ M.upv[M.open[at]].lev = level THEN [M |-> M, u |-> M.open[at]]
       ELSE [M |-> [M EXCEPT !.upv = Append(@, [open |-> TRUE, lev |-> level, val |-> Nil]),
                             !.open = InsertAt(@, at, u)],
             u |-> u]
RECURSIVE CloseUp(_, _)
\* luaF_close
CloseUp(M, level) ==
    IF M.open = <<>> \/ M.upv[Head(M.open)].lev < level THEN M
    ELSE LET u == Head(M.open)
         IN CloseUp([M EXCEPT !.open = Tail(@), !.upv[u].open = FALSE,
                              !.upv[u].val = M.stk[M.upv[u].lev + 1]], level)

(***************************************************************************)
(* Calls (ldo.c)                                                           *)
(***************************************************************************)
Grow(M, size) ==
    [M EXCEPT !.stk = @ \o [n \in 1..(IF size > Len(@) THEN size - Len(@) ELSE 0) |-> Junk]]
\* moveresults and the rest of luaD_poscall: results vals go to place res.
MoveResults(M, res, vals, wanted) ==
    LET n == IF wanted = MULTRET THEN Len(vals) ELSE wanted
        G == Grow(M, res + n)
    IN [G EXCEPT !.top = res + n,
                 !.stk = [x \in DOMAIN @ |->
                            IF x - res \in 1..n THEN (IF x - res <= Len(vals) THEN vals[x - res] ELSE Nil)
                            ELSE @[x]]]
\* adjust_varargs: the fixed parameters move over the extra arguments.
AdjustVarargs(M, p, func, n) ==
    LET moved == [x \in 1..p.numparams |-> IF x <= n THEN M.stk[func + 1 + x] ELSE Nil]
        G == Grow(M, M.top + p.numparams)
    IN [G EXCEPT !.stk = [x \in DOMAIN @ |->
                            IF x - M.top \in 1..p.numparams THEN moved[x - M.top]
                            ELSE IF x - func - 1 \in 1..(IF n < p.numparams THEN n ELSE p.numparams)
                            THEN Nil ELSE @[x]]]
\* luaD_precall of a Lua function
Enter(M, func, nresults) ==
    LET f == M.stk[func + 1].i
        p == M.cls[f].p
        n == M.top - func - 1
        base == IF p.vararg THEN M.top ELSE func + 1
        G == IF p.vararg THEN AdjustVarargs(M, p, func, n)
             ELSE LET H == Grow(M, func + 1 + p.numparams)
                  IN [H EXCEPT !.stk = [x \in DOMAIN @ |-> IF x - func - 1 \in n + 1..p.numparams
                                                           THEN Nil ELSE @[x]]]
    IN [Grow(G, base + p.maxstack) EXCEPT
          !.ci = Append(@, [cl |-> f, func |-> func, base |-> base, pc |-> 0,
                            nresults |-> nresults, top |-> base + p.maxstack]),
          !.top = base + p.maxstack]
Args(M, func) == SubSeq(M.stk, func + 2, M.top)
\* A call of the function at place func of M, whose frame has advanced.  The
\* host's print has no results; top is the frame's again unless they are open.
Called(M, func, nresults) ==
    LET f == M.stk[func + 1]
        G == MoveResults([M EXCEPT !.out = Append(@, Args(M, func))], func, <<>>, nresults)
    IN CASE f.tt = "fn" -> Enter(M, func, nresults)
         [] f.tt = "print" -> IF nresults = MULTRET THEN G ELSE [G EXCEPT !.top = cur.top]
         [] OTHER -> [M EXCEPT !.st = "error"]
\* L->top = ra+b, when the number of values is known
Fix(M, b) == IF b = 0 THEN M ELSE [M EXCEPT !.top = RA(A) + b]

(***************************************************************************)
(* The instructions                                                        *)
(***************************************************************************)
Move     == Is("MOVE") /\ Set(R(B))
LoadK    == Is("LOADK") /\ Set(K(B))
LoadKX   == Is("LOADKX") /\ Jumped(Put1(vm, RA(A), K(cl.p.code[cur.pc + 2].A)), 1)
LoadBool == Is("LOADBOOL") /\ Jumped(Put1(vm, RA(A), Bool(B = 1)), C)
LoadNil  == /\ Is("LOADNIL")
            /\ To([vm EXCEPT !.stk = [x \in DOMAIN @ |-> IF x - 1 \in RA(A)..RA(A) + B THEN Nil ELSE @[x]]])
GetUpval == Is("GETUPVAL") /\ Set(UpGet(cl.ups[B + 1]))
Index(t, k) == IF t.tt = "tab" THEN Set(Get(vm.tabs[t.i], k)) ELSE Throw
GetTabUp == Is("GETTABUP") /\ Index(UpGet(cl.ups[B + 1]), RKV(C))
GetTable == Is("GETTABLE") /\ Index(R(B), RKV(C))
NewIndex(t, k, val) == IF t.tt = "tab" /\ k # Nil THEN To(StoreTab(vm, t, k, val)) ELSE Throw
SetTabUp == Is("SETTABUP") /\ NewIndex(UpGet(cl.ups[A + 1]), RKV(B), RKV(C))
SetTable == Is("SETTABLE") /\ NewIndex(R(A), RKV(B), RKV(C))
SetUpval == /\ Is("SETUPVAL")
            /\ LET u == cl.ups[B + 1]
               IN IF vm.upv[u].open THEN To(Put1(vm, vm.upv[u].lev, R(A)))
                  ELSE To([vm EXCEPT !.upv[u].val = R(A)])
NewTable == /\ Is("NEWTABLE")
            /\ To(Put1([vm EXCEPT !.tabs = Append(@, EmptyTable)], RA(A), Val("tab", Len(vm.tabs) + 1, "")))
OpSelf   == /\ Is("SELF")
            /\ IF R(B).tt # "tab" THEN Throw
               ELSE To(Put1(Put1(vm, RA(A) + 1, R(B)), RA(A), Get(vm.tabs[R(B).i], RKV(C))))
Arithmetic ==
    /\ vm.st = "running" /\ instr.op \in {"ADD", "SUB", "MUL"}
    /\ IF Comparable(RKV(B), RKV(C)) THEN Set(Arith(instr.op, RKV(B), RKV(C))) ELSE Throw
Division ==
    /\ vm.st = "running" /\ instr.op \in {"MOD", "IDIV"}
    /\ IF ~Comparable(RKV(B), RKV(C)) \/ DividesByZero(instr.op, RKV(B), RKV(C)) THEN Throw
       ELSE Set(Arith(instr.op, RKV(B), RKV(C)))
Unm      == Is("UNM") /\ IF ttisnumber(R(B)) THEN Set(Arith("UNM", R(B), R(B))) ELSE Throw
Not      == Is("NOT") /\ Set(Bool(l_isfalse(R(B))))
OpLen    == /\ Is("LEN")
            /\ CASE R(B).tt = "tab" -> Set(Ival(Border(vm.tabs[R(B).i])))
                 [] R(B).tt = "str" -> Set(Ival(Len(R(B).s)))
                 [] OTHER -> Throw
OpConcat == /\ Is("CONCAT")
            /\ IF \E x \in B..C : ~CanConcat(R(x)) THEN Throw
               ELSE LET s == FoldLeft(LAMBDA acc, x : acc \o ToStr(x), "",
                                      SubSeq(vm.stk, RA(B) + 1, RA(C) + 1))
                    IN To([Put1(Put1(vm, RA(B), Str(s)), RA(A), Str(s)) EXCEPT !.top = cur.top])

\* dojump and donextjump
DoJump(M, j) == Jumped(IF j.A = 0 THEN M ELSE CloseUp(M, cur.base + j.A - 1), j.B)
DoNextJump(M) == LET j == cl.p.code[cur.pc + 2]
                 IN DoJump([M EXCEPT !.ci[Len(M.ci)].pc = @ + 1], j)
OpJmp == Is("JMP") /\ DoJump(vm, instr)
Branch(taken) == IF taken THEN DoNextJump(vm) ELSE Jumped(vm, 1)
OpEq == Is("EQ") /\ Branch(RawEqual(RKV(B), RKV(C)) = (A = 1))
OpLt == Is("LT") /\ IF Comparable(RKV(B), RKV(C)) THEN Branch(LessThan(RKV(B), RKV(C)) = (A = 1)) ELSE Throw
OpLe == Is("LE") /\ IF Comparable(RKV(B), RKV(C)) THEN Branch(LessEqual(RKV(B), RKV(C)) = (A = 1)) ELSE Throw
Test == Is("TEST") /\ Branch(l_isfalse(R(A)) # (C = 1))
TestSet == /\ Is("TESTSET")
           /\ IF l_isfalse(R(B)) = (C = 1) THEN Jumped(vm, 1) ELSE DoNextJump(Put1(vm, RA(A), R(B)))

Call == /\ Is("CALL")
        /\ vm' = Called(Advance(Fix(vm, B), 1), RA(A), C - 1) /\ UNCHANGED main
TailCall ==
    /\ Is("TAILCALL")
    /\ LET M == Called(Advance(Fix(vm, B), 1), RA(A), MULTRET)
           n == Last(M.ci)
           p == M.cls[n.cl].p
           D == IF cl.p.p # <<>> THEN CloseUp(M, cur.base) ELSE M
           off == n.func - cur.func
           count == n.base + p.numparams - n.func
       IN vm' = IF Len(M.ci) = Len(vm.ci) THEN M
                ELSE [D EXCEPT !.stk = [x \in DOMAIN @ |-> IF x - cur.func \in 1..count THEN @[x + off] ELSE @[x]],
                               !.ci = Append(Front(Front(@)),
                                             [n EXCEPT !.func = cur.func, !.base = @ - off,
                                                       !.top = @ - off, !.nresults = cur.nresults]),
                               !.top = @ - off]
    /\ UNCHANGED main
Return ==
    /\ Is("RETURN")
    /\ LET D == IF cl.p.p # <<>> THEN CloseUp(vm, cur.base) ELSE vm
           vals == SubSeq(vm.stk, RA(A) + 1, IF B # 0 THEN RA(A) + B - 1 ELSE vm.top)
           M == MoveResults([D EXCEPT !.ci = Front(@)], cur.func, vals, cur.nresults)
       IN vm' = IF M.ci = <<>> THEN [M EXCEPT !.st = "done", !.out = Append(@, vals)]
                ELSE IF cur.nresults = MULTRET THEN M
                ELSE [M EXCEPT !.top = Last(M.ci).top]
    /\ UNCHANGED main

\* forlimit: an integer loop with a float limit runs to the limit's floor (or
\* ceiling); one that no integer reaches clips it.
ForLimit(lim, step) ==
    LET fl == IF lim.i % 2 = 0 THEN lim.i \div 2
              ELSE IF step < 0 THEN lim.i \div 2 + 1 ELSE lim.i \div 2
    IN CASE lim.tt = "int" -> [limit |-> lim.i, stop |-> FALSE]
         [] lim.tt = "flt" /\ FitsInt(fl) -> [limit |-> fl, stop |-> FALSE]
         [] lim.tt = "flt" /\ fl > MAXINTEGER -> [limit |-> MAXINTEGER, stop |-> step < 0]
         [] OTHER -> [limit |-> MININTEGER, stop |-> step >= 0]
ForPrep ==
    /\ Is("FORPREP")
    /\ LET init == R(A)  lim == R(A + 1)  step == R(A + 2)
           fl == ForLimit(lim, step.i)
       IN IF ~(ttisnumber(init) /\ ttisnumber(lim) /\ ttisnumber(step)) THEN Throw
          ELSE IF init.tt = "int" /\ step.tt = "int"
          THEN Jumped(Put1(Put1(vm, RA(A) + 1, Ival(fl.limit)), RA(A),
                           Ival(Wrap((IF fl.stop THEN 0 ELSE init.i) - step.i))), B)
          ELSE Jumped(Put1(Put1(Put1(vm, RA(A) + 1, Flt(Halves(lim))), RA(A) + 2, Flt(Halves(step))),
                           RA(A), Flt(Halves(init) - Halves(step))), B)
ForLoop ==
    /\ Is("FORLOOP")
    /\ LET step == R(A + 2)
           idx == Arith("ADD", R(A), step)
           more == IF step.i > 0 THEN LessEqual(idx, R(A + 1)) ELSE LessEqual(R(A + 1), idx)
       IN IF more THEN Jumped(Put1(Put1(vm, RA(A), idx), RA(A) + 3, idx), B) ELSE To(vm)
TForCall ==
    /\ Is("TFORCALL")
    /\ LET cb == RA(A) + 3
           M == Put1(Put1(Put1(vm, cb, R(A)), cb + 1, R(A + 1)), cb + 2, R(A + 2))
       IN vm' = Called(Advance([M EXCEPT !.top = cb + 3], 1), cb, C)
    /\ UNCHANGED main
TForLoop == /\ Is("TFORLOOP")
            /\ IF R(A + 1) = Nil THEN To(vm) ELSE Jumped(Put1(vm, RA(A), R(A + 1)), B)
OpSetList ==
    /\ Is("SETLIST")
    /\ LET n == IF B = 0 THEN vm.top - RA(A) - 1 ELSE B
           c == IF C = 0 THEN cl.p.code[cur.pc + 2].A ELSE C
           M == FoldLeft(LAMBDA acc, x : StoreTab(acc, R(A), Ival((c - 1) * LFIELDS_PER_FLUSH + x),
                                                  vm.stk[RA(A) + x + 1]),
                         vm, [x \in 1..n |-> x])
       IN Jumped([M EXCEPT !.top = cur.top], IF C = 0 THEN 1 ELSE 0)
VarargOp ==
    /\ Is("VARARG")
    /\ LET n == cur.base - cur.func - cl.p.numparams - 1
           have == IF n < 0 THEN 0 ELSE n
           want == IF B = 0 THEN have ELSE B - 1
           G == Grow(vm, RA(A) + want)
           M == [G EXCEPT !.stk = [x \in DOMAIN @ |->
                     LET j == x - 1 - RA(A) IN
                     IF j \in 0..want - 1 THEN (IF j < have THEN @[cur.base - have + j + 1] ELSE Nil)
                     ELSE @[x]]]
       IN To(IF B = 0 THEN [M EXCEPT !.top = RA(A) + have] ELSE M)

\* getcached and pushclosure: a prototype remembers the last closure made
\* from it, which is used again when its upvalues are the same variables.
SameUpvals(M, f, descs) ==
    \A n \in DOMAIN descs :
        LET u == M.cls[f].ups[n]
        IN IF descs[n].instack THEN M.upv[u].open /\ M.upv[u].lev = cur.base + descs[n].idx
           ELSE u = cl.ups[descs[n].idx + 1]
Capture(acc, d) ==
    IF ~d.instack THEN [acc EXCEPT !.ups = Append(@, cl.ups[d.idx + 1])]
    ELSE LET F == FindUpval(acc.M, cur.base + d.idx) IN [M |-> F.M, ups |-> Append(acc.ups, F.u)]
Closure ==
    /\ Is("CLOSURE")
    /\ LET p == cl.p.p[B + 1]
           path == Append(cl.path, B)
           W == FoldLeft(Capture, [M |-> vm, ups |-> <<>>], p.ups)
           f == Len(vm.cls) + 1
       IN IF path \in DOMAIN vm.cache /\ SameUpvals(vm, vm.cache[path], p.ups)
          THEN Set(Val("fn", vm.cache[path], ""))
          ELSE To(Put1([W.M EXCEPT !.cls = Append(@, [p |-> p, path |-> path, ups |-> W.ups]),
                                   !.cache = (path :> f) @@ @],
                       RA(A), Val("fn", f, "")))

(***************************************************************************)
(* The start: lua_load sets the first upvalue of the main function to the  *)
(* table of globals, lua_call calls it with some arguments.                *)
(***************************************************************************)
Start(F, args) ==
    LET M == [stk |-> <<Val("fn", 1, "")>> \o args, ci |-> <<>>, top |-> 1 + Len(args),
              cls |-> <<[p |-> Proto(F), path |-> <<>>, ups |-> <<1>>]>>,
              upv |-> <<[open |-> FALSE, lev |-> 0, val |-> Val("tab", 1, "")]>>, open |-> <<>>,
              tabs |-> <<Str("print") :> Val("print", 0, "")>>, cache |-> <<>>, out |-> <<>>,
              st |-> "running"]
    IN IF F.err # "" THEN [M EXCEPT !.st = "error"] ELSE Enter(M, 0, MULTRET)
Ended == vm.st \in {"done", "error"} /\ UNCHANGED <<main, vm>>

Step == \/ Move \/ LoadK \/ LoadKX \/ LoadBool \/ LoadNil \/ GetUpval \/ GetTabUp \/ GetTable
        \/ SetTabUp \/ SetUpval \/ SetTable \/ NewTable \/ OpSelf \/ Arithmetic \/ Division \/ Unm \/ Not
        \/ OpLen \/ OpConcat \/ OpJmp \/ OpEq \/ OpLt \/ OpLe \/ Test \/ TestSet \/ Call
        \/ TailCall \/ Return \/ ForLoop \/ ForPrep \/ TForCall \/ TForLoop \/ OpSetList
        \/ Closure \/ VarargOp \/ Ended
=============================================================================
