# LuaRus: models and proofs

LuaRus is a fork of Lua 5.3.4 with Russian keywords, Russian names of
metamethods and a Cyrillic lexer. The repository holds the interpreter
(`src/src`, about 25 000 lines of C with its libraries), an IDE that bundles it
and a good deal of third-party material. This directory models the
interpreter's own logic in TLA+, checks the models with TLC on small instances,
and proves theorems about them with TLAPS.

Paths below are relative to `src/src`.

## The system

One `global_State` is shared by any number of coroutines (`lua_State`), all run
by a single C thread. Nothing is concurrent in the sense of the operating
system; the hard interleavings are of another kind:

* the garbage collector is incremental. Any allocation may run a piece of it,
  and the running program changes the graph of objects between two pieces;
* finalizers (`__gc`) are Lua code that the collector calls between its steps,
  and that may do anything, including starting a full collection;
* an allocation that fails runs an *emergency* collection in the middle of
  whatever operation asked for the memory;
* coroutines suspend in the middle of calls, protected calls, metamethods and
  hooks, and errors unwind several of them at once through `longjmp`.

| component | files | state | operations | what makes it correct |
|---|---|---|---|---|
| garbage collector | lgc.c | colour bits, `gcstate`, gray lists, `allgc`, `finobj`, `tobefnz`, `sweepgc`, debt | barriers, `singlestep`, `luaC_step`, `luaC_fullgc`, finalizers | frees nothing in use, frees all garbage in the end, finalizes once and only what was lost |
| strings | lstring.c | hash table, cache of C strings | `luaS_newlstr`, `internshrstr`, `luaS_resize`, `luaS_remove` | equal short strings are one object, also while one of them is dead |
| tables | ltable.c | array part, node part with collision chains, `lastfree` | get, set, `luaH_newkey`, rehash, `luaH_next`, `luaH_getn` | a map, whatever the collisions; traversal visits every key once |
| closures and upvalues | lfunc.c | list of open upvalues of a stack, reference counts | `luaF_findupval`, `luaF_close`, joins | one upvalue per variable, shared by all closures, freed with the last of them |
| calls and coroutines | ldo.c, lstate.c | `CallInfo` chain, `status`, `nny`, `nCcalls`, `errorJmp` | call, return, pcall, resume, yield, throw | control always returns to the right place with the counters it left |
| metamethods | ltm.c | `flags`: absent metamethods | `luaT_gettm`, `luaH_set` | the cache never hides a metamethod |
| virtual machine | lvm.c | pc, base, stack | `luaV_execute` | loops, metamethod order, resumed operations |
| C API | lapi.c | the stack of the calling function | `lua_*` | the barriers and the stack discipline |
| memory | lmem.c | `GCdebt` | `luaM_realloc_` | retry after an emergency collection |
| input, lexer | lzio.c, llex.c | buffer, look-ahead | `luaZ_fill`, `zlookc`, `llex` | no byte lost or read twice |
| parser, code generator | lparser.c, lcode.c | blocks, active variables, pending gotos, lists of jumps | blocks, `goto`, patching | a jump goes where its label is and closes the variables it leaves |
| dump and undump | ldump.c, lundump.c | | | inverse of each other |
| libraries | l*lib.c, lauxlib.c, loadlib.c | `package.loaded`, references in the registry | | |
| lua, luac | lua.c, luac.c | | | |

How they interact: every component allocates through `luaM_realloc_` and
`luaC_newobj`, and so may run the collector; every store of a reference into an
object goes through a barrier of lgc.h; the collector reads the state of all the
others (the stacks, the open upvalues, the string table, the tables) and calls
back into ldo.c for finalizers; ldo.c unwinds through `luaF_close` and
`luaD_shrinkstack`.

The behaviours that are hard to test are listed in `PROJECT.json` under
`hazards`, each at the line where it bites, with the properties that would show
it going wrong.

## What is modelled

### The garbage collector

* `LuaReach`: reachability, stated without recursion so that one can prove
  about it.
* `LuaHeap`: what the collector promises to everybody else. A graph of objects;
  running code allocates, links and unlinks what it can reach; memory is taken
  back only when nothing can reach it, and a finalizer is called only after the
  program lost its object.
* `LuaGC`: lgc.c, with the barriers as the callers in lapi.c, lvm.c and ltable.c
  use them. One action per state of `singlestep`, one per operation of running
  code, one for the call of a finalizer.
* `LuaGC_Inv`: the inductive invariant. `LuaGC_MC`: small instances.
* `LuaGC_proofs`: the theorems: types and the safety invariants, and that LuaGC
  implements LuaHeap.

| variable | in the code |
|---|---|
| `list` | the list that links the object (`allgc`, `finobj`, `tobefnz`), or free |
| `marked`, `currentwhite` | the colour bits of `marked`, `g->currentwhite` |
| `refs` | fields, metatable, user value, upvalues or stack slots: what an object refers to |
| `roots` | `g->l_registry` and `g->mt` |
| `cstack` | the threads that `lua_resume` has on the C stack |
| `gcstate`, `gray`, `grayagain` | the same in `global_State` |
| `tosweep` | what lies between `g->sweepgc` and the end of the list it points into |
| `fullgc`, `gckind` | where `luaC_fullgc` stands, and `g->gckind` |

The order of the lists is left open, except where it matters: what was swept of
`tobefnz` comes before what was not. A sweep therefore visits *some* objects of
its list, at most `GCSWEEPMAX` of them.

The barriers are part of the actions that need them: `SetTable` has the
backward barrier, `SetOther` and `SetFinalizer` the forward one, writes to the
stack have none. `SetFinalizer` also contains `luaC_checkfinalizer`, with the
case that the sweep stands at the object that leaves `allgc` (`sweeptolive`).
`atomic` is one action, as it is one uninterrupted piece of code.

Not in this module: weak tables and upvalues, which have modules of their own
(below), and the arithmetic of the debt. A full collection runs inside one
operation of the program, so the other operations wait for it, except in the
finalizers it calls.

### Calls, errors and coroutines

* `LuaThreads`: what Lua programs may rely on. A coroutine is a stack of calls;
  an error ends the calls above the innermost protected one; a yield suspends
  all the calls of a coroutine, and only if none of them must not be
  interrupted; control comes back to the thread that resumed.
* `LuaDo`: ldo.c with the parts of lapi.c, lgc.c and ltm.c that call it.
  `LuaDo_MC`: small instances.
* `LuaDo_Inv`: the inductive invariant. `LuaDo_proofs`: what cuts and calls
  preserve and the moves actions are made of. `LuaDo_safety`, built on it: the
  actions, first those that take several moves, and the theorems.
  `LuaDo_refinement`: that LuaDo implements LuaThreads.

| variable | in the code |
|---|---|
| `ci` | the `CallInfo` list of each thread, from above `base_ci` to `L->ci`: `callstatus`, `u.c.k`, `u.c.old_errfunc` |
| `status`, `nny`, `nCcalls`, `errfunc`, `allowhook` | the same fields of `lua_State` |
| `unstarted` | the threads with status `LUA_OK`, no call and a function in their stack |
| `cs` | the C stack: one entry for each C function of the interpreter under way that matters (`luaD_call`, `luaD_pcall`, `lua_resume`, `luaV_execute`, `luaD_protectedparser`, `GCTM`, hooks, and C functions called from Lua), with the local variables it needs when it gets control back |

A `longjmp` is a cut of `cs`. `luaD_throw` contains what its `longjmp` leads to:
the rest of `luaD_pcall`, or of `lua_resume` with `recover` and `unroll`'s first
step. Calls are counted when `luaD_call` starts and entered in an action of
their own, as the error between the two is the interesting one (`stackerror`).
What a program uses is a set `Uses` of features, to keep the runs small: loading
code, finalizers, hooks, and hooks that call metamethods.

Not in this module: values, the size of the stack, call and return hooks,
`lua_resume` called with `from = NULL`, the main thread's panic function
(`LongjmpRight` says when there is a `luaD_rawrunprotected` to jump to: always,
but in the host program).

### Tables

* `LuaMap`: a map, and traversals that give every field once.
* `LuaTable`: one table of ltable.c. `LuaTable_MC`: small instances.
  `LuaTable_proofs`: the theorems about it.

| variable | in the code |
|---|---|
| `t.array`, `t.node`, `t.lastfree` | `array` with `sizearray`, `node` with `lsizenode`, `lastfree`; `<<>>` is the `dummynode` |
| `objects` | the strings and objects that exist and are keys; a key has a type, an address and, if a string, a hash |
| `key` | the control variable of a traversal, on the stack |

`Set` is a whole assignment: the search, Brent's variation, the rehash with all
the entries inserted again in the order of `luaH_resize`, and the store. The
collector may make the key of an empty entry a dead key, whether the program
still holds it or not (a stack may be traversed after the table), and free an
object that is not in the table; its address comes into use again, maybe for a
string with another hash. The refinement maps the traversal to the set of the
keys still to be given, found from the current key alone.

### Weak tables, upvalues, strings, input

Four parts of the run-time system that share no state with each other in these
models are run side by side by `LuaRuntime_MC` (and `table.sort` with them): a
behaviour of `RuntimeSpec` is one of the part it begins with.

* `LuaWeak`: one collection with weak tables. While the collector marks, the
  program reads from weak tables and stores into others (with the barrier); then
  the pieces of `atomic` follow in the order of the code, `convergeephemerons`
  table by table in the order of the lists. `was` is the heap as it was when
  `atomic` began, from which the properties compute, by the words of the manual,
  what is accessible. A table is a set of nodes that hold a value, are empty with
  their key still there, or have a dead key.
* `LuaUpval`: lfunc.c with its part of lgc.c and lapi.c. Upvalues are counted,
  not collected; the list `twups` of the threads with open upvalues, the mark
  `touched`, `remarkupvals`, joins, and threads that die with open upvalues. `age`
  counts the collections an object begins as garbage.
* `LuaStrTab`: the table of short strings as its chains, in their order, with
  `luaS_resize` in place, `internshrstr` (which may have to resize first, and
  finds strings that are dead), the cache of `luaS_new`, and the sweep.
* `LuaZio`: lzio.c, and `zlookc` of llex.c. The bytes of the input are
  numbered, and the reader cuts the input at arbitrary places. Bytes behind a
  piece are `Unknown`.
* `LuaRuntime_proofs`: theorems about upvalues, strings, the input and
  `table.sort`. `LuaWeak_proofs`: those about weak tables. `LuaInduction`: induction and recursion over an interval of
  numbers, which all proofs about loops use.

### The compiler and the virtual machine

A program is read, compiled and run, and must do what an interpreter of syntax
trees does that knows nothing of registers, jumps or upvalues.

* `LuaValue`: values, and the operations that constant folding and the virtual
  machine share.
* `LuaCode`: lcode.c. Each `luaK_` function maps a `FuncState` to the next; jump
  lists are threaded through the offsets of the jumps, as in the code.
* `LuaParser`: lparser.c, from tokens, calling `LuaCode` as it goes: blocks,
  gotos and labels, variables and upvalues, all statements and expressions,
  limits.
* `LuaVM`: `luaV_execute`, one action per instruction, with calls, returns,
  variable arguments and upvalues (ldo.c, lfunc.c).
* `LuaMeaning`: the reference interpreter, and `Tokens`, which writes a tree down
  with the parentheses the grammar needs, so that precedences are tested too.
* `LuaCompile` puts them together: a first step, `Load`, reads and compiles the
  program, the others are the instructions. `LuaCompile_MC` has the programs:
  templates whose holes are filled in every way. `Read` is a constant that every
  configuration sets to `ReadProgram`; TLC's coverage then does not walk through
  the compiler's operators.

The compiler is recursive descent over mutable structures; it is modelled by
operators on these structures, as many lines as the code has functions. An error
is a flag, and the rest of the input is dropped.

### Libraries, scanner, precompiled chunks

Functions that answer at once are operators. `LuaLibrary_MC` calls them with
everything there is in a small world and compares each answer with what it
should be, stated apart from the code (the operators that end in `Agrees` or
`Meaning`).

| module | code | compared with |
|---|---|---|
| `LuaSort` (proofs in `LuaRuntime_proofs`) | `table.sort`, one step per comparison | the array is a permutation, nothing outside the interval is touched, sorted if the order is one |
| `LuaTabLib` | the rest of ltablib.c, with integers that wrap | fields as sets of positions |
| `LuaPattern` | the matcher of lstrlib.c, `find`, `match`, `gmatch`, `gsub` | patterns as sequences of items with sets of matches, the best one by the order of preferences |
| `LuaText` | `l_strcmp`, UTF-8 (lobject.c, lutf8lib.c), `sub`, `byte`, `rep`, plain `find` | slices as sets of positions, the table of the UTF-8 standard |
| `LuaNumber` | comparisons, conversions, numerals, loops, division (lvm.c, lobject.c), bit32 (lbitlib.c) | numbers as halves, without a width |
| `LuaPack` | `pack`, `packsize`, `unpack` | numbers as sums of their bytes, every option by itself and behind settings, read back at every position |
| `LuaLex` | llex.c on bytes | the longest word, again and again |
| `LuaDump` | ldump.c, lundump.c | the function read is the one written; a chunk cut off anywhere or with another header is refused |

## What the runs check

Every run of `LuaGC_MC` explores all interleavings of the program, the collector
and the finalizers. Two collectable objects besides the threads are enough for
the hazards: one that is black and one that is white and gets stored in it, one
that is finalized and one that it resurrects. `StackLimit`, `FieldLimit` and
`RootLimit` bound how much a stack, an object and the registry hold; a field
that holds one object at a time still forms every chain and cycle of them.

| run | objects | checks |
|---|---|---|
| `gc_tables` | two tables | types, `IInv`, `NoDangling`, `BlackNotToWhite`, `GrayInList`, `WhiteAfterSweep`, `EmergencyFreesGarbage`, and that LuaGC implements LuaHeap |
| `gc_coroutine` | a userdata, a string, a coroutine | LuaHeap |
| `gc_live` | a table, a C closure | `GarbageIsFreed`, `LostIsFinalized` |
| `gc_backlog` | two tables, `GCSWEEPMAX = 1` | finds `WhiteAfterSweep` violated |

Runs of `LuaDo_MC`:

| run | threads, uses | checks |
|---|---|---|
| `do_coroutines` | main and a coroutine of three frames; hooks | types, `CountersRight`, `LongjmpRight`, `ControlRight`, `HandlerRight`, `HooksOffInside`, LuaThreads |
| `do_overflow` | main and two coroutines of two frames, symmetric; `lua_load`, finalizers | `CountersRight`, `CStackBounded`, `StatusTold` |

The limit `LUAI_MAXCCALLS` is 3 to 5 instead of 200. In a coroutine the calls of
main and the resumption use two, which leaves room for protected calls within
protected calls and for an overflow; `do_overflow` puts the limits further apart
so that errors in message handlers pile up between them. Three frames make the
shapes that matter: a C function between two Lua functions, a `pcall` in a
`pcall`, a yield beneath them.

Runs of `LuaTable_MC`:

| run | keys | checks |
|---|---|---|
| `table_keys` | the integers 1, 2, 4 and 8, a string, objects at one address, tables preallocated or not; the allocator may fail | types, `MainInvariant`, `LengthRight`, and LuaMap until memory has failed (`ImplementsMapInMemory`) |
| `table_memory` | three integers | finds LuaMap violated once memory fails (`ImplementsMap`) |

Four nodes are enough for a chain that passes through the main position of
another key, for a colliding node that has to move, and for dead keys before and
behind the live one; an object that dies leaves its address to another. The
integers make the array part grow to four, shrink and stay empty. `MAX_INT` is
7, so that the border search meets its overflow test.

Runs of `LuaCompile_MC`:

| run | programs | checks |
|---|---|---|
| `compile_run` | 10131 programs | `RunsAsMeant`: what is printed and returned, and whether there is an error, is what `LuaMeaning` says; `AssertionsHold`: the `lua_assert`s of parser and code generator; `CodeIsSound`: what `luaV_execute` takes for granted |
| `compile_label` | an `if` whose block starts with a goto to one of its labels | finds `RunsAsMeant` violated |

The programs: conditions of up to three tests in every place a condition can be
used; operators on constants and variables, folded or not; multiple assignments
whose targets depend on each other; closures made in all kinds of loops, with
all ways to leave a turn; gotos to and from all places of blocks; calls,
results, tail calls, methods, recursion; numeric loops; constructors;
declarations; and, for each limit of the compiler, a program that just fits and
one that does not. Limits are small (`MAXREGS` 28, `MAXVARS` 12, `MAXUPVAL` 6,
two fields per flush, one constant that fits an operand, two that fit
`OP_LOADK`), so that every program of some size passes them. Integers wrap at
31, which constant folding and the virtual machine share.

Run of `LuaRuntime_MC`, `runtime`:

| part | world | checks |
|---|---|---|
| weak tables | two tables of seven pairs of modes, three userdata, one with a finalizer, every choice of one to three entries, a step of the program while marking if there is one entry | `NothingLost`, `EntriesAsPromised` |
| upvalues | main and a coroutine, two closures, two levels, three collections | `UpvaluesCounted`, `ValuesKept`, `NoCycleForEver` |
| strings | three texts, two of which share a chain, three addresses, tables of one to eight chains | `InternedOnce`, `StringsStay` |
| input | six bytes cut at any places, read by `zgetc` and `luaZ_read` | `FaithfulWithoutLook`, as long as `zlookc` is not called, and `InOrder` |
| sort | up to seven elements of three ranks, an order function that is an order, or answers anything (`RANLIMIT` 4 instead of 100, so that random pivots occur) | `SortRight` |

Ephemerons that hang on each other in both directions need two tables and three
objects; a cycle of a closure and a dead thread needs one of each and the third
collection to show that the second freed it.

Run of `LuaLibrary_MC`, `library`: `PatternsRight`, `AnswersRight`, for 100 000
calls. The world: integers of five bits (`MAXINTEGER` 15; 7 for
tables, where each of three integers takes all its values) and floats with
three bits of mantissa, so that there are integers no float equals; strings
of up to four bytes out of those that start, continue or break UTF-8
sequences; patterns of up to four items on texts of up to three characters,
with `LUA_MAXCAPTURES` 2 and a matcher that gives up at five calls deep; texts of
up to four words for the scanner, in four alphabets (brackets; numerals; symbols;
names and ends of line); formats of one option behind up to two settings, with
bytes of two bits (`Byte1` 4), integers of two bytes and options of up to four.

Fairness (`LiveSpec` of LuaGC). The collector has no thread of its own: it
advances when the program allocates. The liveness properties speak of a program
that goes on allocating, so that `luaC_step` is called again and again: the
collection under way makes progress (weak fairness), a `luaC_step` outside full
collections is reached again and again (strong fairness, for full collections
come between), and the queue `tobefnz` passes over no object for ever (strong
fairness of each `GCTM(o)`). `NoCycleForEver` is the same question for upvalues
as a bound: garbage sees no third collection begin.

Runs that may stop say so (`CHECK_DEADLOCK FALSE`): a sort is sorted, a
collection swept and an input read to its end.

## What is proved

### The garbage collector (`LuaGC_proofs`)

For every set of objects and all bounds:

* `TypeCorrect`: `Spec => []TypeOK`;
* `Invariance`, `Safety`, `TriColour`, `GrayListed`, `AllWhite`: as long as
  `FewToFinalize` holds, `IInv` is invariant, and with it `NoDangling`,
  `BlackNotToWhite`, `GrayInList` and `WhiteAfterSweep`;
* `Refinement`: under the same premise LuaGC implements LuaHeap
  (`ImplementsHeap`), by way of `Pending`;
* `EmergencyComplete`: under the same premise an emergency collection leaves no
  garbage (`EmergencyFreesGarbage`), by way of `NothingFloats`.

`NoDangling` is not inductive: a sweep frees what has the other white, so one
has to know that marking missed nothing, hence (`Marking`) that during a cycle
black objects refer to no white one, gray ones are listed and only one white is
in use, that after it (`Sweeping`) the other white is found only ahead of the
sweep, and (`Chain`) that a thread waiting for another still holds it, for only
the running thread is a root. The proof has a lemma for each action. The core is
`AtomicPhase`: what is not marked at the end of `atomic` is closed under
referrers, and no thread in use is in it, by the least index in the chain of
resumed threads that could be.

The refinement maps each operation of running code to the step of LuaHeap of the
same meaning, GCTM to `Finalize`, what only changes colours or phases to no step
at all, and `sweeplist` to `Collect`: what is freed was dead, the live objects are
closed under references and hold the roots (`NoDangling`), so LuaHeap may free it
(`DeadFreeable`). The flip of the white in `atomic` frees and sets aside at once
(`AtomicCollects`). What it sets aside must be out of the program's reach also by way of
objects that already wait for their finalizers, and that is not in `IInv`: it
takes `PendingMarked`, that during a cycle those objects are marked, which
`restartcollection` sees to.

That an emergency collection is complete rests on `NoFloating`: in its cycle all
garbage is white, and after the flip dead. No step of the program comes between, so
all that is marked is reachable and stays so (`GarbageShrinks`,
`AtomicMarksNone`); in a normal cycle that would be false.

`FewToFinalize` (no more than `GCSWEEPMAX` objects in `tobefnz`) is the premise
the code needs. Without it the run `gc_backlog` shows what happens.

### Calls, errors and coroutines (`LuaDo_safety`, `LuaDo_refinement`)

For any number of threads, calls and frames, any `LUAI_MAXCCALLS` and every
program, if `NoMetamethodsInHooks`: all the safety invariants of the runs
`do_coroutines` and `do_overflow`, that is `TypeCorrect` (`TypeOK`), `Counters`
(`CountersRight`), `Longjmps` (`LongjmpRight`), `Control` (`ControlRight`),
`MessageHandlers` (`HandlerRight`), `HooksOff` (`HooksOffInside`), `Bounded`
(`CStackBounded`) and `Statuses` (`StatusTold`).

None of them is inductive: an error, a yield or a return makes the state what
the C variables of an activation far below say it was, and the invariants do not
speak of those variables. `IInv` (in `LuaDo_Inv`) does, for each activation on
the C stack:

* `Stack`, by `LiesOn`: which activations it can have been called by, and that a
  thread's activations are one part of the C stack that a `lua_resume` begins;
* `Frames`: that it works for the frame it was called for, and that the frames
  from there to the next activation are those of Lua functions if it is
  `luaV_execute`;
* `AllSaved`: that `old_nny`, `oldnCcalls` and `allowhook` in `luaD_pcall`,
  `lua_resume` and `GCTM` are what one counts on the C stack below;
* `Handlers`: that a saved `old_errfunc`, in an activation or in a frame of a
  protected call that can be resumed, is the handler of the calls outside;
* `Interruptible`, `Continuations`: that a call which can be yielded across has
  a caller that can go on, and that the C functions without a continuation lie
  below something that forbids to yield;
* `ThreadsRight`, `StackBounded` and the counters themselves.

The invariant is a predicate `Inv(c, f, ...)` of any C stack and frames, so that
it can be stated in the middle of an action. Actions are made of a few moves: the
C stack is cut at an activation (`return`, `longjmp`), an activation is pushed, a
frame is pushed or dropped, and the proof has one lemma for each of them and each
conjunct, one for each move (both in `LuaDo_proofs`), and one for each action,
which composes the moves (`LuaDo_safety`). The hard ones are those of
`recover`, which moves on to a frame whose activation a yield has dropped, and
those of `Continuations`.

`NoMetamethodsInHooks` leaves out programs with hooks that set off metamethods.
The hooks of this repository (`hookf` in ldblib.c, `lstop` in lua.c, which only raises
an error) set none off themselves: their Lua code is called by `lua_call`. With other
hooks `LongjmpRight` and `HooksOffInside` are false (see "Metamethods called from hooks"
under "Disagreements").

`ThreadsImplemented`, under the same premise: LuaDo implements LuaThreads
(`ImplementsThreads`). The calls of a thread are its frames; one is protected if
a `luaD_pcall` made it or its caller is a frame with `CIST_YPCALL`, and must
not be interrupted if a `luaD_call` that forbids yields made it. A thread waits
for another from the moment the `lua_resume` between them enters it. The proof
finds for each action the step of LuaThreads it comes to (the lemmas `...Maps`):

* what pushes or pops activations of the running thread changes the marks of no
  frame that stays (`Dropped`, `MovesLead`), so it is a call, a return or nothing;
* what a longjmp to `luaD_pcall` drops are the activations for frames behind the
  protected call, and that call is the innermost one, be it marked by an
  activation or by a frame (`CatchMaps`); if no activation is left to protect,
  the innermost frame of `Ypcalls` is the last protected call (`RecoverMaps`),
  and without one the coroutine dies (`DieMaps`, `ThrowMaps`);
* a coroutine that yields, ends or dies takes its part of the C stack with it,
  of which no mark is left and on which nothing of another thread lies
  (`LeaveMaps`); that no call is marked when it yields is what `nny = 0` says
  by way of `NnyCounted` (`NothingMarked`);
* one that goes on has no activation yet, hence no marks but those of its frames
  (`ResumedParts`), and calls what it called before (`GoOnMaps`).

### Upvalues, strings and the input (`LuaRuntime_proofs`)

For any coroutines, closures, upvalues, levels of the stack, texts, addresses,
sizes of the table and lengths of the input: `UpvaluesSafe` (`UpvaluesCounted`),
`ValuesSafe` (`ValuesKept`), `CyclesFreed` (`NoCycleForEver`), `StringsSafe`
(`StringsStay`), `StringsInterned` (`InternedOnce`), `InputFaithful`
(`FaithfulWithoutLook`) and `InputOrdered` (`InOrder`). Three assumptions on the
constants say what the code takes for granted: threads, closures and nil are
different, the heap is finite and levels of a stack are counted from its bottom
(`UpvalAssumption`); no text is the mark of a free address, the message of
memory errors is never freed, hashes are unsigned, the memory for strings is
finite and the table starts with at least one chain (`TextAssumption`); the
length of the input fits in a `size_t` (`SizeAssumption`).

`UpvaluesCounted` says nothing of colours, and `ValuesKept` holds in the sweep only
if marking missed nothing. The invariant `IInv` of LuaUpval therefore adds that

* what is not going to be freed refers to nothing that is (`NoDangling`). What the
  program can get at is the value of a recursive function; `LeastClosed` proves
  that it is the least closed set, by the number of objects not reached yet, and
  the rest of the proofs speak of closed sets;
* a closure that was traversed before `atomic` has an upvalue that is closed and
  marked, or open and touched, and in `atomic` one whose value or whose thread is
  marked (`ClosureMarked`); a marked thread is gray or, in `atomic`, done with
  (`ThreadMarked`). This is what `touched` is for: `luaF_findupval` and
  `lua_upvaluejoin` set it, closing an upvalue marks its value, and
  `remarkupvals` marks the values of the touched ones whose threads are not marked;
* every thread with open upvalues is in `twups`, but in `atomic`, where
  `remarkupvals` has taken the threads that are not marked out and
  `traversethread` links them back (`AllListed`);
* an open upvalue lies in the stack of a thread that is not freed (`InPlace`).

There is a lemma for each action, and in front of them what the operations of
lfunc.c do: the walk down the list (`DownToFacts`), the new upvalue in its place
(`OpensList`), closing (`CloseFacts`), counting (`LessFacts`, `OneMore`,
`OneLess`).

`NoCycleForEver` is about garbage, of which `IInv` says nothing: that no garbage
sees a third collection begin, a closure and a dead thread that refer to each
other through an open upvalue included. `remarkupvals` cannot tell such a cycle
from one in use and keeps it, so that garbage may well survive a collection; it
must not keep it again. `AgesInv`, on top of `IInv`, counts for each object the
collections that have begun since it became garbage, and says that

* garbage refers to nothing that has been garbage for longer (`Downhill`); the
  program, which gets at no garbage, cannot change that;
* what marking finds was no garbage when the collection began, and in `atomic`
  none when the one before began (`FoundYoung`);
* neither was the value of a touched upvalue (`TouchedYoung`), so what
  `remarkupvals` marks is young enough: `touched` is set by the program and by the
  traversal of closures, where the value is no garbage, and `remarkupvals` takes
  it away from the upvalues of threads that are not marked;
* so what a collection leaves has seen at most one begin (`LeftYoung`).

`StringsStay` is inductive with the types alone; the work is in `Interned`: that
`internshrstr`, whether it finds a live string, revives a dead one or makes a new
one, kills no other.

`InternedOnce` is stated by counting; `InternInv` says that each chain holds the
strings whose place it is, each once (`Housed`), that no two strings have the
same text and that `nuse` counts them. A new string needs that a text which is
not found in its chain is that of no string (`NotFound`). The loops of
`luaS_resize` are two recursive functions, over the chains and over the strings
of one. The invariant of the inner one (`ChainMoved`) is that the strings passed
are in their new chains and the others of this chain in none, that of the outer
one (`Rehashed`) that the strings of the chains passed are where the new size
wants them; a string that is met again, in a chain further on, is already there.

For the input, `Reads` says that what was returned are bytes from before `z.p`, in
order, and `ReadsAll` that none is left out; the second fails when `zlookc` was
called at the end of a piece. A round of the loop of `luaZ_read` keeps both
(`RoundReads`), whether the piece is empty, shorter than what is missing or longer.

These loops are recursive functions on an interval of numbers, and an induction
over them needs no operator as a parameter: `Iterated` shows that there is such
a function, for any function that makes the step, and `Inductively` that what
each step keeps holds of all its values, by the least number for which it does
not (`Least`). These lemmas are in `LuaInduction`.

### Tables (`LuaTable_proofs`)

For any integer keys, addresses, hashes, values and `MAX_INT`, under
`KeyAssumption` alone (keys, addresses and hashes are natural numbers, integer
keys positive, and nil is no value): `TypesRight` (`TypeOK`), `Collided`
(`MainInvariant`) and `LengthIsBorder` (`LengthRight`), of tables of any size,
also after a rehash that got no memory. The invariant `IInv` says of the table
(`Good`) that

* the chains end: nodes have ranks, and `next` leads to a lower rank (`Chained`).
  From this `Search` proves that `FirstInChain`, recursive along the chain, is a
  function with a value everywhere;
* a node with a value has a key (`Used`); no node at or behind `lastfree` is free
  (`Keyed`), and no `next` leads to a free node (`Behind`);
* in the main position of the key of a node there is a key whose main position it
  is, or a dead key, whose main position cannot be known any more (`Homes`): this
  is `MainInvariant` without its premise that the values are not nil, as an empty
  node keeps its key and its place in the chain;
* the array part holds values of integer keys the program uses (`Numbered`).

`luaH_newkey` has a lemma for each of its three cases (`PlaceTaken`, `OtherMoved`,
`BehindOther`), each with the new ranks of the chains; in the second the node
before the colliding one has to be found (`previous`). A rehash inserts the
entries one by one, and `ReinsertAll` is a function on the interval of their
numbers (`ResizeGood`); what `computesizes` comes to is a number, and the size of
the node vector a power of two (`Sizes`, `CeilLog2`).

For the length, `Halving` shows that the binary search ends with a border, having
halved the interval at least as often as needed, and `SomeAbsent` that
`unbound_search` meets an absent key: a table has no more keys than entries, by a
map from keys to entries (`UnboundSearch`).

`MapImplemented`: until a rehash gets no memory, LuaTable implements LuaMap
(`ImplementsMapInMemory`), for any number of keys, however they collide and
wherever the collector comes in between. What is needed on top of `IInv`
(`Intact`, of a table to which no failure of memory has happened):

* a search from the main position of the key of a node ends at that node, although
  it stops at a dead key that had the same address, too (`Hung`); so no key is
  twice in the table;
* a node is the next one of one other at most, and a free node has no next one
  (`Single`): otherwise `luaH_newkey`, when it moves the colliding node, would cut
  a chain of somebody else;
* an integer key has its field in the array part or in a node, never in both
  (`Apart`);
* the collectable keys of nodes are objects that exist (`Collectable`), objects
  have different addresses (`Distinct`), and the key of the traversal is found at
  its entry, or at the dead key that entry has now (`At`).

`NewKeyRight` shows that the three cases of `luaH_newkey` keep this and lose no
entry, by what `Moved` says of the chain from each node before and after.
`RehashRight` shows that a rehash keeps every field: the keys that go to the hash
part (`Kept`) are no more than the size that `rehash` computes for it
(`KeptFits`), and as long as few keys come in, `getfreepos` finds a node for each
(`Room`: with no node free, the nodes would have more keys than there are). So no
rehash is needed within a rehash. `RemovedRight` is about the collector: a key
that becomes a dead key hides no other key, for objects in use have different
addresses, and an object that gets the address later is put into the chain before
the dead key (in the main position, or right behind a key that is not dead, as
`NewKeyRight` shows). `Given` shows that
`luaH_next` gives the first of the fields that are left, in the order of the
entries, which an assignment to a field that exists does not change
(`SetInPlace`).

### Weak tables (`LuaWeak_proofs`)

`WeakNothingLost` (`NothingLost`) and `WeakEntriesAsPromised`
(`EntriesAsPromised`): for any finite sets of tables and strings, any modes, any
objects with finalizers, any first heap and order of nodes, and however often the
program moves references while the collector marks. The assumption on the
constants (`WeakAssumption`) says that tables, strings and the marks of empty, dead
and absent nodes are different things, that the array part is visited first, and
that a heap has a node for each table and key.

Neither property says anything before the collection is over; what they need is
the invariant `WeakInv`:

* while the program runs (`PropagateInv`), a marked table that waits in neither
  `gray` nor `grayagain` is all-weak and in `allweak`, or strong and black, and
  then its keys and values are marked, also those under nodes it has emptied: the
  barrier of `lua_rawset` (`Barrier`), and the reason why weak tables stay gray and
  are visited again;
* in `atomic` (`AtomicInv`) such a table is in the list from which it will be
  cleared, or nothing in it has to be: a table with weak values is in `weak` or its
  values stay; an ephemeron is in `allweak`, or all of it is marked, or it waits
  in `next`, or it is in `ephemeron` and, if no value has been marked in this round
  of `convergeephemerons`, has marked values for marked keys (`Settled`). So when a
  round changes nothing, what is marked leads only to what is marked (`Leads`),
  and this is what the manual calls accessible;
* the nodes are those of the beginning of `atomic`, but for values that only a
  finalizer can see, and which are cleared before finalizers run (`NodesInv`);
* which tables are in which list (`ListsInv`), and that the parts of `weak` and
  `allweak` which were cleared before the finalizers are their ends, and hold just
  tables that were marked then (`StrongInv`): so `clearvalues` up to `origweak`
  clears the resurrected ones and no other has to be cleared again.

A visit goes through the nodes of a table and marks as it goes, and what it marks
may be what another node of the same table waits for. `Later` says what a visit
may do to the rest: it marks more, puts the tables it marks into `gray`, and makes
empty nodes dead. Each kind of table has a lemma about one node, which the
lemmas about `Visit` carry through the table (`Inductively`). Clearing
(`Cleared`, `Gone`) is the hard part, as `clearkeys` and `clearvalues` mark strings
while they go on; nothing is assumed about how often a table is in a list.

### table.sort (`LuaRuntime_proofs`)

`Sorts`: for arrays of any size, whatever pivots `choosePivot` comes to and
whatever the order function answers, `SortRight` holds. The assumption on the
constants (`SortAssumption`) says that sizes are natural numbers and ranks
integers; an order is any assignment of ranks to the elements, so that several
may be equal. The invariant `SortInv` adds

* where `i`, `j` and the pivot are at each step of `partition` (`Places`); if the
  answers come from no order, it is the tests for "invalid order function" that
  keep them inside;
* that what `i` has passed is not greater than the pivot, and what `j` has passed
  not less, if the answers come from an order (`Divided`); so `i` and `j` stop at
  the ends of the interval at the latest, and no test fails;
* that two elements which are not together in one of the intervals still to be
  sorted are in their final order (`Ordered`);
* that these intervals, those of the waiting activations and the one at hand, have
  no place in common, and that each activation has called for less than half of
  what the one before called for (`Nested`), from which the bound by the logarithm
  follows. Powers of two are counted as sets of subsets (`PowerOfTwo`), for want
  of induction.

A step only moves elements within the interval at hand (`Swapped`,
`StillOrdered`), which therefore stays in order with the rest; `SplitKeeps` is
where two smaller intervals take its place, and `ReturnKeeps` where one is done.

## What is only model-checked

Liveness of the collector (`GarbageIsFreed`, `LostIsFinalized`): TLAPS has no
rules for fairness that these need. What else has no theorem computes with
recursion over data, for which an induction is needed that the provers cannot do:
`LuaCode`, `LuaParser`, `LuaVM`, `LuaMeaning`, `LuaPattern`, `LuaNumber`,
`LuaText`, `LuaLex`, `LuaPack` and `LuaDump` are recursive throughout, and are
compared with their reference definitions by TLC alone (`AssertionsHold`,
`RunsAsMeant`, `CodeIsSound`, `PatternsRight`, `AnswersRight`).

## What is not modelled

Listed with its reason for each component in `PROJECT.json`. In short:

* the growth of the stack (ldo.c) and the debt (`luaE_setdebt`, lgc.c): models
  have stacks without a size, and a collector that may run at any allocation,
  which is every pace there is;
* metamethods in the virtual machine (`luaV_finishget`, `luaT_trybinTM`,
  `luaV_finishOp`) and the cache of absent ones in `flags`: LuaVM has values
  without metatables. Whether a metamethod may yield is in LuaDo;
* the text of numbers and of errors, `string.format`, line information and
  symbolic execution (ldebug.c);
* thin wrappers over the C library or the API (loslib.c, liolib.c, lmathlib.c,
  lbaselib.c, lauxlib.c), the search of loadlib.c through the file system, the
  command lines, the IDE and everything else that is third-party.

lstrlib.c does not compile as it stands (line 230 names a member
`GTokenizeState` does not have); what is modelled of it is the rest.

## Plan

1. `LuaTM`: the cache of absent metamethods and the chain of `__index` and
   `__newindex`, then metatables in LuaVM and `luaV_finishOp` with LuaDo's yields.
2. `LuaStack` (ldo.c, growth of the stack, overflow and shrinking), `LuaDebt`
   (pace of the collector).

## Findings

1. `gc_backlog`. `luaC_step` calls a few finalizers after each piece of work in any state but
`GCSpause`. In `GCSswptobefnz` the sweep may stand in the middle of `tobefnz`,
`sweepgc` pointing to the field `next` of an object. If that object is
finalized, `udata2finalize` links it at the head of `allgc`; `sweepgc` goes with
it and the rest of `tobefnz` is not swept. Objects are black at the end of the
cycle, against lgc.h:57. In the next cycle they count as visited, and what only
they refer to is freed. Only more than `GCSWEEPMAX` objects waiting for their
finalizers make it possible.

2. `table_memory`. `luaH_resize` makes the array part larger before it allocates
the new hash part. If there is no memory for that, the assignment fails, and
integer keys in the hash part that now belong to the array part are not found
any more: the failed assignment has removed other fields, and a traversal comes
back to their keys for ever.

3. `compile_label`. `test_then_block` takes an `if` block that starts with a goto
for a conditional jump. It reads the labels behind the goto
(`skipnoopstat`) before it emits the jump over the rest of the block, so that
the labels are in front of that jump: a goto to one of them skips what follows
it. In `if c then goto l ::l:: f() end` the function is never called. The runs
of all other programs avoid labels of the block itself at this place.

## Disagreements

Places where the code does not do what a comment or the manual says, or where
two parts of it do not agree, met while modelling. They are outside the worlds
of the runs, or stated by definitions no run checks.

* Metamethods called from hooks. `luaT_callTM` takes a metamethod to be called
  from Lua code when `L->ci` is a Lua frame. While a hook runs it is one, the
  frame the hook interrupted. A metamethod that a hook written in C sets off may
  therefore yield, against ltm.c:152, and its yield drops the hook before it can
  switch hooks on again. `LuaDo!MetamethodsYieldInLua` states the comment; it
  fails with `Uses` that has "hooks" and "metamethods in hooks".
* Pieces of input. `zlookc` (llex.c) takes the last unread byte of a piece for a
  byte already read. When a piece ends before the second byte of a Cyrillic
  letter in a number or an escape, bytes are lost, or the byte behind the piece
  is used. `LuaZio!Faithful` states that they are not.
* Stale keys. `clearkeys` and `clearvalues` (lgc.c:645, 668) skip entries whose
  value is nil already, and all-weak tables are not traversed before: a node of
  such a table keeps the address of a key that is freed
  (`LuaWeak!NoStaleKey` states that no node does). Lookups compare addresses of
  live keys with it, and its value is nil, so no property above suffers.
* `lua_upvaluejoin` (lapi.c:1291-1294) lets the old upvalue go before it counts
  the new one. If a function joins its own closed upvalue with itself and has the
  only reference, the upvalue is freed and then used.
  `LuaUpval!UpvalueJoin` leaves just this call out.
* Numeric loops (lvm.c:135-154). With a negative integer step, a limit that is
  NaN becomes the least integer and the loop goes down to it, while the comment
  at lvm.c:122-133 speaks of preserving the semantics of the loop, in which no
  value compares with NaN. With a step of 0 the limit out of range stops the loop
  or not by its sign.
* bit32 (lbitlib.c). `b_shift` by the least integer negates it, and
  `fieldargs` adds field and width before it compares the sum: both overflow.
* `log_2[i] = ceil(log2(i - 1))` (lobject.c:66) should read `i + 1`.
* `string.gmatch` (lstrlib.c:1141) keeps its `MatchState`. After an error raised
  within a match `matchdepth` stays short, against the `lua_assert` in
  `reprepstate`, and the same iterator may refuse the next match.
* `string.pack` (lstrlib.c:1731-1733): 'X' "always gets its full alignment", says
  the comment; the code limits it like the others. `unpack` of 'z' without a
  final zero succeeds, and the position it returns is behind the end of the string.
  For 's' (lstrlib.c:1987-1988) the length is added to the size before it is
  compared; what gets through is refused by `luaS_newlstr` only.
* Numerals (llex.c:366-392). For hexadecimal ones the set of exponent marks is
  given to `check_next2` as five bytes, which begin with those of a Cyrillic
  letter and end with 'p'; it compares the first two (against its own
  `lua_assert`), so that `0x1p4` is the numeral `0x1` and the name `p4`. Of the
  hexadecimal digits in Cyrillic letters only А is read as what it stands for by
  `lisxdigit_cyr` (345-359), which counts downwards from 'a', and Е because it is
  taken for an exponent mark; the numeral is malformed with any of the others.
* The byte 226 that does not begin the sign № (llex.c:697-707) falls through to
  the case of digits, and so begins a numeral. A lone `!` is the token `~`
  (llex.c:673-677).
