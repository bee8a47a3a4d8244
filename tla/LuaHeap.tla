------------------------------ MODULE LuaHeap ------------------------------
(***************************************************************************)
(* What the garbage collector of lgc.c promises to the rest of the         *)
(* interpreter, without colours, phases, lists or barriers: a graph of     *)
(* objects that running code changes, in which memory is taken back only   *)
(* when nothing can reach it, and a finalizer runs once for each time it   *)
(* was asked for, only after its object became unreachable.                *)
(*                                                                         *)
(* LuaGC implements this module (LuaGC!ImplementsHeap).                    *)
(***************************************************************************)
EXTENDS Naturals, Sequences, FiniteSets, LuaReach

CONSTANTS
  Table, Userdata, String, Closure, Thread,   \* addresses, by type of object
  MainThread                                  \* the thread of luaL_newstate

Obj == Table \cup Userdata \cup String \cup Closure \cup Thread

VARIABLES
  status,   \* [Obj -> "free" | "plain" | "finalizable" | "pending"]
  refs,     \* [Obj -> SUBSET Obj]: what each object refers to
  roots,    \* SUBSET Table: the registry and the metatables of basic types
  cstack    \* Seq(Thread): MainThread, then the chain of resumed coroutines

vars == <<status, refs, roots, cstack>>

With(st) == {o \in Obj : status[o] \in st}

Running == cstack[Len(cstack)]

\* The threads that are running or wait for one they resumed.
Active == {cstack[i] : i \in 1 .. Len(cstack)}

\* What the program can reach, now or when a pending finalizer gets its object.
Accessible == Reach(Obj, Active \cup roots \cup With({"pending"}), refs)

\* What may be freed: not even an object with a finalizer can reach it.
Freeable ==
  With({"plain"})
    \ Reach(Obj, Active \cup roots \cup With({"finalizable", "pending"}), refs)

Init ==
  /\ status = [o \in Obj |-> IF o = MainThread THEN "plain" ELSE "free"]
  /\ refs = [o \in Obj |-> {}]
  /\ roots = {}
  /\ cstack = <<MainThread>>
-----------------------------------------------------------------------------
(* Running code.  It allocates, links and unlinks what it can reach.       *)

New(o) ==
  /\ status[o] = "free"
  /\ status' = [status EXCEPT ![o] = "plain"]
  /\ refs' = [refs EXCEPT ![Running] = @ \cup {o}]
  /\ UNCHANGED <<roots, cstack>>

\* The objects a step frees.
Freed == {o \in Obj : status[o] # "free" /\ status'[o] = "free"}

\* A reference is added to an accessible object, which may get a finalizer in
\* the same step.  An interned string may be referred to again as long as it
\* was not freed.  The code that links objects also does some of the sweeping.
Link(x, o) ==
  /\ refs' = [y \in Obj |-> IF y \in Freed THEN {}
                            ELSE IF y = x THEN refs[x] \cup {o} ELSE refs[y]]
  /\ \E fin \in {{}, {x}} :
        /\ fin \subseteq With({"plain"}) \cap (Table \cup Userdata)
        /\ status' = [y \in Obj |-> IF y \in Freed THEN "free"
                                    ELSE IF y \in fin THEN "finalizable"
                                    ELSE status[y]]
  /\ x \in Accessible
  /\ o \in Accessible \cup (String \ With({"free"}))
  /\ Freed \subseteq Freeable \ {o}
  /\ UNCHANGED <<roots, cstack>>

Unlink(x, o) ==
  /\ refs' = [refs EXCEPT ![x] = @ \ {o}]
  /\ x \in Accessible
  /\ UNCHANGED <<status, roots, cstack>>

Transfer(x, y, o) ==
  /\ o \in refs[x]
  /\ refs' = [refs EXCEPT ![x] = @ \ {o}, ![y] = @ \cup {o}]
  /\ {x, y} \subseteq Accessible
  /\ UNCHANGED <<status, roots, cstack>>

SetRoots ==
  /\ roots' \subseteq Table \cap Accessible
  /\ UNCHANGED <<status, refs, cstack>>

Resume(t) ==
  /\ t \in Accessible \ Active
  /\ cstack' = Append(cstack, t)
  /\ UNCHANGED <<status, refs, roots>>

Yield ==
  /\ Len(cstack) > 1
  /\ cstack' = SubSeq(cstack, 1, Len(cstack) - 1)
  /\ UNCHANGED <<status, refs, roots>>
-----------------------------------------------------------------------------
(* The collector.                                                          *)

\* Objects with a finalizer that the program can no longer reach are set
\* aside (S), and of what nothing can use any more some is freed.
Collect(S) ==
  /\ status' = [o \in Obj |-> IF o \in Freed THEN "free"
                              ELSE IF o \in S THEN "pending" ELSE status[o]]
  /\ refs' = [o \in Obj |-> IF o \in Freed THEN {} ELSE refs[o]]
  /\ S \subseteq With({"finalizable"}) \ Accessible
  /\ Freed \subseteq Freeable
  /\ UNCHANGED <<roots, cstack>>

\* The finalizer of o starts: it gets o as its argument.
Finalize(o) ==
  /\ status[o] = "pending"
  /\ status' = [status EXCEPT ![o] = "plain"]
  /\ refs' = [refs EXCEPT ![Running] = @ \cup {o}]
  /\ UNCHANGED <<roots, cstack>>

Next ==
  \/ \E o \in Obj : New(o) \/ Finalize(o)
  \/ \E x, o \in Obj : Link(x, o) \/ Unlink(x, o)
  \/ \E x, y, o \in Obj : Transfer(x, y, o)
  \/ SetRoots
  \/ \E t \in Thread : Resume(t)
  \/ Yield
  \/ \E S \in SUBSET Obj : Collect(S)

Spec == Init /\ [][Next]_vars
=============================================================================
