----------------------------- MODULE LuaThreads -----------------------------
(***************************************************************************)
(* What ldo.c promises to Lua programs about calls, errors and coroutines. *)
(* A coroutine is a stack of calls of its own.  Whatever C functions,      *)
(* continuations and long jumps lie beneath:                               *)
(*   - a call returns to its caller;                                       *)
(*   - an error ends the calls above the innermost protected call of its   *)
(*     coroutine and no others, or else the coroutine;                     *)
(*   - a yield suspends a coroutine with all its calls, and only when none *)
(*     of them must not be interrupted;                                    *)
(*   - a resumed coroutine goes on where it stopped, and control comes     *)
(*     back to the one that resumed it.                                    *)
(*                                                                         *)
(* LuaDo implements this module (LuaDo!ImplementsThreads).                 *)
(***************************************************************************)
EXTENDS Naturals, Sequences

CONSTANTS Thread, MainThread

VARIABLES
  calls,   \* [Thread -> Seq of calls]; [prot]ected, must not be interrupted
  state,   \* [Thread -> "suspended" | "active" | "finished" | "dead"]
  running, \* the thread that runs
  resumed  \* SUBSET (Thread \X Thread): <<t, u>> when t waits for u to come back

vars == <<calls, state, running, resumed>>

Call == [prot : BOOLEAN, noyield : BOOLEAN]

Init ==
  /\ calls = [t \in Thread |-> <<>>]
  /\ state = [t \in Thread |-> IF t = MainThread THEN "active" ELSE "suspended"]
  /\ running = MainThread
  /\ resumed = {}

Enter(c) ==
  /\ calls' = [calls EXCEPT ![running] = Append(@, c)]
  /\ UNCHANGED <<state, running, resumed>>

Return ==
  /\ calls[running] # <<>>
  /\ calls' = [calls EXCEPT ![running] = SubSeq(@, 1, Len(@) - 1)]
  /\ UNCHANGED <<state, running, resumed>>

\* Control goes back to the thread that resumed the running one.
Leave(st) ==
  /\ state' = [state EXCEPT ![running] = st]
  /\ \E t \in Thread :
       /\ <<t, running>> \in resumed
       /\ resumed' = resumed \ {<<t, running>>}
       /\ running' = t

Finish ==
  /\ calls[running] = <<>>
  /\ Leave("finished")
  /\ UNCHANGED calls

Protected(t) == {i \in DOMAIN calls[t] : calls[t][i].prot}

Error ==
  \/ \E i \in Protected(running) :
       /\ \A j \in Protected(running) : j <= i
       /\ calls' = [calls EXCEPT ![running] = SubSeq(@, 1, i - 1)]
       /\ UNCHANGED <<state, running, resumed>>
  \/ /\ Protected(running) = {}
     /\ calls' = [calls EXCEPT ![running] = <<>>]
     /\ Leave("dead")

Yield ==
  /\ \A i \in DOMAIN calls[running] : ~calls[running][i].noyield
  /\ Leave("suspended")
  /\ UNCHANGED calls

\* The function that yielded may be done (coroutine.yield is), or go on.
Resume(t) ==
  /\ state[t] = "suspended"
  /\ state' = [state EXCEPT ![t] = "active"]
  /\ running' = t
  /\ resumed' = resumed \cup {<<running, t>>}
  /\ IF calls[t] = <<>>
       THEN calls' = [calls EXCEPT ![t] = <<[prot |-> FALSE, noyield |-> FALSE]>>]
       ELSE \E n \in {Len(calls[t]) - 1, Len(calls[t])} :
              calls' = [calls EXCEPT ![t] = SubSeq(@, 1, n)]

\* A coroutine that is done gets another function to run.
Reuse(t) ==
  /\ state[t] = "finished"
  /\ state' = [state EXCEPT ![t] = "suspended"]
  /\ UNCHANGED <<calls, running, resumed>>

\* The main function of t could not be called.
Abort(t) ==
  /\ state[t] = "suspended"
  /\ calls[t] = <<>>
  /\ state' = [state EXCEPT ![t] = "dead"]
  /\ UNCHANGED <<calls, running, resumed>>

Next ==
  \/ \E c \in Call : Enter(c)
  \/ Return
  \/ Finish
  \/ Error
  \/ Yield
  \/ \E t \in Thread : Resume(t) \/ Reuse(t) \/ Abort(t)

Spec == Init /\ [][Next]_vars
=============================================================================
