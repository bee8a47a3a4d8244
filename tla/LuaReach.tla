------------------------------ MODULE LuaReach ------------------------------
(***************************************************************************)
(* Reachability in the graph of collectable objects.  The mark phase of    *)
(* lgc.c computes the least set that contains the roots and every object a *)
(* member refers to; Reach is that set, stated without recursion as the    *)
(* intersection of the sets that are closed under the references.          *)
(***************************************************************************)

\* The subsets of Obj that contain S and everything a member refers to.
ClosedSets(Obj, S, succ) ==
  {T \in SUBSET Obj : S \subseteq T /\ \A o \in T : succ[o] \subseteq T}

\* What is reachable from S along succ.
Reach(Obj, S, succ) ==
  LET closed == ClosedSets(Obj, S, succ)
  IN  {o \in Obj : \A T \in closed : o \in T}
=============================================================================
