------------------------------- MODULE LuaMap -------------------------------
(***************************************************************************)
(* What a table promises: a map from keys to values, and traversals that   *)
(* give every field once, also when fields are changed or cleared between  *)
(* two steps of the traversal.  Absent keys have the value "nil".          *)
(*                                                                         *)
(* LuaTable implements this module (LuaTable!ImplementsMap).               *)
(***************************************************************************)
CONSTANTS Key, Value

VARIABLES
  map,    \* [Key -> Value \cup {"nil"}]
  state,  \* "idle", or "traversing" while a traversal is under way,
  left    \* and the keys it has still to give

vars == <<map, state, left>>

Init ==
  /\ map = [k \in Key |-> "nil"]
  /\ state = "idle"
  /\ left = {}

\* During a traversal, only fields that exist may be assigned to.
Assign(k, v) ==
  /\ state = "traversing" => map[k] # "nil"
  /\ map' = [map EXCEPT ![k] = v]
  /\ left' = IF v = "nil" THEN left \ {k} ELSE left
  /\ UNCHANGED state

Start ==
  /\ state = "idle"
  /\ state' = "traversing"
  /\ left' = {k \in Key : map[k] # "nil"}
  /\ UNCHANGED map

Give(k) ==
  /\ k \in left
  /\ left' = left \ {k}
  /\ UNCHANGED <<map, state>>

End ==
  /\ state = "traversing"
  /\ left = {}
  /\ state' = "idle"
  /\ UNCHANGED <<map, left>>

\* The program leaves its loop.
Break ==
  /\ state = "traversing"
  /\ state' = "idle"
  /\ left' = {}
  /\ UNCHANGED map

Next ==
  \/ \E k \in Key, v \in Value \cup {"nil"} : Assign(k, v)
  \/ Start
  \/ \E k \in Key : Give(k)
  \/ End
  \/ Break

Spec == Init /\ [][Next]_vars
=============================================================================
