------------------------------ MODULE LuaGC_MC ------------------------------
(* Small instances of LuaGC for TLC.                                       *)
EXTENDS LuaGC_Inv, TLC

Symmetry == Permutations(Table) \cup Permutations(Userdata)
=============================================================================
