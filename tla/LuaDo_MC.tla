------------------------------ MODULE LuaDo_MC ------------------------------
(* Small instances of LuaDo for TLC.                                       *)
EXTENDS LuaDo, TLC

Symmetry == Permutations(Thread \ {MainThread})
=============================================================================
