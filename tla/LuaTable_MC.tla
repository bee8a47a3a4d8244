----------------------------- MODULE LuaTable_MC -----------------------------
(* Small instances of LuaTable for TLC.                                    *)
EXTENDS LuaTable
CONSTANTS x, y
=============================================================================
