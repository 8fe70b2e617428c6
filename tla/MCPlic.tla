------------------------------- MODULE MCPlic -------------------------------
(***************************************************************************)
(* PlicHandlers for TLC: nothing tells one context from another.           *)
(***************************************************************************)
EXTENDS PlicHandlers, TLC

ContextSymmetry == Permutations(CONTEXTS)
=============================================================================
