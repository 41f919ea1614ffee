------------------------------- MODULE MCPurse -------------------------------
(* Players are alike, and so are the places on the floor.                   *)
EXTENDS Purse, TLC

Symmetry == Permutations(Ply) \cup Permutations(Heap)
=============================================================================
