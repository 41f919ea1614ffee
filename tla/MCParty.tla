------------------------------- MODULE MCParty -------------------------------
(* Three players, of whom two are dungeon masters, and a monster.           *)
EXTENDS Party, TLC

CONSTANTS p1, p2, p3

Symmetry == Permutations({p1, p2}) \cup Permutations(Room)

=============================================================================
