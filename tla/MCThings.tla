------------------------------- MODULE MCThings -------------------------------
(* Things with two players and a few objects: a scroll that can be wielded, *)
(* as three of the game's can, a ring, and a bag, which players hold.       *)
EXTENDS Things, TLC

CONSTANTS p1, p2, mon, scroll, ring, bag

\* Players are alike.
Symmetry == Permutations(Player)

Wearflag == [o \in Thing |-> CASE o = scroll -> "wield"
                               [] o = ring -> "neck"
                               [] o = bag -> "held"]

=============================================================================
