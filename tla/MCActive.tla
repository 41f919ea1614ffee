------------------------------- MODULE MCActive -------------------------------
(* Active with named players and rooms.                                     *)
EXTENDS Active

CONSTANTS p1, p2, r1, r2, r3

=============================================================================
