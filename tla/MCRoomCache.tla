----------------------------- MODULE MCRoomCache -----------------------------
(* RoomCache on a few rooms.                                               *)
EXTENDS RoomCache, TLC

CONSTANTS r1, r2, r3, r4, r5, p1, p2

\* Players are alike, and so are the ordinary rooms.
Symmetry == Permutations({r3, r4, r5}) \cup Permutations({p1, p2})

=============================================================================
