SPECIFICATION Spec
CONSTANTS
    p1 = p1
    p2 = p2
    p3 = p3
    none = none
    MaxTags = 3
    Player = {p1, p2, p3}
    DM = {p1, p2}
    Monster = {m1}
    Room = {r1, r2}
SYMMETRY Symmetry
CHECK_DEADLOCK FALSE
INVARIANTS
    FollowAgrees
    WalkOnce
    OnePossessor
