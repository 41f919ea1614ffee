SPECIFICATION FairSpec
CONSTANTS
    Mon = {1, 2, 3}
    Player = {p1, p2}
    Room = {r1, r2, r3}
    Limbo = r2
    Nil = Nil
    Freed = Freed
    p1 = p1
    p2 = p2
    r1 = r1
    r2 = r2
    r3 = r3
INVARIANTS
    ActiveSound
    SeenIsActive
PROPERTIES
    PassEnds
