SPECIFICATION RCSpec
CONSTANTS
    r1 = r1
    r2 = r2
    r3 = r3
    r4 = r4
    r5 = r5
    p1 = p1
    p2 = p2
    Nil = Nil
    Freed = Freed
    Room = {r1, r2, r3, r4}
    Start = r1
    NoHome = {r2}
    Player = {p1}
    RQMAX = 2
    MaxFaults = 0
INVARIANTS
    HomeIsARoom
