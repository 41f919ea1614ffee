SPECIFICATION Spec
CONSTANTS
    p1 = p1
    p2 = p2
    mon = mon
    scroll = scroll
    ring = ring
    bag = bag
    Nil = Nil
    Player = {p1, p2}
    Mon = mon
    Thing = {scroll, ring, bag}
    Box = {bag}
    Scroll = {scroll}
    Slot = {"wield", "held", "neck"}
    wearflag <- Wearflag
    Cap = 2
SYMMETRY Symmetry
INVARIANTS
    OnePlace
    ParentSound
    BoxCount
    NoLeak
    FilesFollow
PROPERTY QuitKeepsAll
CHECK_DEADLOCK FALSE
