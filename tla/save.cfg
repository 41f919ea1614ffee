SPECIFICATION Spec
CONSTANTS
    Ply = {"player"}
    Rom = {"room"}
    MaxVersion = 3
INVARIANTS
    CopyKept
    ReadsSaved
