SPECIFICATION FairSpec
CONSTANTS
    Fd = {1, 2, 3, 4, 5}
    MaxPlayers = 1
    Tablesize = 4
    Lockouts = TRUE
    Local = TRUE
INVARIANTS
    TypeOK
    SlotCountExact
    QueueSound
    SlotDebt
PROPERTIES
    QueueFair
    ImplementsSlots
    SlotOffered
