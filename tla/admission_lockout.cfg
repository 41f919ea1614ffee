SPECIFICATION Spec
CONSTANTS
    Fd = {1, 2, 3, 4}
    MaxPlayers = 1
    Tablesize = 8
    Lockouts = TRUE
    Local = FALSE
INVARIANTS
    SnapshotLive
