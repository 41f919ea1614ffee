SPECIFICATION FairSpec
CONSTANTS
    p1 = p1
    p2 = p2
    Player = {p1, p2}
    class <- MCclass
    MaxLevel <- MCMaxLevel
    MaxSpoilt = 2
    BerserkLevel = 1
INVARIANTS
    Balanced
PROPERTIES
    NotPutOff
    EffectsEnd
