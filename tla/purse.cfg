SPECIFICATION Spec
CONSTANTS
    Ply = {p1, p2}
    Mon = {m1}
    Heap = {h1, h2}
    MaxGold = 3
    MinDeposit = 1
    DepositShare = 2
    TransferShare = 1
    LoanShare = 2
    MinLoan = 2
    MaxLoan = 2
    Limit = 2
    BalanceFee = 1
    SmallBalance = 1
    Tithe = 2
    Pittance = 1
SYMMETRY Symmetry
INVARIANTS
    DebtIsFlagged
    CrashMakesNone
PROPERTIES
    GoldConserved
