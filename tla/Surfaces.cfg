\* A hard exit and a dry-run repair pass, neither of them under the lock;
\* two swap commands; two reads of the transport; two digest commands.
SPECIFICATION SurfaceSpec
CONSTANTS
    Proc = {p1, p2}
    Surface = {"watch", "dry"}
    Action = {a}
    MaxNonce = 1
    MaxSteps = 1
    MaxSends = 2
    NoProc = NoProc
    NoDelivery = NoDelivery
    Run = {r1, r2}
    Amounts = {0, 2, 4}
    MaxSwap = 3
    StandingCap = 3
    Prices = {8, 10}
    Slip = 1
    Purse = 4
    MaxOthers = 1
    Calls = 5
    MaxBatch = 3
    Attempts = 3
    Endpoints = 2
    Groups = 2
    Sender = {p1, p2}
    Window = 2
    DigestPage = 1
    DigestPages = 2
    Lag = 1
    MaxClock = 2
    MaxAppends = 3
    MaxMisread = 1
    Clean = Clean
    Unreadable = Unreadable
SYMMETRY ProcSymmetry
INVARIANTS SurfaceTypeOK ReceiptRowsTrue NoDoubleAct RunsTellTruth GroupAligned
INVARIANTS DigestSpaced DigestCovers
CHECK_DEADLOCK FALSE
