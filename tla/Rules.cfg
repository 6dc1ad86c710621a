CONSTANTS
    Worlds <- MCWorlds
    Wait = 3
    Grace = 2
    Cooldown = 3
    Timeout = 2
    Gaps = {1, 2}
    MaxTime = 6
    MaxDay = 2
    Budgets = {38}
    Cash = {0, 40}
    Loose = {0}
    Worth = {40}
    Committed = {60}
    PoolCap = 100
    ExposureCap = 140
    Depth = 80
    Impact = 60
    Tranche = 40
    Parts = 4
    Tolerance = 16
    Acquire = 32
    Rounds = 3
    Retries = 2
    MaxMoves = 2
SPECIFICATION RulesSpec
INVARIANTS RulesTypeOK LossHaltHolds TraceAgrees LoopSettles
PROPERTIES OutOfRangeBounded ReentryGuarded StockUnwound PreflightHonoured
CHECK_DEADLOCK FALSE
