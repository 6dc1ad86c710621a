\* Violation: the position to be replaced counts against its replacement.
CONSTANTS
    Worlds <- MCWorlds
    Wait = 4
    Grace = 3
    Cooldown = 4
    Timeout = 2
    Gaps = {1, 2}
    MaxTime = 7
    MaxDay = 2
    Budgets = {30, 38}
    Cash = {0, 40}
    Loose = {0}
    Worth = {40}
    Committed = {60}
    PoolCap = 100
    ExposureCap = 100
    Depth = 80
    Impact = 60
    Tranche = 40
    Parts = 4
    Tolerance = 16
    Acquire = 32
    Rounds = 3
    Retries = 2
    MaxMoves = 2
SPECIFICATION RulesSpec
PROPERTIES RecenterAdmitted
CHECK_DEADLOCK FALSE
