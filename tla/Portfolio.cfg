CONSTANTS
    Pool = {1, 2, 3, 4}
    Books <- MCBooks
    Scale = 20
    MaxPositions = 3
    MinPosition = 16
    MinFloor = 8
    Concentration = 7
    Activation = 100
    Band = 10
    Margin = 6
    TotalCap = 100
    Buffer = 8
    Slippage = 1
    EquityShare = 16
    PoolA = PoolA
    PoolB = PoolB
    PoolC = PoolC
    Board <- MCBoard
    MaxTracked = 2
    DustRoom = 2
    Nothing = Nothing
    Staked = {1, 2}
    ConvertAt = 2
    Retains = FALSE
    MaxYield = 3
    MaxDays = 2
    Tip = 5
    Clocks <- MCClocks
    Stakes <- MCStakes
    Drifts <- MCDrifts
    Anchored = 3
    Lookback = 4
    LogWindow = 4
    LogBound = 2
    NodeCap = 2
    EventBound = 4
    HeaderBound = 6
    HeaderBatch = 2
    HeaderTries = 2
SYMMETRY MCSymmetry
SPECIFICATION SuiteSpec
INVARIANTS PortfolioTypeOK PlannerNeverRaises TiersFit HistoryComplete DeadNeverCommanded ExitsCoolDown
PROPERTIES RewardsExplained
CHECK_DEADLOCK FALSE
