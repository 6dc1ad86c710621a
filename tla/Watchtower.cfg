\* Both units, beside the five-minute cycle.
SPECIFICATION LiveSpec
CONSTANTS
    Positions = 2
    Cooldown = 1
    Units = {"monitor", "hard_exit"}
    CycleRuns = TRUE
    MaxDry = 1
INVARIANTS TypeOK
PROPERTIES LostLatchCostsOne DefendedEventually
