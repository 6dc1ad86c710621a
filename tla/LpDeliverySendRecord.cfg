\* Violation: a broadcast can outlive its sender without any send record.
SPECIFICATION Spec
CONSTANTS
    Proc = {p1}
    Surface = {"cycle"}
    Action = {a}
    MaxNonce = 1
    MaxSteps = 1
    MaxSends = 1
    NoProc = NoProc
    NoDelivery = NoDelivery
INVARIANTS LandedIsRecorded
