\* The scheduled cycle and the manual command, both under the execution lock.
SPECIFICATION LiveSpec
CONSTANTS
    Proc = {p1, p2}
    Surface = {"cycle", "lp"}
    Action = {a}
    MaxNonce = 1
    MaxSteps = 2
    MaxSends = 2
    NoProc = NoProc
    NoDelivery = NoDelivery
INVARIANTS TypeOK ReceiptRowUnique CompletedPrefix ReceiptHasSend
PROPERTIES ImplementsLedger LandedHealed
