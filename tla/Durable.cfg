SPECIFICATION DurableSpec
CONSTANTS
    Proc = {p1, p2}
    Event = {e1, e2, e3}
    MaxTries = 2
    PageSize = 2
    Tampering = TRUE
    Genesis = Genesis
    Nobody = Nobody
    None = None
    Hash <- MCHash
    Symbols = {sa, sb}
    NoSymbol = NoSymbol
    MaxTokens = 2
    CandidateLimit = 1
    User = {p1, p2}
    Asset = {aa, ab}
    Twin = aa
    MaxShifts = 1
    NoPin = NoPin
    Wrong = Wrong
    NoFile = NoFile
    Blank = Blank
    Garbled = Garbled
SYMMETRY MCSymmetry
INVARIANTS DurableTypeOK ChainIntact PagedReadComplete OnePerPool FiledRowsNameTheirPool BoardHeals
PROPERTIES ImplementsLog StakedAreSeen
