\* Violation: a mint that lands late is labelled by a later, refused plan.
SPECIFICATION Spec
CONSTANTS
    Symbols = {sa, sb}
    NoSymbol = NoSymbol
    MaxTokens = 2
    CandidateLimit = 1
SYMMETRY SymbolSymmetry
INVARIANTS RowsNameTheirPool
