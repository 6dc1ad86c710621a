\* Violation: a book of nothing but empty positions hides a live NFT.
SPECIFICATION Spec
CONSTANTS
    Symbols = {sa, sb}
    NoSymbol = NoSymbol
    MaxTokens = 2
    CandidateLimit = 1
SYMMETRY SymbolSymmetry
PROPERTIES UnprovenRefused
