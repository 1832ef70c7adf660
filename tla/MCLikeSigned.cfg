SPECIFICATION Spec
CONSTANTS
    Patterns <- SignedPatterns
    Texts <- SignedTexts
    Block = 4
    MaxShort = 3
INVARIANTS
    MatchesLike
CHECK_DEADLOCK FALSE
