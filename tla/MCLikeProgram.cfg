SPECIFICATION Spec
CONSTANTS
    Patterns <- MCPatterns
    Texts <- MCTexts
    Block = 4
    MaxShort = 3
INVARIANTS
    MatchesLike
    CallsAsGiven
    FirstOccurrence
    ReadsInside
    StaysInside
PROPERTIES
    Returns
CHECK_DEADLOCK FALSE
