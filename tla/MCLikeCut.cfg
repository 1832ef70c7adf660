SPECIFICATION Spec
CONSTANTS
    PatternBytes <- MCPatternBytes
    MaxPattern = 6
    TextBytes <- MCTextBytes
    MaxText = 3
    UrlBytes <- MCUrlBytes
INVARIANTS
    CutMeansLike
    UnderscoresAreRefused
    RegexMeansLike
    UrlKeepsPattern
CHECK_DEADLOCK FALSE
