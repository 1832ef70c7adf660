SPECIFICATION Spec
CONSTANTS
    PatternBytes <- MCPatternBytes
    MaxPattern = 4
    TextBytes <- MCTextBytes
    MaxText = 3
    UrlBytes <- MCUrlBytes
INVARIANTS
    EveryCutMeansLike
CHECK_DEADLOCK FALSE
