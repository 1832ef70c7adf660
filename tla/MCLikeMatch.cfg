SPECIFICATION Spec
CONSTANTS
    Groups <- MatchGroups
    Orders <- MCOrders
    TextBytes <- MCTextBytes
    Bytes <- MCBytes
    Outside <- MCOutside
    Parsers <- MCParsers
    Input <- MCInput
    Error = 1
    AcceptBase = 2
    NoEnd <- MCNoEnd
    LevelRange = 65536
INVARIANTS
    MatchesDecompressed
    SuffixBegins
    AcceptsAtEarliestEnd
    SkipsAtCodes
    AddsEachTransitionOnce
    TablesAreSound
CHECK_DEADLOCK FALSE
