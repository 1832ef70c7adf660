SPECIFICATION Spec
CONSTANTS
    Groups <- CompiledGroups
    Orders <- MCOrders
    TextBytes <- MCTextBytes
    Bytes <- MCBytes
    Outside <- MCOutside
    Parsers <- MCParsers
    Input <- MCInput
    Error = 1
    AcceptBase = 2
    NoEnd <- MCNoEnd
    LevelRange = 65536
    Escape = 255
    Block = 2
INVARIANTS
    MatchesDecompressed
    FixedPartsFit
    LoadsNearby
    NeverTraps
    ReturnsVerdict
PROPERTIES
    Returns
CHECK_DEADLOCK FALSE
