SPECIFICATION Spec
CONSTANTS
    Bytes <- MCBytes
    Outside <- MCBytes
    Parsers <- MCParsers
    Input <- MCInput
    Error <- MCError
    AcceptBase <- MCAcceptBase
    NoEnd <- MCNoEnd
    LevelRange <- Wide
INVARIANTS
    ForwardPartInside
    ReadsNearby
    ReturnsVerdict
PROPERTIES
    Returns
CHECK_DEADLOCK FALSE
