CONSTANTS
    Drawings <- MCDrawings
    Automata <- MCAutomata
    Error = 1
    AcceptBase = 2
    NoEnd <- MCNoEnd
    LevelRange = 65536
SPECIFICATION Spec
INVARIANTS
    FullPatternIsDrawn
CHECK_DEADLOCK FALSE
