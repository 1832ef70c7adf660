SPECIFICATION Spec
CONSTANTS
    NumThreads = 3
    BatchSize = 2
    N = 7
    Matches <- MCMatches
INVARIANTS
    ClaimsAreDisjoint
    NoneLost
    CountIsRight
PROPERTIES
    Terminates
    CountsMatches
CHECK_DEADLOCK FALSE
