CONSTANTS
    c1 = c1
    c2 = c2
    Clients = {c1, c2}
    Requests <- MCRequests
    Stems <- MCStems
    Stem <- MCStem
    Lines <- MCLines
    Trained <- MCTrained
    Earlier <- MCEarlier
    Chunk = 2
    Backlog = 1
    MaxRequests = 2
    MaxFaults = 1
    MaxKills = 1
SPECIFICATION Spec
INVARIANTS
    AnsweredFilesHold
    StoredColumnReadsBack
    TablesAreWhole
    AnswersOwnProgram
    AnswersOnce
PROPERTIES
    RequestsAreAnswered
\* The server waits for a connection when no request is left.
CHECK_DEADLOCK FALSE
