SPECIFICATION ConnectionSpec
CONSTANTS
    Lines <- MCLines
    ChunkSize = 3
    MaxBuffer = 10
    MaxLines = 3
    MaxFailures = 1
INVARIANTS
    ParsesGrammar
    AnswersInOrder
PROPERTIES
    LinesAnswered
CHECK_DEADLOCK FALSE
