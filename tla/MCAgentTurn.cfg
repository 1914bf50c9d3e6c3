CONSTANTS
    CallIds = {i1, i2}
    NoId = noid
    ToolNames = {tool}
    UnknownNames = {ghost}
    MaxToolRounds = 2
    MaxRetries = 1
    MaxTurns = 2
    MaxBlocks = 3
SPECIFICATION Spec
INVARIANTS
    TypeOK
    WellFormed
    NothingUnanswered
    RecorderContract
PROPERTIES
    Grows
    CancelEndsTurn
\* A behaviour ends when its MaxTurns turns have ended.
CHECK_DEADLOCK FALSE
