CONSTANTS
    MaxOutput = 1
    SafetyCap = 4
    MaxWritten = 5
SPECIFICATION Spec
INVARIANTS
    TypeOK
    SuccessIsWhole
    TruncationReported
PROPERTIES
    CommandEnds
\* A behaviour ends with its command.
CHECK_DEADLOCK FALSE
