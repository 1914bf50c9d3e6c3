CONSTANTS
    MinTurns = 3
    KeepTurns = 1
    MaxRecords = 10
    MaxBlocks = 2
    MaxRounds = 1
    MaxThoughts = 1
    MaxKills = 1
SPECIFICATION ReplaySpec
INVARIANTS
    ResumeRebuilds
    RecentKept
    RequestPaired
\* A behaviour ends when its records are used up.
CHECK_DEADLOCK FALSE
