SPECIFICATION TextSpec
CONSTANTS
    Words = {x, y}
    MaxFile = 3
    MaxStart = 2
    MaxBody = 2
    MaxRelocation = 1
INVARIANTS
    ReadsWhatIsWritten
    AppliesWhereItSays
    ExactPatchApplies
\* A patch has been refused or placed.
CHECK_DEADLOCK FALSE
