CONSTANTS
    MaxTurns = 2
    MaxCalls = 2
    MaxItems = 5
    MaxInFlight = 2
    MaxDiffs = 1
    ViewH = 2
    Links = {FALSE, TRUE}
    Uses <- MCUses
SPECIFICATION Spec
INVARIANTS
    TypeOK
    CardsTell
PROPERTIES
    FinalStays
    ReaderKeepsPlace
