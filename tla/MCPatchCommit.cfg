SPECIFICATION Spec
CONSTANTS
    Paths = {a, b, c}
    MaxChanges = 2
    MaxFaults = 2
    MaxEdits = 1
SYMMETRY Symmetry
INVARIANTS
    TypeOK
    AllOrNothing
    NothingLost
\* A patch has been applied or refused.
CHECK_DEADLOCK FALSE
