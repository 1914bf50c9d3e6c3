CONSTANTS
    MaxAttempts = 4
    Indexes = {0, 1}
    MaxBlock = 2
    MaxStream = 2
    MaxWire = 4
SPECIFICATION Spec
INVARIANTS
    TypeOK
    EventsNest
PROPERTIES
    ImplementsPromise
    CancelledReturns
\* A behaviour ends when Stream has returned.
CHECK_DEADLOCK FALSE
