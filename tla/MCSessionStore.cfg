CONSTANTS
    Recorders = {r1, r2}
    QueueCap = 2
    MaxEvents = 3
    MaxOpens = 3
SPECIFICATION Spec
INVARIANTS
    TypeOK
    Durable
PROPERTIES
    ImplementsLog
    CallersReturn
\* A behaviour ends when its stores have been opened and closed.
CHECK_DEADLOCK FALSE
