CONSTANTS
    MaxJobs = 2
    MaxSessions = 2
SPECIFICATION Spec
INVARIANT SingleWriter
CHECK_DEADLOCK FALSE
