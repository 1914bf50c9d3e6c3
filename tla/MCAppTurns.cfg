CONSTANTS
    MaxJobs = 2
    MaxSessions = 2
SPECIFICATION Spec
INVARIANTS
    TypeOK
    JobsBelongToSession
    CompactsAlone
PROPERTIES
    NewSessionEnds
\* A behaviour ends when its jobs and sessions have ended.
CHECK_DEADLOCK FALSE
