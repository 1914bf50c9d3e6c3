CONSTANTS
    MaxCalls = 2
    Argvs <- MCArgvs
    Allowlist <- MCAllowlist
    Shells = {"sh"}
    FieldsOf <- MCFieldsOf
    Settings <- MCSettings
    MaxSessions = 2
    MaxKills = 1
SPECIFICATION Spec
INVARIANTS
    TypeOK
    NothingRunsUnapproved
    ClearedStaysCleared
    GrantsAreRecorded
PROPERTIES
    AnswersReturn
\* A behaviour ends when its calls have returned.
CHECK_DEADLOCK FALSE
