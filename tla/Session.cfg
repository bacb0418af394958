SPECIFICATION LiveSession
CONSTANTS
    MaxConn = 2
    Conn <- MCConn
    Addr <- MCAddr
    Request <- MCRequest
    Client = {k1}
    MaxExecs = 2
    MaxRetries = 1
    Limits = {1, 2}
    MaxQueue = 1
    AuthRequired = TRUE
    None = None
INVARIANTS TypeOK WritesExclusive SlotsCounted AckedIsFlushed AnswersFit
PROPERTIES WaiterRuns ExecReturns
CHECK_DEADLOCK FALSE
