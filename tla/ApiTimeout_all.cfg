CONSTANTS
    Req = {r1, r2}
    Timer = Timer
    Nobody = Nobody
    Conn = {c1, c2}
    NoConn = NoConn
    Timeout = 2
    Setting <- AllSettings
SPECIFICATION FairSpec
CHECK_DEADLOCK FALSE
INVARIANTS TypeOK LockOrder OneCallAtATime
PROPERTIES RequestsComplete LoneCallsEnd
