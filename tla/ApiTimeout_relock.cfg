CONSTANTS
    Req = {r1, r2}
    Timer = Timer
    Nobody = Nobody
    Conn = {c1}
    NoConn = NoConn
    Timeout = 2
    Setting <- HangSetting
SPECIFICATION FairSpec
CHECK_DEADLOCK FALSE
INVARIANT CallHoldsLock
