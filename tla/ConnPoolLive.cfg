SPECIFICATION FairSpec
CONSTANTS
    Workers = {w1, w2, w3}
    Conns = {c1, c2, c3}
    NoConn = NoConn
    PoolSize = 1
    MaxIdleConns = 1
    MaxTimeouts = 0
PROPERTIES WaiterServed DialRecovers
CHECK_DEADLOCK FALSE
