SPECIFICATION Spec
CONSTANTS
    Workers = {w1, w2, w3}
    Conns = {c1, c2, c3, c4}
    NoConn = NoConn
    PoolSize = 2
    MaxIdleConns = 1
    MaxTimeouts = 1
SYMMETRY Symmetry
INVARIANTS TypeOK TurnAccounting ConnsBounded ExclusiveUse NoCloseInUse NoSocketLeak FailFastIsWatched
CHECK_DEADLOCK FALSE
