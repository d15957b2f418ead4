SPECIFICATION FairSpec
CONSTANTS
    Keys = {k1, k2}
    RootKey = root
    Size = 1
    TTL = 1
    BatchSize = 2
    MaxSpans = 4
    MaxTime = 3
INVARIANTS EdgesCounted PairsJoined
PROPERTIES CallsImplemented EdgesFlushed
CHECK_DEADLOCK FALSE
