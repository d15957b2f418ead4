SPECIFICATION FairSpec
CONSTANTS
    NumSpans = 3
    EventsOf <- Events
    BufferSize = 2
    BatchSize = 2
    MaxRetries = 1
    Procs = {w1, w2}
    None = None
INVARIANTS StoredOnce DataBeforeIndex
PROPERTIES SpansStored
CHECK_DEADLOCK FALSE
