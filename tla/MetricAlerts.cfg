SPECIFICATION FairSpec
CONSTANTS
    m1 = m1
    m2 = m2
    s1 = s1
    s2 = s2
    Monitors = {m1}
    Series = {s1}
    MonitorOf <- OneMonitor
    Users = {u1}
    AlertIds = {1, 2}
    MaxEvents = 5
    MaxTime = 4
    NumPoints = 2
    Values = {0, 2}
    NaN = NaN
    MinValue = NaN
    MaxValue = 1
    CheckNumPoint = 2
    RemindAfter = 2
    ReuseFor = 2
    None = None
INVARIANTS HistoryLinear RemindersSpaced
PROPERTIES LifeImplemented PauseHolds EventsAnnounced
CONSTRAINT Calm
CHECK_DEADLOCK FALSE
