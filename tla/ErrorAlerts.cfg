SPECIFICATION Spec
CONSTANTS
    p1 = p1 p2 = p2 mail = mail slack = slack hook = hook c1 = c1 c2 = c2
    Projects = {p1, p2}
    Groups = {g}
    Consumers = {c1, c2}
    Channels = {slack}
    Kind <- MCKind
    OnNew <- MCOnNew
    OnRecurring <- MCOnRecurring
    Bursts <- MCBursts
    Period = 1
    Delay = 1
    MaxTime = 3
    MaxBursts = 3
    MaxEvents = 3
    MaxChanges = 1
    None = None
SYMMETRY Symmetry
INVARIANTS RepeatsPassThreshold AnnouncedOnce
PROPERTY LifeImplemented
CHECK_DEADLOCK FALSE
