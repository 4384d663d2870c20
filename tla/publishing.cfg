SPECIFICATION FairSpec
CONSTANTS
    e1 = e1  e2 = e2  e3 = e3  p1 = p1  p2 = p2
    Nobody = Nobody
    Rows = {e1, e2}
    Publishers = {p1, p2}
    BatchSize = 2
    MaxAttempts = 2
    MaxDelay = 2
    MaxAge = 1
INVARIANTS TypeOK OneSender RepetitionNeedsInterruption
PROPERTIES ImplementsEventDelivery EveryRowSettles
CHECK_DEADLOCK FALSE
