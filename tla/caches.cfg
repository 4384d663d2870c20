SPECIFICATION FairSpec
CONSTANTS
    Goroutines = {g1, g2}
    Nobody = nobody
    None = none
    Check = check
    Kids = {k1}
    OtherKids = {e1}
    CheckTTL = 1
    KeyTTL = 1
INVARIANT TypeOK
PROPERTIES
    ReadinessIsRecent
    KeysFollowProvider
    ChecksAreSpaced
    EveryRequestIsAnswered
