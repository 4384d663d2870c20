SPECIFICATION ReadersSpec
CONSTANTS
    w1 = w1
    w2 = w2
    Wallets = {w1, w2}
    MaxCents = 1
    None = None
    a1 = a1
    Auditors = {a1}
    l1 = l1
    Listers = {l1}
    Limits <- OneOrTwo
    Times <- TwoTimes
    EntryIds <- ThreeIds
    MaxAccepted = 3
INVARIANTS ReportsAgree
