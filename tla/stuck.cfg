SPECIFICATION FairSpec
CONSTANTS
    w1 = w1  w2 = w2  p1 = p1  p2 = p2  brl = brl  usd = usd  r1 = r1  r2 = r2
    h1 = h1  h2 = h2  t1 = t1  t2 = t2
    None = None
    Nobody = Nobody
    Wallets = {w1, w2}
    Players = {p1, p2}
    Currencies = {brl, usd}
    Rounds = {r1}
    Keys = {"k1", "k2", "k3", "k4", "k5", "k6", "k7"}
    ExternalIds = {"e1", "e2", "e3", "e4", "e5", "e6", "e7", "e8"}
    Messages = {"m1", "m2"}
    MaxCents = 3
    Processes = {h1, t1}
    Handlers = {h1}
    Retriers = {t1}
    MaxRetries = 2
    BatchLimit = 2
    Openings <- OneWallet
    Requests <- RollbackOfLoss
PROPERTIES EveryPendingSettles
