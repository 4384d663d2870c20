SPECIFICATION FairSpec
CONSTANTS
    c1 = c1  c2 = c2  w1 = w1  w2 = w2
    None = None
    Nobody = Nobody
    Consumers = {c1, c2}
    Stoppable = {c1}
    Groups = {w1, w2}
    Keys = {"k1", "k2"}
    Payloads = {"bet", "other bet", "opening", "rollback loss"}
    Refused = {"opening"}
    Unsupported = {"rollback loss"}
    Queues <- SomeQueues
    MaxMessages = 2
    MaxReceives = 2
INVARIANTS TypeOK DeletedIsSettled GroupOrder
PROPERTIES EveryMessageLeaves
