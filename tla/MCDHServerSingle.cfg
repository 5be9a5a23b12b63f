CONSTANTS
    s1 = s1
    s2 = s2
    w1 = w1
    App = App
    Sender = Sender
    Nobody = Nobody
    Slots = {s1, s2}
    Workers = {w1}
    MAX_USER_COUNT = 1
    BatchSize = 2
    MaxConnections = 2
    MaxSends = 0
    AppDisconnects = FALSE
SPECIFICATION FairSpec
INVARIANTS TypeOK UserLimit
PROPERTIES SlotRecycled EndReturns
