CONSTANTS
    s1 = s1
    s2 = s2
    w1 = w1
    w2 = w2
    App = App
    Sender = Sender
    Nobody = Nobody
    Slots = {s1, s2}
    Workers = {w1, w2}
    MAX_USER_COUNT = 2
    BatchSize = 2
    MaxConnections = 2
    MaxSends = 0
    AppDisconnects = FALSE
SYMMETRY ServerSymmetry
SPECIFICATION Spec
INVARIANTS OneDriver DeleteFindsClient DiscardWindow RightClient CleanHandover
