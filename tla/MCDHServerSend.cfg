CONSTANTS
    s1 = s1
    w1 = w1
    w2 = w2
    App = App
    Sender = Sender
    Nobody = Nobody
    Slots = {s1}
    Workers = {w1, w2}
    MAX_USER_COUNT = 1
    BatchSize = 1
    MaxConnections = 2
    MaxSends = 1
    AppDisconnects = TRUE
SYMMETRY ServerSymmetry
SPECIFICATION Spec
INVARIANTS SendToClient DisconnectsConnected
CHECK_DEADLOCK FALSE
