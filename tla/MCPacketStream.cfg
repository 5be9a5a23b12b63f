CONSTANTS
    HeaderSize = 2
    BufSize = 3
    MaxPacketSize = 7
    BodySizes = {0, 1, 3, 4}
    Types = {"typed", "none"}
    MaxPackets = 3
SPECIFICATION FairSpec
INVARIANTS IntactInOrder SafeNeverDropped
PROPERTIES AllReceived ImplementsChannel
CHECK_DEADLOCK FALSE
