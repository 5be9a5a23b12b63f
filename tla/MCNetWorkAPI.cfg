CONSTANTS
    o1 = o1
    o2 = o2
    p1 = p1
    p2 = p2
    Objects = {o1, o2}
    Ports = {p1, p2}
    UserCounts = {1}
    Spare = 1
    Modulus = 3
    WorkThreads = 2
    MaxSockets = 3
    MaxInits = 2
    MaxAccepts = 2
    MaxPackets = 1
SPECIFICATION FairSpec
INVARIANTS CrashNeedsRisk ThreadsGone WinsockPaired
PROPERTY CallsReturn
CHECK_DEADLOCK FALSE
