CONSTANTS
    t1 = t1
    t2 = t2
    Small = Small
    Large = Large
    NoThread = NoThread
    Callers = {t1, t2}
    Sizes <- MCSizes
    Share <- MCShare
    Samples = 2
    BlockDivisor = 1
    MaxBlocks = 2
SPECIFICATION MemoryFairSpec
INVARIANTS PopFindsBlock
PROPERTY CallsReturn
