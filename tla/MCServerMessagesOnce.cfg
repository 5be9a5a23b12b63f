CONSTANTS
    s1 = s1
    s2 = s2
    s3 = s3
    Slots = {s1, s2, s3}
    Hash <- HashThree
    BucketCounts <- Counts
    MaxClients = 3
    MaxCalls = 1
SPECIFICATION Spec
INVARIANT BroadcastOnce
