CONSTANTS
    Names = {"a", "b", "c"}
    Updates <- SomeUpdates
    Rows = 2
    LastIndex = 3
    Visible_Time = 0
    MaxPushes = 3
    MaxUpdates = 2
SPECIFICATION FairSpec
INVARIANTS CrashNeedsRisk ShowsOpenRequests UIBalanced
PROPERTIES ResultGoes PlayEndTold
CHECK_DEADLOCK FALSE
