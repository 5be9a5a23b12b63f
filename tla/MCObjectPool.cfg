CONSTANTS
    t1 = t1
    t2 = t2
    Threads = {t1, t2}
    Sample_Obj_Count = 2
    GrowDivisor = 1
    MaxHeld = 2
SYMMETRY ThreadSymmetry
SPECIFICATION Spec
INVARIANTS ExclusiveUse NoneLost BoundedByDemand
CHECK_DEADLOCK FALSE
