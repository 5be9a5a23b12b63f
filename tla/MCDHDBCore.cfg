CONSTANTS
    u1 = u1
    u2 = u2
    Users = {u1, u2}
    Nobody = Nobody
    MaxFaults = 2
SPECIFICATION Spec
SYMMETRY UserSymmetry
INVARIANTS Paired AnswerIsTrue
PROPERTY ImplementsFriendship
