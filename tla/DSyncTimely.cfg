CONSTANTS
    put = put
    get = get
    x = x
    UIDs <- MCUIDs
    Resources <- MCResources
    Args <- TwoWriters
    LockValidity = 3
    MaxDeleteList = 1
    Lockers = {l1, l2, l3}
    MaxAttempts = 2
    Retriers = {put}
    FaultKinds = {"refresh"}
    MaxFaults = 1
    Clock = TRUE
    Timely = TRUE
SPECIFICATION Spec
SYMMETRY LockerSymmetry
INVARIANTS MutualExclusion Exclusive GrantsBacked
