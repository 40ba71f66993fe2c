CONSTANTS
    put = put
    get = get
    x = x
    UIDs <- MCUIDs
    Resources <- MCResources
    Args <- WriterAndReader
    LockValidity = 2
    MaxDeleteList = 1
    Lockers = {l1, l2, l3}
    MaxAttempts = 2
    Retriers = {get}
    FaultKinds = {}
    MaxFaults = 0
    Clock = TRUE
    Timely = TRUE
SPECIFICATION Spec
SYMMETRY LockerSymmetry
INVARIANT Exclusive
