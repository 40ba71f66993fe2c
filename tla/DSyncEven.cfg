CONSTANTS
    put = put
    get = get
    x = x
    UIDs <- MCUIDs
    Resources <- MCResources
    Args <- WriterAndReader
    LockValidity = 1
    MaxDeleteList = 1
    Lockers = {l1, l2, l3, l4}
    MaxAttempts = 1
    Retriers = {}
    FaultKinds = {"release"}
    MaxFaults = 2
    Clock = FALSE
    Timely = FALSE
SPECIFICATION Spec
SYMMETRY LockerSymmetry
INVARIANTS TypeOK UnlockFreesQuorum
PROPERTY ImplementsRWLock
