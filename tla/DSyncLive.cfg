CONSTANTS
    put = put
    get = get
    x = x
    UIDs = {put}
    Resources <- MCResources
    Args <- OneWriter
    LockValidity = 1
    MaxDeleteList = 1
    Lockers = {l1, l2, l3}
    MaxAttempts = 1
    Retriers = {}
    FaultKinds = {"lock", "release", "drain", "refresh", "force", "restart", "admin", "crash"}
    MaxFaults = 1
    Clock = TRUE
    Timely = FALSE
SPECIFICATION FairSpec
PROPERTIES LossNoticed ResidueExpires
