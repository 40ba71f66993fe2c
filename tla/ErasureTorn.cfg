CONSTANTS
    N = 4
    DefaultParities = {2}
    Parities = {2}
    FaultKinds = {}
    MaxDown = 1
    MaxPuts = 2
    MaxTags = 0
    MaxDeletes = 0
    MaxTorn = 1
    MaxFaults = 0
    MaxTicks = 0
SPECIFICATION Spec
CHECK_DEADLOCK FALSE
INVARIANT MissingIsDeleted
