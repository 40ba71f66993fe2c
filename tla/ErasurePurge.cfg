CONSTANTS
    N = 4
    DefaultParities = {2}
    Parities = {2}
    FaultKinds = {"wipe", "gone"}
    MaxDown = 0
    MaxPuts = 1
    MaxTags = 0
    MaxDeletes = 0
    MaxTorn = 0
    MaxFaults = 3
    MaxTicks = 1
SPECIFICATION Spec
CHECK_DEADLOCK FALSE
PROPERTY KeepsIntact
