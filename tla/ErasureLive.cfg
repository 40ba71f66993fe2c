CONSTANTS
    N = 3
    DefaultParities = {1}
    Parities = {1}
    FaultKinds = {"wipe", "gone"}
    MaxDown = 1
    MaxPuts = 2
    MaxTags = 1
    MaxDeletes = 0
    MaxTorn = 1
    MaxFaults = 1
    MaxTicks = 1
SPECIFICATION FairSpec
CHECK_DEADLOCK FALSE
INVARIANT AvailableWithinParity
PROPERTY Converges
