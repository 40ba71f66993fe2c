CONSTANTS
    N = 4
    DefaultParities = {0, 2}
    Parities = {0, 2}
    FaultKinds = {"wipe", "rot", "rename"}
    MaxDown = 1
    MaxPuts = 2
    MaxTags = 0
    MaxDeletes = 1
    MaxTorn = 1
    MaxFaults = 2
    MaxTicks = 0
SPECIFICATION Spec
CHECK_DEADLOCK FALSE
INVARIANTS TypeOK FoundIsCurrent AvailableWithinParity
PROPERTY KeepsIntact
