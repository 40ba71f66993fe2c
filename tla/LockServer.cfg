CONSTANTS
    bulk = bulk
    put = put
    get1 = get1
    get2 = get2
    x = x
    y = y
    z = z
    UIDs <- MCUIDs
    Resources <- MCResources
    Args <- MCArgs
    LockValidity = 1
    MaxDeleteList = 3
    AdminPaths <- AdminClears
    MaxAttempts = 2
SPECIFICATION Spec
SYMMETRY GetSymmetry
INVARIANTS TypeOK WriterExcludesAll IndexSound
PROPERTIES SplitOnlyAtLimit RefreshRenews UnlockFreesTheRest
