CONSTANTS
    get = get
    put1 = put1
    put2 = put2
    delete = delete
    bulk = bulk
    up1 = up1
    n1 = n1
    n2 = n2
    Pools = {0, 1}
    Requests = {get, put1, put2, delete, up1}
    Kind <- MCKind
    Lockers <- SameNodes
    MaxWrites = 4
    MaxErrors = 1
SPECIFICATION Spec
SYMMETRY PutSymmetry
CHECK_DEADLOCK FALSE
INVARIANTS ServesLatest OnePool
