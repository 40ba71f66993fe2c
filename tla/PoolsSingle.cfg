CONSTANTS
    get = get
    put1 = put1
    put2 = put2
    delete = delete
    bulk = bulk
    up1 = up1
    n1 = n1
    n2 = n2
    Pools = {0}
    Requests = {get, put1, delete, bulk, up1}
    Kind <- MCKind
    Lockers <- SameNodes
    MaxWrites = 5
    MaxErrors = 1
SPECIFICATION Spec
CHECK_DEADLOCK FALSE
INVARIANTS TypeOK StreamIntact
