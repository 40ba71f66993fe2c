CONSTANTS
    delete12 = delete12
    delete21 = delete21
    get1 = get1
    get2 = get2
    Callers <- MCCallers
    Paths = {1, 2}
    Args <- MCArgs
    Mutexes = {m1, m2, m3}
SPECIFICATION Spec
SYMMETRY MutexSymmetry
INVARIANTS TypeOK MapCountsUsers NoPanic SomeoneMoves
PROPERTY ImplementsRWLock
