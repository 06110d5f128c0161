CONSTANTS
    Parts = {"hashtable"}
    Classes = 2
    NObjs = 3
    Units = 7
    Kept = 1
    Threads = {t1, t2}
    PoolUnits = 6
    MaxInstances = 2
    MaxHeld = 1
    Strings = {s1, s2}
    MinRes = 1
    Letters = {1, 2}
    MaxLength = 3
    Npos = 99
    CharLess <- CharOrder
    Values = {1, 2}
    Keyed = {1, 2, 3}
    Store = 15
    Fuels = {0, 1, 2, 4, 99}
    B = 2
    InitialMap = 2
    Counters = 3
    Faulty = {"erase inside a chain"}
    Entries = {1, 2, 3, 6, 7, 10}
    Primes <- PrimesSmall
    MaxEntries = 5
    MaxElements = 4
    MaxSize = 3
CHECK_DEADLOCK FALSE
SPECIFICATION Spec
CONSTRAINT Explored
VIEW View
SYMMETRY Symmetry
INVARIANT
    AssociationsIntact
