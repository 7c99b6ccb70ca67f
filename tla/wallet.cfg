SPECIFICATION BaseSpec
CONSTANTS
    pool = pool  other = other
    MaxBlock = 5
    Modules = {pool, other}
    Switchable = {pool, other}
    LockDurations = {1, 3}
    InitMaxLock = 2
    LockRequests = {0, 1, 2, 3}
SYMMETRY ModuleSymmetry
INVARIANTS LockedModuleEnabled
PROPERTIES LockNeverShortened
