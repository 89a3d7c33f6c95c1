CONSTANTS
    k1 = k1
    k2 = k2
    r1 = r1
    a1 = a1
    p1 = p1
    p2 = p2
    f1 = f1
    Keys <- MCKeys
    Size <- MCSize
    bsize = 1
    Readers = {r1}
    Aheads = {a1}
    Procs = {p1, p2}
    ProcOf <- MCProcOf
    Files = {f1}
    Fname <- Collide
    NoKey = NoKey
    Free = Free
    MaxFaults = 1
    MaxCrashes = 1
    MaxGc = 1
SPECIFICATION FairSpec
INVARIANTS EntriesComplete FetchOnlyMissing NoStrayTemp
PROPERTIES ImplementsReadThrough EveryReadReturns
