CONSTANTS
    Paths <- MCPaths
    Writers = {w1}
    MaxWrites = 1
    Preload <- MCPreload
    MaxChanges = 2
    Depth = 3
    Dirs <- MCDirs
    Hidden <- MCHidden
    maxWorkers = 2
    None = None
    MaxErrs = 1
    MaxMeanwhile = 1
    Callers = {c1, c2}
    Creator = c1
    Buckets = {b1, b2}
    MaxLookupErrs = 1
    S3Writes = 3
    Keys = {1, 2, 3, 4}
    KeyKind <- MCKeyKind
    PageSize = 3
    MaxPuts = 2
    Reqs = {r1, r2}
    Hosts = {"host", "other"}
    MaxHosts = 1
    Addrs <- MCAddrs
    Up = {"up"}
    MaxTries = 2
    MaxFaults = 1
    Home = "host"
    Size <- MCSize
    Declared <- MCDeclared
    Reads <- MCReads
    MaxCalls = 2
SPECIFICATION FairSpec
INVARIANTS EachOnce CommitDurable ListedRight AnswersTrue
PROPERTIES ImplementsObjectStore VisitReturns CallsReturn HttpReturns
CHECK_DEADLOCK FALSE
