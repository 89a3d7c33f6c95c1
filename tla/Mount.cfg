CONSTANTS
    Listed <- MCListed
    Mounted <- MCMounted
    Info <- MCInfo
    Parent <- MCParent
    RootStart = 1
    Commands <- MCCommands
    MaxFaults = 1
    MaxEvicts = 1
    Threads = {t1, t2}
    MaxCalls = 3
SPECIFICATION FairSpec
INVARIANTS LookupRight ListedOnce InodesKnown HandlesSound DirListed DiscClosedLast
PROPERTY MountEnds
CHECK_DEADLOCK FALSE
