CONSTANTS
    Listed <- MCListed
    Mounted <- MCMounted
    Info <- MCInfo
    Parent <- MCParent
    RootStart = 1
    Commands <- OneCopy
    MaxFaults = 0
    MaxEvicts = 0
    Threads = {t1}
    MaxCalls = 0
SPECIFICATION FairSpec
INVARIANT LstatDescribes
CHECK_DEADLOCK FALSE
