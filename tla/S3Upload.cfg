CONSTANTS
    Workers = {w1, w2}
    MaxUploadParts = 5
    MaxTotal = 6
    MaxTries = 2
    MaxFaults = 2
SPECIFICATION FairSpec
INVARIANTS ObjectWhole NoUploadLeft
PROPERTY UploadReturns
CHECK_DEADLOCK FALSE
