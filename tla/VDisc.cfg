SPECIFICATION Spec
CONSTANTS
    Files <- MCFiles
    Links <- MCLinks
    Valid <- MCValid
    HeaderName <- MCHeaderName
    VersionOf <- MCVersionOf
    MaxPartSize = 8192
    MaxCalls = 4
    MaxBuilds = 2
INVARIANTS
    LayoutAgrees
    TreeReadBack
    DiscLeadsToObjects
    DiscKeepsHeader
CHECK_DEADLOCK FALSE
