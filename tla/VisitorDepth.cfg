CONSTANTS
    root = root
    a = a
    b = b
    aa = aa
    ab = ab
    ac = ac
    bb = bb
    Dirs <- MCDirs
    Root = root
    Hidden = {b}
    maxWorkers = 2
    depthFirst = TRUE
    None = None
    MaxErrs = 0
SPECIFICATION Spec
INVARIANTS EachOnce
CHECK_DEADLOCK FALSE
