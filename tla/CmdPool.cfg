CONSTANTS
    d1 = d1
    d2 = d2
    c1 = c1
    c2 = c2
    c3 = c3
    w1 = w1
    w2 = w2
    Workers = {w1, w2}
    Devs = {d1, d2}
    Cmds = {c1, c2, c3}
    DevOf <- MCDevOf
    Idle = Idle
    Gone = Gone
    Fickle = {d2}
SPECIFICATION FairSpec
INVARIANTS NoChannelPanic AnsweredBeforeClose QuietAfterClose
PROPERTIES EveryCommandServed CloseReturns
CHECK_DEADLOCK FALSE
