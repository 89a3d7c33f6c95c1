CONSTANTS
    k1 = k1
    k2 = k2
    Keys <- TwoKeys
    Size <- TwoSize
    bsize = 2
    bcount = 1
    Readers = {r1}
    Aheads = {a1}
    Flaky = {k2}
    NoKey = NoKey
    NoThread = NoThread
    Zero = Zero
SPECIFICATION Spec
INVARIANT NoSpuriousEOF
