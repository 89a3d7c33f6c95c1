CONSTANTS
    o1 = o1
    r1 = r1
    r2 = r2
    Objects <- OneObject
    ObjSize <- ThreeBytes
    bsize = 2
    window = 1
    Tokens = 1
    Readers <- TwoReaders
    MaxLen = 2
SPECIFICATION Spec
INVARIANTS ReadJoined TokensConserved
PROPERTIES ImplementsReadAhead AheadOfReader
SYMMETRY Symmetry
