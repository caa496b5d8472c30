\* Two concurrent first calls of the store race in getRocksDB.
CONSTANTS
    g1 = g1
    g2 = g2
    k1 = k1
    v1 = v1
    v2 = v2
    NoVal = NoVal
    Callers <- MCCallers
    Keys <- MCKeys
    Vals <- MCVals
    Absent <- NoVal
    NoReq = NoReq
    NoRequest <- NoReq

SYMMETRY CallerSymmetry

SPECIFICATION Spec

INVARIANT LazyInitSafe
