\* Two threads; one connection more than they can use.
CONSTANTS
    Threads = {t1, t2}
    Conns = {c1, c2, c3}
    NoConn = NoConn
    Tries = 4
    MaxCalls = 2
    MaxPieces = 2
SPECIFICATION FairSpec
INVARIANTS
    TypeOK
    OneHolder
    PoolBounded
    
    ErrorsHaveACause
PROPERTIES
    CallsReturn
