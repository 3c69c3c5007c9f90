\* Three threads (a third can use the address a second one was given while
\* the first moves its block), three addresses.
CONSTANTS
    Threads = {t1, t2, t3}
    Addrs = {a1, a2, a3}
    Infos = {i1, i2, i3}
    Sizes = {1, 2}
    NoInfo = NoInfo
    NoAddr = NoAddr
SPECIFICATION Spec
SYMMETRY Symmetry
CHECK_DEADLOCK FALSE
INVARIANTS
    TypeOK
    FindsOwnEntry
    ReportExact
