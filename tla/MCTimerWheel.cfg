\* Two timers and their callbacks, all five vectors, jiffies modulo 64.
CONSTANTS
    Timers = {t1, t2}
    NoTimer = NoTimer
    TVR_SIZE = 2
    TVN_SIZE = 2
    Word = 64
    MaxLag = 1
    Past = 1
    MaxDelay = 18
    Delays <- EdgeDelays
SPECIFICATION Spec
SYMMETRY Symmetry
INVARIANTS
    TypeOK
    RunsInDueJiffy
    
PROPERTIES
    NeverEarly
