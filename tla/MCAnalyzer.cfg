\* Two slots for three connections, so that the table fills up; packets cut
\* behind the fourth of five bytes; one call that may give up.
CONSTANTS
    Conns = {c1, c2, c3}
    NoFd = NoFd
    NoReply = NoReply
    AN_POLL_MAX = 3
    AN_TCP_BUF_LEN = 4
    Packets <- NestedPacket
    FirstSegment = 4
    Behind = {"x"}
    Impatient = {c1}
    MemoryMayFail = TRUE
SPECIFICATION FairSpec
CHECK_DEADLOCK FALSE
INVARIANTS
    TypeOK
    TableMatchesHash
    CurfdsCoversTable
    RcvLenNotNegative
    PacketsIntact
    
PROPERTY
    LoopGoesOn
