\* As MCAnalyzer.cfg, but a packet may be cut anywhere.
CONSTANTS
    Conns = {c1, c2, c3}
    NoFd = NoFd
    NoReply = NoReply
    AN_POLL_MAX = 3
    AN_TCP_BUF_LEN = 4
    Packets <- NestedPacket
    FirstSegment = 1
    Behind = {"x"}
    Impatient = {c1}
    MemoryMayFail = TRUE
SPECIFICATION Spec
CHECK_DEADLOCK FALSE
INVARIANTS
    PacketsIntact
