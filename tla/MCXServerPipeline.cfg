\* One connection that sends a second request early.
CONSTANTS
    Fds = {f1}
    NoFd = NoFd
    Stray = Stray
    NoSession = NoSession
    POLL_MAX = 2
    U32 = 16
    BUF = 2
    ReqLen = 3
    RespLens = {2, 3, 4}
    ErrSize = 4
    ErrLen = 3
    NoBlockMayFail = FALSE
    MemoryMayFail = TRUE
    MaxIn = 4
    MaxBacklog = 1
SPECIFICATION Spec
CHECK_DEADLOCK FALSE
INVARIANT ReallocNeverShrinks
