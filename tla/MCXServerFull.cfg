\* One slot, two connections: the table overflows.
CONSTANTS
    Fds = {f1, f2}
    NoFd = NoFd
    Stray = Stray
    NoSession = NoSession
    POLL_MAX = 2
    U32 = 16
    BUF = 2
    ReqLen = 1
    RespLens = {1}
    ErrSize = 1
    ErrLen = 1
    NoBlockMayFail = FALSE
    MemoryMayFail = TRUE
    MaxIn = 1
    MaxBacklog = 1
SPECIFICATION Spec
CHECK_DEADLOCK FALSE
INVARIANT ReleaseFindsSession
