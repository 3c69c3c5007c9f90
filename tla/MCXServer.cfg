\* Two connections, two slots; responses in two parts; setting up may fail, so
\* that closed descriptors fill the table.
CONSTANTS
    Fds = {f1, f2}
    NoFd = NoFd
    Stray = Stray
    NoSession = NoSession
    POLL_MAX = 3
    U32 = 16
    BUF = 2
    ReqLen = 1
    RespLens = {2}
    ErrSize = 1
    ErrLen = 1
    NoBlockMayFail = TRUE
    MemoryMayFail = TRUE
    MaxIn = 1
    MaxBacklog = 1
SPECIFICATION FairSpec
CHECK_DEADLOCK FALSE
INVARIANTS
    TypeOK
    SessionsHaveSlots
    SlotsMatchSessions
    CurfdsCoversTable
    NoStalledResponse
PROPERTIES
    FirstSlotServed
