SPECIFICATION FairSpec
CONSTANTS
    Conns = {c1, c2, c3, c4, c5}
    Fds = {3, 4, 5, 6, 7}
    NULL = NULL
    NoFd = NoFd
    HookCalls = {}
    MaxPending = 1
    MaxPeers = 2
    MaxFaults = 2
PROPERTIES GoneClientsAreReported PendingAreAccepted
