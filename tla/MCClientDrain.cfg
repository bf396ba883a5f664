SPECIFICATION FairSpec
CONSTANTS
    Conns = {c1, c2, c3}
    Fds = {3, 4, 5}
    NULL = NULL
    NoFd = NoFd
    HookCalls = {}
    MaxPending = 1
    MaxFaults = 0
PROPERTIES DrainEnds
