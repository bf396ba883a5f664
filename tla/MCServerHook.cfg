SPECIFICATION Spec
CONSTANTS
    Conns = {c1, c2, c3}
    Fds = {3, 4, 5}
    NULL = NULL
    NoFd = NoFd
    HookCalls = {"close"}
    MaxPending = 1
    MaxPeers = 3
    MaxFaults = 1
INVARIANTS OnlyClientsAreRead
