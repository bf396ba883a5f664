SPECIFICATION Program
CONSTANTS
    Conns = {c1, c2, c3, c4}
    Fds = {3, 5, 6, 7}
    ClientFds = {4}
    NULL = NULL
    NoFd = NoFd
    HookCalls = {}
    MaxPending = 3
    MaxPeers = 3
    MaxFaults = 1
    MaxVisits = 2
INVARIANTS ProgramTypeOK OneMessage
PROPERTIES MessagesForEver ServerIsDrivenFairly
