SPECIFICATION FairSpec
CONSTANTS
    Conns = {c1, c2, c3}
    Fds = {3, 4, 5}
    NULL = NULL
    NoFd = NoFd
    HookCalls = {"connect", "disconnect"}
    MaxPending = 2
    MaxFaults = 3
INVARIANTS TypeOK WatchesItsConnection KnowsWhatItPolls
PROPERTIES HooksSpec GoneServerIsReported
