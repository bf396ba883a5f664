SPECIFICATION Spec
CONSTANTS
    Conns = {c1, c2, c3}
    Fds = {3, 4, 5}
    NULL = NULL
    NoFd = NoFd
    HookCalls = {"open", "serve", "close", "remove"}
    MaxPending = 2
    MaxPeers = 3
    MaxFaults = 2
INVARIANTS TypeOK ClosedHoldsNothing WatchesListenerAndClients
           OnlyResultsKeepTheListener LeaksArePaidByFaults
PROPERTIES LeavesWithItsHook AcceptsOnlyWhileServing ServiceSpec HooksSpec
