SPECIFICATION Spec
CONSTANTS
    Conns = {c1, c2, c3}
    Fds = {f1, f2, f3}
    NULL = NULL
    NoFd = NoFd
    Revents <- MCRevents
SYMMETRY Symmetry
INVARIANTS TypeOK MapPointsIntoDescriptors EntriesAreCurrent PollIsExact
PROPERTIES WatchSetSpec
