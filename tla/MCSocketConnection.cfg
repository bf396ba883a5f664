SPECIFICATION Spec
CONSTANTS
    Threads = {t1, t2}
    Conns = {c1, c2, c3}
    Nobody = Nobody
    W = 16
    MaxMade = 5
    MaxFaults = 2
SYMMETRY Symmetry
CHECK_DEADLOCK FALSE
INVARIANTS TypeOK ApiUpWhileOpen NoUnmatchedQuit ResultsHaveOneOwner
