SPECIFICATION Spec
CONSTANTS
    Types = {t1, t2}
    W = 2
    Reentrant = {"subscribe", "unsubscribe_self"}
    MaxMade = 5
SYMMETRY Symmetry
CHECK_DEADLOCK FALSE
INVARIANTS ReachesEverySubscriber
