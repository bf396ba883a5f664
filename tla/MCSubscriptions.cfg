SPECIFICATION Spec
CONSTANTS
    Types = {t1, t2}
    W = 2
    Reentrant = {}
    MaxMade = 5
SYMMETRY Symmetry
CHECK_DEADLOCK FALSE
INVARIANTS TypeOK HandlesFindTheirCallbacks ChannelsAgreeOnTypes ReachesEverySubscriber
PROPERTIES CallsTheSubscribedOnce
