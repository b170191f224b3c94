SPECIFICATION FairSpec
CONSTANTS
    Subscribers = {c1, c2}
    MaxSize = 2
    MaxEvents = 4
CHECK_DEADLOCK FALSE
INVARIANT TypeOK
INVARIANT NoMissedWakeup
PROPERTY KeepsStreamPromise
PROPERTY ServedToTheEnd
