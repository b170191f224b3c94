SPECIFICATION FairSpec
CONSTANTS
    Subscribers = {c1, c2}
    MaxLen = 2
    Count = 2
    MaxEvents = 3
    MaxFaults = 1
CHECK_DEADLOCK FALSE
INVARIANT TypeOK
PROPERTY KeepsOrder
PROPERTY ServedWhileKeysLast
