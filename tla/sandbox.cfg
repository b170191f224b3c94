SPECIFICATION Spec
CONSTANTS
    Procs = {p1, p2}
    Sandboxes = {s1, s2}
    NoInfo = NoInfo
    Replicas = 1
    MaxAcquires = 3
    MaxExits = 2
SYMMETRY Symmetry
INVARIANT TypeOK
 
INVARIANT NoCreateRace
INVARIANT EveryContainerOwned
CHECK_DEADLOCK FALSE
