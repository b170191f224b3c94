SPECIFICATION Spec
CONSTANTS
    Replicas = {p1, p2}
    Runs = {r1, r2}
    NoReplica = NoReplica
    NoRun = NoRun
    Strategies = {"reject", "rollback"}
    CancelActions = {}
    Disconnects = FALSE
    LeaseEnabled = TRUE
    FaultKinds = {}
    MaxFaults = 0
SYMMETRY Symmetry
CHECK_DEADLOCK FALSE
INVARIANT AtMostOneInflight
PROPERTY SuccessIsFinal
