SPECIFICATION FairSpec
CONSTANTS
    Replicas = {p1, p2}
    Runs = {r1}
    NoReplica = NoReplica
    NoRun = NoRun
    Strategies = {"reject"}
    CancelActions = {"rollback"}
    Disconnects = FALSE
    LeaseEnabled = TRUE
    FaultKinds = {"crash", "drain", "dispatch", "claim", "renew", "stall", "release", "lookup", "store"}
    MaxFaults = 1
CHECK_DEADLOCK FALSE
PROPERTY EventuallyTerminal
PROPERTY SuccessIsFinal
