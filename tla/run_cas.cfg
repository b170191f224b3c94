SPECIFICATION Spec
CONSTANTS
    Replicas = {p1, p2}
    Runs = {r1}
    NoReplica = NoReplica
    NoRun = NoRun
    Strategies = {"reject"}
    CancelActions = {"interrupt", "rollback"}
    Disconnects = TRUE
    LeaseEnabled = TRUE
    FaultKinds = {"crash", "dispatch", "claim", "renew", "stall", "release", "lookup", "store"}
    MaxFaults = 2
SYMMETRY Symmetry
CHECK_DEADLOCK FALSE
INVARIANT TypeOK
INVARIANT VersionsBehind
INVARIANT StaleWritesFenced
INVARIANT EndsUnlessAborted
PROPERTY NeverRevived
PROPERTY TerminalImmutable
PROPERTY ReconcileOnlyInflight
