SPECIFICATION OpenEndedSpec
CONSTANTS
    Replicas = {p1, p2}
    Runs = {r1}
    NoReplica = NoReplica
    NoRun = NoRun
    Strategies = {"reject"}
    CancelActions = {"interrupt"}
    Disconnects = FALSE
    LeaseEnabled = TRUE
    FaultKinds = {}
    MaxFaults = 0
CHECK_DEADLOCK FALSE
PROPERTY IntentStopsRun
