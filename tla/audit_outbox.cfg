SPECIFICATION FairOutboxSpec
CONSTANTS
    Events = {e1, e2}
    Undecodable = {e2}
    Workers = {w1, w2}
    BatchSize = 2
    Threshold = 2
    MaxFaults = 2
    MaxCrashes = 1
INVARIANT OutboxTypeOK
INVARIANT PublishedIsRecorded
INVARIANT DeadLetterIsEarned
PROPERTY EventuallySettled
