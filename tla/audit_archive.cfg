SPECIFICATION Spec
CONSTANTS
    Events = {e1, e2, e3}
    Sweepers = {s1, s2}
    BatchLimit = 2
    MaxDay = 3
    MaxBatches = 3
CHECK_DEADLOCK FALSE
SYMMETRY Symmetry
INVARIANT ManifestComplete
INVARIANT WatermarkVerified
