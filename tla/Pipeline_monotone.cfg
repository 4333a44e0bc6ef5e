SPECIFICATION Spec
CONSTANTS
    Sources = {s1}
    NSinks = 1
    Required = {1}
    Lossy = {}
    MaxBatch = 1
    InitialBackoff = 1
    Ceiling = 1
    CallTimes = {0}
    Streams <- Interleaved
    MaxFaults = 0
PROPERTIES
    ConfirmMonotone
