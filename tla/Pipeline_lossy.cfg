SPECIFICATION Spec
CONSTANTS
    Sources = {s1}
    NSinks = 1
    Required = {1}
    Lossy = {1}
    MaxBatch = 2
    InitialBackoff = 1
    Ceiling = 1
    CallTimes = {0}
    Streams <- OneTransaction
    MaxFaults = 0
INVARIANTS
    ConfirmedIsDurable
