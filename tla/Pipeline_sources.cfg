SPECIFICATION Spec
CONSTANTS
    Sources = {s1, s2}
    NSinks = 2
    Required = {2}
    Lossy = {1}
    MaxBatch = 2
    InitialBackoff = 1
    Ceiling = 1
    CallTimes = {0}
    Streams <- OneTransaction
    MaxFaults = 1
INVARIANTS
    ConfirmSafe
    NoGaps
