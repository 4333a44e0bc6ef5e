SPECIFICATION Spec
CONSTANTS
    Sources = {s1}
    NSinks = 2
    Required = {1}
    Lossy = {}
    MaxBatch = 2
    InitialBackoff = 1
    Ceiling = 2
    CallTimes = {0, 1}
    Streams <- TwoTransactions
    MaxFaults = 2
INVARIANTS
    TypeOK
    ConfirmSafe
    NoGaps
    DrainComplete
    IndInv
PROPERTIES
    NoConfirmAfterFatal
    ImplementsFeed
