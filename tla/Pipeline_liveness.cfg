SPECIFICATION RestartSpec
CONSTANTS
    Sources = {s1}
    NSinks = 2
    Required = {1}
    Lossy = {}
    MaxBatch = 2
    InitialBackoff = 1
    Ceiling = 2
    CallTimes = {0}
    Streams <- TwoTransactions
    MaxFaults = 2
PROPERTIES
    EventuallyDelivered
    ShutdownTerminates
    FatalStops
