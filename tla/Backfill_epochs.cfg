SPECIFICATION Spec
CONSTANTS
    Tables <- TwoTables
    Ids = {1}
    Initial <- EveryRow
    Workers = {w1}
    ClaimLimit = 1
    Ops = {"insert", "update", "toast", "delete"}
    MaxChanges = 2
    Faults = {"crash", "worker", "busy", "drop", "swallow"}
    MaxFaults = 3
INVARIANTS
    NothingForgotten
    DumpResumed
