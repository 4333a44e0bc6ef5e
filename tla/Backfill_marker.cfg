SPECIFICATION Spec
CONSTANTS
    Tables <- OneTable
    Ids = {1}
    Initial <- EveryRow
    Workers = {w1}
    ClaimLimit = 1
    Ops = {}
    MaxChanges = 0
    Faults = {"crash", "early crash"}
    MaxFaults = 1
INVARIANTS
    DumpResumed
