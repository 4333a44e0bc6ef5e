SPECIFICATION Spec
CONSTANTS
    Tables <- OneTable
    Ids = {1}
    Initial <- EveryRow
    Workers = {w1}
    ClaimLimit = 1
    Ops = {}
    MaxChanges = 0
    Faults = {"swallow"}
    MaxFaults = 1
INVARIANTS
    DoneIsDelivered
