SPECIFICATION Spec
CONSTANTS
    Tables <- OneTable
    Ids = {1}
    Initial <- EveryRow
    Workers = {w1}
    ClaimLimit = 1
    Ops = {"update"}
    MaxChanges = 1
    Faults = {}
    MaxFaults = 0
INVARIANTS
    Reconciled
