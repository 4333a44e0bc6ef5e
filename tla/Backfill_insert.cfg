SPECIFICATION Spec
CONSTANTS
    Tables <- OneTable
    Ids = {1, 2}
    Initial <- OneRow
    Workers = {w1}
    ClaimLimit = 1
    Ops = {"insert"}
    MaxChanges = 1
    Faults = {}
    MaxFaults = 0
INVARIANTS
    InsertNeverStaged
