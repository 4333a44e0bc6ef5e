SPECIFICATION FairSpec
CONSTANTS
    Tables <- OneTable
    Ids = {1, 2}
    Initial <- OneRow
    Workers = {w1, w2}
    ClaimLimit = 1
    Ops = {"insert", "update", "toast", "delete"}
    MaxChanges = 2
    Faults = {"crash", "orphan", "worker", "stop", "swallow"}
    MaxFaults = 2
INVARIANTS
    BackfillTypeOK
    NothingForgotten
    StagedIsCurrent
    DumpResumed
PROPERTIES
    Completes
