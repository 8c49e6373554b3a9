SPECIFICATION Spec
CONSTANTS
    personal = personal
    team = team
    c1 = c1
    c2 = c2
    Free = Free
    Org = {personal}
    Personal = personal
    Caller = {c1}
    CanRollOut = FALSE
    AssignConflicts = FALSE
    HardDeletes = FALSE
    Changing = {personal}
    RetryCount = 3
    MaxFaults = 0
INVARIANTS SoftDeletesAreProcessed
