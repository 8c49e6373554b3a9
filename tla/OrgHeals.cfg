SPECIFICATION FairSpec
CONSTANTS
    personal = personal
    team = team
    c1 = c1
    c2 = c2
    Free = Free
    Org = {personal}
    Personal = personal
    Caller = {c1, c2}
    CanRollOut = FALSE
    AssignConflicts = TRUE
    HardDeletes = TRUE
    Changing = {personal}
    RetryCount = 1
    MaxFaults = 1
PROPERTIES SelfHeals
