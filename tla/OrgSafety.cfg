SPECIFICATION Spec
CONSTANTS
    personal = personal
    team = team
    c1 = c1
    c2 = c2
    Free = Free
    Org = {personal, team}
    Personal = personal
    Caller = {c1, c2}
    CanRollOut = TRUE
    AssignConflicts = TRUE
    HardDeletes = TRUE
    Changing = {}
    RetryCount = 1
    MaxFaults = 1
INVARIANTS TypeOK RecordedHappened WiredInOrder WelcomesAreAccounted AcknowledgedIsReconciled
SYMMETRY AnyCaller
