SPECIFICATION BillingSpec
CONSTANTS
    Usage = {1, 2, 3}
    Rejected = {1}
    Flush = {f1, f2}
    BatchSize = 2
    MaxFailures = 1
    Session = {s1, s2}
    MaxEvents = 2
    MaxMishaps = 1
INVARIANTS
    BothTypeOK
    UsageIsBilledOnce
    MirrorIsHonest
    EventsAreToldOnce
PROPERTIES
    UsageIsBilled
    ImplementsMirror
    OutcomeIsTold
CHECK_DEADLOCK FALSE
