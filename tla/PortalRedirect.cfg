SPECIFICATION Spec
CONSTANTS
    acme = acme
    globex = globex
    c1 = c1
    c2 = c2
    None = None
    Slug = {acme, globex}
    Caller = {c1, c2}
    MultiTenant = TRUE
    InstanceConflicts = FALSE
    MaxFailures = 0
    MaxFaults = 0
INVARIANTS RegisteredIsKept
