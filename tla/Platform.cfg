SPECIFICATION PlatformSpec
CONSTANTS
    None = None
    Slug = {acme}
    Caller = {c1, c2}
    MultiTenant = TRUE
    InstanceConflicts = TRUE
    MaxFailures = 2
    MaxFaults = 2
    acme = acme
    globex = globex
    i1 = i1
    i2 = i2
    alice = alice
    team = team
    Requester = {r1, r2}
    Invitation = {i1, i2}
    Person = {alice}
    Organization = {team}
    Portal = {acme, globex}
    NoPortal = NoPortal
    PersonOf <- MCPersonOf
    OrganizationOf <- MCOrganizationOf
    PortalOf <- MCPortalOf
    RoleOf <- MCRoleOf
    NewRole = {"admin"}
    MaxLost = 1
    Put = {p1, p2, p3}
    k1 = k1
    k2 = k2
    Key = {k1, k2}
    Batch <- MCBatch
    NoRow = NoRow
    MaxRollbacks = 1
    Phone = {phone}
    Ip = {x, y}
    Cooldown = 2
    MaxPerHour = 2
    Hour = 6
    MaxTime = 14
INVARIANTS
    AllTypesOK
    LedgerHappened
    ReadyIsWired
    ResourcesAreAccounted
    CreatedIsAccounted
    MembersHaveRole
    BatchesAreWhole
    LimitHolds
PROPERTIES
    Completes
    EntersOnceWhilePending
    HomeIsKept
    TransactionsEnd
CHECK_DEADLOCK FALSE
