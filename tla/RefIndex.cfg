SPECIFICATION FairSpec
CONSTANTS
    o1 = o1
    p1 = p1
    orgCreated = orgCreated
    orgDeleted = orgDeleted
    portalCreated = portalCreated
    tnA = tnA
    tnB = tnB
    NoTenant = none
    Entity = {o1, p1}
    Topic = {orgCreated, orgDeleted, portalCreated}
    CreatedTopic <- OrgPortalCreated
    DeletedTopic <- OrgPortalDeleted
    TenantOf <- OrgPortalTenant
    Tenant = {tnA, tnB}
    Reader = {r1}
    Established = TRUE
    ErrorsSwallowed = FALSE
    MaxRepeats = 0
    MaxCrashes = 1
    MaxLosses = 1
INVARIANTS
    TypeOK
    PassedIsReflected
    NoFalseReject
    NeverAppliedNeverRejects
PROPERTIES
    TombstoneIsFinal
    DeletionArrives
CHECK_DEADLOCK FALSE
