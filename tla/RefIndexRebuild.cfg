SPECIFICATION Spec
CONSTANTS
    o1 = o1
    p1 = p1
    orgCreated = orgCreated
    orgDeleted = orgDeleted
    portalCreated = portalCreated
    tnA = tnA
    tnB = tnB
    NoTenant = none
    Entity = {o1, p1}
    Topic = {orgCreated, orgDeleted, portalCreated}
    CreatedTopic <- OrgPortalCreated
    DeletedTopic <- OrgPortalDeleted
    TenantOf <- OrgPortalTenant
    Tenant = {tnA, tnB}
    Reader = {}
    Established = FALSE
    ErrorsSwallowed = FALSE
    MaxRepeats = 0
    MaxCrashes = 1
    MaxLosses = 0
INVARIANTS PassedIsReflected
CHECK_DEADLOCK FALSE
