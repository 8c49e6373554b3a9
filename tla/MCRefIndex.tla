---------------------------- MODULE MCRefIndex ----------------------------
(* Instances of RefIndex for TLC: an organization, whose created and        *)
(* deleted events travel on two topics, and a portal, which has a tenant    *)
(* and no deleted event.                                                    *)
EXTENDS RefIndex, TLC

CONSTANTS o1, p1, orgCreated, orgDeleted, portalCreated, tnA, tnB

OrgPortalCreated == o1 :> orgCreated @@ p1 :> portalCreated
OrgPortalDeleted == o1 :> orgDeleted
OrgPortalTenant  == o1 :> NoTenant @@ p1 :> tnA
=============================================================================
