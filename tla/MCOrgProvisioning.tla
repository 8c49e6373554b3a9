------------------------- MODULE MCOrgProvisioning -------------------------
(* Small instances of OrgProvisioning for TLC: the owner's personal          *)
(* organization and one more, two callers at once.                           *)
EXTENDS OrgProvisioning, TLC

CONSTANTS personal, team, c1, c2

AnyCaller == Permutations(Caller)
=============================================================================
