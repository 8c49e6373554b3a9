------------------------ MODULE MCPortalProvisioning ------------------------
(* Small instances of PortalProvisioning for TLC.                            *)
EXTENDS PortalProvisioning, TLC

CONSTANTS acme, globex, c1, c2
=============================================================================
