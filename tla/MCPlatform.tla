----------------------------- MODULE MCPlatform -----------------------------
(***************************************************************************)
(* Four parts of the platform for TLC: the provisioning of a portal, the   *)
(* invitations that let people into organizations and portals, the limit   *)
(* on SMS codes, and the batches that change configuration values.  They   *)
(* share no state, so a behaviour is about one of them: their              *)
(* interleavings would show nothing more.                                  *)
(***************************************************************************)
EXTENDS PortalProvisioning, Invitations, SmsLimiter, ConfigStore, TLC

-----------------------------------------------------------------------------
(* Invitations: one person, invited to one organization by both portals.   *)

CONSTANTS acme, globex, i1, i2, alice, team

MCPersonOf       == i1 :> alice @@ i2 :> alice
MCOrganizationOf == i1 :> team @@ i2 :> team
MCPortalOf       == i1 :> acme @@ i2 :> globex
MCRoleOf         == i1 :> "member" @@ i2 :> "viewer"

-----------------------------------------------------------------------------
(* Configuration: an administrator of the platform locks a key while       *)
(* administrators of one organization write both keys, in both orders.     *)

CONSTANTS k1, k2

On(k, op) == [key |-> k, op |-> op]

MCBatch ==
    {[tier |-> 1, claims |-> {},  operations |-> <<On(k1, "lock")>>],
     [tier |-> 3, claims |-> {2}, operations |-> <<On(k1, "set"), On(k2, "set")>>],
     [tier |-> 3, claims |-> {},  operations |-> <<On(k2, "lock"), On(k1, "set")>>],
     [tier |-> 3, claims |-> {2}, operations |-> <<On(k1, "unset"), On(k2, "set")>>],
     [tier |-> 3, claims |-> {},  operations |-> <<On(k2, "set"), On(k1, "unlock")>>]}

-----------------------------------------------------------------------------
VARIABLE about   \* which of the four a behaviour is about

allVars == <<about, vars, invitationVars, configVars, smsVars>>

PlatformInit ==
    /\ InvitationsAssumption /\ SmsLimiterAssumption /\ ConfigStoreAssumption
    /\ Init /\ InvitationsInit /\ SmsInit /\ ConfigInit
    /\ about \in {"portals", "invitations", "config", "sms"}
    \* What requests ask for matters where the behaviour is about them.
    /\ about # "config" =>
         batch = [p \in Put |-> CHOOSE b \in Batch : b.tier = 1]

PlatformNext ==
    /\ UNCHANGED about
    /\ \/ /\ about = "portals" /\ Next
          /\ UNCHANGED <<invitationVars, configVars, smsVars>>
       \/ /\ about = "invitations" /\ InvitationsNext
          /\ UNCHANGED <<vars, configVars, smsVars>>
       \/ /\ about = "config" /\ ConfigNext
          /\ UNCHANGED <<vars, invitationVars, smsVars>>
       \/ /\ about = "sms" /\ SmsNext
          /\ UNCHANGED <<vars, invitationVars, configVars>>

PlatformSpec ==
    /\ PlatformInit /\ [][PlatformNext]_allVars
    /\ \A c \in Caller : WF_vars(about = "portals" /\ Work(c))
    /\ \A s \in Slug : SF_vars(about = "portals" /\ \E c \in Caller : Request(c, s))
    /\ \A p \in Put : WF_configVars(about = "config" /\ GoOn(p))

AllTypesOK == TypeOK /\ InvitationsTypeOK /\ SmsTypeOK /\ ConfigTypeOK
=============================================================================
