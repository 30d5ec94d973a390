------------------------------- MODULE MCRecords -------------------------------
(***************************************************************************)
(* The migrations and the services that decide who may do what, side by    *)
(* side.  No two of them share a table, so their steps commute: a behaviour *)
(* exercises one of them, its focus, while the others rest.                *)
(***************************************************************************)
EXTENDS MCSchemaMigration, Credentials, Invitations, SharedReports, Organizations, RoleGraph

CONSTANTS r1, r2, o1, o2, u1, u2, u3

VARIABLE focus

\* Organizations are exercised twice: one with three users who come and go, and two with
\* one user who founded one of them and may join the other.
Focus == {"schema", "sessions", "invitations", "keys", "shares", "members", "defaults", "roles"}

MCStatuses == {"ACTIVE", "WAITLIST"}
MCRoles == {"OWNER", "MEMBER"}
MCDealings == IF focus = "members" THEN {o1} \X Users ELSE {<<o1, u1>>, <<o2, u1>>, <<o2, u2>>}
MCKinds ==
    {"create", "accept"} \cup IF focus = "members" THEN {"role", "remove"} ELSE {"switch", "remove"}
MCFounders == [o \in Orgs |-> IF o = o1 THEN u1 ELSE u2]

OrganizationsMC ==
    /\ OrganizationsNext
    /\ \A o \in Orgs : founder'[o] \in {"NONE", MCFounders[o]}
    /\ \A q \in OrgRequests :
           orgReq'[q] # NoOrgRequest => /\ <<orgReq'[q].org, orgReq'[q].user>> \in MCDealings
                                        /\ orgReq'[q].kind \in MCKinds

\* Two access checks do not affect one another, and nobody begins a change of parents when
\* no change may come any more.
RolesMC ==
    /\ RolesNext
    /\ \A q \in RoleRequests :
           edits = MaxEdits /\ roleReq[q] = NoRoleRequest /\ roleReq'[q] # NoRoleRequest
               => roleReq'[q].role = 0
    /\ Cardinality({q \in RoleRequests : roleReq'[q] # NoRoleRequest /\ roleReq'[q].role = 0}) <= 1

accessVars == <<sessionsVars, invitationsVars, apiKeysVars, sharedVars, orgVars, rolesVars>>

RecordsInit ==
    /\ focus \in Focus
    /\ Init /\ SessionsInit /\ InvitationsInit /\ ApiKeysInit /\ SharedInit
    /\ OrganizationsInit /\ RolesInit
    /\ focus # "schema" => committed.stamp = {}
    /\ focus # "roles" => parents = {}

AccessNext ==
    \/ /\ focus = "sessions" /\ SessionsNext
       /\ UNCHANGED <<invitationsVars, apiKeysVars, sharedVars, orgVars, rolesVars>>
    \/ /\ focus = "invitations" /\ InvitationsNext
       /\ UNCHANGED <<sessionsVars, apiKeysVars, sharedVars, orgVars, rolesVars>>
    \/ /\ focus = "keys" /\ ApiKeysNext
       /\ UNCHANGED <<sessionsVars, invitationsVars, sharedVars, orgVars, rolesVars>>
    \/ /\ focus = "shares" /\ SharedNext
       /\ UNCHANGED <<sessionsVars, invitationsVars, apiKeysVars, orgVars, rolesVars>>
    \/ /\ focus \in {"members", "defaults"} /\ OrganizationsMC
       /\ UNCHANGED <<sessionsVars, invitationsVars, apiKeysVars, sharedVars, rolesVars>>
    \/ /\ focus = "roles" /\ RolesMC
       /\ UNCHANGED <<sessionsVars, invitationsVars, apiKeysVars, sharedVars, orgVars>>

RecordsNext ==
    /\ UNCHANGED focus
    /\ \/ focus = "schema" /\ Next /\ UNCHANGED accessVars
       \/ AccessNext /\ UNCHANGED vars

RecordsSpec == RecordsInit /\ [][RecordsNext]_<<focus, vars, accessVars>>

\* The requests of each service are interchangeable, and so are two of the people.
RecordsSymmetry ==
    {f @@ g : f \in Permutations({r1, r2}), g \in Permutations({u2, u3})}

--------------------------------------------------------------------------------

\* What the columns, rows and records of every module above range over.
RecordsTypeOK ==
    /\ TypeOK /\ SessionsTypeOK /\ InvitationsTypeOK /\ ApiKeysTypeOK /\ SharedTypeOK
    /\ OrganizationsTypeOK /\ RolesTypeOK

================================================================================
