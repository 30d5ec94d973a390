----------------------------- MODULE Organizations -----------------------------
(***************************************************************************)
(* Organizations: their members, roles, invitations and the default each   *)
(* user has among his memberships.  Every operation reads, tests and then  *)
(* writes in statements of its own; those of several requests interleave,  *)
(* and a request may die between any two.                                  *)
(*                                                                         *)
(* A request of an administrator is anyone's who is one when it is tested. *)
(***************************************************************************)
EXTENDS Naturals, Sequences, FiniteSets

CONSTANTS Orgs, Users,
          Roles,            \* bound on the roles that are given
          OrgRequests,      \* requests in progress at once
          MemberLimit,      \* limits["members"]
          MaxInvites        \* bound on invitations

OrganizationRole == {"OWNER", "ADMIN", "MEMBER", "VIEWER"}
ADMIN_ROLES == {"OWNER", "ADMIN"}

ASSUME OrganizationsAssumption ==
    /\ Roles \subseteq OrganizationRole /\ "NONE" \notin Users
    /\ MemberLimit \in Nat \ {0} /\ MaxInvites \in Nat

VARIABLES founder,          \* of the organizations that exist, who created them
          member,           \* table organization_members
          invite,           \* table organization_invitations
          orgReq,           \* requests to /organizations
          crowded,          \* organizations two acceptances were tested for at once
          hurried           \* users with two requests on their memberships at once

orgVars == <<founder, member, invite, orgReq, crowded, hurried>>

InviteIds == 1..MaxInvites
NoMember == [role |-> "NONE", default |-> FALSE]
OrganizationMember == [role : OrganizationRole, default : BOOLEAN]
\* admitted: how many members it made, up to 2; spoiled: two requests had it at
\* once, or one died with it.
OrganizationInvitation == [org : Orgs, role : OrganizationRole, accepted : BOOLEAN,
                           revoked : BOOLEAN, admitted : 0..2, spoiled : BOOLEAN]
NoOrgRequest == [pc |-> "idle"]
\* first: what organizations(user) said of a membership to come; lost: the row it
\* has loaded was deleted since.
OrgRequest == [pc : {"saved", "found", "counted", "tested", "joined", "loaded", "cleared"},
               kind : {"create", "accept", "switch", "role", "remove"},
               org : Orgs, user : Users, inv : 0..MaxInvites,
               loaded : OrganizationRole \cup {"NONE"}, first : BOOLEAN, lost : BOOLEAN]

OrganizationsTypeOK ==
    /\ founder \in [Orgs -> Users \cup {"NONE"}]
    /\ member \in [Orgs -> [Users -> {NoMember} \cup OrganizationMember]]
    /\ invite \in Seq(OrganizationInvitation) /\ Len(invite) <= MaxInvites
    /\ orgReq \in [OrgRequests -> {NoOrgRequest} \cup OrgRequest]
    /\ crowded \subseteq Orgs /\ hurried \subseteq Users

OrganizationsInit ==
    /\ founder = [o \in Orgs |-> "NONE"]
    /\ member = [o \in Orgs |-> [u \in Users |-> NoMember]]
    /\ invite = <<>>
    /\ orgReq = [q \in OrgRequests |-> NoOrgRequest]
    /\ crowded = {} /\ hurried = {}

Members(o) == {u \in Users : member[o][u] # NoMember}
Memberships(u) == {o \in Orgs : u \in Members(o)}
Administered(o) == \E u \in Users : member[o][u].role \in ADMIN_ROLES

OrgAt(q, kind, pc) == orgReq[q].pc = pc /\ orgReq[q].kind = kind
OrgLeave(q) == orgReq' = [orgReq EXCEPT ![q] = NoOrgRequest]
OrgTo(q, pc) == orgReq' = [orgReq EXCEPT ![q].pc = pc]
SetMember(o, u, row) == member' = [member EXCEPT ![o][u] = row]

\* A request of u's own that changes what he is a member of, or by default.
Moving(p, u) == orgReq[p] # NoOrgRequest /\ orgReq[p].user = u
                  /\ orgReq[p].kind \notin {"role", "remove"}

\* A request starts by what it commits or loads first.
OrgStart(q, kind, pc, o, u, i) ==
    /\ orgReq[q] = NoOrgRequest
    /\ orgReq' = [orgReq EXCEPT ![q] =
                    [pc |-> pc, kind |-> kind, org |-> o, user |-> u, inv |-> i,
                     loaded |-> member[o][u].role, first |-> FALSE, lost |-> FALSE]]
    /\ hurried' = IF \E p \in OrgRequests : Moving(p, u) /\ kind \notin {"role", "remove"}
                  THEN hurried \cup {u} ELSE hurried

-----------------------------------------------------------------------------
(***************************************************************************)
(* create and accept_invitation                                            *)
(***************************************************************************)
SaveOrganization(q, o, u) ==
    /\ founder[o] = "NONE"
    /\ OrgStart(q, "create", "saved", o, u, 0)
    /\ founder' = [founder EXCEPT ![o] = u]
    /\ UNCHANGED <<member, invite, crowded>>

ListFirst(q) ==
    /\ OrgAt(q, "create", "saved") \/ OrgAt(q, "accept", "counted")
    /\ orgReq' = [orgReq EXCEPT ![q].pc = "tested",
                                ![q].first = Memberships(orgReq[q].user) = {}]
    /\ UNCHANGED <<founder, member, invite, crowded, hurried>>

Usable_AnyTime(i) == ~invite[i].revoked
\* It may have expired as well.
Usable(i) == ~invite[i].revoked /\ ~invite[i].accepted

FindInvite(q, u, i) ==
    /\ Usable(i)
    /\ OrgStart(q, "accept", "found", invite[i].org, u, i)
    /\ invite' = IF \E p \in OrgRequests :
                        orgReq[p] # NoOrgRequest /\ orgReq[p].kind = "accept" /\ orgReq[p].inv = i
                 THEN [invite EXCEPT ![i].spoiled = TRUE] ELSE invite
    /\ UNCHANGED <<founder, member, crowded>>

Room(o) == Cardinality(Members(o)) < MemberLimit

\* Somebody else has been counted in and is not there yet.
Counted(o) == \E p \in OrgRequests : /\ orgReq[p].pc \in {"counted", "tested"}
                                     /\ orgReq[p].kind = "accept" /\ orgReq[p].org = o

TestRoom(q) ==
    LET o == orgReq[q].org
        u == orgReq[q].user
    IN  /\ OrgAt(q, "accept", "found")
        /\ IF u \in Members(o) \/ ~Room(o)
           THEN OrgLeave(q) /\ UNCHANGED crowded
           ELSE OrgTo(q, "counted") /\ crowded' = IF Counted(o) THEN crowded \cup {o} ELSE crowded
        /\ UNCHANGED <<founder, member, invite, hurried>>

DefaultOf(q) == orgReq[q].first

\* uq_organization_member refuses a second row of the same user.
Join(q) ==
    LET r == orgReq[q]
    IN  /\ r.pc = "tested"
        /\ IF r.user \in Members(r.org)
           THEN OrgLeave(q) /\ UNCHANGED <<member, invite>>
           ELSE /\ SetMember(r.org, r.user,
                       [role |-> IF r.kind = "create" THEN "OWNER" ELSE invite[r.inv].role,
                        default |-> DefaultOf(q)])
                /\ IF r.kind = "create"
                   THEN OrgLeave(q) /\ UNCHANGED invite
                   ELSE OrgTo(q, "joined") /\ invite' = [invite EXCEPT ![r.inv].admitted = IF @ = 2 THEN 2 ELSE @ + 1]
        /\ UNCHANGED <<founder, crowded, hurried>>

MarkInvite(q) ==
    /\ OrgAt(q, "accept", "joined")
    /\ invite' = [invite EXCEPT ![orgReq[q].inv].accepted = TRUE]
    /\ OrgLeave(q)
    /\ UNCHANGED <<founder, member, crowded, hurried>>

-----------------------------------------------------------------------------
(***************************************************************************)
(* switch                                                                  *)
(***************************************************************************)
LoadOwn(q, o, u) ==
    /\ u \in Members(o)
    /\ OrgStart(q, "switch", "loaded", o, u, 0)
    /\ UNCHANGED <<founder, member, invite, crowded>>

Cleared(u) == [o \in Orgs |-> [member[o] EXCEPT ![u].default = FALSE]]

ClearDefault(q) ==
    /\ OrgAt(q, "switch", "loaded")
    /\ member' = Cleared(orgReq[q].user)
    /\ OrgTo(q, "cleared")
    /\ UNCHANGED <<founder, invite, crowded, hurried>>

\* Writing a row that was deleted raises.
SetDefault(q) ==
    LET r == orgReq[q]
    IN  /\ OrgAt(q, "switch", "cleared")
        /\ IF r.lost THEN UNCHANGED member
           ELSE member' = [member EXCEPT ![r.org][r.user].default = TRUE]
        /\ OrgLeave(q)
        /\ UNCHANGED <<founder, invite, crowded, hurried>>

-----------------------------------------------------------------------------
(***************************************************************************)
(* Administration: update_role, remove_member, invite, revoke_invitation   *)
(***************************************************************************)
Changeable(o, u) == u \in Members(o) /\ member[o][u].role # "OWNER"

LoadMember(q, kind, o, u) ==
    /\ Administered(o)
    /\ Changeable(o, u)
    /\ OrgStart(q, kind, "loaded", o, u, 0)
    /\ UNCHANGED <<founder, member, invite, crowded>>

\* The row is written only if the role differs from the one that was loaded.
UpdateRole(q, role) ==
    LET r == orgReq[q]
    IN  /\ OrgAt(q, "role", "loaded")
        /\ IF r.lost \/ r.loaded = role THEN UNCHANGED member
           ELSE member' = [member EXCEPT ![r.org][r.user].role = role]
        /\ OrgLeave(q)
        /\ UNCHANGED <<founder, invite, crowded, hurried>>

RemoveMember(q) ==
    LET r == orgReq[q]
        loadedToo(p) == ~r.lost /\ orgReq[p] # NoOrgRequest
                          /\ orgReq[p].org = r.org /\ orgReq[p].user = r.user
                          /\ orgReq[p].kind \in {"switch", "role", "remove"}
    IN  /\ OrgAt(q, "remove", "loaded")
        /\ IF r.lost THEN UNCHANGED member ELSE SetMember(r.org, r.user, NoMember)
        /\ orgReq' = [p \in OrgRequests |->
                        IF p = q THEN NoOrgRequest
                        ELSE IF loadedToo(p) THEN [orgReq[p] EXCEPT !.lost = TRUE] ELSE orgReq[p]]
        /\ UNCHANGED <<founder, invite, crowded, hurried>>

Invite(o, role) ==
    /\ Administered(o)
    /\ Len(invite) < MaxInvites
    /\ invite' = Append(invite, [org |-> o, role |-> role, accepted |-> FALSE, revoked |-> FALSE,
                                 admitted |-> 0, spoiled |-> FALSE])
    /\ UNCHANGED <<founder, member, orgReq, crowded, hurried>>

RevokeInvite(i) ==
    /\ Administered(invite[i].org)
    /\ invite' = [invite EXCEPT ![i].revoked = TRUE]
    /\ UNCHANGED <<founder, member, orgReq, crowded, hurried>>

OrgRequestDies(q) ==
    LET r == orgReq[q]
    IN  /\ r # NoOrgRequest
        /\ invite' = IF OrgAt(q, "accept", "joined") THEN [invite EXCEPT ![r.inv].spoiled = TRUE]
                     ELSE invite
        /\ OrgLeave(q)
        /\ UNCHANGED <<founder, member, crowded, hurried>>

OrganizationsNext ==
    \/ \E o \in Orgs, role \in Roles : Invite(o, role)
    \/ \E i \in DOMAIN invite : RevokeInvite(i)
    \/ \E q \in OrgRequests :
        \/ \E o \in Orgs, u \in Users :
            \/ SaveOrganization(q, o, u)
            \/ LoadOwn(q, o, u)
            \/ \E kind \in {"role", "remove"} : LoadMember(q, kind, o, u)
        \/ \E u \in Users, i \in DOMAIN invite : FindInvite(q, u, i)
        \/ ListFirst(q)
        \/ TestRoom(q)
        \/ Join(q)
        \/ MarkInvite(q)
        \/ ClearDefault(q)
        \/ SetDefault(q)
        \/ \E role \in Roles : UpdateRole(q, role)
        \/ RemoveMember(q)
        \/ OrgRequestDies(q)

-----------------------------------------------------------------------------
(***************************************************************************)
(* Properties                                                              *)
(***************************************************************************)
\* update_role and remove_member: whoever created an organization stays its OWNER
\* for good, though other owners may come and go with writes decided on a role
\* that has changed since, and so a created organization can always be administered.
FounderStays ==
    [][\A o \in Orgs, u \in Users :
          founder[o] = u /\ member[o][u].role = "OWNER" => member'[o][u].role = "OWNER"]_orgVars

\* accept_invitation: an organization exceeds its member limit only if two
\* acceptances were between their count and their insert at the same time.
LimitKept == \A o \in Orgs \ crowded : Cardinality(Members(o)) <= MemberLimit

\* create, accept_invitation and switch: a user never has two default memberships
\* unless two requests on his memberships were in progress at once; a request that
\* dies half way may leave him with none, never with two.
OneDefault ==
    \A u \in Users \ hurried : Cardinality({o \in Orgs : member[o][u].default}) <= 1

\* accept_invitation: an invitation admits one member, and is marked accepted only
\* if it did, unless two requests had it at once or one died before marking it.
InviteAdmitsOne ==
    \A i \in DOMAIN invite :
        /\ ~invite[i].spoiled => invite[i].admitted <= 1
        /\ invite[i].accepted => invite[i].admitted >= 1

\* LimitKept, OneDefault, InviteAdmitsOne and FounderStays together: the members of an
\* organization are as many, as welcome and as privileged as the tests before each write
\* say, as far as overlapping requests leave those tests true (organization_workspace/
\* service.py).
OrganizationsKept == [](LimitKept /\ OneDefault /\ InviteAdmitsOne) /\ FounderStays

================================================================================
