------------------------------ MODULE Invitations ------------------------------
(***************************************************************************)
(* The closed beta: administrators invite people, send an invitation again *)
(* under a new token, revoke it, list and edit users.  An acceptance takes *)
(* four commits in the tables of three components, the user, his profile,  *)
(* his role and the invitation, and may stop after any of them.            *)
(*                                                                         *)
(* A user is his e-mail address, which auth_users keeps unique.  Expiry is *)
(* a refusal that may come at any time.                                    *)
(***************************************************************************)
EXTENDS Naturals, Sequences, FiniteSets

CONSTANTS Emails,           \* people that are invited
          Acceptors,        \* acceptances and resends in progress at once
          MaxInvitations,   \* bound on invitations
          MaxSends,         \* bound on the tokens of an invitation
          Statuses          \* bound on the statuses a user is given

BetaAccessStatus == {"WAITLIST", "ACTIVE", "SUSPENDED"}

ASSUME InvitationsAssumption ==
    MaxInvitations \in Nat /\ MaxSends \in Nat \ {0} /\ Statuses \subseteq BetaAccessStatus

VARIABLES invitation,   \* table beta_invitations
          account,      \* what auth_users, beta_user_profiles and user_roles hold
          acceptor      \* requests to accept an invitation, or to send it again

invitationsVars == <<invitation, account, acceptor>>

InvitationIds == 1..MaxInvitations
\* sent: how many tokens it has had, the last of which is its token_hash; role: it
\* names one.
BetaInvitation == [email : Emails, sent : 1..MaxSends, role : BOOLEAN,
                   revoked : BOOLEAN, accepted : BOOLEAN]
Account == [user : BOOLEAN, profile : BetaAccessStatus \cup {"NONE"}, role : BOOLEAN,
            admitted : BOOLEAN]
IdleAcceptor == [pc |-> "idle"]
\* dead: the token was not the current one of an open invitation when the request
\* came in.
Acceptor == [pc : {"arrived", "found", "created", "profiled", "assigned"},
             id : InvitationIds, token : 1..MaxSends, dead : BOOLEAN]
\* revoked: what it has loaded.
Resender == [pc : {"resending"}, id : InvitationIds, revoked : BOOLEAN]

InvitationsTypeOK ==
    /\ invitation \in Seq(BetaInvitation) /\ Len(invitation) <= MaxInvitations
    /\ account \in [Emails -> Account]
    /\ acceptor \in [Acceptors -> {IdleAcceptor} \cup Acceptor \cup Resender]
    /\ \A m \in Emails : account[m].profile # "NONE" => account[m].user

InvitationsInit ==
    /\ invitation = <<>>
    /\ account = [m \in Emails |->
                    [user |-> FALSE, profile |-> "NONE", role |-> FALSE, admitted |-> FALSE]]
    /\ acceptor = [a \in Acceptors |-> IdleAcceptor]

-----------------------------------------------------------------------------
(***************************************************************************)
(* Administration                                                          *)
(***************************************************************************)
\* The test and the insert are one step: the invitation of somebody who became a
\* user in between is like the second of two invitations to him.
CreateInvitation(m, role) ==
    /\ Len(invitation) < MaxInvitations
    /\ ~account[m].user
    /\ invitation' = Append(invitation, [email |-> m, sent |-> 1, role |-> role,
                                         revoked |-> FALSE, accepted |-> FALSE])
    /\ UNCHANGED <<account, acceptor>>

LoadToResend(a, i) ==
    /\ acceptor[a] = IdleAcceptor
    /\ ~invitation[i].accepted
    /\ acceptor' = [acceptor EXCEPT ![a] =
                      [pc |-> "resending", id |-> i, revoked |-> invitation[i].revoked]]
    /\ UNCHANGED <<invitation, account>>

\* revoked_at is cleared, which writes it only if it was set when it was loaded.
Reopened(r) == [invitation EXCEPT ![r.id].revoked = @ /\ ~r.revoked]
\* A new token, and the invitation is open again.
Resent(r) == [Reopened(r) EXCEPT ![r.id].sent = @ + 1]

ResendInvitation(a) ==
    /\ acceptor[a].pc = "resending"
    /\ invitation[acceptor[a].id].sent < MaxSends
    /\ invitation' = Resent(acceptor[a])
    /\ acceptor' = [acceptor EXCEPT ![a] = IdleAcceptor]
    /\ UNCHANGED account

RevokeInvitation(i) ==
    /\ ~invitation[i].revoked
    /\ invitation' = [invitation EXCEPT ![i].revoked = TRUE]
    /\ UNCHANGED <<account, acceptor>>

\* users: whoever has no profile yet is put on the waiting list.
ListUsers ==
    /\ account' = [m \in Emails |->
                     IF account[m].user /\ account[m].profile = "NONE"
                     THEN [account[m] EXCEPT !.profile = "WAITLIST"] ELSE account[m]]
    /\ account' # account
    /\ UNCHANGED <<invitation, acceptor>>

\* Preceded and followed by a listing, each with commits of its own.
UpdateUser(m, status) ==
    /\ account[m].profile \notin {"NONE", status}
    /\ account' = [account EXCEPT ![m].profile = status]
    /\ UNCHANGED <<invitation, acceptor>>

-----------------------------------------------------------------------------
(***************************************************************************)
(* accept                                                                  *)
(***************************************************************************)
Open(i, token) ==
    ~invitation[i].revoked /\ ~invitation[i].accepted /\ invitation[i].sent = token

ArriveToAccept(a, i, token) ==
    /\ acceptor[a] = IdleAcceptor
    /\ token <= invitation[i].sent
    /\ acceptor' = [acceptor EXCEPT ![a] =
                      [pc |-> "arrived", id |-> i, token |-> token, dead |-> ~Open(i, token)]]
    /\ UNCHANGED <<invitation, account>>

Drop(a) == acceptor' = [acceptor EXCEPT ![a] = IdleAcceptor]
Now(a, pc) == acceptor' = [acceptor EXCEPT ![a].pc = pc]
Email(a) == invitation[acceptor[a].id].email

\* invitation_by_hash and the tests; or the invitation has expired.
FindInvitation(a) ==
    /\ acceptor[a].pc = "arrived"
    /\ \/ Open(acceptor[a].id, acceptor[a].token) /\ Now(a, "found")
       \/ Drop(a)
    /\ UNCHANGED <<invitation, account>>

CreateUser_Forgotten(a) ==
    /\ acceptor[a].pc = "found"
    /\ IF account[Email(a)].user
       THEN Drop(a) /\ UNCHANGED account
       ELSE Now(a, "created") /\ UNCHANGED account
    /\ UNCHANGED invitation
\* auth_users.email is unique: a second user ends the request.
CreateUser(a) ==
    /\ acceptor[a].pc = "found"
    /\ IF account[Email(a)].user
       THEN Drop(a) /\ UNCHANGED account
       ELSE Now(a, "created") /\ account' = [account EXCEPT ![Email(a)].user = TRUE]
    /\ UNCHANGED invitation

\* beta_user_profiles.user_id is unique: it ends where a listing was faster.
SaveProfile(a) ==
    /\ acceptor[a].pc = "created"
    /\ IF account[Email(a)].profile # "NONE"
       THEN Drop(a) /\ UNCHANGED account
       ELSE /\ Now(a, "profiled")
            /\ account' = [account EXCEPT ![Email(a)].profile = "ACTIVE",
                                          ![Email(a)].admitted = TRUE]
    /\ UNCHANGED invitation

\* The role may be gone.
AssignRole(a) ==
    /\ acceptor[a].pc = "profiled"
    /\ \/ /\ invitation[acceptor[a].id].role
          /\ account' = [account EXCEPT ![Email(a)].role = TRUE]
          /\ Now(a, "assigned")
       \/ invitation[acceptor[a].id].role /\ Drop(a) /\ UNCHANGED account
       \/ ~invitation[acceptor[a].id].role /\ Now(a, "assigned") /\ UNCHANGED account
    /\ UNCHANGED invitation

AcceptedAfter_First == {"created", "profiled", "assigned"}
\* The invitation is marked last.
AcceptedAfter == {"assigned"}

MarkAccepted(a) ==
    /\ acceptor[a].pc \in AcceptedAfter
    /\ invitation' = [invitation EXCEPT ![acceptor[a].id].accepted = TRUE]
    /\ Drop(a)
    /\ UNCHANGED account

AcceptorDies(a) ==
    /\ acceptor[a].pc \in {"resending", "found", "created", "profiled", "assigned"}
    /\ Drop(a)
    /\ UNCHANGED <<invitation, account>>

InvitationsNext ==
    \/ \E m \in Emails, role \in BOOLEAN : CreateInvitation(m, role)
    \/ \E i \in DOMAIN invitation : RevokeInvitation(i)
    \/ ListUsers
    \/ \E m \in Emails, status \in Statuses : UpdateUser(m, status)
    \/ \E a \in Acceptors :
        \/ \E i \in DOMAIN invitation :
            LoadToResend(a, i) \/ \E token \in 1..MaxSends : ArriveToAccept(a, i, token)
        \/ ResendInvitation(a)
        \/ FindInvitation(a)
        \/ CreateUser(a)
        \/ SaveProfile(a)
        \/ AssignRole(a)
        \/ MarkAccepted(a)
        \/ AcceptorDies(a)

-----------------------------------------------------------------------------
(***************************************************************************)
(* Properties                                                              *)
(***************************************************************************)
\* accept: an invitation that counts as accepted has its user, admitted by the
\* profile accept itself stored, with the role it names; and an address is
\* accepted once, however many invitations it was sent.
AcceptedComplete ==
    /\ \A i \in DOMAIN invitation :
        invitation[i].accepted =>
            LET m == invitation[i].email
            IN  /\ account[m].user /\ account[m].admitted
                /\ invitation[i].role => account[m].role
    /\ \A i, j \in DOMAIN invitation :
        invitation[i].accepted /\ invitation[j].accepted /\ i # j =>
            invitation[i].email # invitation[j].email

\* resend_invitation and revoke_invitation: a token that was replaced or revoked
\* before a request came in makes no user, though the invitation may be open
\* again under its next token.
DeadTokenRefused ==
    \A a \in Acceptors :
        acceptor[a].pc \notin {"idle", "resending"} /\ acceptor[a].dead => acceptor[a].pc = "arrived"

\* AcceptedComplete and DeadTokenRefused together: accepting an invitation is all done or
\* not done, and only its newest token does it (closed_beta/service.py).
InvitationsKept == AcceptedComplete /\ DeadTokenRefused

===============================================================================
