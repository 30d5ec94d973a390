------------------------------- MODULE Sessions -------------------------------
(***************************************************************************)
(* Authentication: a login starts a family of sessions; a refresh replaces *)
(* a session by the next one of its family, in two commits; a refresh with *)
(* a token that was replaced ends the family.  Requests of the two server  *)
(* processes interleave and may die between any two of their steps.        *)
(*                                                                         *)
(* A session stands for its tokens: both carry its id, and the table keeps *)
(* the hash of the refresh token.  Nothing in the program deactivates a    *)
(* user or raises his token_version, so a user is always acceptable.       *)
(* Time is not modelled: any token may turn out to have expired.           *)
(***************************************************************************)
EXTENDS Naturals, Sequences, FiniteSets

CONSTANTS AuthRequests,     \* requests in progress at once
          MaxSessions       \* bound on sessions

ASSUME SessionsAssumption == MaxSessions \in Nat

VARIABLES session,      \* table auth_sessions, by the order of their creation
          areq,         \* requests to /auth
          spent,        \* sessions whose refresh or logout has been answered
          over,         \* families that a detected reuse has ended
          shaken        \* families with refreshes that overlapped or died

sessionsVars == <<session, areq, spent, over, shaken>>

SessionIds == 1..MaxSessions
AuthSession == [family : SessionIds, revoked : BOOLEAN]
IdleRequest == [pc |-> "idle"]
\* late: the session had been spent when the request came in.
AuthRequest == [pc : {"arrived", "valid", "issued", "reused", "leaving", "served"},
                kind : {"refresh", "logout", "use"}, token : SessionIds, late : BOOLEAN]

SessionsTypeOK ==
    /\ session \in Seq(AuthSession) /\ Len(session) <= MaxSessions
    /\ \A i \in DOMAIN session : session[i].family <= i
    /\ areq \in [AuthRequests -> {IdleRequest} \cup AuthRequest]
    /\ spent \subseteq DOMAIN session
    /\ over \subseteq SessionIds /\ shaken \subseteq SessionIds

SessionsInit ==
    /\ session = <<>>
    /\ areq = [q \in AuthRequests |-> IdleRequest]
    /\ spent = {} /\ over = {} /\ shaken = {}

Family(q) == session[areq[q].token].family
To(q, pc) == areq' = [areq EXCEPT ![q].pc = pc]
Refreshing(q) == areq[q].pc \in {"valid", "issued"}

\* login
Login ==
    /\ Len(session) < MaxSessions
    /\ session' = Append(session,
                    [family |-> Len(session) + 1, revoked |-> FALSE])
    /\ UNCHANGED <<areq, spent, over, shaken>>

Arrive(q, kind, i) ==
    /\ areq[q] = IdleRequest
    /\ areq' = [areq EXCEPT ![q] =
                  [pc |-> "arrived", kind |-> kind, token |-> i, late |-> i \in spent]]
    /\ UNCHANGED <<session, spent, over, shaken>>

\* A request that has been refused or served makes place for another.
Leave(q) == areq' = [areq EXCEPT ![q] = IdleRequest]

\* _decode: an expired token.
Expired(q) ==
    /\ areq[q].pc = "arrived"
    /\ Leave(q)
    /\ UNCHANGED <<session, spent, over, shaken>>

\* refresh up to its tests
ReadSession(q) ==
    /\ areq[q].pc = "arrived" /\ areq[q].kind = "refresh"
    /\ To(q, IF session[areq[q].token].revoked THEN "reused" ELSE "valid")
    /\ shaken' = IF areq'[q].pc = "valid" /\ \E p \in AuthRequests : Refreshing(p) /\ Family(p) = Family(q)
                 THEN shaken \cup {Family(q)} ELSE shaken
    /\ UNCHANGED <<session, spent, over>>

\* revoke_family
EndedBy(q) == {i \in DOMAIN session : session[i].family = Family(q)}

RevokeFamily(q) ==
    /\ areq[q].pc = "reused"
    /\ session' = [i \in DOMAIN session |->
                     IF i \in EndedBy(q) THEN [session[i] EXCEPT !.revoked = TRUE] ELSE session[i]]
    /\ over' = IF \E p \in AuthRequests : Refreshing(p) /\ Family(p) = Family(q)
               THEN over ELSE over \cup {Family(q)}
    /\ Leave(q)
    /\ UNCHANGED <<spent, shaken>>

\* _issue: the replacement is committed before the session is revoked.
IssueNext(q) ==
    /\ areq[q].pc = "valid" /\ areq[q].kind = "refresh"
    /\ Len(session) < MaxSessions
    /\ session' = Append(session,
                    [family |-> Family(q), revoked |-> FALSE])
    /\ To(q, "issued")
    /\ UNCHANGED <<spent, over, shaken>>

RevokedBy_Forgotten(q) == session
\* revoke_session
RevokedBy(q) == [session EXCEPT ![areq[q].token].revoked = TRUE]

RevokeReplaced(q) ==
    /\ areq[q].pc = "issued"
    /\ session' = RevokedBy(q)
    /\ spent' = spent \cup {areq[q].token}
    /\ Leave(q)
    /\ UNCHANGED <<over, shaken>>

\* logout: a session that is revoked already is left as it is.
LogoutRead(q) ==
    /\ areq[q].pc = "arrived" /\ areq[q].kind = "logout"
    /\ IF session[areq[q].token].revoked
       THEN Leave(q) /\ spent' = spent \cup {areq[q].token}
       ELSE To(q, "leaving") /\ UNCHANGED spent
    /\ UNCHANGED <<session, over, shaken>>

LogoutRevoke(q) ==
    /\ areq[q].pc = "leaving"
    /\ session' = RevokedBy(q)
    /\ spent' = spent \cup {areq[q].token}
    /\ Leave(q)
    /\ UNCHANGED <<over, shaken>>

\* authenticate, of the middleware and of /auth/me
Authenticate(q) ==
    /\ areq[q].pc = "arrived" /\ areq[q].kind = "use"
    /\ IF session[areq[q].token].revoked THEN Leave(q) ELSE To(q, "served")
    /\ UNCHANGED <<session, spent, over, shaken>>

Depart(q) ==
    /\ areq[q].pc = "served"
    /\ Leave(q)
    /\ UNCHANGED <<session, spent, over, shaken>>

\* The process dies: whatever the request committed stays.
Die(q) ==
    /\ areq[q].pc \in {"valid", "issued", "reused", "leaving"}
    /\ shaken' = IF Refreshing(q) THEN shaken \cup {Family(q)} ELSE shaken
    /\ Leave(q)
    /\ UNCHANGED <<session, spent, over>>

SessionsNext ==
    \/ Login
    \/ \E q \in AuthRequests :
        \/ \E i \in DOMAIN session, kind \in {"refresh", "logout", "use"} : Arrive(q, kind, i)
        \/ Expired(q)
        \/ ReadSession(q)
        \/ RevokeFamily(q)
        \/ IssueNext(q)
        \/ RevokeReplaced(q)
        \/ LogoutRead(q)
        \/ LogoutRevoke(q)
        \/ Authenticate(q)
        \/ Depart(q)
        \/ Die(q)

SessionsSpec == SessionsInit /\ [][SessionsNext]_sessionsVars

-----------------------------------------------------------------------------
(***************************************************************************)
(* Properties                                                              *)
(***************************************************************************)
\* refresh, logout and authenticate: once a refresh or a logout with a token has
\* been answered, no request that comes in later is served with it, whatever
\* other requests with the same token were in progress then.
SpentRefused ==
    \A q \in AuthRequests :
        areq[q] # IdleRequest /\ areq[q].late => areq[q].pc \in {"arrived", "reused"}

\* "Reuse of a rotated token revokes its complete token family"
\* (authentication/README.md:9): no session of the family is live, and none ever
\* will be, unless a refresh was under way when the reuse was detected.
ReuseEndsFamily ==
    \A i \in DOMAIN session : session[i].family \in over => session[i].revoked

\* refresh: a family whose refreshes came one after another has one live session,
\* the last, and while a refresh is under way the one it replaces as well.
FamilyLinear ==
    \A f \in SessionIds \ shaken :
        LET live == {i \in DOMAIN session : session[i].family = f /\ ~session[i].revoked}
            issuing == {q \in AuthRequests : areq[q].pc = "issued" /\ Family(q) = f}
        IN  Cardinality(live) <= 1 + Cardinality(issuing)

===============================================================================
