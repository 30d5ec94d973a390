------------------------------ MODULE AccessProofs ------------------------------
(***************************************************************************)
(* Who gets in: proofs about sessions and API keys, the closed beta, the   *)
(* links to shared reports, organizations and roles, for any number of     *)
(* each; about the migrations; and about all of them side by side.  All    *)
(* that let somebody in depend on the same two things: what was retired    *)
(* stays retired in its table, and a request that is under way relies on   *)
(* nothing of the tables that another one may take back, or on what one at *)
(* a time may.  Each inductive invariant says just that; the one of the    *)
(* migrations says what a transaction that is under way has locked.        *)
(***************************************************************************)
EXTENDS MCRecords, FiniteSetTheorems, SequenceTheorems, TLAPS

-----------------------------------------------------------------------------
(***************************************************************************)
(* Tables: a row is written, a row is added                                *)
(***************************************************************************)
RowWritten(S, new, old, i, row) ==
    /\ new \in Seq(S) /\ Len(new) = Len(old) /\ DOMAIN new = DOMAIN old
    /\ new[i] = row
    /\ \A j \in DOMAIN old : j # i => new[j] = old[j]

LEMMA WritesRow ==
    ASSUME NEW S, NEW old \in Seq(S), NEW i \in DOMAIN old, NEW row \in S,
           NEW new, new = [old EXCEPT ![i] = row]
    PROVE  RowWritten(S, new, old, i, row)
<1>1. i \in 1..Len(old)
  BY LenProperties
<1> QED BY <1>1, ExceptSeq, LenProperties DEF RowWritten

RowAdded(S, new, old, row) ==
    /\ new \in Seq(S) /\ Len(new) = Len(old) + 1
    /\ DOMAIN new = DOMAIN old \cup {Len(new)} /\ Len(new) \notin DOMAIN old /\ Len(new) \in Nat \ {0}
    /\ new[Len(new)] = row
    /\ \A j \in DOMAIN old : new[j] = old[j]

LEMMA AddsRow ==
    ASSUME NEW S, NEW old \in Seq(S), NEW row \in S, NEW new, new = Append(old, row)
    PROVE  RowAdded(S, new, old, row)
<1>1. /\ new \in Seq(S) /\ Len(new) = Len(old) + 1
      /\ \A j \in 1..Len(old) : new[j] = old[j] 
      /\ new[Len(old) + 1] = row
  BY AppendProperties
<1> PICK n \in Nat : n = Len(old)
  BY LenProperties
<1>2. DOMAIN old = 1..n /\ DOMAIN new = 1..(n + 1)
  BY <1>1, LenProperties
<1> QED BY <1>1, <1>2 DEF RowAdded
-----------------------------------------------------------------------------
(***************************************************************************)
(* Sessions                                                                *)
(***************************************************************************)
InFamily(i, f) == i \in DOMAIN session /\ session[i].family = f
Live(f) == {i \in DOMAIN session : session[i].family = f /\ ~session[i].revoked}
RefreshOf(q, f) == q \in AuthRequests /\ Refreshing(q) /\ Family(q) = f

\* What a request was started with exists, and what was spent stays revoked.
TokensKept ==
    /\ \A q \in AuthRequests : areq[q] # IdleRequest =>
        /\ areq[q].token \in DOMAIN session
        /\ areq[q].pc \in {"valid", "issued", "reused"} => areq[q].kind = "refresh"
        /\ areq[q].pc = "leaving" => areq[q].kind = "logout"
        /\ areq[q].pc = "served" => areq[q].kind = "use"
        /\ areq[q].late => areq[q].token \in spent /\ areq[q].pc \in {"arrived", "reused"}
    /\ \A i \in spent : session[i].revoked

\* A family that was ended is empty, and nobody refreshes it.
OverKept ==
    \A f \in over :
        /\ f \in DOMAIN session /\ Live(f) = {}
        /\ \A q : ~RefreshOf(q, f)

\* One refresh at a time: the session it replaces, and after _issue the next one.
LineKept ==
    \A f \in SessionIds \ shaken :
        /\ \A p, q : RefreshOf(p, f) /\ RefreshOf(q, f) => p = q
        /\ \A q : RefreshOf(q, f) /\ areq[q].pc = "valid" => Live(f) \subseteq {areq[q].token}
        /\ \A q : RefreshOf(q, f) => \E i : Live(f) \subseteq {areq[q].token, i}
        /\ (\A q : ~RefreshOf(q, f)) => \E i : Live(f) \subseteq {i}

SessionsInv == SessionsTypeOK /\ TokensKept /\ OverKept /\ LineKept

LEMMA SessionFacts ==
    ASSUME SessionsInv
    PROVE  /\ session \in Seq(AuthSession) /\ Len(session) \in Nat /\ DOMAIN session = 1..Len(session)
           /\ \A i \in DOMAIN session : /\ session[i] \in AuthSession /\ session[i].family \in SessionIds
                                        /\ session[i].family \in DOMAIN session
           /\ \A q \in AuthRequests : /\ areq[q] # IdleRequest <=> areq[q].pc # "idle"
                                      /\ areq[q] # IdleRequest => areq[q] \in AuthRequest
                                                                  /\ Family(q) \in SessionIds
           /\ MaxSessions \in Nat
<1>1. session \in Seq(AuthSession) /\ Len(session) \in Nat /\ DOMAIN session = 1..Len(session)
  BY LenProperties DEF SessionsInv, SessionsTypeOK
<1>2. ASSUME NEW i \in DOMAIN session
      PROVE  /\ session[i] \in AuthSession /\ session[i].family \in SessionIds
             /\ session[i].family \in DOMAIN session
  <2>1. session[i] \in AuthSession
    BY <1>1, <1>2, ElementOfSeq
  <2>2. session[i].family \in 1..MaxSessions /\ session[i].family <= i /\ i \in 1..Len(session)
    BY <1>1, <1>2, <2>1 DEF AuthSession, SessionIds, SessionsInv, SessionsTypeOK
  <2> QED BY <1>1, <2>1, <2>2, SessionsAssumption DEF SessionIds, SessionsAssumption
<1>3. ASSUME NEW q \in AuthRequests
      PROVE  /\ areq[q] # IdleRequest <=> areq[q].pc # "idle"
             /\ areq[q] # IdleRequest => areq[q] \in AuthRequest /\ Family(q) \in SessionIds
  BY <1>2 DEF SessionsInv, SessionsTypeOK, TokensKept, IdleRequest, AuthRequest, Family
<1> QED BY <1>1, <1>2, <1>3, SessionsAssumption DEF SessionsAssumption

LEMMA SessionsInitInv == SessionsInit => SessionsInv
<1> SUFFICES ASSUME SessionsInit PROVE SessionsInv
  OBVIOUS
<1>1. Len(session) = 0 /\ DOMAIN session = {} /\ \A q \in AuthRequests : areq[q] = IdleRequest
  BY DEF SessionsInit
<1>2. \A q, f : ~RefreshOf(q, f)
  BY <1>1 DEF RefreshOf, Refreshing, IdleRequest
<1>3. \A f : Live(f) = {}
  BY <1>1 DEF Live
<1>4. SessionsTypeOK
  BY <1>1, SessionsAssumption DEF SessionsInit, SessionsTypeOK, SessionsAssumption
<1> QED BY <1>1, <1>2, <1>3, <1>4 DEF SessionsInv, TokensKept, OverKept, LineKept, SessionsInit

\* A request moves on with the session it has, while no row changes but what is revoked.
SessionsRest ==
    /\ DOMAIN session' = DOMAIN session
    /\ \A i \in DOMAIN session : /\ session'[i].family = session[i].family
                                 /\ session[i].revoked => session'[i].revoked
    /\ session' \in Seq(AuthSession) /\ Len(session') = Len(session)

LEMMA SessionsStand == SessionsInv /\ UNCHANGED session => SessionsRest
BY SessionFacts DEF SessionsRest

LEMMA SessionsRevoked ==
    ASSUME SessionsInv, NEW i \in DOMAIN session, session' = [session EXCEPT ![i].revoked = TRUE]
    PROVE  /\ SessionsRest /\ session'[i].revoked
           /\ \A j \in DOMAIN session : j # i => session'[j] = session[j]
<1> PICK s : s = [session[i] EXCEPT !.revoked = TRUE]
  OBVIOUS
<1>1. s \in AuthSession /\ s.revoked = TRUE /\ s.family = session[i].family
  BY ZenonT(60), SessionFacts DEF AuthSession
<1>2. RowWritten(AuthSession, session', session, i, s)
  BY <1>1, SessionFacts, WritesRow
<1> QED BY <1>1, <1>2 DEF RowWritten, SessionsRest

\* Live sessions and refreshes of a family only grow fewer.
LEMMA LiveFewer ==
    ASSUME SessionsInv, SessionsRest
    PROVE  \A f : Live(f)' \subseteq Live(f)
BY DEF SessionsRest, Live


\* A step of a request that refreshes nothing before or after it.
LEMMA QuietRefreshes ==
    ASSUME SessionsInv, SessionsRest, NEW q \in AuthRequests, NEW y \in {IdleRequest} \cup AuthRequest,
           areq' = [areq EXCEPT ![q] = y], ~Refreshing(q), y.pc \notin {"valid", "issued"}
    PROVE  \A p, f : /\ RefreshOf(p, f)' <=> RefreshOf(p, f)
                     /\ RefreshOf(p, f) => areq'[p] = areq[p]
<1>1. areq'[q] = y /\ \A p \in AuthRequests : p # q => areq'[p] = areq[p]
  BY DEF SessionsInv, SessionsTypeOK
<1>2. \A p \in AuthRequests : Refreshing(p)' <=> Refreshing(p)
  BY <1>1 DEF Refreshing
<1>3. \A p \in AuthRequests : Refreshing(p) => p # q /\ areq'[p] = areq[p] /\ areq[p] # IdleRequest
  BY <1>1 DEF Refreshing, IdleRequest
<1>4. \A p \in AuthRequests : Refreshing(p) => Family(p)' = Family(p)
  BY <1>3 DEF Family, SessionsRest, SessionsInv, TokensKept
<1> QED BY <1>2, <1>3, <1>4 DEF RefreshOf

LEMMA QuietOver ==
    ASSUME SessionsInv, SessionsRest, \A p, f : RefreshOf(p, f)' <=> RefreshOf(p, f), over' = over
    PROVE  OverKept'
<1>1. \A f \in over : Live(f)' = {}
  BY LiveFewer DEF SessionsInv, OverKept
<1> QED BY <1>1 DEF SessionsInv, OverKept, SessionsRest

LEMMA QuietLine ==
    ASSUME SessionsInv, SessionsRest, shaken' = shaken,
           \A p, f : /\ RefreshOf(p, f)' <=> RefreshOf(p, f)
                     /\ RefreshOf(p, f) => areq'[p] = areq[p]
    PROVE  LineKept'
<1> SUFFICES ASSUME NEW f \in SessionIds \ shaken
             PROVE  /\ \A p, q : RefreshOf(p, f)' /\ RefreshOf(q, f)' => p = q
                    /\ \A q : RefreshOf(q, f)' /\ areq'[q].pc = "valid" => Live(f)' \subseteq {areq'[q].token}
                    /\ \A q : RefreshOf(q, f)' => \E i : Live(f)' \subseteq {areq'[q].token, i}
                    /\ (\A q : ~RefreshOf(q, f)') => \E i : Live(f)' \subseteq {i}
  BY DEF LineKept
<1>1. Live(f)' \subseteq Live(f)
  BY LiveFewer
<1>2. /\ \A p, q : RefreshOf(p, f) /\ RefreshOf(q, f) => p = q
      /\ \A q : RefreshOf(q, f) /\ areq[q].pc = "valid" => Live(f) \subseteq {areq[q].token}
      /\ \A q : RefreshOf(q, f) => \E i : Live(f) \subseteq {areq[q].token, i}
      /\ (\A q : ~RefreshOf(q, f)) => \E i : Live(f) \subseteq {i}
  BY DEF SessionsInv, LineKept
<1>3. ASSUME NEW q, RefreshOf(q, f) PROVE \E i : Live(f)' \subseteq {areq'[q].token, i}
  <2>1. PICK i : Live(f) \subseteq {areq[q].token, i}
    BY <1>2, <1>3
  <2> QED BY <1>1, <1>3, <2>1
<1>4. ASSUME \A q : ~RefreshOf(q, f) PROVE \E i : Live(f)' \subseteq {i}
  <2>1. PICK i : Live(f) \subseteq {i}
    BY <1>2, <1>4
  <2> QED BY <1>1, <2>1
<1> QED BY <1>1, <1>2, <1>3, <1>4

Suits(y, rows, gone) ==
    y # IdleRequest =>
        /\ y.token \in DOMAIN rows
        /\ y.pc \in {"valid", "issued", "reused"} => y.kind = "refresh"
        /\ y.pc = "leaving" => y.kind = "logout"
        /\ y.pc = "served" => y.kind = "use"
        /\ y.late => y.token \in gone /\ y.pc \in {"arrived", "reused"}

LEMMA TokensStand ==
    ASSUME SessionsInv, NEW q \in AuthRequests, NEW y, areq' = [areq EXCEPT ![q] = y],
           Suits(y, session', spent'), DOMAIN session \subseteq DOMAIN session',
           spent \subseteq spent', \A i \in spent' : session'[i].revoked
    PROVE  TokensKept'
<1>1. areq'[q] = y /\ \A p \in AuthRequests : p # q => areq'[p] = areq[p]
  BY DEF SessionsInv, SessionsTypeOK
<1> QED BY <1>1 DEF SessionsInv, TokensKept, Suits

LEMMA QuietStep ==
    ASSUME SessionsInv, SessionsRest, NEW q \in AuthRequests, NEW y \in {IdleRequest} \cup AuthRequest,
           areq' = [areq EXCEPT ![q] = y], ~Refreshing(q), y.pc \notin {"valid", "issued"},
           Suits(y, session, spent'), spent \subseteq spent', spent' \subseteq DOMAIN session,
           \A i \in spent' : session'[i].revoked, UNCHANGED shaken,
           over' \subseteq SessionIds, over' = over \/ OverKept'
    PROVE  SessionsInv'
<1>1. \A p, f : /\ RefreshOf(p, f)' <=> RefreshOf(p, f)
                /\ RefreshOf(p, f) => areq'[p] = areq[p]
  BY QuietRefreshes
<1>2. SessionsTypeOK'
  BY DEF SessionsInv, SessionsTypeOK, SessionsRest
<1>3. TokensKept'
  <2>1. Suits(y, session', spent') /\ DOMAIN session \subseteq DOMAIN session'
    BY DEF Suits, SessionsRest
  <2> QED BY <2>1, TokensStand
<1>4. OverKept'
  BY <1>1, QuietOver
<1>5. LineKept'
  BY <1>1, QuietLine
<1> QED BY <1>2, <1>3, <1>4, <1>5 DEF SessionsInv

LEMMA ArriveInv ==
    ASSUME SessionsInv, NEW q \in AuthRequests, NEW i \in DOMAIN session,
           NEW kind \in {"refresh", "logout", "use"}, Arrive(q, kind, i)
    PROVE  SessionsInv'
<1> PICK late : late = (i \in spent)
  OBVIOUS
<1> PICK y : y = [pc |-> "arrived", kind |-> kind, token |-> i, late |-> late]
  OBVIOUS
<1>1. i \in SessionIds
  BY SessionFacts DEF SessionIds, SessionsInv, SessionsTypeOK
<1>2. y \in AuthRequest
  <2>1. late \in BOOLEAN
    OBVIOUS
  <2> QED BY <1>1, <2>1 DEF AuthRequest
<1>3. ~Refreshing(q) /\ areq' = [areq EXCEPT ![q] = y] /\ UNCHANGED <<session, spent, over, shaken>>
  BY DEF Arrive, Refreshing, IdleRequest
<1>4. Suits(y, session, spent) /\ SessionsRest
  BY <1>3, SessionsStand DEF Suits
<1> QED BY <1>2, <1>3, <1>4, QuietStep DEF SessionsInv, SessionsTypeOK, TokensKept

LEMMA LeavesInv ==
    ASSUME SessionsInv, NEW q \in AuthRequests, Leave(q), ~Refreshing(q), SessionsRest,
           spent \subseteq spent', spent' \subseteq DOMAIN session,
           \A i \in spent' : session'[i].revoked, UNCHANGED shaken,
           over' \subseteq SessionIds, over' = over \/ OverKept'
    PROVE  SessionsInv'
<1>1. areq' = [areq EXCEPT ![q] = IdleRequest] /\ IdleRequest.pc \notin {"valid", "issued"}
  BY DEF Leave, IdleRequest
<1>2. Suits(IdleRequest, session, spent')
  BY DEF Suits
<1> QED BY <1>1, <1>2, QuietStep

LEMMA MovesInv ==
    ASSUME SessionsInv, NEW q \in AuthRequests, NEW pc \in {"reused", "leaving", "served"}, To(q, pc),
           areq[q].pc = "arrived",
           pc = "reused" => areq[q].kind = "refresh", pc = "leaving" => areq[q].kind = "logout",
           pc = "served" => areq[q].kind = "use",
           pc # "reused" => ~session[areq[q].token].revoked,
           UNCHANGED <<session, spent, over, shaken>>
    PROVE  SessionsInv'
<1>1. areq[q] # IdleRequest /\ areq[q] \in AuthRequest
  BY SessionFacts DEF IdleRequest
<1> PICK y : y = [areq[q] EXCEPT !.pc = pc]
  OBVIOUS
<1>2. y \in AuthRequest /\ y.pc = pc /\ y.token = areq[q].token /\ y.kind = areq[q].kind /\ y.late = areq[q].late
  BY <1>1 DEF AuthRequest
<1>3. areq' = [areq EXCEPT ![q] = y] /\ ~Refreshing(q)
  BY DEF To, Refreshing
<1>4. Suits(y, session, spent)
  BY <1>1, <1>2 DEF Suits, SessionsInv, TokensKept
<1> QED BY <1>2, <1>3, <1>4, SessionsStand, QuietStep DEF SessionsInv, SessionsTypeOK, TokensKept

\* A session is added to a family that has no other, or by the refresh under way in it.
LEMMA AddsSession ==
    ASSUME SessionsInv, NEW f \in SessionIds, NEW s, s = [family |-> f, revoked |-> FALSE],
           session' = Append(session, s), Len(session) < MaxSessions, f <= Len(session) + 1
    PROVE  /\ session' \in Seq(AuthSession) /\ Len(session') <= MaxSessions
           /\ Len(session') \in SessionIds /\ Len(session') \notin DOMAIN session
           /\ DOMAIN session' = DOMAIN session \cup {Len(session')}
           /\ \A i \in DOMAIN session : session'[i] = session[i]
           /\ session'[Len(session')] = s
           /\ \A i \in DOMAIN session' : session'[i].family <= i
           /\ \A g : Live(g)' = Live(g) \cup (IF g = f THEN {Len(session')} ELSE {})
<1>1. s \in AuthSession
  BY DEF AuthSession
<1>2. RowAdded(AuthSession, session', session, s)
  BY <1>1, SessionFacts, AddsRow
<1> PICK n \in Nat : n = Len(session)
  BY SessionFacts
<1>3. Len(session') = n + 1 /\ n + 1 <= MaxSessions
  BY <1>2, SessionFacts DEF RowAdded
<1>4. Len(session') \in SessionIds
  BY <1>3, SessionFacts DEF SessionIds
<1>5. \A i \in DOMAIN session' : session'[i].family <= i
  <2> SUFFICES ASSUME NEW i \in DOMAIN session' PROVE session'[i].family <= i
    OBVIOUS
  <2>1. CASE i = Len(session')
    <3>1. session'[i] = s /\ s.family = f /\ i = n + 1
      BY <1>2, <1>3, <2>1 DEF RowAdded
    <3> QED BY <3>1
  <2>2. CASE i # Len(session')
    BY <1>2, <2>2 DEF RowAdded, SessionsInv, SessionsTypeOK
  <2> QED BY <2>1, <2>2
<1>6. \A g : Live(g)' = Live(g) \cup (IF g = f THEN {Len(session')} ELSE {})
  BY <1>2 DEF RowAdded, Live
<1> QED BY <1>2, <1>3, <1>4, <1>5, <1>6 DEF RowAdded

LEMMA LoginInv == ASSUME SessionsInv, Login PROVE SessionsInv'
<1> PICK f : f = Len(session) + 1
  OBVIOUS
<1> PICK s : s = [family |-> f, revoked |-> FALSE]
  OBVIOUS
<1>1. f \in SessionIds /\ f <= Len(session) + 1 /\ f \notin DOMAIN session
  BY SessionFacts DEF Login, SessionIds
<1>2. session' = Append(session, s) /\ Len(session) < MaxSessions /\ UNCHANGED <<areq, spent, over, shaken>>
  BY DEF Login
<1>3. /\ session' \in Seq(AuthSession) /\ Len(session') <= MaxSessions
      /\ DOMAIN session' = DOMAIN session \cup {Len(session')} /\ Len(session') \notin DOMAIN session
      /\ \A i \in DOMAIN session : session'[i] = session[i]
      /\ \A i \in DOMAIN session' : session'[i].family <= i
      /\ \A g : Live(g)' = Live(g) \cup (IF g = f THEN {Len(session')} ELSE {})
  BY <1>1, <1>2, AddsSession
<1>4. SessionsTypeOK'
  BY <1>2, <1>3 DEF SessionsInv, SessionsTypeOK
<1>5. TokensKept'
  BY <1>2, <1>3 DEF SessionsInv, SessionsTypeOK, TokensKept
<1>6. \A p, g : RefreshOf(p, g)' <=> RefreshOf(p, g)
  <2>1. \A p \in AuthRequests : Refreshing(p) => areq[p] # IdleRequest
    BY DEF Refreshing, IdleRequest
  <2>2. \A p \in AuthRequests : Refreshing(p) => Family(p)' = Family(p)
    BY <1>2, <1>3, <2>1 DEF Family, SessionsInv, TokensKept
  <2> QED BY <1>2, <2>2 DEF RefreshOf, Refreshing
<1>7. OverKept'
  BY <1>1, <1>2, <1>3, <1>6 DEF SessionsInv, OverKept
<1>8. LineKept'
  <2> SUFFICES ASSUME NEW g \in SessionIds \ shaken
               PROVE  /\ \A p, q : RefreshOf(p, g)' /\ RefreshOf(q, g)' => p = q
                      /\ \A q : RefreshOf(q, g)' /\ areq[q].pc = "valid" => Live(g)' \subseteq {areq[q].token}
                      /\ \A q : RefreshOf(q, g)' => \E i : Live(g)' \subseteq {areq[q].token, i}
                      /\ (\A q : ~RefreshOf(q, g)') => \E i : Live(g)' \subseteq {i}
    BY <1>2 DEF LineKept
  <2>1. CASE g # f
    BY <1>3, <1>6, <2>1 DEF SessionsInv, LineKept
  <2>2. CASE g = f
    <3>1. Live(f) = {}
      BY <1>1, SessionFacts DEF Live
    <3>2. \A q : ~RefreshOf(q, f)
      BY <1>1, SessionFacts DEF RefreshOf, Refreshing, Family, IdleRequest, SessionsInv, TokensKept
    <3> QED BY <1>3, <1>6, <2>2, <3>1, <3>2
  <2> QED BY <2>1, <2>2
<1> QED BY <1>4, <1>5, <1>7, <1>8 DEF SessionsInv

LEMMA RevokeFamilyInv == ASSUME SessionsInv, NEW q \in AuthRequests, RevokeFamily(q) PROVE SessionsInv'
<1>1. areq[q].pc = "reused" /\ areq[q] # IdleRequest /\ Leave(q) /\ ~Refreshing(q) /\ UNCHANGED <<spent, shaken>>
  BY DEF RevokeFamily, IdleRequest, Refreshing
<1> PICK f \in SessionIds : f = Family(q)
  BY <1>1, SessionFacts
<1>2. session' = [i \in DOMAIN session |->
                     IF session[i].family = f THEN [session[i] EXCEPT !.revoked = TRUE] ELSE session[i]]
  BY DEF RevokeFamily, EndedBy
<1>3. \A i \in DOMAIN session : /\ session'[i] \in AuthSession /\ session'[i].family = session[i].family
                                /\ session'[i].revoked = (session[i].revoked \/ session[i].family = f)
  BY ZenonT(60), <1>2, SessionFacts DEF AuthSession
<1>4. session' \in Seq(AuthSession) /\ Len(session') = Len(session) /\ DOMAIN session' = DOMAIN session
  <2>1. session' = [i \in 1..Len(session) |-> session'[i]] /\ \A i \in 1..Len(session) : session'[i] \in AuthSession
    BY <1>2, <1>3, SessionFacts
  <2> HIDE <1>2
  <2> QED BY <2>1, SessionFacts, IsASeq, LenProperties
<1>5. SessionsRest
  BY <1>3, <1>4 DEF SessionsRest
<1>6. over' = over \/ (over' = over \cup {f} /\ \A p : ~RefreshOf(p, f))
  BY DEF RevokeFamily, RefreshOf
<1>7. over' = over \/ OverKept'
  <2> SUFFICES ASSUME over' = over \cup {f}, \A p : ~RefreshOf(p, f) PROVE OverKept'
    BY <1>6
  <2>1. \A p, g : RefreshOf(p, g)' <=> RefreshOf(p, g)
    <3>1. areq' = [areq EXCEPT ![q] = IdleRequest] /\ IdleRequest.pc \notin {"valid", "issued"}
      BY <1>1 DEF Leave, IdleRequest
    <3> QED BY <1>1, <1>5, <3>1, QuietRefreshes
  <2>2. Live(f)' = {}
    BY <1>3, <1>4 DEF Live
  <2>3. f \in DOMAIN session
    BY <1>1, SessionFacts DEF Family, SessionsInv, TokensKept
  <2>4. \A g \in over : Live(g)' = {}
    BY <1>5, LiveFewer DEF SessionsInv, OverKept
  <2> QED BY <1>4, <2>1, <2>2, <2>3, <2>4 DEF SessionsInv, OverKept
<1>8. over' \subseteq SessionIds /\ \A i \in spent : session'[i].revoked
  BY <1>3, <1>6 DEF SessionsInv, SessionsTypeOK, TokensKept
<1> QED BY <1>1, <1>5, <1>7, <1>8, LeavesInv DEF SessionsInv, SessionsTypeOK

LEMMA QuietSteps ==
    ASSUME SessionsInv, NEW q \in AuthRequests,
           Expired(q) \/ LogoutRead(q) \/ LogoutRevoke(q) \/ Authenticate(q) \/ Depart(q)
    PROVE  SessionsInv'
<1>1. areq[q].pc \in {"arrived", "leaving", "served"} /\ areq[q] # IdleRequest /\ ~Refreshing(q)
      /\ UNCHANGED <<over, shaken>>
  BY DEF Expired, LogoutRead, LogoutRevoke, Authenticate, Depart, Refreshing, IdleRequest
<1>2. areq[q].token \in DOMAIN session /\ spent \subseteq DOMAIN session /\ over \subseteq SessionIds
      /\ \A i \in spent : session[i].revoked
  BY <1>1 DEF SessionsInv, SessionsTypeOK, TokensKept
<1>3. CASE Leave(q) /\ UNCHANGED <<session, spent>>
  BY <1>1, <1>2, <1>3, SessionsStand, LeavesInv
<1>4. CASE LogoutRead(q)
  <2>1. areq[q].pc = "arrived" /\ areq[q].kind = "logout" /\ UNCHANGED session
    BY <1>4 DEF LogoutRead
  <2>2. CASE session[areq[q].token].revoked
    <3>1. Leave(q) /\ spent' = spent \cup {areq[q].token}
      BY <1>4, <2>2 DEF LogoutRead
    <3> QED BY <1>1, <1>2, <2>1, <2>2, <3>1, SessionsStand, LeavesInv
  <2>3. CASE ~session[areq[q].token].revoked
    <3>1. To(q, "leaving") /\ UNCHANGED spent
      BY <1>4, <2>3 DEF LogoutRead
    <3> QED BY <1>1, <2>1, <2>3, <3>1, MovesInv
  <2> QED BY <2>2, <2>3
<1>5. CASE LogoutRevoke(q)
  <2>1. /\ session' = [session EXCEPT ![areq[q].token].revoked = TRUE]
        /\ spent' = spent \cup {areq[q].token} /\ Leave(q)
    BY <1>5 DEF LogoutRevoke, RevokedBy
  <2>2. SessionsRest /\ session'[areq[q].token].revoked
    BY <1>2, <2>1, SessionsRevoked
  <2>3. \A i \in spent' : session'[i].revoked
    BY <1>2, <2>1, <2>2 DEF SessionsRest
  <2> QED BY <1>1, <1>2, <2>1, <2>2, <2>3, LeavesInv
<1>6. CASE Authenticate(q)
  <2>1. areq[q].pc = "arrived" /\ areq[q].kind = "use" /\ UNCHANGED <<session, spent>>
    BY <1>6 DEF Authenticate
  <2>2. CASE ~session[areq[q].token].revoked
    BY <1>1, <1>6, <2>1, <2>2, MovesInv DEF Authenticate
  <2>3. CASE session[areq[q].token].revoked
    BY <1>3, <1>6, <2>1, <2>3 DEF Authenticate
  <2> QED BY <2>2, <2>3
<1> QED BY <1>3, <1>4, <1>5, <1>6 DEF Expired, Depart

LEMMA ReadSessionInv == ASSUME SessionsInv, NEW q \in AuthRequests, ReadSession(q) PROVE SessionsInv'
<1>1. /\ areq[q].pc = "arrived" /\ areq[q].kind = "refresh" /\ areq[q] # IdleRequest
      /\ UNCHANGED <<session, spent, over>>
  BY DEF ReadSession, IdleRequest
<1> PICK i \in DOMAIN session : i = areq[q].token
  BY <1>1 DEF SessionsInv, TokensKept
<1>2. areq[q] \in AuthRequest
  BY <1>1, SessionFacts
<1>3. CASE session[i].revoked
  <2>1. To(q, "reused")
    BY <1>3 DEF ReadSession
  <2>2. areq'[q].pc = "reused"
    BY <2>1 DEF To, SessionsInv, SessionsTypeOK
  <2>3. UNCHANGED shaken
    BY <2>2 DEF ReadSession
  <2> QED BY <1>1, <2>1, <2>3, MovesInv
<1>4. CASE ~session[i].revoked
  <2> PICK f \in SessionIds : f = Family(q)
    BY <1>1, SessionFacts
  <2> PICK y : y = [areq[q] EXCEPT !.pc = "valid"]
    OBVIOUS
  <2>1. y \in AuthRequest /\ y.pc = "valid" /\ y.token = i /\ y.kind = "refresh" /\ y.late = areq[q].late
        /\ y # IdleRequest
    BY <1>1, <1>2 DEF AuthRequest, IdleRequest
  <2>2. areq' = [areq EXCEPT ![q] = y] /\ areq'[q] = y /\ \A p \in AuthRequests : p # q => areq'[p] = areq[p]
    BY <1>4 DEF ReadSession, To, SessionsInv, SessionsTypeOK
  <2>3. ~areq[q].late /\ i \notin spent
    BY <1>1, <1>4 DEF SessionsInv, TokensKept
  <2>4. \A p, g : RefreshOf(p, g)' <=> RefreshOf(p, g) \/ (p = q /\ g = f)
    <3>1. \A p \in AuthRequests : Family(p)' = Family(p) \/ areq[p] = IdleRequest
      BY <1>1, <2>1, <2>2 DEF Family
    <3>2. \A p \in AuthRequests : Refreshing(p)' <=> Refreshing(p) \/ p = q
      BY <2>1, <2>2 DEF Refreshing
    <3>3. \A p \in AuthRequests : Refreshing(p) => areq[p] # IdleRequest
      BY DEF Refreshing, IdleRequest
    <3>4. ~Refreshing(q)
      BY <1>1 DEF Refreshing
    <3> QED BY <1>1, <3>1, <3>2, <3>3, <3>4 DEF RefreshOf
  <2>5. shaken' = (IF \E p : RefreshOf(p, f) THEN shaken \cup {f} ELSE shaken)
    BY <2>1, <2>2 DEF ReadSession, RefreshOf
  <2>6. i \in Live(f)
    BY <1>4 DEF Live, Family
  <2>7. SessionsTypeOK'
    BY <1>1, <2>1, <2>2, <2>5 DEF SessionsInv, SessionsTypeOK
  <2>8. TokensKept'
    <3>1. Suits(y, session', spent') /\ DOMAIN session \subseteq DOMAIN session'
      BY <1>1, <2>1, <2>3 DEF Suits
    <3>2. \A k \in spent' : session'[k].revoked
      BY <1>1 DEF SessionsInv, TokensKept
    <3> QED BY <1>1, <2>2, <3>1, <3>2, TokensStand
  <2>9. OverKept'
    <3>1. f \notin over
      BY <2>6 DEF SessionsInv, OverKept
    <3> QED BY <1>1, <2>4, <3>1 DEF SessionsInv, OverKept, Live
  <2>10. LineKept'
    <3> SUFFICES ASSUME NEW g \in SessionIds \ shaken'
                 PROVE  /\ \A p, r : RefreshOf(p, g)' /\ RefreshOf(r, g)' => p = r
                        /\ \A r : RefreshOf(r, g)' /\ areq'[r].pc = "valid" => Live(g) \subseteq {areq'[r].token}
                        /\ \A r : RefreshOf(r, g)' => \E k : Live(g) \subseteq {areq'[r].token, k}
                        /\ (\A r : ~RefreshOf(r, g)') => \E k : Live(g) \subseteq {k}
      BY <1>1 DEF LineKept, Live
    <3>1. g \notin shaken
      BY <2>5
    <3>2. CASE g # f
      <4>1. \A p : RefreshOf(p, g) => p # q /\ areq'[p] = areq[p]
        BY <1>1, <2>2 DEF RefreshOf, Refreshing
      <4> QED BY <2>4, <3>1, <3>2, <4>1 DEF SessionsInv, LineKept
    <3>3. CASE g = f
      <4>1. \A p : ~RefreshOf(p, f)
        BY <2>5, <3>3
      <4>2. Live(f) \subseteq {i}
        BY <2>6, <3>1, <3>3, <4>1 DEF SessionsInv, LineKept
      <4> QED BY <2>1, <2>2, <2>4, <3>3, <4>1, <4>2
    <3> QED BY <3>2, <3>3
  <2> QED BY <2>7, <2>8, <2>9, <2>10 DEF SessionsInv
<1> QED BY <1>3, <1>4

LEMMA IssueNextInv == ASSUME SessionsInv, NEW q \in AuthRequests, IssueNext(q) PROVE SessionsInv'
<1>1. /\ areq[q].pc = "valid" /\ areq[q] # IdleRequest /\ Len(session) < MaxSessions
      /\ UNCHANGED <<spent, over, shaken>>
  BY DEF IssueNext, IdleRequest
<1> PICK f \in SessionIds : f = Family(q)
  BY <1>1, SessionFacts
<1> PICK i \in DOMAIN session : i = areq[q].token
  BY <1>1 DEF SessionsInv, TokensKept
<1> PICK s : s = [family |-> f, revoked |-> FALSE]
  OBVIOUS
<1>2. f <= Len(session) + 1
  <2>1. f \in 1..Len(session)
    BY SessionFacts DEF Family
  <2> QED BY <2>1, SessionFacts
<1>3. session' = Append(session, s)
  BY DEF IssueNext
<1> PICK n : n = Len(session')
  OBVIOUS
<1>4. /\ session' \in Seq(AuthSession) /\ Len(session') <= MaxSessions
      /\ DOMAIN session' = DOMAIN session \cup {n} /\ n \notin DOMAIN session
      /\ \A k \in DOMAIN session : session'[k] = session[k]
      /\ \A k \in DOMAIN session' : session'[k].family <= k
      /\ \A g : Live(g)' = Live(g) \cup (IF g = f THEN {n} ELSE {})
  BY <1>1, <1>2, <1>3, AddsSession
<1>5. areq[q] \in AuthRequest /\ areq[q].kind = "refresh" /\ ~areq[q].late
  BY <1>1, SessionFacts DEF SessionsInv, TokensKept
<1> PICK y : y = [areq[q] EXCEPT !.pc = "issued"]
  OBVIOUS
<1>6. y \in AuthRequest /\ y.pc = "issued" /\ y.token = i /\ y.kind = "refresh" /\ ~y.late /\ y # IdleRequest
  BY <1>5 DEF AuthRequest, IdleRequest
<1>7. areq' = [areq EXCEPT ![q] = y] /\ areq'[q] = y /\ \A p \in AuthRequests : p # q => areq'[p] = areq[p]
  BY DEF IssueNext, To, SessionsInv, SessionsTypeOK
<1>8. \A p, g : RefreshOf(p, g)' <=> RefreshOf(p, g)
  <2>1. \A p \in AuthRequests : Refreshing(p) => areq[p] # IdleRequest
    BY DEF Refreshing, IdleRequest
  <2>2. \A p \in AuthRequests : Refreshing(p)' <=> Refreshing(p)
    BY <1>1, <1>6, <1>7 DEF Refreshing
  <2>3. \A p \in AuthRequests : Refreshing(p) => areq[p].token \in DOMAIN session /\ areq'[p].token = areq[p].token
    BY <1>6, <1>7, <2>1 DEF SessionsInv, TokensKept
  <2>4. \A p \in AuthRequests : Refreshing(p) => Family(p)' = Family(p)
    BY <1>4, <2>3 DEF Family
  <2> QED BY <2>2, <2>4 DEF RefreshOf
<1>9. RefreshOf(q, f)
  BY <1>1 DEF RefreshOf, Refreshing
<1>10. SessionsTypeOK'
  BY <1>1, <1>4, <1>6, <1>7 DEF SessionsInv, SessionsTypeOK
<1>11. TokensKept'
  <2>1. Suits(y, session', spent') /\ DOMAIN session \subseteq DOMAIN session'
    BY <1>4, <1>6 DEF Suits
  <2>2. \A k \in spent' : session'[k].revoked
    BY <1>1, <1>4 DEF SessionsInv, SessionsTypeOK, TokensKept
  <2> QED BY <1>1, <1>7, <2>1, <2>2, TokensStand
<1>12. OverKept'
  <2>1. f \notin over
    BY <1>9 DEF SessionsInv, OverKept
  <2> QED BY <1>1, <1>4, <1>8, <2>1 DEF SessionsInv, OverKept
<1>13. LineKept'
  <2> SUFFICES ASSUME NEW g \in SessionIds \ shaken
               PROVE  /\ \A p, r : RefreshOf(p, g)' /\ RefreshOf(r, g)' => p = r
                      /\ \A r : RefreshOf(r, g)' /\ areq'[r].pc = "valid" => Live(g)' \subseteq {areq'[r].token}
                      /\ \A r : RefreshOf(r, g)' => \E k : Live(g)' \subseteq {areq'[r].token, k}
                      /\ (\A r : ~RefreshOf(r, g)') => \E k : Live(g)' \subseteq {k}
    BY <1>1 DEF LineKept
  <2>1. CASE g # f
    <3>1. \A p : RefreshOf(p, g) => p # q /\ areq'[p] = areq[p]
      BY <1>7, <2>1 DEF RefreshOf
    <3>2. Live(g)' = Live(g)
      BY <1>4, <2>1
    <3> QED BY ZenonT(60), <1>8, <3>1, <3>2 DEF SessionsInv, LineKept
  <2>2. CASE g = f
    <3>1. \A p : RefreshOf(p, f) => p = q
      BY <1>9, <2>2 DEF SessionsInv, LineKept
    <3>2. Live(f) \subseteq {i}
      BY <1>1, <1>9, <2>2 DEF SessionsInv, LineKept
    <3>3. Live(f)' \subseteq {i, n}
      BY <1>4, <3>2
    <3> QED BY ZenonT(60), <1>6, <1>7, <1>8, <1>9, <2>2, <3>1, <3>3
  <2> QED BY <2>1, <2>2
<1> QED BY <1>10, <1>11, <1>12, <1>13 DEF SessionsInv

\* A refresh leaves its family: done with it, or by a death that shakes it.
LEMMA RefreshLeaves ==
    ASSUME SessionsInv, SessionsRest, NEW q \in AuthRequests, Leave(q), Refreshing(q),
           spent \subseteq spent', spent' \subseteq DOMAIN session,
           \A i \in spent' : session'[i].revoked, UNCHANGED over,
           \/ shaken' = shaken \cup {Family(q)}
           \/ shaken' = shaken /\ areq[q].pc = "issued" /\ session'[areq[q].token].revoked
    PROVE  SessionsInv'
<1>1. areq[q] # IdleRequest
  BY DEF Refreshing, IdleRequest
<1> PICK f \in SessionIds : f = Family(q)
  BY <1>1, SessionFacts
<1>2. areq' = [areq EXCEPT ![q] = IdleRequest] /\ areq'[q] = IdleRequest
      /\ \A p \in AuthRequests : p # q => areq'[p] = areq[p]
  BY DEF Leave, SessionsInv, SessionsTypeOK
<1>3. \A p, g : RefreshOf(p, g)' <=> RefreshOf(p, g) /\ p # q
  <2>1. \A p \in AuthRequests : Refreshing(p) => areq[p].token \in DOMAIN session
    BY DEF Refreshing, IdleRequest, SessionsInv, TokensKept
  <2>2. \A p \in AuthRequests : Refreshing(p)' <=> Refreshing(p) /\ p # q
    BY <1>2 DEF Refreshing, IdleRequest
  <2>3. \A p \in AuthRequests : Refreshing(p) /\ p # q => Family(p)' = Family(p)
    BY <1>2, <2>1 DEF Family, SessionsRest
  <2> QED BY <2>2, <2>3 DEF RefreshOf
<1>4. SessionsTypeOK'
  BY <1>2 DEF SessionsInv, SessionsTypeOK, SessionsRest
<1>5. TokensKept'
  <2>1. Suits(IdleRequest, session', spent') /\ DOMAIN session \subseteq DOMAIN session'
    BY DEF Suits, SessionsRest
  <2> QED BY <1>2, <2>1, TokensStand
<1>6. OverKept'
  BY <1>3, LiveFewer DEF SessionsInv, OverKept, SessionsRest
<1>7. LineKept'
  <2> SUFFICES ASSUME NEW g \in SessionIds \ shaken'
               PROVE  /\ \A p, r : RefreshOf(p, g)' /\ RefreshOf(r, g)' => p = r
                      /\ \A r : RefreshOf(r, g)' /\ areq'[r].pc = "valid" => Live(g)' \subseteq {areq'[r].token}
                      /\ \A r : RefreshOf(r, g)' => \E k : Live(g)' \subseteq {areq'[r].token, k}
                      /\ (\A r : ~RefreshOf(r, g)') => \E k : Live(g)' \subseteq {k}
    BY DEF LineKept
  <2>1. g \in SessionIds \ shaken /\ Live(g)' \subseteq Live(g)
    BY LiveFewer
  <2>2. CASE g # f
    <3>1. \A p : RefreshOf(p, g) => p # q /\ areq'[p] = areq[p]
      BY <1>2, <2>2 DEF RefreshOf
    <3>2. \A r : RefreshOf(r, g) => \E k : Live(g)' \subseteq {areq'[r].token, k}
      <4> SUFFICES ASSUME NEW r, RefreshOf(r, g) PROVE \E k : Live(g)' \subseteq {areq'[r].token, k}
        OBVIOUS
      <4>1. PICK k : Live(g) \subseteq {areq[r].token, k}
        BY <2>1 DEF SessionsInv, LineKept
      <4> QED BY <2>1, <3>1, <4>1
    <3>3. (\A r : ~RefreshOf(r, g)) => \E k : Live(g)' \subseteq {k}
      <4> SUFFICES ASSUME \A r : ~RefreshOf(r, g) PROVE \E k : Live(g)' \subseteq {k}
        OBVIOUS
      <4>1. PICK k : Live(g) \subseteq {k}
        BY <2>1 DEF SessionsInv, LineKept
      <4> QED BY <2>1, <4>1
    <3> QED BY <1>3, <2>1, <3>1, <3>2, <3>3 DEF SessionsInv, LineKept
  <2>3. CASE g = f
    <3>1. shaken' = shaken /\ areq[q].pc = "issued" /\ session'[areq[q].token].revoked
      BY <2>3
    <3>2. RefreshOf(q, f)
      BY DEF RefreshOf
    <3>3. \A p : RefreshOf(p, f) => p = q
      BY <2>1, <2>3, <3>2 DEF SessionsInv, LineKept
    <3>4. PICK k : Live(f) \subseteq {areq[q].token, k}
      BY <2>1, <2>3, <3>2 DEF SessionsInv, LineKept
    <3>5. areq[q].token \notin Live(f)'
      BY <3>1 DEF Live
    <3>6. Live(f)' \subseteq {k}
      BY <2>1, <2>3, <3>4, <3>5
    <3> QED BY <1>3, <2>3, <3>3, <3>6
  <2> QED BY <2>2, <2>3
<1> QED BY <1>4, <1>5, <1>6, <1>7 DEF SessionsInv

LEMMA RevokeReplacedInv == ASSUME SessionsInv, NEW q \in AuthRequests, RevokeReplaced(q) PROVE SessionsInv'
<1>1. /\ areq[q].pc = "issued" /\ areq[q] # IdleRequest /\ Refreshing(q) /\ Leave(q)
      /\ session' = [session EXCEPT ![areq[q].token].revoked = TRUE]
      /\ spent' = spent \cup {areq[q].token} /\ UNCHANGED <<over, shaken>>
  BY DEF RevokeReplaced, RevokedBy, IdleRequest, Refreshing
<1>2. areq[q].token \in DOMAIN session
  BY <1>1 DEF SessionsInv, TokensKept
<1>3. SessionsRest /\ session'[areq[q].token].revoked
  BY <1>1, <1>2, SessionsRevoked
<1>4. spent' \subseteq DOMAIN session /\ \A i \in spent' : session'[i].revoked
  BY <1>1, <1>2, <1>3 DEF SessionsInv, SessionsTypeOK, TokensKept, SessionsRest
<1> QED BY <1>1, <1>3, <1>4, RefreshLeaves

LEMMA DieInv == ASSUME SessionsInv, NEW q \in AuthRequests, Die(q) PROVE SessionsInv'
<1>1. Leave(q) /\ UNCHANGED <<session, spent, over>> /\ SessionsRest
  BY SessionsStand DEF Die
<1>2. spent \subseteq DOMAIN session /\ over \subseteq SessionIds /\ \A i \in spent : session'[i].revoked
  BY <1>1 DEF SessionsInv, SessionsTypeOK, TokensKept
<1>3. CASE Refreshing(q)
  BY <1>1, <1>2, <1>3, RefreshLeaves DEF Die
<1>4. CASE ~Refreshing(q)
  BY <1>1, <1>2, <1>4, LeavesInv DEF Die
<1> QED BY <1>3, <1>4

LEMMA SessionsNextInv == SessionsInv /\ [SessionsNext]_sessionsVars => SessionsInv'
<1> SUFFICES ASSUME SessionsInv, [SessionsNext]_sessionsVars PROVE SessionsInv'
  OBVIOUS
<1>1. CASE UNCHANGED sessionsVars
  <2>1. UNCHANGED <<session, areq, spent, over, shaken>> /\ SessionsRest
    BY <1>1, SessionsStand DEF sessionsVars
  <2>2. \A p, f : (RefreshOf(p, f)' <=> RefreshOf(p, f)) /\ areq'[p] = areq[p]
    BY <2>1 DEF RefreshOf, Refreshing, Family
  <2>3. SessionsTypeOK' /\ TokensKept'
    BY <2>1 DEF SessionsInv, SessionsTypeOK, TokensKept
  <2>4. OverKept' /\ LineKept'
    BY <2>1, <2>2, QuietOver, QuietLine
  <2> QED BY <2>3, <2>4 DEF SessionsInv
<1> QED BY <1>1, LoginInv, ArriveInv, ReadSessionInv, RevokeFamilyInv, IssueNextInv, RevokeReplacedInv,
           QuietSteps, DieInv DEF SessionsNext

LEMMA SessionsAlways == SessionsSpec => []SessionsInv
BY SessionsInitInv, SessionsNextInv, PTL DEF SessionsSpec

LEMMA LinesAreLinear == SessionsInv => FamilyLinear
<1> SUFFICES ASSUME SessionsInv, NEW f \in SessionIds \ shaken,
                    NEW unrevoked, unrevoked = {i \in DOMAIN session : session[i].family = f /\ ~session[i].revoked},
                    NEW issuing, issuing = {q \in AuthRequests : areq[q].pc = "issued" /\ Family(q) = f}
             PROVE  Cardinality(unrevoked) <= 1 + Cardinality(issuing)
  BY DEF FamilyLinear
<1>1. unrevoked = Live(f) /\ issuing = {q \in AuthRequests : RefreshOf(q, f) /\ areq[q].pc = "issued"}
  BY DEF Live, RefreshOf, Refreshing
<1>2. \A i, k : unrevoked \subseteq {i, k} => Cardinality(unrevoked) \in Nat /\ Cardinality(unrevoked) <= 2
                                         /\ (i = k => Cardinality(unrevoked) <= 1)
  <2> SUFFICES ASSUME NEW i, NEW k, unrevoked \subseteq {i, k}
               PROVE  Cardinality(unrevoked) \in Nat /\ Cardinality(unrevoked) <= 2
                      /\ (i = k => Cardinality(unrevoked) <= 1)
    OBVIOUS
  <2>1. IsFiniteSet({i}) /\ Cardinality({i}) = 1 /\ IsFiniteSet({i} \cup {k})
        /\ Cardinality({i} \cup {k}) = IF k \in {i} THEN 1 ELSE 1 + 1
    BY FS_Singleton, FS_AddElement
  <2>2. {i} \cup {k} = {i, k}
    OBVIOUS
  <2>3. Cardinality(unrevoked) <= Cardinality({i, k}) /\ IsFiniteSet(unrevoked)
    BY <2>1, <2>2, FS_Subset
  <2>4. Cardinality(unrevoked) \in Nat
    BY ONLY <2>3, FS_CardinalityType
  <2>5. Cardinality({i, k}) <= 2 /\ (i = k => Cardinality({i, k}) <= 1)
    BY ONLY <2>1, <2>2
  <2>6. Cardinality({i, k}) \in Nat
    BY ONLY <2>1, <2>2
  <2> QED BY ONLY <2>3, <2>4, <2>5, <2>6
<1>3. ASSUME NEW q, q \in issuing PROVE issuing = {q} /\ \E i : unrevoked \subseteq {areq[q].token, i}
  BY <1>1, <1>3 DEF SessionsInv, LineKept
<1>4. CASE issuing # {}
  <2>1. PICK q : issuing = {q} /\ \E i : unrevoked \subseteq {areq[q].token, i}
    BY <1>3, <1>4
  <2>2. Cardinality(issuing) = 1 /\ Cardinality(unrevoked) <= 2
    BY <1>2, <2>1, FS_Singleton
  <2> QED BY <2>2
<1>5. CASE issuing = {}
  <2>1. \E i : unrevoked \subseteq {i, i}
    <3>1. CASE \E q : RefreshOf(q, f)
      <4>1. PICK q : RefreshOf(q, f)
        BY <3>1
      <4>2. areq[q].pc = "valid"
        BY <1>1, <1>5, <4>1 DEF RefreshOf, Refreshing
      <4> QED BY <1>1, <4>1, <4>2 DEF SessionsInv, LineKept
    <3>2. CASE \A q : ~RefreshOf(q, f)
      BY <1>1, <3>2 DEF SessionsInv, LineKept
    <3> QED BY <3>1, <3>2
  <2>2. Cardinality(unrevoked) <= 1
    BY <1>2, <2>1
  <2>3. Cardinality(issuing) = 0
    BY <1>5, FS_EmptySet
  <2> QED BY <2>2, <2>3
<1> QED BY <1>4, <1>5

LEMMA SessionsRetired == SessionsInv => SpentRefused /\ FamilyLinear /\ ReuseEndsFamily
<1> SUFFICES ASSUME SessionsInv PROVE SpentRefused /\ ReuseEndsFamily
  BY LinesAreLinear
<1>1. SpentRefused
  BY DEF SessionsInv, TokensKept, SpentRefused
<1>2. ReuseEndsFamily
  BY DEF SessionsInv, OverKept, ReuseEndsFamily, Live
<1> QED BY <1>1, <1>2

-----------------------------------------------------------------------------
(***************************************************************************)
(* API keys                                                                *)
(***************************************************************************)
Succeeded(k) == \E j \in DOMAIN apiKey : apiKey[j].from = k

KeysKept ==
    /\ \A q \in KeyRequests : keyReq[q] # NoKeyRequest =>
        /\ keyReq[q].key \in DOMAIN apiKey
        /\ keyReq[q].kind = "revoke" => keyReq[q].key \in renounced
        /\ keyReq[q].pc = "created" => Succeeded(keyReq[q].key)
        /\ keyReq[q].late => keyReq[q].key \in retired /\ ~KeyAt(q, "validate", "served")
    /\ \A k \in retired : apiKey[k].revoked
    /\ \A k \in DOMAIN apiKey : apiKey[k].revoked => k \in renounced \/ Succeeded(k)

KeysInv == ApiKeysTypeOK /\ KeysKept

LEMMA KeyFacts ==
    ASSUME KeysInv
    PROVE  /\ apiKey \in Seq(ApiKey) /\ Len(apiKey) \in Nat /\ DOMAIN apiKey = 1..Len(apiKey)
           /\ Len(apiKey) <= MaxKeys /\ MaxKeys \in Nat
           /\ \A k \in DOMAIN apiKey : apiKey[k] \in ApiKey /\ apiKey[k].from < k /\ k \in KeyIds
           /\ \A q \in KeyRequests : keyReq[q] # NoKeyRequest =>
                /\ keyReq[q] \in KeyRequest /\ keyReq[q].key \in DOMAIN apiKey
           /\ \A q \in KeyRequests : keyReq[q].pc # "idle" => keyReq[q] # NoKeyRequest
<1>1. /\ apiKey \in Seq(ApiKey) /\ Len(apiKey) \in Nat /\ DOMAIN apiKey = 1..Len(apiKey)
      /\ Len(apiKey) <= MaxKeys /\ MaxKeys \in Nat
  BY LenProperties, ApiKeysAssumption DEF KeysInv, ApiKeysTypeOK, ApiKeysAssumption
<1>2. \A k \in DOMAIN apiKey : apiKey[k] \in ApiKey /\ apiKey[k].from < k /\ k \in KeyIds
  BY <1>1, ElementOfSeq DEF KeysInv, ApiKeysTypeOK, KeyIds
<1>3. \A q \in KeyRequests : keyReq[q] # NoKeyRequest =>
          keyReq[q] \in KeyRequest /\ keyReq[q].key \in DOMAIN apiKey
  BY DEF KeysInv, ApiKeysTypeOK, KeysKept
<1> QED BY <1>1, <1>2, <1>3 DEF NoKeyRequest

\* Keys that are only ever revoked, and requests that move or leave.
LEMMA KeysMove ==
    ASSUME KeysInv, NEW q \in KeyRequests, NEW y \in {NoKeyRequest} \cup KeyRequest,
           keyReq' = [keyReq EXCEPT ![q] = y], UNCHANGED apiKey,
           retired' = retired, renounced \subseteq renounced', renounced' \subseteq DOMAIN apiKey,
           y # NoKeyRequest =>
              /\ y.key \in DOMAIN apiKey
              /\ y.kind = "revoke" => y.key \in renounced'
              /\ y.pc # "created"
              /\ y.late => y.key \in retired /\ ~(y.kind = "validate" /\ y.pc = "served")
    PROVE  KeysInv'
<1>1. keyReq'[q] = y /\ \A p \in KeyRequests : p # q => keyReq'[p] = keyReq[p]
  BY DEF KeysInv, ApiKeysTypeOK
<1>2. ApiKeysTypeOK'
  BY DEF KeysInv, ApiKeysTypeOK
<1>3. \A k : Succeeded(k)' <=> Succeeded(k)
  BY DEF Succeeded
<1>4. KeysKept'
  BY <1>1, <1>3 DEF KeysInv, KeysKept, KeyAt
<1> QED BY <1>2, <1>4 DEF KeysInv

LEMMA KeyLeaves ==
    ASSUME KeysInv, NEW q \in KeyRequests, KeyLeave(q), UNCHANGED <<apiKey, retired, renounced>>
    PROVE  KeysInv'
<1>1. renounced \subseteq DOMAIN apiKey
  BY DEF KeysInv, ApiKeysTypeOK
<1> QED BY <1>1, KeysMove DEF KeyLeave

LEMMA KeyMovesTo ==
    ASSUME KeysInv, NEW q \in KeyRequests, NEW pc \in {"valid", "served"}, KeyTo(q, pc),
           keyReq[q].pc = "arrived", pc = "served" => ~keyReq[q].late,
           UNCHANGED <<apiKey, retired, renounced>>
    PROVE  KeysInv'
<1>1. keyReq[q] \in KeyRequest /\ keyReq[q] # NoKeyRequest
  BY KeyFacts
<1> PICK y : y = [keyReq[q] EXCEPT !.pc = pc]
  OBVIOUS
<1>2. /\ y \in KeyRequest /\ y.pc = pc /\ y.kind = keyReq[q].kind /\ y.key = keyReq[q].key
      /\ y.late = keyReq[q].late
  BY <1>1 DEF KeyRequest
<1>3. keyReq' = [keyReq EXCEPT ![q] = y] /\ renounced \subseteq DOMAIN apiKey
  BY DEF KeyTo, KeysInv, ApiKeysTypeOK
<1>4. /\ y.key \in DOMAIN apiKey /\ (y.kind = "revoke" => y.key \in renounced)
      /\ (y.late => y.key \in retired)
  BY <1>1, <1>2 DEF KeysInv, KeysKept
<1> QED BY <1>2, <1>3, <1>4, KeysMove

\* A key is added: what had a successor keeps it.
LEMMA AddsKey ==
    ASSUME KeysInv, NEW f \in 0..MaxKeys, NEW k, k = [from |-> f, revoked |-> FALSE],
           apiKey' = Append(apiKey, k), Len(apiKey) < MaxKeys, f = 0 \/ f \in DOMAIN apiKey
    PROVE  /\ apiKey' \in Seq(ApiKey) /\ Len(apiKey') <= MaxKeys
           /\ \A j \in DOMAIN apiKey' : apiKey'[j].from < j
           /\ DOMAIN apiKey \subseteq DOMAIN apiKey'
           /\ \A j \in DOMAIN apiKey : apiKey'[j] = apiKey[j]
           /\ \A j \in DOMAIN apiKey' : j \notin DOMAIN apiKey => ~apiKey'[j].revoked
           /\ \A j : Succeeded(j) \/ j = f => Succeeded(j)'
<1>1. RowAdded(ApiKey, apiKey', apiKey, k)
  BY KeyFacts, AddsRow DEF ApiKey
<1> PICK n \in Nat : n = Len(apiKey)
  BY KeyFacts
<1>2. Len(apiKey') = n + 1 /\ n + 1 <= MaxKeys /\ f < n + 1
  BY <1>1, KeyFacts DEF RowAdded
<1>3. \A j \in DOMAIN apiKey' : apiKey'[j].from < j
  <2> SUFFICES ASSUME NEW j \in DOMAIN apiKey' PROVE apiKey'[j].from < j
    OBVIOUS
  <2>1. CASE j = n + 1
    <3>1. apiKey'[j] = k /\ k.from = f
      BY <1>1, <1>2, <2>1 DEF RowAdded
    <3> QED BY <1>2, <2>1, <3>1
  <2>2. CASE j # n + 1
    BY <1>1, <1>2, <2>2, KeyFacts DEF RowAdded
  <2> QED BY <2>1, <2>2
<1>4. \A j : Succeeded(j) \/ j = f => Succeeded(j)'
  BY <1>1 DEF RowAdded, Succeeded
<1> QED BY <1>1, <1>2, <1>3, <1>4 DEF RowAdded

LEMMA CreateKeyInv == ASSUME KeysInv, CreateKey PROVE KeysInv'
<1> PICK k : k = [from |-> 0, revoked |-> FALSE]
  OBVIOUS
<1>1. apiKey' = Append(apiKey, k) /\ Len(apiKey) < MaxKeys /\ UNCHANGED <<keyReq, retired, renounced>>
      /\ 0 \in 0..MaxKeys
  BY KeyFacts DEF CreateKey
<1>2. /\ apiKey' \in Seq(ApiKey) /\ Len(apiKey') <= MaxKeys
      /\ \A j \in DOMAIN apiKey' : apiKey'[j].from < j
      /\ DOMAIN apiKey \subseteq DOMAIN apiKey'
      /\ \A j \in DOMAIN apiKey : apiKey'[j] = apiKey[j]
      /\ \A j \in DOMAIN apiKey' : j \notin DOMAIN apiKey => ~apiKey'[j].revoked
      /\ \A j : Succeeded(j) => Succeeded(j)'
  BY <1>1, AddsKey
<1>3. ApiKeysTypeOK'
  BY <1>1, <1>2 DEF KeysInv, ApiKeysTypeOK
<1>4. KeysKept'
  BY <1>1, <1>2 DEF KeysInv, ApiKeysTypeOK, KeysKept, KeyAt
<1> QED BY <1>3, <1>4 DEF KeysInv

LEMMA RotateCreateInv == ASSUME KeysInv, NEW q \in KeyRequests, RotateCreate(q) PROVE KeysInv'
<1>1. /\ keyReq[q].pc = "valid" /\ keyReq[q].kind = "rotate" /\ Len(apiKey) < MaxKeys
      /\ UNCHANGED <<retired, renounced>>
  BY DEF RotateCreate, KeyAt
<1>2. keyReq[q] \in KeyRequest /\ keyReq[q] # NoKeyRequest
  BY <1>1, KeyFacts
<1> PICK f \in DOMAIN apiKey : f = keyReq[q].key
  BY <1>2, KeyFacts
<1> PICK k : k = [from |-> f, revoked |-> FALSE]
  OBVIOUS
<1>3. apiKey' = Append(apiKey, k) /\ f \in 0..MaxKeys
  BY KeyFacts DEF RotateCreate, KeyIds
<1>4. /\ apiKey' \in Seq(ApiKey) /\ Len(apiKey') <= MaxKeys
      /\ \A j \in DOMAIN apiKey' : apiKey'[j].from < j
      /\ DOMAIN apiKey \subseteq DOMAIN apiKey'
      /\ \A j \in DOMAIN apiKey : apiKey'[j] = apiKey[j]
      /\ \A j \in DOMAIN apiKey' : j \notin DOMAIN apiKey => ~apiKey'[j].revoked
      /\ \A j : Succeeded(j) \/ j = f => Succeeded(j)'
  BY <1>1, <1>3, AddsKey
<1> PICK y : y = [keyReq[q] EXCEPT !.pc = "created"]
  OBVIOUS
<1>5. /\ y \in KeyRequest /\ y.pc = "created" /\ y.kind = "rotate" /\ y.key = f /\ y.late = keyReq[q].late
  BY <1>1, <1>2 DEF KeyRequest
<1>6. keyReq' = [keyReq EXCEPT ![q] = y] /\ keyReq'[q] = y
      /\ \A p \in KeyRequests : p # q => keyReq'[p] = keyReq[p]
  BY DEF RotateCreate, KeyTo, KeysInv, ApiKeysTypeOK
<1>7. ApiKeysTypeOK'
  BY <1>1, <1>4, <1>5, <1>6 DEF KeysInv, ApiKeysTypeOK
<1>8. KeysKept'
  BY <1>1, <1>2, <1>4, <1>5, <1>6 DEF KeysInv, ApiKeysTypeOK, KeysKept, KeyAt
<1> QED BY <1>7, <1>8 DEF KeysInv

LEMMA RetireInv ==
    ASSUME KeysInv, NEW q \in KeyRequests, Retire(q), keyReq[q] # NoKeyRequest,
           keyReq[q].key \in renounced \/ Succeeded(keyReq[q].key)
    PROVE  KeysInv'
<1> PICK k \in DOMAIN apiKey : k = keyReq[q].key
  BY KeyFacts
<1> PICK e : e = [apiKey[k] EXCEPT !.revoked = TRUE]
  OBVIOUS
<1>1. e \in ApiKey /\ e.revoked = TRUE /\ e.from = apiKey[k].from
  BY KeyFacts DEF ApiKey
<1>2. apiKey' = [apiKey EXCEPT ![k] = e] /\ retired' = retired \cup {k} /\ UNCHANGED renounced
      /\ keyReq' = [keyReq EXCEPT ![q] = NoKeyRequest]
  BY DEF Retire, RetiredBy, KeyLeave
<1>3. RowWritten(ApiKey, apiKey', apiKey, k, e)
  BY <1>1, <1>2, KeyFacts, WritesRow
<1>4. /\ apiKey' \in Seq(ApiKey) /\ Len(apiKey') = Len(apiKey) /\ DOMAIN apiKey' = DOMAIN apiKey
      /\ \A j \in DOMAIN apiKey : /\ apiKey'[j].from = apiKey[j].from
                                  /\ apiKey[j].revoked \/ j = k => apiKey'[j].revoked
                                  /\ apiKey'[j].revoked => apiKey[j].revoked \/ j = k
  BY <1>1, <1>3 DEF RowWritten
<1>5. keyReq'[q] = NoKeyRequest /\ \A p \in KeyRequests : p # q => keyReq'[p] = keyReq[p]
  BY <1>2 DEF KeysInv, ApiKeysTypeOK
<1>6. ApiKeysTypeOK'
  BY <1>2, <1>4 DEF KeysInv, ApiKeysTypeOK
<1>7. \A j : Succeeded(j)' <=> Succeeded(j)
  BY <1>4 DEF Succeeded
<1>8. KeysKept'
  BY <1>2, <1>4, <1>5, <1>7 DEF KeysInv, ApiKeysTypeOK, KeysKept, KeyAt
<1> QED BY <1>6, <1>8 DEF KeysInv

LEMMA KeyArriveInv ==
    ASSUME KeysInv, NEW q \in KeyRequests, NEW k \in DOMAIN apiKey,
           NEW kind \in {"revoke", "rotate", "validate"}, KeyArrive(q, kind, k)
    PROVE  KeysInv'
<1> PICK late : late = (k \in retired)
  OBVIOUS
<1> PICK y : y = [pc |-> "arrived", kind |-> kind, key |-> k, late |-> late]
  OBVIOUS
<1>1. y \in KeyRequest
  <2>1. late \in BOOLEAN /\ k \in KeyIds
    BY KeyFacts
  <2> QED BY <2>1 DEF KeyRequest
<1>2. keyReq' = [keyReq EXCEPT ![q] = y] /\ UNCHANGED <<apiKey, retired>>
  BY DEF KeyArrive
<1>3. /\ renounced \subseteq renounced' /\ renounced' \subseteq DOMAIN apiKey
      /\ kind = "revoke" => k \in renounced'
  BY DEF KeyArrive, KeysInv, ApiKeysTypeOK
<1> QED BY <1>1, <1>2, <1>3, KeysMove

LEMMA ApiKeysInitInv == ApiKeysInit => KeysInv
BY ApiKeysAssumption DEF ApiKeysInit, KeysInv, ApiKeysTypeOK, KeysKept, ApiKeysAssumption

LEMMA ApiKeysNextInv == KeysInv /\ [ApiKeysNext]_apiKeysVars => KeysInv'
<1> SUFFICES ASSUME KeysInv, [ApiKeysNext]_apiKeysVars PROVE KeysInv'
  OBVIOUS
<1>1. ASSUME NEW q \in KeyRequests, RevokeKey(q) PROVE KeysInv'
  <2>1. keyReq[q] # NoKeyRequest /\ keyReq[q].key \in renounced /\ Retire(q)
    BY <1>1, KeyFacts DEF RevokeKey, KeyAt, KeysInv, KeysKept
  <2> QED BY <2>1, RetireInv
<1>2. ASSUME NEW q \in KeyRequests, RotateRevoke(q) PROVE KeysInv'
  <2>1. keyReq[q] # NoKeyRequest /\ Succeeded(keyReq[q].key) /\ Retire(q)
    BY <1>2, KeyFacts DEF RotateRevoke, RetireAfter, KeysInv, KeysKept
  <2> QED BY <2>1, RetireInv
<1>3. ASSUME NEW q \in KeyRequests, RotateRead(q) PROVE KeysInv'
  BY <1>3, KeyLeaves, KeyMovesTo DEF RotateRead, KeyAt
<1>4. ASSUME NEW q \in KeyRequests, ValidateKey(q) PROVE KeysInv'
  <2>1. keyReq[q].pc = "arrived" /\ UNCHANGED <<apiKey, retired, renounced>>
    BY <1>4 DEF ValidateKey, KeyAt
  <2>2. ~apiKey[keyReq[q].key].revoked => ~keyReq[q].late
    BY <2>1, KeyFacts DEF KeysInv, KeysKept
  <2> QED BY <1>4, <2>1, <2>2, KeyLeaves, KeyMovesTo DEF ValidateKey
<1>5. ASSUME NEW q \in KeyRequests, KeyDepart(q) PROVE KeysInv'
  BY <1>5, KeyLeaves DEF KeyDepart
<1>6. CASE UNCHANGED apiKeysVars
  BY <1>6 DEF apiKeysVars, KeysInv, ApiKeysTypeOK, KeysKept, Succeeded, KeyAt
<1> QED BY <1>1, <1>2, <1>3, <1>4, <1>5, <1>6, CreateKeyInv, KeyArriveInv, RotateCreateInv DEF ApiKeysNext

LEMMA KeysRetired == KeysInv => RetiredKeyRefused /\ RotationKeepsKey
<1> SUFFICES ASSUME KeysInv PROVE RetiredKeyRefused /\ RotationKeepsKey
  OBVIOUS
<1>1. RetiredKeyRefused
  BY DEF KeysInv, KeysKept, RetiredKeyRefused
<1>2. RotationKeepsKey
  BY DEF KeysInv, KeysKept, RotationKeepsKey, Succeeded
<1> QED BY <1>1, <1>2

\* A session's token or an API key that was replaced or revoked opens nothing any more, and
\* a family of sessions or of keys keeps one that does, for any number of requests that
\* overlap and die (authentication/service.py:77-131, apikeys/service.py).
THEOREM CredentialsRetire == CredentialsSpec => []CredentialsRetired
<1>1. SessionsSpec => [](SpentRefused /\ FamilyLinear /\ ReuseEndsFamily)
  BY SessionsAlways, SessionsRetired, PTL
<1>2. KeysSpec => [](RetiredKeyRefused /\ RotationKeepsKey)
  BY ApiKeysInitInv, ApiKeysNextInv, KeysRetired, PTL DEF KeysSpec
<1>3. (SpentRefused /\ FamilyLinear /\ ReuseEndsFamily) /\ (RetiredKeyRefused /\ RotationKeepsKey)
          => CredentialsRetired
  BY DEF CredentialsRetired
<1> QED BY <1>1, <1>2, <1>3, PTL DEF CredentialsSpec

-----------------------------------------------------------------------------
(***************************************************************************)
(* Invitations                                                             *)
(***************************************************************************)
Made == {"created", "profiled", "assigned"}
Accepting == {"arrived", "found"} \cup Made
AddressOf(i) == invitation[i].email

\* What a request has loaded of an invitation stays what it was or was replaced.
Loaded(a) ==
    acceptor[a] # IdleAcceptor =>
        /\ acceptor[a].id \in DOMAIN invitation
        /\ acceptor[a].pc \in Accepting /\ acceptor[a].dead =>
              /\ acceptor[a].pc = "arrived"
              /\ acceptor[a].token <= invitation[acceptor[a].id].sent
              /\ ~Open(acceptor[a].id, acceptor[a].token)
LoadedKept == \A a \in Acceptors : Loaded(a)

\* What a request that made a user has committed of him.
MadeBy(a) ==
    acceptor[a].pc \in Made =>
        /\ account[Email(a)].user
        /\ acceptor[a].pc \in {"profiled", "assigned"} => account[Email(a)].admitted
        /\ acceptor[a].pc = "assigned" /\ invitation[acceptor[a].id].role => account[Email(a)].role
MadeKept == \A a \in Acceptors : MadeBy(a)

\* It has him to itself, and he has not accepted anything yet.
MadeAlone ==
    \A a, b \in Acceptors :
        acceptor[a].pc \in Made /\ acceptor[b].pc \in Made /\ Email(a) = Email(b) => a = b
MadeFirst ==
    \A a \in Acceptors : \A i \in DOMAIN invitation :
        acceptor[a].pc \in Made /\ invitation[i].accepted => AddressOf(i) # Email(a)

InvitesInv ==
    InvitationsTypeOK /\ LoadedKept /\ MadeKept /\ MadeAlone /\ MadeFirst /\ AcceptedComplete

LEMMA InviteFacts ==
    ASSUME InvitesInv
    PROVE  /\ invitation \in Seq(BetaInvitation) /\ Len(invitation) \in Nat /\ Len(invitation) <= MaxInvitations
           /\ MaxInvitations \in Nat /\ MaxSends \in Nat \ {0} /\ Statuses \subseteq BetaAccessStatus
           /\ \A i \in DOMAIN invitation : /\ invitation[i] \in BetaInvitation /\ i \in InvitationIds
                                           /\ AddressOf(i) \in Emails /\ invitation[i].sent \in 1..MaxSends
           /\ \A m \in Emails : account[m] \in Account
           /\ \A a \in Acceptors : acceptor[a].pc # "idle" =>
                /\ acceptor[a] # IdleAcceptor /\ acceptor[a].id \in DOMAIN invitation
                /\ Email(a) \in Emails /\ Email(a) = AddressOf(acceptor[a].id)
                /\ acceptor[a].pc = "resending" => acceptor[a] \in Resender
                /\ acceptor[a].pc \in Accepting => acceptor[a] \in Acceptor
<1>1. /\ invitation \in Seq(BetaInvitation) /\ Len(invitation) \in Nat /\ Len(invitation) <= MaxInvitations
      /\ MaxInvitations \in Nat /\ MaxSends \in Nat \ {0} /\ Statuses \subseteq BetaAccessStatus
      /\ DOMAIN invitation = 1..Len(invitation)
  BY LenProperties, InvitationsAssumption DEF InvitesInv, InvitationsTypeOK, InvitationsAssumption
<1>2. \A i \in DOMAIN invitation : /\ invitation[i] \in BetaInvitation /\ i \in InvitationIds
                                   /\ AddressOf(i) \in Emails /\ invitation[i].sent \in 1..MaxSends
  <2>1. \A i \in DOMAIN invitation : invitation[i] \in BetaInvitation
    BY <1>1, ElementOfSeq
  <2> QED BY <1>1, <2>1 DEF BetaInvitation, AddressOf, InvitationIds
<1>3. \A m \in Emails : account[m] \in Account
  BY DEF InvitesInv, InvitationsTypeOK
<1>4. ASSUME NEW a \in Acceptors, acceptor[a].pc # "idle"
      PROVE  /\ acceptor[a] # IdleAcceptor /\ acceptor[a].id \in DOMAIN invitation
             /\ Email(a) \in Emails /\ Email(a) = AddressOf(acceptor[a].id)
             /\ acceptor[a].pc = "resending" => acceptor[a] \in Resender
             /\ acceptor[a].pc \in Accepting => acceptor[a] \in Acceptor
  <2>1. acceptor[a] # IdleAcceptor
    BY <1>4 DEF IdleAcceptor
  <2>2. acceptor[a] \in Acceptor \cup Resender
    BY <2>1 DEF InvitesInv, InvitationsTypeOK
  <2>3. acceptor[a].id \in DOMAIN invitation
    BY <2>1 DEF InvitesInv, LoadedKept, Loaded
  <2> QED BY <1>2, <2>1, <2>2, <2>3 DEF Email, AddressOf, Acceptor, Resender, Accepting, Made
<1> QED BY <1>1, <1>2, <1>3, <1>4

\* An invitation keeps its address, its role and its acceptance.
InvitationsStand ==
    /\ invitation' \in Seq(BetaInvitation) /\ Len(invitation') <= MaxInvitations
    /\ DOMAIN invitation \subseteq DOMAIN invitation'
    /\ \A i \in DOMAIN invitation :
        /\ invitation'[i].email = invitation[i].email
        /\ invitation'[i].role = invitation[i].role
        /\ invitation'[i].sent >= invitation[i].sent
        /\ invitation[i].accepted => invitation'[i].accepted
    /\ \A i \in DOMAIN invitation, token \in 1..MaxSends :
          token <= invitation[i].sent /\ ~Open(i, token) => ~Open(i, token)'

\* Accounts only ever gain.
AccountsStand ==
    /\ account' \in [Emails -> Account]
    /\ \A m \in Emails :
        /\ account'[m].profile # "NONE" => account'[m].user
        /\ account[m].user => account'[m].user
        /\ account[m].admitted => account'[m].admitted
        /\ account[m].role => account'[m].role

LEMMA NothingChanges ==
    ASSUME InvitesInv
    PROVE  /\ UNCHANGED invitation => InvitationsStand
           /\ UNCHANGED account => AccountsStand
<1>1. UNCHANGED invitation => InvitationsStand
  BY InviteFacts DEF InvitationsStand, Open
<1>2. UNCHANGED account => AccountsStand
  BY DEF AccountsStand, InvitesInv, InvitationsTypeOK
<1> QED BY <1>1, <1>2


\* One request at most moves, from what it was; and what is accepted now was accepted
\* before or is what that request was assigned for.
Requests == [Acceptors -> {IdleAcceptor} \cup Acceptor \cup Resender]
MovesOn(a) ==
    /\ acceptor'[a].pc \in Made =>
        /\ acceptor[a].pc \in Made \cup {"found"} /\ acceptor'[a].id = acceptor[a].id
        /\ acceptor[a].pc = "found" => ~account[Email(a)].user
Moves(T) ==
    /\ InvitationsStand /\ AccountsStand
    /\ acceptor' \in Requests
    /\ T \subseteq Acceptors
    /\ \A a, b \in T : a = b
    /\ \A b \in Acceptors : b \notin T => acceptor'[b] = acceptor[b]
    /\ \A a \in T : MovesOn(a)
Accepts(T) ==
    \A i \in DOMAIN invitation' :
        invitation'[i].accepted =>
            /\ i \in DOMAIN invitation
            /\ invitation[i].accepted
                 \/ \E a \in T : acceptor[a].pc = "assigned" /\ acceptor[a].id = i /\ acceptor'[a].pc = "idle"

LEMMA MovesType ==
    ASSUME InvitesInv, NEW T, Moves(T)
    PROVE  InvitationsTypeOK'
BY DEF Moves, Requests, InvitationsTypeOK, InvitationsStand, AccountsStand

LEMMA MovesLoaded ==
    ASSUME InvitesInv, NEW T, Moves(T), \A a \in T : Loaded(a)'
    PROVE  LoadedKept'
<1> SUFFICES ASSUME NEW a \in Acceptors PROVE Loaded(a)'
  BY DEF LoadedKept
<1>1. CASE a \in T
  BY <1>1
<1>2. CASE a \notin T
  <2>1. acceptor'[a] = acceptor[a] /\ Loaded(a)
    BY <1>2 DEF Moves, InvitesInv, LoadedKept
  <2>2. acceptor[a].pc \in Accepting => acceptor[a].token \in 1..MaxSends
    BY InviteFacts DEF Acceptor, Accepting, Made, IdleAcceptor
  <2>3. CASE acceptor[a] = IdleAcceptor
    BY <2>1, <2>3 DEF Loaded
  <2>4. CASE acceptor[a] # IdleAcceptor
    <3> PICK i : i = acceptor[a].id
      OBVIOUS
    <3>1. i \in DOMAIN invitation /\ i \in DOMAIN invitation'
      BY <2>1, <2>4 DEF Loaded, Moves, InvitationsStand
    <3>2. CASE ~(acceptor[a].pc \in Accepting /\ acceptor[a].dead)
      BY <2>1, <3>1, <3>2 DEF Loaded
    <3>3. CASE acceptor[a].pc \in Accepting /\ acceptor[a].dead
      <4> PICK token \in 1..MaxSends : token = acceptor[a].token
        BY <2>2, <3>3
      <4>1. acceptor[a].pc = "arrived" /\ token <= invitation[i].sent /\ ~Open(i, token)
        BY <2>1, <2>4, <3>3 DEF Loaded
      <4>2. ~Open(i, token)' /\ invitation'[i].sent >= invitation[i].sent
        BY <3>1, <4>1 DEF Moves, InvitationsStand
      <4>3. invitation'[i].sent \in 1..MaxSends /\ invitation[i].sent \in 1..MaxSends
        <5>1. invitation'[i] \in BetaInvitation
          BY <3>1, MovesType, ElementOfSeq DEF InvitationsTypeOK
        <5> QED BY <3>1, <5>1, InviteFacts DEF BetaInvitation
      <4>4. token <= invitation'[i].sent
        BY <4>1, <4>2, <4>3, InviteFacts
      <4> QED BY <2>1, <3>1, <4>1, <4>2, <4>4 DEF Loaded
    <3> QED BY <3>2, <3>3
  <2> QED BY <2>3, <2>4
<1> QED BY <1>1, <1>2

LEMMA MovesEmail ==
    ASSUME InvitesInv, NEW T, Moves(T), NEW a \in Acceptors, acceptor'[a].pc \in Made
    PROVE  /\ acceptor'[a].id = acceptor[a].id /\ acceptor[a].id \in DOMAIN invitation
           /\ invitation'[acceptor[a].id].role = invitation[acceptor[a].id].role
           /\ Email(a)' = Email(a) /\ Email(a) \in Emails
           /\ acceptor[a].pc \in Made \/ ~account[Email(a)].user
<1>1. /\ acceptor'[a].id = acceptor[a].id /\ acceptor[a].pc \in Made \cup {"found"}
      /\ acceptor[a].pc \in Made \/ ~account[Email(a)].user
  BY DEF Moves, MovesOn
<1>2. acceptor[a].id \in DOMAIN invitation /\ Email(a) \in Emails
  BY <1>1, InviteFacts DEF Made
<1> QED BY <1>1, <1>2 DEF Moves, InvitationsStand, Email

LEMMA MovesMade ==
    ASSUME InvitesInv, NEW T, Moves(T), \A a \in T : MadeBy(a)'
    PROVE  MadeKept' /\ MadeAlone'
<1>1. ASSUME NEW a \in Acceptors PROVE MadeBy(a)'
  <2>1. CASE a \in T
    BY <2>1
  <2>2. CASE a \notin T
    <3>1. acceptor'[a] = acceptor[a] /\ MadeBy(a)
      BY <2>2 DEF Moves, InvitesInv, MadeKept
    <3>2. CASE acceptor[a].pc \notin Made
      BY <3>1, <3>2 DEF MadeBy
    <3>3. CASE acceptor[a].pc \in Made
      <4> PICK m \in Emails : m = Email(a)
        BY <3>1, <3>3, MovesEmail
      <4>1. /\ Email(a)' = m /\ acceptor'[a].id = acceptor[a].id
            /\ invitation'[acceptor[a].id].role = invitation[acceptor[a].id].role
        BY <3>1, <3>3, MovesEmail
      <4>2. /\ account[m].user => account'[m].user
            /\ account[m].admitted => account'[m].admitted
            /\ account[m].role => account'[m].role
        BY DEF Moves, AccountsStand
      <4>3. /\ account[m].user
            /\ acceptor[a].pc \in {"profiled", "assigned"} => account[m].admitted
            /\ acceptor[a].pc = "assigned" /\ invitation[acceptor[a].id].role => account[m].role
        BY <3>1, <3>3 DEF MadeBy
      <4> QED BY <3>1, <4>1, <4>2, <4>3 DEF MadeBy
    <3> QED BY <3>2, <3>3
  <2> QED BY <2>1, <2>2
<1>2. ASSUME NEW a \in Acceptors, NEW b \in Acceptors, acceptor'[a].pc \in Made,
             acceptor'[b].pc \in Made, Email(a)' = Email(b)'
      PROVE  a = b
  <2>1. /\ Email(a) = Email(b) /\ Email(a) \in Emails
        /\ acceptor[a].pc \in Made \/ ~account[Email(a)].user
        /\ acceptor[b].pc \in Made \/ ~account[Email(b)].user
    BY <1>2, MovesEmail
  <2>2. /\ acceptor[a].pc \in Made => account[Email(a)].user
        /\ acceptor[b].pc \in Made => account[Email(b)].user
    BY DEF InvitesInv, MadeKept, MadeBy
  <2>3. CASE acceptor[a].pc \in Made /\ acceptor[b].pc \in Made
    BY <2>1, <2>3 DEF InvitesInv, MadeAlone
  <2>4. CASE acceptor[a].pc \notin Made /\ acceptor[b].pc \notin Made
    <3>1. a \in T /\ b \in T
      BY <1>2, <2>4 DEF Moves
    <3> QED BY <3>1 DEF Moves
  <2> QED BY <2>1, <2>2, <2>3, <2>4
<1> QED BY <1>1, <1>2 DEF MadeKept, MadeAlone

LEMMA MovesFirst ==
    ASSUME InvitesInv, NEW T, Moves(T), Accepts(T)
    PROVE  MadeFirst'
<1> SUFFICES ASSUME NEW a \in Acceptors, NEW i \in DOMAIN invitation',
                    acceptor'[a].pc \in Made, invitation'[i].accepted
             PROVE  AddressOf(i)' # Email(a)'
  BY DEF MadeFirst
<1>1. /\ Email(a)' = Email(a) /\ Email(a) \in Emails
      /\ acceptor[a].pc \in Made \/ ~account[Email(a)].user
  BY MovesEmail
<1>2. i \in DOMAIN invitation
  BY DEF Accepts
<1>3. AddressOf(i)' = AddressOf(i)
  BY <1>2 DEF Moves, InvitationsStand, AddressOf
<1>4. CASE invitation[i].accepted
  <2>1. account[AddressOf(i)].user
    BY <1>2, <1>4 DEF InvitesInv, AcceptedComplete, AddressOf
  <2>2. acceptor[a].pc \in Made => AddressOf(i) # Email(a)
    BY <1>2, <1>4 DEF InvitesInv, MadeFirst
  <2> QED BY <1>1, <1>3, <2>1, <2>2
<1>5. CASE ~invitation[i].accepted
  <2>1. PICK b \in T : acceptor[b].pc = "assigned" /\ acceptor[b].id = i /\ acceptor'[b].pc = "idle"
    BY <1>5 DEF Accepts
  <2>2. b \in Acceptors /\ b # a /\ Email(b) = AddressOf(i) /\ acceptor[b].pc \in Made
    BY <2>1 DEF Moves, Email, AddressOf, Made
  <2>3. account[Email(b)].user
    BY <2>2 DEF InvitesInv, MadeKept, MadeBy
  <2>4. CASE acceptor[a].pc \in Made
    <3>1. Email(a) # Email(b)
      BY <2>2, <2>4 DEF InvitesInv, MadeAlone
    <3> QED BY <1>1, <1>3, <2>2, <3>1
  <2>5. CASE ~account[Email(a)].user
    BY <1>1, <1>3, <2>2, <2>3, <2>5
  <2> QED BY <1>1, <2>4, <2>5
<1> QED BY <1>4, <1>5

LEMMA MovesAccepted ==
    ASSUME InvitesInv, NEW T, Moves(T), Accepts(T)
    PROVE  AcceptedComplete'
<1>0. ASSUME NEW i \in DOMAIN invitation, NEW b \in T,
             acceptor[b].pc = "assigned", acceptor[b].id = i
      PROVE  /\ b \in Acceptors /\ AddressOf(i) = Email(b)
             /\ account[AddressOf(i)].user /\ account[AddressOf(i)].admitted
             /\ invitation[i].role => account[AddressOf(i)].role
  BY <1>0 DEF Moves, InvitesInv, MadeKept, MadeBy, Made, AddressOf, Email
<1>1. ASSUME NEW i \in DOMAIN invitation', invitation'[i].accepted
      PROVE  /\ i \in DOMAIN invitation /\ AddressOf(i) \in Emails
             /\ AddressOf(i)' = AddressOf(i) /\ invitation'[i].role = invitation[i].role
             /\ account[AddressOf(i)].user /\ account[AddressOf(i)].admitted
             /\ invitation[i].role => account[AddressOf(i)].role
  <2>1. i \in DOMAIN invitation
    BY <1>1 DEF Accepts
  <2>2. AddressOf(i) \in Emails /\ AddressOf(i)' = AddressOf(i) /\ invitation'[i].role = invitation[i].role
    BY <2>1, InviteFacts DEF Moves, InvitationsStand, AddressOf
  <2>3. CASE invitation[i].accepted
    BY <2>1, <2>2, <2>3 DEF InvitesInv, AcceptedComplete, AddressOf
  <2>4. CASE ~invitation[i].accepted
    BY <1>1, <1>0, <2>1, <2>2, <2>4 DEF Accepts
  <2> QED BY <2>3, <2>4
<1>2. ASSUME NEW i \in DOMAIN invitation', invitation'[i].accepted
      PROVE  /\ account'[AddressOf(i)'].user /\ account'[AddressOf(i)'].admitted
             /\ invitation'[i].role => account'[AddressOf(i)'].role
  <2> PICK m \in Emails : m = AddressOf(i)
    BY <1>1, <1>2
  <2>1. /\ account[m].user => account'[m].user
        /\ account[m].admitted => account'[m].admitted
        /\ account[m].role => account'[m].role
    BY DEF Moves, AccountsStand
  <2> QED BY <1>1, <1>2, <2>1
<1>3. ASSUME NEW i \in DOMAIN invitation', NEW j \in DOMAIN invitation',
             invitation'[i].accepted, invitation'[j].accepted, i # j, ~invitation[j].accepted
      PROVE  AddressOf(i) # AddressOf(j)
  <2>1. PICK b \in T : acceptor[b].pc = "assigned" /\ acceptor[b].id = j
    BY <1>3 DEF Accepts
  <2>2. i \in DOMAIN invitation /\ j \in DOMAIN invitation
    BY <1>1, <1>3
  <2>3. b \in Acceptors /\ AddressOf(j) = Email(b) /\ acceptor[b].pc \in Made
    BY <1>0, <2>1, <2>2 DEF Made
  <2>4. CASE invitation[i].accepted
    BY <2>2, <2>3, <2>4 DEF InvitesInv, MadeFirst
  <2>5. CASE ~invitation[i].accepted
    <3>1. PICK c \in T : acceptor[c].id = i
      BY <1>3, <2>5 DEF Accepts
    <3>2. b = c
      BY DEF Moves
    <3> QED BY <1>3, <2>1, <3>1, <3>2
  <2> QED BY <2>4, <2>5
<1>4. ASSUME NEW i \in DOMAIN invitation', NEW j \in DOMAIN invitation',
             invitation'[i].accepted, invitation'[j].accepted, i # j
      PROVE  AddressOf(i)' # AddressOf(j)'
  <2>1. AddressOf(i)' = AddressOf(i) /\ AddressOf(j)' = AddressOf(j)
    BY <1>1, <1>4
  <2>2. CASE invitation[i].accepted /\ invitation[j].accepted
    <3>1. i \in DOMAIN invitation /\ j \in DOMAIN invitation
      BY <1>1, <1>4
    <3> QED BY <1>4, <2>1, <2>2, <3>1 DEF InvitesInv, AcceptedComplete, AddressOf
  <2> QED BY <1>3, <1>4, <2>1, <2>2
<1> QED BY <1>2, <1>4 DEF AcceptedComplete, AddressOf

LEMMA MovesKeep ==
    ASSUME InvitesInv, NEW T, Moves(T), Accepts(T), \A a \in T : Loaded(a)' /\ MadeBy(a)'
    PROVE  InvitesInv'
<1>1. InvitationsTypeOK' /\ LoadedKept' /\ MadeKept' /\ MadeAlone' /\ MadeFirst' /\ AcceptedComplete'
  BY MovesType, MovesLoaded, MovesMade, MovesFirst, MovesAccepted
<1> QED BY <1>1 DEF InvitesInv

-----------------------------------------------------------------------------
(***************************************************************************)
(* Invitations: every step                                                 *)
(***************************************************************************)
LEMMA NobodyMoves ==
    ASSUME InvitesInv, UNCHANGED acceptor, InvitationsStand, AccountsStand,
           \A i \in DOMAIN invitation' :
              invitation'[i].accepted => i \in DOMAIN invitation /\ invitation[i].accepted
    PROVE  InvitesInv'
<1>1. Moves({}) /\ Accepts({})
  BY DEF Moves, Accepts, Requests, InvitesInv, InvitationsTypeOK
<1> QED BY <1>1, MovesKeep

\* Rewriting an invitation keeps what the others of its table say.
LEMMA InvitationRewritten ==
    ASSUME InvitesInv, NEW i \in DOMAIN invitation, NEW row \in BetaInvitation,
           invitation' = [invitation EXCEPT ![i] = row],
           row.email = invitation[i].email, row.role = invitation[i].role,
           row.sent >= invitation[i].sent, invitation[i].accepted => row.accepted,
           row.sent = invitation[i].sent /\ invitation[i].revoked => row.revoked
    PROVE  InvitationsStand
<1>1. RowWritten(BetaInvitation, invitation', invitation, i, row)
  BY WritesRow, InviteFacts
<1>2. /\ invitation' \in Seq(BetaInvitation) /\ Len(invitation') <= MaxInvitations
      /\ DOMAIN invitation' = DOMAIN invitation
      /\ invitation'[i] = row
      /\ \A j \in DOMAIN invitation : j # i => invitation'[j] = invitation[j]
  BY <1>1, InviteFacts DEF RowWritten
<1>3. \A j \in DOMAIN invitation : invitation[j].sent \in Nat
  BY InviteFacts
<1>4. ASSUME NEW j \in DOMAIN invitation
      PROVE  /\ invitation'[j].email = invitation[j].email
             /\ invitation'[j].role = invitation[j].role
             /\ invitation'[j].sent >= invitation[j].sent
             /\ invitation[j].accepted => invitation'[j].accepted
  BY <1>2, <1>3
<1>5. ASSUME NEW j \in DOMAIN invitation, NEW token \in 1..MaxSends,
             token <= invitation[j].sent, ~Open(j, token)
      PROVE  ~Open(j, token)'
  <2>1. CASE j # i
    BY <1>2, <1>5, <2>1 DEF Open
  <2>2. CASE j = i /\ row.sent = invitation[i].sent
    BY <1>2, <1>5, <2>2 DEF Open
  <2>3. CASE j = i /\ row.sent # invitation[i].sent
    <3> PICK was \in Nat, now \in Nat : was = invitation[i].sent /\ now = row.sent
      BY <1>3, InviteFacts DEF BetaInvitation
    <3>1. now >= was /\ now # was /\ token <= was /\ token \in Nat
      BY <1>5, <2>3, InviteFacts
    <3>2. token # now
      BY <3>1
    <3> QED BY <1>2, <2>3, <3>2 DEF Open
  <2> QED BY <2>1, <2>2, <2>3
<1> QED BY <1>2, <1>4, <1>5 DEF InvitationsStand

LEMMA CreateInvitationKeeps ==
    ASSUME InvitesInv, NEW m \in Emails, NEW role \in BOOLEAN, CreateInvitation(m, role)
    PROVE  InvitesInv'
<1> DEFINE row == [email |-> m, sent |-> 1, role |-> role, revoked |-> FALSE, accepted |-> FALSE]
<1>1. row \in BetaInvitation
  BY InviteFacts DEF BetaInvitation
<1>2. RowAdded(BetaInvitation, invitation', invitation, row)
  BY <1>1, AddsRow, InviteFacts DEF CreateInvitation
<1>3. /\ invitation' \in Seq(BetaInvitation) /\ Len(invitation') <= MaxInvitations
      /\ DOMAIN invitation' = DOMAIN invitation \cup {Len(invitation')}
      /\ invitation'[Len(invitation')] = row
      /\ \A j \in DOMAIN invitation : invitation'[j] = invitation[j]
  BY <1>2, InviteFacts DEF RowAdded, CreateInvitation
<1>4. InvitationsStand
  <2>1. \A j \in DOMAIN invitation : invitation'[j].sent >= invitation[j].sent
    BY <1>3, InviteFacts
  <2> QED BY <1>3, <2>1 DEF InvitationsStand, Open
<1>5. AccountsStand /\ UNCHANGED acceptor
  BY NothingChanges DEF CreateInvitation
<1>6. \A i \in DOMAIN invitation' :
         invitation'[i].accepted => i \in DOMAIN invitation /\ invitation[i].accepted
  <2>1. ~invitation'[Len(invitation')].accepted
    BY <1>3
  <2> QED BY <1>3, <2>1
<1> QED BY <1>4, <1>5, <1>6, NobodyMoves

LEMMA RevokeInvitationKeeps ==
    ASSUME InvitesInv, NEW i \in DOMAIN invitation, RevokeInvitation(i)
    PROVE  InvitesInv'
<1> PICK row : row = [invitation[i] EXCEPT !.revoked = TRUE]
  OBVIOUS
<1>1. /\ row \in BetaInvitation /\ row.email = invitation[i].email /\ row.role = invitation[i].role
      /\ row.sent = invitation[i].sent /\ row.accepted = invitation[i].accepted /\ row.revoked
  BY InviteFacts DEF BetaInvitation
<1>2. invitation' = [invitation EXCEPT ![i] = row]
  BY DEF RevokeInvitation
<1>3. RowWritten(BetaInvitation, invitation', invitation, i, row)
  BY <1>1, <1>2, WritesRow, InviteFacts
<1>4. invitation[i].sent \in Nat
  BY InviteFacts
<1>5. InvitationsStand
  <2>1. row.sent >= invitation[i].sent
    BY <1>1, <1>4
  <2>2. /\ invitation[i].accepted => row.accepted
        /\ row.sent = invitation[i].sent /\ invitation[i].revoked => row.revoked
    BY <1>1
  <2> QED BY <1>1, <1>2, <2>1, <2>2, InvitationRewritten
<1>6. AccountsStand /\ UNCHANGED acceptor
  BY NothingChanges DEF RevokeInvitation
<1>7. \A j \in DOMAIN invitation' :
         invitation'[j].accepted => j \in DOMAIN invitation /\ invitation[j].accepted
  BY <1>1, <1>3 DEF RowWritten
<1> QED BY <1>5, <1>6, <1>7, NobodyMoves

LEMMA EditKeeps ==
    ASSUME InvitesInv, AccountsStand, UNCHANGED <<invitation, acceptor>>
    PROVE  InvitesInv'
BY NobodyMoves, NothingChanges

LEMMA ListUsersKeeps ==
    ASSUME InvitesInv, ListUsers
    PROVE  InvitesInv'
<1>1. \A m \in Emails : account'[m] = IF account[m].user /\ account[m].profile = "NONE"
                                      THEN [account[m] EXCEPT !.profile = "WAITLIST"] ELSE account[m]
  BY DEF ListUsers
<1>2. ASSUME NEW m \in Emails
      PROVE  /\ account'[m] \in Account
             /\ account'[m].profile # "NONE" => account'[m].user
             /\ account'[m].user = account[m].user
             /\ account'[m].admitted = account[m].admitted
             /\ account'[m].role = account[m].role
  <2>1. account[m] \in Account /\ (account[m].profile # "NONE" => account[m].user)
    BY DEF InvitesInv, InvitationsTypeOK
  <2> QED BY <1>1, <2>1 DEF Account, BetaAccessStatus
<1>3. account' \in [Emails -> Account]
  BY <1>2 DEF ListUsers
<1>4. AccountsStand
  BY <1>2, <1>3 DEF AccountsStand
<1> QED BY <1>4, EditKeeps DEF ListUsers

\* Writing one account that only gains keeps what the others say.
LEMMA AccountWritten ==
    ASSUME InvitesInv, NEW m \in Emails, NEW row \in Account, account' = [account EXCEPT ![m] = row],
           row.profile # "NONE" => row.user, account[m].user => row.user,
           account[m].admitted => row.admitted, account[m].role => row.role
    PROVE  AccountsStand
<1>1. account \in [Emails -> Account] /\ \A n \in Emails : account[n].profile # "NONE" => account[n].user
  BY DEF InvitesInv, InvitationsTypeOK
<1>2. account' \in [Emails -> Account] /\ account'[m] = row /\ \A n \in Emails : n # m => account'[n] = account[n]
  BY <1>1
<1> QED BY <1>1, <1>2 DEF AccountsStand

LEMMA UpdateUserKeeps ==
    ASSUME InvitesInv, NEW m \in Emails, NEW status \in Statuses, UpdateUser(m, status)
    PROVE  InvitesInv'
<1> PICK row : row = [account[m] EXCEPT !.profile = status]
  OBVIOUS
<1>1. account[m] \in Account /\ (account[m].profile # "NONE" => account[m].user) /\ status \in BetaAccessStatus
  BY InviteFacts DEF InvitesInv, InvitationsTypeOK
<1>2. /\ row \in Account /\ row.user = account[m].user /\ row.admitted = account[m].admitted
      /\ row.role = account[m].role
  BY <1>1 DEF Account
<1>3. account' = [account EXCEPT ![m] = row] /\ account[m].user
  BY <1>1 DEF UpdateUser
<1> QED BY <1>2, <1>3, AccountWritten, EditKeeps DEF UpdateUser

-----------------------------------------------------------------------------
(***************************************************************************)
(* Invitations: a request moves on                                         *)
(***************************************************************************)
\* Its own row only, and the tables as they stand.
OneMoves(a) ==
    /\ InvitationsStand /\ AccountsStand
    /\ \A b \in Acceptors : b # a => acceptor'[b] = acceptor[b]
    /\ acceptor' \in Requests

LEMMA OneMovesKeeps ==
    ASSUME InvitesInv, NEW a \in Acceptors, OneMoves(a), MovesOn(a), Loaded(a)', MadeBy(a)',
           \A i \in DOMAIN invitation' :
              invitation'[i].accepted =>
                /\ i \in DOMAIN invitation
                /\ \/ invitation[i].accepted
                   \/ acceptor[a].pc = "assigned" /\ acceptor[a].id = i /\ acceptor'[a].pc = "idle"
    PROVE  InvitesInv'
<1>1. Moves({a}) /\ Accepts({a})
  BY DEF Moves, Accepts, OneMoves
<1> QED BY <1>1, MovesKeep

LEMMA OneMovesOnly ==
    ASSUME InvitesInv, NEW a \in Acceptors, OneMoves(a), MovesOn(a), Loaded(a)', MadeBy(a)',
           UNCHANGED invitation
    PROVE  InvitesInv'
<1>1. \A i \in DOMAIN invitation' :
         invitation'[i].accepted => i \in DOMAIN invitation /\ invitation[i].accepted
  OBVIOUS
<1> QED BY <1>1, OneMovesKeeps

\* A request ends.
LEMMA DropKeeps ==
    ASSUME InvitesInv, NEW a \in Acceptors, Drop(a), InvitationsStand, AccountsStand,
           \A i \in DOMAIN invitation' :
              invitation'[i].accepted =>
                /\ i \in DOMAIN invitation
                /\ invitation[i].accepted \/ (acceptor[a].pc = "assigned" /\ acceptor[a].id = i)
    PROVE  InvitesInv'
<1>1. acceptor \in Requests
  BY DEF InvitesInv, InvitationsTypeOK, Requests
<1>2. acceptor'[a] = IdleAcceptor /\ acceptor'[a].pc = "idle"
  BY <1>1 DEF Drop, IdleAcceptor, Requests
<1>3. OneMoves(a)
  BY <1>1 DEF OneMoves, Drop, Requests
<1>4. MovesOn(a) /\ Loaded(a)' /\ MadeBy(a)'
  BY <1>2 DEF MovesOn, Loaded, MadeBy, Made
<1> QED BY <1>2, <1>3, <1>4, OneMovesKeeps

LEMMA DropOnlyKeeps ==
    ASSUME InvitesInv, NEW a \in Acceptors, Drop(a), UNCHANGED <<invitation, account>>
    PROVE  InvitesInv'
<1>1. \A i \in DOMAIN invitation' :
         invitation'[i].accepted => i \in DOMAIN invitation /\ invitation[i].accepted
  OBVIOUS
<1>2. InvitationsStand /\ AccountsStand
  BY NothingChanges
<1> QED BY <1>1, <1>2, DropKeeps

\* A request that is not yet making a user comes in, or gets on.
LEMMA RequestKeeps ==
    ASSUME InvitesInv, NEW a \in Acceptors, NEW r \in Acceptor \cup Resender,
           acceptor' = [acceptor EXCEPT ![a] = r], UNCHANGED <<invitation, account>>,
           r.pc \notin Made, r.id \in DOMAIN invitation,
           r.pc \in Accepting /\ r.dead =>
              r.pc = "arrived" /\ r.token <= invitation[r.id].sent /\ ~Open(r.id, r.token)
    PROVE  InvitesInv'
<1>1. acceptor \in Requests
  BY DEF InvitesInv, InvitationsTypeOK, Requests
<1>2. acceptor'[a] = r /\ OneMoves(a)
  BY <1>1, NothingChanges DEF OneMoves, Requests
<1>3. MovesOn(a) /\ MadeBy(a)'
  BY <1>2 DEF MovesOn, MadeBy
<1>4. Loaded(a)'
  BY <1>2 DEF Loaded, Open
<1> QED BY <1>2, <1>3, <1>4, OneMovesOnly

LEMMA LoadToResendKeeps ==
    ASSUME InvitesInv, NEW a \in Acceptors, NEW i \in DOMAIN invitation, LoadToResend(a, i)
    PROVE  InvitesInv'
<1> PICK r : r = [pc |-> "resending", id |-> i, revoked |-> invitation[i].revoked]
  OBVIOUS
<1>1. r \in Resender /\ r.pc = "resending" /\ r.id = i
  BY InviteFacts DEF Resender, BetaInvitation
<1> QED BY <1>1, RequestKeeps DEF LoadToResend, Made, Accepting

LEMMA ArriveToAcceptKeeps ==
    ASSUME InvitesInv, NEW a \in Acceptors, NEW i \in DOMAIN invitation, NEW token \in 1..MaxSends,
           ArriveToAccept(a, i, token)
    PROVE  InvitesInv'
<1> PICK r : r = [pc |-> "arrived", id |-> i, token |-> token, dead |-> ~Open(i, token)]
  OBVIOUS
<1>1. /\ r \in Acceptor /\ r.pc = "arrived" /\ r.id = i /\ r.token = token
      /\ r.dead => ~Open(i, token)
  BY InviteFacts DEF Acceptor
<1> QED BY <1>1, RequestKeeps DEF ArriveToAccept, Made

LEMMA FindInvitationKeeps ==
    ASSUME InvitesInv, NEW a \in Acceptors, FindInvitation(a)
    PROVE  InvitesInv'
<1>1. CASE Drop(a)
  BY <1>1, DropOnlyKeeps DEF FindInvitation
<1>2. CASE Open(acceptor[a].id, acceptor[a].token) /\ Now(a, "found")
  <2> PICK r : r = [acceptor[a] EXCEPT !.pc = "found"]
    OBVIOUS
  <2>1. acceptor[a] \in Acceptor /\ acceptor[a].id \in DOMAIN invitation
    BY InviteFacts DEF FindInvitation, Accepting
  <2>2. r \in Acceptor /\ r.pc = "found" /\ r.id = acceptor[a].id /\ r.dead = acceptor[a].dead
    BY <2>1 DEF Acceptor
  <2>3. ~acceptor[a].dead
    BY <1>2, InviteFacts DEF InvitesInv, LoadedKept, Loaded, FindInvitation, Accepting
  <2>4. acceptor' = [acceptor EXCEPT ![a] = r]
    BY <1>2 DEF Now
  <2> QED BY <2>1, <2>2, <2>3, <2>4, RequestKeeps DEF FindInvitation, Made
<1> QED BY <1>1, <1>2 DEF FindInvitation

\* A request that makes a user gets on.
LEMMA MakerKeeps ==
    ASSUME InvitesInv, NEW a \in Acceptors, NEW pc \in Made, Now(a, pc), UNCHANGED invitation,
           AccountsStand, acceptor[a].pc \in Made \cup {"found"},
           acceptor[a].pc = "found" => ~account[Email(a)].user,
           NEW m \in Emails, m = Email(a),
           /\ account'[m].user
           /\ pc \in {"profiled", "assigned"} => account'[m].admitted
           /\ pc = "assigned" /\ invitation[acceptor[a].id].role => account'[m].role
    PROVE  InvitesInv'
<1> PICK r : r = [acceptor[a] EXCEPT !.pc = pc]
  OBVIOUS
<1>0. acceptor \in Requests
  BY DEF InvitesInv, InvitationsTypeOK, Requests
<1>1. acceptor[a] \in Acceptor /\ acceptor[a].id \in DOMAIN invitation
  BY InviteFacts DEF Accepting, Made
<1>2. r \in Acceptor /\ r.pc = pc /\ r.id = acceptor[a].id /\ r.dead = acceptor[a].dead
  BY <1>1 DEF Acceptor, Made
<1>3. acceptor' = [acceptor EXCEPT ![a] = r]
  BY DEF Now
<1>4. acceptor'[a] = r /\ OneMoves(a)
  BY <1>0, <1>2, <1>3, NothingChanges DEF OneMoves, Requests
<1>5. ~acceptor[a].dead
  BY InviteFacts DEF InvitesInv, LoadedKept, Loaded, Accepting, Made
<1>6. MovesOn(a)
  BY <1>2, <1>4 DEF MovesOn
<1>7. Loaded(a)'
  BY <1>1, <1>2, <1>4, <1>5 DEF Loaded
<1>8. Email(a)' = m
  BY <1>2, <1>4 DEF Email
<1>9. MadeBy(a)'
  BY <1>2, <1>4, <1>8 DEF MadeBy
<1> QED BY <1>4, <1>6, <1>7, <1>9, OneMovesOnly

LEMMA CreateUserKeeps ==
    ASSUME InvitesInv, NEW a \in Acceptors, CreateUser(a)
    PROVE  InvitesInv'
<1>0. Email(a) \in Emails
  BY InviteFacts DEF CreateUser
<1> PICK m \in Emails : m = Email(a)
  BY <1>0
<1>1. CASE account[m].user
  BY <1>1, DropOnlyKeeps DEF CreateUser
<1>2. CASE ~account[m].user
  <2> PICK row : row = [account[m] EXCEPT !.user = TRUE]
    OBVIOUS
  <2>1. /\ row \in Account /\ row.user /\ row.admitted = account[m].admitted
        /\ row.role = account[m].role
    BY InviteFacts DEF Account
  <2>2. account' = [account EXCEPT ![m] = row] /\ Now(a, "created") /\ UNCHANGED invitation
    BY <1>2 DEF CreateUser
  <2>3. account'[m] = row
    BY <2>2 DEF InvitesInv, InvitationsTypeOK
  <2>4. AccountsStand
    BY <2>1, <2>2, AccountWritten
  <2> QED BY ZenonT(60), <1>2, <2>1, <2>2, <2>3, <2>4, MakerKeeps DEF CreateUser, Made
<1> QED BY <1>1, <1>2

LEMMA SaveProfileKeeps ==
    ASSUME InvitesInv, NEW a \in Acceptors, SaveProfile(a)
    PROVE  InvitesInv'
<1>0. Email(a) \in Emails
  BY InviteFacts DEF SaveProfile
<1> PICK m \in Emails : m = Email(a)
  BY <1>0
<1>1. CASE account[m].profile # "NONE"
  BY <1>1, DropOnlyKeeps DEF SaveProfile
<1>2. CASE account[m].profile = "NONE"
  <2> PICK row : row = [[account[m] EXCEPT !.profile = "ACTIVE"] EXCEPT !.admitted = TRUE]
    OBVIOUS
  <2>1. account[m].user
    BY DEF InvitesInv, MadeKept, MadeBy, SaveProfile, Made
  <2>2. /\ row \in Account /\ row.user /\ row.admitted /\ row.role = account[m].role
    BY <2>1, InviteFacts DEF Account, BetaAccessStatus
  <2>3. account' = [account EXCEPT ![m] = row] /\ Now(a, "profiled") /\ UNCHANGED invitation
    BY <1>2 DEF SaveProfile, InvitesInv, InvitationsTypeOK
  <2>4. account'[m] = row
    BY <2>3 DEF InvitesInv, InvitationsTypeOK
  <2>5. AccountsStand
    BY <2>2, <2>3, AccountWritten
  <2>6. acceptor[a].pc = "created" /\ account'[m].user /\ account'[m].admitted
    BY <2>2, <2>4 DEF SaveProfile
  <2> QED BY <2>3, <2>5, <2>6, MakerKeeps DEF Made
<1> QED BY <1>1, <1>2

LEMMA AssignRoleKeeps ==
    ASSUME InvitesInv, NEW a \in Acceptors, AssignRole(a)
    PROVE  InvitesInv'
<1>0. Email(a) \in Emails
  BY InviteFacts DEF AssignRole
<1> PICK m \in Emails : m = Email(a)
  BY <1>0
<1>1. account[m].user /\ account[m].admitted
  BY DEF InvitesInv, MadeKept, MadeBy, AssignRole, Made
<1>2. CASE Drop(a) /\ UNCHANGED account
  BY <1>2, DropOnlyKeeps DEF AssignRole
<1>3. CASE ~invitation[acceptor[a].id].role /\ Now(a, "assigned") /\ UNCHANGED account
  <2>1. AccountsStand /\ account'[m] = account[m]
    BY <1>3, NothingChanges
  <2> QED BY <1>1, <1>3, <2>1, MakerKeeps DEF AssignRole, Made
<1>4. CASE account' = [account EXCEPT ![Email(a)].role = TRUE] /\ Now(a, "assigned")
  <2> PICK row : row = [account[m] EXCEPT !.role = TRUE]
    OBVIOUS
  <2>1. row \in Account /\ row.user /\ row.admitted /\ row.role /\ row.profile = account[m].profile
    BY <1>1, InviteFacts DEF Account
  <2>2. account' = [account EXCEPT ![m] = row]
    BY <1>4
  <2>3. account'[m] = row
    BY <2>2 DEF InvitesInv, InvitationsTypeOK
  <2>4. AccountsStand
    BY <2>1, <2>2, AccountWritten
  <2>5. account'[m].user /\ account'[m].admitted /\ account'[m].role
    BY <2>1, <2>3
  <2>6. acceptor[a].pc = "profiled" /\ UNCHANGED invitation /\ Now(a, "assigned")
    BY <1>4 DEF AssignRole
  <2> QED BY <2>4, <2>5, <2>6, MakerKeeps DEF Made
<1> QED BY <1>2, <1>3, <1>4 DEF AssignRole

UnderToken(row, n) == [row EXCEPT !.sent = n]

LEMMA SentAgain ==
    ASSUME NEW old \in BetaInvitation, NEW kept, NEW n
    PROVE  UnderToken([old EXCEPT !.revoked = kept], n) =
             [email |-> old.email, sent |-> n, role |-> old.role,
              revoked |-> kept, accepted |-> old.accepted]
<1> PICK e, s, r, c : e = old.email /\ s = old.sent /\ r = old.role /\ c = old.accepted
  OBVIOUS
<1> PICK mid : mid = [email |-> e, sent |-> s, role |-> r, revoked |-> kept, accepted |-> c]
  OBVIOUS
<1>1. [old EXCEPT !.revoked = kept] = mid
  BY DEF BetaInvitation
<1>2. UnderToken(mid, n) = [email |-> e, sent |-> n, role |-> r, revoked |-> kept, accepted |-> c]
  BY DEF UnderToken
<1> QED BY <1>1, <1>2

LEMMA ResendInvitationKeeps ==
    ASSUME InvitesInv, NEW a \in Acceptors, ResendInvitation(a)
    PROVE  InvitesInv'
<1> PICK i : i = acceptor[a].id
  OBVIOUS
<1>1. i \in DOMAIN invitation /\ invitation[i] \in BetaInvitation /\ acceptor[a] \in Resender
  BY InviteFacts DEF ResendInvitation
<1> PICK n \in 1..MaxSends : n = invitation[i].sent
  BY <1>1 DEF BetaInvitation
<1> PICK kept : kept = (invitation[i].revoked /\ ~acceptor[a].revoked)
  OBVIOUS
<1>0. kept \in BOOLEAN
  OBVIOUS
<1> PICK row : row = [email |-> invitation[i].email, sent |-> n + 1, role |-> invitation[i].role,
                      revoked |-> kept, accepted |-> invitation[i].accepted]
  OBVIOUS
<1>2. n + 1 \in 1..MaxSends /\ n + 1 >= n /\ n + 1 # n
  BY InviteFacts DEF ResendInvitation
<1>3. /\ row \in BetaInvitation /\ row.email = invitation[i].email /\ row.role = invitation[i].role
      /\ row.sent = n + 1 /\ row.accepted = invitation[i].accepted
  BY <1>0, <1>1, <1>2 DEF BetaInvitation
<1>4. invitation' = [invitation EXCEPT ![i] = row]
  <2> PICK half : half = [invitation[i] EXCEPT !.revoked = kept]
    OBVIOUS
  <2>1. half \in BetaInvitation /\ half.sent = n /\ half.email = row.email /\ half.role = row.role
          /\ half.accepted = row.accepted /\ half.revoked = row.revoked
    BY <1>0, <1>1 DEF BetaInvitation
  <2>2. UnderToken(half, n + 1) = row
    BY <1>1, SentAgain
  <2> PICK mid : mid = [invitation EXCEPT ![i] = half]
    OBVIOUS
  <2>3. mid = Reopened(acceptor[a])
    BY DEF Reopened
  <2>4. RowWritten(BetaInvitation, mid, invitation, i, half)
    BY <1>1, <2>1, WritesRow, InviteFacts
  <2>5. Resent(acceptor[a]) = [mid EXCEPT ![i] = row]
    BY SMTT(30), <2>1, <2>2, <2>3, <2>4 DEF Resent, RowWritten, UnderToken
  <2>6. [mid EXCEPT ![i] = row] = [invitation EXCEPT ![i] = row]
    OBVIOUS
  <2> QED BY <2>5, <2>6 DEF ResendInvitation
<1>5. RowWritten(BetaInvitation, invitation', invitation, i, row)
  BY ZenonT(60), <1>1, <1>3, <1>4, WritesRow, InviteFacts
<1>6. InvitationsStand
  BY <1>1, <1>2, <1>3, <1>4, InvitationRewritten
<1>7. AccountsStand /\ Drop(a)
  BY NothingChanges DEF ResendInvitation, Drop
<1>8. \A j \in DOMAIN invitation' :
         invitation'[j].accepted => j \in DOMAIN invitation /\ invitation[j].accepted
  BY <1>3, <1>5 DEF RowWritten
<1>9. \A j \in DOMAIN invitation' :
         invitation'[j].accepted =>
            /\ j \in DOMAIN invitation
            /\ invitation[j].accepted \/ (acceptor[a].pc = "assigned" /\ acceptor[a].id = j)
  BY <1>8
<1> QED BY <1>6, <1>7, <1>9, DropKeeps

LEMMA MarkAcceptedKeeps ==
    ASSUME InvitesInv, NEW a \in Acceptors, MarkAccepted(a)
    PROVE  InvitesInv'
<1> PICK i : i = acceptor[a].id
  OBVIOUS
<1>1. i \in DOMAIN invitation /\ invitation[i] \in BetaInvitation /\ acceptor[a].pc = "assigned"
  BY InviteFacts DEF MarkAccepted, AcceptedAfter
<1> PICK row : row = [invitation[i] EXCEPT !.accepted = TRUE]
  OBVIOUS
<1>2. /\ row \in BetaInvitation /\ row.email = invitation[i].email /\ row.role = invitation[i].role
      /\ row.sent = invitation[i].sent /\ row.accepted /\ row.revoked = invitation[i].revoked
  BY <1>1 DEF BetaInvitation
<1>3. invitation' = [invitation EXCEPT ![i] = row]
  BY DEF MarkAccepted
<1>4. RowWritten(BetaInvitation, invitation', invitation, i, row)
  BY <1>1, <1>2, <1>3, WritesRow, InviteFacts
<1>5. invitation[i].sent \in Nat
  BY <1>1, InviteFacts
<1>6. InvitationsStand
  <2>1. row.sent >= invitation[i].sent
    BY <1>2, <1>5
  <2>2. /\ invitation[i].accepted => row.accepted
        /\ row.sent = invitation[i].sent /\ invitation[i].revoked => row.revoked
    BY <1>2
  <2> QED BY <1>1, <1>2, <1>3, <2>1, <2>2, InvitationRewritten
<1>7. AccountsStand /\ Drop(a)
  BY NothingChanges DEF MarkAccepted
<1>8. \A j \in DOMAIN invitation' :
         invitation'[j].accepted => /\ j \in DOMAIN invitation
                                    /\ invitation[j].accepted \/ (acceptor[a].pc = "assigned" /\ acceptor[a].id = j)
  BY <1>1, <1>4 DEF RowWritten
<1> QED BY <1>6, <1>7, <1>8, DropKeeps

-----------------------------------------------------------------------------
(***************************************************************************)
(* Invitations: always                                                     *)
(***************************************************************************)
LEMMA InvitesInit ==
    ASSUME InvitationsInit
    PROVE  InvitesInv
<1>1. \A a \in Acceptors : acceptor[a] = IdleAcceptor /\ acceptor[a].pc = "idle"
  BY DEF InvitationsInit, IdleAcceptor
<1>2. invitation = <<>> /\ invitation \in Seq(BetaInvitation) /\ Len(invitation) = 0 /\ DOMAIN invitation = {}
  BY EmptySeq DEF InvitationsInit
<1>3. account \in [Emails -> Account] /\ \A m \in Emails : account[m].profile = "NONE"
  BY DEF InvitationsInit, Account, BetaAccessStatus
<1>4. InvitationsTypeOK
  BY <1>2, <1>3, InvitationsAssumption DEF InvitationsTypeOK, InvitationsInit, InvitationsAssumption
<1>5. LoadedKept /\ MadeKept /\ MadeAlone /\ MadeFirst
  BY <1>1 DEF LoadedKept, Loaded, MadeKept, MadeBy, MadeAlone, MadeFirst, Made
<1>6. AcceptedComplete
  BY <1>2 DEF AcceptedComplete
<1> QED BY <1>4, <1>5, <1>6 DEF InvitesInv

LEMMA InvitesNext ==
    ASSUME InvitesInv, InvitationsNext
    PROVE  InvitesInv'
<1>1. CASE \E a \in Acceptors : AcceptorDies(a)
  BY <1>1, DropOnlyKeeps DEF AcceptorDies
<1> QED BY <1>1, CreateInvitationKeeps, RevokeInvitationKeeps, ListUsersKeeps, UpdateUserKeeps,
           LoadToResendKeeps, ArriveToAcceptKeeps, ResendInvitationKeeps, FindInvitationKeeps,
           CreateUserKeeps, SaveProfileKeeps, AssignRoleKeeps, MarkAcceptedKeeps DEF InvitationsNext

LEMMA InvitesStutter ==
    ASSUME InvitesInv, UNCHANGED invitationsVars
    PROVE  InvitesInv'
BY EditKeeps, NothingChanges DEF invitationsVars

\* accept, resend and revoke of the closed beta: an invitation that counts as accepted has
\* its user with profile and role, an address is accepted once, and a token that was
\* replaced or revoked before a request came in makes no user.
THEOREM InvitationsComplete ==
    InvitationsInit /\ [][InvitationsNext]_invitationsVars => []InvitationsKept
<1>1. InvitesInv /\ [InvitationsNext]_invitationsVars => InvitesInv'
  BY InvitesNext, InvitesStutter
<1>2. InvitesInv => InvitationsKept
  <2>1. ASSUME InvitesInv, NEW a \in Acceptors, acceptor[a].pc \notin {"idle", "resending"}, acceptor[a].dead
        PROVE  acceptor[a].pc = "arrived"
    <3>1. acceptor[a] \in Acceptor \cup Resender \cup {IdleAcceptor}
      BY <2>1 DEF InvitesInv, InvitationsTypeOK
    <3>2. acceptor[a].pc \in Accepting /\ acceptor[a] # IdleAcceptor
      BY <2>1, <3>1 DEF Acceptor, Resender, IdleAcceptor, Accepting, Made
    <3> QED BY <2>1, <3>2 DEF InvitesInv, LoadedKept, Loaded
  <2> QED BY <2>1 DEF InvitationsKept, DeadTokenRefused, InvitesInv
<1> QED BY <1>1, <1>2, InvitesInit, PTL

-----------------------------------------------------------------------------
(***************************************************************************)
(* Shared reports                                                          *)
(***************************************************************************)
\* The requests that are between two of the three commits of a view of link i.
Between(pc, i) == {q \in ShareRequests : shareReq[q].pc = pc /\ shareReq[q].id = i}

\* Each commit of a view is ahead of the next one by the requests in between.
ViewsCounted(i) ==
    /\ shown[i].reports + Cardinality(Between("audited", i)) <= link[i].viewed
    /\ link[i].viewed + Cardinality(Between("viewed", i)) <= link[i].views
LinkMarked(i) ==
    /\ link[i].views > 0 => link[i].created
    /\ shown[i].token => link[i].created
    /\ shown[i].closed => ~link[i].active
LinkInv == \A i \in DOMAIN link : ViewsCounted(i) /\ LinkMarked(i)

Viewing == {"tested", "viewed", "audited"}
\* What a request relies on once it has come in.
RequestStands(q) ==
    shareReq[q] # NoShareRequest =>
        /\ shareReq[q].id # 0 => shareReq[q].id \in DOMAIN link
        /\ shareReq[q].pc \in Viewing => shareReq[q].kind = "open"
        /\ shareReq[q].kind = "open" => shareReq[q].id # 0 /\ link[shareReq[q].id].created
        /\ shareReq[q].pc = "revoked" => shareReq[q].id # 0 /\ ~link[shareReq[q].id].active
        /\ shareReq[q].kind = "open" /\ shareReq[q].late =>
              shareReq[q].pc = "arrived" /\ shown[shareReq[q].id].closed
RequestsInv == \A q \in ShareRequests : RequestStands(q)

SharesInv == SharedTypeOK /\ LinkInv /\ RequestsInv

LEMMA ShareFacts ==
    ASSUME SharesInv
    PROVE  /\ link \in Seq(ShareLink) /\ shown \in Seq(Shown) /\ Len(link) \in Nat /\ Len(link) <= MaxLinks
           /\ MaxLinks \in Nat /\ MaxViews \in Nat /\ IsFiniteSet(ShareRequests)
           /\ DOMAIN link = 1..Len(link) /\ DOMAIN shown = DOMAIN link /\ Len(shown) = Len(link)
           /\ \A i \in DOMAIN link : /\ link[i] \in ShareLink /\ shown[i] \in Shown
                                     /\ i \in 1..MaxLinks
           /\ \A q \in ShareRequests : shareReq[q].pc # "idle" =>
                /\ shareReq[q] # NoShareRequest /\ shareReq[q] \in ShareRequest
                /\ shareReq[q].id = 0 \/ shareReq[q].id \in DOMAIN link
                /\ shareReq[q].id = 0 => shareReq[q].kind = "create" /\ shareReq[q].pc = "arrived"
<1>1. /\ link \in Seq(ShareLink) /\ shown \in Seq(Shown) /\ Len(link) \in Nat /\ Len(link) <= MaxLinks
      /\ MaxLinks \in Nat /\ MaxViews \in Nat /\ IsFiniteSet(ShareRequests)
      /\ DOMAIN link = 1..Len(link) /\ DOMAIN shown = 1..Len(shown) /\ Len(shown) = Len(link)
  BY LenProperties, SharedReportsAssumption DEF SharesInv, SharedTypeOK, SharedReportsAssumption
<1>2. \A i \in DOMAIN link : link[i] \in ShareLink /\ shown[i] \in Shown /\ i \in 1..MaxLinks
  <2>1. \A i \in DOMAIN link : link[i] \in ShareLink /\ shown[i] \in Shown
    BY <1>1, ElementOfSeq
  <2> QED BY <1>1, <2>1
<1>3. ASSUME NEW q \in ShareRequests, shareReq[q].pc # "idle"
      PROVE  /\ shareReq[q] # NoShareRequest /\ shareReq[q] \in ShareRequest
             /\ shareReq[q].id = 0 \/ shareReq[q].id \in DOMAIN link
             /\ shareReq[q].id = 0 => shareReq[q].kind = "create" /\ shareReq[q].pc = "arrived"
  <2>1. shareReq[q] # NoShareRequest
    BY <1>3 DEF NoShareRequest
  <2> QED BY <2>1 DEF SharesInv, SharedTypeOK, RequestsInv, RequestStands
<1> QED BY <1>1, <1>2, <1>3

-----------------------------------------------------------------------------
(***************************************************************************)
(* Shared reports: counting the requests in between                        *)
(***************************************************************************)
\* A set that gains or loses q, or neither.
SameBut(q, S, T) == T \ {q} = S \ {q}

LEMMA OneMore ==
    ASSUME NEW S, NEW T, NEW q, IsFiniteSet(S), SameBut(q, S, T)
    PROVE  /\ IsFiniteSet(T) /\ Cardinality(S) \in Nat /\ Cardinality(T) \in Nat
           /\ q \in T /\ q \notin S => Cardinality(T) = Cardinality(S) + 1
           /\ q \notin T /\ q \in S => Cardinality(S) = Cardinality(T) + 1
           /\ (q \in T <=> q \in S) => T = S
           /\ q \notin T => Cardinality(T) <= Cardinality(S)
<1>1. IsFiniteSet(S \ {q}) /\ Cardinality(S) \in Nat
  BY FS_Subset, FS_CardinalityType DEF SameBut
<1>2. CASE q \in T /\ q \notin S
  <2>1. T = S \cup {q}
    BY <1>2 DEF SameBut
  <2> QED BY <1>1, <1>2, <2>1, FS_AddElement, FS_CardinalityType
<1>3. CASE q \notin T /\ q \in S
  <2>1. S = T \cup {q} /\ IsFiniteSet(T)
    BY <1>1, <1>3 DEF SameBut
  <2>2. Cardinality(S) = Cardinality(T) + 1 /\ Cardinality(T) \in Nat
    BY <1>3, <2>1, FS_AddElement, FS_CardinalityType
  <2> QED BY <1>1, <1>3, <2>1, <2>2
<1>4. CASE q \in T <=> q \in S
  <2>1. T = S
    BY <1>4 DEF SameBut
  <2> QED BY <1>1, <2>1
<1> QED BY <1>2, <1>3, <1>4

LEMMA BetweenMoves ==
    ASSUME SharesInv, NEW q \in ShareRequests, NEW r, shareReq' = [shareReq EXCEPT ![q] = r],
           NEW pc, NEW i
    PROVE  /\ SameBut(q, Between(pc, i), Between(pc, i)')
           /\ q \in Between(pc, i)' <=> r.pc = pc /\ r.id = i
           /\ IsFiniteSet(Between(pc, i))
<1>1. shareReq'[q] = r /\ \A b \in ShareRequests : b # q => shareReq'[b] = shareReq[b]
  BY DEF SharesInv, SharedTypeOK
<1>2. IsFiniteSet(Between(pc, i))
  BY ShareFacts, FS_Subset DEF Between
<1> QED BY <1>1, <1>2 DEF Between, SameBut

LEMMA BetweenEnters ==
    ASSUME SharesInv, NEW q \in ShareRequests, NEW r, shareReq' = [shareReq EXCEPT ![q] = r],
           NEW pc, NEW i, r.pc = pc, r.id = i
    PROVE  q \in Between(pc, i)' /\ SameBut(q, Between(pc, i), Between(pc, i)')
BY BetweenMoves

LEMMA BetweenLeaves ==
    ASSUME SharesInv, NEW q \in ShareRequests, NEW r, shareReq' = [shareReq EXCEPT ![q] = r],
           NEW pc, NEW i, r.pc # pc
    PROVE  q \notin Between(pc, i)' /\ SameBut(q, Between(pc, i), Between(pc, i)')
BY BetweenMoves

LEMMA BetweenShrinks ==
    ASSUME SharesInv, NEW q \in ShareRequests, NEW r, shareReq' = [shareReq EXCEPT ![q] = r],
           NEW pc, NEW i, r.pc # pc \/ r.id # i
    PROVE  /\ Cardinality(Between(pc, i)) \in Nat /\ Cardinality(Between(pc, i)') \in Nat
           /\ Cardinality(Between(pc, i)') <= Cardinality(Between(pc, i))
<1>1. /\ SameBut(q, Between(pc, i), Between(pc, i)') /\ q \notin Between(pc, i)'
      /\ IsFiniteSet(Between(pc, i))
  BY BetweenMoves
<1> PICK S, T : S = Between(pc, i) /\ T = Between(pc, i)'
  OBVIOUS
<1>2. Cardinality(S) \in Nat /\ Cardinality(T) \in Nat /\ Cardinality(T) <= Cardinality(S)
  BY <1>1, OneMore
<1> QED BY <1>2

-----------------------------------------------------------------------------
(***************************************************************************)
(* Shared reports: what one step leaves of the others                      *)
(***************************************************************************)
\* Tables only grow, and what is on record of a link stays there.
LinksStand ==
    /\ DOMAIN link \subseteq DOMAIN link'
    /\ \A i \in DOMAIN link :
        /\ link[i].created => link'[i].created
        /\ ~link[i].active => ~link'[i].active
        /\ shown[i].closed => shown'[i].closed

\* One request moves, and answers for the links whose row it wrote.
OneSteps(q, r) ==
    /\ shareReq' = [shareReq EXCEPT ![q] = r]
    /\ r = NoShareRequest \/ r \in ShareRequest
    /\ r # NoShareRequest /\ r.id = 0 => r.kind = "create" /\ r.pc = "arrived"
    /\ link' \in Seq(ShareLink) /\ Len(link') <= MaxLinks
    /\ shown' \in Seq(Shown) /\ Len(shown') = Len(link')
    /\ LinksStand

LEMMA StepKeeps ==
    ASSUME SharesInv, NEW q \in ShareRequests, NEW r, OneSteps(q, r), RequestStands(q)',
           \A i \in DOMAIN link' : ViewsCounted(i)' /\ LinkMarked(i)'
    PROVE  SharesInv'
<1>1. shareReq'[q] = r /\ \A b \in ShareRequests : b # q => shareReq'[b] = shareReq[b]
  BY DEF SharesInv, SharedTypeOK, OneSteps
<1>2. SharedTypeOK'
  <2>1. shareReq' \in [ShareRequests -> {NoShareRequest} \cup ShareRequest]
    BY <1>1 DEF SharesInv, SharedTypeOK, OneSteps
  <2>2. \A b \in ShareRequests : shareReq'[b] # NoShareRequest /\ shareReq'[b].id = 0 =>
                                    shareReq'[b].kind = "create" /\ shareReq'[b].pc = "arrived"
    BY <1>1 DEF SharesInv, SharedTypeOK, OneSteps
  <2> QED BY <2>1, <2>2 DEF SharedTypeOK, OneSteps
<1>3. LinkInv'
  BY DEF LinkInv
<1>4. ASSUME NEW b \in ShareRequests PROVE RequestStands(b)'
  <2>1. CASE b = q
    BY <2>1
  <2>2. CASE b # q
    <3>1. shareReq'[b] = shareReq[b] /\ RequestStands(b)
      BY <1>1, <2>2 DEF SharesInv, RequestsInv
    <3> PICK i : i = shareReq[b].id
      OBVIOUS
    <3>2. CASE shareReq[b] = NoShareRequest
      BY <3>1, <3>2 DEF RequestStands
    <3>3. CASE shareReq[b] # NoShareRequest
      <4>1. /\ i # 0 => i \in DOMAIN link
            /\ shareReq[b].pc \in Viewing => shareReq[b].kind = "open"
            /\ shareReq[b].kind = "open" => i # 0 /\ link[i].created
            /\ shareReq[b].pc = "revoked" => i # 0 /\ ~link[i].active
            /\ shareReq[b].kind = "open" /\ shareReq[b].late => shareReq[b].pc = "arrived" /\ shown[i].closed
        BY <3>1, <3>3 DEF RequestStands
      <4>2. i \in DOMAIN link => /\ i \in DOMAIN link'
                                 /\ link[i].created => link'[i].created
                                 /\ ~link[i].active => ~link'[i].active
                                 /\ shown[i].closed => shown'[i].closed
        BY DEF OneSteps, LinksStand
      <4> QED BY <3>1, <4>1, <4>2 DEF RequestStands
    <3> QED BY <3>2, <3>3
  <2> QED BY <2>1, <2>2
<1> QED BY <1>2, <1>3, <1>4 DEF SharesInv, RequestsInv

\* A link whose rows are not written stays, unless the request starts to view it.
LEMMA LinkStays ==
    ASSUME SharesInv, NEW q \in ShareRequests, NEW r, OneSteps(q, r), NEW i \in DOMAIN link,
           link'[i] = link[i], shown'[i] = shown[i],
           r.pc \in {"viewed", "audited"} => r.id # i
    PROVE  ViewsCounted(i)' /\ LinkMarked(i)'
<1>1. ViewsCounted(i) /\ LinkMarked(i)
  BY DEF SharesInv, LinkInv
<1>2. ASSUME NEW pc \in {"viewed", "audited"}
      PROVE  /\ Cardinality(Between(pc, i)) \in Nat /\ Cardinality(Between(pc, i)') \in Nat
             /\ Cardinality(Between(pc, i)') <= Cardinality(Between(pc, i))
  BY <1>2, BetweenShrinks DEF OneSteps
<1>3. shown[i].reports \in Nat /\ link[i].viewed \in Nat /\ link[i].views \in Nat
  BY ShareFacts DEF ShareLink, Shown
<1> PICK a \in Nat, b \in Nat, c \in Nat, d \in Nat :
      /\ a = Cardinality(Between("audited", i)) /\ b = Cardinality(Between("audited", i)')
      /\ c = Cardinality(Between("viewed", i)) /\ d = Cardinality(Between("viewed", i)')
  BY <1>2
<1>4. b <= a /\ d <= c
  BY <1>2
<1>5. ViewsCounted(i)'
  BY <1>1, <1>3, <1>4 DEF ViewsCounted
<1>6. LinkMarked(i)'
  BY <1>1 DEF LinkMarked
<1> QED BY <1>5, <1>6

-----------------------------------------------------------------------------
(***************************************************************************)
(* Shared reports: every step                                              *)
(***************************************************************************)
LEMMA NoTableWritten ==
    ASSUME SharesInv, NEW q \in ShareRequests, NEW r, shareReq' = [shareReq EXCEPT ![q] = r],
           r = NoShareRequest \/ r \in ShareRequest,
           r # NoShareRequest /\ r.id = 0 => r.kind = "create" /\ r.pc = "arrived",
           UNCHANGED <<link, shown>>, r.pc \notin {"viewed", "audited"}, RequestStands(q)'
    PROVE  SharesInv'
<1>1. OneSteps(q, r)
  BY ShareFacts DEF OneSteps, LinksStand
<1>2. \A i \in DOMAIN link' : ViewsCounted(i)' /\ LinkMarked(i)'
  BY <1>1, LinkStays
<1> QED BY <1>1, <1>2, StepKeeps

LEMMA LeaveOnlyKeeps ==
    ASSUME SharesInv, NEW q \in ShareRequests, ShareLeave(q), UNCHANGED <<link, shown>>
    PROVE  SharesInv'
<1>1. shareReq'[q] = NoShareRequest
  BY DEF SharesInv, SharedTypeOK, ShareLeave
<1>2. RequestStands(q)'
  BY <1>1 DEF RequestStands
<1>3. NoShareRequest.pc \notin {"viewed", "audited"}
  BY DEF NoShareRequest
<1> QED BY <1>2, <1>3, NoTableWritten DEF ShareLeave

LEMMA ShareArriveKeeps ==
    ASSUME SharesInv, NEW q \in ShareRequests, NEW kind, NEW i, ShareArrive(q, kind, i),
           \/ kind = "create" /\ i = 0
           \/ kind \in {"revoke", "rotate", "open"} /\ i \in DOMAIN link
    PROVE  SharesInv'
<1> PICK late : late = (i # 0 /\ shown[i].closed)
  OBVIOUS
<1> PICK r : r = [pc |-> "arrived", kind |-> kind, id |-> i, late |-> late]
  OBVIOUS
<1>1. late \in BOOLEAN
  OBVIOUS
<1>2. r \in ShareRequest
  BY <1>1, ShareFacts DEF ShareRequest
<1>3. r.pc = "arrived" /\ r.kind = kind /\ r.id = i /\ r.late = late /\ r # NoShareRequest
  BY DEF NoShareRequest
<1>4. shareReq' = [shareReq EXCEPT ![q] = r] /\ UNCHANGED <<link, shown>>
  BY DEF ShareArrive
<1>5. shareReq'[q] = r
  BY <1>4 DEF SharesInv, SharedTypeOK
<1>6. i \in DOMAIN link => i # 0
  BY ShareFacts
<1>7. kind = "open" => link[i].created
  BY <1>6 DEF ShareArrive, SharesInv, LinkInv, LinkMarked
<1>8. RequestStands(q)'
  BY <1>3, <1>4, <1>5, <1>6, <1>7 DEF RequestStands, Viewing
<1>9. r.id = 0 => r.kind = "create" /\ r.pc = "arrived"
  BY <1>3, <1>6
<1> QED BY <1>2, <1>3, <1>4, <1>8, <1>9, NoTableWritten

\* The next row of the table of links, and that of what was shown of them.
Rewrites(q, r, i, row, out) ==
    /\ shareReq' = [shareReq EXCEPT ![q] = r]
    /\ r = NoShareRequest \/ r \in ShareRequest
    /\ r # NoShareRequest /\ r.id = 0 => r.kind = "create" /\ r.pc = "arrived"
    /\ i \in DOMAIN link /\ row \in ShareLink /\ out \in Shown
    /\ link' = [link EXCEPT ![i] = row] /\ shown' = [shown EXCEPT ![i] = out]
    /\ link[i].created => row.created
    /\ ~link[i].active => ~row.active
    /\ shown[i].closed => out.closed
    /\ r.pc \in {"viewed", "audited"} => r.id = i

LEMMA RowsWritten ==
    ASSUME SharesInv, NEW q \in ShareRequests, NEW r, NEW i, NEW row, NEW out,
           Rewrites(q, r, i, row, out)
    PROVE  /\ OneSteps(q, r) /\ DOMAIN link' = DOMAIN link
           /\ link'[i] = row /\ shown'[i] = out /\ shareReq'[q] = r
           /\ \A j \in DOMAIN link : j # i => ViewsCounted(j)' /\ LinkMarked(j)'
<1>1. RowWritten(ShareLink, link', link, i, row) /\ RowWritten(Shown, shown', shown, i, out)
  BY WritesRow, ShareFacts DEF Rewrites
<1>2. /\ link' \in Seq(ShareLink) /\ Len(link') = Len(link) /\ DOMAIN link' = DOMAIN link
      /\ shown' \in Seq(Shown) /\ Len(shown') = Len(link')
      /\ link'[i] = row /\ shown'[i] = out
      /\ \A j \in DOMAIN link : j # i => link'[j] = link[j] /\ shown'[j] = shown[j]
  BY <1>1, ShareFacts DEF RowWritten, Rewrites
<1>3. LinksStand
  BY <1>2 DEF LinksStand, Rewrites
<1>4. OneSteps(q, r)
  BY <1>2, <1>3, ShareFacts DEF OneSteps, Rewrites
<1>5. \A j \in DOMAIN link : j # i => ViewsCounted(j)' /\ LinkMarked(j)'
  BY <1>2, <1>4, LinkStays DEF Rewrites
<1>6. shareReq'[q] = r
  BY DEF SharesInv, SharedTypeOK, Rewrites
<1> QED BY <1>2, <1>4, <1>5, <1>6

\* A table whose row is not written.
LEMMA RowsKept ==
    ASSUME SharesInv, NEW i \in DOMAIN link
    PROVE  link = [link EXCEPT ![i] = link[i]] /\ shown = [shown EXCEPT ![i] = shown[i]]
BY ShareFacts

LEMMA OnlyMarks ==
    ASSUME SharesInv, NEW q \in ShareRequests, NEW r, OneSteps(q, r), NEW i \in DOMAIN link,
           r.pc \notin {"viewed", "audited"},
           shown'[i].reports = shown[i].reports, link'[i].viewed = link[i].viewed, link'[i].views = link[i].views
    PROVE  ViewsCounted(i)'
<1>1. ViewsCounted(i)
  BY DEF SharesInv, LinkInv
<1>2. ASSUME NEW pc \in {"viewed", "audited"}
      PROVE  /\ Cardinality(Between(pc, i)) \in Nat /\ Cardinality(Between(pc, i)') \in Nat
             /\ Cardinality(Between(pc, i)') <= Cardinality(Between(pc, i))
  <2>1. r.pc # pc /\ shareReq' = [shareReq EXCEPT ![q] = r]
    BY <1>2 DEF OneSteps
  <2> QED BY <2>1, BetweenShrinks
<1>3. shown[i].reports \in Nat /\ link[i].viewed \in Nat /\ link[i].views \in Nat
  BY ShareFacts DEF ShareLink, Shown
<1> PICK a \in Nat, b \in Nat, c \in Nat, d \in Nat :
      /\ a = Cardinality(Between("audited", i)) /\ b = Cardinality(Between("audited", i)')
      /\ c = Cardinality(Between("viewed", i)) /\ d = Cardinality(Between("viewed", i)')
  BY <1>2
<1>4. b <= a /\ d <= c
  BY <1>2
<1> QED BY <1>1, <1>3, <1>4 DEF ViewsCounted

\* Of a link's row only its marks change.
LEMMA MarksKeep ==
    ASSUME SharesInv, NEW q \in ShareRequests, NEW r, shareReq' = [shareReq EXCEPT ![q] = r],
           r = NoShareRequest \/ r \in ShareRequest,
           r # NoShareRequest /\ r.id = 0 => r.kind = "create" /\ r.pc = "arrived",
           r.pc \notin {"viewed", "audited"},
           NEW i \in DOMAIN link, NEW row \in ShareLink, NEW out \in Shown,
           link' = [link EXCEPT ![i] = row], shown' = [shown EXCEPT ![i] = out],
           row.views = link[i].views, row.viewed = link[i].viewed, out.reports = shown[i].reports,
           link[i].created => row.created, ~link[i].active => ~row.active, shown[i].closed => out.closed,
           out.token => row.created, out.closed => ~row.active, RequestStands(q)'
    PROVE  SharesInv'
<1>0. Rewrites(q, r, i, row, out)
  BY DEF Rewrites
<1>1. /\ OneSteps(q, r) /\ DOMAIN link' = DOMAIN link
      /\ link'[i] = row /\ shown'[i] = out
      /\ \A j \in DOMAIN link : j # i => ViewsCounted(j)' /\ LinkMarked(j)'
  BY <1>0, RowsWritten
<1>2. ViewsCounted(i)'
  BY <1>1, OnlyMarks
<1>3. LinkMarked(i)'
  BY <1>1 DEF LinkMarked, SharesInv, LinkInv
<1> QED BY <1>1, <1>2, <1>3, StepKeeps

LEMMA RevokeLinkKeeps ==
    ASSUME SharesInv, NEW q \in ShareRequests, RevokeLink(q)
    PROVE  SharesInv'
<1>0. shareReq[q] \in ShareRequest /\ shareReq[q].id \in DOMAIN link /\ RequestStands(q) /\ shareReq[q] # NoShareRequest
  BY ShareFacts DEF RevokeLink, ShareAt, SharesInv, RequestsInv
<1> PICK i \in DOMAIN link : i = shareReq[q].id
  BY <1>0
<1> PICK r : r = [shareReq[q] EXCEPT !.pc = "revoked"]
  OBVIOUS
<1> PICK row : row = [link[i] EXCEPT !.active = FALSE]
  OBVIOUS
<1>1. /\ r \in ShareRequest /\ r.pc = "revoked" /\ r.id = i /\ r.kind \in {"revoke", "rotate"}
      /\ r # NoShareRequest
  BY <1>0 DEF ShareRequest, RevokeLink, ShareAt, NoShareRequest
<1>2. /\ row \in ShareLink /\ ~row.active /\ row.views = link[i].views /\ row.viewed = link[i].viewed
      /\ row.created = link[i].created
  BY ShareFacts DEF ShareLink
<1>3. /\ shareReq' = [shareReq EXCEPT ![q] = r] /\ link' = [link EXCEPT ![i] = row]
      /\ shown' = [shown EXCEPT ![i] = shown[i]]
  BY RowsKept DEF RevokeLink, ShareTo, Deactivated
<1>4. shown[i] \in Shown /\ (shown[i].token => row.created) /\ i # 0
  BY <1>2, ShareFacts DEF SharesInv, LinkInv, LinkMarked
<1>5. shareReq'[q] = r /\ link'[i] = row /\ DOMAIN link' = DOMAIN link
  BY <1>3, ShareFacts DEF SharesInv, SharedTypeOK
<1>6. RequestStands(q)'
  <2>1. /\ shareReq'[q].pc = "revoked" /\ shareReq'[q].id = i /\ shareReq'[q].kind # "open"
        /\ ~link'[i].active /\ i \in DOMAIN link' /\ i # 0
    BY <1>1, <1>2, <1>4, <1>5
  <2> QED BY <2>1 DEF RequestStands, Viewing
<1>7. /\ link[i].created => row.created
      /\ shown[i].closed => ~row.active
  BY <1>2
<1> QED BY <1>1, <1>2, <1>3, <1>4, <1>6, <1>7, MarksKeep

LEMMA AuditRevokeKeeps ==
    ASSUME SharesInv, NEW q \in ShareRequests, AuditRevoke(q)
    PROVE  SharesInv'
<1>0. shareReq[q].id \in DOMAIN link /\ RequestStands(q) /\ shareReq[q] # NoShareRequest
  BY ShareFacts DEF AuditRevoke, ShareAt, SharesInv, RequestsInv
<1> PICK i \in DOMAIN link : i = shareReq[q].id
  BY <1>0
<1> PICK out : out = [shown[i] EXCEPT !.closed = TRUE]
  OBVIOUS
<1>1. /\ out \in Shown /\ out.closed /\ out.reports = shown[i].reports /\ out.token = shown[i].token
  BY ShareFacts DEF Shown
<1>2. link[i] \in ShareLink /\ ~link[i].active /\ (shown[i].token => link[i].created)
  BY <1>0, ShareFacts DEF RequestStands, AuditRevoke, ShareAt, SharesInv, LinkInv, LinkMarked
<1>3. /\ shareReq' = [shareReq EXCEPT ![q] = NoShareRequest] /\ link' = [link EXCEPT ![i] = link[i]]
      /\ shown' = [shown EXCEPT ![i] = out]
  BY RowsKept DEF AuditRevoke, ShareLeave
<1>4. shareReq'[q] = NoShareRequest /\ NoShareRequest.pc = "idle"
  BY <1>3 DEF SharesInv, SharedTypeOK, NoShareRequest
<1>5. RequestStands(q)'
  BY <1>4 DEF RequestStands
<1> QED BY <1>1, <1>2, <1>3, <1>4, <1>5, MarksKeep

LEMMA AuditCreateKeeps ==
    ASSUME SharesInv, NEW q \in ShareRequests, AuditCreate(q)
    PROVE  SharesInv'
<1>0. shareReq[q] \in ShareRequest /\ shareReq[q].id \in DOMAIN link /\ RequestStands(q) /\ shareReq[q] # NoShareRequest
  BY ShareFacts DEF AuditCreate, SharesInv, RequestsInv
<1> PICK i \in DOMAIN link : i = shareReq[q].id
  BY <1>0
<1> PICK row : row = [link[i] EXCEPT !.created = TRUE]
  OBVIOUS
<1> PICK r : r = shareReq[q]
  OBVIOUS
<1>1. /\ row \in ShareLink /\ row.created /\ row.views = link[i].views /\ row.viewed = link[i].viewed
      /\ row.active = link[i].active
  BY ShareFacts DEF ShareLink
<1>2. /\ shareReq' = [shareReq EXCEPT ![q] = r] /\ link' = [link EXCEPT ![i] = row]
      /\ shown' = [shown EXCEPT ![i] = shown[i]]
  BY RowsKept DEF AuditCreate, SharesInv, SharedTypeOK
<1>3. shown[i] \in Shown /\ (shown[i].closed => ~row.active) /\ i # 0
  BY <1>1, ShareFacts DEF SharesInv, LinkInv, LinkMarked
<1>4. shareReq'[q] = r /\ link'[i] = row /\ DOMAIN link' = DOMAIN link /\ UNCHANGED shown
  BY <1>2, ShareFacts DEF SharesInv, SharedTypeOK, AuditCreate
<1>5. r.pc = "changed" /\ r.id = i /\ r.id # 0
  BY <1>3 DEF AuditCreate
<1>6. RequestStands(q)'
  BY <1>0, <1>1, <1>4, <1>5 DEF RequestStands, Viewing
<1>7. ~link[i].active => ~row.active
  BY <1>1
<1> QED BY <1>0, <1>1, <1>2, <1>3, <1>5, <1>6, <1>7, MarksKeep

LEMMA AnswerTokenKeeps ==
    ASSUME SharesInv, NEW q \in ShareRequests, AnswerToken(q)
    PROVE  SharesInv'
<1>0. shareReq[q].id \in DOMAIN link
  BY ShareFacts DEF AnswerToken, TokenAfter
<1> PICK i \in DOMAIN link : i = shareReq[q].id
  BY <1>0
<1> PICK out : out = [shown[i] EXCEPT !.token = TRUE]
  OBVIOUS
<1>1. /\ out \in Shown /\ out.closed = shown[i].closed /\ out.reports = shown[i].reports
  BY ShareFacts DEF Shown
<1>2. link[i] \in ShareLink /\ link[i].created /\ (out.closed => ~link[i].active)
  BY <1>1, ShareFacts DEF AnswerToken, TokenAfter, SharesInv, LinkInv, LinkMarked
<1>3. /\ shareReq' = [shareReq EXCEPT ![q] = NoShareRequest] /\ link' = [link EXCEPT ![i] = link[i]]
      /\ shown' = [shown EXCEPT ![i] = out]
  BY RowsKept DEF AnswerToken, ShareLeave
<1>4. shareReq'[q] = NoShareRequest /\ NoShareRequest.pc = "idle"
  BY <1>3 DEF SharesInv, SharedTypeOK, NoShareRequest
<1>5. RequestStands(q)'
  BY <1>4 DEF RequestStands
<1>6. shown[i].closed => out.closed
  BY <1>1
<1> QED BY <1>1, <1>2, <1>3, <1>4, <1>5, <1>6, MarksKeep

LEMMA TestLinkKeeps ==
    ASSUME SharesInv, NEW q \in ShareRequests, TestLink(q)
    PROVE  SharesInv'
<1>1. CASE ShareLeave(q)
  BY <1>1, LeaveOnlyKeeps DEF TestLink
<1>2. CASE link[shareReq[q].id].active /\ ShareTo(q, "tested")
  <2>0. shareReq[q] \in ShareRequest /\ shareReq[q].id \in DOMAIN link /\ RequestStands(q) /\ shareReq[q] # NoShareRequest
    BY ShareFacts DEF TestLink, ShareAt, SharesInv, RequestsInv
  <2> PICK i \in DOMAIN link : i = shareReq[q].id
    BY <2>0
  <2> PICK r : r = [shareReq[q] EXCEPT !.pc = "tested"]
    OBVIOUS
  <2>1. /\ r \in ShareRequest /\ r.pc = "tested" /\ r.id = i /\ r.kind = "open" /\ r # NoShareRequest
        /\ r.late = shareReq[q].late
    BY <2>0 DEF ShareRequest, TestLink, ShareAt, NoShareRequest
  <2>2. shareReq' = [shareReq EXCEPT ![q] = r] /\ UNCHANGED <<link, shown>>
    BY <1>2 DEF ShareTo, TestLink
  <2>3. shareReq'[q] = r
    BY <2>2 DEF SharesInv, SharedTypeOK
  <2>4. i # 0 /\ link[i].created /\ (shareReq[q].late => shown[i].closed)
    BY <2>0 DEF RequestStands, TestLink, ShareAt
  <2>5. ~shareReq[q].late
    BY <1>2, <2>4 DEF SharesInv, LinkInv, LinkMarked
  <2>6. RequestStands(q)'
    BY <2>1, <2>2, <2>3, <2>4, <2>5 DEF RequestStands
  <2> QED BY <2>1, <2>2, <2>4, <2>6, NoTableWritten
<1> QED BY <1>1, <1>2 DEF TestLink

\* Nobody views a link that is new.
LEMMA BetweenNone ==
    ASSUME SharesInv, NEW q \in ShareRequests, NEW r, shareReq' = [shareReq EXCEPT ![q] = r],
           NEW pc \in {"viewed", "audited"}, r.pc # pc, NEW i, i # 0, i \notin DOMAIN link
    PROVE  Cardinality(Between(pc, i)') = 0
<1>1. Between(pc, i) = {}
  BY ShareFacts DEF Between
<1>2. /\ SameBut(q, Between(pc, i), Between(pc, i)') /\ q \notin Between(pc, i)'
  BY BetweenMoves
<1>3. Between(pc, i)' = {}
  BY <1>1, <1>2 DEF SameBut
<1> QED BY <1>3, FS_EmptySet

LEMMA SaveLinkKeeps ==
    ASSUME SharesInv, NEW q \in ShareRequests, SaveLink(q)
    PROVE  SharesInv'
<1> PICK n : n = Len(link) + 1
  OBVIOUS
<1> PICK r : r = [[shareReq[q] EXCEPT !.pc = "changed"] EXCEPT !.id = n]
  OBVIOUS
<1> PICK row : row = [active |-> TRUE, views |-> 0, created |-> FALSE, viewed |-> 0]
  OBVIOUS
<1> PICK out : out = [token |-> FALSE, closed |-> FALSE, reports |-> 0]
  OBVIOUS
<1> PICK mid : mid = IF shareReq[q].kind = "rotate"
                     THEN [shown EXCEPT ![shareReq[q].id].closed = TRUE] ELSE shown
  OBVIOUS
<1>0. shareReq[q] \in ShareRequest /\ RequestStands(q) /\ shareReq[q] # NoShareRequest
  BY ShareFacts DEF SaveLink, ShareAt, SharesInv, RequestsInv
<1>1. /\ row \in ShareLink /\ ~row.created /\ row.views = 0 /\ row.viewed = 0 /\ row.active
      /\ out \in Shown /\ ~out.token /\ ~out.closed /\ out.reports = 0
  BY ShareFacts DEF ShareLink, Shown
<1>2. n \in 1..MaxLinks /\ n # 0 /\ n \notin DOMAIN link
  BY ShareFacts DEF SaveLink
<1>3. /\ r \in ShareRequest /\ r.pc = "changed" /\ r.id = n /\ r.kind = shareReq[q].kind
      /\ r # NoShareRequest /\ r.kind \in {"create", "rotate"}
  <2>1. n \in 0..MaxLinks
    BY <1>2, ShareFacts
  <2>2. shareReq[q].kind \in {"create", "rotate"}
    BY DEF SaveLink, ShareAt
  <2> QED BY <1>0, <2>1, <2>2 DEF ShareRequest, NoShareRequest
<1>4. shareReq' = [shareReq EXCEPT ![q] = r]
  BY DEF SaveLink, SharesInv, SharedTypeOK
<1>5. /\ mid \in Seq(Shown) /\ Len(mid) = Len(shown) /\ DOMAIN mid = DOMAIN link
      /\ \A i \in DOMAIN link : /\ mid[i].reports = shown[i].reports /\ mid[i].token = shown[i].token
                                /\ shown[i].closed => mid[i].closed
                                /\ mid[i].closed => ~link[i].active
  <2>1. \A i \in DOMAIN link : shown[i].closed => ~link[i].active
    BY DEF SharesInv, LinkInv, LinkMarked
  <2>2. CASE shareReq[q].kind # "rotate"
    <3>1. mid = shown
      BY <2>2
    <3> QED BY <2>1, <3>1, ShareFacts
  <2>3. CASE shareReq[q].kind = "rotate"
    <3>1. shareReq[q].id \in DOMAIN link /\ ~link[shareReq[q].id].active
      BY <1>0, <2>3 DEF RequestStands, SaveLink, ShareAt
    <3> PICK i \in DOMAIN link : i = shareReq[q].id
      BY <3>1
    <3> PICK late : late = [shown[i] EXCEPT !.closed = TRUE]
      OBVIOUS
    <3>2. late \in Shown /\ late.closed /\ late.reports = shown[i].reports /\ late.token = shown[i].token
      BY ShareFacts DEF Shown
    <3>3. mid = [shown EXCEPT ![i] = late]
      BY <2>3
    <3>4. RowWritten(Shown, mid, shown, i, late)
      BY <3>2, <3>3, WritesRow, ShareFacts
    <3>5. ASSUME NEW j \in DOMAIN link
          PROVE  /\ mid[j].reports = shown[j].reports /\ mid[j].token = shown[j].token
                 /\ shown[j].closed => mid[j].closed
                 /\ mid[j].closed => ~link[j].active
      <4>1. CASE j = i
        BY <3>1, <3>2, <3>4, <4>1 DEF RowWritten
      <4>2. CASE j # i
        <5>1. mid[j] = shown[j]
          BY <3>4, <4>2, ShareFacts DEF RowWritten
        <5> QED BY <2>1, <5>1
      <4> QED BY <4>1, <4>2
    <3> QED BY <3>4, <3>5, ShareFacts DEF RowWritten
  <2> QED BY <2>2, <2>3
<1>6. RowAdded(ShareLink, link', link, row) /\ RowAdded(Shown, shown', mid, out)
  <2>1. link' = Append(link, row) /\ shown' = Append(mid, out)
    BY DEF SaveLink
  <2> QED BY <1>1, <1>5, <2>1, AddsRow, ShareFacts
<1>7. /\ link' \in Seq(ShareLink) /\ Len(link') <= MaxLinks
      /\ shown' \in Seq(Shown) /\ Len(shown') = Len(link')
      /\ DOMAIN link' = DOMAIN link \cup {n}
      /\ link'[n] = row /\ shown'[n] = out
      /\ \A i \in DOMAIN link : link'[i] = link[i] /\ shown'[i] = mid[i]
  <2>1. Len(link') = n /\ Len(shown') = n
    BY <1>5, <1>6, ShareFacts DEF RowAdded
  <2>2. n <= MaxLinks
    BY <1>2, ShareFacts
  <2>3. \A i \in DOMAIN link : link'[i] = link[i] /\ shown'[i] = mid[i]
    BY <1>5, <1>6 DEF RowAdded
  <2>4. DOMAIN link' = DOMAIN link \cup {n} /\ link'[n] = row /\ shown'[n] = out
    BY <1>6, <2>1 DEF RowAdded
  <2>5. link' \in Seq(ShareLink) /\ shown' \in Seq(Shown)
    BY <1>6 DEF RowAdded
  <2> QED BY <2>1, <2>2, <2>3, <2>4, <2>5
<1>8. OneSteps(q, r)
  <2>1. LinksStand
    BY <1>5, <1>7 DEF LinksStand
  <2> QED BY <1>2, <1>3, <1>4, <1>7, <2>1 DEF OneSteps
<1>9. RequestStands(q)'
  <2>1. shareReq'[q] = r
    BY <1>4 DEF SharesInv, SharedTypeOK
  <2>2. shareReq'[q].pc = "changed" /\ shareReq'[q].id = n /\ shareReq'[q].kind # "open" /\ n \in DOMAIN link'
    BY <1>3, <1>7, <2>1
  <2> QED BY <2>2 DEF RequestStands, Viewing
<1>10. ASSUME NEW i \in DOMAIN link PROVE ViewsCounted(i)' /\ LinkMarked(i)'
  <2>1. /\ shown'[i].reports = shown[i].reports /\ shown'[i].token = shown[i].token
        /\ link'[i] = link[i]
        /\ shown'[i].closed => ~link[i].active
    BY <1>5, <1>7
  <2>2. r.pc \notin {"viewed", "audited"} /\ link'[i].viewed = link[i].viewed /\ link'[i].views = link[i].views
    BY <1>3, <2>1
  <2>3. ViewsCounted(i)'
    BY <1>8, <2>1, <2>2, OnlyMarks
  <2>4. LinkMarked(i)
    BY DEF SharesInv, LinkInv
  <2> QED BY <2>1, <2>3, <2>4 DEF LinkMarked
<1>11. ViewsCounted(n)' /\ LinkMarked(n)'
  <2>1. ASSUME NEW pc \in {"viewed", "audited"} PROVE Cardinality(Between(pc, n)') = 0
    BY <1>2, <1>3, <1>4, <2>1, BetweenNone
  <2>2. Cardinality(Between("viewed", n)') = 0 /\ Cardinality(Between("audited", n)') = 0
    BY <2>1
  <2>3. ViewsCounted(n)'
    BY <1>1, <1>7, <2>2 DEF ViewsCounted
  <2>4. LinkMarked(n)'
    BY <1>1, <1>7 DEF LinkMarked
  <2> QED BY <2>3, <2>4
<1>12. \A i \in DOMAIN link' : ViewsCounted(i)' /\ LinkMarked(i)'
  BY <1>7, <1>10, <1>11
<1> QED BY <1>8, <1>9, <1>12, StepKeeps

-----------------------------------------------------------------------------
(***************************************************************************)
(* Shared reports: the commits of a view                                   *)
(***************************************************************************)
\* Of a link's rows only its counts change.
LEMMA CountsKeep ==
    ASSUME SharesInv, NEW q \in ShareRequests, NEW r, NEW i, NEW row, NEW out,
           Rewrites(q, r, i, row, out),
           row.views = 0 \/ row.created, row.created = link[i].created, row.active = link[i].active,
           out.token = shown[i].token, out.closed = shown[i].closed,
           ViewsCounted(i)', RequestStands(q)'
    PROVE  SharesInv'
<1>1. /\ OneSteps(q, r) /\ DOMAIN link' = DOMAIN link
      /\ link'[i] = row /\ shown'[i] = out
      /\ \A j \in DOMAIN link : j # i => ViewsCounted(j)' /\ LinkMarked(j)'
  BY RowsWritten
<1>2. i \in DOMAIN link /\ row \in ShareLink
  BY DEF Rewrites
<1>3. LinkMarked(i)
  BY <1>2 DEF SharesInv, LinkInv
<1>4. LinkMarked(i)'
  BY <1>1, <1>2, <1>3 DEF LinkMarked, ShareLink
<1> QED BY <1>1, <1>4, StepKeeps

\* A view between its commits.
LEMMA ViewFacts ==
    ASSUME SharesInv, NEW q \in ShareRequests, shareReq[q].pc \in Viewing
    PROVE  /\ shareReq[q] \in ShareRequest /\ shareReq[q].id \in DOMAIN link /\ shareReq[q] # NoShareRequest
           /\ shareReq[q].id # 0 /\ shareReq[q].kind = "open" /\ ~shareReq[q].late
           /\ link[shareReq[q].id].created /\ ViewsCounted(shareReq[q].id)
           /\ q \in Between(shareReq[q].pc, shareReq[q].id)
<1>1. shareReq[q].pc # "idle" /\ shareReq[q].pc # "arrived"
  BY DEF Viewing
<1>2. /\ shareReq[q] # NoShareRequest /\ shareReq[q] \in ShareRequest
      /\ shareReq[q].id \in DOMAIN link
  BY <1>1, ShareFacts
<1>3. RequestStands(q)
  BY DEF SharesInv, RequestsInv
<1>4. shareReq[q].id # 0 /\ shareReq[q].kind = "open" /\ ~shareReq[q].late /\ link[shareReq[q].id].created
  BY <1>1, <1>2, <1>3 DEF RequestStands
<1> QED BY <1>2, <1>4 DEF SharesInv, LinkInv, Between

\* The next commit of a view.
LEMMA ViewOn ==
    ASSUME SharesInv, NEW q \in ShareRequests, shareReq[q].pc \in Viewing,
           NEW pc \in Viewing, ShareTo(q, pc), NEW r, r = [shareReq[q] EXCEPT !.pc = pc],
           NEW i, i = shareReq[q].id,
           DOMAIN link' = DOMAIN link, link'[i].created = link[i].created
    PROVE  /\ r \in ShareRequest /\ r.pc = pc /\ r.id = i /\ r # NoShareRequest /\ r.id # 0
           /\ shareReq' = [shareReq EXCEPT ![q] = r]
           /\ RequestStands(q)'
<1>1. /\ r \in ShareRequest /\ r.pc = pc /\ r.id = i /\ r # NoShareRequest /\ r.id # 0
      /\ r.kind = "open" /\ ~r.late
  BY ViewFacts DEF ShareRequest, Viewing, NoShareRequest
<1>2. shareReq' = [shareReq EXCEPT ![q] = r]
  BY DEF ShareTo
<1>3. shareReq'[q] = r
  BY <1>2 DEF SharesInv, SharedTypeOK
<1>4. i \in DOMAIN link' /\ link'[i].created
  BY ViewFacts
<1>5. RequestStands(q)'
  BY <1>1, <1>3, <1>4 DEF RequestStands, Viewing
<1> QED BY <1>1, <1>2, <1>5

\* The sums behind the three commits of a view.
LEMMA ViewAdded ==
    ASSUME SharesInv, NEW i \in DOMAIN link, ViewsCounted(i), NEW row,
           link'[i] = row, UNCHANGED shown, row.viewed = link[i].viewed, row.views = link[i].views + 1,
           /\ Cardinality(Between("viewed", i)') = Cardinality(Between("viewed", i)) + 1
           /\ Cardinality(Between("viewed", i)) \in Nat,
           /\ Cardinality(Between("audited", i)) \in Nat /\ Cardinality(Between("audited", i)') \in Nat
           /\ Cardinality(Between("audited", i)') <= Cardinality(Between("audited", i))
    PROVE  ViewsCounted(i)'
<1>1. shown[i].reports \in Nat /\ link[i].viewed \in Nat /\ link[i].views \in Nat
  BY ShareFacts DEF ShareLink, Shown
<1> QED BY <1>1 DEF ViewsCounted

LEMMA ViewAudited ==
    ASSUME SharesInv, NEW i \in DOMAIN link, ViewsCounted(i), NEW row,
           link'[i] = row, UNCHANGED shown, row.viewed = link[i].viewed + 1, row.views = link[i].views,
           /\ Cardinality(Between("viewed", i)) = Cardinality(Between("viewed", i)') + 1
           /\ Cardinality(Between("viewed", i)') \in Nat,
           /\ Cardinality(Between("audited", i)') = Cardinality(Between("audited", i)) + 1
           /\ Cardinality(Between("audited", i)) \in Nat
    PROVE  ViewsCounted(i)'
<1>1. shown[i].reports \in Nat /\ link[i].viewed \in Nat /\ link[i].views \in Nat
  BY ShareFacts DEF ShareLink, Shown
<1> QED BY <1>1 DEF ViewsCounted

LEMMA ReportAnswered ==
    ASSUME SharesInv, NEW i \in DOMAIN link, ViewsCounted(i), NEW out,
           shown'[i] = out, link'[i] = link[i], out.reports = shown[i].reports + 1,
           /\ Cardinality(Between("audited", i)) = Cardinality(Between("audited", i)') + 1
           /\ Cardinality(Between("audited", i)') \in Nat,
           /\ Cardinality(Between("viewed", i)) \in Nat /\ Cardinality(Between("viewed", i)') \in Nat
           /\ Cardinality(Between("viewed", i)') <= Cardinality(Between("viewed", i))
    PROVE  ViewsCounted(i)'
<1>1. shown[i].reports \in Nat /\ link[i].viewed \in Nat /\ link[i].views \in Nat
  BY SMTT(30), ShareFacts DEF ShareLink, Shown
<1> QED BY <1>1 DEF ViewsCounted

\* One view more is stored.
LEMMA AddViewKeeps ==
    ASSUME SharesInv, NEW q \in ShareRequests, AddView(q)
    PROVE  SharesInv'
<1> PICK i : i = shareReq[q].id
  OBVIOUS
<1>0. shareReq[q].pc \in Viewing /\ i \in DOMAIN link /\ link[i].created /\ ViewsCounted(i)
  BY ViewFacts DEF AddView, Viewing
<1> PICK n \in Nat : n = link[i].views
  BY <1>0, ShareFacts DEF ShareLink
<1> PICK row : row = [link[i] EXCEPT !.views = n + 1]
  OBVIOUS
<1> PICK r : r = [shareReq[q] EXCEPT !.pc = "viewed"]
  OBVIOUS
<1>1. n + 1 \in 0..MaxViews
  BY <1>0, ShareFacts DEF AddView
<1>2. /\ row \in ShareLink /\ row.views = n + 1 /\ row.created = link[i].created
      /\ row.active = link[i].active /\ row.viewed = link[i].viewed
  BY <1>0, <1>1, ShareFacts DEF ShareLink
<1>3. link' = [link EXCEPT ![i] = row] /\ ShareTo(q, "viewed") /\ shown' = [shown EXCEPT ![i] = shown[i]]
  BY <1>0, RowsKept DEF AddView
<1>4. link'[i] = row /\ DOMAIN link' = DOMAIN link /\ UNCHANGED shown
  BY <1>0, <1>3, ShareFacts DEF AddView
<1>5. /\ r \in ShareRequest /\ r.pc = "viewed" /\ r.id = i /\ r # NoShareRequest /\ r.id # 0
      /\ shareReq' = [shareReq EXCEPT ![q] = r]
      /\ RequestStands(q)'
  BY <1>0, <1>2, <1>3, <1>4, ViewOn DEF Viewing
<1>6. Rewrites(q, r, i, row, shown[i])
  BY <1>0, <1>2, <1>3, <1>5, ShareFacts DEF Rewrites
<1>7. ViewsCounted(i)'
  <2>0. q \notin Between("viewed", i)
    BY DEF AddView, Between
  <2>1. q \notin Between("viewed", i) /\ q \in Between("viewed", i)'
    BY <1>5, <2>0, BetweenEnters
  <2>2. SameBut(q, Between("viewed", i), Between("viewed", i)')
    BY <1>5, BetweenEnters
  <2>5. IsFiniteSet(Between("viewed", i))
    BY ShareFacts, FS_Subset DEF Between
  <2>3. /\ Cardinality(Between("viewed", i)') = Cardinality(Between("viewed", i)) + 1
        /\ Cardinality(Between("viewed", i)) \in Nat
    <3> PICK S, T : S = Between("viewed", i) /\ T = Between("viewed", i)'
      OBVIOUS
    <3> QED BY <2>1, <2>2, <2>5, OneMore
  <2>4. /\ Cardinality(Between("audited", i)) \in Nat /\ Cardinality(Between("audited", i)') \in Nat
        /\ Cardinality(Between("audited", i)') <= Cardinality(Between("audited", i))
    BY <1>5, BetweenShrinks
  <2> QED BY <1>0, <1>2, <1>4, <2>3, <2>4, ViewAdded
<1>8. row.views = 0 \/ row.created
  BY <1>0, <1>2
<1> QED BY <1>2, <1>5, <1>6, <1>7, <1>8, CountsKeep

LEMMA AuditViewKeeps ==
    ASSUME SharesInv, NEW q \in ShareRequests, AuditView(q)
    PROVE  SharesInv'
<1> PICK i : i = shareReq[q].id
  OBVIOUS
<1>0. shareReq[q].pc \in Viewing /\ i \in DOMAIN link /\ link[i].created /\ ViewsCounted(i)
  BY ViewFacts DEF AuditView, Viewing
<1> PICK n \in Nat : n = link[i].viewed
  BY <1>0, ShareFacts DEF ShareLink
<1> PICK row : row = [link[i] EXCEPT !.viewed = n + 1]
  OBVIOUS
<1> PICK r : r = [shareReq[q] EXCEPT !.pc = "audited"]
  OBVIOUS
<1>v. /\ q \in Between("viewed", i) /\ IsFiniteSet(Between("viewed", i)) /\ IsFiniteSet(Between("audited", i))
      /\ q \notin Between("audited", i)
  BY ShareFacts, FS_Subset DEF AuditView, Between
<1>1. n + 1 \in 0..MaxViews
  <2>1. Cardinality(Between("viewed", i)) >= 1 /\ Cardinality(Between("viewed", i)) \in Nat
    BY <1>v, FS_CardinalityType, FS_EmptySet
  <2>2. link[i].views \in 0..MaxViews
    BY <1>0, ShareFacts DEF ShareLink
  <2> QED BY <1>0, <2>1, <2>2, ShareFacts DEF ViewsCounted
<1>2. /\ row \in ShareLink /\ row.viewed = n + 1 /\ row.created = link[i].created
      /\ row.active = link[i].active /\ row.views = link[i].views
  BY <1>0, <1>1, ShareFacts DEF ShareLink
<1>3. link' = [link EXCEPT ![i] = row] /\ ShareTo(q, "audited") /\ shown' = [shown EXCEPT ![i] = shown[i]]
  BY <1>0, RowsKept DEF AuditView
<1>4. link'[i] = row /\ DOMAIN link' = DOMAIN link /\ UNCHANGED shown
  BY <1>0, <1>3, ShareFacts DEF AuditView
<1>5. /\ r \in ShareRequest /\ r.pc = "audited" /\ r.id = i /\ r # NoShareRequest /\ r.id # 0
      /\ shareReq' = [shareReq EXCEPT ![q] = r]
      /\ RequestStands(q)'
  BY <1>0, <1>2, <1>3, <1>4, ViewOn DEF Viewing
<1>6. Rewrites(q, r, i, row, shown[i])
  BY <1>0, <1>2, <1>3, <1>5, ShareFacts DEF Rewrites
<1>7. ViewsCounted(i)'
  <2>1. /\ q \notin Between("viewed", i)' /\ q \in Between("audited", i)'
        /\ SameBut(q, Between("viewed", i), Between("viewed", i)')
        /\ SameBut(q, Between("audited", i), Between("audited", i)')
    <3> PICK was : was = "viewed"
      OBVIOUS
    <3>1. r.pc # was /\ shareReq' = [shareReq EXCEPT ![q] = r]
      BY <1>5
    <3>2. q \notin Between(was, i)' /\ SameBut(q, Between(was, i), Between(was, i)')
      BY <3>1, BetweenLeaves
    <3>3. q \in Between("audited", i)' /\ SameBut(q, Between("audited", i), Between("audited", i)')
      BY <1>5, BetweenEnters
    <3> QED BY <3>2, <3>3
  <2>2. /\ Cardinality(Between("viewed", i)) = Cardinality(Between("viewed", i)') + 1
        /\ Cardinality(Between("viewed", i)') \in Nat
    <3> PICK S, T : S = Between("viewed", i) /\ T = Between("viewed", i)'
      OBVIOUS
    <3> QED BY <1>v, <2>1, OneMore
  <2>3. /\ Cardinality(Between("audited", i)') = Cardinality(Between("audited", i)) + 1
        /\ Cardinality(Between("audited", i)) \in Nat
    <3> PICK S, T : S = Between("audited", i) /\ T = Between("audited", i)'
      OBVIOUS
    <3> QED BY <1>v, <2>1, OneMore
  <2> QED BY <1>0, <1>2, <1>4, <2>2, <2>3, ViewAudited
<1>8. row.views = 0 \/ row.created
  BY <1>0, <1>2
<1> QED BY <1>2, <1>5, <1>6, <1>7, <1>8, CountsKeep

LEMMA AnswerReportKeeps ==
    ASSUME SharesInv, NEW q \in ShareRequests, AnswerReport(q)
    PROVE  SharesInv'
<1> PICK i : i = shareReq[q].id
  OBVIOUS
<1>0. /\ shareReq[q].pc = "audited" /\ shareReq[q].pc \in Viewing /\ i \in DOMAIN link
      /\ link[i].created /\ ViewsCounted(i)
  BY ViewFacts DEF AnswerReport, ReportAfter, Viewing
<1> PICK n \in Nat : n = shown[i].reports
  BY <1>0, ShareFacts DEF Shown
<1> PICK out : out = [shown[i] EXCEPT !.reports = n + 1]
  OBVIOUS
<1> PICK r : r = NoShareRequest
  OBVIOUS
<1>v. q \in Between("audited", i) /\ IsFiniteSet(Between("audited", i))
  BY <1>0, ShareFacts, FS_Subset DEF Between
<1>1. n + 1 \in 0..MaxViews
  <2>1. Cardinality(Between("audited", i)) >= 1 /\ Cardinality(Between("audited", i)) \in Nat
    BY <1>v, FS_CardinalityType, FS_EmptySet
  <2>2. link[i].viewed \in 0..MaxViews
    BY <1>0, ShareFacts DEF ShareLink
  <2>3. /\ n + Cardinality(Between("audited", i)) <= link[i].viewed
        /\ MaxViews \in Nat
    BY <1>0, ShareFacts DEF ViewsCounted
  <2> PICK c \in Nat, v \in Nat : c = Cardinality(Between("audited", i)) /\ v = link[i].viewed
    BY <2>1, <2>2
  <2>4. n + c <= v /\ c >= 1 /\ v <= MaxViews
    BY <2>1, <2>2, <2>3
  <2> QED BY <2>3, <2>4
<1>2. out \in Shown /\ out.reports = n + 1 /\ out.token = shown[i].token /\ out.closed = shown[i].closed
  BY <1>0, <1>1, ShareFacts DEF Shown
<1>3. link' = [link EXCEPT ![i] = link[i]] /\ shareReq' = [shareReq EXCEPT ![q] = r]
        /\ shown' = [shown EXCEPT ![i] = out]
  BY <1>0, RowsKept DEF AnswerReport, ShareLeave
<1>4. shown'[i] = out /\ link'[i] = link[i]
  BY <1>0, <1>3, ShareFacts
<1>5. shareReq'[q] = r /\ r.pc = "idle" /\ r = NoShareRequest
  BY <1>3 DEF SharesInv, SharedTypeOK, NoShareRequest
<1>6. Rewrites(q, r, i, link[i], out)
  BY <1>0, <1>2, <1>3, <1>5, ShareFacts DEF Rewrites
<1>7. ViewsCounted(i)'
  <2>1. q \notin Between("audited", i)' /\ SameBut(q, Between("audited", i), Between("audited", i)')
    <3> PICK was : was = "audited"
      OBVIOUS
    <3>1. r.pc # was /\ shareReq' = [shareReq EXCEPT ![q] = r]
      BY <1>3, <1>5
    <3>2. q \notin Between(was, i)' /\ SameBut(q, Between(was, i), Between(was, i)')
      BY <3>1, BetweenLeaves
    <3> QED BY <3>2
  <2>2. /\ Cardinality(Between("audited", i)) = Cardinality(Between("audited", i)') + 1
        /\ Cardinality(Between("audited", i)') \in Nat
    <3> PICK S, T : S = Between("audited", i) /\ T = Between("audited", i)'
      OBVIOUS
    <3> QED BY <1>v, <2>1, OneMore
  <2>3. /\ Cardinality(Between("viewed", i)) \in Nat /\ Cardinality(Between("viewed", i)') \in Nat
        /\ Cardinality(Between("viewed", i)') <= Cardinality(Between("viewed", i))
    BY <1>3, <1>5, BetweenShrinks
  <2> QED BY <1>0, <1>2, <1>4, <2>2, <2>3, ReportAnswered
<1>8. RequestStands(q)'
  BY <1>5 DEF RequestStands
<1> QED BY <1>0, <1>2, <1>6, <1>7, <1>8, CountsKeep

-----------------------------------------------------------------------------
(***************************************************************************)
(* Shared reports: always                                                  *)
(***************************************************************************)
LEMMA SharesInit ==
    ASSUME SharedInit
    PROVE  SharesInv
<1>1. /\ link \in Seq(ShareLink) /\ Len(link) = 0 /\ DOMAIN link = {}
      /\ shown \in Seq(Shown) /\ Len(shown) = 0
  BY EmptySeq DEF SharedInit
<1>2. \A q \in ShareRequests : shareReq[q] = NoShareRequest
  BY DEF SharedInit
<1>3. SharedTypeOK
  BY <1>1, <1>2, SharedReportsAssumption DEF SharedTypeOK, SharedInit, SharedReportsAssumption
<1>4. LinkInv /\ RequestsInv
  BY <1>1, <1>2 DEF LinkInv, RequestsInv, RequestStands
<1> QED BY <1>3, <1>4 DEF SharesInv

LEMMA SharesNext ==
    ASSUME SharesInv, SharedNext
    PROVE  SharesInv'
<1>1. CASE \E q \in ShareRequests : ShareArrive(q, "create", 0)
  BY <1>1, ShareArriveKeeps
<1>2. CASE \E q \in ShareRequests : \E i \in DOMAIN link, kind \in {"revoke", "rotate", "open"} : ShareArrive(q, kind, i)
  BY <1>2, ShareArriveKeeps
<1>3. CASE \E q \in ShareRequests : ShareFails(q)
  BY <1>3, LeaveOnlyKeeps DEF ShareFails
<1> QED BY <1>1, <1>2, <1>3, RevokeLinkKeeps, AuditRevokeKeeps, SaveLinkKeeps, AuditCreateKeeps,
           AnswerTokenKeeps, TestLinkKeeps, AddViewKeeps, AuditViewKeeps, AnswerReportKeeps DEF SharedNext

LEMMA SharesStutter ==
    ASSUME SharesInv, UNCHANGED sharedVars
    PROVE  SharesInv'
<1>1. SharedTypeOK'
  BY DEF SharesInv, SharedTypeOK, sharedVars
<1>2. LinkInv'
  BY DEF SharesInv, LinkInv, ViewsCounted, LinkMarked, Between, sharedVars
<1>3. RequestsInv'
  BY DEF SharesInv, RequestsInv, RequestStands, sharedVars
<1> QED BY <1>1, <1>2, <1>3 DEF SharesInv

\* open, revoke and rotate of the report links: a report is shown to nobody whose view is
\* not stored and audited, through no link whose creation is not audited, and through no
\* link that had been closed when the request came in.
THEOREM SharedReportsOnRecord ==
    SharedInit /\ [][SharedNext]_sharedVars => []LinksKept
<1>1. SharesInv /\ [SharedNext]_sharedVars => SharesInv'
  BY SharesNext, SharesStutter
<1>2. SharesInv => LinksKept
  <2>1. ASSUME SharesInv, NEW i \in DOMAIN link
        PROVE  /\ shown[i].reports <= link[i].viewed /\ link[i].viewed <= link[i].views
               /\ link[i].views > 0 => link[i].created
    <3>1. ViewsCounted(i) /\ LinkMarked(i)
      BY <2>1 DEF SharesInv, LinkInv
    <3>2. Cardinality(Between("audited", i)) \in Nat /\ Cardinality(Between("viewed", i)) \in Nat
      BY <2>1, ShareFacts, FS_Subset, FS_CardinalityType DEF Between
    <3>3. shown[i].reports \in Nat /\ link[i].viewed \in Nat /\ link[i].views \in Nat
      BY <2>1, ShareFacts DEF ShareLink, Shown
    <3> QED BY <3>1, <3>2, <3>3 DEF ViewsCounted, LinkMarked
  <2>2. SharesInv => ClosedLinkRefused
    BY DEF SharesInv, RequestsInv, RequestStands, ClosedLinkRefused
  <2> QED BY <2>1, <2>2 DEF LinksKept, ViewsAudited
<1> QED BY <1>1, <1>2, SharesInit, PTL

-----------------------------------------------------------------------------
(***************************************************************************)
(* Organizations                                                           *)
(***************************************************************************)
OrgRow == {NoOrgRequest} \cup OrgRequest
MemberRow == {NoMember} \cup OrganizationMember
Administering == {"switch", "role", "remove"}

Creates(r, o) == r # NoOrgRequest /\ r.kind = "create" /\ r.org = o
OrgAccepts(r) == r # NoOrgRequest /\ r.kind = "accept"
\* A write on u's membership of o is to come, other than of u himself.
Manages(r, o, u) ==
    r # NoOrgRequest /\ r.kind \in {"role", "remove"} /\ ~r.lost /\ r.org = o /\ r.user = u

\* What a request may be doing, on rows that exist.
OrgRequestStands(r) ==
    r # NoOrgRequest =>
        /\ r.pc = "saved" => r.kind = "create"
        /\ r.pc \in {"found", "counted", "joined"} => r.kind = "accept"
        /\ r.pc = "tested" => r.kind \in {"create", "accept"}
        /\ r.pc = "loaded" => r.kind \in Administering
        /\ r.pc = "cleared" => r.kind = "switch"
        /\ r.kind = "create" => founder[r.org] = r.user
        /\ r.kind = "accept" => r.inv \in DOMAIN invite /\ invite[r.inv].org = r.org
        /\ r.kind \in Administering /\ ~r.lost => r.user \in Members(r.org)
OrgRequestsStand == \A q \in OrgRequests : OrgRequestStands(orgReq[q])

\* An organization its founder has not entered has nothing else yet either; of one that
\* he has, he is the owner and nobody else is about to write that row.
Bare(o) ==
    /\ Members(o) = {}
    /\ \A i \in DOMAIN invite : invite[i].org # o
    /\ \A p, q \in OrgRequests : Creates(orgReq[p], o) /\ Creates(orgReq[q], o) => p = q
Founded(o) ==
    /\ founder[o] # "NONE" /\ member[o][founder[o]].role = "OWNER"
    /\ \A q \in OrgRequests :
          ~Creates(orgReq[q], o) /\ ~Manages(orgReq[q], o, founder[o])
FoundersKept == \A o \in Orgs : Bare(o) \/ Founded(o)

\* One acceptance at a time is between its count and its insert, and there is room for it.
Counting(r, o) == OrgAccepts(r) /\ r.pc \in {"counted", "tested"} /\ r.org = o
RoomKept ==
    \A o \in Orgs :
        /\ IsFiniteSet(Members(o))
        /\ o \notin crowded =>
            /\ Cardinality(Members(o)) <= MemberLimit
            /\ \A p, q \in OrgRequests : Counting(orgReq[p], o) /\ Counting(orgReq[q], o) => p = q
            /\ \A q \in OrgRequests : Counting(orgReq[q], o) => Cardinality(Members(o)) < MemberLimit

\* One request at a time has an invitation, which admits nobody before that request joins.
Uses(r, i) == OrgAccepts(r) /\ r.inv = i
AdmitsOne(i) ==
    /\ invite[i].accepted => invite[i].admitted >= 1
    /\ \A q \in OrgRequests :
          Uses(orgReq[q], i) /\ orgReq[q].pc = "joined" => invite[i].admitted >= 1
    /\ ~invite[i].spoiled =>
        /\ \A p, q \in OrgRequests : Uses(orgReq[p], i) /\ Uses(orgReq[q], i) => p = q
        /\ \A q \in OrgRequests :
              Uses(orgReq[q], i) /\ orgReq[q].pc # "joined" => invite[i].admitted = 0
        /\ invite[i].admitted <= 1
        /\ invite[i].admitted = 1 /\ ~invite[i].accepted =>
              \E q \in OrgRequests : Uses(orgReq[q], i) /\ orgReq[q].pc = "joined"
AdmissionsKept == \A i \in DOMAIN invite : AdmitsOne(i)

\* One request of a user changes his memberships, and none is his default when he has
\* tested that he has none, or has cleared it.
OwnMove(r, u) == r # NoOrgRequest /\ r.user = u /\ r.kind \notin {"role", "remove"}
Settled(r) == r.pc = "cleared" \/ (r.pc = "tested" /\ r.first)
Defaults(u) == {o \in Orgs : member[o][u].default}
SettledKept(u) ==
    /\ \A p, q \in OrgRequests : OwnMove(orgReq[p], u) /\ OwnMove(orgReq[q], u) => p = q
    /\ \A q \in OrgRequests : OwnMove(orgReq[q], u) /\ Settled(orgReq[q]) => Defaults(u) = {}
    /\ \A a, b \in Defaults(u) : a = b
DefaultsKept == \A u \in Users \ hurried : SettledKept(u)

OrgInv ==
    /\ OrganizationsTypeOK /\ OrgRequestsStand
    /\ FoundersKept /\ RoomKept /\ AdmissionsKept /\ DefaultsKept

-----------------------------------------------------------------------------
\* A request goes on or leaves; what the others have loaded may be lost.
OrgKeeps(s, r) ==
    /\ s \in OrgRow /\ (s = NoOrgRequest <=> r = NoOrgRequest)
    /\ r # NoOrgRequest =>
        /\ s.pc = r.pc /\ s.kind = r.kind /\ s.org = r.org /\ s.user = r.user
        /\ s.inv = r.inv /\ s.first = r.first /\ (r.lost => s.lost)
OrgMoves(q, r) ==
    /\ q \in OrgRequests /\ r \in OrgRow
    /\ orgReq' \in [OrgRequests -> OrgRow] /\ orgReq'[q] = r
    /\ \A p \in OrgRequests \ {q} : OrgKeeps(orgReq'[p], orgReq[p])

LEMMA OrgFacts ==
    ASSUME OrganizationsTypeOK
    PROVE  /\ orgReq \in [OrgRequests -> OrgRow] /\ member \in [Orgs -> [Users -> MemberRow]]
           /\ founder \in [Orgs -> Users \cup {"NONE"}] /\ "NONE" \notin Users
           /\ \A q \in OrgRequests : orgReq[q] # NoOrgRequest => orgReq[q] \in OrgRequest
           /\ NoOrgRequest \notin OrgRequest /\ NoMember \notin OrganizationMember
           /\ \A q \in OrgRequests : orgReq[q].pc # "idle" => orgReq[q] # NoOrgRequest
           /\ NoOrgRequest.pc = "idle" /\ NoMember.role = "NONE" /\ NoMember.default = FALSE
           /\ invite \in Seq(OrganizationInvitation) /\ Len(invite) \in Nat
           /\ DOMAIN invite = 1..Len(invite) /\ Len(invite) <= MaxInvites /\ MaxInvites \in Nat
           /\ \A i \in DOMAIN invite : invite[i] \in OrganizationInvitation
           /\ MemberLimit \in Nat \ {0}
<1>1. NoOrgRequest \notin OrgRequest
  BY DEF NoOrgRequest, OrgRequest
<1>2. NoMember \notin OrganizationMember
  BY DEF NoMember, OrganizationMember, OrganizationRole
<1>3. invite \in Seq(OrganizationInvitation)
  BY DEF OrganizationsTypeOK
<1>4. \A i \in DOMAIN invite : invite[i] \in OrganizationInvitation
  BY <1>3, ElementOfSeq, LenProperties
<1> QED
  BY <1>1, <1>2, <1>3, <1>4, OrganizationsAssumption, LenProperties
  DEF OrganizationsTypeOK, OrgRow, MemberRow, NoOrgRequest, NoMember, OrganizationsAssumption

\* A request changes by itself.
LEMMA OrgMovesAlone ==
    ASSUME OrganizationsTypeOK, NEW q \in OrgRequests, NEW r \in OrgRow,
           orgReq' = [orgReq EXCEPT ![q] = r]
    PROVE  OrgMoves(q, r)
BY OrgFacts DEF OrgMoves, OrgKeeps

LEMMA MemberWritten ==
    ASSUME OrganizationsTypeOK, NEW o \in Orgs, NEW u \in Users, NEW row \in MemberRow,
           SetMember(o, u, row)
    PROVE  /\ member' \in [Orgs -> [Users -> MemberRow]] /\ member'[o][u] = row
           /\ \A a \in Orgs, v \in Users : a # o \/ v # u => member'[a][v] = member[a][v]
BY OrgFacts DEF SetMember

-----------------------------------------------------------------------------
\* What a request relies on stays when what others wrote does not take it away.
OrgRowsStand(q) ==
    /\ \A o \in Orgs : founder[o] # "NONE" => founder'[o] = founder[o]
    /\ \A i \in DOMAIN invite : i \in DOMAIN invite' /\ invite'[i].org = invite[i].org
    /\ \A p \in OrgRequests \ {q} :
          orgReq'[p] # NoOrgRequest /\ orgReq'[p].kind \in Administering /\ ~orgReq'[p].lost =>
              member'[orgReq'[p].org][orgReq'[p].user] # NoMember

LEMMA OrgRequestsStandStep ==
    ASSUME OrganizationsTypeOK, OrgRequestsStand, NEW q, NEW r, OrgMoves(q, r), OrgRowsStand(q),
           OrgRequestStands(orgReq[q])'
    PROVE  OrgRequestsStand'
<1> SUFFICES ASSUME NEW p \in OrgRequests, p # q, orgReq'[p] # NoOrgRequest
             PROVE  OrgRequestStands(orgReq[p])'
  <2>1. ASSUME NEW p \in OrgRequests PROVE OrgRequestStands(orgReq[p])'
    <3>1. CASE p = q
      BY <3>1
    <3>2. CASE orgReq'[p] = NoOrgRequest
      BY <3>2 DEF OrgRequestStands
    <3> QED BY <3>1, <3>2
  <2> QED BY <2>1 DEF OrgRequestsStand
<1>1. /\ orgReq[p] # NoOrgRequest /\ orgReq[p] \in OrgRequest /\ orgReq'[p] \in OrgRequest
      /\ OrgKeeps(orgReq'[p], orgReq[p])
  BY OrgFacts DEF OrgMoves, OrgKeeps, OrgRow
<1>2. OrgRequestStands(orgReq[p])
  BY DEF OrgRequestsStand
<1> PICK s \in OrgRequest, t \in OrgRequest : s = orgReq[p] /\ t = orgReq'[p]
  BY <1>1
<1>3. /\ t # NoOrgRequest /\ t.pc = s.pc /\ t.kind = s.kind /\ t.org = s.org /\ t.user = s.user
      /\ t.inv = s.inv /\ t.org \in Orgs /\ t.user \in Users
  BY <1>1 DEF OrgKeeps, OrgRequest
<1>4. founder[t.org] = t.user => founder'[t.org] = t.user
  BY <1>3, OrgFacts DEF OrgRowsStand
<1>5. t.inv \in DOMAIN invite /\ invite[t.inv].org = t.org =>
          t.inv \in DOMAIN invite' /\ invite'[t.inv].org = t.org
  BY DEF OrgRowsStand
<1>6. t.kind \in Administering /\ ~t.lost => t.user \in {u \in Users : member'[t.org][u] # NoMember}
  BY <1>3 DEF OrgRowsStand
<1> QED
  BY <1>1, <1>2, <1>3, <1>4, <1>5, <1>6 DEF OrgRequestStands, Members

OrgQuiet(o, q, r) ==
    /\ Bare(o) => /\ \A u \in Users : member'[o][u] = NoMember
                  /\ \A i \in DOMAIN invite' : i \in DOMAIN invite /\ invite'[i].org = invite[i].org
                  /\ Creates(r, o) => Creates(orgReq[q], o)
    /\ Founded(o) => /\ founder'[o] = founder[o] /\ member'[o][founder[o]].role = "OWNER"
                     /\ ~Creates(r, o) /\ ~Manages(r, o, founder[o])

LEMMA FoundersStep ==
    ASSUME OrganizationsTypeOK, FoundersKept, NEW q, NEW r, OrgMoves(q, r),
           \A o \in Orgs : OrgQuiet(o, q, r) \/ (Bare(o) \/ Founded(o))'
    PROVE  FoundersKept'
<1> SUFFICES ASSUME NEW o \in Orgs, OrgQuiet(o, q, r) PROVE (Bare(o) \/ Founded(o))'
  BY DEF FoundersKept
<1>1. \A p \in OrgRequests \ {q} : Creates(orgReq'[p], o) <=> Creates(orgReq[p], o)
  BY DEF OrgMoves, OrgKeeps, Creates
<1>2. \A p \in OrgRequests \ {q} : \A u : Manages(orgReq'[p], o, u) => Manages(orgReq[p], o, u)
  BY DEF OrgMoves, OrgKeeps, Manages
<1>3. orgReq'[q] = r /\ q \in OrgRequests
  BY DEF OrgMoves
<1>4. CASE Bare(o)
  <2>1. Members(o)' = {}
    BY <1>4 DEF OrgQuiet, Members
  <2>2. \A i \in DOMAIN invite' : invite'[i].org # o
    BY <1>4 DEF OrgQuiet, Bare
  <2>3. \A p \in OrgRequests : Creates(orgReq'[p], o) => Creates(orgReq[p], o)
    BY <1>1, <1>3, <1>4 DEF OrgQuiet
  <2> QED BY <1>4, <2>1, <2>2, <2>3 DEF Bare
<1>5. CASE Founded(o)
  <2>1. /\ founder'[o] = founder[o] /\ founder[o] # "NONE"
        /\ member'[o][founder[o]].role = "OWNER"
    BY <1>5 DEF OrgQuiet, Founded
  <2>2. ASSUME NEW p \in OrgRequests
        PROVE  ~Creates(orgReq'[p], o) /\ ~Manages(orgReq'[p], o, founder[o])
    <3>1. CASE p = q
      BY <1>3, <1>5, <3>1 DEF OrgQuiet
    <3>2. CASE p # q
      BY <1>1, <1>2, <1>5, <3>2 DEF Founded
    <3> QED BY <3>1, <3>2
  <2>3. Founded(o)'
    BY <2>1, <2>2 DEF Founded
  <2> QED BY <2>3
<1> QED BY <1>4, <1>5 DEF FoundersKept

Others(q, o) == \A p \in OrgRequests \ {q} : ~Counting(orgReq[p], o)
RoomQuiet(o, q, r) ==
    /\ \A u \in Users : member'[o][u] # NoMember => member[o][u] # NoMember
    /\ Counting(r, o) /\ o \notin crowded' =>
          \/ Counting(orgReq[q], o)
          \/ Others(q, o) /\ Cardinality(Members(o)) < MemberLimit
\* u enters the organization: as the first one, or through a request that was counted.
RoomTaken(o, q, r, u) ==
    /\ \A v \in Users : member'[o][v] # NoMember <=> member[o][v] # NoMember \/ v = u
    /\ ~Counting(r, o)
    /\ Counting(orgReq[q], o) \/ (Members(o) = {} /\ Others(q, o))

LEMMA OneMoreMember ==
    ASSUME NEW S, NEW u, IsFiniteSet(S)
    PROVE  /\ Cardinality(S) \in Nat /\ IsFiniteSet(S \cup {u})
           /\ Cardinality(S \cup {u}) <= Cardinality(S) + 1
<1>1. Cardinality(S) \in Nat
  BY FS_CardinalityType
<1>2. CASE u \in S
  <2>1. S \cup {u} = S
    BY <1>2
  <2> QED BY <1>1, <2>1
<1>3. CASE u \notin S
  BY <1>1, <1>3, FS_AddElement
<1> QED BY <1>2, <1>3

LEMMA RoomStep ==
    ASSUME OrganizationsTypeOK, RoomKept, NEW q, NEW r, OrgMoves(q, r), crowded \subseteq crowded',
           \A o \in Orgs : RoomQuiet(o, q, r) \/ \E u \in Users : RoomTaken(o, q, r, u)
    PROVE  RoomKept'
<1> SUFFICES ASSUME NEW o \in Orgs
             PROVE  /\ IsFiniteSet(Members(o))'
                    /\ o \notin crowded' =>
                        /\ Cardinality(Members(o)') <= MemberLimit
                        /\ \A p, s \in OrgRequests :
                              Counting(orgReq'[p], o) /\ Counting(orgReq'[s], o) => p = s
                        /\ \A p \in OrgRequests :
                              Counting(orgReq'[p], o) => Cardinality(Members(o)') < MemberLimit
  BY DEF RoomKept
<1> PICK M : M = Members(o)
  OBVIOUS
<1> PICK N : N = Members(o)'
  OBVIOUS
<1>1. IsFiniteSet(M) /\ Cardinality(M) \in Nat /\ MemberLimit \in Nat \ {0}
  BY OrgFacts, FS_CardinalityType DEF RoomKept
<1>2. \A p \in OrgRequests \ {q} : Counting(orgReq'[p], o) <=> Counting(orgReq[p], o)
  BY DEF OrgMoves, OrgKeeps, Counting, OrgAccepts
<1>3. orgReq'[q] = r /\ q \in OrgRequests
  BY DEF OrgMoves
<1>4. o \notin crowded' =>
        /\ Cardinality(M) <= MemberLimit
        /\ \A p, s \in OrgRequests : Counting(orgReq[p], o) /\ Counting(orgReq[s], o) => p = s
        /\ \A p \in OrgRequests : Counting(orgReq[p], o) => Cardinality(M) < MemberLimit
  BY DEF RoomKept
<1>5. CASE RoomQuiet(o, q, r)
  <2>1. N \subseteq M
    BY <1>5 DEF RoomQuiet, Members
  <2>2. IsFiniteSet(N) /\ Cardinality(N) \in Nat /\ Cardinality(N) <= Cardinality(M)
    BY <1>1, <2>1, FS_Subset, FS_CardinalityType
  <2>3. ASSUME o \notin crowded', NEW p \in OrgRequests, Counting(orgReq'[p], o)
        PROVE  Cardinality(M) < MemberLimit
    BY <1>2, <1>3, <1>4, <1>5, <2>3 DEF RoomQuiet
  <2>4. ASSUME o \notin crowded', NEW p \in OrgRequests, NEW s \in OrgRequests,
               Counting(orgReq'[p], o), Counting(orgReq'[s], o)
        PROVE  p = s
    BY <1>2, <1>3, <1>4, <1>5, <2>4 DEF RoomQuiet, Others
  <2> PICK m \in Nat, n \in Nat : m = Cardinality(M) /\ n = Cardinality(N)
    BY <1>1, <2>2
  <2>5. o \notin crowded' => n <= MemberLimit
    BY <1>1, <1>4, <2>2
  <2>6. ASSUME o \notin crowded', NEW p \in OrgRequests, Counting(orgReq'[p], o)
        PROVE  n < MemberLimit
    BY <1>1, <2>2, <2>3, <2>6
  <2> QED BY <2>2, <2>4, <2>5, <2>6
<1>6. ASSUME NEW u \in Users, RoomTaken(o, q, r, u)
      PROVE  /\ IsFiniteSet(N)
             /\ o \notin crowded' =>
                  /\ Cardinality(N) <= MemberLimit
                  /\ \A p \in OrgRequests : ~Counting(orgReq'[p], o)
  <2>1. N = M \cup {u}
    BY <1>6 DEF RoomTaken, Members
  <2>2. IsFiniteSet(N) /\ Cardinality(N) \in Nat /\ Cardinality(N) <= Cardinality(M) + 1
    BY ZenonT(60), <1>1, <2>1, OneMoreMember, FS_CardinalityType
  <2>3. ASSUME o \notin crowded', NEW p \in OrgRequests, Counting(orgReq'[p], o) PROVE FALSE
    BY <1>2, <1>3, <1>4, <1>6, <2>3 DEF RoomTaken, Others
  <2>4. ASSUME o \notin crowded' PROVE Cardinality(M) < MemberLimit
    <3>1. CASE Counting(orgReq[q], o)
      BY <1>3, <1>4, <2>4, <3>1
    <3>2. CASE M = {}
      BY <1>1, <3>2, FS_EmptySet
    <3> QED BY <1>6, <3>1, <3>2 DEF RoomTaken
  <2> PICK m \in Nat, n \in Nat : m = Cardinality(M) /\ n = Cardinality(N)
    BY <1>1, <2>2
  <2>5. o \notin crowded' => n <= MemberLimit
    BY <1>1, <2>2, <2>4
  <2> QED BY <2>2, <2>3, <2>5
<1> QED BY <1>5, <1>6

InviteQuiet(i, q, r) ==
    /\ invite'[i] = invite[i]
    /\ Uses(r, i) => Uses(orgReq[q], i) /\ (r.pc = "joined" <=> orgReq[q].pc = "joined")
    /\ Uses(orgReq[q], i) /\ orgReq[q].pc = "joined" => Uses(r, i)

LEMMA OthersUse ==
    ASSUME NEW q, NEW r, OrgMoves(q, r), NEW p \in OrgRequests, p # q, NEW i
    PROVE  /\ Uses(orgReq'[p], i) <=> Uses(orgReq[p], i)
           /\ Uses(orgReq[p], i) => orgReq'[p].pc = orgReq[p].pc
BY DEF OrgMoves, OrgKeeps, Uses, OrgAccepts

LEMMA AdmissionsStep ==
    ASSUME AdmissionsKept, NEW q, NEW r, OrgMoves(q, r), DOMAIN invite' = DOMAIN invite,
           \A i \in DOMAIN invite : InviteQuiet(i, q, r) \/ AdmitsOne(i)'
    PROVE  AdmissionsKept'
<1> SUFFICES ASSUME NEW i \in DOMAIN invite, InviteQuiet(i, q, r) PROVE AdmitsOne(i)'
  BY DEF AdmissionsKept
<1>1. AdmitsOne(i)
  BY DEF AdmissionsKept
<1>2. orgReq'[q] = r /\ q \in OrgRequests
  BY DEF OrgMoves
<1>3. \A p \in OrgRequests : Uses(orgReq'[p], i) =>
          Uses(orgReq[p], i) /\ (orgReq'[p].pc = "joined" <=> orgReq[p].pc = "joined")
  BY <1>2, OthersUse DEF InviteQuiet
<1>4. \A p \in OrgRequests : Uses(orgReq[p], i) /\ orgReq[p].pc = "joined" =>
          Uses(orgReq'[p], i) /\ orgReq'[p].pc = "joined"
  BY <1>2, OthersUse DEF InviteQuiet
<1>5. invite'[i] = invite[i]
  BY DEF InviteQuiet
<1> QED BY <1>1, <1>3, <1>4, <1>5 DEF AdmitsOne

UserQuiet(u, q, r) ==
    /\ OwnMove(r, u) => OwnMove(orgReq[q], u) \/ \A p \in OrgRequests : ~OwnMove(orgReq[p], u)
    /\ OwnMove(r, u) /\ Settled(r) => Defaults(u)' = {}
    /\ \/ Defaults(u)' \subseteq Defaults(u)
       \/ /\ OwnMove(orgReq[q], u)
          /\ \A a, b \in Defaults(u)' : a = b

LEMMA DefaultsStep ==
    ASSUME DefaultsKept, NEW q, NEW r, OrgMoves(q, r), hurried \subseteq hurried',
           \A u \in Users \ hurried' : UserQuiet(u, q, r)
    PROVE  DefaultsKept'
<1> SUFFICES ASSUME NEW u \in Users, u \notin hurried' PROVE SettledKept(u)'
  BY DEF DefaultsKept
<1>1. SettledKept(u) /\ UserQuiet(u, q, r)
  BY DEF DefaultsKept
<1>2. orgReq'[q] = r /\ q \in OrgRequests
  BY DEF OrgMoves
<1>3. \A p \in OrgRequests \ {q} :
          /\ OwnMove(orgReq'[p], u) <=> OwnMove(orgReq[p], u)
          /\ OwnMove(orgReq[p], u) => (Settled(orgReq'[p]) <=> Settled(orgReq[p]))
  BY DEF OrgMoves, OrgKeeps, OwnMove, Settled
<1>4. \A p, s \in OrgRequests : OwnMove(orgReq'[p], u) /\ OwnMove(orgReq'[s], u) => p = s
  BY <1>1, <1>2, <1>3 DEF SettledKept, UserQuiet
<1>5. ASSUME NEW p \in OrgRequests, OwnMove(orgReq'[p], u), Settled(orgReq'[p])
      PROVE  Defaults(u)' = {}
  <2>1. CASE p = q
    BY <1>1, <1>2, <1>5, <2>1 DEF UserQuiet
  <2>2. CASE p # q
    <3>1. Defaults(u) = {} /\ ~OwnMove(orgReq[q], u)
      BY <1>1, <1>2, <1>3, <1>5, <2>2 DEF SettledKept
    <3> QED BY <1>1, <3>1 DEF UserQuiet
  <2> QED BY <2>1, <2>2
<1>6. \A a, b \in Defaults(u)' : a = b
  BY <1>1 DEF UserQuiet, SettledKept
<1> QED BY <1>4, <1>5, <1>6 DEF SettledKept

-----------------------------------------------------------------------------
\* Steps that leave organizations and members alone.
Alone1(q) == \A p \in OrgRequests \ {q} : orgReq'[p] = orgReq[p]
OrgInvitesStand ==
    /\ invite' \in Seq(OrganizationInvitation) /\ Len(invite') = Len(invite)
    /\ DOMAIN invite' = DOMAIN invite
    /\ \A i \in DOMAIN invite : invite'[i].org = invite[i].org
OrgTablesStand == UNCHANGED <<founder, member>> /\ OrgInvitesStand
OrgGrows == crowded \subseteq crowded' /\ crowded' \subseteq Orgs /\ hurried \subseteq hurried' /\ hurried' \subseteq Users

\* What a step that leaves them alone must not do to its request.
OrgHarmless(q, r) ==
    /\ OrgRequestStands(r)
    /\ \A o \in Orgs :
        /\ Creates(r, o) => Creates(orgReq[q], o)
        /\ Founded(o) => ~Manages(r, o, founder[o])
        /\ Counting(r, o) /\ o \notin crowded' =>
              \/ Counting(orgReq[q], o)
              \/ Others(q, o) /\ Cardinality(Members(o)) < MemberLimit
    /\ \A i \in DOMAIN invite : InviteQuiet(i, q, r) \/ AdmitsOne(i)'
    /\ \A u \in Users \ hurried' :
        /\ OwnMove(r, u) => OwnMove(orgReq[q], u) \/ \A p \in OrgRequests : ~OwnMove(orgReq[p], u)
        /\ OwnMove(r, u) /\ Settled(r) => Defaults(u) = {}

LEMMA OrgStillStep ==
    ASSUME OrgInv, NEW q, NEW r, OrgMoves(q, r), Alone1(q), OrgTablesStand, OrgGrows, OrgHarmless(q, r)
    PROVE  OrgInv'
<1> USE DEF OrgInv, OrgTablesStand
<1>1. OrganizationsTypeOK'
  BY DEF OrgInvitesStand, OrganizationsTypeOK, OrgMoves, OrgRow, OrgGrows
<1>2. OrgRequestsStand'
  <2>1. OrgRowsStand(q)
    <3> SUFFICES ASSUME NEW p \in OrgRequests \ {q}, orgReq'[p] # NoOrgRequest,
                        orgReq'[p].kind \in Administering, ~orgReq'[p].lost
                 PROVE  member[orgReq'[p].org][orgReq'[p].user] # NoMember
      BY DEF OrgRowsStand, OrgInvitesStand
    <3>1. orgReq'[p] = orgReq[p]
      BY DEF Alone1
    <3> QED BY <3>1 DEF OrgRequestsStand, OrgRequestStands, Members
  <2>2. OrgRequestStands(orgReq[q])'
    BY DEF OrgMoves, OrgHarmless, OrgRequestStands, OrgInvitesStand, Members
  <2> QED BY <2>1, <2>2, OrgRequestsStandStep
<1>3. FoundersKept'
  <2>1. ASSUME NEW o \in Orgs PROVE OrgQuiet(o, q, r)
    <3>1. Bare(o) => \A u \in Users : member'[o][u] = NoMember
      BY DEF Bare, Members
    <3>2. Founded(o) => /\ founder'[o] = founder[o] /\ member'[o][founder[o]].role = "OWNER"
                        /\ ~Creates(orgReq[q], o)
      BY DEF Founded, OrgMoves
    <3>3. /\ Creates(r, o) => Creates(orgReq[q], o)
          /\ Founded(o) => ~Manages(r, o, founder[o])
      BY DEF OrgHarmless
    <3>4. \A i \in DOMAIN invite' : i \in DOMAIN invite /\ invite'[i].org = invite[i].org
      BY DEF OrgInvitesStand
    <3> QED BY <3>1, <3>2, <3>3, <3>4 DEF OrgQuiet
  <2> QED BY <2>1, FoundersStep
<1>4. RoomKept'
  <2>1. \A o \in Orgs : RoomQuiet(o, q, r)
    BY DEF OrgHarmless, RoomQuiet
  <2> QED BY <2>1, RoomStep DEF OrgGrows
<1>5. AdmissionsKept'
  <2>1. \A i \in DOMAIN invite : InviteQuiet(i, q, r) \/ AdmitsOne(i)'
    BY DEF OrgHarmless
  <2> QED BY <2>1, AdmissionsStep DEF OrgInvitesStand
<1>6. DefaultsKept'
  <2>1. \A u \in Users : Defaults(u)' = Defaults(u)
    BY DEF Defaults
  <2>2. \A u \in Users \ hurried' : UserQuiet(u, q, r)
    BY <2>1 DEF OrgHarmless, UserQuiet
  <2> QED BY <2>2, DefaultsStep DEF OrgGrows
<1> QED BY <1>1, <1>2, <1>3, <1>4, <1>5, <1>6

LEMMA OrgAsIs ==
    ASSUME OrgInv
    PROVE  /\ crowded \subseteq Orgs /\ hurried \subseteq Users
           /\ invite' = invite => OrgInvitesStand
BY OrgFacts DEF OrgInv, OrganizationsTypeOK, OrgInvitesStand

LEMMA OrgLeavesStep ==
    ASSUME OrgInv, NEW q \in OrgRequests, orgReq[q].pc # "joined", OrgLeave(q),
           UNCHANGED <<founder, member, invite, crowded, hurried>>
    PROVE  OrgInv'
<1> PICK r : r = NoOrgRequest
  OBVIOUS
<1>1. OrgMoves(q, r) /\ Alone1(q)
  <2>1. orgReq' = [orgReq EXCEPT ![q] = r] /\ r \in OrgRow
    BY DEF OrgLeave, OrgRow
  <2>2. OrgMoves(q, r)
    BY <2>1, OrgMovesAlone DEF OrgInv
  <2> QED BY <2>1, <2>2, OrgFacts DEF Alone1, OrgInv
<1>2. OrgHarmless(q, r)
  BY DEF OrgHarmless, InviteQuiet, OrgRequestStands, Creates, Manages, Counting, Uses, OrgAccepts,
         OwnMove
<1>3. OrgGrows /\ OrgTablesStand
  BY OrgAsIs DEF OrgGrows, OrgTablesStand
<1> QED BY <1>1, <1>2, <1>3, OrgStillStep

\* A request that comes in.
OrgStarted(q, r, kind, pc, o, u, i) ==
    /\ orgReq[q] = NoOrgRequest /\ OrgMoves(q, r) /\ Alone1(q)
    /\ r \in OrgRequest /\ r # NoOrgRequest /\ r.kind = kind /\ r.pc = pc /\ r.org = o /\ r.user = u
    /\ r.inv = i /\ r.first = FALSE /\ r.lost = FALSE
    /\ hurried \subseteq hurried' /\ hurried' \subseteq Users
    /\ kind \notin {"role", "remove"} /\ u \notin hurried' =>
          \A p \in OrgRequests : ~OwnMove(orgReq[p], u)

LEMMA OrgStarts ==
    ASSUME OrganizationsTypeOK, NEW q \in OrgRequests,
           NEW kind \in {"create", "accept", "switch", "role", "remove"},
           NEW pc \in {"saved", "found", "loaded"}, NEW o \in Orgs, NEW u \in Users,
           NEW i \in 0..MaxInvites, OrgStart(q, kind, pc, o, u, i)
    PROVE  \E r : OrgStarted(q, r, kind, pc, o, u, i)
<1> PICK row : row = member[o][u].role
  OBVIOUS
<1>1. row \in OrganizationRole \cup {"NONE"}
  BY OrgFacts DEF MemberRow, OrganizationMember, NoMember
<1> PICK r : r = [pc |-> pc, kind |-> kind, org |-> o, user |-> u, inv |-> i,
                  loaded |-> row, first |-> FALSE, lost |-> FALSE]
  OBVIOUS
<1>2. /\ r \in OrgRequest /\ r # NoOrgRequest /\ r.kind = kind /\ r.pc = pc /\ r.org = o /\ r.user = u
      /\ r.inv = i /\ r.first = FALSE /\ r.lost = FALSE
  <2>1. r \in OrgRequest
    BY <1>1 DEF OrgRequest
  <2> QED BY <2>1, OrgFacts
<1>3. orgReq[q] = NoOrgRequest /\ orgReq' = [orgReq EXCEPT ![q] = r]
  BY DEF OrgStart
<1>4. OrgMoves(q, r) /\ Alone1(q)
  <2>1. OrgMoves(q, r)
    BY <1>2, <1>3, OrgMovesAlone DEF OrgRow
  <2> QED BY <2>1, <1>3, OrgFacts DEF Alone1
<1>5. /\ hurried \subseteq hurried' /\ hurried' \subseteq Users
      /\ kind \notin {"role", "remove"} /\ u \notin hurried' =>
            \A p \in OrgRequests : ~OwnMove(orgReq[p], u)
  <2>1. hurried' = IF \E p \in OrgRequests : Moving(p, u) /\ kind \notin {"role", "remove"}
                   THEN hurried \cup {u} ELSE hurried
    BY DEF OrgStart
  <2>2. \A p \in OrgRequests : Moving(p, u) <=> OwnMove(orgReq[p], u)
    BY DEF Moving, OwnMove
  <2> QED BY <2>1, <2>2 DEF OrganizationsTypeOK
<1> QED BY <1>2, <1>3, <1>4, <1>5 DEF OrgStarted

LEMMA LoadStep ==
    ASSUME OrgInv, NEW q, NEW r, NEW kind \in Administering, NEW o \in Orgs, NEW u \in Users,
           OrgStarted(q, r, kind, "loaded", o, u, 0), u \in Members(o),
           kind \in {"role", "remove"} => member[o][u].role # "OWNER",
           UNCHANGED <<founder, member, invite, crowded>>
    PROVE  OrgInv'
<1>1. OrgRequestStands(r)
  BY DEF OrgRequestStands, OrgStarted, Administering
<1>2. \A a \in Orgs : /\ ~Creates(r, a) /\ ~Counting(r, a)
                      /\ Founded(a) => ~Manages(r, a, founder[a])
  BY DEF OrgStarted, Administering, Creates, Counting, OrgAccepts, Founded, Manages
<1>3. \A i \in DOMAIN invite : InviteQuiet(i, q, r)
  BY DEF OrgStarted, Administering, InviteQuiet, Uses, OrgAccepts
<1>4. \A v \in Users \ hurried' :
        /\ OwnMove(r, v) => \A p \in OrgRequests : ~OwnMove(orgReq[p], v)
        /\ ~Settled(r)
  BY DEF OrgStarted, OwnMove, Settled
<1>5. OrgHarmless(q, r)
  BY <1>1, <1>2, <1>3, <1>4 DEF OrgHarmless
<1>6. OrgGrows /\ OrgTablesStand
  BY OrgAsIs DEF OrgGrows, OrgTablesStand, OrgStarted
<1> QED BY <1>5, <1>6, OrgStillStep DEF OrgStarted

LEMMA LoadOwnStep ==
    ASSUME OrgInv, NEW q \in OrgRequests, NEW o \in Orgs, NEW u \in Users, LoadOwn(q, o, u)
    PROVE  OrgInv'
<1>1. \E r : OrgStarted(q, r, "switch", "loaded", o, u, 0)
  BY OrgStarts, OrgFacts DEF OrgInv, LoadOwn
<1> QED BY <1>1, LoadStep DEF LoadOwn, Administering

LEMMA LoadMemberStep ==
    ASSUME OrgInv, NEW q \in OrgRequests, NEW o \in Orgs, NEW u \in Users,
           NEW kind \in {"role", "remove"}, LoadMember(q, kind, o, u)
    PROVE  OrgInv'
<1>1. \E r : OrgStarted(q, r, kind, "loaded", o, u, 0)
  BY OrgStarts, OrgFacts DEF OrgInv, LoadMember
<1> QED BY <1>1, LoadStep DEF LoadMember, Changeable, Administering

-----------------------------------------------------------------------------
\* A request that changes in place.
LEMMA OrgGoesOn ==
    ASSUME OrganizationsTypeOK, NEW q \in OrgRequests, NEW r \in OrgRow, orgReq' = [orgReq EXCEPT ![q] = r]
    PROVE  OrgMoves(q, r) /\ Alone1(q)
<1>1. OrgMoves(q, r)
  BY OrgMovesAlone
<1> QED BY <1>1, OrgFacts DEF Alone1

LEMMA ListFirstTests ==
    ASSUME OrganizationsTypeOK, NEW q \in OrgRequests, orgReq[q] # NoOrgRequest, ListFirst(q)
    PROVE  \E r \in OrgRequest :
              /\ OrgMoves(q, r) /\ Alone1(q) /\ r # NoOrgRequest /\ r.pc = "tested"
              /\ r.first => Memberships(orgReq[q].user) = {}
              /\ r.kind = orgReq[q].kind /\ r.org = orgReq[q].org /\ r.user = orgReq[q].user
              /\ r.inv = orgReq[q].inv /\ r.lost = orgReq[q].lost
<1> PICK s \in OrgRequest : s = orgReq[q]
  BY OrgFacts
<1>1. \E first \in BOOLEAN :
        /\ first => Memberships(orgReq[q].user) = {}
        /\ orgReq' = [orgReq EXCEPT ![q].pc = "tested", ![q].first = first]
  <2>1. CASE Memberships(orgReq[q].user) = {}
    BY <2>1 DEF ListFirst
  <2>2. CASE Memberships(orgReq[q].user) # {}
    BY <2>2 DEF ListFirst
  <2> QED BY <2>1, <2>2
<1> PICK first \in BOOLEAN :
        /\ first => Memberships(orgReq[q].user) = {}
        /\ orgReq' = [orgReq EXCEPT ![q].pc = "tested", ![q].first = first]
  BY <1>1
<1> PICK r : r = [s EXCEPT !.pc = "tested", !.first = first]
  OBVIOUS
<1>2. /\ r \in OrgRequest /\ r.pc = "tested" /\ r.first = first /\ r.kind = s.kind /\ r.org = s.org
      /\ r.user = s.user /\ r.inv = s.inv /\ r.lost = s.lost
  BY DEF OrgRequest
<1>3. orgReq' = [orgReq EXCEPT ![q] = r]
  BY OrgFacts
<1>4. OrgMoves(q, r) /\ Alone1(q) /\ r # NoOrgRequest
  BY <1>2, <1>3, OrgGoesOn, OrgFacts DEF OrgRow
<1> QED BY <1>2, <1>4

LEMMA OrgToSet ==
    ASSUME OrganizationsTypeOK, NEW q \in OrgRequests, orgReq[q] # NoOrgRequest,
           NEW pc \in {"saved", "found", "counted", "tested", "joined", "loaded", "cleared"}, OrgTo(q, pc)
    PROVE  \E r \in OrgRequest :
              /\ OrgMoves(q, r) /\ Alone1(q) /\ r # NoOrgRequest /\ r.pc = pc /\ r.first = orgReq[q].first
              /\ r.kind = orgReq[q].kind /\ r.org = orgReq[q].org /\ r.user = orgReq[q].user
              /\ r.inv = orgReq[q].inv /\ r.lost = orgReq[q].lost
<1> PICK s \in OrgRequest : s = orgReq[q]
  BY OrgFacts
<1> PICK r : r = [s EXCEPT !.pc = pc]
  OBVIOUS
<1>1. /\ r \in OrgRequest /\ r.pc = pc /\ r.first = s.first /\ r.kind = s.kind /\ r.org = s.org
      /\ r.user = s.user /\ r.inv = s.inv /\ r.lost = s.lost
  BY DEF OrgRequest
<1>2. orgReq' = [orgReq EXCEPT ![q] = r]
  BY OrgFacts DEF OrgTo
<1> QED BY <1>1, <1>2, OrgGoesOn, OrgFacts DEF OrgRow

\* What stays true of a request that only goes on.
SameErrand(r, s) ==
    /\ r # NoOrgRequest /\ s # NoOrgRequest /\ r.kind = s.kind /\ r.org = s.org /\ r.user = s.user
    /\ r.inv = s.inv /\ r.lost = s.lost

LEMMA ErrandStands ==
    ASSUME OrgInv, NEW q \in OrgRequests, NEW r, SameErrand(r, orgReq[q])
    PROVE  /\ \A o \in Orgs : /\ Creates(r, o) => Creates(orgReq[q], o)
                              /\ Founded(o) => ~Manages(r, o, founder[o])
           /\ \A i : Uses(r, i) <=> Uses(orgReq[q], i)
           /\ \A u : OwnMove(r, u) <=> OwnMove(orgReq[q], u)
BY DEF SameErrand, Creates, Manages, Founded, Uses, OrgAccepts, OwnMove

LEMMA ListFirstStep == ASSUME OrgInv, NEW q \in OrgRequests, ListFirst(q) PROVE OrgInv'
<1>1. orgReq[q] # NoOrgRequest /\ OrgRequestStands(orgReq[q])
      /\ (orgReq[q].kind = "create" \/ (orgReq[q].kind = "accept" /\ orgReq[q].pc = "counted"))
  BY OrgFacts DEF OrgInv, OrgRequestsStand, ListFirst, OrgAt
<1> PICK r \in OrgRequest :
              /\ OrgMoves(q, r) /\ Alone1(q) /\ r # NoOrgRequest /\ r.pc = "tested"
              /\ r.first => Memberships(orgReq[q].user) = {}
              /\ r.kind = orgReq[q].kind /\ r.org = orgReq[q].org /\ r.user = orgReq[q].user
              /\ r.inv = orgReq[q].inv /\ r.lost = orgReq[q].lost
  BY <1>1, ListFirstTests DEF OrgInv
<1>4. SameErrand(r, orgReq[q])
  BY <1>1 DEF SameErrand
<1>5. OrgRequestStands(r)
  BY <1>1 DEF OrgRequestStands, Administering
<1>6. \A o \in Orgs : Counting(r, o) => Counting(orgReq[q], o)
  BY <1>1 DEF Counting, OrgAccepts
<1>7. \A i \in DOMAIN invite : InviteQuiet(i, q, r)
  BY <1>1, <1>4, ErrandStands DEF InviteQuiet, ListFirst, OrgAt
<1>8. \A u \in Users : OwnMove(r, u) /\ Settled(r) => Defaults(u) = {}
  <2> SUFFICES ASSUME NEW u \in Users, u = orgReq[q].user, Memberships(u) = {} PROVE Defaults(u) = {}
    BY DEF OwnMove, Settled
  <2>1. \A o \in Orgs : member[o][u] = NoMember
    BY DEF Memberships, Members
  <2> QED BY <2>1, OrgFacts DEF Defaults, OrgInv
<1>9. OrgHarmless(q, r)
  BY <1>4, <1>5, <1>6, <1>7, <1>8, ErrandStands DEF OrgHarmless
<1>10. OrgGrows /\ OrgTablesStand
  BY OrgAsIs DEF OrgGrows, OrgTablesStand, ListFirst
<1> QED BY <1>9, <1>10, OrgStillStep

LEMMA TestRoomStep == ASSUME OrgInv, NEW q \in OrgRequests, TestRoom(q) PROVE OrgInv'
<1>1. /\ orgReq[q] # NoOrgRequest /\ orgReq[q].pc = "found" /\ orgReq[q].kind = "accept"
      /\ OrgRequestStands(orgReq[q]) /\ orgReq[q] \in OrgRequest
  BY OrgFacts DEF OrgInv, OrgRequestsStand, TestRoom, OrgAt
<1> PICK o \in Orgs : o = orgReq[q].org
  BY <1>1 DEF OrgRequest
<1>2. CASE OrgLeave(q) /\ UNCHANGED crowded
  BY <1>1, <1>2, OrgLeavesStep DEF TestRoom
<1>3. CASE /\ OrgTo(q, "counted") /\ Room(o)
           /\ crowded' = IF Counted(o) THEN crowded \cup {o} ELSE crowded
  <2> PICK r \in OrgRequest :
              /\ OrgMoves(q, r) /\ Alone1(q) /\ r # NoOrgRequest /\ r.pc = "counted"
              /\ r.first = orgReq[q].first
              /\ r.kind = orgReq[q].kind /\ r.org = orgReq[q].org /\ r.user = orgReq[q].user
              /\ r.inv = orgReq[q].inv /\ r.lost = orgReq[q].lost
    BY <1>1, <1>3, OrgToSet DEF OrgInv
  <2>1. SameErrand(r, orgReq[q])
    BY <1>1 DEF SameErrand
  <2>2. OrgRequestStands(r)
    BY <1>1 DEF OrgRequestStands, Administering
  <2>3. ASSUME NEW a \in Orgs, Counting(r, a), a \notin crowded'
        PROVE  Others(q, a) /\ Cardinality(Members(a)) < MemberLimit
    <3>1. a = o
      BY <2>3 DEF Counting
    <3>2. ~Counted(o)
      BY <1>3, <2>3, <3>1
    <3>3. Others(q, o)
      BY <3>2 DEF Others, Counted, Counting, OrgAccepts
    <3> QED BY <1>3, <3>1, <3>3 DEF Room
  <2>4. \A i \in DOMAIN invite : InviteQuiet(i, q, r)
    BY <1>1, <2>1, ErrandStands DEF InviteQuiet, TestRoom
  <2>5. \A u \in Users : ~Settled(r)
    BY DEF Settled
  <2>6. OrgHarmless(q, r)
    BY <2>1, <2>2, <2>3, <2>4, <2>5, ErrandStands DEF OrgHarmless
  <2>7. OrgGrows /\ OrgTablesStand
    BY <1>3, OrgAsIs DEF OrgGrows, OrgTablesStand, TestRoom
  <2> QED BY <2>6, <2>7, OrgStillStep
<1> QED BY <1>1, <1>2, <1>3 DEF TestRoom

-----------------------------------------------------------------------------
LEMMA FindInviteStep ==
    ASSUME OrgInv, NEW q \in OrgRequests, NEW u \in Users, NEW i \in DOMAIN invite, FindInvite(q, u, i)
    PROVE  OrgInv'
<1> PICK o \in Orgs : o = invite[i].org
  BY OrgFacts DEF OrgInv, OrganizationInvitation
<1>1. i \in 0..MaxInvites /\ OrganizationsTypeOK
  BY OrgFacts DEF OrgInv
<1>2. \E r : OrgStarted(q, r, "accept", "found", o, u, i)
  BY <1>1, OrgStarts DEF FindInvite
<1> PICK r : OrgStarted(q, r, "accept", "found", o, u, i)
  BY <1>2
<1> DEFINE taken == \E p \in OrgRequests :
                        orgReq[p] # NoOrgRequest /\ orgReq[p].kind = "accept" /\ orgReq[p].inv = i
<1>3. \E spoiled \in BOOLEAN :
        /\ ~spoiled => ~invite[i].spoiled /\ \A p \in OrgRequests : ~Uses(orgReq[p], i)
        /\ invite' = [invite EXCEPT ![i] = [invite[i] EXCEPT !.spoiled = spoiled]]
  <2>1. CASE taken
    BY <2>1 DEF FindInvite
  <2>2. CASE ~taken
    <3>1. invite' = [invite EXCEPT ![i] = [invite[i] EXCEPT !.spoiled = invite[i].spoiled]]
      BY <2>2, <1>1, OrgFacts DEF FindInvite, OrganizationInvitation
    <3>2. \A p \in OrgRequests : ~Uses(orgReq[p], i)
      BY <2>2 DEF Uses, OrgAccepts
    <3>3. invite[i].spoiled \in BOOLEAN
      BY <1>1, OrgFacts DEF OrganizationInvitation
    <3> QED BY <3>1, <3>2, <3>3
  <2> QED BY <2>1, <2>2
<1> PICK spoiled \in BOOLEAN :
        /\ ~spoiled => ~invite[i].spoiled /\ \A p \in OrgRequests : ~Uses(orgReq[p], i)
        /\ invite' = [invite EXCEPT ![i] = [invite[i] EXCEPT !.spoiled = spoiled]]
  BY <1>3
<1> HIDE DEF taken
<1> PICK row \in OrganizationInvitation : row = invite[i]
  BY <1>1, OrgFacts
<1> PICK new \in OrganizationInvitation : new = [row EXCEPT !.spoiled = spoiled]
  BY DEF OrganizationInvitation
<1>4. /\ new.org = row.org /\ new.accepted = row.accepted /\ new.admitted = row.admitted
      /\ new.spoiled = spoiled /\ row.org = o /\ ~row.accepted /\ row.admitted \in 0..2
  BY DEF OrganizationInvitation, FindInvite, Usable
<1>5. RowWritten(OrganizationInvitation, invite', invite, i, new)
  BY <1>1, WritesRow, OrgFacts
<1>6. OrgInvitesStand
  BY <1>4, <1>5 DEF RowWritten, OrgInvitesStand
<1>7. OrgRequestStands(r)
  BY <1>4 DEF OrgRequestStands, OrgStarted, Administering
<1>8. \A a \in Orgs : ~Creates(r, a) /\ ~Counting(r, a) /\ (Founded(a) => ~Manages(r, a, founder[a]))
  BY DEF OrgStarted, Creates, Counting, Manages
<1>9. ASSUME NEW j \in DOMAIN invite PROVE InviteQuiet(j, q, r) \/ AdmitsOne(j)'
  <2>1. CASE j # i
    BY <1>5, <2>1 DEF RowWritten, InviteQuiet, OrgStarted, Uses, OrgAccepts
  <2>2. CASE j = i
    <3> SUFFICES AdmitsOne(i)'
      BY <2>2
    <3>1. AdmitsOne(i) /\ invite'[i] = new
      BY <1>5 DEF OrgInv, AdmissionsKept, RowWritten
    <3>2. orgReq'[q] = r /\ r.pc = "found"
      BY DEF OrgStarted, OrgMoves
    <3>3. \A p \in OrgRequests : Uses(orgReq'[p], i) /\ orgReq'[p].pc = "joined" =>
              Uses(orgReq[p], i) /\ orgReq[p].pc = "joined"
      BY <3>2, OthersUse DEF OrgStarted
    <3>4. CASE spoiled
      BY <1>4, <3>1, <3>3, <3>4 DEF AdmitsOne
    <3>5. CASE ~spoiled
      <4>1. \A p \in OrgRequests : Uses(orgReq'[p], i) => p = q
        BY <3>5, OthersUse DEF OrgStarted
      <4>2. row.admitted = 0
        BY <1>4, <3>1, <3>5 DEF AdmitsOne
      <4> QED BY <1>4, <3>1, <3>2, <3>3, <4>1, <4>2 DEF AdmitsOne
    <3> QED BY <3>4, <3>5
  <2> QED BY <2>1, <2>2
<1>10. \A v \in Users \ hurried' :
        /\ OwnMove(r, v) => \A p \in OrgRequests : ~OwnMove(orgReq[p], v)
        /\ ~Settled(r)
  BY DEF OrgStarted, OwnMove, Settled
<1>11. OrgHarmless(q, r)
  BY <1>7, <1>8, <1>9, <1>10 DEF OrgHarmless
<1>12. OrgGrows /\ OrgTablesStand
  BY <1>6, OrgAsIs DEF OrgGrows, OrgTablesStand, OrgStarted, FindInvite
<1> QED BY <1>11, <1>12, OrgStillStep DEF OrgStarted

\* A request leaves its invitation, marked or spoiled.
InviteLeft(q, i, new) ==
    /\ OrgAt(q, "accept", "joined") /\ OrgLeave(q)
    /\ i = orgReq[q].inv /\ new \in OrganizationInvitation
    /\ new.org = invite[i].org /\ new.admitted = invite[i].admitted
    /\ \/ new.accepted = TRUE /\ new.spoiled = invite[i].spoiled
       \/ new.spoiled = TRUE /\ new.accepted = invite[i].accepted
    /\ invite' = [invite EXCEPT ![i] = new]

LEMMA LeavesInviteStep ==
    ASSUME OrgInv, NEW q \in OrgRequests, NEW i, NEW new, InviteLeft(q, i, new),
           UNCHANGED <<founder, member, crowded, hurried>>
    PROVE  OrgInv'
<1> USE DEF InviteLeft
<1> PICK r : r = NoOrgRequest
  OBVIOUS
<1>1. orgReq[q] # NoOrgRequest /\ OrgRequestStands(orgReq[q])
  BY OrgFacts DEF OrgInv, OrgRequestsStand, OrgAt
<1>2. i \in DOMAIN invite /\ Uses(orgReq[q], i) /\ orgReq[q].pc = "joined"
  BY <1>1 DEF OrgRequestStands, OrgAt, Uses, OrgAccepts
<1>3. RowWritten(OrganizationInvitation, invite', invite, i, new)
  BY <1>2, WritesRow, OrgFacts DEF OrgInv
<1>4. OrgInvitesStand
  BY <1>3 DEF RowWritten, OrgInvitesStand
<1>5. OrgMoves(q, r) /\ Alone1(q)
  BY OrgGoesOn DEF OrgLeave, OrgRow, OrgInv
<1>6. ASSUME NEW j \in DOMAIN invite PROVE InviteQuiet(j, q, r) \/ AdmitsOne(j)'
  <2>1. CASE j # i
    BY <1>3, <2>1 DEF RowWritten, InviteQuiet, Uses, OrgAccepts
  <2>2. CASE j = i
    <3> SUFFICES AdmitsOne(i)'
      BY <2>2
    <3>1. AdmitsOne(i) /\ invite'[i] = new
      BY <1>2, <1>3 DEF OrgInv, AdmissionsKept, RowWritten
    <3>2. \A p \in OrgRequests : Uses(orgReq'[p], i) =>
              p # q /\ Uses(orgReq[p], i) /\ orgReq'[p].pc = orgReq[p].pc
      BY <1>5, OthersUse DEF OrgMoves, Uses, OrgAccepts
    <3>3. new.admitted >= 1
      BY <1>2, <3>1 DEF AdmitsOne
    <3>4. CASE new.spoiled
      BY <3>1, <3>2, <3>3, <3>4 DEF AdmitsOne
    <3>5. CASE ~new.spoiled
      <4>1. new.accepted /\ ~invite[i].spoiled
        BY <3>5
      <4>2. \A p \in OrgRequests : ~Uses(orgReq'[p], i)
        BY <1>2, <3>1, <3>2, <4>1 DEF AdmitsOne
      <4>3. new.admitted <= 1
        BY <3>1, <4>1 DEF AdmitsOne
      <4> QED BY <3>1, <3>3, <4>1, <4>2, <4>3 DEF AdmitsOne
    <3> QED BY <3>4, <3>5
  <2> QED BY <2>1, <2>2
<1>7. OrgHarmless(q, r)
  BY <1>6 DEF OrgHarmless, OrgRequestStands, Creates, Manages, Counting, OrgAccepts, OwnMove
<1>8. OrgGrows /\ OrgTablesStand
  BY <1>4, OrgAsIs DEF OrgGrows, OrgTablesStand
<1> QED BY <1>5, <1>7, <1>8, OrgStillStep

LEMMA HeldInvite ==
    ASSUME OrgInv, NEW q \in OrgRequests, OrgAt(q, "accept", "joined")
    PROVE  /\ orgReq[q] # NoOrgRequest /\ orgReq[q].inv \in DOMAIN invite
           /\ invite[orgReq[q].inv] \in OrganizationInvitation
<1>1. orgReq[q] # NoOrgRequest /\ OrgRequestStands(orgReq[q])
  BY OrgFacts DEF OrgInv, OrgRequestsStand, OrgAt
<1>2. orgReq[q].inv \in DOMAIN invite
  BY <1>1 DEF OrgRequestStands, OrgAt
<1> QED BY <1>1, <1>2, OrgFacts DEF OrgInv

LEMMA MarkInviteStep == ASSUME OrgInv, NEW q \in OrgRequests, MarkInvite(q) PROVE OrgInv'
<1>1. OrgAt(q, "accept", "joined")
  BY DEF MarkInvite
<1> PICK i : i = orgReq[q].inv
  OBVIOUS
<1> PICK row \in OrganizationInvitation : row = invite[i]
  BY <1>1, HeldInvite
<1> PICK new \in OrganizationInvitation : new = [row EXCEPT !.accepted = TRUE]
  BY DEF OrganizationInvitation
<1>2. new.org = row.org /\ new.admitted = row.admitted /\ new.accepted = TRUE /\ new.spoiled = row.spoiled
  BY DEF OrganizationInvitation
<1>3. invite' = [invite EXCEPT ![i] = new]
  BY <1>1, HeldInvite DEF MarkInvite
<1>4. InviteLeft(q, i, new)
  BY <1>1, <1>2, <1>3 DEF InviteLeft, MarkInvite
<1> QED BY <1>4, LeavesInviteStep DEF MarkInvite

LEMMA OrgRequestDiesStep == ASSUME OrgInv, NEW q \in OrgRequests, OrgRequestDies(q) PROVE OrgInv'
<1>1. CASE OrgAt(q, "accept", "joined")
  <2> PICK i : i = orgReq[q].inv
    OBVIOUS
  <2> PICK row \in OrganizationInvitation : row = invite[i]
    BY <1>1, HeldInvite
  <2> PICK new \in OrganizationInvitation : new = [row EXCEPT !.spoiled = TRUE]
    BY DEF OrganizationInvitation
  <2>2. new.org = row.org /\ new.admitted = row.admitted /\ new.spoiled = TRUE /\ new.accepted = row.accepted
    BY DEF OrganizationInvitation
  <2>3. invite' = [invite EXCEPT ![i] = new]
    BY <1>1, HeldInvite DEF OrgRequestDies
  <2>4. InviteLeft(q, i, new)
    BY <1>1, <2>2, <2>3 DEF InviteLeft, OrgRequestDies
  <2> QED BY <2>4, LeavesInviteStep DEF OrgRequestDies
<1>2. CASE ~OrgAt(q, "accept", "joined")
  <2>1. orgReq[q].pc # "joined"
    <3>1. orgReq[q] # NoOrgRequest /\ OrgRequestStands(orgReq[q])
      BY DEF OrgInv, OrgRequestsStand, OrgRequestDies
    <3> QED BY <1>2, <3>1 DEF OrgRequestStands, OrgAt
  <2> QED BY <1>2, <2>1, OrgLeavesStep DEF OrgRequestDies
<1> QED BY <1>1, <1>2

LEMMA InvitesOnlyStep ==
    ASSUME OrgInv, UNCHANGED <<founder, member, orgReq, crowded, hurried>>,
           invite' \in Seq(OrganizationInvitation), Len(invite') <= MaxInvites,
           \A i \in DOMAIN invite : i \in DOMAIN invite' /\ invite'[i].org = invite[i].org,
           \A i \in DOMAIN invite' : i \in DOMAIN invite \/ Members(invite'[i].org) # {},
           \A i \in DOMAIN invite' : AdmitsOne(i)'
    PROVE  OrgInv'
<1> USE DEF OrgInv
<1>1. OrganizationsTypeOK'
  BY DEF OrganizationsTypeOK
<1>2. OrgRequestsStand'
  <2>1. ASSUME NEW q \in OrgRequests PROVE OrgRequestStands(orgReq[q])'
    BY DEF OrgRequestsStand, OrgRequestStands, Members
  <2> QED BY <2>1 DEF OrgRequestsStand
<1>3. FoundersKept'
  <2>1. ASSUME NEW o \in Orgs, Bare(o) PROVE Bare(o)'
    BY <2>1 DEF Bare, Members
  <2>2. ASSUME NEW o \in Orgs, Founded(o) PROVE Founded(o)'
    BY <2>2 DEF Founded
  <2> QED BY <2>1, <2>2 DEF FoundersKept
<1>4. RoomKept'
  BY DEF RoomKept, Members
<1>5. AdmissionsKept'
  BY DEF AdmissionsKept
<1>6. DefaultsKept'
  BY DEF DefaultsKept, SettledKept, Defaults
<1> QED BY <1>1, <1>2, <1>3, <1>4, <1>5, <1>6

LEMMA Peopled == ASSUME OrganizationsTypeOK, NEW o \in Orgs, Administered(o) PROVE Members(o) # {}
BY OrgFacts DEF Administered, Members, ADMIN_ROLES

LEMMA InviteStep ==
    ASSUME OrgInv, NEW o \in Orgs, NEW role \in Roles, Invite(o, role)
    PROVE  OrgInv'
<1> PICK row : row = [org |-> o, role |-> role, accepted |-> FALSE, revoked |-> FALSE,
                      admitted |-> 0, spoiled |-> FALSE]
  OBVIOUS
<1>1. row \in OrganizationInvitation
  BY OrganizationsAssumption DEF OrganizationInvitation
<1>2. invite' = Append(invite, row) /\ Len(invite) < MaxInvites
  BY DEF Invite
<1>3. RowAdded(OrganizationInvitation, invite', invite, row)
  BY <1>1, <1>2, AddsRow, OrgFacts DEF OrgInv
<1>4. ASSUME NEW i \in DOMAIN invite' PROVE AdmitsOne(i)'
  <2>1. CASE i \in DOMAIN invite
    <3>1. AdmitsOne(i) /\ invite'[i] = invite[i]
      BY <1>3, <2>1 DEF OrgInv, AdmissionsKept, RowAdded
    <3> QED BY <3>1 DEF AdmitsOne, Invite
  <2>2. CASE i \notin DOMAIN invite
    <3>1. invite'[i] = row
      BY <1>3, <2>2 DEF RowAdded
    <3>2. \A q \in OrgRequests : ~Uses(orgReq'[q], i)
      BY <2>2 DEF Uses, OrgAccepts, OrgInv, OrgRequestsStand, OrgRequestStands, Invite
    <3> QED BY <3>1, <3>2 DEF AdmitsOne
  <2> QED BY <2>1, <2>2
<1>5. \A i \in DOMAIN invite : i \in DOMAIN invite' /\ invite'[i].org = invite[i].org
  BY <1>3 DEF RowAdded
<1>6. \A i \in DOMAIN invite' : i \in DOMAIN invite \/ invite'[i].org = o
  BY <1>3 DEF RowAdded
<1>7. Members(o) # {}
  BY Peopled DEF Invite, OrgInv
<1>8. invite' \in Seq(OrganizationInvitation) /\ Len(invite') <= MaxInvites
  BY <1>2, <1>3, OrgFacts DEF RowAdded, OrgInv
<1> QED BY <1>4, <1>5, <1>6, <1>7, <1>8, InvitesOnlyStep DEF Invite

LEMMA RevokeInviteStep == ASSUME OrgInv, NEW i \in DOMAIN invite, RevokeInvite(i) PROVE OrgInv'
<1> PICK row \in OrganizationInvitation : row = invite[i]
  BY OrgFacts DEF OrgInv
<1> PICK new \in OrganizationInvitation : new = [row EXCEPT !.revoked = TRUE]
  BY DEF OrganizationInvitation
<1>1. new.org = row.org /\ new.admitted = row.admitted /\ new.accepted = row.accepted
      /\ new.spoiled = row.spoiled
  BY DEF OrganizationInvitation
<1>2. invite' = [invite EXCEPT ![i] = new]
  BY DEF RevokeInvite
<1>3. RowWritten(OrganizationInvitation, invite', invite, i, new)
  BY <1>2, WritesRow, OrgFacts DEF OrgInv
<1>4. /\ DOMAIN invite' = DOMAIN invite
      /\ \A j \in DOMAIN invite :
            /\ invite'[j].org = invite[j].org /\ invite'[j].admitted = invite[j].admitted
            /\ invite'[j].accepted = invite[j].accepted /\ invite'[j].spoiled = invite[j].spoiled
  BY <1>1, <1>3 DEF RowWritten
<1>5. ASSUME NEW j \in DOMAIN invite' PROVE AdmitsOne(j)'
  <2>1. AdmitsOne(j)
    BY <1>4 DEF OrgInv, AdmissionsKept
  <2> QED BY <1>4, <2>1 DEF AdmitsOne, RevokeInvite
<1>6. invite' \in Seq(OrganizationInvitation) /\ Len(invite') <= MaxInvites
  BY <1>3, OrgFacts DEF RowWritten, OrgInv
<1> QED BY <1>4, <1>5, <1>6, InvitesOnlyStep DEF RevokeInvite

-----------------------------------------------------------------------------
LEMMA SaveOrganizationStep ==
    ASSUME OrgInv, NEW q \in OrgRequests, NEW o \in Orgs, NEW u \in Users, SaveOrganization(q, o, u)
    PROVE  OrgInv'
<1>1. \E r : OrgStarted(q, r, "create", "saved", o, u, 0)
  BY OrgStarts, OrgFacts DEF OrgInv, SaveOrganization
<1> PICK r : OrgStarted(q, r, "create", "saved", o, u, 0)
  BY <1>1
<1>2. /\ OrgMoves(q, r) /\ Alone1(q) /\ r # NoOrgRequest /\ r.kind = "create" /\ r.pc = "saved"
      /\ r.org = o /\ r.user = u /\ orgReq[q] = NoOrgRequest
  BY DEF OrgStarted
<1>3. /\ founder[o] = "NONE" /\ u # "NONE" /\ founder'[o] = u
      /\ \A a \in Orgs : a # o => founder'[a] = founder[a]
      /\ founder' \in [Orgs -> Users \cup {"NONE"}]
      /\ UNCHANGED <<member, invite, crowded>>
  BY OrgFacts DEF OrgInv, SaveOrganization
<1>4. OrganizationsTypeOK'
  BY <1>2, <1>3 DEF OrgInv, OrganizationsTypeOK, OrgMoves, OrgRow, OrgStarted
<1>5. OrgRequestsStand'
  <2>1. OrgRowsStand(q)
    <3> SUFFICES ASSUME NEW p \in OrgRequests \ {q}, orgReq'[p] # NoOrgRequest,
                        orgReq'[p].kind \in Administering, ~orgReq'[p].lost
                 PROVE  member[orgReq'[p].org][orgReq'[p].user] # NoMember
      BY <1>3 DEF OrgRowsStand
    <3>1. orgReq'[p] = orgReq[p]
      BY <1>2 DEF Alone1
    <3> QED BY <3>1 DEF OrgInv, OrgRequestsStand, OrgRequestStands, Members
  <2>2. OrgRequestStands(orgReq[q])'
    BY <1>2, <1>3 DEF OrgMoves, OrgRequestStands, Administering
  <2> QED BY <1>2, <2>1, <2>2, OrgRequestsStandStep DEF OrgInv
<1>6. FoundersKept'
  <2>1. ASSUME NEW a \in Orgs, a # o PROVE OrgQuiet(a, q, r)
    BY <1>2, <1>3, <2>1 DEF OrgQuiet, Bare, Founded, Members, Creates, Manages
  <2>2. Bare(o)'
    <3>1. Bare(o)
      BY <1>3 DEF OrgInv, FoundersKept, Founded
    <3>2. ASSUME NEW p \in OrgRequests, Creates(orgReq'[p], o) PROVE p = q
      <4>1. CASE p # q
        <5>1. Creates(orgReq[p], o)
          BY <1>2, <3>2, <4>1 DEF Alone1
        <5>2. founder[o] = orgReq[p].user /\ orgReq[p].user \in Users
          BY <5>1, OrgFacts DEF Creates, OrgInv, OrgRequestsStand, OrgRequestStands, OrgRequest
        <5> QED BY <1>3, <5>2, OrgFacts DEF OrgInv
      <4> QED BY <4>1
    <3> QED BY <1>3, <3>1, <3>2 DEF Bare, Members
  <2>3. \A a \in Orgs : OrgQuiet(a, q, r) \/ (Bare(a) \/ Founded(a))'
    BY <2>1, <2>2
  <2> QED BY <1>2, <2>3, FoundersStep DEF OrgInv
<1>7. RoomKept'
  <2>1. \A a \in Orgs : RoomQuiet(a, q, r)
    BY <1>2, <1>3 DEF RoomQuiet, Counting, OrgAccepts
  <2> QED BY <1>2, <1>3, <2>1, RoomStep DEF OrgInv
<1>8. AdmissionsKept'
  <2>1. \A i \in DOMAIN invite : InviteQuiet(i, q, r)
    BY <1>2, <1>3 DEF InviteQuiet, Uses, OrgAccepts
  <2> QED BY <1>2, <1>3, <2>1, AdmissionsStep DEF OrgInv
<1>9. DefaultsKept'
  <2>1. \A v \in Users \ hurried' : UserQuiet(v, q, r)
    BY <1>2, <1>3 DEF UserQuiet, Defaults, OwnMove, Settled, OrgStarted
  <2> QED BY <1>2, <2>1, DefaultsStep DEF OrgInv, OrgStarted
<1> QED BY <1>4, <1>5, <1>6, <1>7, <1>8, <1>9 DEF OrgInv

\* u enters organization o by a request that has tested.
Enters(q, s, o, u, row) ==
    /\ q \in OrgRequests /\ OrgMoves(q, s) /\ Alone1(q)
    /\ orgReq[q] # NoOrgRequest /\ orgReq[q].pc = "tested" /\ orgReq[q].kind \in {"create", "accept"}
    /\ o \in Orgs /\ u \in Users /\ orgReq[q].org = o /\ orgReq[q].user = u
    /\ s = NoOrgRequest \/ (s \in OrgRequest /\ SameErrand(s, orgReq[q]) /\ s.pc = "joined")
    /\ member[o][u] = NoMember
    /\ row \in OrganizationMember /\ row.default = orgReq[q].first /\ row # NoMember
    /\ member' \in [Orgs -> [Users -> MemberRow]] /\ member'[o][u] = row
    /\ \A a \in Orgs, v \in Users : a # o \/ v # u => member'[a][v] = member[a][v]
    /\ UNCHANGED <<founder, crowded, hurried>> /\ OrgInvitesStand

LEMMA EntersOwn ==
    ASSUME OrgInv, NEW q, NEW s, NEW o, NEW u, NEW row, Enters(q, s, o, u, row), OrgRequestStands(s)'
    PROVE  OrganizationsTypeOK' /\ OrgRequestsStand' /\ DefaultsKept'
<1> USE DEF Enters
<1>1. OrganizationsTypeOK'
  BY DEF OrgInv, OrganizationsTypeOK, OrgMoves, OrgRow, MemberRow, OrgInvitesStand
<1>2. OrgRequestsStand'
  <2>1. OrgRowsStand(q)
    <3> SUFFICES ASSUME NEW p \in OrgRequests \ {q}, orgReq'[p] # NoOrgRequest,
                        orgReq'[p].kind \in Administering, ~orgReq'[p].lost
                 PROVE  member'[orgReq'[p].org][orgReq'[p].user] # NoMember
      BY DEF OrgRowsStand, OrgInvitesStand
    <3>1. orgReq'[p] = orgReq[p]
      BY DEF Alone1
    <3>2. orgReq[p].user \in Members(orgReq[p].org)
      BY <3>1 DEF OrgInv, OrgRequestsStand, OrgRequestStands
    <3>3. orgReq[p].org \in Orgs /\ orgReq[p].user \in Users
      BY <3>1, OrgFacts DEF OrgInv, OrgRequest
    <3> QED BY <3>1, <3>2, <3>3 DEF Members
  <2>2. OrgRequestStands(orgReq[q])'
    BY DEF OrgMoves, OrgRequestStands
  <2> QED BY <2>1, <2>2, OrgRequestsStandStep DEF OrgInv
<1>3. DefaultsKept'
  <2>1. OwnMove(orgReq[q], u) /\ (orgReq[q].first => Settled(orgReq[q]))
    BY DEF OwnMove, Settled
  <2>2. \A v \in Users : OwnMove(s, v) => OwnMove(orgReq[q], v) /\ ~Settled(s)
    BY DEF SameErrand, OwnMove, Settled
  <2>3. ASSUME NEW v \in Users \ hurried' PROVE UserQuiet(v, q, s)
    <3>1. CASE v # u
      <4>1. Defaults(v)' = Defaults(v)
        BY <3>1 DEF Defaults
      <4> QED BY <2>2, <4>1 DEF UserQuiet
    <3>2. CASE v = u /\ ~row.default
      <4>1. Defaults(v)' \subseteq Defaults(v)
        BY <3>2 DEF Defaults
      <4> QED BY <2>2, <4>1 DEF UserQuiet
    <3>3. CASE v = u /\ row.default
      <4>1. Defaults(v) = {}
        BY <2>1, <3>3 DEF OrgInv, DefaultsKept, SettledKept
      <4>2. Defaults(v)' \subseteq {o}
        BY <3>3, <4>1 DEF Defaults
      <4> QED BY <2>1, <2>2, <3>3, <4>2 DEF UserQuiet
    <3> QED BY <3>1, <3>2, <3>3
  <2> QED BY <2>3, DefaultsStep DEF OrgInv
<1> QED BY <1>1, <1>2, <1>3

LEMMA EntersElsewhere ==
    ASSUME OrgInv, NEW q, NEW s, NEW o, NEW u, NEW row, Enters(q, s, o, u, row), NEW a \in Orgs, a # o
    PROVE  OrgQuiet(a, q, s)
<1> USE DEF Enters
<1>1. \A v \in Users : member'[a][v] = member[a][v]
  OBVIOUS
<1>2. \A i \in DOMAIN invite' : i \in DOMAIN invite /\ invite'[i].org = invite[i].org
  BY DEF OrgInvitesStand
<1>3. ~Creates(s, a) /\ \A v : ~Manages(s, a, v)
  BY DEF SameErrand, Creates, Manages
<1>4. ASSUME Bare(a) PROVE \A v \in Users : member'[a][v] = NoMember
  BY <1>1, <1>4 DEF Bare, Members
<1>5. ASSUME Founded(a) PROVE founder'[a] = founder[a] /\ member'[a][founder[a]].role = "OWNER"
  <2>1. founder[a] \in Users
    BY <1>5, OrgFacts DEF OrgInv, Founded
  <2> QED BY <1>1, <1>5, <2>1 DEF Founded
<1> QED BY <1>2, <1>3, <1>4, <1>5 DEF OrgQuiet

LEMMA FounderEntersStep ==
    ASSUME OrgInv, NEW q, NEW s, NEW o, NEW u, NEW row, Enters(q, s, o, u, row),
           s = NoOrgRequest, orgReq[q].kind = "create", row.role = "OWNER", invite' = invite
    PROVE  OrgInv'
<1> USE DEF Enters
<1>1. OrgRequestStands(orgReq[q]) /\ Creates(orgReq[q], o) /\ founder[o] = u /\ u # "NONE"
  BY OrgFacts DEF OrgInv, OrgRequestsStand, OrgRequestStands, Creates
<1>2. Bare(o)
  BY <1>1 DEF OrgInv, FoundersKept, Founded
<1>3. OrganizationsTypeOK' /\ OrgRequestsStand' /\ DefaultsKept'
  <2>1. OrgRequestStands(s)'
    BY DEF OrgRequestStands
  <2> QED BY <2>1, EntersOwn
<1>4. FoundersKept'
  <2>1. ASSUME NEW a \in Orgs, a # o PROVE OrgQuiet(a, q, s)
    BY <2>1, EntersElsewhere
  <2>2. Founded(o)'
    <3>1. ASSUME NEW p \in OrgRequests PROVE ~Creates(orgReq'[p], o) /\ ~Manages(orgReq'[p], o, u)
      <4>1. CASE p = q
        BY <4>1 DEF OrgMoves, Creates, Manages
      <4>2. CASE p # q
        <5>1. orgReq'[p] = orgReq[p] /\ ~Creates(orgReq[p], o)
          BY <1>1, <1>2, <4>2 DEF Alone1, Bare
        <5>2. ~Manages(orgReq[p], o, u)
          BY <1>2 DEF OrgInv, OrgRequestsStand, OrgRequestStands, Manages, Administering, Bare
        <5> QED BY <5>1, <5>2
      <4> QED BY <4>1, <4>2
    <3> QED BY <1>1, <3>1 DEF Founded
  <2>3. \A a \in Orgs : OrgQuiet(a, q, s) \/ (Bare(a) \/ Founded(a))'
    BY <2>1, <2>2
  <2> QED BY <2>3, FoundersStep DEF OrgInv
<1>5. RoomKept'
  <2>1. \A a \in Orgs : a # o => RoomQuiet(a, q, s)
    BY DEF RoomQuiet, Counting, OrgAccepts
  <2>2. Others(q, o)
    BY <1>2 DEF Others, Counting, OrgAccepts, Bare, OrgInv, OrgRequestsStand, OrgRequestStands
  <2>3. RoomTaken(o, q, s, u)
    BY <1>2, <2>2 DEF RoomTaken, Bare, Counting, OrgAccepts
  <2> QED BY <2>1, <2>3, RoomStep DEF OrgInv
<1>6. AdmissionsKept'
  <2>1. \A i \in DOMAIN invite : InviteQuiet(i, q, s)
    BY DEF InviteQuiet, Uses, OrgAccepts
  <2> QED BY <2>1, AdmissionsStep DEF OrgInv
<1> QED BY <1>3, <1>4, <1>5, <1>6 DEF OrgInv

LEMMA GuestEntersStep ==
    ASSUME OrgInv, NEW q, NEW s, NEW o, NEW u, NEW row, Enters(q, s, o, u, row),
           s # NoOrgRequest, orgReq[q].kind = "accept", NEW i, i = orgReq[q].inv, i \in DOMAIN invite,
           \A j \in DOMAIN invite : j # i => invite'[j] = invite[j],
           invite'[i] = [invite[i] EXCEPT !.admitted = IF @ = 2 THEN 2 ELSE @ + 1]
    PROVE  OrgInv'
<1> USE DEF Enters
<1>1. OrgRequestStands(orgReq[q]) /\ invite[i].org = o /\ s.pc = "joined" /\ s.kind = "accept"
      /\ s.org = o /\ s.user = u /\ s.inv = i
  BY DEF OrgInv, OrgRequestsStand, OrgRequestStands, SameErrand
<1>2. OrganizationsTypeOK' /\ OrgRequestsStand' /\ DefaultsKept'
  <2>1. OrgRequestStands(s)'
    BY <1>1 DEF OrgRequestStands, OrgInvitesStand, Administering
  <2> QED BY <2>1, EntersOwn
<1>3. FoundersKept'
  <2>1. Founded(o) /\ founder[o] # u
    <3>1. ~Bare(o)
      BY <1>1 DEF Bare
    <3>2. Founded(o)
      BY <3>1 DEF OrgInv, FoundersKept
    <3> QED BY <3>2, OrgFacts DEF Founded, OrgInv
  <2>2. founder[o] \in Users
    BY <2>1, OrgFacts DEF OrgInv, Founded
  <2>3. ASSUME NEW a \in Orgs PROVE OrgQuiet(a, q, s)
    <3>1. CASE a = o
      BY <1>1, <2>1, <2>2, <3>1 DEF OrgQuiet, Bare, Founded, Creates, Manages
    <3>2. CASE a # o
      BY <3>2, EntersElsewhere
    <3> QED BY <3>1, <3>2
  <2> QED BY <2>3, FoundersStep DEF OrgInv
<1>4. RoomKept'
  <2>1. \A a \in Orgs : a # o => RoomQuiet(a, q, s)
    BY <1>1 DEF RoomQuiet, Counting
  <2>2. RoomTaken(o, q, s, u)
    BY <1>1 DEF RoomTaken, Counting, OrgAccepts
  <2> QED BY <2>1, <2>2, RoomStep DEF OrgInv
<1>5. AdmissionsKept'
  <2>1. ASSUME NEW j \in DOMAIN invite, j # i PROVE InviteQuiet(j, q, s)
    BY <1>1, <2>1 DEF InviteQuiet, Uses, OrgAccepts
  <2>2. AdmitsOne(i)'
    <3>1. AdmitsOne(i)
      BY DEF OrgInv, AdmissionsKept
    <3> PICK old \in OrganizationInvitation : old = invite[i]
      BY OrgFacts DEF OrgInv
    <3> PICK new : new = [old EXCEPT !.admitted = IF @ = 2 THEN 2 ELSE @ + 1]
      OBVIOUS
    <3>2. /\ new.accepted = old.accepted /\ new.spoiled = old.spoiled /\ new.admitted \in Nat
          /\ new.admitted >= 1 /\ (old.admitted = 0 => new.admitted = 1) /\ invite'[i] = new
      BY DEF OrganizationInvitation
    <3>3. orgReq'[q] = s /\ Uses(orgReq[q], i) /\ Uses(s, i)
      BY <1>1 DEF OrgMoves, Uses, OrgAccepts
    <3>4. CASE new.spoiled
      BY <3>2, <3>4 DEF AdmitsOne
    <3>5. CASE ~new.spoiled
      <4>1. \A p \in OrgRequests : Uses(orgReq'[p], i) => p = q
        BY ZenonT(60), <3>1, <3>2, <3>3, <3>5, OthersUse DEF AdmitsOne
      <4>2. new.admitted = 1
        BY <3>1, <3>2, <3>3, <3>5 DEF AdmitsOne
      <4> QED BY <1>1, <3>2, <3>3, <4>1, <4>2 DEF AdmitsOne
    <3> QED BY <3>4, <3>5
  <2>3. \A j \in DOMAIN invite : InviteQuiet(j, q, s) \/ AdmitsOne(j)'
    BY <2>1, <2>2
  <2> QED BY <2>3, AdmissionsStep DEF OrgInv, OrgInvitesStand
<1> QED BY <1>2, <1>3, <1>4, <1>5 DEF OrgInv


LEMMA JoinStep == ASSUME OrgInv, NEW q \in OrgRequests, Join(q) PROVE OrgInv'
<1>1. /\ orgReq[q] # NoOrgRequest /\ orgReq[q].pc = "tested" /\ orgReq[q].kind \in {"create", "accept"}
      /\ OrgRequestStands(orgReq[q]) /\ orgReq[q] \in OrgRequest
  BY OrgFacts DEF OrgInv, OrgRequestsStand, OrgRequestStands, Join
<1> PICK o \in Orgs, u \in Users : o = orgReq[q].org /\ u = orgReq[q].user
  BY <1>1 DEF OrgRequest
<1>2. CASE u \in Members(o)
  BY <1>1, <1>2, OrgLeavesStep DEF Join
<1>3. CASE u \notin Members(o) /\ orgReq[q].kind = "create"
  <2> PICK row \in OrganizationMember : row = [role |-> "OWNER", default |-> orgReq[q].first]
    BY <1>1 DEF OrganizationMember, OrganizationRole, OrgRequest
  <2> PICK s : s = NoOrgRequest
    OBVIOUS
  <2>1. SetMember(o, u, row) /\ OrgLeave(q)
        /\ UNCHANGED <<founder, invite, crowded, hurried>>
    BY <1>1, <1>3 DEF Join, DefaultOf
  <2>2. OrgMoves(q, s) /\ Alone1(q)
    BY <2>1, OrgGoesOn DEF OrgLeave, OrgRow, OrgInv
  <2>3. member[o][u] = NoMember /\ row # NoMember /\ row \in MemberRow
    BY <1>3, OrgFacts DEF Members, MemberRow, OrgInv
  <2>4. /\ member' \in [Orgs -> [Users -> MemberRow]] /\ member'[o][u] = row
        /\ \A a \in Orgs, v \in Users : a # o \/ v # u => member'[a][v] = member[a][v]
    BY <2>1, <2>3, MemberWritten DEF OrgInv
  <2>5. Enters(q, s, o, u, row) /\ row.role = "OWNER" /\ invite' = invite
    BY <1>1, <2>1, <2>2, <2>3, <2>4, OrgAsIs DEF Enters
  <2> QED BY <1>3, <2>5, FounderEntersStep
<1>4. CASE u \notin Members(o) /\ orgReq[q].kind = "accept"
  <2> PICK i : i = orgReq[q].inv
    OBVIOUS
  <2>1. i \in DOMAIN invite /\ OrganizationsTypeOK
    BY <1>1, <1>4 DEF OrgRequestStands, OrgInv
  <2> PICK old \in OrganizationInvitation : old = invite[i]
    BY <2>1, OrgFacts
  <2> PICK n \in 0..2 : n = IF old.admitted = 2 THEN 2 ELSE old.admitted + 1
    <3>1. old.admitted \in 0..2
      BY DEF OrganizationInvitation
    <3> QED BY <3>1
  <2> PICK new \in OrganizationInvitation : new = [old EXCEPT !.admitted = n]
    BY DEF OrganizationInvitation
  <2> PICK row \in OrganizationMember : row = [role |-> old.role, default |-> orgReq[q].first]
    BY <1>1 DEF OrganizationMember, OrganizationInvitation, OrgRequest
  <2>2. /\ SetMember(o, u, row) /\ OrgTo(q, "joined")
        /\ UNCHANGED <<founder, crowded, hurried>> /\ invite' = [invite EXCEPT ![i] = new]
    BY <1>1, <1>4, <2>1, OrgFacts DEF Join, DefaultOf
  <2>3. \E s \in OrgRequest :
            /\ OrgMoves(q, s) /\ Alone1(q) /\ s # NoOrgRequest /\ s.pc = "joined"
            /\ s.kind = orgReq[q].kind /\ s.org = orgReq[q].org /\ s.user = orgReq[q].user
            /\ s.inv = orgReq[q].inv /\ s.lost = orgReq[q].lost
    BY <1>1, <2>1, <2>2, OrgToSet
  <2> PICK s \in OrgRequest :
            /\ OrgMoves(q, s) /\ Alone1(q) /\ s # NoOrgRequest /\ s.pc = "joined"
            /\ s.kind = orgReq[q].kind /\ s.org = orgReq[q].org /\ s.user = orgReq[q].user
            /\ s.inv = orgReq[q].inv /\ s.lost = orgReq[q].lost
    BY <2>3
  <2>4. member[o][u] = NoMember /\ row # NoMember /\ row \in MemberRow
    BY <1>4, <2>1, OrgFacts DEF Members, MemberRow
  <2>5. /\ member' \in [Orgs -> [Users -> MemberRow]] /\ member'[o][u] = row
        /\ \A a \in Orgs, v \in Users : a # o \/ v # u => member'[a][v] = member[a][v]
    BY <2>1, <2>2, <2>4, MemberWritten
  <2>6. RowWritten(OrganizationInvitation, invite', invite, i, new) /\ new.org = old.org
    BY <2>1, <2>2, WritesRow, OrgFacts DEF OrganizationInvitation
  <2>7. OrgInvitesStand
    BY <2>6 DEF RowWritten, OrgInvitesStand
  <2>8. SameErrand(s, orgReq[q])
    BY <1>1 DEF SameErrand
  <2>9. Enters(q, s, o, u, row)
    BY <1>1, <2>2, <2>4, <2>5, <2>7, <2>8 DEF Enters
  <2>10. \A j \in DOMAIN invite : j # i => invite'[j] = invite[j]
    BY <2>6 DEF RowWritten
  <2>11. invite'[i] = [invite[i] EXCEPT !.admitted = IF @ = 2 THEN 2 ELSE @ + 1]
    BY <2>6 DEF RowWritten
  <2> QED BY <1>4, <2>1, <2>9, <2>10, <2>11, GuestEntersStep
<1> QED BY <1>1, <1>2, <1>3, <1>4

-----------------------------------------------------------------------------
\* A request of an administrator or of a member who switches writes rows there are.
OrgChanges(q, r) ==
    /\ q \in OrgRequests /\ OrgMoves(q, r)
    /\ orgReq[q] # NoOrgRequest /\ orgReq[q].kind \in Administering
    /\ r = NoOrgRequest \/ (SameErrand(r, orgReq[q]) /\ r.pc = "cleared")
    /\ UNCHANGED <<founder, invite, crowded, hurried>>
    /\ member' \in [Orgs -> [Users -> MemberRow]]
    /\ \A o \in Orgs, u \in Users : member[o][u] = NoMember => member'[o][u] = NoMember
    /\ \A o \in Orgs : Founded(o) => member'[o][founder[o]].role = "OWNER"
    /\ OrgRowsStand(q) /\ OrgRequestStands(orgReq[q])'
    /\ \A u \in Users : OwnMove(r, u) /\ Settled(r) => Defaults(u)' = {}
    /\ \A u \in Users \ hurried :
          \/ Defaults(u)' \subseteq Defaults(u)
          \/ OwnMove(orgReq[q], u) /\ \A a, b \in Defaults(u)' : a = b

LEMMA OrgChangesStep == ASSUME OrgInv, NEW q, NEW r, OrgChanges(q, r) PROVE OrgInv'
<1> USE DEF OrgChanges
<1>1. OrganizationsTypeOK'
  BY DEF OrgInv, OrganizationsTypeOK, OrgMoves, OrgRow, MemberRow
<1>2. OrgRequestsStand'
  BY OrgRequestsStandStep DEF OrgInv
<1>3. \A o \in Orgs : ~Creates(r, o) /\ ~Counting(r, o) /\ (Founded(o) => ~Manages(r, o, founder[o]))
  BY DEF SameErrand, Administering, Creates, Counting, OrgAccepts, Founded, Manages
<1>4. \A i \in DOMAIN invite : InviteQuiet(i, q, r)
  BY DEF SameErrand, Administering, InviteQuiet, Uses, OrgAccepts
<1>5. FoundersKept'
  <2>1. ASSUME NEW o \in Orgs PROVE OrgQuiet(o, q, r)
    BY <1>3 DEF OrgQuiet, Bare, Members
  <2> QED BY <2>1, FoundersStep DEF OrgInv
<1>6. RoomKept'
  <2>1. ASSUME NEW o \in Orgs PROVE RoomQuiet(o, q, r)
    BY <1>3 DEF RoomQuiet
  <2> QED BY <2>1, RoomStep DEF OrgInv
<1>7. AdmissionsKept'
  BY <1>4, AdmissionsStep DEF OrgInv
<1>8. DefaultsKept'
  <2>1. ASSUME NEW u \in Users \ hurried' PROVE UserQuiet(u, q, r)
    <3>1. OwnMove(r, u) => OwnMove(orgReq[q], u)
      BY DEF SameErrand, OwnMove
    <3> QED BY <3>1 DEF UserQuiet
  <2> QED BY <2>1, DefaultsStep DEF OrgInv
<1> QED BY <1>1, <1>2, <1>5, <1>6, <1>7, <1>8 DEF OrgInv

\* Rows that stay, for requests that stay.
LEMMA OrgRowsStill ==
    ASSUME OrgInv, NEW q, UNCHANGED <<founder, invite>>,
           \A p \in OrgRequests \ {q} :
              orgReq'[p] # NoOrgRequest /\ orgReq'[p].kind \in Administering /\ ~orgReq'[p].lost =>
                 orgReq'[p] = orgReq[p],
           \A p \in OrgRequests \ {q}, o \in Orgs, u \in Users :
              orgReq'[p] # NoOrgRequest /\ orgReq'[p].kind \in Administering /\ ~orgReq'[p].lost
              /\ orgReq[p].org = o /\ orgReq[p].user = u /\ member[o][u] # NoMember =>
                 member'[o][u] # NoMember
    PROVE  OrgRowsStand(q)
<1> SUFFICES ASSUME NEW p \in OrgRequests \ {q}, orgReq'[p] # NoOrgRequest,
                    orgReq'[p].kind \in Administering, ~orgReq'[p].lost
             PROVE  member'[orgReq'[p].org][orgReq'[p].user] # NoMember
  BY DEF OrgRowsStand
<1>1. orgReq'[p] = orgReq[p]
  OBVIOUS
<1>2. orgReq[p].user \in Members(orgReq[p].org) /\ orgReq[p] \in OrgRequest
  BY <1>1, OrgFacts DEF OrgInv, OrgRequestsStand, OrgRequestStands
<1>3. orgReq[p].org \in Orgs /\ orgReq[p].user \in Users
  BY <1>2 DEF OrgRequest
<1> QED BY <1>1, <1>2, <1>3 DEF Members


\* Rows that stay, for requests that stay.
LEMMA OrgRowsStay ==
    ASSUME OrgInv, NEW q, Alone1(q), UNCHANGED <<founder, invite>>,
           \A o \in Orgs, u \in Users : member[o][u] # NoMember => member'[o][u] # NoMember
    PROVE  OrgRowsStand(q)
<1>1. \A p \in OrgRequests \ {q} : orgReq'[p] = orgReq[p]
  BY DEF Alone1
<1> QED BY <1>1, OrgRowsStill

LEMMA RowDefault ==
    ASSUME NEW row \in MemberRow
    PROVE  row.default \in BOOLEAN /\ [NoMember EXCEPT !.default = FALSE] = NoMember
<1>1. row.default \in BOOLEAN
  <2>1. CASE row = NoMember
    BY <2>1 DEF NoMember
  <2>2. CASE row \in OrganizationMember
    BY <2>2 DEF OrganizationMember
  <2> QED BY <2>1, <2>2 DEF MemberRow
<1>2. [NoMember EXCEPT !.default = FALSE] = NoMember
  <2>1. NoMember \in [role : {"NONE"}, default : BOOLEAN] /\ NoMember.default = FALSE
    BY DEF NoMember
  <2>2. \A x \in [role : {"NONE"}, default : BOOLEAN] : [x EXCEPT !.default = x.default] = x
    OBVIOUS
  <2> QED BY <2>1, <2>2
<1> QED BY <1>1, <1>2

LEMMA ClearDefaultStep == ASSUME OrgInv, NEW q \in OrgRequests, ClearDefault(q) PROVE OrgInv'
<1>1. /\ orgReq[q] # NoOrgRequest /\ orgReq[q].kind = "switch" /\ orgReq[q] \in OrgRequest
      /\ OrgRequestStands(orgReq[q]) /\ OrganizationsTypeOK
  BY OrgFacts DEF OrgInv, OrgRequestsStand, ClearDefault, OrgAt
<1> PICK u \in Users : u = orgReq[q].user
  BY <1>1 DEF OrgRequest
<1>2. \E r \in OrgRequest :
            /\ OrgMoves(q, r) /\ Alone1(q) /\ r # NoOrgRequest /\ r.pc = "cleared"
            /\ r.kind = orgReq[q].kind /\ r.org = orgReq[q].org /\ r.user = orgReq[q].user
            /\ r.inv = orgReq[q].inv /\ r.lost = orgReq[q].lost
  BY <1>1, OrgToSet DEF ClearDefault
<1> PICK r \in OrgRequest :
            /\ OrgMoves(q, r) /\ Alone1(q) /\ r # NoOrgRequest /\ r.pc = "cleared"
            /\ r.kind = orgReq[q].kind /\ r.org = orgReq[q].org /\ r.user = orgReq[q].user
            /\ r.inv = orgReq[q].inv /\ r.lost = orgReq[q].lost
  BY <1>2
<1>3. SameErrand(r, orgReq[q])
  BY <1>1 DEF SameErrand
<1>4. member' = [o \in Orgs |-> [member[o] EXCEPT ![u].default = FALSE]]
  BY DEF ClearDefault, Cleared
<1>5. ASSUME NEW o \in Orgs, NEW v \in Users
      PROVE  /\ member'[o][v] \in MemberRow /\ member'[o][v].role = member[o][v].role
             /\ v # u => member'[o][v] = member[o][v]
             /\ v = u => member'[o][v].default = FALSE
             /\ member'[o][v] = NoMember <=> member[o][v] = NoMember
  <2> PICK row \in MemberRow : row = member[o][v]
    BY <1>1, OrgFacts
  <2>1. member'[o][v] = IF v = u THEN [row EXCEPT !.default = FALSE] ELSE row
    BY <1>1, <1>4, OrgFacts
  <2>2. CASE row = NoMember
    <3>1. member'[o][v] = NoMember
      BY <2>1, <2>2, RowDefault
    <3> QED BY <1>1, <2>2, <3>1, OrgFacts
  <2>3. CASE row \in OrganizationMember
    <3>1. row # NoMember
      BY <1>1, <2>3, OrgFacts
    <3>2. CASE v = u
      <4> PICK new : new = [row EXCEPT !.default = FALSE]
        OBVIOUS
      <4>1. new \in OrganizationMember /\ new.role = row.role /\ new.default = FALSE
        BY <2>3 DEF OrganizationMember
      <4> QED BY <1>1, <2>1, <3>1, <3>2, <4>1, OrgFacts DEF MemberRow
    <3>3. CASE v # u
      BY <2>1, <3>1, <3>3
    <3> QED BY <3>2, <3>3
  <2> QED BY <2>2, <2>3 DEF MemberRow
<1>6. member' \in [Orgs -> [Users -> MemberRow]]
  BY <1>1, <1>4, <1>5, OrgFacts
<1>7. Defaults(u)' = {} /\ \A v \in Users : Defaults(v)' \subseteq Defaults(v)
  BY <1>5 DEF Defaults
<1>8. \A o \in Orgs : Founded(o) => member'[o][founder[o]].role = "OWNER"
  <2>1. \A o \in Orgs : Founded(o) => founder[o] \in Users
    BY <1>1, OrgFacts DEF Founded
  <2> QED BY <1>5, <2>1 DEF Founded
<1>9. OrgRowsStand(q)
  BY <1>5, OrgRowsStay DEF ClearDefault
<1>10. OrgRequestStands(orgReq[q])'
  <2>1. orgReq'[q] = r /\ r.kind = "switch" /\ r.pc = "cleared" /\ r.org \in Orgs
    BY <1>1 DEF OrgMoves, OrgRequest
  <2>2. ~r.lost => r.user \in Members(r.org)
    BY <1>1 DEF OrgRequestStands, Administering
  <2>3. ~r.lost => r.user \in Members(r.org)'
    BY <1>5, <2>1, <2>2 DEF Members
  <2> QED BY <2>1, <2>3 DEF OrgRequestStands
<1>11. \A v \in Users : OwnMove(r, v) => v = u
  BY DEF OwnMove
<1>12. OrgChanges(q, r)
  BY <1>1, <1>3, <1>5, <1>6, <1>7, <1>8, <1>9, <1>10, <1>11 DEF OrgChanges, Administering, ClearDefault
<1> QED BY <1>12, OrgChangesStep

\* A request writes one row and leaves.
WritesMember(q, o, u, row) ==
    /\ q \in OrgRequests /\ o \in Orgs /\ u \in Users
    /\ orgReq[q] # NoOrgRequest /\ orgReq[q].kind \in Administering
    /\ OrgMoves(q, NoOrgRequest) /\ OrgRowsStand(q)
    /\ member[o][u] # NoMember
    /\ SetMember(o, u, row) /\ row \in MemberRow
    /\ Founded(o) /\ founder[o] = u => row.role = "OWNER"
    /\ row.default = TRUE =>
          member[o][u].default = TRUE \/ (orgReq[q].pc = "cleared" /\ OwnMove(orgReq[q], u))
    /\ UNCHANGED <<founder, invite, crowded, hurried>>

LEMMA WritesMemberStep ==
    ASSUME OrgInv, NEW q, NEW o, NEW u, NEW row, WritesMember(q, o, u, row)
    PROVE  OrgInv'
<1> USE DEF WritesMember
<1> PICK r : r = NoOrgRequest
  OBVIOUS
<1>1. OrganizationsTypeOK
  BY DEF OrgInv
<1>2. /\ member' \in [Orgs -> [Users -> MemberRow]] /\ member'[o][u] = row
      /\ \A a \in Orgs, v \in Users : a # o \/ v # u => member'[a][v] = member[a][v]
  BY <1>1, MemberWritten
<1>3. \A a \in Orgs, v \in Users : member[a][v] = NoMember => member'[a][v] = NoMember
  BY <1>2
<1>4. \A a \in Orgs : Founded(a) => member'[a][founder[a]].role = "OWNER"
  <2>1. \A a \in Orgs : Founded(a) => founder[a] \in Users
    BY <1>1, OrgFacts DEF Founded
  <2> QED BY <1>2, <2>1 DEF Founded
<1>5. OrgRequestStands(orgReq[q])'
  BY DEF OrgMoves, OrgRequestStands
<1>6. ASSUME NEW v \in Users \ hurried
      PROVE  \/ Defaults(v)' \subseteq Defaults(v)
             \/ OwnMove(orgReq[q], v) /\ \A a, b \in Defaults(v)' : a = b
  <2>1. CASE v # u
    BY <1>2, <2>1 DEF Defaults
  <2>2. CASE v = u /\ (row.default = TRUE => member[o][u].default = TRUE)
    <3>1. row.default \in BOOLEAN /\ member[o][u].default \in BOOLEAN
      BY <1>1, OrgFacts, RowDefault
    <3> QED BY <1>2, <2>2, <3>1 DEF Defaults
  <2>3. CASE v = u /\ orgReq[q].pc = "cleared" /\ OwnMove(orgReq[q], u)
    <3>1. Defaults(v) = {}
      BY <2>3 DEF OrgInv, DefaultsKept, SettledKept, Settled
    <3>2. Defaults(v)' \subseteq {o}
      BY <1>2, <2>3, <3>1 DEF Defaults
    <3> QED BY <2>3, <3>2
  <2> QED BY <2>1, <2>2, <2>3
<1>7. \A v : ~OwnMove(r, v)
  BY DEF OwnMove
<1>8. OrgChanges(q, r)
  BY <1>2, <1>3, <1>4, <1>5, <1>6, <1>7 DEF OrgChanges
<1> QED BY <1>8, OrgChangesStep

\* What an administrator's request has loaded.
LEMMA LoadedRow ==
    ASSUME OrgInv, NEW q \in OrgRequests, orgReq[q] # NoOrgRequest, orgReq[q].kind \in Administering
    PROVE  /\ orgReq[q] \in OrgRequest /\ orgReq[q].org \in Orgs /\ orgReq[q].user \in Users
           /\ ~orgReq[q].lost =>
                /\ member[orgReq[q].org][orgReq[q].user] \in OrganizationMember
                /\ member[orgReq[q].org][orgReq[q].user] # NoMember
           /\ ~orgReq[q].lost /\ orgReq[q].kind \in {"role", "remove"} /\ Founded(orgReq[q].org) =>
                founder[orgReq[q].org] # orgReq[q].user
<1>1. orgReq[q] \in OrgRequest /\ OrganizationsTypeOK /\ OrgRequestStands(orgReq[q])
  BY OrgFacts DEF OrgInv, OrgRequestsStand
<1> PICK o \in Orgs, u \in Users : o = orgReq[q].org /\ u = orgReq[q].user
  BY <1>1 DEF OrgRequest
<1>2. ~orgReq[q].lost => member[o][u] # NoMember
  BY <1>1 DEF OrgRequestStands, Members
<1>3. member[o][u] \in MemberRow
  BY <1>1, OrgFacts
<1>4. ~orgReq[q].lost /\ orgReq[q].kind \in {"role", "remove"} => Manages(orgReq[q], o, u)
  BY DEF Manages
<1>5. Founded(o) => ~Manages(orgReq[q], o, founder[o])
  BY DEF Founded
<1> QED BY <1>1, <1>2, <1>3, <1>4, <1>5 DEF MemberRow

LEMMA SetDefaultStep == ASSUME OrgInv, NEW q \in OrgRequests, SetDefault(q) PROVE OrgInv'
<1>1. orgReq[q] # NoOrgRequest /\ orgReq[q].kind = "switch" /\ orgReq[q].pc = "cleared"
  BY OrgFacts DEF OrgInv, SetDefault, OrgAt
<1>2. CASE orgReq[q].lost
  BY <1>1, <1>2, OrgLeavesStep DEF SetDefault
<1>3. CASE ~orgReq[q].lost
  <2> PICK o \in Orgs, u \in Users : o = orgReq[q].org /\ u = orgReq[q].user
    BY <1>1, LoadedRow DEF Administering
  <2> PICK old \in OrganizationMember : old = member[o][u] /\ member[o][u] # NoMember
    BY <1>1, <1>3, LoadedRow DEF Administering
  <2> PICK row \in OrganizationMember : row = [old EXCEPT !.default = TRUE]
    BY DEF OrganizationMember
  <2>0. o \in Orgs /\ u \in Users
    OBVIOUS
  <2>1. row.role = old.role
    BY DEF OrganizationMember
  <2>2. SetMember(o, u, row)
    BY <1>3, OrgFacts DEF SetDefault, SetMember, OrgInv
  <2>3. OrgMoves(q, NoOrgRequest) /\ Alone1(q)
    BY OrgGoesOn DEF SetDefault, OrgLeave, OrgRow, OrgInv
  <2>4. row # NoMember /\ row \in MemberRow /\ OrganizationsTypeOK
    BY OrgFacts DEF OrgInv, MemberRow
  <2>5. /\ member'[o][u] = row
         /\ \A a \in Orgs, v \in Users : a # o \/ v # u => member'[a][v] = member[a][v]
    BY ONLY <2>0, <2>2, <2>4, MemberWritten
  <2>6. \A a \in Orgs, v \in Users : member[a][v] # NoMember => member'[a][v] # NoMember
    BY <2>4, <2>5
  <2>7. UNCHANGED <<founder, invite, crowded, hurried>>
    BY DEF SetDefault
  <2>8. OrgRowsStand(q)
    BY <2>3, <2>6, <2>7, OrgRowsStay
  <2>9. OwnMove(orgReq[q], u)
    BY <1>1 DEF OwnMove
  <2>10. WritesMember(q, o, u, row)
    BY <1>1, <2>1, <2>2, <2>3, <2>4, <2>7, <2>8, <2>9 DEF WritesMember, Administering, Founded
  <2> QED BY <2>10, WritesMemberStep
<1> QED BY <1>2, <1>3

LEMMA UpdateRoleStep ==
    ASSUME OrgInv, NEW q \in OrgRequests, NEW role \in Roles, UpdateRole(q, role)
    PROVE  OrgInv'
<1>1. orgReq[q] # NoOrgRequest /\ orgReq[q].kind = "role" /\ orgReq[q].pc = "loaded"
  BY OrgFacts DEF OrgInv, UpdateRole, OrgAt
<1>2. CASE orgReq[q].lost \/ orgReq[q].loaded = role
  BY <1>1, <1>2, OrgLeavesStep DEF UpdateRole
<1>3. CASE ~(orgReq[q].lost \/ orgReq[q].loaded = role)
  <2> PICK o \in Orgs, u \in Users : o = orgReq[q].org /\ u = orgReq[q].user
    BY <1>1, LoadedRow DEF Administering
  <2>1. Founded(o) => founder[o] # u
    BY <1>1, <1>3, LoadedRow DEF Administering
  <2> PICK old \in OrganizationMember : old = member[o][u] /\ member[o][u] # NoMember
    BY <1>1, <1>3, LoadedRow DEF Administering
  <2> PICK row \in OrganizationMember : row = [old EXCEPT !.role = role]
    BY OrganizationsAssumption DEF OrganizationMember
  <2>0. o \in Orgs /\ u \in Users
    OBVIOUS
  <2>2. row.default = old.default
    BY DEF OrganizationMember
  <2>3. SetMember(o, u, row)
    BY <1>3, OrgFacts DEF UpdateRole, SetMember, OrgInv
  <2>4. OrgMoves(q, NoOrgRequest) /\ Alone1(q)
    BY OrgGoesOn DEF UpdateRole, OrgLeave, OrgRow, OrgInv
  <2>5. row # NoMember /\ row \in MemberRow /\ OrganizationsTypeOK
    BY OrgFacts DEF OrgInv, MemberRow
  <2>6. /\ member'[o][u] = row
         /\ \A a \in Orgs, v \in Users : a # o \/ v # u => member'[a][v] = member[a][v]
    BY ONLY <2>0, <2>3, <2>5, MemberWritten
  <2>7. \A a \in Orgs, v \in Users : member[a][v] # NoMember => member'[a][v] # NoMember
    BY <2>5, <2>6
  <2>8. UNCHANGED <<founder, invite, crowded, hurried>>
    BY DEF UpdateRole
  <2>9. OrgRowsStand(q)
    BY <2>4, <2>7, <2>8, OrgRowsStay
  <2>10. WritesMember(q, o, u, row)
    BY <1>1, <2>1, <2>2, <2>3, <2>4, <2>5, <2>8, <2>9 DEF WritesMember, Administering
  <2> QED BY <2>10, WritesMemberStep
<1> QED BY <1>2, <1>3

LEMMA RemoveMemberStep == ASSUME OrgInv, NEW q \in OrgRequests, RemoveMember(q) PROVE OrgInv'
<1>1. orgReq[q] # NoOrgRequest /\ orgReq[q].kind = "remove" /\ orgReq[q].pc = "loaded"
      /\ orgReq \in [OrgRequests -> OrgRow]
  BY OrgFacts DEF OrgInv, RemoveMember, OrgAt
<1>2. CASE orgReq[q].lost
  <2>1. orgReq' = [p \in OrgRequests |-> IF p = q THEN NoOrgRequest ELSE orgReq[p]]
    BY <1>2 DEF RemoveMember
  <2>2. OrgLeave(q)
    BY <1>1, <2>1 DEF OrgLeave
  <2> QED BY <1>1, <1>2, <2>2, OrgLeavesStep DEF RemoveMember
<1>3. CASE ~orgReq[q].lost
  <2> PICK o \in Orgs, u \in Users : o = orgReq[q].org /\ u = orgReq[q].user
    BY <1>1, LoadedRow DEF Administering
  <2>1. (Founded(o) => founder[o] # u) /\ member[o][u] # NoMember
    BY <1>1, <1>3, LoadedRow DEF Administering
  <2> PICK row : row = NoMember
    OBVIOUS
  <2>2. SetMember(o, u, row) /\ UNCHANGED <<founder, invite, crowded, hurried>>
    BY <1>3 DEF RemoveMember
  <2> DEFINE loadedToo(p) == orgReq[p] # NoOrgRequest /\ orgReq[p].org = o /\ orgReq[p].user = u
                               /\ orgReq[p].kind \in {"switch", "role", "remove"}
  <2>3. ASSUME NEW p \in OrgRequests
        PROVE  /\ p = q => orgReq'[p] = NoOrgRequest
               /\ p # q /\ loadedToo(p) => orgReq'[p] = [orgReq[p] EXCEPT !.lost = TRUE]
               /\ p # q /\ ~loadedToo(p) => orgReq'[p] = orgReq[p]
    BY <1>3 DEF RemoveMember
  <2>4. ASSUME NEW p \in OrgRequests \ {q}
        PROVE  /\ OrgKeeps(orgReq'[p], orgReq[p])
               /\ loadedToo(p) => orgReq'[p].lost
    <3>1. CASE loadedToo(p)
      <4> PICK s \in OrgRequest : s = orgReq[p]
        BY <1>1, <3>1 DEF OrgRow
      <4> PICK t : t = [s EXCEPT !.lost = TRUE]
        OBVIOUS
      <4>1. /\ t \in OrgRequest /\ t.pc = s.pc /\ t.kind = s.kind /\ t.org = s.org /\ t.user = s.user
            /\ t.inv = s.inv /\ t.first = s.first /\ t.lost = TRUE
        BY DEF OrgRequest
      <4>2. t # NoOrgRequest
        BY <4>1, OrgFacts DEF OrgInv
      <4> QED BY <2>3, <3>1, <4>1, <4>2 DEF OrgKeeps, OrgRow
    <3>2. CASE ~loadedToo(p)
      BY <1>1, <2>3, <3>2 DEF OrgKeeps
    <3> QED BY <3>1, <3>2
  <2>5. OrgMoves(q, NoOrgRequest)
    <3>1. orgReq' = [p \in OrgRequests |-> orgReq'[p]]
      BY DEF RemoveMember
    <3>2. \A p \in OrgRequests : orgReq'[p] \in OrgRow
      BY <2>3, <2>4 DEF OrgKeeps, OrgRow
    <3>3. orgReq' \in [OrgRequests -> OrgRow]
      BY <3>1, <3>2
    <3> QED BY <2>3, <2>4, <3>3 DEF OrgMoves, OrgRow
  <2>6. /\ member'[o][u] = row /\ row \in MemberRow
        /\ \A a \in Orgs, v \in Users : a # o \/ v # u => member'[a][v] = member[a][v]
    BY <2>2, MemberWritten DEF OrgInv, MemberRow
  <2>7. OrgRowsStand(q)
    <3>1. ASSUME NEW p \in OrgRequests \ {q}, orgReq'[p] # NoOrgRequest,
                 orgReq'[p].kind \in Administering, ~orgReq'[p].lost
          PROVE  orgReq'[p] = orgReq[p] /\ ~(orgReq[p].org = o /\ orgReq[p].user = u)
      <4>1. ~loadedToo(p)
        BY <2>4, <3>1
      <4>2. orgReq'[p] = orgReq[p]
        BY <2>3, <4>1
      <4> QED BY <3>1, <4>1, <4>2 DEF Administering
    <3>2. \A p \in OrgRequests \ {q} :
              orgReq'[p] # NoOrgRequest /\ orgReq'[p].kind \in Administering /\ ~orgReq'[p].lost =>
                 orgReq'[p] = orgReq[p]
      BY <3>1
    <3>3. \A p \in OrgRequests \ {q}, a \in Orgs, v \in Users :
              orgReq'[p] # NoOrgRequest /\ orgReq'[p].kind \in Administering /\ ~orgReq'[p].lost
              /\ orgReq[p].org = a /\ orgReq[p].user = v /\ member[a][v] # NoMember =>
                 member'[a][v] # NoMember
      BY <2>6, <3>1
    <3> QED BY <2>2, <3>2, <3>3, OrgRowsStill
  <2>8. row.default = FALSE
    BY OrgFacts DEF OrgInv
  <2>9. WritesMember(q, o, u, row)
    BY <1>1, <2>1, <2>2, <2>5, <2>6, <2>7, <2>8 DEF WritesMember, Administering
  <2> QED BY <2>9, WritesMemberStep
<1> QED BY <1>2, <1>3


-----------------------------------------------------------------------------
LEMMA OrganizationsInitInv == OrganizationsInit => OrgInv
<1> SUFFICES ASSUME OrganizationsInit PROVE OrgInv
  OBVIOUS
<1> USE DEF OrganizationsInit
<1>1. /\ OrganizationsTypeOK
      /\ \A q \in OrgRequests : orgReq[q] = NoOrgRequest
      /\ \A o \in Orgs, u \in Users : member[o][u] = NoMember
      /\ DOMAIN invite = {}
  BY OrganizationsAssumption DEF OrganizationsTypeOK, OrganizationsAssumption
<1>2. \A q \in OrgRequests :
        /\ OrgRequestStands(orgReq[q]) /\ \A o : ~Creates(orgReq[q], o) /\ ~Counting(orgReq[q], o)
        /\ \A u : ~OwnMove(orgReq[q], u)
  BY <1>1 DEF OrgRequestStands, Creates, Counting, OrgAccepts, OwnMove
<1>3. \A o \in Orgs : Members(o) = {} /\ Bare(o)
  BY <1>1, <1>2 DEF Members, Bare
<1>4. RoomKept
  <2> HIDE DEF OrganizationsInit
  <2>1. \A o \in Orgs : IsFiniteSet(Members(o)) /\ Cardinality(Members(o)) = 0
    BY <1>3, FS_EmptySet
  <2>2. MemberLimit \in Nat \ {0}
    BY OrganizationsAssumption DEF OrganizationsAssumption
  <2> QED BY <1>2, <2>1, <2>2 DEF RoomKept
<1>5. AdmissionsKept
  BY <1>1 DEF AdmissionsKept
<1>6. \A u \in Users : Defaults(u) = {}
  BY <1>1, OrgFacts DEF Defaults
<1>7. DefaultsKept
  BY <1>2, <1>6 DEF DefaultsKept, SettledKept
<1> QED BY <1>1, <1>2, <1>3, <1>4, <1>5, <1>7 DEF OrgInv, OrgRequestsStand, FoundersKept

LEMMA OrganizationsNextInv == OrgInv /\ [OrganizationsNext]_orgVars => OrgInv'
<1> SUFFICES ASSUME OrgInv, [OrganizationsNext]_orgVars PROVE OrgInv'
  OBVIOUS
<1>1. CASE UNCHANGED orgVars
  <2>1. UNCHANGED <<founder, member, invite, orgReq, crowded, hurried>>
    BY <1>1 DEF orgVars
  <2>2. OrganizationsTypeOK' /\ OrgRequestsStand'
    BY <2>1 DEF OrgInv, OrganizationsTypeOK, OrgRequestsStand, OrgRequestStands, Members
  <2>3. FoundersKept' /\ RoomKept'
    BY <2>1 DEF OrgInv, FoundersKept, Bare, Founded, RoomKept, Members
  <2>4. AdmissionsKept' /\ DefaultsKept'
    BY <2>1 DEF OrgInv, AdmissionsKept, AdmitsOne, DefaultsKept, SettledKept, Defaults
  <2> QED BY <2>2, <2>3, <2>4 DEF OrgInv
<1>2. CASE OrganizationsNext
  <2>1. ASSUME NEW q \in OrgRequests, NEW o \in Orgs, NEW u \in Users,
               \/ SaveOrganization(q, o, u) \/ LoadOwn(q, o, u)
               \/ \E kind \in {"role", "remove"} : LoadMember(q, kind, o, u)
        PROVE  OrgInv'
    BY <2>1, SaveOrganizationStep, LoadOwnStep, LoadMemberStep
  <2>2. ASSUME NEW q \in OrgRequests, NEW u \in Users, NEW i \in DOMAIN invite, FindInvite(q, u, i)
        PROVE  OrgInv'
    BY <2>2, FindInviteStep
  <2>3. ASSUME NEW q \in OrgRequests,
               \/ ListFirst(q) \/ TestRoom(q) \/ Join(q) \/ MarkInvite(q) \/ ClearDefault(q)
               \/ SetDefault(q) \/ (\E role \in Roles : UpdateRole(q, role))
               \/ RemoveMember(q) \/ OrgRequestDies(q)
        PROVE  OrgInv'
    BY <2>3, ListFirstStep, TestRoomStep, JoinStep, MarkInviteStep, ClearDefaultStep, SetDefaultStep,
       UpdateRoleStep, RemoveMemberStep, OrgRequestDiesStep
  <2>4. ASSUME NEW o \in Orgs, NEW role \in Roles, Invite(o, role) PROVE OrgInv'
    BY <2>4, InviteStep
  <2>5. ASSUME NEW i \in DOMAIN invite, RevokeInvite(i) PROVE OrgInv'
    BY <2>5, RevokeInviteStep
  <2> QED BY <1>2, <2>1, <2>2, <2>3, <2>4, <2>5 DEF OrganizationsNext
<1> QED BY <1>1, <1>2

\* The founder's row: it is written by him, or by a request that is not about it.
OwnerStays == \A o \in Orgs, u \in Users :
    founder[o] = u /\ member[o][u].role = "OWNER" => member'[o][u].role = "OWNER"

LEMMA OwnerFounded ==
    ASSUME OrgInv, NEW o \in Orgs, NEW u \in Users, founder[o] = u, member[o][u].role = "OWNER"
    PROVE  Founded(o) /\ member[o][u] # NoMember
<1>1. member[o][u] # NoMember
  BY OrgFacts DEF OrgInv
<1>2. ~Bare(o)
  BY <1>1 DEF Bare, Members
<1> QED BY <1>1, <1>2 DEF OrgInv, FoundersKept

LEMMA OwnerOfWrite ==
    ASSUME OrgInv, NEW q \in OrgRequests, ClearDefault(q) \/ SetDefault(q) \/ RemoveMember(q)
           \/ \E role \in Roles : UpdateRole(q, role)
    PROVE  OwnerStays
<1> SUFFICES ASSUME NEW o \in Orgs, NEW u \in Users, founder[o] = u, member[o][u].role = "OWNER"
             PROVE  member'[o][u].role = "OWNER"
  BY DEF OwnerStays
<1>1. orgReq[q] # NoOrgRequest /\ orgReq[q].kind \in Administering
  BY OrgFacts DEF OrgInv, ClearDefault, SetDefault, RemoveMember, UpdateRole, OrgAt, Administering
<1> PICK a \in Orgs, v \in Users : a = orgReq[q].org /\ v = orgReq[q].user
  BY <1>1, LoadedRow
<1> PICK row \in MemberRow : row = member[o][u] /\ row.role = "OWNER"
  BY OrgFacts DEF OrgInv
<1>2. Founded(o) /\ row \in OrganizationMember /\ member \in [Orgs -> [Users -> MemberRow]]
  BY OwnerFounded, OrgFacts DEF MemberRow, OrgInv
<1>3. ~orgReq[q].lost /\ orgReq[q].kind \in {"role", "remove"} => ~(a = o /\ v = u)
  BY <1>1, <1>2, LoadedRow
<1>4. CASE ClearDefault(q)
  <2>1. member'[o][u] = row \/ member'[o][u] = [row EXCEPT !.default = FALSE]
    BY <1>2, <1>4 DEF ClearDefault, Cleared
  <2> QED BY <1>2, <2>1 DEF OrganizationMember
<1>5. CASE SetDefault(q)
  <2>1. member'[o][u] = row \/ member'[o][u] = [row EXCEPT !.default = TRUE]
    <3>1. CASE orgReq[q].lost
      BY <1>5, <3>1 DEF SetDefault
    <3>2. CASE ~orgReq[q].lost
      <4>1. member' = [member EXCEPT ![a][v].default = TRUE]
        BY <1>5, <3>2 DEF SetDefault
      <4> QED BY <1>2, <4>1
    <3> QED BY <3>1, <3>2
  <2> QED BY <1>2, <2>1 DEF OrganizationMember
<1>6. CASE RemoveMember(q)
  <2>1. member'[o][u] = row
    BY <1>1, <1>2, <1>3, <1>6 DEF RemoveMember, SetMember, OrgAt
  <2> QED BY <2>1
<1>7. ASSUME NEW role \in Roles, UpdateRole(q, role) PROVE member'[o][u].role = "OWNER"
  <2>1. member'[o][u] = row
    BY <1>1, <1>2, <1>3, <1>7 DEF UpdateRole, OrgAt
  <2> QED BY <2>1
<1> QED BY <1>4, <1>5, <1>6, <1>7

LEMMA OwnerOfJoin == ASSUME OrgInv, NEW q \in OrgRequests, Join(q) PROVE OwnerStays
<1> SUFFICES ASSUME NEW o \in Orgs, NEW u \in Users, founder[o] = u, member[o][u].role = "OWNER"
             PROVE  member'[o][u].role = "OWNER"
  BY DEF OwnerStays
<1>1. u \in Members(o) /\ member \in [Orgs -> [Users -> MemberRow]]
  BY OwnerFounded, OrgFacts DEF Members, OrgInv
<1>2. orgReq[q] # NoOrgRequest /\ orgReq[q] \in OrgRequest
  BY OrgFacts DEF OrgInv, Join
<1> PICK a \in Orgs, v \in Users : a = orgReq[q].org /\ v = orgReq[q].user
  BY <1>2 DEF OrgRequest
<1>3. CASE v \in Members(a)
  BY <1>3 DEF Join
<1>4. CASE v \notin Members(a)
  <2>1. a # o \/ v # u
    BY <1>1, <1>4
  <2>2. \E row : member' = [member EXCEPT ![a][v] = row]
    BY <1>4 DEF Join, SetMember
  <2>3. member'[o][u] = member[o][u]
    BY <1>1, <2>1, <2>2
  <2> QED BY <2>3
<1> QED BY <1>3, <1>4

LEMMA OwnerSteps == OrgInv /\ OrganizationsNext => OwnerStays
<1> SUFFICES ASSUME OrgInv, OrganizationsNext PROVE OwnerStays
  OBVIOUS
<1>1. CASE UNCHANGED member
  BY <1>1 DEF OwnerStays
<1>2. \/ UNCHANGED member
      \/ \E q \in OrgRequests : Join(q)
      \/ \E q \in OrgRequests : ClearDefault(q) \/ SetDefault(q) \/ RemoveMember(q)
                                \/ \E role \in Roles : UpdateRole(q, role)
  BY DEF OrganizationsNext, Invite, RevokeInvite, SaveOrganization, LoadOwn, LoadMember, FindInvite,
         ListFirst, TestRoom, MarkInvite, OrgRequestDies
<1> QED BY <1>1, <1>2, OwnerOfWrite, OwnerOfJoin

LEMMA OrgInvKept == OrgInv => LimitKept /\ OneDefault /\ InviteAdmitsOne
<1> SUFFICES ASSUME OrgInv PROVE LimitKept /\ OneDefault /\ InviteAdmitsOne
  OBVIOUS
<1>1. LimitKept
  BY DEF OrgInv, RoomKept, LimitKept
<1>2. OneDefault
  <2> SUFFICES ASSUME NEW u \in Users \ hurried PROVE Cardinality(Defaults(u)) <= 1
    BY DEF OneDefault, Defaults
  <2>1. \A a, b \in Defaults(u) : a = b
    BY DEF OrgInv, DefaultsKept, SettledKept
  <2>2. CASE Defaults(u) = {}
    BY <2>2, FS_EmptySet
  <2>3. CASE Defaults(u) # {}
    <3> PICK a : Defaults(u) = {a}
      BY <2>1, <2>3
    <3> QED BY FS_Singleton
  <2> QED BY <2>2, <2>3
<1>3. InviteAdmitsOne
  BY DEF OrgInv, AdmissionsKept, AdmitsOne, InviteAdmitsOne
<1> QED BY <1>1, <1>2, <1>3

\* create, accept_invitation, switch, update_role and remove_member of organizations: the
\* founder stays an owner; the limit, the single default and the single use of an
\* invitation hold as far as no two requests were between a test and its write.
THEOREM OrganizationsWhole ==
    OrganizationsInit /\ [][OrganizationsNext]_orgVars => OrganizationsKept
<1>1. OrgInv /\ [OrganizationsNext]_orgVars =>
        [\A o \in Orgs, u \in Users :
            founder[o] = u /\ member[o][u].role = "OWNER" => member'[o][u].role = "OWNER"]_orgVars
  BY OwnerSteps DEF OwnerStays
<1> QED BY <1>1, OrganizationsInitInv, OrganizationsNextInv, OrgInvKept, PTL
        DEF OrganizationsKept, FounderStays

-----------------------------------------------------------------------------
(***************************************************************************)
(* Role inheritance                                                        *)
(***************************************************************************)
RoleRow == {NoRoleRequest} \cup RoleRequest
Above(edges, r) == {e[2] : e \in {d \in edges : d[1] = r}}
Hierarchy(edges) == \A r \in RoleIds : r \notin Reach(edges, Above(edges, r))

\* The roles of result have been read, and what they led to is there or is pending.
Followed(edges, result, pending) ==
    \A d \in edges : d[1] \in result => d[2] \in result \cup pending

\* What a walk has to say of the edges it goes along, and a change of the parents it has
\* validated, unless another change overlapped.
WalkStands(w) ==
    w.pc = "walking" =>
        /\ w.reads = Cardinality(w.result) /\ w.pending \cap w.result = {}
        /\ w.from \subseteq w.result \cup w.pending
CheckStands(w, edges) ==
    w.role = 0 /\ w.pc = "walking" =>
        /\ w.always \subseteq edges /\ edges \subseteq w.ever
        /\ Followed(w.always, w.result, w.pending)
        /\ w.result \cup w.pending \subseteq Reach(w.ever, w.from)
ChangeStands(w, edges, mixed) ==
    w.role # 0 =>
        /\ w.role \notin w.wanted
        /\ w.pc = "checking" => w.from = {}
        /\ ~mixed =>
            /\ w.pc = "walking" => Followed(edges, w.result, w.pending)
            /\ \A p \in w.wanted \ (w.left \cup w.from) : w.role \notin Reach(edges, {p})
RoleStands(w, edges, mixed) ==
    w # NoRoleRequest => WalkStands(w) /\ CheckStands(w, edges) /\ ChangeStands(w, edges, mixed)

Changing(w) == w # NoRoleRequest /\ w.role # 0
RolesInv ==
    /\ RolesTypeOK
    /\ ~tangled => Hierarchy(parents)
    /\ \A q \in RoleRequests : RoleStands(roleReq[q], parents, tangled)
    /\ ~tangled => \A p, q \in RoleRequests : Changing(roleReq[p]) /\ Changing(roleReq[q]) => p = q

-----------------------------------------------------------------------------
\* Reach is a closure.
LEMMA ReachHolds ==
    ASSUME NEW edges \in SUBSET Edge, NEW s \in SUBSET RoleIds
    PROVE  /\ Reach(edges, s) \subseteq RoleIds /\ s \subseteq Reach(edges, s)
           /\ LeadsWithin(edges, Reach(edges, s))
<1>1. Reach(edges, s) \subseteq RoleIds /\ s \subseteq Reach(edges, s)
  BY DEF Reach
<1>2. ASSUME NEW d \in edges, d[1] \in Reach(edges, s) PROVE d[2] \in Reach(edges, s)
  <2>1. d[2] \in RoleIds
    BY DEF Edge
  <2>2. ASSUME NEW c \in SUBSET RoleIds, s \subseteq c, LeadsWithin(edges, c) PROVE d[2] \in c
    <3>1. d[1] \in c
      BY <1>2, <2>2 DEF Reach
    <3> QED BY <2>2, <3>1 DEF LeadsWithin
  <2> QED BY <2>1, <2>2 DEF Reach
<1> QED BY <1>1, <1>2 DEF LeadsWithin

LEMMA ReachLeast ==
    ASSUME NEW edges, NEW s, NEW c \in SUBSET RoleIds, s \subseteq c, LeadsWithin(edges, c)
    PROVE  Reach(edges, s) \subseteq c
BY DEF Reach

LEMMA ReachGrows ==
    ASSUME NEW edges, NEW more, edges \subseteq more, NEW s
    PROVE  Reach(edges, s) \subseteq Reach(more, s)
<1>1. \A c : LeadsWithin(more, c) => LeadsWithin(edges, c)
  BY DEF LeadsWithin
<1> QED BY <1>1 DEF Reach

LEMMA FewerEdges ==
    ASSUME NEW edges \in SUBSET Edge, NEW fewer \in SUBSET edges, Hierarchy(edges)
    PROVE  Hierarchy(fewer)
<1> SUFFICES ASSUME NEW r \in RoleIds PROVE r \notin Reach(fewer, Above(fewer, r))
  BY DEF Hierarchy
<1> PICK S : S = Above(edges, r)
  OBVIOUS
<1>1. Above(fewer, r) \subseteq S /\ S \in SUBSET RoleIds
  BY DEF Above, Edge
<1>2. LeadsWithin(fewer, Reach(edges, S)) /\ Reach(edges, S) \in SUBSET RoleIds
      /\ S \subseteq Reach(edges, S)
  BY <1>1, ReachHolds DEF LeadsWithin
<1>3. Reach(fewer, Above(fewer, r)) \subseteq Reach(edges, S)
  BY <1>1, <1>2, ReachLeast
<1> QED BY <1>3 DEF Hierarchy

\* Giving a role parents from which it cannot be reached closes no cycle.
LEMMA StaysHierarchy ==
    ASSUME NEW edges \in SUBSET Edge, Hierarchy(edges), NEW role \in RoleIds, NEW wanted \in SUBSET RoleIds,
           role \notin wanted, \A p \in wanted : role \notin Reach(edges, {p}),
           NEW new, new = {d \in edges : d[1] # role} \cup ({role} \X wanted)
    PROVE  Hierarchy(new)
<1> PICK B : B = {x \in RoleIds : \E p \in wanted : x \in Reach(edges, {p})}
  OBVIOUS
<1>1. B \in SUBSET RoleIds /\ wanted \subseteq B /\ LeadsWithin(edges, B) /\ role \notin B
  <2>1. ASSUME NEW p \in wanted
        PROVE  /\ p \in Reach(edges, {p}) /\ LeadsWithin(edges, Reach(edges, {p}))
               /\ Reach(edges, {p}) \subseteq RoleIds
    <3>1. {p} \in SUBSET RoleIds
      OBVIOUS
    <3> QED BY <3>1, ReachHolds
  <2>2. LeadsWithin(edges, B)
    BY <2>1 DEF LeadsWithin
  <2> QED BY <2>1, <2>2
<1> SUFFICES ASSUME NEW r \in RoleIds PROVE r \notin Reach(new, Above(new, r))
  BY DEF Hierarchy
<1>2. CASE r = role
  <2>1. Above(new, r) \subseteq B
    <3>1. \A d \in new : d[1] = r => d[2] \in wanted
      BY <1>2
    <3> QED BY <1>1, <3>1 DEF Above
  <2>2. LeadsWithin(new, B)
    BY <1>1 DEF LeadsWithin
  <2>3. Reach(new, Above(new, r)) \subseteq B
    <3>1. B \in SUBSET RoleIds
      BY <1>1
    <3> QED BY <2>1, <2>2, <3>1, ReachLeast
  <2> QED BY <1>1, <1>2, <2>3
<1>3. CASE r # role
  <2> PICK S : S = Above(edges, r)
    OBVIOUS
  <2> PICK A : A = Reach(edges, S)
    OBVIOUS
  <2>1. S \in SUBSET RoleIds /\ Above(new, r) \subseteq S
    <3>1. \A d \in new : d[1] = r => d \in edges
      BY <1>3
    <3> QED BY <3>1 DEF Above, Edge
  <2>2. A \in SUBSET RoleIds /\ S \subseteq A /\ LeadsWithin(edges, A) /\ r \notin A
    BY <2>1, ReachHolds DEF Hierarchy
  <2>3. CASE role \notin A
    <3>1. LeadsWithin(new, A)
      BY <2>2, <2>3 DEF LeadsWithin
    <3>2. Reach(new, Above(new, r)) \subseteq A
      BY <2>1, <2>2, <3>1, ReachLeast
    <3> QED BY <2>2, <3>2
  <2>4. CASE role \in A
    <3>1. r \notin B
      <4> SUFFICES ASSUME NEW p \in wanted, r \in Reach(edges, {p}) PROVE FALSE
        OBVIOUS
      <4>1. Reach(edges, {p}) \in SUBSET RoleIds /\ LeadsWithin(edges, Reach(edges, {p}))
        BY ReachHolds
      <4>2. S \subseteq Reach(edges, {p})
        BY <4>1 DEF LeadsWithin, Above
      <4>3. A \subseteq Reach(edges, {p})
        BY <4>1, <4>2, ReachLeast
      <4> QED BY <2>4, <4>3
    <3>2. LeadsWithin(new, A \cup B)
      BY <1>1, <2>2 DEF LeadsWithin
    <3>3. Reach(new, Above(new, r)) \subseteq A \cup B
      <4>1. A \cup B \in SUBSET RoleIds /\ Above(new, r) \subseteq A \cup B
        BY <1>1, <2>1, <2>2
      <4> QED BY <3>2, <4>1, ReachLeast
    <3> QED BY <2>2, <3>1, <3>3
  <2> QED BY <2>3, <2>4
<1> QED BY <1>2, <1>3


-----------------------------------------------------------------------------
LEMMA RoleFacts ==
    ASSUME RolesTypeOK
    PROVE  /\ roleReq \in [RoleRequests -> RoleRow] /\ NoRoleRequest \notin RoleRequest
           /\ NoRoleRequest.pc = "idle"
           /\ \A q \in RoleRequests : roleReq[q] # NoRoleRequest => roleReq[q] \in RoleRequest
           /\ parents \in SUBSET Edge /\ roles \in SUBSET RoleIds
           /\ IsFiniteSet(RoleIds) /\ Cardinality(RoleIds) = MaxRoles /\ MaxRoles \in Nat \ {0}
           /\ lastRole \in 0..MaxRoles /\ MaxEdits \in Nat
           /\ \A r : ParentIds(r) = Above(parents, r)
<1>1. NoRoleRequest \notin RoleRequest /\ NoRoleRequest.pc = "idle"
  BY DEF NoRoleRequest, RoleRequest
<1>2. MaxRoles \in Nat \ {0} /\ MaxEdits \in Nat
  BY RoleGraphAssumption DEF RoleGraphAssumption
<1>3. IsFiniteSet(RoleIds) /\ Cardinality(RoleIds) = MaxRoles
  BY <1>2, FS_Interval DEF RoleIds
<1>4. lastRole \in 0..MaxRoles /\ roles \in SUBSET RoleIds
  BY <1>2 DEF RolesTypeOK, RoleIds
<1>5. parents \in SUBSET Edge
  BY <1>4 DEF RolesTypeOK, Edge
<1> QED BY <1>1, <1>2, <1>3, <1>4, <1>5 DEF RolesTypeOK, RoleRow, ParentIds, Above

LEMMA RoleResults ==
    ASSUME NEW w \in RoleRequest
    PROVE  /\ w.role \in 0..MaxRoles /\ w.wanted \in SUBSET RoleIds /\ w.left \in SUBSET RoleIds
           /\ w.result \in SUBSET RoleIds /\ w.pending \in SUBSET RoleIds /\ w.from \in SUBSET RoleIds
           /\ w.ever \in SUBSET Edge /\ w.always \in SUBSET Edge /\ w.reads \in 0..MaxRoles
           /\ w.pc \in {"checking", "walking"}
BY DEF RoleRequest

\* One request goes on, and leaves roles and edges alone.
LEMMA RoleMoves ==
    ASSUME RolesInv, NEW q \in RoleRequests, NEW w \in RoleRow, roleReq' = [roleReq EXCEPT ![q] = w],
           RoleStands(w, parents, tangled'), UNCHANGED <<parents, edits>>,
           roles \subseteq roles', roles' \subseteq 1..lastRole', lastRole' \in 0..MaxRoles,
           tangled' \in BOOLEAN, tangled => tangled',
           Changing(w) /\ ~tangled' =>
              \/ Changing(roleReq[q])
              \/ \A p \in RoleRequests : ~Changing(roleReq[p])
    PROVE  RolesInv'
<1>1. roleReq \in [RoleRequests -> RoleRow]
  BY RoleFacts DEF RolesInv
<1>2. roleReq' \in [RoleRequests -> RoleRow] /\ roleReq'[q] = w
      /\ \A p \in RoleRequests \ {q} : roleReq'[p] = roleReq[p]
  BY <1>1
<1>3. RolesTypeOK'
  BY <1>2 DEF RolesInv, RolesTypeOK, RoleRow
<1>4. ASSUME NEW p \in RoleRequests PROVE RoleStands(roleReq'[p], parents, tangled')
  <2>1. CASE p = q
    BY <1>2, <2>1
  <2>2. CASE p # q
    <3>1. RoleStands(roleReq[p], parents, tangled)
      BY DEF RolesInv
    <3> QED BY <1>2, <2>2, <3>1 DEF RoleStands, ChangeStands
  <2> QED BY <2>1, <2>2
<1>5. ~tangled' => \A p, s \in RoleRequests : Changing(roleReq'[p]) /\ Changing(roleReq'[s]) => p = s
  BY <1>2 DEF RolesInv
<1> QED BY <1>3, <1>4, <1>5 DEF RolesInv

\* Walks that begin.
Begins(w, role, wanted, left, from) ==
    /\ w \in RoleRequest /\ w # NoRoleRequest
    /\ w.pc = (IF from = {} THEN "checking" ELSE "walking") /\ w.role = role /\ w.wanted = wanted
    /\ w.left = left /\ w.result = {} /\ w.pending = from /\ w.reads = 0 /\ w.from = from
    /\ role = 0 => w.ever = parents /\ w.always = parents

LEMMA WalkBegins ==
    ASSUME RolesTypeOK, NEW role \in 0..MaxRoles, NEW wanted \in SUBSET RoleIds,
           NEW left \in SUBSET RoleIds, NEW from \in SUBSET RoleIds
    PROVE  Begins(Walk(role, wanted, left, from), role, wanted, left, from)
<1> PICK w : w = Walk(role, wanted, left, from)
  OBVIOUS
<1> PICK edges : edges = IF role = 0 THEN parents ELSE {}
  OBVIOUS
<1>1. edges \in SUBSET Edge
  BY RoleFacts
<1> PICK pc : pc = IF from = {} THEN "checking" ELSE "walking"
  OBVIOUS
<1>2. w = [pc |-> pc, role |-> role, wanted |-> wanted, left |-> left, result |-> {}, pending |-> from,
           reads |-> 0, from |-> from, ever |-> edges, always |-> edges]
  BY DEF Walk
<1>3. w \in RoleRequest
  BY <1>1, <1>2, RoleGraphAssumption DEF RoleRequest, RoleGraphAssumption
<1>4. w # NoRoleRequest
  BY <1>3, RoleFacts
<1> QED BY <1>2, <1>3, <1>4 DEF Begins

LEMMA WalkBegun ==
    ASSUME RolesTypeOK, NEW w \in RoleRequest, w.result = {}, w.reads = 0, w.pending = w.from
    PROVE  /\ WalkStands(w)
           /\ w.role = 0 /\ w.ever = parents /\ w.always = parents => CheckStands(w, parents)
           /\ Followed(parents, w.result, w.pending)
<1>1. WalkStands(w)
  BY FS_EmptySet DEF WalkStands
<1>2. Followed(parents, w.result, w.pending)
  BY DEF Followed
<1>3. w.from \in SUBSET RoleIds /\ parents \in SUBSET Edge
  BY RoleResults, RoleFacts
<1>4. w.from \subseteq Reach(parents, w.from)
  BY <1>3, ReachHolds
<1> QED BY <1>1, <1>2, <1>4 DEF CheckStands

LEMMA ChangeKeeps ==
    ASSUME RolesInv, NEW q \in RoleRequests, NEW r \in RoleIds, NEW wanted \in SUBSET RoleIds,
           Change(q, r, wanted), UNCHANGED <<parents, edits>>,
           roles \subseteq roles', roles' \subseteq 1..lastRole', lastRole' \in 0..MaxRoles
    PROVE  RolesInv'
<1> PICK from \in SUBSET RoleIds : from = {}
  OBVIOUS
<1> PICK w : w = Walk(r, wanted, wanted, from)
  OBVIOUS
<1>1. RolesTypeOK /\ r \in 0..MaxRoles /\ r # 0
  BY DEF RolesInv, RoleIds
<1>2. /\ w \in RoleRequest /\ w # NoRoleRequest /\ w.pc = "checking" /\ w.role = r
      /\ w.wanted = wanted /\ w.left = wanted /\ w.from = {}
  <2>1. Begins(w, r, wanted, wanted, from)
    BY <1>1, WalkBegins
  <2> QED BY <2>1 DEF Begins
<1>3. RoleStands(w, parents, tangled')
  BY <1>1, <1>2 DEF Change, RoleStands, WalkStands, CheckStands, ChangeStands
<1>4. \A p \in RoleRequests : Changing(roleReq[p]) => tangled'
  BY DEF Change, Changing
<1>5. /\ tangled' \in BOOLEAN /\ (tangled => tangled') /\ roleReq' = [roleReq EXCEPT ![q] = w]
  BY DEF Change, RolesInv, RolesTypeOK
<1> QED BY <1>2, <1>3, <1>4, <1>5, RoleMoves DEF RoleRow

LEMMA CreateRoleKeeps ==
    ASSUME RolesInv, NEW q \in RoleRequests, NEW wanted \in SUBSET RoleIds, CreateRole(q, wanted)
    PROVE  RolesInv'
<1>1. lastRole \in 0..MaxRoles /\ roles \subseteq 1..lastRole /\ MaxRoles \in Nat
  BY RoleFacts DEF RolesInv, RolesTypeOK
<1>2. lastRole' = lastRole + 1 /\ lastRole < MaxRoles /\ roles' = roles \cup {lastRole'}
  BY DEF CreateRole
<1> PICK r : r = lastRole'
  OBVIOUS
<1>3. r \in RoleIds /\ lastRole' \in 0..MaxRoles /\ roles' \subseteq 1..lastRole'
  BY <1>1, <1>2 DEF RoleIds
<1>4. Change(q, r, wanted) /\ UNCHANGED <<parents, edits>> /\ roles \subseteq roles'
  BY <1>2 DEF CreateRole, Change
<1> QED BY <1>3, <1>4, ChangeKeeps

LEMMA EditRoleKeeps ==
    ASSUME RolesInv, NEW q \in RoleRequests, NEW r \in RoleIds, NEW wanted \in SUBSET RoleIds,
           EditRole(q, r, wanted)
    PROVE  RolesInv'
<1>1. /\ Change(q, r, wanted) /\ UNCHANGED <<parents, edits>>
      /\ roles \subseteq roles' /\ roles' \subseteq 1..lastRole' /\ lastRole' \in 0..MaxRoles
  BY DEF EditRole, RolesInv, RolesTypeOK
<1> QED BY <1>1, ChangeKeeps

LEMMA CheckAccessKeeps ==
    ASSUME RolesInv, NEW q \in RoleRequests, NEW s \in SUBSET RoleIds, CheckAccess(q, s)
    PROVE  RolesInv'
<1> PICK none \in SUBSET RoleIds : none = {}
  OBVIOUS
<1> PICK w : w = Walk(0, none, none, s)
  OBVIOUS
<1>1. RolesTypeOK /\ 0 \in 0..MaxRoles /\ s # {}
  BY RoleGraphAssumption DEF RolesInv, RoleGraphAssumption, CheckAccess
<1>2. /\ w \in RoleRequest /\ w # NoRoleRequest /\ w.pc = "walking" /\ w.role = 0 /\ w.result = {}
      /\ w.reads = 0 /\ w.pending = w.from /\ w.ever = parents /\ w.always = parents
  <2>1. Begins(w, 0, none, none, s)
    BY <1>1, WalkBegins
  <2> QED BY <1>1, <2>1 DEF Begins
<1>3. RoleStands(w, parents, tangled')
  BY <1>1, <1>2, WalkBegun DEF RoleStands, ChangeStands
<1>4. /\ roleReq' = [roleReq EXCEPT ![q] = w] /\ ~Changing(w)
      /\ UNCHANGED <<parents, edits, roles, lastRole, tangled>>
  BY <1>2 DEF CheckAccess, Changing
<1>5. roles \subseteq roles' /\ roles' \subseteq 1..lastRole' /\ lastRole' \in 0..MaxRoles
      /\ tangled' \in BOOLEAN
  BY <1>4 DEF RolesInv, RolesTypeOK
<1> QED BY <1>2, <1>3, <1>4, <1>5, RoleMoves DEF RoleRow

\* A request that only goes on or leaves.
LEMMA RoleGoesOn ==
    ASSUME RolesInv, NEW q \in RoleRequests, NEW w \in RoleRow, roleReq' = [roleReq EXCEPT ![q] = w],
           UNCHANGED <<roles, lastRole, parents, tangled, edits>>,
           RoleStands(w, parents, tangled), Changing(w) => Changing(roleReq[q])
    PROVE  RolesInv'
<1>1. /\ roles \subseteq roles' /\ roles' \subseteq 1..lastRole' /\ lastRole' \in 0..MaxRoles
      /\ tangled' \in BOOLEAN /\ (tangled => tangled') /\ UNCHANGED <<parents, edits>>
      /\ RoleStands(w, parents, tangled')
  BY DEF RolesInv, RolesTypeOK
<1> QED BY <1>1, RoleMoves

LEMMA RoleLeaves ==
    ASSUME RolesInv, NEW q \in RoleRequests, roleReq' = [roleReq EXCEPT ![q] = NoRoleRequest],
           UNCHANGED <<roles, lastRole, parents, tangled, edits>>
    PROVE  RolesInv'
<1> PICK w : w = NoRoleRequest
  OBVIOUS
<1>1. w \in RoleRow /\ RoleStands(w, parents, tangled) /\ ~Changing(w)
  BY DEF RoleRow, RoleStands, Changing
<1> QED BY <1>1, RoleGoesOn


LEMMA ValidateParentKeeps ==
    ASSUME RolesInv, NEW q \in RoleRequests, NEW p \in RoleIds, ValidateParent(q, p)
    PROVE  RolesInv'
<1>1. /\ roleReq[q] # NoRoleRequest /\ roleReq[q] \in RoleRequest /\ roleReq[q].role # 0
      /\ roleReq[q].pc = "checking" /\ p \in roleReq[q].left /\ RolesTypeOK
      /\ RoleStands(roleReq[q], parents, tangled)
  BY RoleFacts DEF RolesInv, ValidateParent
<1> PICK v \in RoleRequest : v = roleReq[q]
  BY <1>1
<1>2. CASE p \notin roles
  <2>1. roleReq' = [roleReq EXCEPT ![q] = NoRoleRequest]
    BY <1>2 DEF ValidateParent
  <2> QED BY <2>1, RoleLeaves DEF ValidateParent
<1>3. CASE p \in roles
  <2> PICK left \in SUBSET RoleIds, from \in SUBSET RoleIds : left = v.left \ {p} /\ from = {p}
    BY RoleResults
  <2> PICK w : w = Walk(v.role, v.wanted, left, from)
    OBVIOUS
  <2>1. v.role \in 0..MaxRoles /\ v.wanted \in SUBSET RoleIds /\ from # {}
    BY RoleResults
  <2>2. /\ w \in RoleRequest /\ w # NoRoleRequest /\ w.pc = "walking" /\ w.role = v.role
        /\ w.wanted = v.wanted /\ w.left = left /\ w.from = from /\ w.result = {}
        /\ w.reads = 0 /\ w.pending = w.from
    <3>1. Begins(w, v.role, v.wanted, left, from)
      BY <1>1, <2>1, WalkBegins
    <3> QED BY <2>1, <3>1 DEF Begins
  <2>3. RoleStands(w, parents, tangled)
    <3>1. WalkStands(w) /\ Followed(parents, w.result, w.pending)
      BY <1>1, <2>2, WalkBegun
    <3>2. w.wanted \ (w.left \cup w.from) \subseteq v.wanted \ (v.left \cup v.from)
      BY <1>1, <2>2 DEF RoleStands, ChangeStands
    <3>3. ChangeStands(w, parents, tangled)
      BY ZenonT(60), <1>1, <2>2, <3>1, <3>2 DEF RoleStands, ChangeStands
    <3>4. CheckStands(w, parents)
      BY <1>1, <2>2 DEF CheckStands
    <3> QED BY <3>1, <3>3, <3>4 DEF RoleStands
  <2>4. roleReq' = [roleReq EXCEPT ![q] = w]
    BY <1>3 DEF ValidateParent
  <2>5. Changing(w) => Changing(roleReq[q])
    BY <1>1 DEF Changing
  <2> QED BY <2>2, <2>3, <2>4, <2>5, RoleGoesOn DEF ValidateParent, RoleRow
<1> QED BY <1>2, <1>3

\* A role is read: what it leads to is pending or was read.
ReadsOne(w, v, found) ==
    /\ w \in RoleRequest /\ w.reads = Cardinality(w.result) /\ w.pending \cap w.result = {}
    /\ v.result \cup v.pending \subseteq w.result \cup w.pending
    /\ found \subseteq w.result \cup w.pending
    /\ w.result \cup w.pending \subseteq v.result \cup v.pending \cup found
    /\ w.pc = v.pc /\ w.role = v.role /\ w.wanted = v.wanted /\ w.left = v.left
    /\ w.from = v.from /\ w.ever = v.ever /\ w.always = v.always

Read(v, r, found) ==
    LET w == [v EXCEPT !.result = @ \cup {r}, !.pending = @ \ {r}]
    IN  [w EXCEPT !.pending = Pending(w, found), !.reads = @ + 1]

LEMMA ReadsRole ==
    ASSUME RolesTypeOK, NEW v \in RoleRequest, WalkStands(v), v.pc = "walking", NEW r \in v.pending,
           NEW found \in SUBSET RoleIds
    PROVE  ReadsOne(Read(v, r, found), v, found)
           /\ Read(v, r, found).result = v.result \cup {r}
<1> PICK u : u = [v EXCEPT !.result = @ \cup {r}, !.pending = @ \ {r}]
  OBVIOUS
<1> PICK w : w = [u EXCEPT !.pending = Pending(u, found), !.reads = @ + 1]
  OBVIOUS
<1>0. w = Read(v, r, found)
  BY DEF Read
<1> PICK result : result = v.result \cup {r}
  OBVIOUS
<1> PICK pending : pending = ((v.pending \ {r}) \cup found) \ result
  OBVIOUS
<1>1. v.result \in SUBSET RoleIds /\ v.pending \in SUBSET RoleIds /\ r \notin v.result
      /\ v.reads = Cardinality(v.result)
  BY RoleResults DEF WalkStands
<1>2. IsFiniteSet(v.result) /\ Cardinality(v.result) \in Nat
  BY <1>1, RoleFacts, FS_Subset, FS_CardinalityType
<1>3. Cardinality(result) = Cardinality(v.result) + 1
  BY <1>1, <1>2, FS_AddElement
<1>4. result \in SUBSET RoleIds /\ pending \in SUBSET RoleIds
  BY <1>1
<1>5. Cardinality(result) <= MaxRoles
  BY <1>4, RoleFacts, FS_Subset
<1>6. v.reads + 1 \in 0..MaxRoles /\ v.reads + 1 = Cardinality(result)
  BY <1>1, <1>2, <1>3, <1>5, RoleFacts
<1>7. /\ u \in RoleRequest /\ u.result = result /\ u.pending = v.pending \ {r} /\ u.reads = v.reads
      /\ u.pc = v.pc /\ u.role = v.role /\ u.wanted = v.wanted /\ u.left = v.left
      /\ u.from = v.from /\ u.ever = v.ever /\ u.always = v.always
  BY <1>4 DEF RoleRequest
<1>8. Pending(u, found) = pending
  BY <1>7 DEF Pending
<1>9. w = [u EXCEPT !.pending = pending, !.reads = v.reads + 1]
  BY <1>7, <1>8
<1> PICK n \in 0..MaxRoles : n = v.reads + 1
  BY <1>6
<1>10. /\ w \in RoleRequest /\ w.result = result /\ w.pending = pending /\ w.reads = n
       /\ w.pc = u.pc /\ w.role = u.role /\ w.wanted = u.wanted /\ w.left = u.left
       /\ w.from = u.from /\ w.ever = u.ever /\ w.always = u.always
  BY ZenonT(60), <1>4, <1>7, <1>9 DEF RoleRequest
<1>11. /\ pending \cap result = {} /\ v.result \cup v.pending \subseteq result \cup pending
       /\ found \subseteq result \cup pending
       /\ result \cup pending \subseteq v.result \cup v.pending \cup found
  OBVIOUS
<1> QED BY <1>0, <1>6, <1>7, <1>10, <1>11 DEF ReadsOne

LEMMA WalkStepKeeps ==
    ASSUME RolesInv, NEW q \in RoleRequests, NEW r \in RoleIds, WalkStep(q, r)
    PROVE  RolesInv'
<1>1. /\ roleReq[q] # NoRoleRequest /\ roleReq[q] \in RoleRequest /\ roleReq[q].pc = "walking"
      /\ r \in roleReq[q].pending /\ RolesTypeOK /\ RoleStands(roleReq[q], parents, tangled)
  BY RoleFacts DEF RolesInv, WalkStep
<1> PICK v \in RoleRequest : v = roleReq[q]
  BY <1>1
<1> PICK found \in SUBSET RoleIds : found = Above(parents, r)
  BY ZenonT(60), <1>1, RoleFacts DEF Above, Edge
<1>2. WalkStands(v) /\ CheckStands(v, parents) /\ ChangeStands(v, parents, tangled)
      /\ v.pc = "walking" /\ r \in v.pending
  BY <1>1 DEF RoleStands
<1> PICK w : w = Read(v, r, found)
  OBVIOUS
<1>3. ReadsOne(w, v, found) /\ w.result = v.result \cup {r}
  BY <1>1, <1>2, ReadsRole
<1>4. /\ w \in RoleRequest /\ w.pc = v.pc /\ w.role = v.role /\ w.wanted = v.wanted
      /\ w.left = v.left /\ w.from = v.from /\ w.ever = v.ever /\ w.always = v.always
  BY <1>3 DEF ReadsOne
<1>5. roleReq' = [roleReq EXCEPT ![q] = w]
  <2>1. ParentIds(r) = found
    BY <1>1, RoleFacts
  <2> QED BY <2>1 DEF WalkStep, Read
<1>6. \A edges : Followed(edges, v.result, v.pending) /\ edges \subseteq parents =>
                    Followed(edges, w.result, w.pending)
  <2>1. \A d \in parents : d[1] = r => d[2] \in found
    BY DEF Above
  <2> QED BY <1>3, <2>1 DEF Followed, ReadsOne
<1>7. WalkStands(w)
  BY <1>2, <1>3 DEF WalkStands, ReadsOne
<1>8. CheckStands(w, parents)
  <2> SUFFICES ASSUME w.role = 0 PROVE /\ Followed(w.always, w.result, w.pending)
                                       /\ w.result \cup w.pending \subseteq Reach(w.ever, w.from)
                                       /\ w.always \subseteq parents /\ parents \subseteq w.ever
    BY DEF CheckStands
  <2>1. /\ v.always \subseteq parents /\ parents \subseteq v.ever
        /\ Followed(v.always, v.result, v.pending)
        /\ v.result \cup v.pending \subseteq Reach(v.ever, v.from)
    BY <1>1, <1>2, <1>4 DEF CheckStands
  <2>2. LeadsWithin(v.ever, Reach(v.ever, v.from))
    BY RoleResults, ReachHolds
  <2>3. found \subseteq Reach(v.ever, v.from)
    BY <1>1, <2>1, <2>2 DEF LeadsWithin, Above
  <2> QED BY <1>3, <1>4, <1>6, <2>1, <2>3 DEF ReadsOne
<1>9. ChangeStands(w, parents, tangled)
  BY <1>1, <1>2, <1>4, <1>6 DEF ChangeStands
<1>10. RoleStands(w, parents, tangled) /\ (Changing(w) => Changing(roleReq[q]))
  BY <1>1, <1>4, <1>7, <1>8, <1>9 DEF RoleStands, Changing
<1> QED BY <1>4, <1>5, <1>10, RoleGoesOn DEF WalkStep, RoleRow

LEMMA WalkDoneKeeps == ASSUME RolesInv, NEW q \in RoleRequests, WalkDone(q) PROVE RolesInv'
<1>1. /\ roleReq[q] # NoRoleRequest /\ roleReq[q] \in RoleRequest /\ roleReq[q].pc = "walking"
      /\ roleReq[q].pending = {} /\ RolesTypeOK /\ RoleStands(roleReq[q], parents, tangled)
  BY RoleFacts DEF RolesInv, WalkDone
<1> PICK v \in RoleRequest : v = roleReq[q]
  BY <1>1
<1>2. CASE v.role = 0 \/ Cyclic(q)
  <2>1. roleReq' = [roleReq EXCEPT ![q] = NoRoleRequest]
    BY <1>2 DEF WalkDone
  <2> QED BY <2>1, RoleLeaves DEF WalkDone
<1>3. CASE ~(v.role = 0 \/ Cyclic(q))
  <2> PICK from \in SUBSET RoleIds : from = {}
    OBVIOUS
  <2> PICK w : w = Walk(v.role, v.wanted, v.left, from)
    OBVIOUS
  <2>1. v.role \in 0..MaxRoles /\ v.wanted \in SUBSET RoleIds /\ v.left \in SUBSET RoleIds
    BY RoleResults
  <2>2. /\ w \in RoleRequest /\ w # NoRoleRequest /\ w.pc = "checking" /\ w.role = v.role
        /\ w.wanted = v.wanted /\ w.left = v.left /\ w.from = from
    <3>1. Begins(w, v.role, v.wanted, v.left, from)
      BY <1>1, <2>1, WalkBegins
    <3> QED BY <3>1 DEF Begins
  <2>3. WalkStands(w) /\ CheckStands(w, parents)
    BY <2>2 DEF WalkStands, CheckStands
  <2>4. ChangeStands(v, parents, tangled) /\ WalkStands(v)
    BY <1>1 DEF RoleStands
  <2>5. ASSUME ~tangled, NEW p \in w.wanted \ (w.left \cup w.from)
        PROVE  w.role \notin Reach(parents, {p})
    <3>1. CASE p \in v.from
      <4>1. v.from \subseteq v.result /\ v.role \notin v.result
        BY <1>1, <1>3, <2>4 DEF WalkStands, Cyclic
      <4>2. LeadsWithin(parents, v.result)
        BY <1>1, <1>3, <2>4, <2>5 DEF ChangeStands, Followed, LeadsWithin
      <4>3. v.result \in SUBSET RoleIds /\ {p} \subseteq v.result
        BY <3>1, <4>1, RoleResults
      <4>4. Reach(parents, {p}) \subseteq v.result
        BY <4>2, <4>3, ReachLeast
      <4> QED BY <2>2, <4>1, <4>4
    <3>2. CASE p \notin v.from
      BY <1>1, <1>3, <2>2, <2>4, <2>5, <3>2 DEF ChangeStands
    <3> QED BY <3>1, <3>2
  <2>6. RoleStands(w, parents, tangled) /\ (Changing(w) => Changing(roleReq[q]))
    BY <1>1, <2>2, <2>3, <2>4, <2>5 DEF RoleStands, ChangeStands, Changing
  <2>7. roleReq' = [roleReq EXCEPT ![q] = w]
    BY <1>3 DEF WalkDone
  <2> QED BY <2>2, <2>6, <2>7, RoleGoesOn DEF WalkDone, RoleRow
<1> QED BY <1>2, <1>3


\* What Witnessed makes of a request.
Witnesses(w, edges) ==
    IF w = NoRoleRequest \/ w.role # 0 THEN w
    ELSE [w EXCEPT !.ever = @ \cup edges, !.always = @ \cap edges]

LEMMA WitnessStands ==
    ASSUME RolesTypeOK, NEW w \in RoleRow, NEW old \in SUBSET Edge, NEW edges \in SUBSET Edge,
           NEW mixed \in BOOLEAN, RoleStands(w, old, mixed),
           edges \subseteq old \/ mixed \/ ~Changing(w)
    PROVE  /\ Witnesses(w, edges) \in RoleRow /\ RoleStands(Witnesses(w, edges), edges, mixed)
           /\ Changing(Witnesses(w, edges)) <=> Changing(w)
<1> PICK t : t = Witnesses(w, edges)
  OBVIOUS
<1>1. CASE w = NoRoleRequest
  BY <1>1 DEF Witnesses, RoleStands
<1>2. CASE w # NoRoleRequest /\ w.role # 0
  <2>1. t = w
    BY <1>2 DEF Witnesses
  <2>2. WalkStands(w) /\ ChangeStands(w, old, mixed)
    BY <1>2 DEF RoleStands
  <2>3. edges \subseteq old \/ mixed
    BY <1>2 DEF Changing
  <2>4. \A p : ~mixed => Reach(edges, {p}) \subseteq Reach(old, {p})
    BY <2>3, ReachGrows
  <2>5. ChangeStands(w, edges, mixed)
    BY <2>2, <2>3, <2>4 DEF ChangeStands, Followed
  <2>6. CheckStands(w, edges)
    BY <1>2 DEF CheckStands
  <2> QED BY <1>2, <2>1, <2>2, <2>5, <2>6 DEF RoleStands
<1>3. CASE w # NoRoleRequest /\ w.role = 0
  <2>1. w \in RoleRequest
    BY <1>3 DEF RoleRow
  <2>2. t = [w EXCEPT !.ever = w.ever \cup edges, !.always = w.always \cap edges]
    BY <1>3 DEF Witnesses
  <2>3. /\ t \in RoleRequest /\ t.pc = w.pc /\ t.role = 0 /\ t.result = w.result /\ t.pending = w.pending
        /\ t.reads = w.reads /\ t.from = w.from /\ t.ever = w.ever \cup edges
        /\ t.always = w.always \cap edges
    BY ZenonT(60), <1>3, <2>1, <2>2 DEF RoleRequest
  <2>4. t # NoRoleRequest
    BY <2>3, RoleFacts
  <2>5. WalkStands(w) /\ CheckStands(w, old)
    BY <1>3 DEF RoleStands
  <2>6. Reach(w.ever, w.from) \subseteq Reach(t.ever, t.from)
    BY <2>3, ReachGrows
  <2>7. WalkStands(t) /\ ChangeStands(t, edges, mixed)
    BY <2>3, <2>5 DEF WalkStands, ChangeStands
  <2>8. CheckStands(t, edges)
    BY <1>3, <2>3, <2>5, <2>6 DEF CheckStands, Followed
  <2> QED BY <1>3, <2>3, <2>4, <2>7, <2>8 DEF RoleStands, Changing, RoleRow
<1> QED BY <1>1, <1>2, <1>3

\* The edges change, with the requests but for those that left.
EdgesChange(mid, edges) ==
    /\ mid \in [RoleRequests -> RoleRow]
    /\ \A q \in RoleRequests : mid[q] = roleReq[q] \/ mid[q] = NoRoleRequest
    /\ edges \in SUBSET Edge /\ (~tangled => Hierarchy(edges))
    /\ edges \subseteq parents \/ tangled \/ \A q \in RoleRequests : ~Changing(mid[q])
    /\ parents' = edges /\ roleReq' = Witnessed(mid, edges)
    /\ edits < MaxEdits /\ edits' = edits + 1
    /\ UNCHANGED <<lastRole, tangled>>
    /\ roles' \subseteq roles /\ edges \subseteq roles' \X roles'

LEMMA EdgesChangeKeeps == ASSUME RolesInv, NEW mid, NEW edges, EdgesChange(mid, edges) PROVE RolesInv'
<1> USE DEF EdgesChange
<1>1. RolesTypeOK /\ tangled \in BOOLEAN /\ parents \in SUBSET Edge
  BY RoleFacts DEF RolesInv, RolesTypeOK
<1>2. ASSUME NEW q \in RoleRequests
      PROVE  roleReq'[q] = Witnesses(mid[q], edges)
  BY DEF Witnessed, Witnesses
<1>3. ASSUME NEW q \in RoleRequests
      PROVE  /\ roleReq'[q] \in RoleRow /\ RoleStands(roleReq'[q], edges, tangled)
             /\ Changing(roleReq'[q]) => Changing(roleReq[q])
  <2> PICK w \in RoleRow : w = mid[q]
    OBVIOUS
  <2>1. RoleStands(roleReq[q], parents, tangled)
    BY DEF RolesInv
  <2>2. RoleStands(w, parents, tangled) /\ (Changing(w) => Changing(roleReq[q]))
    BY <2>1 DEF RoleStands, Changing
  <2>3. edges \subseteq parents \/ tangled \/ ~Changing(w)
    OBVIOUS
  <2>4. /\ Witnesses(w, edges) \in RoleRow /\ RoleStands(Witnesses(w, edges), edges, tangled)
        /\ Changing(Witnesses(w, edges)) <=> Changing(w)
    BY <1>1, <2>2, <2>3, WitnessStands
  <2> QED BY <1>2, <2>2, <2>4
<1>4. roleReq' = [q \in RoleRequests |-> roleReq'[q]]
  BY DEF Witnessed
<1>5. roleReq' \in [RoleRequests -> RoleRow]
  BY <1>3, <1>4
<1>6. RolesTypeOK'
  BY <1>5, RoleFacts DEF RolesInv, RolesTypeOK, RoleRow
<1>7. ~tangled => \A p, s \in RoleRequests : Changing(roleReq'[p]) /\ Changing(roleReq'[s]) => p = s
  BY <1>3 DEF RolesInv
<1> QED BY <1>3, <1>6, <1>7 DEF RolesInv

LEMMA DeleteRoleKeeps == ASSUME RolesInv, NEW r \in RoleIds, DeleteRole(r) PROVE RolesInv'
<1> PICK edges : edges = {d \in parents : r \notin {d[1], d[2]}}
  OBVIOUS
<1>1. /\ parents \in SUBSET Edge /\ parents \subseteq roles \X roles /\ roleReq \in [RoleRequests -> RoleRow]
  BY RoleFacts DEF RolesInv, RolesTypeOK
<1>2. edges \in SUBSET parents /\ edges \in SUBSET Edge
  BY <1>1
<1>3. ~tangled => Hierarchy(edges)
  BY <1>1, <1>2, FewerEdges DEF RolesInv
<1>4. roles' = roles \ {r} /\ edges \subseteq roles' \X roles'
  <2>1. roles' = roles \ {r}
    BY DEF DeleteRole
  <2>2. ASSUME NEW d \in edges PROVE d \in roles' \X roles'
    BY <1>1, <2>1
  <2> QED BY <2>1, <2>2
<1>5. EdgesChange(roleReq, edges)
  BY <1>1, <1>2, <1>3, <1>4 DEF EdgesChange, DeleteRole
<1> QED BY <1>5, EdgesChangeKeeps

LEMMA SetParentsKeeps == ASSUME RolesInv, NEW q \in RoleRequests, SetParents(q) PROVE RolesInv'
<1>1. /\ roleReq[q] # NoRoleRequest /\ roleReq[q] \in RoleRequest /\ roleReq[q].pc = "checking"
      /\ roleReq[q].role # 0 /\ roleReq[q].left = {} /\ RolesTypeOK
      /\ RoleStands(roleReq[q], parents, tangled)
      /\ parents \in SUBSET Edge /\ parents \subseteq roles \X roles /\ roleReq \in [RoleRequests -> RoleRow]
  BY RoleFacts DEF RolesInv, RolesTypeOK, SetParents
<1> PICK v \in RoleRequest : v = roleReq[q]
  BY <1>1
<1> PICK mid : mid = [roleReq EXCEPT ![q] = NoRoleRequest]
  OBVIOUS
<1>2. /\ mid \in [RoleRequests -> RoleRow] /\ mid[q] = NoRoleRequest
      /\ \A p \in RoleRequests \ {q} : mid[p] = roleReq[p]
  BY <1>1 DEF RoleRow
<1>3. ~tangled => \A p \in RoleRequests : ~Changing(mid[p])
  BY <1>1, <1>2 DEF RolesInv, Changing
<1>4. v.role \in RoleIds /\ v.wanted \in SUBSET RoleIds
  BY <1>1, RoleResults DEF RoleIds
<1>5. \E edges :
        /\ \/ edges = parents
           \/ /\ edges = {d \in parents : d[1] # v.role} \cup ({v.role} \X v.wanted)
              /\ v.wanted \subseteq roles /\ (v.wanted = {} \/ v.role \in roles)
        /\ parents' = edges /\ roleReq' = Witnessed(mid, edges)
        /\ edits < MaxEdits /\ edits' = edits + 1 /\ UNCHANGED <<roles, lastRole, tangled>>
  <2>1. (parents \ {d \in parents : d[1] = v.role}) = {d \in parents : d[1] # v.role}
    OBVIOUS
  <2>2. CASE ~(v.wanted \subseteq roles) \/ (v.wanted # {} /\ v.role \notin roles)
    BY <2>2 DEF SetParents
  <2>3. CASE ~(~(v.wanted \subseteq roles) \/ (v.wanted # {} /\ v.role \notin roles))
    BY <2>1, <2>3 DEF SetParents
  <2> QED BY <2>2, <2>3
<1> PICK edges :
        /\ \/ edges = parents
           \/ /\ edges = {d \in parents : d[1] # v.role} \cup ({v.role} \X v.wanted)
              /\ v.wanted \subseteq roles /\ (v.wanted = {} \/ v.role \in roles)
        /\ parents' = edges /\ roleReq' = Witnessed(mid, edges)
        /\ edits < MaxEdits /\ edits' = edits + 1 /\ UNCHANGED <<roles, lastRole, tangled>>
  BY <1>5
<1>6. edges \subseteq roles \X roles /\ edges \in SUBSET Edge
  <2>1. edges \subseteq roles \X roles
    BY <1>1
  <2> QED BY <1>1, <2>1, RoleFacts DEF Edge
<1>7. ASSUME ~tangled PROVE Hierarchy(edges)
  <2>1. Hierarchy(parents)
    BY <1>7 DEF RolesInv
  <2>2. v.role \notin v.wanted /\ \A p \in v.wanted : v.role \notin Reach(parents, {p})
    BY <1>1, <1>7 DEF RoleStands, ChangeStands
  <2> QED BY <1>1, <1>4, <2>1, <2>2, StaysHierarchy
<1>8. EdgesChange(mid, edges)
  BY <1>2, <1>3, <1>6, <1>7 DEF EdgesChange
<1> QED BY <1>8, EdgesChangeKeeps

-----------------------------------------------------------------------------
LEMMA RolesInitInv == RolesInit => RolesInv
<1> SUFFICES ASSUME RolesInit PROVE RolesInv
  OBVIOUS
<1>1. MaxRoles \in Nat \ {0} /\ MaxEdits \in Nat
  BY RoleGraphAssumption DEF RoleGraphAssumption
<1>2. roles = 1..lastRole /\ lastRole \in 0..MaxRoles /\ parents \in SUBSET (roles \X roles)
      /\ \A d \in parents : d[1] > d[2]
  BY <1>1 DEF RolesInit
<1>3. roles \in SUBSET RoleIds /\ parents \in SUBSET Edge
  BY <1>1, <1>2 DEF RoleIds, Edge
<1>4. RolesTypeOK
  <2>1. roleReq \in [RoleRequests -> {NoRoleRequest} \cup RoleRequest]
    BY DEF RolesInit
  <2>2. tangled \in BOOLEAN /\ edits \in 0..MaxEdits
    <3>1. tangled = FALSE /\ edits = 0
      BY DEF RolesInit
    <3>2. tangled \in BOOLEAN
      BY <3>1
    <3>3. 0 \in 0..MaxEdits
      BY <1>1
    <3>4. edits \in 0..MaxEdits
      BY <3>1, <3>3
    <3> QED BY <3>2, <3>4
  <2>3. parents \subseteq roles \X roles
    BY <1>2
  <2> QED BY <1>2, <2>1, <2>2, <2>3 DEF RolesTypeOK
<1>5. Hierarchy(parents)
  <2> SUFFICES ASSUME NEW r \in RoleIds PROVE r \notin Reach(parents, Above(parents, r))
    BY DEF Hierarchy
  <2> PICK c : c = {x \in RoleIds : x < r}
    OBVIOUS
  <2>1. r \in Nat /\ \A d \in parents : d[1] \in Nat /\ d[2] \in Nat /\ d[2] \in RoleIds /\ d[1] > d[2]
    BY <1>1, <1>2, <1>3 DEF RoleIds, Edge
  <2>2. c \in SUBSET RoleIds /\ LeadsWithin(parents, c) /\ Above(parents, r) \subseteq c
    BY <2>1 DEF LeadsWithin, Above
  <2>3. Reach(parents, Above(parents, r)) \subseteq c
    BY <2>2, ReachLeast
  <2> QED BY <2>1, <2>3
<1>6. \A q \in RoleRequests : RoleStands(roleReq[q], parents, tangled) /\ ~Changing(roleReq[q])
  BY DEF RolesInit, RoleStands, Changing
<1> QED BY <1>4, <1>5, <1>6 DEF RolesInv

LEMMA RolesNextInv == RolesInv /\ [RolesNext]_rolesVars => RolesInv'
<1> SUFFICES ASSUME RolesInv, [RolesNext]_rolesVars PROVE RolesInv'
  OBVIOUS
<1>1. CASE UNCHANGED rolesVars
  BY <1>1 DEF rolesVars, RolesInv, RolesTypeOK
<1>2. CASE RolesNext
  <2>1. ASSUME NEW q \in RoleRequests, NEW s \in SUBSET RoleIds,
               CreateRole(q, s) \/ CheckAccess(q, s) \/ \E r \in RoleIds : EditRole(q, r, s)
        PROVE  RolesInv'
    BY <2>1, CreateRoleKeeps, CheckAccessKeeps, EditRoleKeeps
  <2>2. ASSUME NEW q \in RoleRequests, NEW r \in RoleIds, ValidateParent(q, r) \/ WalkStep(q, r)
        PROVE  RolesInv'
    BY <2>2, ValidateParentKeeps, WalkStepKeeps
  <2>3. ASSUME NEW q \in RoleRequests, WalkDone(q) \/ SetParents(q) \/ RoleRequestDies(q)
        PROVE  RolesInv'
    BY <2>3, WalkDoneKeeps, SetParentsKeeps, RoleLeaves DEF RoleRequestDies
  <2> QED BY <1>2, <2>1, <2>2, <2>3, DeleteRoleKeeps DEF RolesNext
<1> QED BY <1>1, <1>2

LEMMA RolesInvKept == RolesInv => RolesKept
<1> SUFFICES ASSUME RolesInv PROVE RolesKept
  OBVIOUS
<1>1. RolesTypeOK /\ roles \in SUBSET RoleIds /\ \A r : ParentIds(r) = Above(parents, r)
  BY RoleFacts DEF RolesInv
<1>2. Acyclic
  BY <1>1 DEF RolesInv, Acyclic, Hierarchy
<1>3. ASSUME NEW q \in RoleRequests, roleReq[q].pc = "walking"
      PROVE  /\ roleReq[q].reads = Cardinality(roleReq[q].result)
             /\ roleReq[q].pending = {} /\ roleReq[q].role = 0 =>
                  /\ Reach(roleReq[q].always, roleReq[q].from) \subseteq roleReq[q].result
                  /\ roleReq[q].result \subseteq Reach(roleReq[q].ever, roleReq[q].from)
  <2>1. roleReq[q] # NoRoleRequest /\ roleReq[q] \in RoleRequest /\ RoleStands(roleReq[q], parents, tangled)
    BY <1>1, <1>3, RoleFacts DEF RolesInv
  <2> PICK w \in RoleRequest : w = roleReq[q]
    BY <2>1
  <2>2. WalkStands(w) /\ CheckStands(w, parents)
    BY <2>1 DEF RoleStands
  <2>3. ASSUME w.pending = {}, w.role = 0 PROVE Reach(w.always, w.from) \subseteq w.result
    <3>1. w.result \in SUBSET RoleIds /\ w.from \subseteq w.result /\ LeadsWithin(w.always, w.result)
      BY <1>3, <2>2, <2>3, RoleResults DEF WalkStands, CheckStands, Followed, LeadsWithin
    <3> QED BY <3>1, ReachLeast
  <2> QED BY <1>3, <2>2, <2>3 DEF WalkStands, CheckStands
<1> QED BY <1>2, <1>3 DEF RolesKept, EffectiveBetween, ReadOnce

\* _validate_parents and _effective: inheritance has no cycle unless two changes of parents
\* overlapped, and an access check finds what was reachable all along and nothing that
\* never was, for any number of roles and requests.
THEOREM RolesSound == RolesInit /\ [][RolesNext]_rolesVars => []RolesKept
BY RolesInitInv, RolesNextInv, RolesInvKept, PTL

-----------------------------------------------------------------------------
(***************************************************************************)
(* SchemaMigration                                                         *)
(***************************************************************************)
MigrationState(s) ==
    s = [schema |-> s.schema, stamp |-> s.stamp] /\ s.stamp \subseteq 1..HeadVersion
MigratorState == [pc : {"idle", "running", "refused", "stopped"}, at : 0..HeadVersion,
                  target : 0..HeadVersion, step : Nat, overtaken : BOOLEAN]

Falling(m) == migr[m].target < migr[m].at

\* What goes up has what it locked, and what goes down has not committed it gone.
LocksNamed(m) ==
    \A t \in HeldBy(m) \ {Stamps} :
        /\ Rising(m) => t \in DOMAIN live.schema
        /\ Falling(m) => t \in DOMAIN committed.schema

MigratorsKept ==
    /\ MigrationState(committed) /\ MigrationState(live)
    /\ migr \in [Migrators -> MigratorState]
    /\ \A m \in Migrators : HeldBy(m) # {} => migr[m].pc = "running"
    /\ \A m \in Migrators : LocksNamed(m)

\* Two schemas that differ in tables that are locked only, where all that is locked is there.
Differ(l, c, locked) ==
    /\ locked \subseteq DOMAIN l \cup DOMAIN c \cup {Stamps}
    /\ \A t \in DOMAIN l \cup DOMAIN c :
           t \notin locked => t \in DOMAIN l \cap DOMAIN c /\ l[t] = c[t]

MigrationInv == MigratorsKept /\ Differ(live.schema, committed.schema, DOMAIN holder)

LEMMA MigrationTyped == MigrationInv => TypeOK
BY DEF MigrationInv, MigratorsKept, Differ, TypeOK

LEMMA HeadVersionIs == HeadVersion \in Nat
<1> PICK n : n = Len(Revisions)
  OBVIOUS
<1>1. n = 71
  BY DEF Revisions
<1> QED BY <1>1 DEF HeadVersion

\* What a legal operation does to the tables: only the one it names changes.
LEMMA TablesAfter ==
    ASSUME NEW schema, NEW op, Legal(schema, op)
    PROVE  /\ DOMAIN Applied(schema, op) =
                   IF op.op = "create" THEN DOMAIN schema \cup {op.table}
                   ELSE IF op.op = "drop" THEN DOMAIN schema \ {op.table} ELSE DOMAIN schema
           /\ op.op # "create" => op.table \in DOMAIN schema
           /\ \A t \in DOMAIN schema \ {op.table} : Applied(schema, op)[t] = schema[t]
           /\ Referred(op) \subseteq DOMAIN schema \cup {op.table}
<1>1. CASE op.op = "create"
  BY <1>1 DEF Applied, Legal, Referred
<1>2. CASE op.op = "drop"
  BY <1>2 DEF Applied, Legal, Referred
<1>3. CASE op.op = "refer"
  <2>1. Applied(schema, op) = [schema EXCEPT ![op.table] = TableAfter(@, op)]
    BY <1>3 DEF Applied
  <2>2. op.table \in DOMAIN schema /\ op.ref[3] \in DOMAIN schema
    BY <1>3 DEF Legal
  <2> QED BY <1>3, <2>1, <2>2 DEF Referred
<1>4. CASE op.op \notin {"create", "drop", "refer"}
  <2>1. Applied(schema, op) = [schema EXCEPT ![op.table] = TableAfter(@, op)]
    BY <1>4 DEF Applied
  <2>2. op.table \in DOMAIN schema
    BY <1>4 DEF Legal
  <2>3. Referred(op) = {}
    BY <1>4 DEF Referred
  <2> QED BY <1>4, <2>1, <2>2, <2>3
<1> QED BY <1>1, <1>2, <1>3, <1>4

LEMMA Unlocked ==
    ASSUME NEW m, Unlock(m)
    PROVE  /\ DOMAIN holder' = DOMAIN holder \ HeldBy(m) /\ HeldBy(m)' = {}
           /\ \A n : n # m => HeldBy(n)' = HeldBy(n)
           /\ \A n : n # m => HeldBy(n) \cap HeldBy(m) = {}
BY DEF Unlock, HeldBy

LEMMA Locked ==
    ASSUME NEW m, NEW names, Lock(m, names), Free(m, names)
    PROVE  /\ DOMAIN holder' = DOMAIN holder \cup names /\ HeldBy(m)' = HeldBy(m) \cup names
           /\ \A n : n # m => HeldBy(n)' = HeldBy(n)
           /\ \A n : n # m => HeldBy(n) \cap names = {}
BY DEF Lock, Free, HeldBy

LEMMA MergedIs ==
    ASSUME NEW base, NEW other, NEW names
    PROVE  /\ DOMAIN Merged(base, other, names) =
                  (DOMAIN base \ names) \cup (DOMAIN other \cap names)
           /\ \A t \in DOMAIN Merged(base, other, names) :
                  Merged(base, other, names)[t] = IF t \in names THEN other[t] ELSE base[t]
BY DEF Merged

\* A transaction that ends takes over what it locked: committed what it did, or nothing.
LEMMA DifferEnds ==
    ASSUME NEW l, NEW c, NEW locked, NEW names, Differ(l, c, locked)
    PROVE  /\ Differ(l, Merged(c, l, names), locked \ names)
           /\ Differ(Merged(l, c, names), c, locked \ names)
<1>1. Differ(l, Merged(c, l, names), locked \ names)
  <2> PICK d : d = Merged(c, l, names)
    OBVIOUS
  <2>1. /\ DOMAIN d = (DOMAIN c \ names) \cup (DOMAIN l \cap names)
        /\ \A t \in DOMAIN d : d[t] = IF t \in names THEN l[t] ELSE c[t]
    BY DEF Merged
  <2>2. Differ(l, d, locked \ names)
    BY <2>1 DEF Differ
  <2> QED BY <2>2
<1>2. Differ(Merged(l, c, names), c, locked \ names)
  <2> PICK d : d = Merged(l, c, names)
    OBVIOUS
  <2>1. /\ DOMAIN d = (DOMAIN l \ names) \cup (DOMAIN c \cap names)
        /\ \A t \in DOMAIN d : d[t] = IF t \in names THEN c[t] ELSE l[t]
    BY DEF Merged
  <2>2. Differ(d, c, locked \ names)
    BY <2>1 DEF Differ
  <2> QED BY <2>2
<1> QED BY <1>1, <1>2

LEMMA MergedStates ==
    ASSUME NEW base, NEW other, NEW names, MigrationState(base), MigrationState(other)
    PROVE  /\ MigrationState(MergedState(base, other, names))
           /\ MergedState(base, other, names).schema = Merged(base.schema, other.schema, names)
BY DEF MergedState, MigrationState

\* A step of migrator m that leaves it as r.
LEMMA MigratorsGoOn ==
    ASSUME MigrationInv, NEW m \in Migrators, NEW r \in MigratorState,
           migr' = [migr EXCEPT ![m] = r],
           HeldBy(m)' # {} => r.pc = "running", LocksNamed(m)',
           \A n \in Migrators \ {m} :
               /\ HeldBy(n)' = HeldBy(n)
               /\ \A t \in HeldBy(n) : /\ t \in DOMAIN live.schema => t \in DOMAIN live'.schema
                                       /\ t \in DOMAIN committed.schema => t \in DOMAIN committed'.schema,
           MigrationState(committed'), MigrationState(live')
    PROVE  MigratorsKept'
<1>1. migr \in [Migrators -> MigratorState]
  BY DEF MigrationInv, MigratorsKept
<1>2. migr' \in [Migrators -> MigratorState] /\ migr'[m] = r
  BY <1>1
<1>3. \A n \in Migrators \ {m} : migr'[n] = migr[n]
  BY <1>1
<1>4. \A n \in Migrators : HeldBy(n)' # {} => migr'[n].pc = "running"
  <2> SUFFICES ASSUME NEW n \in Migrators, HeldBy(n)' # {} PROVE migr'[n].pc = "running"
    OBVIOUS
  <2>1. CASE n = m
    BY <1>2, <2>1
  <2>2. CASE n # m
    BY <1>3, <2>2 DEF MigrationInv, MigratorsKept
  <2> QED BY <2>1, <2>2
<1>5. ASSUME NEW n \in Migrators PROVE LocksNamed(n)'
  <2>1. CASE n = m
    BY <2>1
  <2>2. CASE n # m
    <3>1. LocksNamed(n) /\ HeldBy(n)' = HeldBy(n) /\ migr'[n] = migr[n]
      BY <1>3, <2>2 DEF MigrationInv, MigratorsKept
    <3>2. Rising(n)' = Rising(n) /\ Falling(n)' = Falling(n)
      BY <3>1 DEF Rising, Falling
    <3> QED BY <2>2, <3>1, <3>2 DEF LocksNamed
  <2> QED BY <2>1, <2>2
<1> QED BY <1>2, <1>4, <1>5 DEF MigratorsKept

LEMMA MigratorIs ==
    ASSUME MigrationInv, NEW m \in Migrators
    PROVE  /\ migr[m] \in MigratorState /\ migr[m].at \in Nat /\ migr[m].target \in Nat
           /\ migr[m].at <= HeadVersion /\ migr[m].target <= HeadVersion /\ migr[m].step \in Nat
           /\ LocksNamed(m)
           /\ MigrationState(live) /\ MigrationState(committed)
           /\ Differ(live.schema, committed.schema, DOMAIN holder)
<1>1. migr[m] \in MigratorState /\ LocksNamed(m)
  BY DEF MigrationInv, MigratorsKept
<1> QED BY <1>1, HeadVersionIs DEF MigratorState, MigrationInv, MigratorsKept

LEMMA BeginKeeps ==
    ASSUME MigrationInv, NEW m \in Migrators, NEW target \in 0..HeadVersion, Begin(m, target)
    PROVE  MigrationInv'
<1> PICK r : r = [pc |-> "running", at |-> VersionOf(committed.stamp),
                  target |-> target, step |-> 0, overtaken |-> FALSE]
  OBVIOUS
<1>1. /\ migr' = [migr EXCEPT ![m] = r] /\ migr[m].pc = "idle"
      /\ UNCHANGED <<committed, live, holder>>
  BY DEF Begin
<1>2. VersionOf(committed.stamp) \in 0..HeadVersion
  <2>1. committed.stamp \subseteq 1..HeadVersion
    BY MigratorIs DEF MigrationState
  <2>2. \A x \in 1..HeadVersion : x \in 0..HeadVersion
    BY HeadVersionIs
  <2>3. 0 \in 0..HeadVersion
    BY HeadVersionIs
  <2> QED BY <2>1, <2>2, <2>3 DEF VersionOf
<1>3. r \in MigratorState
  BY <1>2 DEF MigratorState
<1>4. \A n : HeldBy(n)' = HeldBy(n)
  BY <1>1 DEF HeldBy
<1>5. HeldBy(m) = {}
  BY <1>1 DEF MigrationInv, MigratorsKept
<1>6. MigratorsKept'
  <2>1. HeldBy(m)' = {}
    BY <1>4, <1>5
  <2>2. LocksNamed(m)'
    BY <2>1 DEF LocksNamed
  <2> QED BY <1>1, <1>3, <1>4, <2>1, <2>2, MigratorIs, MigratorsGoOn
<1> QED BY <1>1, <1>6 DEF MigrationInv

\* What migrator m's next operation wants, and which it cannot be.
LEMMA NextOpIs ==
    ASSUME MigrationInv, NEW m \in Migrators, InRevision(m)
    PROVE  /\ migr[m].pc = "running"
           /\ Wanted(m) = {NextOp(m).table} \cup Referred(NextOp(m))
           /\ Rising(m) => NextOp(m).op # "drop"
           /\ ~Rising(m) => Falling(m) /\ NextOp(m).op # "create" /\ NextOp(m).table # Stamps
<1> PICK r : r = migr[m]
  OBVIOUS
<1>1. /\ r.at \in Nat /\ r.target \in Nat /\ r.at <= HeadVersion /\ r.target <= HeadVersion
      /\ r.step \in Nat /\ HeadVersion \in Nat
  BY MigratorIs, HeadVersionIs
<1>2. r.pc = "running" /\ r.at # r.target /\ r.step < Len(Operations(m))
  BY DEF InRevision, Underway
<1>3. Wanted(m) = {NextOp(m).table} \cup Referred(NextOp(m))
  BY DEF Wanted, Touched
<1>4. CASE Rising(m)
  <2>1. r.at + 1 \in 1..HeadVersion /\ Operations(m) = Revisions[r.at + 1].up
    BY <1>1, <1>4 DEF Rising, Operations
  <2> PICK up : up = Revisions[r.at + 1].up
    OBVIOUS
  <2>2. Len(up) \in Nat /\ \A i \in 1..Len(up) : up[i].op # "drop"
    BY <2>1, RevisionsAssumption DEF RevisionsAssumption
  <2>3. r.step + 1 \in 1..Len(up)
    <3>1. r.step < Len(up)
      BY <1>2, <2>1
    <3> QED BY <1>1, <2>2, <3>1
  <2>4. NextOp(m) = up[r.step + 1]
    BY <2>1 DEF NextOp
  <2> QED BY <1>2, <1>3, <1>4, <2>2, <2>3, <2>4
<1>5. CASE ~Rising(m)
  <2>1. r.at \in 1..HeadVersion /\ Falling(m) /\ Operations(m) = Revisions[r.at].down
    BY <1>1, <1>2, <1>5 DEF Rising, Operations, Falling
  <2> PICK down : down = Revisions[r.at].down
    OBVIOUS
  <2>2. Len(down) \in Nat /\ \A i \in 1..Len(down) : down[i].op # "create" /\ down[i].table # Stamps
    BY <2>1, RevisionsAssumption DEF RevisionsAssumption
  <2>3. r.step + 1 \in 1..Len(down)
    <3>1. r.step < Len(down)
      BY <1>2, <2>1
    <3> QED BY <1>1, <2>2, <3>1
  <2>4. NextOp(m) = down[r.step + 1]
    BY <2>1 DEF NextOp
  <2> QED BY <1>2, <1>3, <1>5, <2>1, <2>2, <2>3, <2>4
<1> QED BY <1>4, <1>5

\* An operation changes what it has locked.
LEMMA DifferGrows ==
    ASSUME NEW l, NEW c, NEW locked, NEW op, NEW more, Differ(l, c, locked), Legal(l, op),
           op.table \in more, more \subseteq {op.table} \cup Referred(op),
           op.op = "drop" => op.table \in DOMAIN c
    PROVE  Differ(Applied(l, op), c, locked \cup more)
<1> PICK a : a = Applied(l, op)
  OBVIOUS
<1>1. /\ DOMAIN a = IF op.op = "create" THEN DOMAIN l \cup {op.table}
                    ELSE IF op.op = "drop" THEN DOMAIN l \ {op.table} ELSE DOMAIN l
      /\ op.op # "create" => op.table \in DOMAIN l
      /\ \A t \in DOMAIN l \ {op.table} : a[t] = l[t]
      /\ Referred(op) \subseteq DOMAIN l \cup {op.table}
  BY TablesAfter
<1>2. DOMAIN l \subseteq DOMAIN a \cup {op.table} /\ DOMAIN a \subseteq DOMAIN l \cup {op.table}
  BY <1>1
<1>3. op.table \in DOMAIN a \cup DOMAIN c
  BY <1>1
<1>4. locked \cup more \subseteq DOMAIN a \cup DOMAIN c \cup {Stamps}
  BY <1>1, <1>2, <1>3 DEF Differ
<1>5. ASSUME NEW t \in DOMAIN a \cup DOMAIN c, t \notin locked \cup more
      PROVE  t \in DOMAIN a \cap DOMAIN c /\ a[t] = c[t]
  <2>1. t # op.table /\ t \in DOMAIN l \cup DOMAIN c /\ t \notin locked
    BY <1>2, <1>5
  <2>2. t \in DOMAIN l /\ t \in DOMAIN c /\ l[t] = c[t]
    BY <2>1 DEF Differ
  <2>3. a[t] = l[t] /\ t \in DOMAIN a
    BY <1>1, <2>1, <2>2
  <2> QED BY <2>2, <2>3
<1>6. Differ(a, c, locked \cup more)
  BY <1>4, <1>5 DEF Differ
<1> QED BY <1>6

LEMMA OperateKeeps ==
    ASSUME MigrationInv, NEW m \in Migrators, Operate(m) PROVE MigrationInv'
<1> PICK op : op = NextOp(m)
  OBVIOUS
<1> PICK r : r = [migr[m] EXCEPT !.step = @ + 1]
  OBVIOUS
<1>1. /\ InRevision(m) /\ Free(m, Wanted(m)) /\ Legal(live.schema, op) /\ Lock(m, Wanted(m))
      /\ live' = [live EXCEPT !.schema = Applied(@, op)]
      /\ UNCHANGED committed
  BY DEF Operate
<1>2. migr' = [migr EXCEPT ![m] = r]
  BY DEF Operate
<1>3. /\ migr[m].pc = "running" /\ Wanted(m) = {op.table} \cup Referred(op)
      /\ Rising(m) => op.op # "drop"
      /\ ~Rising(m) => Falling(m) /\ op.op # "create" /\ op.table # Stamps
  BY <1>1, NextOpIs
<1>4. /\ migr[m] \in MigratorState /\ LocksNamed(m) /\ migr \in [Migrators -> MigratorState]
      /\ MigrationState(live) /\ MigrationState(committed)
      /\ Differ(live.schema, committed.schema, DOMAIN holder)
  BY MigratorIs DEF MigrationInv, MigratorsKept
<1>5. /\ r \in MigratorState /\ r.pc = "running" /\ r.at = migr[m].at /\ r.target = migr[m].target
  BY <1>3, <1>4 DEF MigratorState
<1>6. live' = [schema |-> Applied(live.schema, op), stamp |-> live.stamp]
  BY <1>1, <1>4 DEF MigrationState
<1>7. /\ DOMAIN holder' = DOMAIN holder \cup Wanted(m) /\ HeldBy(m)' = HeldBy(m) \cup Wanted(m)
      /\ \A n : n # m => HeldBy(n)' = HeldBy(n)
      /\ \A n : n # m => HeldBy(n) \cap Wanted(m) = {}
  BY <1>1, Locked
<1>8. Rising(m)' = Rising(m) /\ Falling(m)' = Falling(m)
  <2>1. migr'[m] = r
    BY <1>2, <1>4
  <2> QED BY <1>5, <2>1 DEF Rising, Falling
\* What m wants and is there uncommitted it has locked itself.
<1>9. ASSUME Falling(m), NEW t \in Wanted(m) \ {Stamps}, t \in DOMAIN live.schema
      PROVE  t \in DOMAIN committed.schema
  <2>1. CASE t \in DOMAIN holder
    <3>1. t \in HeldBy(m)
      BY <1>1, <1>9, <2>1 DEF Free, HeldBy
    <3> QED BY <1>4, <1>9, <3>1 DEF LocksNamed
  <2>2. CASE t \notin DOMAIN holder
    BY <1>4, <1>9, <2>2 DEF Differ
  <2> QED BY <2>1, <2>2
<1>10. /\ DOMAIN live'.schema = IF op.op = "create" THEN DOMAIN live.schema \cup {op.table}
                  ELSE IF op.op = "drop" THEN DOMAIN live.schema \ {op.table} ELSE DOMAIN live.schema
       /\ op.op # "create" => op.table \in DOMAIN live.schema
       /\ Referred(op) \subseteq DOMAIN live.schema \cup {op.table}
  <2>1. live'.schema = Applied(live.schema, op)
    BY <1>6
  <2> PICK l : l = live.schema
    OBVIOUS
  <2>2. Legal(l, op)
    BY <1>1
  <2>3. /\ DOMAIN Applied(l, op) = IF op.op = "create" THEN DOMAIN l \cup {op.table}
                  ELSE IF op.op = "drop" THEN DOMAIN l \ {op.table} ELSE DOMAIN l
        /\ op.op # "create" => op.table \in DOMAIN l
        /\ Referred(op) \subseteq DOMAIN l \cup {op.table}
    BY <2>2, TablesAfter
  <2> QED BY <2>1, <2>3
<1>11. op.op = "drop" => op.table \in DOMAIN committed.schema
  BY <1>3, <1>9, <1>10
<1>12. LocksNamed(m)'
  <2> SUFFICES ASSUME NEW t \in HeldBy(m)' \ {Stamps}
               PROVE  /\ Rising(m) => t \in DOMAIN live'.schema
                      /\ Falling(m) => t \in DOMAIN committed.schema
    BY <1>1, <1>8 DEF LocksNamed
  <2>1. CASE t \in HeldBy(m)
    BY <1>3, <1>4, <1>10, <2>1 DEF LocksNamed
  <2>2. CASE t \in Wanted(m)
    <3>1. Rising(m) => t \in DOMAIN live'.schema
      BY <1>3, <1>10, <2>2
    <3>2. Falling(m) => t \in DOMAIN live.schema
      <4>1. Falling(m) => ~Rising(m)
        BY MigratorIs DEF Falling, Rising
      <4> QED BY <1>3, <1>10, <2>2, <4>1
    <3> QED BY <1>9, <2>2, <3>1, <3>2
  <2> QED BY <1>7, <2>1, <2>2
<1>13. Differ(live'.schema, committed'.schema, DOMAIN holder')
  <2>1. Differ(Applied(live.schema, op), committed.schema, DOMAIN holder \cup Wanted(m))
    BY <1>1, <1>3, <1>4, <1>11, DifferGrows
  <2> QED BY <1>1, <1>6, <1>7, <2>1
<1>14. MigrationState(live') /\ MigrationState(committed')
  BY <1>1, <1>4, <1>6 DEF MigrationState
\* What others have locked the operation does not name.
<1>15. ASSUME NEW n \in Migrators \ {m}
       PROVE  /\ HeldBy(n)' = HeldBy(n)
              /\ \A t \in HeldBy(n) :
                     /\ t \in DOMAIN live.schema => t \in DOMAIN live'.schema
                     /\ t \in DOMAIN committed.schema => t \in DOMAIN committed'.schema
  <2>1. op.table \notin HeldBy(n)
    BY <1>3, <1>7
  <2> QED BY <1>1, <1>7, <1>10, <2>1
<1> QED BY <1>2, <1>5, <1>12, <1>13, <1>14, <1>15, MigratorsGoOn DEF MigrationInv

LEMMA StampKeeps ==
    ASSUME MigrationInv, NEW m \in Migrators, Stamp(m) PROVE MigrationInv'
<1> PICK w : w = migr[m]
  OBVIOUS
<1> PICK next : next = NextVersion(m)
  OBVIOUS
<1> PICK r : r = [pc |-> w.pc, at |-> next, target |-> w.target, step |-> 0, overtaken |-> w.overtaken]
  OBVIOUS
<1>1. /\ AtStamp(m) /\ Free(m, Wanted(m)) /\ Lock(m, Wanted(m))
      /\ live' = [live EXCEPT !.stamp = (@ \ {migr[m].at}) \cup ({NextVersion(m)} \ {0})]
      /\ UNCHANGED committed
  BY DEF Stamp
<1>2. migr' = [migr EXCEPT ![m].at = next, ![m].step = 0]
  BY DEF Stamp
<1>3. /\ w \in MigratorState /\ LocksNamed(m) /\ migr \in [Migrators -> MigratorState]
      /\ w.at \in Nat /\ w.target \in Nat /\ w.at <= HeadVersion /\ w.target <= HeadVersion
      /\ MigrationState(live) /\ MigrationState(committed)
      /\ Differ(live.schema, committed.schema, DOMAIN holder)
  BY MigratorIs DEF MigrationInv, MigratorsKept
<1>4. migr' = [migr EXCEPT ![m] = r]
  <2>1. w = [pc |-> w.pc, at |-> w.at, target |-> w.target, step |-> w.step, overtaken |-> w.overtaken]
    BY <1>3 DEF MigratorState
  <2>2. migr'[m] = r
    BY <1>2, <1>3, <2>1
  <2>3. \A n \in Migrators \ {m} : migr'[n] = migr[n]
    BY <1>2, <1>3
  <2>4. migr' = [n \in Migrators |-> migr'[n]]
    BY <1>2, <1>3
  <2> QED BY <1>3, <2>2, <2>3, <2>4
<1>5. w.pc = "running" /\ w.at # w.target /\ Wanted(m) = {Stamps}
  BY <1>1 DEF AtStamp, Underway, InRevision, Wanted
<1>6. /\ next \in 0..HeadVersion
      /\ next < w.target => w.at < w.target
      /\ w.target < next => w.target < w.at
  BY <1>3, <1>5, HeadVersionIs DEF NextVersion, Rising
<1>7. r \in MigratorState /\ r.pc = "running"
  BY <1>3, <1>5, <1>6 DEF MigratorState
<1>8. live' = [schema |-> live.schema, stamp |-> (live.stamp \ {w.at}) \cup ({next} \ {0})]
  BY <1>1, <1>3 DEF MigrationState
<1>9. MigrationState(live') /\ MigrationState(committed') /\ live'.schema = live.schema
  <2>1. {next} \ {0} \subseteq 1..HeadVersion
    BY <1>6, HeadVersionIs
  <2> QED BY <1>1, <1>3, <1>8, <2>1 DEF MigrationState
<1>10. /\ DOMAIN holder' = DOMAIN holder \cup {Stamps} /\ HeldBy(m)' = HeldBy(m) \cup {Stamps}
       /\ \A n : n # m => HeldBy(n)' = HeldBy(n)
  BY <1>1, <1>5, Locked
<1>11. LocksNamed(m)'
  <2>1. (Rising(m)' => Rising(m)) /\ (Falling(m)' => Falling(m))
    <3>1. migr'[m] = r
      BY <1>3, <1>4
    <3> QED BY <1>6, <3>1 DEF Rising, Falling
  <2> QED BY <1>1, <1>3, <1>9, <1>10, <2>1 DEF LocksNamed
<1>12. MigratorsKept'
  BY <1>1, <1>4, <1>7, <1>9, <1>10, <1>11, MigratorsGoOn
<1>13. Differ(live'.schema, committed'.schema, DOMAIN holder')
  BY <1>1, <1>3, <1>9, <1>10 DEF Differ
<1> QED BY <1>12, <1>13 DEF MigrationInv

LEMMA RollbackKeeps ==
    ASSUME MigrationInv, NEW m \in Migrators, NEW pc \in {"refused", "stopped"}, Rollback(m, pc)
    PROVE  MigrationInv'
<1> PICK r : r = [Idle EXCEPT !.pc = pc, !.overtaken = migr[m].overtaken]
  OBVIOUS
<1>1. /\ live' = MergedState(live, committed, HeldBy(m)) /\ Unlock(m)
      /\ migr' = [migr EXCEPT ![m] = r] /\ UNCHANGED committed
  BY DEF Rollback
<1>2. /\ migr[m] \in MigratorState /\ MigrationState(live) /\ MigrationState(committed)
      /\ Differ(live.schema, committed.schema, DOMAIN holder)
  BY MigratorIs
<1>3. r \in MigratorState
  <2>1. 0 \in 0..HeadVersion /\ migr[m].overtaken \in BOOLEAN
    BY <1>2, HeadVersionIs DEF MigratorState
  <2> QED BY <2>1 DEF MigratorState, Idle
<1>4. /\ DOMAIN holder' = DOMAIN holder \ HeldBy(m) /\ HeldBy(m)' = {}
      /\ \A n : n # m => HeldBy(n)' = HeldBy(n)
      /\ \A n : n # m => HeldBy(n) \cap HeldBy(m) = {}
  BY <1>1, Unlocked
<1>5. /\ MigrationState(live') /\ MigrationState(committed')
      /\ live'.schema = Merged(live.schema, committed.schema, HeldBy(m))
  BY <1>1, <1>2, MergedStates
<1>6. LocksNamed(m)'
  BY <1>4 DEF LocksNamed
<1>7. \A n \in Migrators \ {m} :
          /\ HeldBy(n)' = HeldBy(n)
          /\ \A t \in HeldBy(n) : /\ t \in DOMAIN live.schema => t \in DOMAIN live'.schema
                                  /\ t \in DOMAIN committed.schema => t \in DOMAIN committed'.schema
  <2>1. DOMAIN live'.schema =
            (DOMAIN live.schema \ HeldBy(m)) \cup (DOMAIN committed.schema \cap HeldBy(m))
    BY <1>5 DEF Merged
  <2> QED BY <1>1, <1>4, <2>1
<1>8. MigratorsKept'
  BY <1>1, <1>3, <1>4, <1>5, <1>6, <1>7, MigratorsGoOn
<1>9. Differ(live'.schema, committed'.schema, DOMAIN holder')
  <2> PICK names : names = HeldBy(m)
    OBVIOUS
  <2>1. Differ(Merged(live.schema, committed.schema, names), committed.schema, DOMAIN holder \ names)
    BY <1>2, DifferEnds
  <2> QED BY <1>1, <1>4, <1>5, <2>1
<1> QED BY <1>8, <1>9 DEF MigrationInv

LEMMA CommitKeeps ==
    ASSUME MigrationInv, NEW m \in Migrators, Commit(m) PROVE MigrationInv'
<1>1. /\ committed' = MergedState(committed, live, HeldBy(m)) /\ Unlock(m)
      /\ migr' = [n \in Migrators |->
                     IF n = m THEN Idle
                     ELSE [migr[n] EXCEPT !.overtaken = @ \/ migr[n].pc = "running"]]
      /\ UNCHANGED live
  BY DEF Commit
<1>2. /\ MigrationState(live) /\ MigrationState(committed)
      /\ Differ(live.schema, committed.schema, DOMAIN holder)
  BY MigratorIs
<1>3. /\ DOMAIN holder' = DOMAIN holder \ HeldBy(m) /\ HeldBy(m)' = {}
      /\ \A n : n # m => HeldBy(n)' = HeldBy(n)
      /\ \A n : n # m => HeldBy(n) \cap HeldBy(m) = {}
  BY <1>1, Unlocked
<1>4. /\ MigrationState(live') /\ MigrationState(committed')
      /\ committed'.schema = Merged(committed.schema, live.schema, HeldBy(m))
  BY <1>1, <1>2, MergedStates
<1>5. Idle \in MigratorState
  BY HeadVersionIs DEF Idle, MigratorState
<1>6. ASSUME NEW n \in Migrators \ {m}
      PROVE  /\ migr'[n] \in MigratorState /\ migr'[n].pc = migr[n].pc
             /\ migr'[n].at = migr[n].at /\ migr'[n].target = migr[n].target
  <2> PICK w : w = migr[n]
    OBVIOUS
  <2> PICK b : b = (w.overtaken \/ w.pc = "running")
    OBVIOUS
  <2>1. w \in MigratorState
    BY MigratorIs
  <2>2. b \in BOOLEAN
    BY Zenon
  <2>3. migr'[n] = [w EXCEPT !.overtaken = b]
    BY <1>1
  <2> QED BY <2>1, <2>2, <2>3 DEF MigratorState
<1>7. migr' \in [Migrators -> MigratorState]
  BY <1>1, <1>5, <1>6
<1>8. \A n \in Migrators : HeldBy(n)' # {} => migr'[n].pc = "running"
  BY <1>3, <1>6 DEF MigrationInv, MigratorsKept
<1>9. ASSUME NEW n \in Migrators PROVE LocksNamed(n)'
  <2>1. CASE n = m
    BY <1>3, <2>1 DEF LocksNamed
  <2>2. CASE n # m
    <3>1. Rising(n)' = Rising(n) /\ Falling(n)' = Falling(n)
      BY <1>6, <2>2 DEF Rising, Falling
    <3>2. DOMAIN committed'.schema =
              (DOMAIN committed.schema \ HeldBy(m)) \cup (DOMAIN live.schema \cap HeldBy(m))
      BY <1>4 DEF Merged
    <3>3. LocksNamed(n) /\ HeldBy(n)' = HeldBy(n) /\ HeldBy(n) \cap HeldBy(m) = {}
      BY <1>3, <2>2, MigratorIs
    <3> QED BY <1>1, <3>1, <3>2, <3>3 DEF LocksNamed
  <2> QED BY <2>1, <2>2
<1>10. Differ(live'.schema, committed'.schema, DOMAIN holder')
  <2> PICK names : names = HeldBy(m)
    OBVIOUS
  <2>1. Differ(live.schema, Merged(committed.schema, live.schema, names), DOMAIN holder \ names)
    BY <1>2, DifferEnds
  <2> QED BY <1>1, <1>3, <1>4, <2>1
<1> QED BY <1>4, <1>7, <1>8, <1>9, <1>10 DEF MigrationInv, MigratorsKept

LEMMA AgainKeeps ==
    ASSUME MigrationInv, NEW m \in Migrators, Again(m) PROVE MigrationInv'
<1>1. /\ migr[m].pc # "running" /\ migr' = [migr EXCEPT ![m] = Idle]
      /\ UNCHANGED <<committed, live, holder>>
  BY DEF Again
<1>2. Idle \in MigratorState
  BY HeadVersionIs DEF Idle, MigratorState
<1>3. \A n : HeldBy(n)' = HeldBy(n)
  BY <1>1 DEF HeldBy
<1>4. HeldBy(m) = {}
  BY <1>1 DEF MigrationInv, MigratorsKept
<1>5. HeldBy(m)' = {} /\ LocksNamed(m)'
  BY <1>3, <1>4 DEF LocksNamed
<1>6. MigratorsKept'
  BY <1>1, <1>2, <1>3, <1>5, MigratorIs, MigratorsGoOn
<1> QED BY <1>1, <1>6 DEF MigrationInv

LEMMA MigrationNextInv == MigrationInv /\ [Next]_vars => MigrationInv'
<1> SUFFICES ASSUME MigrationInv, [Next]_vars PROVE MigrationInv'
  OBVIOUS
<1>1. CASE UNCHANGED vars
  BY <1>1 DEF vars, MigrationInv, MigratorsKept, LocksNamed, HeldBy, Rising, Falling
<1>2. CASE Next
  <2> PICK m \in Migrators :
          \/ \E target \in 0..HeadVersion : Begin(m, target)
          \/ Operate(m) \/ Refused(m)
          \/ Stamp(m) \/ StampRefused(m)
          \/ Commit(m) \/ Crash(m) \/ DeadlockVictim(m) \/ Again(m)
    BY <1>2 DEF Next
  <2>1. CASE \E target \in 0..HeadVersion : Begin(m, target)
    BY <2>1, BeginKeeps
  <2>2. CASE Operate(m)
    BY <2>2, OperateKeeps
  <2>3. CASE Stamp(m)
    BY <2>3, StampKeeps
  <2>4. CASE Commit(m)
    BY <2>4, CommitKeeps
  <2>5. CASE Refused(m) \/ StampRefused(m) \/ Crash(m) \/ DeadlockVictim(m)
    <3>1. Rollback(m, "refused") \/ Rollback(m, "stopped")
      BY <2>5 DEF Refused, StampRefused, Crash, DeadlockVictim
    <3> QED BY <3>1, RollbackKeeps
  <2>6. CASE Again(m)
    BY <2>6, AgainKeeps
  <2> QED BY <2>1, <2>2, <2>3, <2>4, <2>5, <2>6
<1> QED BY <1>1, <1>2

LEMMA MigrationInitInv == Init => MigrationInv
<1> SUFFICES ASSUME Init PROVE MigrationInv
  OBVIOUS
<1> PICK v \in {c[1] : c \in Commands} :
        /\ committed = [schema |-> SchemaAt[v + 1], stamp |-> IF v = 0 THEN {} ELSE {v}]
        /\ live = committed /\ holder = Empty /\ migr = [m \in Migrators |-> Idle]
  BY DEF Init
<1>1. v \in 0..HeadVersion
  BY CommandsAssumption DEF CommandsAssumption
<1>2. MigrationState(committed) /\ MigrationState(live)
  <2>1. v = 0 \/ v \in 1..HeadVersion
    BY <1>1, HeadVersionIs
  <2> QED BY <2>1 DEF MigrationState
<1>3. DOMAIN holder = {} /\ \A n : HeldBy(n) = {}
  BY DEF Empty, HeldBy
<1>4. Idle \in MigratorState
  BY HeadVersionIs DEF Idle, MigratorState
<1>5. Differ(live.schema, committed.schema, DOMAIN holder)
  BY <1>3 DEF Differ
<1> QED BY <1>2, <1>3, <1>4, <1>5 DEF MigrationInv, MigratorsKept, LocksNamed

\* In every reachable state, for any number of migrators, commands between any versions and
\* failures at any statement: a change that is not committed is in a table, or the row of
\* versions, that a running transaction has locked (alembic/env.py:74-83).  The tables a way
\* down has locked are those it found committed; those a way up has locked are there.
THEOREM ChangesLocked == Spec => []TypeOK
BY MigrationInitInv, MigrationNextInv, MigrationTyped, PTL DEF Spec

-----------------------------------------------------------------------------
\* Two schemas agree about a table: both have it, alike, or neither has.
Same(a, b, t) == (t \in DOMAIN a <=> t \in DOMAIN b) /\ (t \in DOMAIN a => a[t] = b[t])

StampOf(v) == IF v = 0 THEN {} ELSE {v}
Versioned(s) == \E v \in 0..HeadVersion : s.stamp = StampOf(v) /\ s.schema = SchemaOf(v)

Ascends(r) == r.target > r.at
OperationsAhead(r) == IF Ascends(r) THEN Revisions[r.at + 1].up ELSE Revisions[r.at].down
NextAhead(r) == IF Ascends(r) THEN r.at + 1 ELSE r.at - 1

\* The schema a migrator is at, if nobody else is at work.
Reached(r) == IF r.at = r.target THEN SchemaOf(r.at)
              ELSE IF Ascends(r) THEN UpStages[r.at + 1][r.step + 1]
              ELSE DownStages[r.at][r.step + 1]

\* The version its command found: the one it is at until it has stamped another.
Found(r, held, c) == IF Stamps \in held THEN VersionOf(c.stamp) ELSE r.at

\* A migrator r that has locked held, where l is live and c is committed.  What it has
\* locked is as it would be alone, if the table was found as in that version; the rest of
\* that version it has not changed.
OnCourse(r, held, l, c) ==
    /\ \A t \in held \ {Stamps} :
           Same(c.schema, SchemaOf(Found(r, held, c)), t) => Same(l.schema, Reached(r), t)
    /\ \A t : t \notin held => Same(Reached(r), SchemaOf(Found(r, held, c)), t)
    /\ ~r.overtaken => Found(r, held, c) = VersionOf(c.stamp)
    /\ r.at = r.target => r.step = 0
    /\ Stamps \in held => l.stamp = StampOf(r.at)
    /\ Stamps \notin held /\ r.step = 0 => held = {}
    /\ Stamps \notin held /\ r.at = 0 /\ r.step > 0 =>
           FirstTable \in held /\ FirstTable \notin DOMAIN c.schema

\* Table t of schema l: each index has a name of that table's, and a foreign key that is not
\* in the committed schema c is of a migrator that has locked both tables.
TableStands(t, l, c, locks) ==
    /\ t \in Tables /\ IsTable(l[t])
    /\ \A i \in l[t].indexes : i.name \in NamesFor(t)
    /\ \A r \in l[t].refs :
           \/ t \in DOMAIN c /\ r \in c[t].refs
           \/ t \in DOMAIN locks /\ r[3] \in DOMAIN locks /\ locks[r[3]] = locks[t]

VersionsKept ==
    /\ Versioned(committed)
    /\ Stamps \notin DOMAIN holder => live.stamp = committed.stamp
    /\ \A m \in Migrators :
           migr[m].pc = "running" => OnCourse(migr[m], HeldBy(m), live, committed)
    /\ \A m \in Migrators : migr[m].pc = "refused" => migr[m].overtaken
    /\ \A t \in DOMAIN live.schema : TableStands(t, live.schema, committed.schema, holder)

-----------------------------------------------------------------------------
\* An operation does to a table what it does elsewhere to the same table, and nothing to
\* any but the one it names.
LEMMA SameAfter ==
    ASSUME NEW a, NEW b, NEW op, NEW t, Same(a, b, t)
    PROVE  Same(Applied(a, op), Applied(b, op), t)
<1>1. CASE op.op = "create"
  BY <1>1 DEF Applied, Same
<1>2. CASE op.op = "drop"
  BY <1>2 DEF Applied, Same
<1>3. CASE op.op \notin {"create", "drop"}
  <2>1. /\ Applied(a, op) = [a EXCEPT ![op.table] = TableAfter(a[op.table], op)]
        /\ Applied(b, op) = [b EXCEPT ![op.table] = TableAfter(b[op.table], op)]
    BY <1>3 DEF Applied
  <2> QED BY <2>1 DEF Same
<1> QED BY <1>1, <1>2, <1>3

LEMMA OthersAfter ==
    ASSUME NEW a, NEW op, NEW t, t # op.table
    PROVE  Same(Applied(a, op), a, t)
<1>1. CASE op.op = "create"
  BY <1>1 DEF Applied, Same
<1>2. CASE op.op = "drop"
  BY <1>2 DEF Applied, Same
<1>3. CASE op.op \notin {"create", "drop"}
  <2>1. Applied(a, op) = [a EXCEPT ![op.table] = TableAfter(a[op.table], op)]
    BY <1>3 DEF Applied
  <2> QED BY <2>1 DEF Same
<1> QED BY <1>1, <1>2, <1>3

LEMMA SameChain ==
    ASSUME NEW a, NEW b, NEW t
    PROVE  /\ Same(a, a, t)
           /\ Same(a, b, t) => Same(b, a, t)
           /\ \A c : Same(a, b, t) /\ Same(b, c, t) => Same(a, c, t)
BY DEF Same

LEMMA VersionOfStamp == ASSUME NEW v PROVE VersionOf(StampOf(v)) = v
<1>1. CASE v = 0
  BY <1>1 DEF VersionOf, StampOf
<1>2. CASE v # 0
  BY <1>2 DEF VersionOf, StampOf
<1> QED BY <1>1, <1>2

LEMMA VersionIs ==
    ASSUME NEW c, Versioned(c)
    PROVE  /\ VersionOf(c.stamp) \in 0..HeadVersion
           /\ c.stamp = StampOf(VersionOf(c.stamp))
           /\ c.schema = SchemaOf(VersionOf(c.stamp))
BY VersionOfStamp DEF Versioned

\* What the facts about the revisions say of a migrator on its way.
LEMMA Ahead ==
    ASSUME NEW r \in MigratorState, r.at # r.target
    PROVE  /\ Len(OperationsAhead(r)) \in Nat
           /\ NextAhead(r) \in 0..HeadVersion /\ NextAhead(r) # r.at
           /\ r.step = 0 => Reached(r) = SchemaOf(r.at)
           /\ r.step = Len(OperationsAhead(r)) => Reached(r) = SchemaOf(NextAhead(r))
           /\ r.step < Len(OperationsAhead(r)) =>
                  LET op == OperationsAhead(r)[r.step + 1]
                  IN  /\ op \in AllOperations /\ Legal(Reached(r), op)
                      /\ \A s : /\ s.at = r.at /\ s.target = r.target /\ s.step = r.step + 1
                                => Reached(s) = Applied(Reached(r), op)
           /\ r.at = 0 => OperationsAhead(r) = Revisions[1].up /\ Ascends(r)
<1>1. /\ r.at \in Nat /\ r.target \in Nat /\ r.at <= HeadVersion /\ r.target <= HeadVersion
      /\ r.step \in Nat /\ HeadVersion \in Nat
  BY HeadVersionIs DEF MigratorState
<1>2. CASE Ascends(r)
  <2> PICK v : v = r.at + 1
    OBVIOUS
  <2>1. v \in Versions /\ v \in 1..HeadVersion /\ v - 1 = r.at
    BY <1>1, <1>2 DEF Ascends, Versions
  <2> PICK ops : ops = Revisions[v].up
    OBVIOUS
  <2> PICK stages : stages = UpStages[v]
    OBVIOUS
  <2>2. Leads(stages, ops, SchemaOf(r.at), SchemaOf(v)) /\ Len(ops) \in Nat
    BY <2>1, StagesAssumption, RevisionsAssumption DEF StagesAssumption, RevisionsAssumption
  <2>3. OperationsAhead(r) = ops /\ NextAhead(r) = v /\ Reached(r) = stages[r.step + 1]
    BY <1>2 DEF OperationsAhead, NextAhead, Reached
  <2>4. ASSUME r.step < Len(ops), NEW op, op = ops[r.step + 1]
        PROVE  /\ op \in AllOperations /\ Legal(Reached(r), op)
               /\ \A s : /\ s.at = r.at /\ s.target = r.target /\ s.step = r.step + 1
                         => Reached(s) = Applied(Reached(r), op)
    <3> PICK i : i = r.step + 1
      OBVIOUS
    <3>1. i \in 1..Len(ops)
      BY <1>1, <2>2, <2>4
    <3>2. Legal(stages[i], ops[i]) /\ stages[i + 1] = Applied(stages[i], ops[i])
      BY <2>2, <3>1 DEF Leads
    <3>3. ops[i] \in OperationsOf(Revisions[v])
      BY <3>1 DEF OperationsOf
    <3>4. op \in AllOperations
      BY <2>1, <2>4, <3>3 DEF AllOperations
    <3>5. ASSUME NEW s, s.at = r.at, s.target = r.target, s.step = r.step + 1
          PROVE  Reached(s) = stages[i + 1]
      BY <1>2, <3>5 DEF Reached, Ascends
    <3> QED BY <2>3, <2>4, <3>2, <3>4, <3>5
  <2>5. r.step = 0 => Reached(r) = SchemaOf(r.at)
    BY <2>2, <2>3 DEF Leads
  <2>6. r.step = Len(ops) => Reached(r) = SchemaOf(v)
    BY <2>2, <2>3 DEF Leads
  <2>7. v \in 0..HeadVersion /\ v # r.at
    BY <1>1, <2>1
  <2>8. r.at = 0 => ops = Revisions[1].up
    BY <1>1
  <2> QED BY <1>2, <2>2, <2>3, <2>4, <2>5, <2>6, <2>7, <2>8
<1>3. CASE ~Ascends(r)
  <2> PICK v : v = r.at
    OBVIOUS
  <2>1. v \in Versions /\ v \in 1..HeadVersion /\ v # 0
    BY <1>1, <1>3 DEF Ascends, Versions
  <2> PICK ops : ops = Revisions[v].down
    OBVIOUS
  <2> PICK stages : stages = DownStages[v]
    OBVIOUS
  <2>2. Leads(stages, ops, SchemaOf(v), SchemaOf(v - 1)) /\ Len(ops) \in Nat
    BY <2>1, StagesAssumption, RevisionsAssumption DEF StagesAssumption, RevisionsAssumption
  <2>3. OperationsAhead(r) = ops /\ NextAhead(r) = v - 1 /\ Reached(r) = stages[r.step + 1]
    BY <1>3 DEF OperationsAhead, NextAhead, Reached
  <2>4. ASSUME r.step < Len(ops), NEW op, op = ops[r.step + 1]
        PROVE  /\ op \in AllOperations /\ Legal(Reached(r), op)
               /\ \A s : /\ s.at = r.at /\ s.target = r.target /\ s.step = r.step + 1
                         => Reached(s) = Applied(Reached(r), op)
    <3> PICK i : i = r.step + 1
      OBVIOUS
    <3>1. i \in 1..Len(ops)
      BY <1>1, <2>2, <2>4
    <3>2. Legal(stages[i], ops[i]) /\ stages[i + 1] = Applied(stages[i], ops[i])
      BY <2>2, <3>1 DEF Leads
    <3>3. ops[i] \in OperationsOf(Revisions[v])
      BY <3>1 DEF OperationsOf
    <3>4. op \in AllOperations
      BY <2>1, <2>4, <3>3 DEF AllOperations
    <3>5. ASSUME NEW s, s.at = r.at, s.target = r.target, s.step = r.step + 1
          PROVE  Reached(s) = stages[i + 1]
      BY <1>3, <3>5 DEF Reached, Ascends
    <3> QED BY <2>3, <2>4, <3>2, <3>4, <3>5
  <2>5. r.step = 0 => Reached(r) = SchemaOf(r.at)
    BY <2>2, <2>3 DEF Leads
  <2>6. r.step = Len(ops) => Reached(r) = SchemaOf(v - 1)
    BY <2>2, <2>3 DEF Leads
  <2>7. v - 1 \in 0..HeadVersion /\ v - 1 # r.at
    BY <1>1, <2>1
  <2> QED BY <1>3, <2>1, <2>2, <2>3, <2>4, <2>5, <2>6, <2>7
<1> QED BY <1>2, <1>3

LEMMA NoStampsTable == Stamps \notin Tables
<1>1. \A op \in AllOperations : op.table # Stamps
  BY OperationsAssumption DEF OperationsAssumption, Touched
<1> QED BY <1>1 DEF Tables

LEMMA BeginsOnCourse ==
    ASSUME NEW r \in MigratorState, NEW l, NEW c, r.at = VersionOf(c.stamp), r.step = 0
    PROVE  OnCourse(r, {}, l, c)
<1>1. Reached(r) = SchemaOf(r.at)
  <2>1. CASE r.at = r.target
    BY <2>1 DEF Reached
  <2>2. CASE r.at # r.target
    BY <2>2, Ahead
  <2> QED BY <2>1, <2>2
<1>2. Found(r, {}, c) = r.at
  BY DEF Found
<1> QED BY <1>1, <1>2, SameChain DEF OnCourse

\* One operation on: names is what it touches, all of it locked before or as committed.
LEMMA OperatesOnCourse ==
    ASSUME NEW r \in MigratorState, NEW held, NEW l, NEW c, NEW op, NEW names,
           NEW s, NEW l2,
           OnCourse(r, held, l, c), r.at # r.target, r.step < Len(OperationsAhead(r)),
           op = OperationsAhead(r)[r.step + 1], names = Touched(op),
           \A t \in names : t \in held \/ Same(l.schema, c.schema, t),
           Legal(l.schema, op),
           s.at = r.at, s.target = r.target, s.step = r.step + 1, s.overtaken = r.overtaken,
           l2.schema = Applied(l.schema, op), l2.stamp = l.stamp
    PROVE  OnCourse(s, held \cup names, l2, c)
<1>1. /\ op \in AllOperations /\ Reached(s) = Applied(Reached(r), op)
      /\ r.at = 0 => OperationsAhead(r) = Revisions[1].up
  BY Ahead
<1>2. Stamps \notin names /\ op.table \in names
  BY <1>1, OperationsAssumption DEF OperationsAssumption, Touched
<1> PICK g : g = Reached(r)
  OBVIOUS
<1> PICK home : home = SchemaOf(Found(r, held, c))
  OBVIOUS
<1>3. Found(s, held \cup names, c) = Found(r, held, c)
  BY <1>2 DEF Found
<1>4. /\ \A t \in held \ {Stamps} : Same(c.schema, home, t) => Same(l.schema, g, t)
      /\ \A t : t \notin held => Same(g, home, t)
  BY DEF OnCourse
<1>5. ASSUME NEW t \in (held \cup names) \ {Stamps}, Same(c.schema, home, t)
      PROVE  Same(l2.schema, Reached(s), t)
  <2>1. Same(l.schema, g, t)
    <3>1. CASE t \in held
      BY <1>4, <1>5, <3>1
    <3>2. CASE t \notin held
      <4>1. Same(l.schema, c.schema, t) /\ Same(g, home, t)
        BY <1>4, <1>5, <3>2
      <4> QED BY <1>5, <4>1 DEF Same
    <3> QED BY <3>1, <3>2
  <2> QED BY <1>1, <2>1, SameAfter
<1>6. ASSUME NEW t, t \notin held \cup names PROVE Same(Reached(s), home, t)
  <2>1. t # op.table /\ Same(g, home, t)
    BY <1>2, <1>4, <1>6
  <2>2. Same(Applied(g, op), g, t)
    BY <2>1, OthersAfter
  <2> QED BY <1>1, <2>1, <2>2, SameChain
<1>7. ASSUME Stamps \notin held, r.at = 0
      PROVE  FirstTable \in held \cup names /\ FirstTable \notin DOMAIN c.schema
  <2>1. CASE r.step > 0
    BY <1>7, <2>1 DEF OnCourse
  <2>2. CASE ~(r.step > 0)
    <3>1. r.step = 0 /\ held = {}
      BY <1>7, <2>2 DEF OnCourse, MigratorState
    <3>2. op = Revisions[1].up[1]
      BY <1>1, <1>7, <3>1
    <3>3. op.op = "create" /\ op.table = FirstTable
      BY <3>2, FirstAssumption DEF FirstAssumption, FirstTable
    <3>4. FirstTable \notin DOMAIN l.schema
      BY <3>3 DEF Legal
    <3>5. Same(l.schema, c.schema, FirstTable)
      BY <1>2, <3>1, <3>3
    <3> QED BY <1>2, <3>3, <3>4, <3>5 DEF Same
  <2> QED BY <2>1, <2>2
<1>8. s.step # 0 /\ s.at # s.target
  BY DEF MigratorState
<1> QED BY <1>2, <1>3, <1>5, <1>6, <1>7, <1>8 DEF OnCourse

\* The row of versions, where a migrator is about to write it, is the one it started from.
LEMMA StampIsFound ==
    ASSUME NEW r \in MigratorState, NEW held, NEW l, NEW c, OnCourse(r, held, l, c), Versioned(c),
           r.at # r.target, r.step = Len(OperationsAhead(r)),
           Stamps \in held \/ l.stamp = c.stamp,
           IF r.at = 0 THEN 1 \notin l.stamp ELSE r.at \in l.stamp
    PROVE  /\ l.stamp = StampOf(r.at)
           /\ Stamps \notin held => VersionOf(c.stamp) = r.at
<1>1. CASE Stamps \in held
  BY <1>1 DEF OnCourse
<1>2. CASE Stamps \notin held
  <2> PICK v \in 0..HeadVersion : c.stamp = StampOf(v) /\ c.schema = SchemaOf(v)
    BY DEF Versioned
  <2>1. l.stamp = StampOf(v) /\ VersionOf(c.stamp) = v
    BY <1>2, VersionOfStamp
  <2>2. CASE r.at # 0
    BY <2>1, <2>2 DEF StampOf
  <2>3. CASE r.at = 0
    <3>1. r.step > 0
      BY <2>3, Ahead, FirstAssumption DEF FirstAssumption
    <3>2. FirstTable \notin DOMAIN SchemaOf(v)
      BY <1>2, <2>3, <3>1 DEF OnCourse
    <3>3. v \notin Versions
      BY <3>2, FirstAssumption DEF FirstAssumption
    <3>4. v = 0
      BY <3>3, HeadVersionIs DEF Versions
    <3> QED BY <2>1, <2>3, <3>4
  <2> QED BY <2>1, <2>2, <2>3
<1> QED BY <1>1, <1>2

LEMMA StampsOnCourse ==
    ASSUME NEW r \in MigratorState, NEW held, NEW l, NEW c, OnCourse(r, held, l, c), Versioned(c),
           r.at # r.target, r.step = Len(OperationsAhead(r)),
           Stamps \in held \/ l.stamp = c.stamp,
           IF r.at = 0 THEN 1 \notin l.stamp ELSE r.at \in l.stamp,
           NEW s \in MigratorState, NEW l2,
           s.at = NextAhead(r), s.target = r.target, s.step = 0, s.overtaken = r.overtaken,
           l2.schema = l.schema, l2.stamp = (l.stamp \ {r.at}) \cup ({NextAhead(r)} \ {0})
    PROVE  OnCourse(s, held \cup {Stamps}, l2, c)
<1>1. l.stamp = StampOf(r.at) /\ (Stamps \notin held => VersionOf(c.stamp) = r.at)
  BY StampIsFound
<1>2. Reached(r) = SchemaOf(NextAhead(r)) /\ NextAhead(r) # r.at
  BY Ahead
<1>3. Reached(s) = SchemaOf(s.at)
  <2>1. CASE s.at = s.target
    BY <2>1 DEF Reached
  <2>2. CASE s.at # s.target
    BY <2>2, Ahead
  <2> QED BY <2>1, <2>2
<1>4. Found(s, held \cup {Stamps}, c) = Found(r, held, c)
  BY <1>1 DEF Found
<1>5. l2.stamp = StampOf(s.at)
  BY <1>1, <1>2 DEF StampOf
<1>6. Found(s, held \cup {Stamps}, c) = VersionOf(c.stamp)
  BY DEF Found
<1> QED BY <1>2, <1>3, <1>4, <1>5, <1>6 DEF OnCourse

\* Somebody else's step, which touches nothing the migrator has locked.
LEMMA StaysOnCourse ==
    ASSUME NEW r, NEW held, NEW l, NEW c, NEW s, NEW l2, NEW c2, OnCourse(r, held, l, c),
           s.at = r.at, s.target = r.target, s.step = r.step,
           \A t \in held \ {Stamps} : Same(l2.schema, l.schema, t) /\ Same(c2.schema, c.schema, t),
           Stamps \in held => l2.stamp = l.stamp /\ c2.stamp = c.stamp,
           ~s.overtaken => ~r.overtaken /\ c2.stamp = c.stamp
    PROVE  OnCourse(s, held, l2, c2)
<1>1. Reached(s) = Reached(r)
  BY DEF Reached, Ascends
<1>2. Found(s, held, c2) = Found(r, held, c)
  BY DEF Found
<1> PICK g : g = Reached(r)
  OBVIOUS
<1> PICK home : home = SchemaOf(Found(r, held, c))
  OBVIOUS
<1>3. \A t \in held \ {Stamps} : Same(c2.schema, home, t) => Same(l2.schema, g, t)
  <2> SUFFICES ASSUME NEW t \in held \ {Stamps}, Same(c2.schema, home, t) PROVE Same(l2.schema, g, t)
    OBVIOUS
  <2>1. Same(c.schema, home, t)
    BY SameChain
  <2>2. Same(l.schema, g, t)
    BY <2>1 DEF OnCourse
  <2> QED BY <2>2, SameChain
<1>4. Stamps # FirstTable
  <2>1. 1 \in Versions /\ 1 \in 1..HeadVersion
    BY HeadVersionIs, FirstAssumption DEF FirstAssumption, Versions
  <2>2. 1 \in 1..Len(Revisions[1].up)
    BY <2>1, FirstAssumption, RevisionsAssumption DEF FirstAssumption, RevisionsAssumption
  <2>3. Revisions[1].up[1] \in OperationsOf(Revisions[1])
    BY <2>2 DEF OperationsOf
  <2>4. Revisions[1].up[1] \in AllOperations
    BY <2>1, <2>3 DEF AllOperations
  <2> QED BY <2>4, NoStampsTable DEF FirstTable, Tables
<1>5. FirstTable \in held /\ FirstTable \notin DOMAIN c.schema => FirstTable \notin DOMAIN c2.schema
  BY <1>4 DEF Same
<1>6. /\ \A t : t \notin held => Same(g, home, t)
      /\ ~r.overtaken => Found(r, held, c) = VersionOf(c.stamp)
      /\ r.at = r.target => r.step = 0
      /\ Stamps \in held => l.stamp = StampOf(r.at)
      /\ Stamps \notin held /\ r.step = 0 => held = {}
      /\ Stamps \notin held /\ r.at = 0 /\ r.step > 0 =>
             FirstTable \in held /\ FirstTable \notin DOMAIN c.schema
  BY DEF OnCourse
<1> QED BY <1>1, <1>2, <1>3, <1>5, <1>6 DEF OnCourse

LEMMA SchemaIs ==
    ASSUME NEW v \in 0..HeadVersion
    PROVE  /\ SchemaOf(v) = [t \in DOMAIN SchemaOf(v) |-> SchemaOf(v)[t]]
           /\ DOMAIN SchemaOf(v) \subseteq Tables /\ Stamps \notin DOMAIN SchemaOf(v)
           /\ \A t \in DOMAIN SchemaOf(v) :
                  IsTable(SchemaOf(v)[t]) /\ \A i \in SchemaOf(v)[t].indexes : i.name \in NamesFor(t)
BY SchemasAssumption, NoStampsTable DEF SchemasAssumption

\* What a migrator commits is a version.
LEMMA EndsOnCourse ==
    ASSUME NEW r \in MigratorState, NEW held, NEW l, NEW c, OnCourse(r, held, l, c), Versioned(c),
           r.at = r.target, Stamps \notin DOMAIN l.schema
    PROVE  Versioned(MergedState(c, l, held))
<1> PICK v \in 0..HeadVersion : c.stamp = StampOf(v) /\ c.schema = SchemaOf(v)
  BY DEF Versioned
<1> PICK d : d = Merged(c.schema, l.schema, held)
  OBVIOUS
<1>1. /\ DOMAIN d = (DOMAIN c.schema \ held) \cup (DOMAIN l.schema \cap held)
      /\ \A t \in DOMAIN d : d[t] = IF t \in held THEN l.schema[t] ELSE c.schema[t]
      /\ d = [t \in DOMAIN d |-> d[t]]
  BY DEF Merged
<1>2. VersionOf(c.stamp) = v /\ r.at \in 0..HeadVersion
  BY VersionOfStamp DEF MigratorState
<1>3. CASE Stamps \in held
  <2>1. Found(r, held, c) = v /\ Reached(r) = SchemaOf(r.at) /\ l.stamp = StampOf(r.at)
    BY <1>2, <1>3 DEF Found, Reached, OnCourse
  <2>2. ASSUME NEW t PROVE Same(d, SchemaOf(r.at), t)
    <3>1. CASE t \in held \ {Stamps}
      <4>1. Same(l.schema, SchemaOf(r.at), t)
        BY <2>1, <3>1, SameChain DEF OnCourse
      <4> QED BY <1>1, <3>1, <4>1 DEF Same
    <3>2. CASE t \notin held
      <4>1. Same(SchemaOf(r.at), c.schema, t)
        BY <2>1, <3>2 DEF OnCourse
      <4> QED BY <1>1, <3>2, <4>1 DEF Same
    <3>3. CASE t = Stamps
      <4>1. t \notin DOMAIN d /\ t \notin DOMAIN SchemaOf(r.at)
        BY <1>1, <1>2, <1>3, <3>3, SchemaIs
      <4> QED BY <4>1 DEF Same
    <3> QED BY <3>1, <3>2, <3>3
  <2>3. d = SchemaOf(r.at)
    <3> PICK e : e = SchemaOf(r.at)
      OBVIOUS
    <3>1. e = [t \in DOMAIN e |-> e[t]]
      BY <1>2, SchemaIs
    <3>2. DOMAIN d = DOMAIN e /\ \A t \in DOMAIN d : d[t] = e[t]
      BY <2>2 DEF Same
    <3> QED BY <1>1, <3>1, <3>2
  <2>4. MergedState(c, l, held) = [schema |-> d, stamp |-> l.stamp]
    BY <1>3 DEF MergedState
  <2> QED BY <1>2, <2>1, <2>3, <2>4 DEF Versioned
<1>4. CASE Stamps \notin held
  <2>1. held = {}
    BY <1>4 DEF OnCourse
  <2>2. d = c.schema
    <3> PICK e : e = c.schema
      OBVIOUS
    <3>1. e = [t \in DOMAIN e |-> e[t]]
      BY SchemaIs
    <3>2. DOMAIN d = DOMAIN e /\ \A t \in DOMAIN d : d[t] = e[t]
      BY <1>1, <2>1
    <3> QED BY <1>1, <3>1, <3>2
  <2>3. MergedState(c, l, held) = [schema |-> d, stamp |-> c.stamp]
    BY <1>4 DEF MergedState
  <2> QED BY <2>2, <2>3 DEF Versioned
<1> QED BY <1>3, <1>4

-----------------------------------------------------------------------------
LEMMA OperationIs ==
    ASSUME NEW op \in AllOperations
    PROVE  /\ op.op \in Kinds /\ op.table \in Tables
           /\ op.op = "index" => op.index.name \in NamesFor(op.table)
BY OperationsAssumption DEF OperationsAssumption, Tables, NamesFor

LEMMA TableAfterIs ==
    ASSUME NEW op, NEW table, IsTable(table), op.op \in Kinds \ {"create", "drop"}
    PROVE  /\ IsTable(TableAfter(table, op))
           /\ \A r \in TableAfter(table, op).refs :
                  r \in table.refs \/ (op.op = "refer" /\ r = op.ref)
           /\ \A i \in TableAfter(table, op).indexes :
                  i \in table.indexes \/ (op.op = "index" /\ i = op.index)
<1>1. CASE op.op \in {"index", "drop index"}
  BY <1>1 DEF TableAfter, IsTable
<1>2. CASE op.op = "add"
  BY <1>2 DEF TableAfter, IsTable
<1>3. CASE op.op = "remove"
  BY <1>3 DEF TableAfter, IsTable, Without
<1>4. CASE op.op \in {"refer", "unrefer"}
  BY <1>4 DEF TableAfter, IsTable
<1>5. CASE op.op \in {"seed", "purge", "update"}
  BY <1>5 DEF TableAfter, IsTable
<1> QED BY <1>1, <1>2, <1>3, <1>4, <1>5 DEF Kinds

TablesStand(l, c, locks) == \A t \in DOMAIN l : TableStands(t, l, c, locks)

\* A legal operation leaves the tables in order, once m has locked what it touches.
LocksTouched(op, m, locks, more) ==
    /\ DOMAIN more = DOMAIN locks \cup Touched(op)
    /\ \A t \in DOMAIN locks : more[t] = locks[t]
    /\ \A t \in Touched(op) : more[t] = m

LEMMA OperatedStands ==
    ASSUME NEW l, NEW c, NEW locks, NEW op \in AllOperations, NEW more, NEW m, Legal(l, op),
           TablesStand(l, c, locks), LocksTouched(op, m, locks, more)
    PROVE  TablesStand(Applied(l, op), c, more)
<1> SUFFICES ASSUME NEW a, a = Applied(l, op), NEW t \in DOMAIN a PROVE TableStands(t, a, c, more)
  BY DEF TablesStand
<1>0. /\ \A u \in DOMAIN l : TableStands(u, l, c, locks)
      /\ DOMAIN more = DOMAIN locks \cup Touched(op)
      /\ \A u \in DOMAIN locks : more[u] = locks[u]
      /\ \A u \in Touched(op) : more[u] = m
  BY DEF TablesStand, LocksTouched
<1>1. /\ DOMAIN a = IF op.op = "create" THEN DOMAIN l \cup {op.table}
                    ELSE IF op.op = "drop" THEN DOMAIN l \ {op.table} ELSE DOMAIN l
      /\ op.op # "create" => op.table \in DOMAIN l
      /\ \A u \in DOMAIN l \ {op.table} : a[u] = l[u]
  BY TablesAfter
<1>2. CASE t # op.table
  <2>1. TableStands(t, l, c, locks) /\ a[t] = l[t]
    BY <1>0, <1>1, <1>2
  <2> QED BY <1>0, <2>1 DEF TableStands
<1>3. CASE t = op.table /\ op.op = "create"
  <2>1. a[t] = [must |-> op.must, may |-> op.may, refs |-> op.refs, uniques |-> op.uniques,
                indexes |-> {}, rows |-> {}]
    BY <1>3 DEF Applied
  <2>2. \A r \in op.refs : r[3] \in Touched(op)
    BY <1>3 DEF Touched, Referred
  <2>3. t \in Touched(op)
    BY <1>3 DEF Touched
  <2> QED BY <1>0, <1>3, <2>1, <2>2, <2>3, OperationIs DEF TableStands, IsTable
<1>4. CASE t = op.table /\ op.op # "create"
  <2>1. op.op # "drop" /\ t \in DOMAIN l /\ TableStands(t, l, c, locks)
    BY <1>0, <1>1, <1>4
  <2>2. a[t] = TableAfter(l[t], op)
    BY <1>4, <2>1 DEF Applied
  <2>3. op.op \in Kinds \ {"create", "drop"} /\ IsTable(l[t])
    BY <1>4, <2>1, OperationIs DEF TableStands
  <2>4. /\ IsTable(a[t])
        /\ \A r \in a[t].refs : r \in l[t].refs \/ (op.op = "refer" /\ r = op.ref)
        /\ \A i \in a[t].indexes : i \in l[t].indexes \/ (op.op = "index" /\ i = op.index)
    BY <2>2, <2>3, TableAfterIs
  <2>5. \A i \in a[t].indexes : i.name \in NamesFor(t)
    BY <1>4, <2>1, <2>4, OperationIs DEF TableStands
  <2>6. ASSUME NEW r \in a[t].refs
        PROVE  \/ t \in DOMAIN c /\ r \in c[t].refs
               \/ t \in DOMAIN more /\ r[3] \in DOMAIN more /\ more[r[3]] = more[t]
    <3>1. CASE r \in l[t].refs
      BY <1>0, <2>1, <3>1 DEF TableStands
    <3>2. CASE op.op = "refer" /\ r = op.ref
      <4>1. r[3] \in Touched(op) /\ t \in Touched(op)
        BY <1>4, <3>2 DEF Touched, Referred
      <4> QED BY <1>0, <4>1
    <3> QED BY <2>4, <3>1, <3>2
  <2> QED BY <2>1, <2>4, <2>5, <2>6 DEF TableStands
<1> QED BY <1>2, <1>3, <1>4

\* What is legal where a migrator would be alone is legal where it is, if what it touches is
\* the same there and what others have locked is the committed schema's in g.
AmongOthers(op, m, l, c, g, locks) ==
    /\ \A t \in Touched(op) : t \in DOMAIN locks => locks[t] = m
    /\ \A t : (t \in DOMAIN locks => locks[t] = m) /\ t # Stamps => Same(l, g, t)
    /\ \A t \in DOMAIN locks : locks[t] # m => Same(g, c, t)

LEMMA LegalAmongOthers ==
    ASSUME NEW l, NEW c, NEW g, NEW locks, NEW op \in AllOperations, NEW m, Legal(g, op),
           TablesStand(l, c, locks), AmongOthers(op, m, l, c, g, locks)
    PROVE  Legal(l, op)
<1>0. /\ \A t \in DOMAIN l : TableStands(t, l, c, locks)
      /\ \A t \in Touched(op) : t \in DOMAIN locks => locks[t] = m
      /\ \A t : (t \in DOMAIN locks => locks[t] = m) /\ t # Stamps => Same(l, g, t)
      /\ \A t \in DOMAIN locks : locks[t] # m => Same(g, c, t)
  BY DEF TablesStand, AmongOthers
<1>1. op.op \in Kinds /\ op.table \in Tables /\ op.table \in Touched(op) /\ Stamps \notin Touched(op)
  BY OperationIs, OperationsAssumption DEF OperationsAssumption, Touched
<1>2. Same(l, g, op.table)
  BY <1>0, <1>1
<1>3. \A t \in Referred(op) : t \in DOMAIN g => t \in DOMAIN l
  <2> SUFFICES ASSUME NEW t \in Referred(op), t \in DOMAIN g PROVE t \in DOMAIN l
    OBVIOUS
  <2>1. t \in Touched(op) /\ t # Stamps
    BY <1>1 DEF Touched
  <2>2. Same(l, g, t)
    BY <1>0, <2>1
  <2> QED BY <2>2 DEF Same
<1>4. op.op # "create" =>
          op.table \in DOMAIN l /\ op.table \in DOMAIN g /\ l[op.table] = g[op.table]
  BY <1>2 DEF Legal, Same
<1>5. CASE op.op = "create"
  <2>1. op.table \notin DOMAIN l
    BY <1>2, <1>5 DEF Legal, Same
  <2>2. Referred(op) \subseteq DOMAIN l \cup {op.table}
    BY <1>3, <1>5 DEF Legal
  <2> QED BY <1>5, <2>1, <2>2 DEF Legal
<1>6. CASE op.op = "drop"
  <2>1. ASSUME NEW t \in DOMAIN l \ {op.table}, NEW r \in l[t].refs PROVE r[3] # op.table
    <3>1. TableStands(t, l, c, locks) /\ t # Stamps
      BY <1>0, NoStampsTable DEF TableStands
    <3>2. ASSUME t \in DOMAIN g, r \in g[t].refs PROVE r[3] # op.table
      BY <1>6, <3>2 DEF Legal
    <3>3. CASE t \in DOMAIN locks => locks[t] = m
      BY <1>0, <3>1, <3>2, <3>3 DEF Same
    <3>4. CASE t \in DOMAIN locks /\ locks[t] # m
      <4>1. Same(g, c, t)
        BY <1>0, <3>4
      <4>2. CASE t \in DOMAIN c /\ r \in c[t].refs
        BY <3>2, <4>1, <4>2 DEF Same
      <4>3. CASE r[3] \in DOMAIN locks /\ locks[r[3]] = locks[t]
        BY <1>0, <1>1, <3>4, <4>3
      <4> QED BY <3>1, <4>2, <4>3 DEF TableStands
    <3> QED BY <3>3, <3>4
  <2> QED BY <1>4, <1>6, <2>1 DEF Legal
<1>7. CASE op.op = "index"
  <2>1. op.index.name \notin IndexNames(g) /\ op.index.cols \subseteq Columns(l[op.table])
    BY <1>4, <1>7 DEF Legal
  <2>2. ASSUME NEW t \in DOMAIN l, NEW i \in l[t].indexes, i.name = op.index.name PROVE FALSE
    <3>1. i.name \in NamesFor(t) /\ t \in Tables
      BY <1>0 DEF TableStands
    <3>2. t = op.table
      BY <1>1, <1>7, <2>2, <3>1, OperationIs, NamesAssumption DEF NamesAssumption
    <3>3. i \in g[op.table].indexes /\ op.table \in DOMAIN g
      BY <1>4, <1>7, <3>2
    <3> QED BY <2>1, <2>2, <3>3 DEF IndexNames
  <2>3. op.index.name \notin IndexNames(l)
    BY <2>2 DEF IndexNames
  <2> QED BY <1>4, <1>7, <2>1, <2>3 DEF Legal
<1>8. CASE op.op = "refer"
  <2>1. op.ref[3] \in DOMAIN l
    BY <1>3, <1>8 DEF Legal, Referred
  <2> QED BY <1>4, <1>8, <2>1 DEF Legal
<1>9. CASE op.op \in {"drop index", "add", "remove", "unrefer", "seed", "purge", "update"}
  BY <1>4, <1>9 DEF Legal
<1> QED BY <1>1, <1>5, <1>6, <1>7, <1>8, <1>9 DEF Kinds

-----------------------------------------------------------------------------
\* The migrators' views of VersionsKept.
LEMMA CourseIs ==
    ASSUME MigrationInv, VersionsKept, NEW m \in Migrators, migr[m].pc = "running"
    PROVE  /\ migr[m] \in MigratorState
           /\ OnCourse(migr[m], HeldBy(m), live, committed)
           /\ Operations(m) = OperationsAhead(migr[m]) /\ NextVersion(m) = NextAhead(migr[m])
           /\ \A t : t \notin DOMAIN holder => Same(live.schema, committed.schema, t)
           /\ Stamps \notin DOMAIN holder => live.stamp = committed.stamp
           /\ Versioned(committed) /\ Stamps \notin DOMAIN live.schema
<1>1. \A t : t \notin DOMAIN holder => Same(live.schema, committed.schema, t)
  BY MigratorIs DEF Differ, Same
<1>2. Operations(m) = OperationsAhead(migr[m]) /\ NextVersion(m) = NextAhead(migr[m])
  BY DEF Operations, OperationsAhead, NextVersion, NextAhead, Rising, Ascends
<1>3. Stamps \notin DOMAIN live.schema
  BY NoStampsTable DEF VersionsKept, TableStands
<1> QED BY <1>1, <1>2, <1>3, MigratorIs DEF VersionsKept

\* The step of a migrator m that commits nothing: what it leaves as r is on course, and what
\* others have locked is as it was.
LEMMA VersionsGoOn ==
    ASSUME MigrationInv, VersionsKept, NEW m \in Migrators, NEW r,
           migr' = [migr EXCEPT ![m] = r], committed' = committed,
           r.pc = "running" => OnCourse(r, HeldBy(m)', live', committed),
           r.pc = "refused" => r.overtaken,
           Stamps \notin DOMAIN holder' => live'.stamp = committed.stamp,
           \A n \in Migrators \ {m} :
               /\ HeldBy(n)' = HeldBy(n)
               /\ \A t \in HeldBy(n) \ {Stamps} : Same(live'.schema, live.schema, t)
               /\ Stamps \in HeldBy(n) => live'.stamp = live.stamp,
           \A t \in DOMAIN live'.schema : TableStands(t, live'.schema, committed.schema, holder')
    PROVE  VersionsKept'
<1>1. migr \in [Migrators -> MigratorState]
  BY DEF MigrationInv, MigratorsKept
<1>2. migr'[m] = r /\ \A n \in Migrators \ {m} : migr'[n] = migr[n]
  BY <1>1
<1>3. ASSUME NEW n \in Migrators, migr'[n].pc = "running"
      PROVE  OnCourse(migr'[n], HeldBy(n)', live', committed')
  <2>1. CASE n = m
    BY <1>2, <1>3, <2>1
  <2>2. CASE n # m
    <3>1. OnCourse(migr[n], HeldBy(n), live, committed) /\ migr'[n] = migr[n]
      BY <1>2, <1>3, <2>2 DEF VersionsKept
    <3>2. \A t : Same(committed.schema, committed.schema, t)
      BY SameChain
    <3>3. OnCourse(migr[n], HeldBy(n), live', committed)
      BY <2>2, <3>1, <3>2, StaysOnCourse
    <3> QED BY <2>2, <3>1, <3>3
  <2> QED BY <2>1, <2>2
<1>4. \A n \in Migrators : migr'[n].pc = "refused" => migr'[n].overtaken
  BY <1>2 DEF VersionsKept
<1> QED BY <1>3, <1>4 DEF VersionsKept

LEMMA BeginVersions ==
    ASSUME MigrationInv, VersionsKept, NEW m \in Migrators, NEW target \in 0..HeadVersion,
           Begin(m, target)
    PROVE  VersionsKept'
<1> PICK r : r = [pc |-> "running", at |-> VersionOf(committed.stamp),
                  target |-> target, step |-> 0, overtaken |-> FALSE]
  OBVIOUS
<1>1. /\ migr' = [migr EXCEPT ![m] = r] /\ migr[m].pc = "idle"
      /\ UNCHANGED <<committed, live, holder>>
  BY DEF Begin
<1>2. Versioned(committed) /\ VersionOf(committed.stamp) \in 0..HeadVersion
  BY VersionIs DEF VersionsKept
<1>3. r \in MigratorState /\ r.at = VersionOf(committed.stamp) /\ r.step = 0 /\ r.pc = "running"
  BY <1>2 DEF MigratorState
<1>4. \A n : HeldBy(n)' = HeldBy(n)
  BY <1>1 DEF HeldBy
<1>5. HeldBy(m)' = {}
  BY <1>1, <1>4 DEF MigrationInv, MigratorsKept
<1>6. OnCourse(r, HeldBy(m)', live', committed)
  BY <1>3, <1>5, BeginsOnCourse
<1>7. \A t : Same(live'.schema, live.schema, t)
  BY <1>1, SameChain
<1>8. \A t \in DOMAIN live'.schema : TableStands(t, live'.schema, committed.schema, holder')
  BY <1>1 DEF VersionsKept
<1>9. Stamps \notin DOMAIN holder' => live'.stamp = committed.stamp
  BY <1>1 DEF VersionsKept
<1> QED BY <1>1, <1>3, <1>4, <1>6, <1>7, <1>8, <1>9, VersionsGoOn

LEMMA OperateVersions ==
    ASSUME MigrationInv, VersionsKept, NEW m \in Migrators, Operate(m) PROVE VersionsKept'
<1> PICK op : op = NextOp(m)
  OBVIOUS
<1> PICK w : w = migr[m]
  OBVIOUS
<1> PICK r : r = [w EXCEPT !.step = @ + 1]
  OBVIOUS
<1>1. /\ InRevision(m) /\ Free(m, Wanted(m)) /\ Legal(live.schema, op) /\ Lock(m, Wanted(m))
      /\ live' = [live EXCEPT !.schema = Applied(@, op)] /\ committed' = committed
  BY DEF Operate
<1>2. migr' = [migr EXCEPT ![m] = r]
  BY DEF Operate
<1>3. w.pc = "running" /\ w.at # w.target /\ Wanted(m) = Touched(op)
  BY <1>1 DEF InRevision, Underway, Wanted
<1>4. /\ w \in MigratorState /\ OnCourse(w, HeldBy(m), live, committed)
      /\ Operations(m) = OperationsAhead(w)
      /\ \A t : t \notin DOMAIN holder => Same(live.schema, committed.schema, t)
      /\ Stamps \notin DOMAIN holder => live.stamp = committed.stamp
  BY <1>3, CourseIs
<1>5. w.step < Len(OperationsAhead(w)) /\ op = OperationsAhead(w)[w.step + 1]
  BY <1>1, <1>4 DEF InRevision, NextOp
<1>6. op \in AllOperations /\ Stamps \notin Touched(op) /\ op.table \in Touched(op)
  BY <1>3, <1>4, <1>5, Ahead, OperationsAssumption DEF OperationsAssumption, Touched
<1>7. live'.schema = Applied(live.schema, op) /\ live'.stamp = live.stamp
  BY <1>1, MigratorIs DEF MigrationState
<1>8. /\ r.pc = "running" /\ r.at = w.at /\ r.target = w.target /\ r.step = w.step + 1
      /\ r.overtaken = w.overtaken
  BY <1>3, <1>4 DEF MigratorState
<1>9. /\ DOMAIN holder' = DOMAIN holder \cup Touched(op) /\ HeldBy(m)' = HeldBy(m) \cup Touched(op)
      /\ \A n : n # m => HeldBy(n)' = HeldBy(n)
      /\ \A n : n # m => HeldBy(n) \cap Touched(op) = {}
  <2> PICK names : names = Wanted(m)
    OBVIOUS
  <2>1. Lock(m, names) /\ Free(m, names)
    BY <1>1
  <2>2. /\ DOMAIN holder' = DOMAIN holder \cup names /\ HeldBy(m)' = HeldBy(m) \cup names
        /\ \A n : n # m => HeldBy(n)' = HeldBy(n)
        /\ \A n : n # m => HeldBy(n) \cap names = {}
    BY <2>1, Locked
  <2> QED BY <1>3, <2>2
<1>10. \A t \in Touched(op) : t \in HeldBy(m) \/ Same(live.schema, committed.schema, t)
  BY <1>1, <1>3, <1>4 DEF Free, HeldBy
<1>11. OnCourse(r, HeldBy(m)', live', committed)
  <2> PICK held : held = HeldBy(m)
    OBVIOUS
  <2> PICK names : names = Touched(op)
    OBVIOUS
  <2>1. OnCourse(r, held \cup names, live', committed)
    <3>1. OnCourse(w, held, live, committed) /\ \A t \in names : t \in held \/ Same(live.schema, committed.schema, t)
      BY <1>4, <1>10
    <3> QED BY <1>1, <1>3, <1>4, <1>5, <1>7, <1>8, <3>1, OperatesOnCourse
  <2> QED BY <1>9, <2>1
<1>12. \A t \in DOMAIN live'.schema : TableStands(t, live'.schema, committed.schema, holder')
  <2>1. /\ \A t \in DOMAIN holder : holder'[t] = holder[t]
        /\ \A t \in Touched(op) : holder'[t] = m
    BY <1>1, <1>3 DEF Lock, Free
  <2>2. \A t \in DOMAIN live.schema : TableStands(t, live.schema, committed.schema, holder)
    BY DEF VersionsKept
  <2> PICK l : l = live.schema
    OBVIOUS
  <2> PICK c : c = committed.schema
    OBVIOUS
  <2> PICK locks : locks = holder
    OBVIOUS
  <2> PICK more : more = holder'
    OBVIOUS
  <2>3. Legal(l, op) /\ TablesStand(l, c, locks) /\ LocksTouched(op, m, locks, more)
    BY <1>1, <1>9, <2>1, <2>2 DEF TablesStand, LocksTouched
  <2>4. TablesStand(Applied(l, op), c, more)
    BY <1>6, <2>3, OperatedStands
  <2> QED BY <1>7, <2>4 DEF TablesStand
<1>13. Stamps \notin DOMAIN holder' => live'.stamp = committed.stamp
  BY <1>4, <1>7, <1>9
<1>14. ASSUME NEW n \in Migrators \ {m}
       PROVE  /\ HeldBy(n)' = HeldBy(n)
              /\ \A t \in HeldBy(n) \ {Stamps} : Same(live'.schema, live.schema, t)
              /\ Stamps \in HeldBy(n) => live'.stamp = live.stamp
  <2>1. op.table \notin HeldBy(n)
    BY <1>6, <1>9
  <2>2. \A t \in HeldBy(n) : Same(Applied(live.schema, op), live.schema, t)
    BY <2>1, OthersAfter
  <2> QED BY <1>7, <1>9, <2>2
<1> QED BY <1>1, <1>2, <1>8, <1>11, <1>12, <1>13, <1>14, VersionsGoOn

LEMMA StampVersions ==
    ASSUME MigrationInv, VersionsKept, NEW m \in Migrators, Stamp(m) PROVE VersionsKept'
<1> PICK w : w = migr[m]
  OBVIOUS
<1> PICK next : next = NextVersion(m)
  OBVIOUS
<1> PICK r : r = [pc |-> w.pc, at |-> next, target |-> w.target, step |-> 0, overtaken |-> w.overtaken]
  OBVIOUS
<1>1. /\ AtStamp(m) /\ Free(m, Wanted(m)) /\ Lock(m, Wanted(m)) /\ StampMatches(m)
      /\ live' = [live EXCEPT !.stamp = (@ \ {w.at}) \cup ({next} \ {0})]
      /\ committed' = committed
  BY DEF Stamp
<1>2. migr' = [migr EXCEPT ![m].at = next, ![m].step = 0]
  BY DEF Stamp
<1>3. w.pc = "running" /\ w.at # w.target /\ Wanted(m) = {Stamps} /\ w.step = Len(Operations(m))
  BY <1>1 DEF AtStamp, Underway, InRevision, Wanted
<1>4. /\ w \in MigratorState /\ OnCourse(w, HeldBy(m), live, committed)
      /\ Operations(m) = OperationsAhead(w) /\ next = NextAhead(w)
      /\ \A t : t \notin DOMAIN holder => Same(live.schema, committed.schema, t)
      /\ Stamps \notin DOMAIN holder => live.stamp = committed.stamp
      /\ Versioned(committed)
  BY <1>3, CourseIs
<1>5. migr' = [migr EXCEPT ![m] = r]
  <2>0. migr \in [Migrators -> MigratorState]
    BY DEF MigrationInv, MigratorsKept
  <2>1. w = [pc |-> w.pc, at |-> w.at, target |-> w.target, step |-> w.step, overtaken |-> w.overtaken]
    BY <1>4 DEF MigratorState
  <2>2. migr'[m] = r
    BY <1>2, <2>0, <2>1
  <2>3. \A n \in Migrators \ {m} : migr'[n] = migr[n]
    BY <1>2, <2>0
  <2>4. migr' = [n \in Migrators |-> migr'[n]]
    BY <1>2, <2>0
  <2> QED BY <2>0, <2>2, <2>3, <2>4
<1>6. w.step = Len(OperationsAhead(w)) /\ next \in 0..HeadVersion
  BY <1>3, <1>4, Ahead
<1>7. r \in MigratorState /\ r.pc = "running"
  BY <1>3, <1>4, <1>6 DEF MigratorState
<1>8. live'.schema = live.schema /\ live'.stamp = (live.stamp \ {w.at}) \cup ({next} \ {0})
  BY <1>1, MigratorIs DEF MigrationState
<1>9. /\ DOMAIN holder' = DOMAIN holder \cup {Stamps} /\ HeldBy(m)' = HeldBy(m) \cup {Stamps}
      /\ \A n : n # m => HeldBy(n)' = HeldBy(n)
      /\ \A n : n # m => HeldBy(n) \cap {Stamps} = {}
  BY <1>1, <1>3, Locked
<1>10. Stamps \in HeldBy(m) \/ live.stamp = committed.stamp
  BY <1>1, <1>3, <1>4 DEF Free, HeldBy
<1>11. IF w.at = 0 THEN 1 \notin live.stamp ELSE w.at \in live.stamp
  BY <1>1 DEF StampMatches
<1>12. OnCourse(r, HeldBy(m)', live', committed)
  <2> PICK held : held = HeldBy(m)
    OBVIOUS
  <2>1. /\ OnCourse(w, held, live, committed) /\ (Stamps \in held \/ live.stamp = committed.stamp)
        /\ r.at = NextAhead(w) /\ r.target = w.target /\ r.step = 0 /\ r.overtaken = w.overtaken
    BY <1>4, <1>10
  <2>2. live'.stamp = (live.stamp \ {w.at}) \cup ({NextAhead(w)} \ {0})
    BY <1>4, <1>8
  <2>3. OnCourse(r, held \cup {Stamps}, live', committed)
    BY <1>3, <1>4, <1>6, <1>7, <1>8, <1>11, <2>1, <2>2, StampsOnCourse
  <2> QED BY <1>9, <2>3
<1>13. \A t \in DOMAIN live'.schema : TableStands(t, live'.schema, committed.schema, holder')
  <2>1. \A t \in DOMAIN holder : holder'[t] = holder[t]
    BY <1>1 DEF Lock, Free
  <2> SUFFICES ASSUME NEW t \in DOMAIN live.schema
               PROVE  TableStands(t, live.schema, committed.schema, holder')
    BY <1>8
  <2>2. TableStands(t, live.schema, committed.schema, holder)
    BY DEF VersionsKept
  <2> QED BY <1>9, <2>1, <2>2 DEF TableStands
<1>14. ASSUME NEW n \in Migrators \ {m}
       PROVE  /\ HeldBy(n)' = HeldBy(n)
              /\ \A t \in HeldBy(n) \ {Stamps} : Same(live'.schema, live.schema, t)
              /\ Stamps \in HeldBy(n) => live'.stamp = live.stamp
  BY <1>8, <1>9, SameChain
<1> QED BY <1>1, <1>5, <1>7, <1>9, <1>12, <1>13, <1>14, VersionsGoOn

LEMMA RollbackVersions ==
    ASSUME MigrationInv, VersionsKept, NEW m \in Migrators, NEW pc \in {"refused", "stopped"},
           pc = "refused" => migr[m].overtaken, Rollback(m, pc)
    PROVE  VersionsKept'
<1> PICK r : r = [Idle EXCEPT !.pc = pc, !.overtaken = migr[m].overtaken]
  OBVIOUS
<1>1. /\ live' = MergedState(live, committed, HeldBy(m)) /\ Unlock(m)
      /\ migr' = [migr EXCEPT ![m] = r] /\ committed' = committed
  BY DEF Rollback
<1>2. r.pc = pc /\ r.overtaken = migr[m].overtaken
  BY DEF Idle
<1>3. /\ DOMAIN holder' = DOMAIN holder \ HeldBy(m)
      /\ \A n : n # m => HeldBy(n)' = HeldBy(n)
      /\ \A n : n # m => HeldBy(n) \cap HeldBy(m) = {}
      /\ \A t \in DOMAIN holder' : holder'[t] = holder[t]
  <2>1. \A t \in DOMAIN holder' : holder'[t] = holder[t]
    BY <1>1 DEF Unlock
  <2> QED BY <1>1, <2>1, Unlocked
<1> PICK l : l = live'.schema
  OBVIOUS
<1>4. /\ live'.stamp = IF Stamps \in HeldBy(m) THEN committed.stamp ELSE live.stamp
      /\ DOMAIN l = (DOMAIN live.schema \ HeldBy(m)) \cup (DOMAIN committed.schema \cap HeldBy(m))
      /\ \A t \in DOMAIN l : l[t] = IF t \in HeldBy(m) THEN committed.schema[t] ELSE live.schema[t]
  <2> PICK names : names = HeldBy(m)
    OBVIOUS
  <2>1. l = Merged(live.schema, committed.schema, names)
    BY <1>1 DEF MergedState
  <2>2. live'.stamp = IF Stamps \in names THEN committed.stamp ELSE live.stamp
    BY <1>1 DEF MergedState
  <2>3. /\ DOMAIN l = (DOMAIN live.schema \ names) \cup (DOMAIN committed.schema \cap names)
        /\ \A t \in DOMAIN l : l[t] = IF t \in names THEN committed.schema[t] ELSE live.schema[t]
    BY <2>1 DEF Merged
  <2> QED BY <2>2, <2>3
<1>5. Stamps \notin DOMAIN holder' => live'.stamp = committed.stamp
  BY <1>3, <1>4 DEF VersionsKept
<1>6. ASSUME NEW n \in Migrators \ {m}
      PROVE  /\ HeldBy(n)' = HeldBy(n)
             /\ \A t \in HeldBy(n) \ {Stamps} : Same(l, live.schema, t)
             /\ Stamps \in HeldBy(n) => live'.stamp = live.stamp
  <2>1. HeldBy(n)' = HeldBy(n) /\ HeldBy(n) \cap HeldBy(m) = {}
    BY <1>3
  <2> QED BY <1>4, <2>1 DEF Same
<1>7. ASSUME NEW t \in DOMAIN l PROVE TableStands(t, l, committed.schema, holder')
  <2>1. CASE t \in HeldBy(m)
    <3> PICK v \in 0..HeadVersion : committed.schema = SchemaOf(v)
      BY DEF VersionsKept, Versioned
    <3>1. t \in DOMAIN committed.schema /\ l[t] = committed.schema[t]
      BY <1>4, <2>1
    <3>2. t \in Tables /\ IsTable(l[t]) /\ \A i \in l[t].indexes : i.name \in NamesFor(t)
      BY <3>1, SchemaIs
    <3> QED BY <3>1, <3>2 DEF TableStands
  <2>2. CASE t \notin HeldBy(m)
    <3>1. t \in DOMAIN live.schema /\ l[t] = live.schema[t]
      BY <1>4, <2>2
    <3>2. TableStands(t, live.schema, committed.schema, holder)
      BY <3>1 DEF VersionsKept
    <3>3. ASSUME NEW x \in DOMAIN holder, t \in DOMAIN holder, holder[x] = holder[t]
          PROVE  x \in DOMAIN holder' /\ t \in DOMAIN holder' /\ holder'[x] = holder'[t]
      <4>1. x \notin HeldBy(m)
        BY <2>2, <3>3 DEF HeldBy
      <4> QED BY <1>3, <2>2, <3>3, <4>1
    <3> QED BY <3>1, <3>2, <3>3 DEF TableStands
  <2> QED BY <2>1, <2>2
<1> QED BY <1>1, <1>2, <1>5, <1>6, <1>7, VersionsGoOn

LEMMA CommitVersions ==
    ASSUME MigrationInv, VersionsKept, NEW m \in Migrators, Commit(m) PROVE VersionsKept'
<1>1. /\ committed' = MergedState(committed, live, HeldBy(m)) /\ Unlock(m)
      /\ migr' = [n \in Migrators |->
                     IF n = m THEN Idle
                     ELSE [migr[n] EXCEPT !.overtaken = @ \/ migr[n].pc = "running"]]
      /\ live' = live /\ migr[m].pc = "running" /\ migr[m].at = migr[m].target
  BY DEF Commit
<1>2. /\ DOMAIN holder' = DOMAIN holder \ HeldBy(m)
      /\ \A n : n # m => HeldBy(n)' = HeldBy(n)
      /\ \A n : n # m => HeldBy(n) \cap HeldBy(m) = {}
      /\ \A t \in DOMAIN holder' : holder'[t] = holder[t]
  <2>1. \A t \in DOMAIN holder' : holder'[t] = holder[t]
    BY <1>1 DEF Unlock
  <2> QED BY <1>1, <2>1, Unlocked
<1>3. Versioned(committed')
  <2> PICK held : held = HeldBy(m)
    OBVIOUS
  <2>1. OnCourse(migr[m], held, live, committed) /\ migr[m] \in MigratorState
        /\ Versioned(committed) /\ Stamps \notin DOMAIN live.schema
    BY <1>1, CourseIs
  <2>2. Versioned(MergedState(committed, live, held))
    BY <1>1, <2>1, EndsOnCourse
  <2> QED BY <1>1, <2>2
<1> PICK c : c = committed'.schema
  OBVIOUS
<1>4. /\ committed'.stamp = IF Stamps \in HeldBy(m) THEN live.stamp ELSE committed.stamp
      /\ DOMAIN c = (DOMAIN committed.schema \ HeldBy(m)) \cup (DOMAIN live.schema \cap HeldBy(m))
      /\ \A t \in DOMAIN c : c[t] = IF t \in HeldBy(m) THEN live.schema[t] ELSE committed.schema[t]
  <2> PICK names : names = HeldBy(m)
    OBVIOUS
  <2>1. c = Merged(committed.schema, live.schema, names)
    BY <1>1 DEF MergedState
  <2>2. committed'.stamp = IF Stamps \in names THEN live.stamp ELSE committed.stamp
    BY <1>1 DEF MergedState
  <2>3. /\ DOMAIN c = (DOMAIN committed.schema \ names) \cup (DOMAIN live.schema \cap names)
        /\ \A t \in DOMAIN c : c[t] = IF t \in names THEN live.schema[t] ELSE committed.schema[t]
    BY <2>1 DEF Merged
  <2> QED BY <2>2, <2>3
<1>5. Stamps \notin DOMAIN holder' => live'.stamp = committed'.stamp
  BY <1>1, <1>2, <1>4 DEF VersionsKept
<1>6. ASSUME NEW n \in Migrators \ {m}
      PROVE  /\ migr'[n].pc = migr[n].pc /\ migr'[n].at = migr[n].at
             /\ migr'[n].target = migr[n].target /\ migr'[n].step = migr[n].step
             /\ migr[n].overtaken => migr'[n].overtaken
             /\ migr[n].pc = "running" => migr'[n].overtaken
  <2> PICK w : w = migr[n]
    OBVIOUS
  <2> PICK b : b = (w.overtaken \/ w.pc = "running")
    OBVIOUS
  <2>1. w \in MigratorState
    BY MigratorIs
  <2>2. b \in BOOLEAN
    BY Zenon
  <2>3. migr'[n] = [w EXCEPT !.overtaken = b]
    BY <1>1
  <2>4. migr'[n].overtaken = b
    BY <2>1, <2>3 DEF MigratorState
  <2>5. /\ migr'[n].pc = w.pc /\ migr'[n].at = w.at
        /\ migr'[n].target = w.target /\ migr'[n].step = w.step
    BY <2>1, <2>3 DEF MigratorState
  <2>6. ASSUME w.overtaken \/ w.pc = "running" PROVE migr'[n].overtaken
    <3>1. b = TRUE
      BY <2>6, Zenon
    <3> QED BY <2>4, <3>1
  <2> QED BY <2>5, <2>6
<1>7. ASSUME NEW n \in Migrators, migr'[n].pc = "running"
      PROVE  OnCourse(migr'[n], HeldBy(n)', live', committed')
  <2>1. n # m
    BY <1>1, <1>7 DEF Idle
  <2>2. OnCourse(migr[n], HeldBy(n), live, committed)
    BY <1>6, <1>7, <2>1 DEF VersionsKept
  <2>3. HeldBy(n)' = HeldBy(n) /\ HeldBy(n) \cap HeldBy(m) = {}
    BY <1>2, <2>1
  <2>4. \A t \in HeldBy(n) \ {Stamps} :
            Same(live.schema, live.schema, t) /\ Same(c, committed.schema, t)
    BY <1>4, <2>3 DEF Same
  <2>5. Stamps \in HeldBy(n) => committed'.stamp = committed.stamp
    BY <1>4, <2>3
  <2>6. migr'[n].overtaken
    BY <1>6, <1>7, <2>1
  <2> PICK r : r = migr[n]
    OBVIOUS
  <2> PICK s : s = migr'[n]
    OBVIOUS
  <2> PICK held : held = HeldBy(n)
    OBVIOUS
  <2> PICK d : d = committed'
    OBVIOUS
  <2>7. /\ OnCourse(r, held, live, committed)
        /\ s.at = r.at /\ s.target = r.target /\ s.step = r.step
        /\ \A t \in held \ {Stamps} :
               Same(live.schema, live.schema, t) /\ Same(d.schema, committed.schema, t)
        /\ Stamps \in held => live.stamp = live.stamp /\ d.stamp = committed.stamp
    BY <1>6, <2>1, <2>2, <2>4, <2>5
  <2>8. ~s.overtaken => ~r.overtaken /\ d.stamp = committed.stamp
    BY <2>6
  <2>9. OnCourse(s, held, live, d)
    BY <2>7, <2>8, StaysOnCourse
  <2> QED BY <1>1, <2>3, <2>9
<1>8. ASSUME NEW n \in Migrators, migr'[n].pc = "refused" PROVE migr'[n].overtaken
  <2>1. n # m
    BY <1>1, <1>8 DEF Idle
  <2>2. migr[n].overtaken
    BY <1>6, <1>8, <2>1 DEF VersionsKept
  <2> QED BY <1>6, <2>1, <2>2
<1>9. ASSUME NEW t \in DOMAIN live.schema PROVE TableStands(t, live.schema, c, holder')
  <2>1. TableStands(t, live.schema, committed.schema, holder)
    BY DEF VersionsKept
  <2>2. CASE t \in HeldBy(m)
    <3>1. t \in DOMAIN c /\ c[t] = live.schema[t]
      BY <1>4, <2>2
    <3> QED BY <2>1, <3>1 DEF TableStands
  <2>3. CASE t \notin HeldBy(m)
    <3>1. t \in DOMAIN committed.schema => t \in DOMAIN c /\ c[t] = committed.schema[t]
      BY <1>4, <2>3
    <3>2. ASSUME NEW x \in DOMAIN holder, t \in DOMAIN holder, holder[x] = holder[t]
          PROVE  x \in DOMAIN holder' /\ t \in DOMAIN holder' /\ holder'[x] = holder'[t]
      <4>1. x \notin HeldBy(m)
        BY <2>3, <3>2 DEF HeldBy
      <4> QED BY <1>2, <2>3, <3>2, <4>1
    <3> QED BY <2>1, <3>1, <3>2 DEF TableStands
  <2> QED BY <2>2, <2>3
<1> QED BY <1>1, <1>3, <1>5, <1>7, <1>8, <1>9 DEF VersionsKept

LEMMA AgainVersions ==
    ASSUME MigrationInv, VersionsKept, NEW m \in Migrators, Again(m) PROVE VersionsKept'
<1>1. /\ migr' = [migr EXCEPT ![m] = Idle] /\ committed' = committed /\ live' = live
      /\ holder' = holder
  BY DEF Again
<1>2. \A n : HeldBy(n)' = HeldBy(n)
  BY <1>1 DEF HeldBy
<1>3. \A t : Same(live'.schema, live.schema, t)
  BY <1>1, SameChain
<1>4. \A t \in DOMAIN live'.schema : TableStands(t, live'.schema, committed.schema, holder')
  BY <1>1 DEF VersionsKept
<1>5. Stamps \notin DOMAIN holder' => live'.stamp = committed.stamp
  BY <1>1 DEF VersionsKept
<1>6. Idle.pc = "idle"
  BY DEF Idle
<1> QED BY <1>1, <1>2, <1>3, <1>4, <1>5, <1>6, VersionsGoOn

\* PostgreSQL, or Alembic, refuses no migrator that nobody has overtaken.
LEMMA RefusedOvertaken ==
    ASSUME MigrationInv, VersionsKept, NEW m \in Migrators, Refused(m) \/ StampRefused(m)
    PROVE  migr[m].overtaken
<1> SUFFICES ASSUME ~migr[m].overtaken PROVE FALSE
  OBVIOUS
<1> PICK w : w = migr[m]
  OBVIOUS
<1>1. w.pc = "running" /\ w.at # w.target /\ Free(m, Wanted(m))
  BY DEF Refused, StampRefused, InRevision, AtStamp, Underway
<1>2. /\ w \in MigratorState /\ OnCourse(w, HeldBy(m), live, committed)
      /\ Operations(m) = OperationsAhead(w)
      /\ \A t : t \notin DOMAIN holder => Same(live.schema, committed.schema, t)
      /\ Stamps \notin DOMAIN holder => live.stamp = committed.stamp
      /\ Versioned(committed)
  BY <1>1, CourseIs
<1> PICK v : v = VersionOf(committed.stamp)
  OBVIOUS
<1>3. /\ Found(w, HeldBy(m), committed) = v /\ committed.schema = SchemaOf(v)
      /\ committed.stamp = StampOf(v)
  BY <1>2, VersionIs DEF OnCourse
<1> PICK g : g = Reached(w)
  OBVIOUS
<1>4. /\ \A t \in HeldBy(m) \ {Stamps} : Same(live.schema, g, t)
      /\ \A t : t \notin HeldBy(m) => Same(g, committed.schema, t)
  BY <1>2, <1>3, SameChain DEF OnCourse
<1>5. CASE Refused(m)
  <2> PICK op : op = NextOp(m)
    OBVIOUS
  <2>1. w.step < Len(OperationsAhead(w)) /\ op = OperationsAhead(w)[w.step + 1]
        /\ ~Legal(live.schema, op) /\ Wanted(m) = Touched(op)
    BY <1>2, <1>5 DEF Refused, InRevision, NextOp, Wanted
  <2>2. op \in AllOperations /\ Legal(g, op)
    BY <1>1, <1>2, <2>1, Ahead
  <2>3. \A t \in Touched(op) : t \in DOMAIN holder => holder[t] = m
    BY <1>1, <2>1 DEF Free
  <2>4. \A t : (t \in DOMAIN holder => holder[t] = m) /\ t # Stamps => Same(live.schema, g, t)
    <3> SUFFICES ASSUME NEW t, t \in DOMAIN holder => holder[t] = m, t # Stamps
                 PROVE  Same(live.schema, g, t)
      OBVIOUS
    <3>1. CASE t \in DOMAIN holder
      BY <1>4, <3>1 DEF HeldBy
    <3>2. CASE t \notin DOMAIN holder
      <4>1. Same(live.schema, committed.schema, t) /\ Same(g, committed.schema, t)
        BY <1>2, <1>4, <3>2 DEF HeldBy
      <4> QED BY <4>1 DEF Same
    <3> QED BY <3>1, <3>2
  <2>5. \A t \in DOMAIN holder : holder[t] # m => Same(g, committed.schema, t)
    BY <1>4 DEF HeldBy
  <2> PICK l : l = live.schema
    OBVIOUS
  <2> PICK c : c = committed.schema
    OBVIOUS
  <2> PICK locks : locks = holder
    OBVIOUS
  <2>6. TablesStand(l, c, locks) /\ AmongOthers(op, m, l, c, g, locks)
    BY <2>3, <2>4, <2>5 DEF VersionsKept, TablesStand, AmongOthers
  <2>7. Legal(l, op)
    BY <2>2, <2>6, LegalAmongOthers
  <2> QED BY <2>1, <2>7
<1>6. CASE StampRefused(m)
  <2>1. Wanted(m) = {Stamps} /\ ~StampMatches(m)
    BY <1>6 DEF StampRefused, AtStamp, Wanted, InRevision
  <2>2. live.stamp = StampOf(w.at)
    <3>1. CASE Stamps \in HeldBy(m)
      BY <1>2, <3>1 DEF OnCourse
    <3>2. CASE Stamps \notin HeldBy(m)
      <4>1. live.stamp = committed.stamp
        BY <1>1, <1>2, <2>1, <3>2 DEF Free, HeldBy
      <4>2. w.at = v
        BY <1>3, <3>2 DEF Found
      <4> QED BY <1>3, <4>1, <4>2
    <3> QED BY <3>1, <3>2
  <2>3. IF w.at = 0 THEN 1 \notin live.stamp ELSE w.at \in live.stamp
    BY <2>2 DEF StampOf
  <2> QED BY <2>1, <2>3 DEF StampMatches
<1> QED BY <1>5, <1>6

LEMMA VersionsNext == MigrationInv /\ VersionsKept /\ [Next]_vars => VersionsKept'
<1> SUFFICES ASSUME MigrationInv, VersionsKept, [Next]_vars PROVE VersionsKept'
  OBVIOUS
<1>1. CASE UNCHANGED vars
  BY <1>1 DEF vars, VersionsKept, HeldBy
<1>2. CASE Next
  <2> PICK m \in Migrators :
          \/ \E target \in 0..HeadVersion : Begin(m, target)
          \/ Operate(m) \/ Refused(m)
          \/ Stamp(m) \/ StampRefused(m)
          \/ Commit(m) \/ Crash(m) \/ DeadlockVictim(m) \/ Again(m)
    BY <1>2 DEF Next
  <2>1. CASE \E target \in 0..HeadVersion : Begin(m, target)
    BY <2>1, BeginVersions
  <2>2. CASE Operate(m)
    BY <2>2, OperateVersions
  <2>3. CASE Stamp(m)
    BY <2>3, StampVersions
  <2>4. CASE Commit(m)
    BY <2>4, CommitVersions
  <2>5. CASE Refused(m) \/ StampRefused(m)
    <3>1. Rollback(m, "refused") /\ migr[m].overtaken
      BY <2>5, RefusedOvertaken DEF Refused, StampRefused
    <3> QED BY <3>1, RollbackVersions
  <2>6. CASE Crash(m) \/ DeadlockVictim(m)
    <3>1. Rollback(m, "stopped")
      BY <2>6 DEF Crash, DeadlockVictim
    <3> QED BY <3>1, RollbackVersions
  <2>7. CASE Again(m)
    BY <2>7, AgainVersions
  <2> QED BY <2>1, <2>2, <2>3, <2>4, <2>5, <2>6, <2>7
<1> QED BY <1>1, <1>2

LEMMA VersionsInit == Init => VersionsKept
<1> SUFFICES ASSUME Init PROVE VersionsKept
  OBVIOUS
<1> PICK v \in {c[1] : c \in Commands} :
        /\ committed = [schema |-> SchemaAt[v + 1], stamp |-> IF v = 0 THEN {} ELSE {v}]
        /\ live = committed /\ holder = Empty /\ migr = [m \in Migrators |-> Idle]
  BY DEF Init
<1>1. v \in 0..HeadVersion
  BY CommandsAssumption DEF CommandsAssumption
<1>2. committed.schema = SchemaOf(v) /\ committed.stamp = StampOf(v)
  BY DEF SchemaOf, StampOf
<1>3. Versioned(committed)
  BY <1>1, <1>2 DEF Versioned
<1>4. \A t \in DOMAIN live.schema : TableStands(t, live.schema, committed.schema, holder)
  BY <1>1, <1>2, SchemaIs DEF TableStands
<1>5. \A m \in Migrators : migr[m].pc = "idle"
  BY DEF Idle
<1> QED BY <1>3, <1>4, <1>5 DEF VersionsKept

\* What SchemaKept says of a state, and of a step that changes the version.
LEMMA VersionsServe ==
    ASSUME VersionsKept PROVE SchemaOfVersion /\ OnlyOvertakenRefused /\ ModelsServed
<1> PICK v \in 0..HeadVersion : committed.stamp = StampOf(v) /\ committed.schema = SchemaOf(v)
  BY DEF VersionsKept, Versioned
<1>1. SchemaOfVersion
  <2>1. Cardinality(committed.stamp) <= 1
    <3>1. Cardinality({}) = 0 /\ Cardinality({v}) = 1
      BY FS_EmptySet, FS_Singleton
    <3> QED BY <3>1 DEF StampOf
  <2>2. committed.schema = SchemaAt[VersionOf(committed.stamp) + 1]
    BY VersionOfStamp DEF SchemaOf
  <2> QED BY <2>1, <2>2 DEF SchemaOfVersion
<1>2. OnlyOvertakenRefused
  BY DEF VersionsKept, OnlyOvertakenRefused
<1>3. ModelsServed
  <2>1. committed.stamp = {HeadVersion} => v = HeadVersion
    BY DEF StampOf
  <2> QED BY <2>1, ModelsAssumption DEF ModelsAssumption, ModelsServed
<1> QED BY <1>1, <1>2, <1>3

LEMMA VersionsAdd ==
    ASSUME VersionsKept, VersionsKept', committed'.stamp # committed.stamp,
           VersionOf(committed'.stamp) > VersionOf(committed.stamp)
    PROVE  Additive(committed.schema, committed'.schema)
<1> PICK v \in 0..HeadVersion : committed.stamp = StampOf(v) /\ committed.schema = SchemaOf(v)
  BY DEF VersionsKept, Versioned
<1> PICK w \in 0..HeadVersion : committed'.stamp = StampOf(w) /\ committed'.schema = SchemaOf(w)
  BY DEF VersionsKept, Versioned
<1>1. w > v
  BY VersionOfStamp
<1>2. v \in 0..w
  BY <1>1, HeadVersionIs
<1> QED BY <1>2, SchemasAssumption DEF SchemasAssumption

\* alembic/env.py:74-83 and entrypoint.sh, for any number of migrators, commands between any
\* two versions, crashes and deadlocks at any statement: a commit leaves the schema of the
\* version it stamps, nobody is refused whom no other commit has overtaken, what is committed
\* at head serves every model, and a newer version lacks nothing an older image uses.
THEOREM SchemaIsKept == Spec => SchemaKept
<1>1. MigrationInv /\ VersionsKept /\ [Next]_vars => MigrationInv' /\ VersionsKept'
  BY MigrationNextInv, VersionsNext
<1>2. Init => MigrationInv /\ VersionsKept
  BY MigrationInitInv, VersionsInit
<1>3. VersionsKept => SchemaOfVersion /\ OnlyOvertakenRefused /\ ModelsServed
  BY VersionsServe
<1>4. VersionsKept /\ VersionsKept' /\ [Next]_vars =>
          [committed'.stamp # committed.stamp /\ VersionOf(committed'.stamp) > VersionOf(committed.stamp)
             => Additive(committed.schema, committed'.schema)]_vars
  BY VersionsAdd
<1>5. Spec => [](MigrationInv /\ VersionsKept)
  BY <1>1, <1>2, PTL DEF Spec
<1>6. Spec => [](SchemaOfVersion /\ OnlyOvertakenRefused /\ ModelsServed)
  BY <1>3, <1>5, PTL
<1>7. Spec => UpgradesAdditive
  BY <1>4, <1>5, PTL DEF Spec, UpgradesAdditive
<1> QED BY <1>6, <1>7 DEF SchemaKept

-----------------------------------------------------------------------------
(***************************************************************************)
(* The records together                                                    *)
(***************************************************************************)
RecordsInv ==
    MigrationInv /\ SessionsInv /\ InvitesInv /\ KeysInv /\ SharesInv /\ OrgInv /\ RolesInv

LEMMA RecordsSteps ==
    ASSUME [RecordsNext]_<<focus, vars, accessVars>>
    PROVE  /\ [Next]_vars /\ [SessionsNext]_sessionsVars /\ [InvitationsNext]_invitationsVars
           /\ [ApiKeysNext]_apiKeysVars /\ [SharedNext]_sharedVars
           /\ [OrganizationsNext]_orgVars /\ [RolesNext]_rolesVars
<1>1. CASE UNCHANGED <<focus, vars, accessVars>>
  BY <1>1 DEF accessVars
<1>2. CASE Next /\ UNCHANGED accessVars
  BY <1>2 DEF accessVars
<1>3. CASE AccessNext /\ UNCHANGED vars
  BY <1>3 DEF AccessNext, OrganizationsMC, RolesMC
<1> QED BY <1>1, <1>2, <1>3 DEF RecordsNext

\* MCRecords: where the migrations, sessions, invitations, keys, links, organizations and
\* roles are side by side, each in its focus, columns, rows and records keep their types,
\* and what no transaction has locked is as it was committed.
THEOREM RecordsTyped == RecordsSpec => []RecordsTypeOK
<1>1. RecordsInit => RecordsInv
  BY MigrationInitInv, SessionsInitInv, InvitesInit, ApiKeysInitInv, SharesInit,
     OrganizationsInitInv, RolesInitInv DEF RecordsInit, RecordsInv
<1>2. RecordsInv /\ [RecordsNext]_<<focus, vars, accessVars>> => RecordsInv'
  <2>1. InvitesInv /\ [InvitationsNext]_invitationsVars => InvitesInv'
    BY InvitesNext, InvitesStutter
  <2>2. SharesInv /\ [SharedNext]_sharedVars => SharesInv'
    BY SharesNext, SharesStutter
  <2> QED BY <2>1, <2>2, RecordsSteps, MigrationNextInv, SessionsNextInv, ApiKeysNextInv,
             OrganizationsNextInv, RolesNextInv DEF RecordsInv
<1>3. RecordsInv => RecordsTypeOK
  BY MigrationTyped
     DEF RecordsInv, SessionsInv, InvitesInv, KeysInv, SharesInv, OrgInv, RolesInv, RecordsTypeOK
<1> QED BY <1>1, <1>2, <1>3, PTL DEF RecordsSpec

===============================================================================
