---------------------------- MODULE WorkspaceProofs ---------------------------
(***************************************************************************)
(* Theorems about what a customer keeps: the domains and bulk runs of a    *)
(* project, the monitors of its researches and the baselines they are      *)
(* compared with, for any number of requests, of rows and of targets.      *)
(*                                                                         *)
(* Each inductive invariant says of a request what it has read that still  *)
(* holds when it writes: of a project that one request launches, and has   *)
(* not come to the targets behind it (BulkRequestKept); of a monitor what  *)
(* became of the schedule it replaces (Orphans, Undisturbed); of a baseline*)
(* that what is about to be stored was observed (BaselineInv).             *)
(***************************************************************************)
EXTENDS Workspace, ProjectMonitoring, Baseline,
        FiniteSetTheorems, SequenceTheorems, FunctionTheorems, TLAPS

-----------------------------------------------------------------------------
(***************************************************************************)
(* Workspace: the domains of a project                                     *)
(***************************************************************************)
DomainsOK == domain \in Seq(ProjectDomain) /\ Len(domain) <= MaxDomains /\ Allowed(domain)

\* The rows d hold one of the domains at most for each host, and one mark.
LEMMA DomainsIn ==
    ASSUME NEW d \in Seq(ProjectDomain)
    PROVE  /\ Len(d) \in Nat /\ DOMAIN d = 1..Len(d)
           /\ \A i \in DOMAIN d : d[i] \in ProjectDomain
           /\ IsFiniteSet(LiveIn(d)) /\ IsFiniteSet(PrimariesIn(d))
           /\ LiveIn(d) \subseteq DOMAIN d /\ PrimariesIn(d) \subseteq LiveIn(d)
<1>1. /\ Len(d) \in Nat /\ DOMAIN d = 1..Len(d)
      /\ LiveIn(d) \subseteq DOMAIN d /\ PrimariesIn(d) \subseteq LiveIn(d)
  BY DEF LiveIn, PrimariesIn
<1>2. \A i \in DOMAIN d : d[i] \in ProjectDomain
  BY <1>1, ElementOfSeq
<1>3. IsFiniteSet(1..Len(d))
  BY <1>1, FS_Interval
<1>4. IsFiniteSet(LiveIn(d))
  BY <1>1, <1>3, FS_Subset
<1>5. IsFiniteSet(PrimariesIn(d))
  BY <1>1, <1>4, FS_Subset
<1> QED BY <1>1, <1>2, <1>4, <1>5

\* Whatever hides rows and takes marks away leaves allowed rows allowed.
LEMMA AllowedFewer ==
    ASSUME NEW d \in Seq(ProjectDomain), NEW e \in Seq(ProjectDomain), Allowed(d),
           LiveIn(e) \subseteq LiveIn(d), PrimariesIn(e) \subseteq PrimariesIn(d),
           \A i \in LiveIn(e) : e[i].host = d[i].host
    PROVE  Allowed(e)
<1>1. Cardinality(PrimariesIn(e)) <= 1
  <2>1. IsFiniteSet(PrimariesIn(d)) /\ Cardinality(PrimariesIn(d)) <= 1
    BY DomainsIn DEF Allowed
  <2>2. /\ Cardinality(PrimariesIn(e)) <= Cardinality(PrimariesIn(d))
        /\ Cardinality(PrimariesIn(e)) \in Nat /\ Cardinality(PrimariesIn(d)) \in Nat
    BY <2>1, FS_Subset, FS_CardinalityType
  <2> QED BY <2>1, <2>2
<1>2. \A i, j \in LiveIn(e) : i # j => e[i].host # e[j].host
  BY DEF Allowed
<1> QED BY <1>1, <1>2 DEF Allowed

\* Two rows with the mark are one.
LEMMA OnePrimary ==
    ASSUME NEW d \in Seq(ProjectDomain), Allowed(d), NEW i \in PrimariesIn(d), NEW j \in PrimariesIn(d)
    PROVE  i = j
<1>1. IsFiniteSet(PrimariesIn(d)) /\ Cardinality(PrimariesIn(d)) <= 1
  BY DomainsIn DEF Allowed
<1> SUFFICES ASSUME i # j PROVE FALSE
  OBVIOUS
<1>2. /\ Cardinality(PrimariesIn(d) \ {i}) = Cardinality(PrimariesIn(d)) - 1
      /\ IsFiniteSet(PrimariesIn(d) \ {i})
  BY <1>1, FS_RemoveElement
<1>3. /\ Cardinality((PrimariesIn(d) \ {i}) \ {j}) = Cardinality(PrimariesIn(d) \ {i}) - 1
      /\ IsFiniteSet((PrimariesIn(d) \ {i}) \ {j})
  BY <1>2, FS_RemoveElement
<1>4. Cardinality((PrimariesIn(d) \ {i}) \ {j}) \in Nat /\ Cardinality(PrimariesIn(d)) \in Nat
  BY <1>1, <1>3, FS_CardinalityType
<1> QED BY <1>1, <1>2, <1>3, <1>4

LEMMA DemotedIs ==
    ASSUME NEW d \in Seq(ProjectDomain), NEW rows
    PROVE  /\ Demoted(d, rows) \in Seq(ProjectDomain) /\ Len(Demoted(d, rows)) = Len(d)
           /\ DOMAIN Demoted(d, rows) = DOMAIN d
           /\ \A i \in DOMAIN d :
                  /\ Demoted(d, rows)[i].host = d[i].host
                  /\ Demoted(d, rows)[i].live = d[i].live
                  /\ i \in rows => ~Demoted(d, rows)[i].primary
                  /\ i \notin rows => Demoted(d, rows)[i].primary = d[i].primary
           /\ LiveIn(Demoted(d, rows)) = LiveIn(d)
           /\ PrimariesIn(Demoted(d, rows)) = PrimariesIn(d) \ rows
<1> PICK e : e = Demoted(d, rows)
  OBVIOUS
<1>1. e = [i \in DOMAIN d |-> IF i \in rows THEN [d[i] EXCEPT !.primary = FALSE] ELSE d[i]]
  BY DEF Demoted
<1>2. Len(d) \in Nat /\ DOMAIN d = 1..Len(d) /\ \A i \in DOMAIN d : d[i] \in ProjectDomain
  BY DomainsIn
<1>3. ASSUME NEW i \in DOMAIN d
      PROVE  /\ e[i] \in ProjectDomain /\ e[i].host = d[i].host /\ e[i].live = d[i].live
             /\ i \in rows => ~e[i].primary
             /\ i \notin rows => e[i].primary = d[i].primary
  <2>1. d[i] \in ProjectDomain
    BY <1>2
  <2>2. CASE i \in rows
    <3>1. e[i] = [d[i] EXCEPT !.primary = FALSE]
      BY <1>1, <2>2
    <3> QED BY <2>1, <2>2, <3>1 DEF ProjectDomain
  <2>3. CASE i \notin rows
    BY <1>1, <2>1, <2>3
  <2> QED BY <2>2, <2>3
<1>4. DOMAIN e = 1..Len(d) /\ e \in [1..Len(d) -> ProjectDomain]
  BY <1>1, <1>2, <1>3
<1>5. e \in Seq(ProjectDomain) /\ Len(e) = Len(d)
  BY <1>2, <1>4
<1>6. LiveIn(e) = LiveIn(d)
  BY <1>2, <1>3, <1>4 DEF LiveIn
<1>7. PrimariesIn(e) = PrimariesIn(d) \ rows
  BY <1>2, <1>3, <1>4, <1>6 DEF PrimariesIn, LiveIn
<1> QED BY <1>2, <1>3, <1>4, <1>5, <1>6, <1>7

LEMMA DemotedAllowed ==
    ASSUME NEW d \in Seq(ProjectDomain), Allowed(d), NEW rows
    PROVE  Allowed(Demoted(d, rows))
<1> PICK e : e = Demoted(d, rows)
  OBVIOUS
<1>1. /\ e \in Seq(ProjectDomain) /\ LiveIn(e) = LiveIn(d) /\ PrimariesIn(e) = PrimariesIn(d) \ rows
      /\ \A i \in DOMAIN d : e[i].host = d[i].host
  BY DemotedIs
<1>2. \A i \in LiveIn(e) : e[i].host = d[i].host
  BY <1>1 DEF LiveIn
<1>3. Allowed(e)
  BY <1>1, <1>2, AllowedFewer
<1> QED BY <1>3

LEMMA InsertedIs ==
    ASSUME NEW d \in Seq(ProjectDomain), NEW new, new.host \in Hosts, new.primary \in BOOLEAN, NEW rows
    PROVE  /\ Inserted(d, new, rows) \in Seq(ProjectDomain)
           /\ Len(Inserted(d, new, rows)) = Len(d) + 1
           /\ \A i \in DOMAIN d : Inserted(d, new, rows)[i] = Demoted(d, rows)[i]
<1> PICK e : e = Demoted(d, rows)
  OBVIOUS
<1> PICK row : row = [host |-> new.host, primary |-> new.primary, live |-> TRUE]
  OBVIOUS
<1>1. row \in ProjectDomain
  BY DEF ProjectDomain
<1>2. e \in Seq(ProjectDomain) /\ Len(e) = Len(d) /\ DOMAIN d = 1..Len(d)
  BY DemotedIs, DomainsIn
<1>3. Inserted(d, new, rows) = Append(e, row)
  BY DEF Inserted
<1> QED BY <1>1, <1>2, <1>3, AppendProperties

\* A row that is stored is written: the others stay as they are.
LEMMA WrittenIs ==
    ASSUME domain \in Seq(ProjectDomain), NEW i \in DOMAIN domain, NEW was, NEW now \in Loaded
    PROVE  /\ Written(i, was, now) \in Seq(ProjectDomain) /\ Len(Written(i, was, now)) = Len(domain)
           /\ DOMAIN Written(i, was, now) = DOMAIN domain
           /\ LiveIn(Written(i, was, now)) = LiveIn(domain)
           /\ \A j \in DOMAIN domain \ {i} : Written(i, was, now)[j] = domain[j]
           /\ Written(i, was, now)[i].primary \in {domain[i].primary, now.primary}
<1> PICK e : e = Written(i, was, now)
  OBVIOUS
<1> PICK row : row = [domain[i] EXCEPT
          !.host = IF now.host # was.host THEN now.host ELSE domain[i].host,
          !.primary = IF now.primary # was.primary THEN now.primary ELSE domain[i].primary]
  OBVIOUS
<1>1. Len(domain) \in Nat /\ DOMAIN domain = 1..Len(domain) /\ \A j \in DOMAIN domain : domain[j] \in ProjectDomain
  BY DomainsIn
<1>2. row \in ProjectDomain /\ row.live = domain[i].live /\ row.primary \in {domain[i].primary, now.primary}
  <2>1. domain[i] \in ProjectDomain
    BY <1>1
  <2> QED BY <2>1 DEF ProjectDomain, Loaded
<1>3. e = [domain EXCEPT ![i] = row]
  BY <1>1 DEF Written, ProjectDomain
<1>4. e \in Seq(ProjectDomain) /\ Len(e) = Len(domain)
      /\ \A j \in 1..Len(domain) : e[j] = IF j = i THEN row ELSE domain[j]
  BY <1>1, <1>2, <1>3, ExceptSeq
<1>5. DOMAIN e = DOMAIN domain
  BY <1>3
<1>6. LiveIn(e) = LiveIn(domain)
  BY <1>1, <1>2, <1>4, <1>5 DEF LiveIn
<1> QED BY <1>1, <1>2, <1>4, <1>5, <1>6

-----------------------------------------------------------------------------
\* What a step may not do to the domains: give the mark to a stored one while another has
\* it, or break the two unique indexes.
DomainsMove ==
    /\ DomainsOK'
    /\ \A i \in LiveIn(domain) :
           ~domain[i].primary /\ domain'[i].primary => PrimariesIn(domain) = {}

LEMMA DomainsStay == ASSUME DomainsOK, UNCHANGED domain PROVE DomainsMove
  BY DEF DomainsMove, DomainsOK

\* A new domain is placed, and the mark taken from those that have it.
LEMMA InsertedMoves ==
    ASSUME DomainsOK, NEW new, new.host \in Hosts, new.primary \in BOOLEAN, NEW rows,
           Len(domain) < MaxDomains,
           domain' = IF Flushes(rows, Inserted(domain, new, rows)) THEN Inserted(domain, new, rows)
                     ELSE domain
    PROVE  DomainsMove
<1>1. CASE ~Flushes(rows, Inserted(domain, new, rows))
  BY <1>1, DomainsStay
<1>2. CASE Flushes(rows, Inserted(domain, new, rows))
  <2>1. /\ domain' \in Seq(ProjectDomain) /\ Len(domain') = Len(domain) + 1
        /\ \A i \in DOMAIN domain : domain'[i] = Demoted(domain, rows)[i]
        /\ Len(domain) \in Nat /\ MaxDomains \in Nat /\ Allowed(domain')
    BY <1>2, InsertedIs, DomainsIn, WorkspaceAssumption DEF DomainsOK, WorkspaceAssumption, Flushes
  <2>2. DomainsOK'
    BY <2>1 DEF DomainsOK
  <2>3. ASSUME NEW i \in LiveIn(domain), ~domain[i].primary PROVE ~domain'[i].primary
    <3>1. i \in DOMAIN domain
      BY DEF LiveIn
    <3>2. ~Demoted(domain, rows)[i].primary
      BY <2>3, <3>1, DemotedIs DEF DomainsOK
    <3> QED BY <2>1, <2>3, <3>1, <3>2
  <2> QED BY <2>2, <2>3 DEF DomainsMove
<1> QED BY <1>1, <1>2

\* The save of a stored row flushes it before the mark is taken from the others: with
\* another primary domain the index stops it.
LEMMA SavedMoves ==
    ASSUME DomainsOK, NEW i, NEW was, NEW now \in Loaded, NEW known,
           Flushes({i}, FirstFlush(i, was, now)), domain' = Saved(i, was, now, known)
    PROVE  DomainsMove
<1> PICK e : e = Written(i, was, now)
  OBVIOUS
<1>1. i \in LiveIn(domain) /\ i \in DOMAIN domain /\ Allowed(e) /\ domain \in Seq(ProjectDomain)
  BY DEF Flushes, FirstFlush, LiveIn, DomainsOK
<1>2. /\ e \in Seq(ProjectDomain) /\ Len(e) = Len(domain) /\ DOMAIN e = DOMAIN domain
      /\ LiveIn(e) = LiveIn(domain)
      /\ \A j \in DOMAIN domain \ {i} : e[j] = domain[j]
  BY <1>1, WrittenIs
<1>3. \/ domain' = e \/ \E rows : domain' = Demoted(e, rows)
  BY DEF Saved
<1>4. /\ domain' \in Seq(ProjectDomain) /\ Len(domain') = Len(e) /\ Allowed(domain')
      /\ \A j \in DOMAIN e : domain'[j].primary => e[j].primary
  <2>1. CASE domain' = e
    BY <1>1, <1>2, <2>1
  <2>2. ASSUME NEW rows, domain' = Demoted(e, rows)
        PROVE  /\ domain' \in Seq(ProjectDomain) /\ Len(domain') = Len(e) /\ Allowed(domain')
               /\ \A j \in DOMAIN e : domain'[j].primary => e[j].primary
    <3>1. /\ domain' \in Seq(ProjectDomain) /\ Len(domain') = Len(e)
          /\ \A j \in DOMAIN e : domain'[j].primary => e[j].primary
      BY <1>2, <2>2, DemotedIs
    <3>2. Allowed(Demoted(e, rows))
      BY <1>1, <1>2, DemotedAllowed
    <3> QED BY <2>2, <3>1, <3>2
  <2> QED BY <1>3, <2>1, <2>2
<1>5. ASSUME NEW j \in LiveIn(domain), ~domain[j].primary, domain'[j].primary, NEW k \in PrimariesIn(domain)
      PROVE  FALSE
  <2>1. j \in DOMAIN domain /\ k \in DOMAIN domain /\ k \in LiveIn(domain) /\ domain[k].primary
    BY DEF LiveIn, PrimariesIn
  <2>2. e[j].primary
    BY <1>2, <1>4, <1>5, <2>1
  <2>3. j = i
    BY <1>2, <1>5, <2>1, <2>2
  <2>4. k # i /\ e[k] = domain[k]
    BY <1>2, <1>5, <2>1, <2>3
  <2>5. j \in PrimariesIn(e) /\ k \in PrimariesIn(e)
    BY <1>2, <2>1, <2>2, <2>4 DEF PrimariesIn
  <2> QED BY <1>1, <1>2, <2>3, <2>4, <2>5, OnePrimary
<1>6. DomainsOK'
  BY <1>2, <1>4 DEF DomainsOK
<1> QED BY <1>5, <1>6 DEF DomainsMove

LEMMA DomainDeleted ==
    ASSUME DomainsOK, NEW i \in LiveIn(domain), domain' = [domain EXCEPT ![i].live = FALSE]
    PROVE  DomainsMove
<1>1. /\ domain \in Seq(ProjectDomain) /\ i \in DOMAIN domain /\ DOMAIN domain = 1..Len(domain)
      /\ \A j \in DOMAIN domain : domain[j] \in ProjectDomain
      /\ Allowed(domain) /\ Len(domain) \in Nat
  BY DomainsIn DEF DomainsOK, LiveIn
<1> PICK row : row = [domain[i] EXCEPT !.live = FALSE]
  OBVIOUS
<1>2. /\ row \in ProjectDomain /\ row.live = FALSE /\ row.primary = domain[i].primary
      /\ domain' = [domain EXCEPT ![i] = row]
  <2>1. domain[i] \in ProjectDomain
    BY <1>1
  <2> QED BY <2>1 DEF ProjectDomain
<1>3. /\ domain' \in Seq(ProjectDomain) /\ Len(domain') = Len(domain)
      /\ \A j \in DOMAIN domain : domain'[j] = IF j = i THEN row ELSE domain[j]
      /\ DOMAIN domain' = DOMAIN domain
  BY <1>1, <1>2, ExceptSeq
<1>4. /\ LiveIn(domain') = LiveIn(domain) \ {i}
      /\ PrimariesIn(domain') \subseteq PrimariesIn(domain)
      /\ \A j \in LiveIn(domain') : domain'[j].host = domain[j].host
  BY <1>2, <1>3 DEF LiveIn, PrimariesIn
<1>5. Allowed(domain')
  BY <1>1, <1>3, <1>4, AllowedFewer
<1>6. \A j \in LiveIn(domain) : domain'[j].primary => domain[j].primary
  BY <1>2, <1>3 DEF LiveIn
<1> QED BY <1>3, <1>5, <1>6 DEF DomainsMove, DomainsOK

LEMMA DomainsGone ==
    ASSUME DomainsOK, domain' = [i \in DOMAIN domain |-> [domain[i] EXCEPT !.live = FALSE]]
    PROVE  DomainsMove
<1>1. /\ domain \in Seq(ProjectDomain) /\ DOMAIN domain = 1..Len(domain) /\ Len(domain) \in Nat
      /\ \A j \in DOMAIN domain : domain[j] \in ProjectDomain
  BY DomainsIn DEF DomainsOK
<1>2. ASSUME NEW i \in DOMAIN domain
      PROVE  domain'[i] \in ProjectDomain /\ domain'[i].live = FALSE /\ domain'[i].primary = domain[i].primary
  <2>1. domain[i] \in ProjectDomain /\ domain'[i] = [domain[i] EXCEPT !.live = FALSE]
    BY <1>1
  <2> QED BY <2>1 DEF ProjectDomain
<1>3. domain' \in [1..Len(domain) -> ProjectDomain]
  BY <1>1, <1>2
<1>4. domain' \in Seq(ProjectDomain) /\ Len(domain') = Len(domain) /\ DOMAIN domain' = DOMAIN domain
  BY <1>1, <1>3
<1>5. LiveIn(domain') = {} /\ PrimariesIn(domain') = {}
  BY <1>2, <1>4 DEF LiveIn, PrimariesIn
<1>6. Allowed(domain')
  <2>1. Cardinality(PrimariesIn(domain')) = 0
    BY <1>5, FS_EmptySet
  <2> QED BY <1>5, <2>1 DEF Allowed
<1>7. \A j \in LiveIn(domain) : domain'[j].primary => domain[j].primary
  BY <1>2 DEF LiveIn
<1> QED BY <1>4, <1>6, <1>7 DEF DomainsMove, DomainsOK

-----------------------------------------------------------------------------
(***************************************************************************)
(* Workspace: the bulk run                                                 *)
(***************************************************************************)
WsState == {NoWsRequest} \cup Saving \cup Changing \cup {r \in Importing : r.todo # <<>>}
               \cup Launching \cup Reading \cup Answering
RequestsOK == wsReq \in [WsRequests -> WsState]

\* A state of an item is never ahead of the research of its target.
Grounded(s, t) ==
    /\ s # "none" => research[t] \notin {"none", "DRAFT"}
    /\ s \in {"COMPLETED", "FAILED"} => s \in ended[t]

Launches(r) == r.pc \in {"launch", "enqueue", "record"}

\* The one request that launches has not come to the targets that follow; what another
\* has read was so.
BulkRequestKept(r) ==
    /\ Launches(r) =>
           /\ r \in Launching /\ bulk # "none"
           /\ \A u \in Targets : u > r.at \/ (u = r.at /\ r.pc = "launch") => research[u] = "none"
    /\ r.pc = "record" => research[r.at] \notin {"none", "DRAFT"}
    /\ r.pc \in {"items", "states"} =>
           /\ r \in Reading
           /\ \A t \in Targets : /\ Grounded(r.stored[t], t) /\ Grounded(r.seen[t], t)
                                 /\ r.stored[t] = "none" <=> r.seen[t] = "none"
    /\ r.pc = "answered" => r \in Answering /\ (r.full => \A t \in Targets : ended[t] # {})

BulkOK ==
    /\ bulk \in {"none", "kept", "deleted"}
    /\ item \in [Targets -> ItemState]
    /\ research \in [Targets -> {"none", "deleted"} \cup ResearchStatus]
    /\ ended \in [Targets -> SUBSET {"COMPLETED", "FAILED"}]
    /\ \A t \in Targets :
           /\ Grounded(item[t], t)
           /\ research[t] \in ResearchStatus /\ Ends(research[t]) # "PENDING" => Ends(research[t]) \in ended[t]
    /\ bulk = "none" => \A t \in Targets : research[t] = "none"
    /\ \A q \in WsRequests : BulkRequestKept(wsReq[q])
    /\ \A q, p \in WsRequests : Launches(wsReq[q]) /\ Launches(wsReq[p]) => q = p

\* What other requests rely on.
BulkEvolves ==
    /\ \A t \in Targets : ended[t] \subseteq ended'[t]
    /\ \A t \in Targets : research[t] \notin {"none", "DRAFT"} => research'[t] \notin {"none", "DRAFT"}
    /\ bulk # "none" => bulk' # "none"

NoneStays == \A t \in Targets : research[t] = "none" => research'[t] = "none"

LEMMA BulkRequestEvolves ==
    ASSUME BulkEvolves, NEW r, BulkRequestKept(r), Launches(r) => NoneStays
    PROVE  BulkRequestKept(r)'
<1>1. \A s, t : t \in Targets /\ Grounded(s, t) => Grounded(s, t)'
  BY DEF Grounded, BulkEvolves
<1>2. Launches(r) =>
          /\ r \in Launching /\ bulk' # "none"
          /\ \A u \in Targets : u > r.at \/ (u = r.at /\ r.pc = "launch") => research'[u] = "none"
  BY DEF BulkRequestKept, BulkEvolves, NoneStays
<1>3. r.pc = "record" => research'[r.at] \notin {"none", "DRAFT"}
  <2> SUFFICES ASSUME r.pc = "record" PROVE research'[r.at] \notin {"none", "DRAFT"}
    OBVIOUS
  <2>1. r \in Launching /\ research[r.at] \notin {"none", "DRAFT"}
    BY DEF BulkRequestKept, Launches
  <2> QED BY <2>1 DEF BulkEvolves, Launching
<1>4. r.pc \in {"items", "states"} =>
          /\ r \in Reading
          /\ \A t \in Targets : /\ Grounded(r.stored[t], t)' /\ Grounded(r.seen[t], t)'
                                /\ r.stored[t] = "none" <=> r.seen[t] = "none"
  BY <1>1 DEF BulkRequestKept
<1>5. r.pc = "answered" => r \in Answering /\ (r.full => \A t \in Targets : ended'[t] # {})
  BY DEF BulkRequestKept, BulkEvolves
<1> QED BY <1>2, <1>3, <1>4, <1>5 DEF BulkRequestKept

\* What a step of one request has to show: the tables, and itself.
LEMMA BulkStep ==
    ASSUME BulkOK, RequestsOK, NEW q \in WsRequests, NEW s, WsTo(q, s), BulkEvolves,
           NoneStays \/ Launches(wsReq[q]), BulkRequestKept(s)',
           Launches(s) => Launches(wsReq[q]) \/ bulk = "none",
           bulk' \in {"none", "kept", "deleted"}, item' \in [Targets -> ItemState],
           research' \in [Targets -> {"none", "deleted"} \cup ResearchStatus],
           ended' \in [Targets -> SUBSET {"COMPLETED", "FAILED"}],
           \A t \in Targets :
               /\ Grounded(item[t], t)'
               /\ research'[t] \in ResearchStatus /\ Ends(research'[t]) # "PENDING"
                      => Ends(research'[t]) \in ended'[t],
           bulk' = "none" => \A t \in Targets : research'[t] = "none"
    PROVE  BulkOK'
<1>1. \A d \in WsRequests : wsReq'[d] = IF d = q THEN s ELSE wsReq[d]
  BY DEF WsTo, RequestsOK
<1>2. ASSUME NEW d \in WsRequests PROVE BulkRequestKept(wsReq[d])'
  <2>1. CASE d = q
    BY <1>1, <2>1
  <2>2. CASE d # q
    <3> PICK r : r = wsReq[d]
      OBVIOUS
    <3>1. BulkRequestKept(r) /\ (Launches(r) => ~Launches(wsReq[q]))
      BY <2>2 DEF BulkOK
    <3>2. BulkRequestKept(r)'
      BY <3>1, BulkRequestEvolves
    <3> QED BY <1>1, <2>2, <3>2
  <2> QED BY <2>1, <2>2
<1>3. ASSUME NEW d \in WsRequests, NEW e \in WsRequests, Launches(wsReq'[d]), Launches(wsReq'[e])
      PROVE  d = e
  <2>1. \A f \in WsRequests : Launches(wsReq[f]) => bulk # "none"
    BY DEF BulkOK, BulkRequestKept
  <2>2. \A f, g \in WsRequests : Launches(wsReq[f]) /\ Launches(wsReq[g]) => f = g
    BY DEF BulkOK
  <2>3. CASE d # q /\ e # q
    BY <1>1, <1>3, <2>2, <2>3
  <2>4. CASE d = q /\ e # q
    BY <1>1, <1>3, <2>1, <2>2, <2>4
  <2>5. CASE d # q /\ e = q
    BY <1>1, <1>3, <2>1, <2>2, <2>5
  <2> QED BY <2>3, <2>4, <2>5
<1>4. \A d \in WsRequests : BulkRequestKept(wsReq[d])'
  BY <1>2
<1>5. \A d, e \in WsRequests : (Launches(wsReq[d]) /\ Launches(wsReq[e]))' => d = e
  BY <1>3 DEF Launches
<1>6. \A t \in Targets : (/\ Grounded(item[t], t)
           /\ research[t] \in ResearchStatus /\ Ends(research[t]) # "PENDING" => Ends(research[t]) \in ended[t])'
  BY DEF Ends
<1> QED BY <1>4, <1>5, <1>6 DEF BulkOK

LEMMA BulkSame ==
    ASSUME BulkOK, UNCHANGED bulkVars
    PROVE  /\ BulkEvolves /\ NoneStays
           /\ bulk' \in {"none", "kept", "deleted"} /\ item' \in [Targets -> ItemState]
           /\ research' \in [Targets -> {"none", "deleted"} \cup ResearchStatus]
           /\ ended' \in [Targets -> SUBSET {"COMPLETED", "FAILED"}]
           /\ \A t \in Targets :
                  /\ Grounded(item[t], t)'
                  /\ research'[t] \in ResearchStatus /\ Ends(research'[t]) # "PENDING"
                         => Ends(research'[t]) \in ended'[t]
           /\ bulk' = "none" => \A t \in Targets : research'[t] = "none"
  BY DEF BulkOK, bulkVars, BulkEvolves, NoneStays, Grounded

\* A request that has nothing to do with the bulk run, or leaves it.
LEMMA BulkApart ==
    ASSUME BulkOK, RequestsOK, NEW q \in WsRequests, NEW s, WsTo(q, s), UNCHANGED bulkVars,
           s.pc \notin {"launch", "enqueue", "record", "items", "states", "answered"}
    PROVE  BulkOK'
<1>1. BulkRequestKept(s)' /\ ~Launches(s)
  BY DEF BulkRequestKept, Launches
<1> QED BY <1>1, BulkSame, BulkStep

\* A step of no request.
LEMMA BulkOutside ==
    ASSUME BulkOK, UNCHANGED wsReq, BulkEvolves, NoneStays,
           bulk' \in {"none", "kept", "deleted"}, item' \in [Targets -> ItemState],
           research' \in [Targets -> {"none", "deleted"} \cup ResearchStatus],
           ended' \in [Targets -> SUBSET {"COMPLETED", "FAILED"}],
           \A t \in Targets :
               /\ Grounded(item[t], t)'
               /\ research'[t] \in ResearchStatus /\ Ends(research'[t]) # "PENDING"
                      => Ends(research'[t]) \in ended'[t],
           bulk' = "none" => \A t \in Targets : research'[t] = "none"
    PROVE  BulkOK'
<1>1. ASSUME NEW d \in WsRequests PROVE BulkRequestKept(wsReq[d])'
  <2> PICK r : r = wsReq[d]
    OBVIOUS
  <2>1. BulkRequestKept(r)'
    BY BulkRequestEvolves DEF BulkOK
  <2>2. wsReq'[d] = r
    OBVIOUS
  <2> QED BY <2>1, <2>2
<1>2. \A d, e \in WsRequests : (Launches(wsReq[d]) /\ Launches(wsReq[e]))' => d = e
  BY DEF Launches, BulkOK
<1>3. \A t \in Targets : (/\ Grounded(item[t], t)
           /\ research[t] \in ResearchStatus /\ Ends(research[t]) # "PENDING" => Ends(research[t]) \in ended[t])'
  BY DEF Ends
<1> QED BY <1>1, <1>2, <1>3 DEF BulkOK

-----------------------------------------------------------------------------
(***************************************************************************)
(* Workspace: what each step keeps                                         *)
(***************************************************************************)
ProjectInv == project \in {"none", "kept", "deleted"} /\ DomainsOK /\ RequestsOK /\ BulkOK

ProjectStep == ProjectInv' /\ DomainsMove

LEMMA RequestsTo ==
    ASSUME RequestsOK, NEW q \in WsRequests, NEW s \in WsState, WsTo(q, s) PROVE RequestsOK'
  BY DEF RequestsOK, WsTo

\* The steps of a request that touch the domains alone.
LEMMA DomainSide ==
    ASSUME ProjectInv, NEW q \in WsRequests, NEW s \in WsState, WsTo(q, s),
           s.pc \notin {"launch", "enqueue", "record", "items", "states", "answered"},
           UNCHANGED <<project, bulkVars>>, DomainsMove
    PROVE  ProjectStep
<1>1. RequestsOK' /\ BulkOK'
  BY RequestsTo, BulkApart DEF ProjectInv
<1> QED BY <1>1 DEF ProjectStep, ProjectInv, DomainsMove

LEMMA Leaving == NoWsRequest \in WsState /\ NoWsRequest.pc = "idle"
  BY DEF WsState, NoWsRequest

LEMMA DomainIdsIn ==
    ASSUME ProjectInv
    PROVE  /\ domain \in Seq(ProjectDomain) /\ DOMAIN domain \subseteq DomainIds
           /\ \A i \in DOMAIN domain : domain[i] \in ProjectDomain
           /\ LiveIn(domain) \subseteq DOMAIN domain /\ PrimariesIn(domain) \subseteq LiveIn(domain)
<1>1. domain \in Seq(ProjectDomain) /\ Len(domain) <= MaxDomains /\ MaxDomains \in Nat
  BY WorkspaceAssumption DEF ProjectInv, DomainsOK, WorkspaceAssumption
<1> QED BY <1>1, DomainsIn DEF DomainIds

LEMMA WsRequestIs ==
    ASSUME ProjectInv, NEW q \in WsRequests
    PROVE  /\ wsReq[q] \in WsState
           /\ wsReq[q].pc \in {"listed", "placing"} => wsReq[q] \in Saving
           /\ wsReq[q].pc = "loaded" => wsReq[q] \in Changing
           /\ wsReq[q].pc = "importing" => wsReq[q] \in Importing /\ wsReq[q].todo # <<>>
           /\ Launches(wsReq[q]) => wsReq[q] \in Launching
           /\ wsReq[q].pc \in {"items", "states"} => wsReq[q] \in Reading
           /\ wsReq[q].pc = "answered" => wsReq[q] \in Answering
<1>1. wsReq[q] \in WsState
  BY DEF ProjectInv, RequestsOK
<1> QED BY <1>1
    DEF WsState, NoWsRequest, Saving, Changing, Importing, Launching, Reading, Answering, Launches

LEMMA CreateProjectKeeps == ASSUME ProjectInv, CreateProject PROVE ProjectStep
<1>1. BulkOK'
  BY BulkSame, BulkOutside DEF CreateProject, ProjectInv
<1> QED BY <1>1, DomainsStay DEF CreateProject, ProjectStep, ProjectInv, DomainsMove, RequestsOK

LEMMA DeleteDomainKeeps ==
    ASSUME ProjectInv, NEW i \in DOMAIN domain, DeleteDomain(i) PROVE ProjectStep
<1>1. BulkOK'
  BY BulkSame, BulkOutside DEF DeleteDomain, ProjectInv
<1>2. DomainsMove
  BY DomainDeleted DEF DeleteDomain, ProjectInv
<1> QED BY <1>1, <1>2 DEF DeleteDomain, ProjectStep, ProjectInv, DomainsMove, RequestsOK

LEMMA DeleteProjectKeeps == ASSUME ProjectInv, DeleteProject PROVE ProjectStep
<1>1. /\ domain' = [i \in DOMAIN domain |-> [domain[i] EXCEPT !.live = FALSE]]
      /\ bulk' = IF bulk = "kept" THEN "deleted" ELSE bulk
      /\ item' = [t \in Targets |-> "none"] /\ project' = "deleted"
      /\ UNCHANGED <<research, ended, wsReq>>
  BY DEF DeleteProject
<1>2. DomainsMove
  BY <1>1, DomainsGone DEF ProjectInv
<1>3. BulkEvolves /\ NoneStays
  BY <1>1 DEF BulkEvolves, NoneStays
<1>4. \A t \in Targets : Grounded(item[t], t)'
  BY <1>1 DEF Grounded
<1>5. item' \in [Targets -> ItemState] /\ bulk' \in {"none", "kept", "deleted"}
  BY <1>1 DEF ItemState, ProjectInv, BulkOK
<1>6. BulkOK'
  BY <1>1, <1>3, <1>4, <1>5, BulkOutside DEF ProjectInv, BulkOK
<1> QED BY <1>1, <1>2, <1>6 DEF ProjectStep, ProjectInv, DomainsMove, RequestsOK

-----------------------------------------------------------------------------
LEMMA CreateDomainKeeps ==
    ASSUME ProjectInv, NEW q \in WsRequests, NEW host \in Hosts, NEW primary \in BOOLEAN,
           CreateDomain(q, host, primary)
    PROVE  ProjectStep
<1> PICK p \in BOOLEAN : p = (primary \/ LiveIn(domain) = {})
  OBVIOUS
<1> PICK s : s = [pc |-> "listed", host |-> host, demote |-> {}, primary |-> p]
  OBVIOUS
<1>1. WsTo(q, s) /\ UNCHANGED <<domainVars, bulkVars>>
  BY DEF CreateDomain
<1>2. s \in WsState /\ s.pc = "listed"
  BY DEF WsState, Saving
<1>3. UNCHANGED <<project, domain>>
  BY <1>1 DEF domainVars
<1>4. DomainsMove
  BY <1>3, DomainsStay DEF ProjectInv
<1> QED BY <1>1, <1>2, <1>3, <1>4, DomainSide

LEMMA ListToDemoteKeeps ==
    ASSUME ProjectInv, NEW q \in WsRequests, ListToDemote(q) PROVE ProjectStep
<1> PICK r : r = wsReq[q]
  OBVIOUS
<1> PICK rows : rows = IF r.primary THEN PrimariesIn(domain) ELSE {}
  OBVIOUS
<1> PICK s : s = [r EXCEPT !.pc = "placing", !.demote = rows]
  OBVIOUS
<1>1. WsTo(q, s) /\ UNCHANGED <<domainVars, bulkVars>> /\ r \in Saving
  BY WsRequestIs DEF ListToDemote
<1>2. s \in WsState /\ s.pc = "placing"
  <2>1. rows \subseteq DomainIds
    BY DomainIdsIn
  <2> QED BY <1>1, <2>1 DEF WsState, Saving
<1>3. UNCHANGED <<project, domain>>
  BY <1>1 DEF domainVars
<1>4. DomainsMove
  BY <1>3, DomainsStay DEF ProjectInv
<1> QED BY <1>1, <1>2, <1>3, <1>4, DomainSide

LEMMA PlaceDomainKeeps ==
    ASSUME ProjectInv, NEW q \in WsRequests, PlaceDomain(q) PROVE ProjectStep
<1> PICK r : r = wsReq[q]
  OBVIOUS
<1>1. /\ WsTo(q, NoWsRequest) /\ UNCHANGED <<project, bulkVars>> /\ r \in Saving
      /\ Len(domain) < MaxDomains
      /\ domain' = IF Flushes(r.demote, Inserted(domain, r, r.demote))
                   THEN Inserted(domain, r, r.demote) ELSE domain
  BY WsRequestIs DEF PlaceDomain, WsLeave
<1>2. DomainsMove
  <2>1. r.host \in Hosts /\ r.primary \in BOOLEAN
    BY <1>1 DEF Saving
  <2> QED BY <1>1, <2>1, InsertedMoves DEF ProjectInv
<1> QED BY <1>1, <1>2, Leaving, DomainSide

LEMMA LoadDomainKeeps ==
    ASSUME ProjectInv, NEW q \in WsRequests, NEW i \in DOMAIN domain, LoadDomain(q, i)
    PROVE  ProjectStep
<1> PICK s : s = [pc |-> "loaded", id |-> i,
                  was |-> [host |-> domain[i].host, primary |-> domain[i].primary]]
  OBVIOUS
<1>1. WsTo(q, s) /\ UNCHANGED <<domainVars, bulkVars>>
  BY DEF LoadDomain
<1>2. s \in WsState /\ s.pc = "loaded"
  <2>1. domain[i] \in ProjectDomain /\ i \in DomainIds
    BY DomainIdsIn
  <2>2. s.was \in Loaded
    BY <2>1 DEF ProjectDomain, Loaded
  <2> QED BY <2>1, <2>2 DEF WsState, Changing
<1>3. UNCHANGED <<project, domain>>
  BY <1>1 DEF domainVars
<1>4. DomainsMove
  BY <1>3, DomainsStay DEF ProjectInv
<1> QED BY <1>1, <1>2, <1>3, <1>4, DomainSide

LEMMA ChangeDomainKeeps ==
    ASSUME ProjectInv, NEW q \in WsRequests, NEW now \in Loaded, ChangeDomain(q, now)
    PROVE  ProjectStep
<1> PICK r : r = wsReq[q]
  OBVIOUS
<1>1. /\ WsTo(q, NoWsRequest) /\ UNCHANGED <<project, bulkVars>>
      /\ domain' = IF Flushes({r.id}, FirstFlush(r.id, r.was, now))
                   THEN Saved(r.id, r.was, now, <<>>) ELSE domain
  BY DEF ChangeDomain, WsLeave
<1>2. DomainsMove
  BY <1>1, SavedMoves, DomainsStay DEF ProjectInv
<1> QED BY <1>1, <1>2, Leaving, DomainSide

LEMMA ImportDomainsKeeps ==
    ASSUME ProjectInv, NEW q \in WsRequests, NEW payload \in Payloads, ImportDomains(q, payload)
    PROVE  ProjectStep
<1> PICK known : known = [i \in LiveIn(domain) |-> [host |-> domain[i].host,
                                                    primary |-> domain[i].primary]]
  OBVIOUS
<1> PICK s : s = [pc |-> "importing", todo |-> payload, known |-> known]
  OBVIOUS
<1>1. WsTo(q, s) /\ UNCHANGED <<domainVars, bulkVars>>
  BY DEF ImportDomains
<1>2. s \in WsState /\ s.pc = "importing"
  <2>1. LiveIn(domain) \in SUBSET DomainIds
    BY DomainIdsIn
  <2>2. known \in [LiveIn(domain) -> Loaded]
    BY DomainIdsIn DEF ProjectDomain, Loaded
  <2>3. payload \in Seq(Loaded) /\ payload # <<>>
    BY WorkspaceAssumption DEF WorkspaceAssumption, Loaded
  <2>4. s \in Importing
    BY <2>1, <2>2, <2>3 DEF Importing
  <2> QED BY <2>3, <2>4 DEF WsState
<1>3. UNCHANGED <<project, domain>>
  BY <1>1 DEF domainVars
<1>4. DomainsMove
  BY <1>3, DomainsStay DEF ProjectInv
<1> QED BY <1>1, <1>2, <1>3, <1>4, DomainSide

\* The rows an import knows are of the same shape after each domain.
LEMMA KnownIs ==
    ASSUME NEW known, NEW S \in SUBSET DomainIds, known \in [S -> Loaded], NEW i, NEW incoming \in Loaded
    PROVE  KnownAfter(known, i, incoming) \in [S -> Loaded]
<1>1. ASSUME NEW j \in S, j # i PROVE [known[j] EXCEPT !.primary = @ /\ ~incoming.primary] \in Loaded
  <2>1. known[j] \in Loaded
    OBVIOUS
  <2>2. (known[j].primary /\ ~incoming.primary) \in BOOLEAN
    OBVIOUS
  <2> QED BY <2>1, <2>2 DEF Loaded
<1> QED BY <1>1 DEF KnownAfter

LEMMA ImportingIs ==
    ASSUME NEW S \in SUBSET DomainIds, NEW k \in [S -> Loaded], NEW todo \in Seq(Loaded), NEW s,
           s = [pc |-> "importing", todo |-> todo, known |-> k]
    PROVE  s \in Importing
<1> PICK K : K = UNION {[R -> Loaded] : R \in SUBSET DomainIds}
  OBVIOUS
<1> PICK T : T = Seq(Loaded)
  OBVIOUS
<1>1. k \in K /\ todo \in T
  OBVIOUS
<1>2. s \in [pc : {"importing"}, todo : T, known : K]
  BY <1>1
<1> QED BY <1>2 DEF Importing

LEMMA ImportOneKeeps ==
    ASSUME ProjectInv, NEW q \in WsRequests, ImportOne(q) PROVE ProjectStep
<1> PICK r : r = wsReq[q]
  OBVIOUS
<1> PICK known : known = r.known
  OBVIOUS
<1> PICK incoming : incoming = Head(r.todo)
  OBVIOUS
<1> DEFINE demote == IF incoming.primary THEN SeenPrimary(domain, known) ELSE {}
           matched == \E j \in DOMAIN known : known[j].host = incoming.host
           m == CHOOSE j \in DOMAIN known : known[j].host = incoming.host
           next(k) == [pc |-> "importing", todo |-> Tail(r.todo), known |-> k]
           ends == Len(r.todo) = 1
<1>1. /\ r \in Importing /\ r.todo # <<>> /\ r.pc = "importing" /\ UNCHANGED <<project, bulkVars>>
      /\ r.todo \in Seq(Loaded)
  BY WsRequestIs DEF ImportOne, Importing
<1>2. PICK S \in SUBSET DomainIds : known \in [S -> Loaded]
  BY <1>1 DEF Importing
<1>3. incoming \in Loaded /\ Tail(r.todo) \in Seq(Loaded) /\ Len(r.todo) \in Nat
      /\ (~ends => Tail(r.todo) # <<>>)
  <2>1. incoming \in Loaded /\ Tail(r.todo) \in Seq(Loaded) /\ Len(r.todo) \in Nat
        /\ Len(Tail(r.todo)) = Len(r.todo) - 1
    BY <1>1, HeadTailProperties
  <2>2. Len(r.todo) # 0 /\ (Tail(r.todo) = <<>> => Len(Tail(r.todo)) = 0)
    BY <1>1, EmptySeq
  <2> QED BY <2>1, <2>2
<1>4. ASSUME NEW k \in [S -> Loaded], ~ends PROVE next(k) \in WsState /\ next(k).pc = "importing"
  <2> PICK s : s = next(k)
    OBVIOUS
  <2> PICK rest \in Seq(Loaded) : rest = Tail(r.todo) /\ rest # <<>>
    BY <1>3, <1>4
  <2>1. s = [pc |-> "importing", todo |-> rest, known |-> k]
    OBVIOUS
  <2>2. s \in Importing
    BY <2>1, ImportingIs
  <2> QED BY <2>1, <2>2 DEF WsState
<1>5. ASSUME NEW k \in [S -> Loaded], DomainsMove,
             IF ends THEN WsLeave(q) ELSE WsTo(q, next(k))
      PROVE  ProjectStep
  <2>1. CASE ends
    BY <1>1, <1>5, <2>1, Leaving, DomainSide DEF WsLeave
  <2>2. CASE ~ends
    <3> PICK s : s = next(k)
      OBVIOUS
    <3>1. s \in WsState /\ s.pc = "importing" /\ WsTo(q, s)
      BY <1>4, <1>5, <2>2
    <3> QED BY <1>1, <1>5, <3>1, DomainSide
  <2> QED BY <2>1, <2>2
<1>6. ASSUME UNCHANGED domain, WsLeave(q) PROVE ProjectStep
  <2>1. DomainsMove
    BY <1>6, DomainsStay DEF ProjectInv
  <2> QED BY <1>1, <1>6, <2>1, Leaving, DomainSide DEF WsLeave
<1>7. CASE matched
  <2>1. CASE Flushes({m}, FirstFlush(m, known[m], incoming))
    <3>1. /\ domain' = Saved(m, known[m], incoming, known)
          /\ IF ends THEN WsLeave(q) ELSE WsTo(q, next(KnownAfter(known, m, incoming)))
      BY <1>7, <2>1 DEF ImportOne
    <3>2. DomainsMove
      BY <1>3, <2>1, <3>1, SavedMoves DEF ProjectInv
    <3>3. KnownAfter(known, m, incoming) \in [S -> Loaded]
      BY <1>2, <1>3, KnownIs
    <3> QED BY <1>5, <3>1, <3>2, <3>3
  <2>2. CASE ~Flushes({m}, FirstFlush(m, known[m], incoming))
    BY <1>6, <1>7, <2>2 DEF ImportOne
  <2> QED BY <2>1, <2>2
<1>8. CASE ~matched
  <2> PICK d : d = Inserted(domain, incoming, demote)
    OBVIOUS
  <2>1. CASE Flushes(demote, d)
    <3>1. /\ domain' = d /\ Len(domain) < MaxDomains
          /\ IF ends THEN WsLeave(q) ELSE WsTo(q, next(KnownAfter(known, 0, incoming)))
      BY <1>8, <2>1 DEF ImportOne
    <3>2. DomainsMove
      <4>1. incoming.host \in Hosts /\ incoming.primary \in BOOLEAN
        BY <1>3 DEF Loaded
      <4> QED BY <2>1, <3>1, <4>1, InsertedMoves DEF ProjectInv
    <3>3. KnownAfter(known, 0, incoming) \in [S -> Loaded]
      BY <1>2, <1>3, KnownIs
    <3> QED BY <1>5, <3>1, <3>2, <3>3
  <2>2. CASE ~Flushes(demote, d)
    BY <1>6, <1>8, <2>2 DEF ImportOne
  <2> QED BY <2>1, <2>2
<1> QED BY <1>7, <1>8

-----------------------------------------------------------------------------
\* The steps of a request that touch the bulk run alone.
LEMMA BulkSide ==
    ASSUME ProjectInv, NEW q \in WsRequests, NEW s \in WsState, WsTo(q, s),
           UNCHANGED domainVars, BulkOK'
    PROVE  ProjectStep
<1>1. UNCHANGED <<project, domain>>
  BY DEF domainVars
<1>2. RequestsOK' /\ DomainsMove
  BY <1>1, RequestsTo, DomainsStay DEF ProjectInv
<1> QED BY <1>1, <1>2 DEF ProjectStep, ProjectInv, DomainsMove

LEMMA TargetsAre == Total \in Nat \ {0} /\ 1 \in Targets /\ Total \in Targets /\ Targets \subseteq Nat
  BY WorkspaceAssumption DEF WorkspaceAssumption, Targets

LEMMA LaunchingIs ==
    ASSUME NEW pc \in {"launch", "enqueue", "record"}, NEW t \in Targets, NEW s,
           s = [pc |-> pc, at |-> t]
    PROVE  s \in WsState /\ s \in Launching /\ s.pc = pc /\ s.at = t
  BY DEF WsState, Launching

\* What a request that has read the items knows.
LEMMA ReadAfterIs ==
    ASSUME NEW items \in [Targets -> ItemState], NEW s, s = ReadAfter(items)
    PROVE  s \in WsState /\ s \in Reading /\ s.pc = "items" /\ s.stored = items /\ s.seen = items
  BY DEF WsState, Reading, ReadAfter

LEMMA CreateBulkRunKeeps ==
    ASSUME ProjectInv, NEW q \in WsRequests, CreateBulkRun(q) PROVE ProjectStep
<1> PICK s : s = [pc |-> "launch", at |-> 1]
  OBVIOUS
<1>1. /\ WsTo(q, s) /\ UNCHANGED <<domainVars, item, research, ended>>
      /\ bulk = "none" /\ bulk' = "kept"
  BY DEF CreateBulkRun
<1>2. s \in WsState /\ s \in Launching /\ s.pc = "launch" /\ s.at = 1
  BY LaunchingIs, TargetsAre
<1>3. BulkOK
  BY DEF ProjectInv
<1>4. \A t \in Targets : research'[t] = "none"
  BY <1>1, <1>3 DEF BulkOK
<1>5. BulkRequestKept(s)'
  BY <1>1, <1>2, <1>4 DEF BulkRequestKept, Launches
<1>6. BulkEvolves /\ NoneStays
  BY <1>1 DEF BulkEvolves, NoneStays
<1>7. \A t \in Targets :
          /\ Grounded(item[t], t)'
          /\ research'[t] \in ResearchStatus /\ Ends(research'[t]) # "PENDING"
                 => Ends(research'[t]) \in ended'[t]
  BY <1>1, <1>3 DEF BulkOK, Grounded
<1>8. /\ item' \in [Targets -> ItemState]
      /\ research' \in [Targets -> {"none", "deleted"} \cup ResearchStatus]
      /\ ended' \in [Targets -> SUBSET {"COMPLETED", "FAILED"}]
  BY <1>1, <1>3 DEF BulkOK
<1>9. BulkOK'
  BY <1>1, <1>3, <1>5, <1>6, <1>7, <1>8, BulkStep DEF ProjectInv
<1> QED BY <1>1, <1>2, <1>9, BulkSide

\* A step of the launching request that moves the research of the target it is at.
LEMMA LaunchStep ==
    ASSUME ProjectInv, NEW q \in WsRequests, NEW s \in WsState, WsTo(q, s),
           Launches(wsReq[q]), UNCHANGED <<domainVars, bulk, item, ended>>,
           NEW t \in Targets, NEW status \in {"DRAFT", "ACTIVE"},
           research' = [research EXCEPT ![t] = status],
           status = "DRAFT" => research[t] = "none",
           BulkRequestKept(s)'
    PROVE  ProjectStep
<1>1. BulkOK /\ RequestsOK
  BY DEF ProjectInv
<1>2. /\ research \in [Targets -> {"none", "deleted"} \cup ResearchStatus]
      /\ \A u \in Targets : research'[u] = IF u = t THEN status ELSE research[u]
      /\ research' \in [Targets -> {"none", "deleted"} \cup ResearchStatus]
  BY <1>1 DEF BulkOK, ResearchStatus
<1>3. bulk # "none"
  BY <1>1 DEF BulkOK, BulkRequestKept
<1>4. BulkEvolves
  BY <1>2 DEF BulkEvolves
<1>5. ASSUME NEW u \in Targets
      PROVE  /\ Grounded(item[u], u)'
             /\ research'[u] \in ResearchStatus /\ Ends(research'[u]) # "PENDING"
                    => Ends(research'[u]) \in ended'[u]
  <2>1. Grounded(item[u], u)
    BY <1>1 DEF BulkOK
  <2>2. Grounded(item[u], u)'
    BY <1>2, <2>1 DEF Grounded
  <2>3. CASE u = t
    BY <1>2, <2>2, <2>3 DEF Ends
  <2>4. CASE u # t
    BY <1>1, <1>2, <2>2, <2>4 DEF BulkOK
  <2> QED BY <2>3, <2>4
<1>6. /\ item' \in [Targets -> ItemState] /\ bulk' \in {"none", "kept", "deleted"}
      /\ ended' \in [Targets -> SUBSET {"COMPLETED", "FAILED"}]
  BY <1>1 DEF BulkOK
<1>7. BulkOK'
  BY <1>1, <1>2, <1>3, <1>4, <1>5, <1>6, BulkStep
<1> QED BY <1>7, BulkSide

\* The launching request leaves, with everything as it was.
LEMMA LaunchEnds ==
    ASSUME ProjectInv, NEW q \in WsRequests, WsLeave(q), UNCHANGED <<domainVars, bulkVars>>
    PROVE  ProjectStep
<1>1. BulkOK'
  BY Leaving, BulkApart DEF ProjectInv, WsLeave
<1> QED BY <1>1, Leaving, BulkSide DEF WsLeave

LEMMA LaunchResearchKeeps ==
    ASSUME ProjectInv, NEW q \in WsRequests, LaunchResearch(q) PROVE ProjectStep
<1> PICK r : r = wsReq[q]
  OBVIOUS
<1> PICK s : s = [r EXCEPT !.pc = "enqueue"]
  OBVIOUS
<1>1. CASE project = "kept"
  <2>1. /\ r.pc = "launch" /\ WsTo(q, s) /\ UNCHANGED <<domainVars, bulk, item, ended>>
        /\ research' = [research EXCEPT ![r.at] = "DRAFT"]
    BY <1>1 DEF LaunchResearch
  <2>2. r \in Launching /\ Launches(r) /\ BulkRequestKept(r) /\ BulkOK
    BY <2>1, WsRequestIs DEF Launches, ProjectInv, BulkOK
  <2>3. /\ r.at \in Targets /\ s \in WsState /\ s \in Launching /\ s.pc = "enqueue" /\ s.at = r.at
    <3>1. r.at \in Targets /\ s = [pc |-> "enqueue", at |-> r.at]
      BY <2>2 DEF Launching
    <3> QED BY <3>1, LaunchingIs
  <2>4. /\ bulk # "none" /\ research[r.at] = "none"
        /\ \A u \in Targets : u > r.at => research[u] = "none"
    BY <2>1, <2>2, <2>3 DEF BulkRequestKept
  <2>5. \A u \in Targets : u > r.at => research'[u] = "none"
    <3>1. \A u \in Targets : u > r.at => u # r.at
      BY <2>3, TargetsAre
    <3> QED BY <2>1, <2>2, <2>4, <3>1 DEF BulkOK
  <2>6. BulkRequestKept(s)'
    BY <2>1, <2>3, <2>4, <2>5 DEF BulkRequestKept
  <2> QED BY <2>1, <2>2, <2>3, <2>4, <2>6, LaunchStep
<1>2. CASE project # "kept"
  BY <1>2, LaunchEnds DEF LaunchResearch, bulkVars
<1> QED BY <1>1, <1>2

LEMMA EnqueueLaunchedKeeps ==
    ASSUME ProjectInv, NEW q \in WsRequests, EnqueueLaunched(q) PROVE ProjectStep
<1> PICK r : r = wsReq[q]
  OBVIOUS
<1> PICK s : s = [r EXCEPT !.pc = "record"]
  OBVIOUS
<1>1. CASE research[r.at] \notin {"deleted", "ACTIVE"}
  <2>1. /\ r.pc = "enqueue" /\ WsTo(q, s) /\ UNCHANGED <<domainVars, bulk, item, ended>>
        /\ research' = [research EXCEPT ![r.at] = "ACTIVE"]
    BY <1>1 DEF EnqueueLaunched
  <2>2. r \in Launching /\ Launches(r) /\ BulkRequestKept(r) /\ BulkOK
    BY <2>1, WsRequestIs DEF Launches, ProjectInv, BulkOK
  <2>3. /\ r.at \in Targets /\ s \in WsState /\ s \in Launching /\ s.pc = "record" /\ s.at = r.at
    <3>1. r.at \in Targets /\ s = [pc |-> "record", at |-> r.at]
      BY <2>2 DEF Launching
    <3> QED BY <3>1, LaunchingIs
  <2>4. bulk # "none" /\ \A u \in Targets : u > r.at => research[u] = "none"
    BY <2>1, <2>2, <2>3 DEF BulkRequestKept
  <2>5. \A u \in Targets : u > r.at => research'[u] = "none"
    <3>1. \A u \in Targets : u > r.at => u # r.at
      BY <2>3, TargetsAre
    <3> QED BY <2>1, <2>2, <2>4, <3>1 DEF BulkOK
  <2>6. research'[r.at] = "ACTIVE"
    BY <2>1, <2>2, <2>3 DEF BulkOK
  <2>7. BulkRequestKept(s)'
    BY <2>1, <2>3, <2>4, <2>5, <2>6 DEF BulkRequestKept
  <2> QED BY <2>1, <2>2, <2>3, <2>7, LaunchStep
<1>2. CASE research[r.at] \in {"deleted", "ACTIVE"}
  BY <1>2, LaunchEnds DEF EnqueueLaunched, bulkVars
<1> QED BY <1>1, <1>2

\* A request that has read grounded items knows what it may store.
LEMMA ReadKept ==
    ASSUME NEW s \in Reading, s.pc = "items", s.stored = s.seen,
           \A t \in Targets : Grounded(s.stored[t], t)'
    PROVE  BulkRequestKept(s)'
<1>1. ~Launches(s)
  BY DEF Launches
<1>2. \A t \in Targets : Grounded(s.stored[t], t)' /\ Grounded(s.seen[t], t)'
  OBVIOUS
<1> QED BY <1>1, <1>2 DEF BulkRequestKept, Launches

LEMMA AddItemKeeps ==
    ASSUME ProjectInv, NEW q \in WsRequests, AddItem(q) PROVE ProjectStep
<1> PICK r : r = wsReq[q]
  OBVIOUS
<1>1. r.pc = "record" /\ UNCHANGED <<domainVars, bulk, research, ended>>
  BY DEF AddItem
<1>2. r \in Launching /\ Launches(r) /\ BulkRequestKept(r) /\ BulkOK /\ RequestsOK
  BY <1>1, WsRequestIs DEF Launches, ProjectInv, BulkOK
<1>3. r.at \in Targets /\ r.at \in Nat /\ r.at <= Total
  BY <1>2, TargetsAre DEF Launching, Targets
<1>4. CASE bulk # "kept"
  BY <1>4, LaunchEnds DEF AddItem, bulkVars
<1>5. CASE bulk = "kept"
  <2> PICK s : s = IF r.at < Total THEN [pc |-> "launch", at |-> r.at + 1] ELSE ReadAfter(item')
    OBVIOUS
  <2>1. item' = [item EXCEPT ![r.at] = "PENDING"] /\ WsTo(q, s)
    BY <1>5 DEF AddItem
  <2>2. \A t \in Targets : Grounded(item[t], t)'
    <3>1. research[r.at] \notin {"none", "DRAFT"}
      BY <1>1, <1>2 DEF BulkRequestKept
    <3>2. ASSUME NEW t \in Targets PROVE Grounded(item[t], t)'
      <4>1. Grounded(item[t], t) /\ item'[t] = IF t = r.at THEN "PENDING" ELSE item[t]
        BY <1>2, <2>1 DEF BulkOK
      <4>2. CASE t = r.at
        BY <1>1, <3>1, <4>1, <4>2 DEF Grounded
      <4>3. CASE t # r.at
        BY <1>1, <4>1, <4>3 DEF Grounded
      <4> QED BY <4>2, <4>3
    <3> QED BY <3>2
  <2>3. item' \in [Targets -> ItemState]
    BY <1>2, <2>1 DEF BulkOK, ItemState
  <2>4. s \in WsState /\ BulkRequestKept(s)'
    <3>1. CASE r.at < Total
      <4>1. r.at + 1 \in Targets
        BY <1>3, <3>1, TargetsAre DEF Targets
      <4>2. s \in WsState /\ s \in Launching /\ s.pc = "launch" /\ s.at = r.at + 1
        BY <3>1, <4>1, LaunchingIs
      <4>3. bulk # "none" /\ \A u \in Targets : u > r.at => research[u] = "none"
        BY <1>2 DEF BulkRequestKept
      <4>4. \A u \in Targets : u > s.at \/ (u = s.at /\ s.pc = "launch") => u > r.at
        <5> SUFFICES ASSUME NEW u \in Targets, u > s.at \/ u = s.at PROVE u > r.at
          OBVIOUS
        <5> PICK n \in Nat : n = r.at
          BY <1>3
        <5>1. u \in Nat /\ (u > n + 1 \/ u = n + 1)
          BY <4>2, TargetsAre
        <5>2. u > n
          BY <5>1
        <5> QED BY <5>2
      <4>5. \A u \in Targets : u > s.at \/ (u = s.at /\ s.pc = "launch") => research'[u] = "none"
        BY <1>1, <4>3, <4>4
      <4> QED BY <1>1, <4>2, <4>3, <4>5 DEF BulkRequestKept
    <3>2. CASE ~(r.at < Total)
      <4>1. s = ReadAfter(item')
        BY <3>2
      <4>2. s \in WsState /\ s \in Reading /\ s.pc = "items" /\ s.stored = item' /\ s.seen = item'
        BY <2>3, <4>1, ReadAfterIs
      <4>3. \A t \in Targets : Grounded(s.stored[t], t)'
        BY <2>2, <4>2
      <4> QED BY <4>2, <4>3, ReadKept
    <3> QED BY <3>1, <3>2
  <2>5. BulkEvolves /\ NoneStays
    BY <1>1 DEF BulkEvolves, NoneStays
  <2>6. \A t \in Targets :
            /\ Grounded(item[t], t)'
            /\ research'[t] \in ResearchStatus /\ Ends(research'[t]) # "PENDING"
                   => Ends(research'[t]) \in ended'[t]
    BY <1>1, <1>2, <2>2 DEF BulkOK
  <2>7. /\ research' \in [Targets -> {"none", "deleted"} \cup ResearchStatus]
        /\ ended' \in [Targets -> SUBSET {"COMPLETED", "FAILED"}] /\ bulk' = "kept"
    BY <1>1, <1>2, <1>5 DEF BulkOK
  <2>8. BulkOK'
    BY <1>2, <2>1, <2>3, <2>4, <2>5, <2>6, <2>7, BulkStep
  <2> QED BY <1>1, <2>1, <2>4, <2>8, BulkSide
<1> QED BY <1>4, <1>5

LEMMA ReadBulkRunKeeps ==
    ASSUME ProjectInv, NEW q \in WsRequests, ReadBulkRun(q) PROVE ProjectStep
<1> PICK s : s = ReadAfter(item)
  OBVIOUS
<1>1. WsTo(q, s) /\ UNCHANGED <<domainVars, bulkVars>>
  BY DEF ReadBulkRun
<1>2. BulkOK /\ RequestsOK
  BY DEF ProjectInv
<1>3. s \in WsState /\ s \in Reading /\ s.pc = "items" /\ s.stored = item /\ s.seen = item
  BY <1>2, ReadAfterIs DEF BulkOK
<1>4. \A t \in Targets : Grounded(item[t], t)'
  BY <1>1, <1>2, BulkSame
<1>5. \A t \in Targets : Grounded(s.stored[t], t)'
  <2>1. UNCHANGED <<item, research, ended>>
    BY <1>1 DEF bulkVars
  <2> QED BY <1>3, <1>4, <2>1
<1>6. BulkRequestKept(s)'
  BY <1>3, <1>5, ReadKept
<1>7. BulkOK'
  BY <1>1, <1>2, <1>3, <1>6, BulkSame, BulkStep DEF Launches
<1> QED BY <1>1, <1>3, <1>7, BulkSide

\* The state of a research is one its item may have.
LEMMA EndsIs ==
    ASSUME BulkOK, NEW t \in Targets, research[t] \notin {"none", "DRAFT", "deleted"}
    PROVE  Ends(research[t]) \in ItemState \ {"none"} /\ Grounded(Ends(research[t]), t)
<1>1. research[t] \in ResearchStatus
  BY DEF BulkOK
<1>2. Ends(research[t]) \in {"COMPLETED", "FAILED", "PENDING"}
  BY <1>1 DEF Ends, ResearchStatus
<1>3. Ends(research[t]) # "PENDING" => Ends(research[t]) \in ended[t]
  BY <1>1 DEF BulkOK
<1> QED BY <1>2, <1>3 DEF Grounded, ItemState

LEMMA ReadStatusesKeeps ==
    ASSUME ProjectInv, NEW q \in WsRequests, ReadStatuses(q) PROVE ProjectStep
<1> PICK r : r = wsReq[q]
  OBVIOUS
<1> PICK seen : seen = [t \in Targets |-> IF r.seen[t] = "none" \/ research[t] = "deleted"
                                          THEN r.seen[t] ELSE Ends(research[t])]
  OBVIOUS
<1> PICK s : s = [r EXCEPT !.pc = "states", !.seen = seen]
  OBVIOUS
<1>1. r.pc = "items" /\ UNCHANGED <<domainVars, bulkVars>>
  BY DEF ReadStatuses
<1>2. r \in Reading /\ BulkRequestKept(r) /\ BulkOK /\ RequestsOK
  BY <1>1, WsRequestIs DEF ProjectInv, BulkOK
<1>3. WsTo(q, s)
  BY <1>2 DEF ReadStatuses, Reading
<1>4. \A t \in Targets : /\ Grounded(r.stored[t], t) /\ Grounded(r.seen[t], t)
                         /\ r.stored[t] = "none" <=> r.seen[t] = "none"
  BY <1>1, <1>2 DEF BulkRequestKept
<1>5. r.stored \in [Targets -> ItemState] /\ r.seen \in [Targets -> ItemState]
  BY <1>2 DEF Reading
<1>6. ASSUME NEW t \in Targets
      PROVE  /\ seen[t] \in ItemState /\ Grounded(seen[t], t)
             /\ seen[t] = "none" <=> r.stored[t] = "none"
  <2>1. CASE r.seen[t] = "none" \/ research[t] = "deleted"
    <3>1. seen[t] = r.seen[t]
      BY <2>1
    <3> QED BY <1>4, <1>5, <3>1
  <2>2. CASE ~(r.seen[t] = "none" \/ research[t] = "deleted")
    <3>1. seen[t] = Ends(research[t])
      BY <2>2
    <3>2. research[t] \notin {"none", "DRAFT", "deleted"} /\ r.stored[t] # "none"
      BY <1>4, <2>2 DEF Grounded
    <3> QED BY <1>2, <3>1, <3>2, EndsIs
  <2> QED BY <2>1, <2>2
<1>7. seen \in [Targets -> ItemState]
  BY <1>6
<1>8. s \in WsState /\ s \in Reading /\ s.pc = "states" /\ s.stored = r.stored /\ s.seen = seen
  <2>1. s = [pc |-> "states", stored |-> r.stored, seen |-> seen]
    BY <1>2 DEF Reading
  <2> QED BY <1>5, <1>7, <2>1 DEF WsState, Reading
<1>9. BulkRequestKept(s)'
  <2>1. UNCHANGED <<item, research, ended>>
    BY <1>1 DEF bulkVars
  <2>2. \A t \in Targets : Grounded(s.stored[t], t) /\ Grounded(s.seen[t], t)
    BY <1>4, <1>6, <1>8
  <2>3. \A t \in Targets : Grounded(s.stored[t], t)' /\ Grounded(s.seen[t], t)'
    BY <2>1, <2>2 DEF Grounded
  <2>4. \A t \in Targets : s.stored[t] = "none" <=> s.seen[t] = "none"
    BY <1>6, <1>8
  <2>5. ~Launches(s)
    BY <1>8 DEF Launches
  <2> QED BY <1>8, <2>3, <2>4, <2>5 DEF BulkRequestKept, Launches
<1>10. BulkOK'
  BY <1>1, <1>2, <1>3, <1>8, <1>9, BulkSame, BulkStep DEF Launches
<1> QED BY <1>1, <1>3, <1>8, <1>10, BulkSide

\* The answer that a run is finished rests on every target.
LEMMA FullIs ==
    ASSUME NEW seen \in [Targets -> ItemState], Full(seen), NEW t \in Targets
    PROVE  seen[t] \in {"COMPLETED", "FAILED"}
<1>1. IsFiniteSet(Targets) /\ Cardinality(Targets) = Total
  <2>1. 1 \in Int /\ Total \in Int /\ Total - 1 + 1 = Total /\ ~(1 > Total)
    BY TargetsAre
  <2>2. IsFiniteSet(1..Total) /\ Cardinality(1..Total) = IF 1 > Total THEN 0 ELSE Total - 1 + 1
    BY <2>1, FS_Interval
  <2> QED BY <2>1, <2>2 DEF Targets
<1>2. Finished(seen) \subseteq Targets /\ Cardinality(Finished(seen)) = Cardinality(Targets)
  BY <1>1 DEF Full, Finished
<1>3. Finished(seen) = Targets
  BY <1>1, <1>2, FS_Subset
<1> QED BY <1>3 DEF Finished

LEMMA SyncItemsKeeps ==
    ASSUME ProjectInv, NEW q \in WsRequests, SyncItems(q) PROVE ProjectStep
<1> PICK r : r = wsReq[q]
  OBVIOUS
<1> PICK changed : changed = {t \in Targets : r.seen[t] # r.stored[t]}
  OBVIOUS
<1>1. r.pc = "states" /\ UNCHANGED <<domainVars, bulk, research, ended>>
  BY DEF SyncItems
<1>2. r \in Reading /\ BulkRequestKept(r) /\ BulkOK /\ RequestsOK
  BY <1>1, WsRequestIs DEF ProjectInv, BulkOK
<1>3. CASE ~(\A t \in changed : item[t] # "none")
  BY <1>3, LaunchEnds DEF SyncItems, bulkVars
<1>4. CASE \A t \in changed : item[t] # "none"
  <2> PICK full \in BOOLEAN : full = Full(r.seen)
    BY DEF Full
  <2> PICK s : s = [pc |-> "answered", full |-> full]
    OBVIOUS
  <2>1. /\ item' = [t \in Targets |-> IF t \in changed THEN r.seen[t] ELSE item[t]]
        /\ WsTo(q, s)
    BY <1>4 DEF SyncItems
  <2>2. s \in WsState /\ s \in Answering /\ s.pc = "answered" /\ s.full = full
    BY DEF WsState, Answering
  <2>3. \A t \in Targets : Grounded(r.seen[t], t) /\ Grounded(item[t], t)
    BY <1>1, <1>2 DEF BulkRequestKept, BulkOK
  <2>4. \A t \in Targets : Grounded(item[t], t)'
    BY <1>1, <2>1, <2>3 DEF Grounded
  <2>5. item' \in [Targets -> ItemState]
    BY <1>2, <2>1 DEF Reading, BulkOK
  <2>6. full => \A t \in Targets : ended[t] # {}
    <3> SUFFICES ASSUME full, NEW t \in Targets PROVE ended[t] # {}
      OBVIOUS
    <3>1. r.seen[t] \in {"COMPLETED", "FAILED"}
      BY <1>2, FullIs DEF Reading
    <3> QED BY <2>3, <3>1 DEF Grounded
  <2>7. BulkRequestKept(s)'
    <3>1. ~Launches(s)
      BY <2>2 DEF Launches
    <3> QED BY <1>1, <2>2, <2>6, <3>1 DEF BulkRequestKept, Launches
  <2>8. BulkEvolves /\ NoneStays
    BY <1>1 DEF BulkEvolves, NoneStays
  <2>9. \A t \in Targets :
            /\ Grounded(item[t], t)'
            /\ research'[t] \in ResearchStatus /\ Ends(research'[t]) # "PENDING"
                   => Ends(research'[t]) \in ended'[t]
    BY <1>1, <1>2, <2>4 DEF BulkOK
  <2>10. /\ research' \in [Targets -> {"none", "deleted"} \cup ResearchStatus]
         /\ ended' \in [Targets -> SUBSET {"COMPLETED", "FAILED"}]
         /\ bulk' \in {"none", "kept", "deleted"}
         /\ bulk' = "none" => \A t \in Targets : research'[t] = "none"
    BY <1>1, <1>2 DEF BulkOK
  <2>11. BulkOK'
    BY <1>2, <2>1, <2>2, <2>5, <2>7, <2>8, <2>9, <2>10, BulkStep DEF Launches
  <2> QED BY <1>1, <2>1, <2>2, <2>11, BulkSide
<1> QED BY <1>3, <1>4

LEMMA ResearchMovesKeeps ==
    ASSUME ProjectInv, NEW t \in Targets, NEW status \in ResearchStatus \cup {"deleted"},
           ResearchMoves(t, status)
    PROVE  ProjectStep
<1>1. /\ research' = [research EXCEPT ![t] = status] /\ status \in {"COMPLETED", "FAILED", "ARCHIVED", "deleted", "ACTIVE"}
      /\ ended' = [ended EXCEPT ![t] = ended[t] \cup ({Ends(status)} \ {"PENDING"})]
      /\ research[t] \in ResearchStatus
      /\ UNCHANGED <<domainVars, bulk, item, wsReq>>
  BY DEF ResearchMoves, ResearchStatus
<1>2. BulkOK /\ RequestsOK
  BY DEF ProjectInv
<1>3. /\ research \in [Targets -> {"none", "deleted"} \cup ResearchStatus]
      /\ ended \in [Targets -> SUBSET {"COMPLETED", "FAILED"}]
      /\ \A u \in Targets : research'[u] = IF u = t THEN status ELSE research[u]
      /\ \A u \in Targets : ended'[u] = IF u = t THEN ended[t] \cup ({Ends(status)} \ {"PENDING"}) ELSE ended[u]
  BY <1>1, <1>2 DEF BulkOK
<1>4. Ends(status) \in {"COMPLETED", "FAILED", "PENDING"}
  BY <1>1 DEF Ends
<1>5. /\ research' \in [Targets -> {"none", "deleted"} \cup ResearchStatus]
      /\ ended' \in [Targets -> SUBSET {"COMPLETED", "FAILED"}]
  BY <1>1, <1>3, <1>4
<1>6. BulkEvolves /\ NoneStays
  BY <1>1, <1>3 DEF BulkEvolves, NoneStays, ResearchStatus
<1>7. ASSUME NEW u \in Targets
      PROVE  /\ Grounded(item[u], u)'
             /\ research'[u] \in ResearchStatus /\ Ends(research'[u]) # "PENDING"
                    => Ends(research'[u]) \in ended'[u]
  <2>1. Grounded(item[u], u) /\ item'[u] = item[u]
    BY <1>1, <1>2 DEF BulkOK
  <2>2. Grounded(item[u], u)'
    BY <1>6, <2>1 DEF Grounded, BulkEvolves
  <2>3. CASE u = t
    <3>1. research'[u] = status /\ ended'[u] = ended[t] \cup ({Ends(status)} \ {"PENDING"})
      BY <1>3, <2>3
    <3> QED BY <2>2, <3>1
  <2>4. CASE u # t
    BY <1>2, <1>3, <2>2, <2>4 DEF BulkOK
  <2> QED BY <2>3, <2>4
<1>8. bulk' = "none" => \A u \in Targets : research'[u] = "none"
  BY <1>1, <1>2 DEF BulkOK, ResearchStatus
<1>9. item' \in [Targets -> ItemState] /\ bulk' \in {"none", "kept", "deleted"}
  BY <1>1, <1>2 DEF BulkOK
<1>10. BulkOK'
  BY <1>1, <1>2, <1>5, <1>6, <1>7, <1>8, <1>9, BulkOutside
<1>11. UNCHANGED <<project, domain>>
  BY <1>1 DEF domainVars
<1>12. DomainsMove
  BY <1>11, DomainsStay DEF ProjectInv
<1> QED BY <1>1, <1>10, <1>11, <1>12 DEF ProjectStep, ProjectInv, DomainsMove, RequestsOK

-----------------------------------------------------------------------------
LEMMA WsRequestDiesKeeps ==
    ASSUME ProjectInv, NEW q \in WsRequests, WsRequestDies(q) \/ AnswerBulkRun(q) PROVE ProjectStep
  BY LaunchEnds DEF WsRequestDies, AnswerBulkRun

LEMMA ProjectBegins == ASSUME WorkspaceInit PROVE ProjectInv
<1>1. DomainsOK
  <2>1. /\ domain = <<>> /\ domain \in Seq(ProjectDomain) /\ Len(domain) = 0 /\ MaxDomains \in Nat
    BY WorkspaceAssumption, EmptySeq DEF WorkspaceInit, WorkspaceAssumption
  <2>2. LiveIn(domain) = {} /\ PrimariesIn(domain) = {}
    BY <2>1, DomainsIn DEF LiveIn, PrimariesIn
  <2>3. Cardinality(PrimariesIn(domain)) = 0
    BY <2>2, FS_EmptySet
  <2> QED BY <2>1, <2>2, <2>3 DEF DomainsOK, Allowed
<1>2. RequestsOK
  BY DEF WorkspaceInit, RequestsOK, WsState
<1>3. \A q \in WsRequests : wsReq[q].pc = "idle"
  BY DEF WorkspaceInit, NoWsRequest
<1>4. \A q \in WsRequests : BulkRequestKept(wsReq[q]) /\ ~Launches(wsReq[q])
  BY <1>3 DEF BulkRequestKept, Launches
<1>5. BulkOK
  BY <1>4 DEF WorkspaceInit, BulkOK, Grounded, ItemState, ResearchStatus
<1> QED BY <1>1, <1>2, <1>5 DEF ProjectInv, WorkspaceInit

LEMMA ProjectSteps == ASSUME ProjectInv, [WorkspaceNext]_workspaceVars PROVE ProjectStep
<1>1. CASE UNCHANGED workspaceVars
  <2>1. UNCHANGED <<project, domain, wsReq>> /\ UNCHANGED bulkVars
    BY <1>1 DEF workspaceVars, domainVars
  <2>2. BulkOK'
    BY <2>1, BulkSame, BulkOutside DEF ProjectInv
  <2> QED BY <2>1, <2>2, DomainsStay DEF ProjectStep, ProjectInv, DomainsMove, RequestsOK
<1>2. CASE WorkspaceNext
  <2>1. ASSUME CreateProject PROVE ProjectStep
    BY <2>1, CreateProjectKeeps
  <2>2. ASSUME DeleteProject PROVE ProjectStep
    BY <2>2, DeleteProjectKeeps
  <2>3. ASSUME NEW i \in DOMAIN domain, DeleteDomain(i) PROVE ProjectStep
    BY <2>3, DeleteDomainKeeps
  <2>4. ASSUME NEW t \in Targets, NEW status \in ResearchStatus \cup {"deleted"}, ResearchMoves(t, status)
        PROVE  ProjectStep
    BY <2>4, ResearchMovesKeeps
  <2>5. ASSUME NEW q \in WsRequests, NEW host \in Hosts, NEW primary \in BOOLEAN,
               \/ CreateDomain(q, host, primary)
               \/ ChangeDomain(q, [host |-> host, primary |-> primary])
        PROVE  ProjectStep
    <3>1. [host |-> host, primary |-> primary] \in Loaded
      BY DEF Loaded
    <3> QED BY <2>5, <3>1, CreateDomainKeeps, ChangeDomainKeeps
  <2>6. ASSUME NEW q \in WsRequests, ListToDemote(q) \/ PlaceDomain(q) \/ ImportOne(q) PROVE ProjectStep
    BY <2>6, ListToDemoteKeeps, PlaceDomainKeeps, ImportOneKeeps
  <2>7. ASSUME NEW q \in WsRequests, NEW i \in DOMAIN domain, LoadDomain(q, i) PROVE ProjectStep
    BY <2>7, LoadDomainKeeps
  <2>8. ASSUME NEW q \in WsRequests, NEW payload \in Payloads, ImportDomains(q, payload) PROVE ProjectStep
    BY <2>8, ImportDomainsKeeps
  <2>9. ASSUME NEW q \in WsRequests, CreateBulkRun(q) \/ LaunchResearch(q) \/ EnqueueLaunched(q) \/ AddItem(q)
        PROVE  ProjectStep
    BY <2>9, CreateBulkRunKeeps, LaunchResearchKeeps, EnqueueLaunchedKeeps, AddItemKeeps
  <2>10. ASSUME NEW q \in WsRequests, ReadBulkRun(q) \/ ReadStatuses(q) \/ SyncItems(q) PROVE ProjectStep
    BY <2>10, ReadBulkRunKeeps, ReadStatusesKeeps, SyncItemsKeeps
  <2>11. ASSUME NEW q \in WsRequests, WsRequestDies(q) \/ AnswerBulkRun(q) PROVE ProjectStep
    BY <2>11, WsRequestDiesKeeps
  <2> QED BY <1>2, <2>1, <2>2, <2>3, <2>4, <2>5, <2>6, <2>7, <2>8, <2>9, <2>10, <2>11 DEF WorkspaceNext
<1> QED BY <1>1, <1>2

\* Distinct hosts are as many as the rows that have them.
LEMMA HostsDistinct ==
    ASSUME NEW d \in Seq(ProjectDomain), Allowed(d)
    PROVE  Cardinality({d[i].host : i \in LiveIn(d)}) = Cardinality(LiveIn(d))
<1> PICK H : H = {d[i].host : i \in LiveIn(d)}
  OBVIOUS
<1> PICK L : L = LiveIn(d)
  OBVIOUS
<1> PICK f : f = [i \in L |-> d[i].host]
  OBVIOUS
<1>1. IsFiniteSet(L)
  BY DomainsIn
<1>2. f \in Bijection(L, H)
  <2>1. f \in [L -> H] /\ (\A x \in H : \E i \in L : f[i] = x)
    OBVIOUS
  <2>2. \A i, j \in L : f[i] = f[j] => i = j
    BY DEF Allowed
  <2> QED BY <2>1, <2>2, Fun_IsBij
<1>3. Cardinality(H) = Cardinality(L)
  <2>1. ExistsBijection(L, H)
    BY <1>2, Fun_ExistsBij
  <2> QED BY <1>1, <2>1, FS_Bijection
<1> QED BY <1>3

LEMMA ProjectInvIs == ASSUME ProjectInv PROVE ProjectConsistent /\ WorkspaceTypeOK
<1>1. /\ domain \in Seq(ProjectDomain) /\ Allowed(domain) /\ BulkOK
  BY DEF ProjectInv, DomainsOK
<1>2. Cardinality(PrimariesIn(domain)) <= 1
  BY <1>1 DEF Allowed
<1>3. Cardinality({domain[i].host : i \in LiveIn(domain)}) = Cardinality(LiveIn(domain))
  BY <1>1, HostsDistinct
<1>4. \A t \in Targets :
        /\ item[t] # "none" => research[t] \notin {"none", "DRAFT"}
        /\ item[t] \in {"COMPLETED", "FAILED"} => item[t] \in ended[t]
  BY <1>1 DEF BulkOK, Grounded
<1>5. \A q \in WsRequests :
        wsReq[q].pc = "answered" /\ wsReq[q].full => \A t \in Targets : ended[t] # {}
  BY <1>1 DEF BulkOK, BulkRequestKept
<1>6. ProjectConsistent
  BY <1>2, <1>3, <1>4, <1>5 DEF ProjectConsistent
<1>7. \A q \in WsRequests :
        wsReq[q] \in {NoWsRequest} \cup Saving \cup Changing \cup Importing
                        \cup Launching \cup Reading \cup Answering
  BY DEF ProjectInv, RequestsOK, WsState
<1>8. WorkspaceTypeOK
  BY <1>1, <1>7 DEF WorkspaceTypeOK, ProjectInv, DomainsOK, BulkOK
<1> QED BY <1>6, <1>8

\* ProjectConsistent, MarkMovesToNew, DomainRepository.save, import_domains,
\* create_bulk_run and _read_bulk_run: whoever creates, changes and imports domains at
\* once, at most one of them is the primary one, their hosts are distinct, and a stored one
\* gets the mark only where there is none; and neither a stored item nor the report that a
\* bulk run is finished is ahead of the researches.  A request that launches is the only
\* one, and has not come to the targets behind; the index on the primary domain stops the
\* flush of a row that takes the mark while another has it.
THEOREM WorkspaceCorrect ==
    WorkspaceInit /\ [][WorkspaceNext]_workspaceVars => []WorkspaceTypeOK /\ ProjectKept
<1>1. WorkspaceInit => ProjectInv
  BY ProjectBegins
<1>2. ProjectInv /\ [WorkspaceNext]_workspaceVars => ProjectInv'
  BY ProjectSteps DEF ProjectStep
<1>3. ProjectInv /\ [WorkspaceNext]_workspaceVars
        => [\A i \in LiveIn(domain) :
              ~domain[i].primary /\ domain'[i].primary => PrimariesIn(domain) = {}]_workspaceVars
  BY ProjectSteps DEF ProjectStep, DomainsMove
<1>4. ProjectInv => ProjectConsistent /\ WorkspaceTypeOK
  BY ProjectInvIs
<1> QED BY <1>1, <1>2, <1>3, <1>4, PTL DEF ProjectKept, MarkMovesToNew

-----------------------------------------------------------------------------
(***************************************************************************)
(* ProjectMonitoring                                                       *)
(***************************************************************************)
\* A schedule that is still there bears the project's name.
Owned(s, p) == s \in DOMAIN schedule /\ (schedule[s] # NoSchedule => schedule[s].for = p)

Makes(r, p) ==
    r # NoMonitorRequest /\ r.pc = "scheduled" /\ r.kind = "upsert" /\ r.row = NoMonitor /\ r.project = p
Makers(p) == {q \in MonitorRequests : Makes(monitorReq[q], p)}

\* The schedules of a project that nobody accounts for: neither its monitor nor a request
\* about to commit one.
Orphans(p) ==
    {s \in DOMAIN schedule :
        /\ schedule[s] # NoSchedule /\ schedule[s].for = p
        /\ monitor[p].schedule # s
        /\ \A q \in MonitorRequests : Makes(monitorReq[q], p) => monitorReq[q].id # s}

OrphansForsaken == \A p \in Projects : Cardinality(Orphans(p)) <= forsaken[p]

\* What a request has read and written is its project's.
RequestOwns(r) ==
    /\ r.row # NoMonitor => Owned(r.row.schedule, r.project)
    /\ r.kind = "delete" => r.row # NoMonitor
    /\ r.pc = "scheduled" =>
           /\ Owned(r.id, r.project)
           /\ r.row # NoMonitor => r.id = r.row.schedule
           /\ r.kind = "delete" => schedule[r.id] = NoSchedule

\* A request that nothing crossed is alone with its project's monitor, which is as it has
\* read it, and its schedule is as it has written it.
Undisturbed(q, r) ==
    /\ UnderWay(r.project) = {q}
    /\ r.row = monitor[r.project]
    /\ r.pc = "scheduled" /\ r.kind = "upsert" =>
           schedule[r.id] # NoSchedule /\ schedule[r.id].set = r.set

MonitorRequestKept(q, r) ==
    r # NoMonitorRequest =>
        /\ RequestOwns(r)
        /\ IF q \in crossed THEN r.project \in torn ELSE Undisturbed(q, r)

MonitorShown(p) ==
    /\ schedule[monitor[p].schedule] # NoSchedule
    /\ schedule[monitor[p].schedule].set = monitor[p].set

\* Between its two commits a request alone knows what the schedule is to be.
MonitorKept(p) ==
    monitor[p] # NoMonitor =>
        /\ Owned(monitor[p].schedule, p)
        /\ p \notin torn /\ (\A q \in UnderWay(p) : monitorReq[q].pc = "found") => MonitorShown(p)

MonitoringInv ==
    /\ MonitoringTypeOK
    /\ OrphansForsaken
    /\ \A q \in MonitorRequests : MonitorRequestKept(q, monitorReq[q])
    /\ \A p \in Projects : MonitorKept(p)

LEMMA MonitorRows ==
    ASSUME MonitoringTypeOK
    PROVE  /\ DOMAIN schedule = 1..Len(schedule) /\ Len(schedule) \in Nat
           /\ Len(schedule) <= MaxSchedules /\ MaxSchedules \in Nat
           /\ \A s \in DOMAIN schedule : schedule[s] \in {NoSchedule} \cup ScheduleRow /\ s \in ScheduleIds
           /\ \A p \in Projects : monitor[p] \in {NoMonitor} \cup MonitorRow
           /\ \A p \in Projects : forsaken[p] \in Nat
<1>1. /\ DOMAIN schedule = 1..Len(schedule) /\ Len(schedule) \in Nat /\ Len(schedule) <= MaxSchedules
      /\ MaxSchedules \in Nat
  BY MonitoringAssumption DEF MonitoringTypeOK, MonitoringAssumption
<1>2. \A s \in DOMAIN schedule : schedule[s] \in {NoSchedule} \cup ScheduleRow /\ s \in ScheduleIds
  BY <1>1, ElementOfSeq DEF MonitoringTypeOK, ScheduleIds
<1> QED BY <1>1, <1>2 DEF MonitoringTypeOK

LEMMA MonitorRequestIs ==
    ASSUME MonitoringInv, NEW q \in MonitorRequests, monitorReq[q].pc # "idle"
    PROVE  /\ monitorReq[q] # NoMonitorRequest /\ monitorReq[q] \in MonitorRequest
           /\ RequestOwns(monitorReq[q]) /\ monitorReq[q].project \in Projects
           /\ q \in UnderWay(monitorReq[q].project)
           /\ IF q \in crossed THEN monitorReq[q].project \in torn ELSE Undisturbed(q, monitorReq[q])
<1>1. monitorReq[q] # NoMonitorRequest /\ monitorReq[q] \in MonitorRequest
  BY DEF NoMonitorRequest, MonitoringInv, MonitoringTypeOK
<1> QED BY <1>1 DEF MonitoringInv, MonitorRequestKept, UnderWay, MonitorRequest

-----------------------------------------------------------------------------
\* Orphans: nothing that is not forsaken becomes one.
LEMMA OrphansCounted ==
    ASSUME MonitoringTypeOK, NEW p \in Projects, Cardinality(Orphans(p)) <= forsaken[p],
           NEW n \in Nat, NEW O,
           \/ O \subseteq Orphans(p) /\ forsaken[p] <= n
           \/ \E x : O \subseteq Orphans(p) \cup {x} /\ n = forsaken[p] + 1
    PROVE  Cardinality(O) <= n
<1>1. IsFiniteSet(Orphans(p)) /\ Cardinality(Orphans(p)) \in Nat /\ forsaken[p] \in Nat
  <2>1. IsFiniteSet(1..Len(schedule)) /\ Orphans(p) \subseteq 1..Len(schedule)
    BY MonitorRows, FS_Interval DEF Orphans
  <2> QED BY <2>1, FS_Subset, FS_CardinalityType, MonitorRows
<1>2. ASSUME O \subseteq Orphans(p), forsaken[p] <= n PROVE Cardinality(O) <= n
  <2>1. Cardinality(O) <= Cardinality(Orphans(p)) /\ Cardinality(O) \in Nat
    BY <1>1, <1>2, FS_Subset, FS_CardinalityType
  <2> QED BY <1>1, <1>2, <2>1
<1>3. ASSUME NEW x, O \subseteq Orphans(p) \cup {x}, n = forsaken[p] + 1 PROVE Cardinality(O) <= n
  <2>1. IsFiniteSet(Orphans(p) \cup {x})
        /\ Cardinality(Orphans(p) \cup {x}) <= Cardinality(Orphans(p)) + 1
        /\ Cardinality(Orphans(p) \cup {x}) \in Nat
    <3>1. IsFiniteSet(Orphans(p) \cup {x})
      BY <1>1, FS_AddElement
    <3>2. Cardinality(Orphans(p) \cup {x}) =
             IF x \in Orphans(p) THEN Cardinality(Orphans(p)) ELSE Cardinality(Orphans(p)) + 1
      BY <1>1, FS_AddElement
    <3> QED BY <1>1, <3>1, <3>2
  <2>2. Cardinality(O) <= Cardinality(Orphans(p) \cup {x}) /\ Cardinality(O) \in Nat
    BY <1>3, <2>1, FS_Subset, FS_CardinalityType
  <2> QED BY <1>1, <1>3, <2>1, <2>2
<1> QED BY <1>2, <1>3

\* No step revives a schedule or gives it away.
SchedulesEndure ==
    /\ DOMAIN schedule \subseteq DOMAIN schedule'
    /\ \A s \in DOMAIN schedule :
           schedule'[s] # NoSchedule =>
               schedule[s] # NoSchedule /\ schedule'[s].for = schedule[s].for

LEMMA OwnedEndures ==
    ASSUME SchedulesEndure
    PROVE  /\ \A s, p : Owned(s, p) => Owned(s, p)'
           /\ \A r : RequestOwns(r) => RequestOwns(r)'
<1>1. ASSUME NEW s, NEW p, Owned(s, p) PROVE Owned(s, p)'
  BY <1>1 DEF SchedulesEndure, Owned
<1>2. ASSUME NEW r, RequestOwns(r) PROVE RequestOwns(r)'
  <2>1. r.row # NoMonitor => Owned(r.row.schedule, r.project)'
    BY <1>1, <1>2 DEF RequestOwns
  <2>2. r.pc = "scheduled" => Owned(r.id, r.project)'
    BY <1>1, <1>2 DEF RequestOwns
  <2>3. r.pc = "scheduled" /\ r.kind = "delete" => schedule'[r.id] = NoSchedule
    BY <1>2 DEF RequestOwns, SchedulesEndure, Owned
  <2> QED BY <1>2, <2>1, <2>2, <2>3 DEF RequestOwns
<1> QED BY <1>1, <1>2

-----------------------------------------------------------------------------
\* A step of request q, which is about project p, and goes on as s: to others it does
\* nothing, and whoever else is at work on the project was crossed.
StepOf(q, p, s) ==
    /\ SchedulesEndure
    /\ monitorReq' = [monitorReq EXCEPT ![q] = s]
    /\ monitorReq[q] # NoMonitorRequest => monitorReq[q].project = p
    /\ s # NoMonitorRequest => s.project = p
    /\ \A e \in Projects \ {p} : monitor'[e] = monitor[e] /\ forsaken'[e] = forsaken[e]
    /\ \A x \in DOMAIN schedule :
           schedule'[x] = schedule[x] \/ (schedule[x] # NoSchedule /\ schedule[x].for = p)
    /\ \A x \in DOMAIN schedule' \ DOMAIN schedule : schedule'[x].for = p
    /\ torn \ {p} \subseteq torn'
    /\ \A d \in UnderWay(p) \ {q} : d \in crossed' /\ p \in torn'
    /\ \A d \in MonitorRequests \ (UnderWay(p) \cup {q}) : d \in crossed' <=> d \in crossed

LEMMA UnderWayAfter ==
    ASSUME MonitoringTypeOK, NEW q \in MonitorRequests, NEW p, NEW s, StepOf(q, p, s)
    PROVE  /\ \A e \in Projects \ {p} : UnderWay(e)' = UnderWay(e)
           /\ UnderWay(p)' = (UnderWay(p) \ {q}) \cup {d \in {q} : s # NoMonitorRequest}
           /\ \A d \in MonitorRequests : monitorReq'[d] = IF d = q THEN s ELSE monitorReq[d]
<1>1. \A d \in MonitorRequests : monitorReq'[d] = IF d = q THEN s ELSE monitorReq[d]
  BY DEF MonitoringTypeOK, StepOf
<1> QED BY <1>1 DEF UnderWay, StepOf

\* Two requests at work on one project have crossed each other.
LEMMA SameProject ==
    ASSUME MonitoringInv, NEW q \in MonitorRequests, monitorReq[q] # NoMonitorRequest,
           NEW d \in UnderWay(monitorReq[q].project), d # q
    PROVE  d \in crossed /\ q \in crossed /\ monitorReq[q].project \in torn
<1> PICK r : r = monitorReq[q]
  OBVIOUS
<1> PICK t : t = monitorReq[d]
  OBVIOUS
<1>1. /\ d \in MonitorRequests /\ t # NoMonitorRequest /\ t.project = r.project
      /\ MonitorRequestKept(d, t) /\ MonitorRequestKept(q, r) /\ q \in UnderWay(r.project)
  BY DEF UnderWay, MonitoringInv
<1> QED BY <1>1 DEF MonitorRequestKept, Undisturbed

LEMMA OthersKept ==
    ASSUME MonitoringInv, NEW q \in MonitorRequests, NEW p \in Projects, NEW s, StepOf(q, p, s)
    PROVE  /\ \A d \in MonitorRequests \ {q} : MonitorRequestKept(d, monitorReq[d])'
           /\ \A e \in Projects \ {p} : MonitorKept(e)'
           /\ \A e \in Projects \ {p} : Orphans(e)' \subseteq Orphans(e)
<1>1. /\ \A e \in Projects \ {p} : UnderWay(e)' = UnderWay(e)
      /\ \A d \in MonitorRequests : monitorReq'[d] = IF d = q THEN s ELSE monitorReq[d]
  <2>1. MonitoringTypeOK
    BY DEF MonitoringInv
  <2> QED BY <2>1, UnderWayAfter
<1>2. ASSUME NEW d \in MonitorRequests, d # q PROVE MonitorRequestKept(d, monitorReq[d])'
  <2> PICK r : r = monitorReq[d]
    OBVIOUS
  <2>1. monitorReq'[d] = r /\ MonitorRequestKept(d, r)
    BY <1>1, <1>2 DEF MonitoringInv
  <2>2. MonitorRequestKept(d, r)'
    <3> SUFFICES ASSUME r # NoMonitorRequest
                 PROVE  /\ RequestOwns(r)'
                        /\ IF d \in crossed' THEN r.project \in torn' ELSE Undisturbed(d, r)'
      BY DEF MonitorRequestKept
    <3>1. RequestOwns(r) /\ RequestOwns(r)'
      BY <2>1, OwnedEndures DEF MonitorRequestKept, StepOf
    <3>2. CASE r.project = p
      <4>1. d \in UnderWay(p) \ {q}
        BY <1>2, <3>2 DEF UnderWay
      <4> QED BY <3>1, <3>2, <4>1 DEF StepOf
    <3>3. CASE r.project # p
      <4>1. r.project \in Projects /\ (d \in crossed' <=> d \in crossed)
        <5>1. r \in MonitorRequest
          BY DEF MonitoringInv, MonitoringTypeOK
        <5>2. d \notin UnderWay(p) \cup {q}
          BY <1>2, <3>3 DEF UnderWay
        <5> QED BY <5>1, <5>2 DEF MonitorRequest, StepOf
      <4>2. CASE d \in crossed
        BY <2>1, <3>1, <3>3, <4>1, <4>2 DEF MonitorRequestKept, StepOf
      <4>3. CASE d \notin crossed
        <5>1. Undisturbed(d, r)
          BY <2>1, <4>3 DEF MonitorRequestKept
        <5>2. UnderWay(r.project)' = {d} /\ r.row = monitor'[r.project]
          BY <1>1, <3>3, <4>1, <5>1 DEF Undisturbed, StepOf
        <5>3. ASSUME r.pc = "scheduled", r.kind = "upsert"
              PROVE  schedule'[r.id] # NoSchedule /\ schedule'[r.id].set = r.set
          <6>1. schedule[r.id] # NoSchedule /\ schedule[r.id].set = r.set /\ Owned(r.id, r.project)
            BY <3>1, <5>1, <5>3 DEF Undisturbed, RequestOwns
          <6>2. schedule'[r.id] = schedule[r.id]
            BY <3>3, <6>1 DEF Owned, StepOf
          <6> QED BY <6>1, <6>2
        <5>4. Undisturbed(d, r)'
          BY <5>2, <5>3 DEF Undisturbed
        <5> QED BY <3>1, <4>1, <4>3, <5>4
      <4> QED BY <4>2, <4>3
    <3> QED BY <3>2, <3>3
  <2> QED BY <2>1, <2>2
<1>3. ASSUME NEW e \in Projects, e # p PROVE MonitorKept(e)'
  <2>1. /\ monitor'[e] = monitor[e] /\ MonitorKept(e) /\ UnderWay(e)' = UnderWay(e)
        /\ e \in torn => e \in torn'
    BY <1>1, <1>3 DEF MonitoringInv, StepOf
  <2>2. \A d \in UnderWay(e) : monitorReq'[d] = monitorReq[d]
    BY <1>1, <1>3 DEF UnderWay, StepOf
  <2> SUFFICES ASSUME monitor[e] # NoMonitor
               PROVE  /\ Owned(monitor[e].schedule, e)'
                      /\ e \notin torn' /\ (\A d \in UnderWay(e) : monitorReq[d].pc = "found") =>
                             MonitorShown(e)'
    BY <2>1, <2>2 DEF MonitorKept
  <2> PICK x : x = monitor[e].schedule
    OBVIOUS
  <2>3. Owned(x, e)
    BY <2>1 DEF MonitorKept
  <2>4. Owned(x, e)'
    BY <2>3, OwnedEndures DEF StepOf
  <2>5. ASSUME MonitorShown(e) PROVE MonitorShown(e)'
    <3>1. schedule[x] # NoSchedule /\ schedule[x].for = e /\ x \in DOMAIN schedule
      BY <2>3, <2>5 DEF MonitorShown, Owned
    <3>2. schedule'[x] = schedule[x]
      BY <1>3, <3>1 DEF StepOf
    <3> QED BY <2>1, <2>5, <3>2 DEF MonitorShown
  <2> QED BY <2>1, <2>4, <2>5 DEF MonitorKept
<1>4. ASSUME NEW e \in Projects, e # p PROVE Orphans(e)' \subseteq Orphans(e)
  <2> SUFFICES ASSUME NEW x \in Orphans(e)' PROVE x \in Orphans(e)
    OBVIOUS
  <2>1. /\ x \in DOMAIN schedule' /\ schedule'[x] # NoSchedule /\ schedule'[x].for = e
        /\ monitor'[e].schedule # x
        /\ \A d \in MonitorRequests : Makes(monitorReq'[d], e) => monitorReq'[d].id # x
    BY DEF Orphans, Makes
  <2>2. x \in DOMAIN schedule /\ schedule[x] # NoSchedule /\ schedule[x].for = e
    BY <1>4, <2>1 DEF StepOf, SchedulesEndure
  <2>3. monitor[e].schedule # x
    BY <1>4, <2>1 DEF StepOf
  <2>4. ASSUME NEW d \in MonitorRequests, Makes(monitorReq[d], e) PROVE monitorReq[d].id # x
    <3>1. d # q
      BY <1>4, <2>4 DEF Makes, StepOf
    <3> QED BY <1>1, <2>1, <2>4, <3>1
  <2> QED BY <2>2, <2>3, <2>4 DEF Orphans
<1> QED BY <1>2, <1>3, <1>4

LEMMA MonitorStep ==
    ASSUME MonitoringInv, NEW q \in MonitorRequests, NEW p \in Projects, NEW s, StepOf(q, p, s),
           MonitoringTypeOK', MonitorRequestKept(q, s)', MonitorKept(p)',
           Cardinality(Orphans(p)') <= forsaken'[p]
    PROVE  MonitoringInv'
<1>1. /\ \A d \in MonitorRequests \ {q} : MonitorRequestKept(d, monitorReq[d])'
      /\ \A e \in Projects \ {p} : MonitorKept(e)'
      /\ \A e \in Projects \ {p} : Orphans(e)' \subseteq Orphans(e)
  BY OthersKept
<1>2. monitorReq'[q] = s
  BY DEF MonitoringInv, MonitoringTypeOK, StepOf
<1>3. ASSUME NEW e \in Projects, e # p PROVE Cardinality(Orphans(e)') <= forsaken'[e]
  <2>1. forsaken'[e] = forsaken[e] /\ forsaken[e] \in Nat /\ Cardinality(Orphans(e)) <= forsaken[e]
    BY <1>3, MonitorRows DEF StepOf, MonitoringInv, OrphansForsaken
  <2>2. Orphans(e)' \subseteq Orphans(e) /\ MonitoringTypeOK
    BY <1>1, <1>3 DEF MonitoringInv
  <2>3. Cardinality(Orphans(e)') <= forsaken[e]
    BY <2>1, <2>2, OrphansCounted
  <2> QED BY <2>1, <2>3
<1>4. OrphansForsaken'
  BY <1>3 DEF OrphansForsaken
<1>5. ASSUME NEW d \in MonitorRequests PROVE MonitorRequestKept(d, monitorReq[d])'
  BY <1>1, <1>2
<1>6. \A e \in Projects : MonitorKept(e)'
  BY <1>1
<1> QED BY <1>4, <1>5, <1>6 DEF MonitoringInv

-----------------------------------------------------------------------------
\* A request ends or dies without having written: what it leaves half done is on record.
Leaves(q, p) ==
    /\ RequestEnds(q) /\ UNCHANGED <<projectRow, schedule, monitor, crossed>>
    /\ torn \subseteq torn' /\ torn' \subseteq torn \cup {p}
    /\ \E lost \in BOOLEAN : Forsakes(p, lost) /\ (Makes(monitorReq[q], p) => lost)
    /\ monitorReq[q].pc = "scheduled" => p \in torn'

LEMMA ForsakesMore ==
    ASSUME MonitoringTypeOK, NEW p \in Projects, NEW lost \in BOOLEAN, Forsakes(p, lost)
    PROVE  /\ forsaken' \in [Projects -> Nat]
           /\ \A e \in Projects \ {p} : forsaken'[e] = forsaken[e]
           /\ forsaken'[p] = IF lost THEN forsaken[p] + 1 ELSE forsaken[p]
<1>1. forsaken \in [Projects -> Nat]
  BY DEF MonitoringTypeOK
<1>2. CASE lost
  <2>1. forsaken' = [forsaken EXCEPT ![p] = forsaken[p] + 1]
    BY <1>2 DEF Forsakes
  <2> QED BY <1>1, <1>2, <2>1
<1>3. CASE ~lost
  <2>1. forsaken' = [forsaken EXCEPT ![p] = forsaken[p]]
    BY <1>3 DEF Forsakes
  <2> QED BY <1>1, <1>3, <2>1
<1> QED BY <1>2, <1>3

LEMMA LeavesKeeps ==
    ASSUME MonitoringInv, NEW q \in MonitorRequests, NEW p \in Projects,
           monitorReq[q].pc # "idle", monitorReq[q].project = p, Leaves(q, p)
    PROVE  MonitoringInv'
<1> PICK r : r = monitorReq[q]
  OBVIOUS
<1> PICK s : s = NoMonitorRequest
  OBVIOUS
<1>1. /\ r # NoMonitorRequest /\ r \in MonitorRequest /\ r.project = p /\ MonitoringTypeOK
      /\ UNCHANGED <<projectRow, schedule, monitor, crossed>>
      /\ monitorReq' = [monitorReq EXCEPT ![q] = s]
  BY MonitorRequestIs DEF Leaves, RequestEnds, MonitoringInv
<1> PICK lost \in BOOLEAN : Forsakes(p, lost) /\ (Makes(r, p) => lost)
  BY DEF Leaves
<1>2. /\ forsaken' \in [Projects -> Nat]
      /\ \A e \in Projects \ {p} : forsaken'[e] = forsaken[e]
      /\ forsaken'[p] = IF lost THEN forsaken[p] + 1 ELSE forsaken[p]
  BY <1>1, ForsakesMore
<1>3. MonitoringTypeOK'
  BY <1>1, <1>2 DEF MonitoringTypeOK, Leaves
<1>4. StepOf(q, p, s)
  <2>1. SchedulesEndure
    BY <1>1 DEF SchedulesEndure
  <2>2. \A d \in UnderWay(p) \ {q} : d \in crossed /\ p \in torn
    BY <1>1, SameProject
  <2>3. torn \ {p} \subseteq torn' /\ (p \in torn => p \in torn')
    BY DEF Leaves
  <2> QED BY <1>1, <1>2, <2>1, <2>2, <2>3 DEF StepOf
<1>5. MonitorRequestKept(q, s)'
  BY DEF MonitorRequestKept
<1>6. /\ UnderWay(p)' = (UnderWay(p) \ {q})
      /\ \A d \in MonitorRequests : monitorReq'[d] = IF d = q THEN s ELSE monitorReq[d]
  BY <1>1, <1>4, UnderWayAfter
<1>7. MonitorKept(p)'
  <2> SUFFICES ASSUME monitor[p] # NoMonitor
               PROVE  /\ Owned(monitor[p].schedule, p)
                      /\ p \notin torn' /\ (\A d \in UnderWay(p) \ {q} : monitorReq'[d].pc = "found") =>
                             MonitorShown(p)
    BY <1>1, <1>6 DEF MonitorKept, Owned, MonitorShown
  <2>1. MonitorKept(p)
    BY DEF MonitoringInv
  <2>2. ASSUME p \notin torn', \A d \in UnderWay(p) \ {q} : monitorReq'[d].pc = "found"
        PROVE  p \notin torn /\ \A d \in UnderWay(p) : monitorReq[d].pc = "found"
    <3>1. r.pc = "found" /\ p \notin torn
      BY <1>1, <2>2 DEF Leaves, MonitorRequest
    <3>2. \A d \in UnderWay(p) : d \in MonitorRequests
      BY DEF UnderWay
    <3> QED BY <1>6, <2>2, <3>1, <3>2
  <2> QED BY <2>1, <2>2 DEF MonitorKept
<1>8. Cardinality(Orphans(p)') <= forsaken'[p]
  <2>1. Cardinality(Orphans(p)) <= forsaken[p] /\ forsaken[p] \in Nat /\ forsaken'[p] \in Nat
    BY <1>1, <1>2, MonitorRows DEF MonitoringInv, OrphansForsaken
  <2>2. CASE lost
    <3>1. Orphans(p)' \subseteq Orphans(p) \cup {r.id}
      BY <1>1, <1>6 DEF Orphans
    <3> QED BY <1>1, <1>2, <2>1, <2>2, <3>1, OrphansCounted
  <2>3. CASE ~lost
    <3>1. Orphans(p)' \subseteq Orphans(p)
      BY <1>1, <1>6, <2>3 DEF Orphans
    <3> QED BY <1>1, <1>2, <2>1, <2>3, <3>1, OrphansCounted
  <2> QED BY <2>2, <2>3
<1> QED BY <1>3, <1>4, <1>5, <1>7, <1>8, MonitorStep

LEMMA MonitorDiesKeeps ==
    ASSUME MonitoringInv, NEW q \in MonitorRequests, MonitorDies(q)
    PROVE  MonitoringInv'
<1> PICK r : r = monitorReq[q]
  OBVIOUS
<1>1. r.pc # "idle" /\ r.project \in Projects
  <2>1. r \in MonitorRequest
    BY DEF MonitorDies, MonitoringInv, MonitoringTypeOK
  <2> QED BY <2>1 DEF MonitorRequest
<1> PICK p \in Projects : p = r.project
  BY <1>1
<1>2. Leaves(q, p)
  <2>1. torn \subseteq torn' /\ torn' \subseteq torn \cup {p} /\ (r.pc = "scheduled" => p \in torn')
    BY DEF MonitorDies, Tears
  <2>2. \E lost \in BOOLEAN : Forsakes(p, lost) /\ (Makes(r, p) => lost)
    <3>1. CASE r.pc = "scheduled" /\ r.row = NoMonitor
      <4>1. Forsakes(p, TRUE)
        BY <3>1 DEF MonitorDies, Forsakes
      <4> QED BY <4>1
    <3>2. CASE ~(r.pc = "scheduled" /\ r.row = NoMonitor)
      <4>1. Forsakes(p, FALSE)
        <5>1. forsaken' = forsaken \/ (r.row # NoMonitor /\ Forsakes(p, r.row = NoMonitor))
          BY <3>2 DEF MonitorDies
        <5>2. [forsaken EXCEPT ![p] = forsaken[p]] = forsaken
          BY DEF MonitoringInv, MonitoringTypeOK
        <5> QED BY <5>1, <5>2 DEF Forsakes
      <4> QED BY <3>2, <4>1 DEF Makes
    <3> QED BY <3>1, <3>2
  <2> QED BY <2>1, <2>2 DEF Leaves, MonitorDies
<1> QED BY <1>1, <1>2, LeavesKeeps

LEMMA FindMonitorKeeps ==
    ASSUME MonitoringInv, NEW q \in MonitorRequests, NEW kind \in {"upsert", "delete"},
           NEW p \in Projects, NEW set \in Settings, kind = "delete" => monitor[p] # NoMonitor,
           FindMonitor(q, kind, p, set)
    PROVE  MonitoringInv'
<1> PICK s : s = [pc |-> "found", kind |-> kind, project |-> p, row |-> monitor[p],
                  id |-> 0, set |-> set]
  OBVIOUS
<1>1. /\ UNCHANGED <<projectRow, schedule, monitor, forsaken>> /\ MonitoringTypeOK
      /\ monitorReq' = [monitorReq EXCEPT ![q] = s] /\ monitorReq[q] = NoMonitorRequest
      /\ torn' = IF UnderWay(p) = {} THEN torn ELSE torn \cup {p}
      /\ crossed' = IF UnderWay(p) = {} THEN crossed \ {q} ELSE crossed \cup UnderWay(p) \cup {q}
  BY DEF FindMonitor, MonitoringInv
<1>2. s \in MonitorRequest /\ s # NoMonitorRequest
  <2>1. monitor[p] \in {NoMonitor} \cup MonitorRow /\ 0 \in 0..MaxSchedules
    BY <1>1, MonitorRows
  <2> QED BY <2>1 DEF MonitorRequest, NoMonitorRequest
<1>3. q \notin UnderWay(p) /\ UnderWay(p) \subseteq MonitorRequests
  BY <1>1 DEF UnderWay
<1>4. StepOf(q, p, s)
  <2>1. SchedulesEndure
    BY <1>1 DEF SchedulesEndure
  <2>2. \A d \in UnderWay(p) \ {q} : d \in crossed' /\ p \in torn'
    BY <1>1
  <2>3. \A d \in MonitorRequests \ (UnderWay(p) \cup {q}) : d \in crossed' <=> d \in crossed
    BY <1>1
  <2>4. torn \ {p} \subseteq torn'
    BY <1>1
  <2> QED BY <1>1, <2>1, <2>2, <2>3, <2>4 DEF StepOf
<1>5. /\ UnderWay(p)' = UnderWay(p) \cup {q}
      /\ \A d \in MonitorRequests : monitorReq'[d] = IF d = q THEN s ELSE monitorReq[d]
  BY <1>1, <1>2, <1>3, <1>4, UnderWayAfter
<1>6. MonitoringTypeOK'
  <2>1. torn' \subseteq Projects /\ crossed' \subseteq MonitorRequests
    BY <1>1, <1>3 DEF MonitoringTypeOK
  <2> QED BY <1>1, <1>2, <2>1 DEF MonitoringTypeOK
<1>7. MonitorKept(p)
  BY DEF MonitoringInv
<1>8. MonitorRequestKept(q, s)'
  <2>1. RequestOwns(s)'
    BY <1>1, <1>7 DEF RequestOwns, MonitorKept, Owned
  <2>2. CASE UnderWay(p) = {}
    BY <1>1, <1>5, <2>1, <2>2 DEF MonitorRequestKept, Undisturbed
  <2>3. CASE UnderWay(p) # {}
    BY <1>1, <2>1, <2>3 DEF MonitorRequestKept
  <2> QED BY <2>2, <2>3
<1>9. MonitorKept(p)'
  <2>1. \A d \in UnderWay(p) : monitorReq'[d] = monitorReq[d]
    BY <1>3, <1>5
  <2>2. p \notin torn' => p \notin torn
    BY <1>1
  <2> QED BY <1>1, <1>5, <1>7, <2>1, <2>2 DEF MonitorKept, Owned, MonitorShown
<1>10. Cardinality(Orphans(p)') <= forsaken'[p]
  <2>1. Orphans(p)' \subseteq Orphans(p)
    BY <1>1, <1>5 DEF Orphans, Makes
  <2>2. Cardinality(Orphans(p)) <= forsaken[p] /\ forsaken[p] \in Nat
    BY <1>1, MonitorRows DEF MonitoringInv, OrphansForsaken
  <2>3. Cardinality(Orphans(p)') <= forsaken[p]
    BY <1>1, <2>1, <2>2, OrphansCounted
  <2> QED BY <1>1, <2>3
<1> QED BY <1>4, <1>6, <1>8, <1>9, <1>10, MonitorStep

\* A request writes the schedule it has to, and remembers it.
LEMMA CreateScheduledKeeps ==
    ASSUME MonitoringInv, NEW q \in MonitorRequests, CreateScheduled(q)
    PROVE  MonitoringInv'
<1> PICK r : r = monitorReq[q]
  OBVIOUS
<1> PICK p : p = r.project
  OBVIOUS
<1> PICK n : n = Len(schedule)
  OBVIOUS
<1> PICK new : new = [for |-> p, set |-> r.set]
  OBVIOUS
<1>1. /\ r.pc = "found" /\ r.kind = "upsert" /\ r.row = NoMonitor /\ p \in Projects
      /\ r \in MonitorRequest /\ r # NoMonitorRequest /\ RequestOwns(r)
      /\ IF q \in crossed THEN p \in torn ELSE Undisturbed(q, r)
      /\ MonitoringTypeOK
  BY MonitorRequestIs DEF CreateScheduled, Between, Updates, MonitoringInv
<1> PICK s : s = [r EXCEPT !.pc = "scheduled", !.id = n + 1]
  OBVIOUS
<1>2. /\ UNCHANGED <<projectRow, monitor, forsaken, torn, crossed>>
      /\ schedule' = Append(schedule, new) /\ n < MaxSchedules
      /\ monitorReq' = [monitorReq EXCEPT ![q] = s]
  BY DEF CreateScheduled, Scheduled
<1>3. /\ DOMAIN schedule = 1..n /\ n \in Nat /\ MaxSchedules \in Nat
      /\ schedule \in Seq({NoSchedule} \cup ScheduleRow)
  BY <1>1, MonitorRows DEF MonitoringTypeOK
<1>4. new \in ScheduleRow /\ new # NoSchedule /\ new.for = p /\ new.set = r.set
  BY <1>1 DEF MonitorRequest, ScheduleRow, NoSchedule
<1>5. /\ schedule' \in Seq({NoSchedule} \cup ScheduleRow) /\ Len(schedule') = n + 1
      /\ \A x \in 1..n : schedule'[x] = schedule[x]
      /\ schedule'[n + 1] = new
  BY <1>2, <1>3, <1>4, AppendProperties
<1>6. DOMAIN schedule' = 1..(n + 1)
  BY <1>3, <1>5
<1>7. /\ s \in MonitorRequest /\ s # NoMonitorRequest /\ s.pc = "scheduled" /\ s.kind = "upsert"
      /\ s.row = NoMonitor /\ s.project = p /\ s.id = n + 1 /\ s.set = r.set
  <2>1. n + 1 \in 0..MaxSchedules
    BY <1>2, <1>3
  <2> QED BY <1>1, <2>1 DEF MonitorRequest, NoMonitorRequest
<1>8. StepOf(q, p, s)
  <2>1. SchedulesEndure
    BY <1>3, <1>5, <1>6 DEF SchedulesEndure
  <2>2. \A d \in UnderWay(p) \ {q} : d \in crossed /\ p \in torn
    BY <1>1, SameProject
  <2>3. \A x \in DOMAIN schedule' \ DOMAIN schedule : schedule'[x].for = p
    BY <1>3, <1>4, <1>5, <1>6
  <2>4. \A x \in DOMAIN schedule : schedule'[x] = schedule[x]
    BY <1>3, <1>5
  <2> QED BY <1>1, <1>2, <1>7, <2>1, <2>2, <2>3, <2>4 DEF StepOf
<1>9. /\ UnderWay(p)' = (UnderWay(p) \ {q}) \cup {q}
      /\ \A d \in MonitorRequests : monitorReq'[d] = IF d = q THEN s ELSE monitorReq[d]
  BY <1>1, <1>7, <1>8, UnderWayAfter
<1>10. MonitoringTypeOK'
  BY <1>1, <1>2, <1>3, <1>5, <1>7 DEF MonitoringTypeOK
<1>11. MonitorRequestKept(q, s)'
  <2>1. n + 1 \in DOMAIN schedule'
    BY <1>3, <1>6
  <2>2. RequestOwns(s)'
    BY <1>4, <1>5, <1>7, <2>1 DEF RequestOwns, Owned
  <2>3. CASE q \in crossed
    BY <1>1, <1>2, <1>7, <2>2, <2>3 DEF MonitorRequestKept
  <2>4. CASE q \notin crossed
    <3>1. Undisturbed(q, r)
      BY <1>1, <2>4
    <3>2. Undisturbed(q, s)'
      BY <1>1, <1>2, <1>4, <1>5, <1>7, <1>9, <3>1 DEF Undisturbed
    <3> QED BY <1>2, <2>2, <2>4, <3>2 DEF MonitorRequestKept
  <2> QED BY <2>3, <2>4
<1>12. MonitorKept(p)'
  <2> SUFFICES ASSUME monitor[p] # NoMonitor PROVE MonitorKept(p)'
    BY <1>2 DEF MonitorKept
  <2>1. Owned(monitor[p].schedule, p)
    BY <1>1 DEF MonitoringInv, MonitorKept
  <2>2. Owned(monitor[p].schedule, p)'
    BY <1>2, <1>8, <2>1, OwnedEndures DEF StepOf
  <2>3. q \in crossed /\ p \in torn'
    BY <1>1, <1>2 DEF Undisturbed
  <2> QED BY <1>2, <2>2, <2>3 DEF MonitorKept
<1>13. Cardinality(Orphans(p)') <= forsaken'[p]
  <2>1. Orphans(p)' \subseteq Orphans(p)
    <3> SUFFICES ASSUME NEW x \in Orphans(p)' PROVE x \in Orphans(p)
      OBVIOUS
    <3>1. /\ x \in DOMAIN schedule' /\ schedule'[x] # NoSchedule /\ schedule'[x].for = p
          /\ monitor[p].schedule # x
          /\ \A d \in MonitorRequests : Makes(monitorReq'[d], p) => monitorReq'[d].id # x
      BY <1>2 DEF Orphans, Makes
    <3>2. x # n + 1
      BY <1>7, <1>9, <3>1 DEF Makes
    <3>3. x \in DOMAIN schedule /\ schedule'[x] = schedule[x]
      BY <1>3, <1>5, <1>6, <3>1, <3>2
    <3>4. \A d \in MonitorRequests : Makes(monitorReq[d], p) => monitorReq[d].id # x
      BY <1>1, <1>9, <3>1 DEF Makes
    <3> QED BY <3>1, <3>3, <3>4 DEF Orphans
  <2>2. Cardinality(Orphans(p)) <= forsaken[p] /\ forsaken[p] \in Nat
    BY <1>1, MonitorRows DEF MonitoringInv, OrphansForsaken
  <2>3. Cardinality(Orphans(p)') <= forsaken[p]
    BY <1>1, <2>1, <2>2, OrphansCounted
  <2> QED BY <1>2, <2>3
<1> QED BY <1>1, <1>8, <1>10, <1>11, <1>12, <1>13, MonitorStep

LEMMA UpdateScheduledKeeps ==
    ASSUME MonitoringInv, NEW q \in MonitorRequests, UpdateScheduled(q)
    PROVE  MonitoringInv'
<1> PICK r : r = monitorReq[q]
  OBVIOUS
<1> PICK p : p = r.project
  OBVIOUS
<1> PICK x : x = r.row.schedule
  OBVIOUS
<1>1. /\ r.pc = "found" /\ r.kind = "upsert" /\ r.row # NoMonitor /\ p \in Projects
      /\ r \in MonitorRequest /\ r # NoMonitorRequest /\ RequestOwns(r) /\ Owned(x, p)
      /\ IF q \in crossed THEN p \in torn ELSE Undisturbed(q, r)
      /\ MonitoringTypeOK
  BY MonitorRequestIs DEF UpdateScheduled, Between, Updates, MonitoringInv, RequestOwns
<1>2. UNCHANGED <<projectRow, monitor, forsaken, torn, crossed>>
  BY DEF UpdateScheduled
<1>3. CASE schedule[x] = NoSchedule
  <2>1. UNCHANGED schedule /\ RequestEnds(q)
    BY <1>3 DEF UpdateScheduled
  <2>2. Forsakes(p, FALSE)
    BY <1>1, <1>2 DEF Forsakes, MonitoringTypeOK
  <2>3. Leaves(q, p)
    BY <1>1, <1>2, <2>1, <2>2 DEF Leaves, Makes
  <2> QED BY <1>1, <2>3, LeavesKeeps
<1>4. CASE schedule[x] # NoSchedule
  <2> PICK new : new = [schedule[x] EXCEPT !.set = r.set]
    OBVIOUS
  <2> PICK s : s = [r EXCEPT !.pc = "scheduled", !.id = x]
    OBVIOUS
  <2>1. /\ schedule' = [schedule EXCEPT ![x] = new]
        /\ monitorReq' = [monitorReq EXCEPT ![q] = s]
    BY <1>4 DEF UpdateScheduled, Scheduled
  <2>2. /\ schedule \in Seq({NoSchedule} \cup ScheduleRow) /\ x \in DOMAIN schedule
        /\ schedule[x] \in ScheduleRow /\ schedule[x].for = p /\ x \in ScheduleIds /\ MaxSchedules \in Nat
    BY <1>1, <1>4, MonitorRows DEF MonitoringTypeOK, Owned
  <2>3. new \in ScheduleRow /\ new # NoSchedule /\ new.for = p /\ new.set = r.set
    BY <1>1, <2>2 DEF MonitorRequest, ScheduleRow, NoSchedule
  <2>4. /\ schedule' \in Seq({NoSchedule} \cup ScheduleRow) /\ Len(schedule') = Len(schedule)
        /\ DOMAIN schedule' = DOMAIN schedule
        /\ \A y \in DOMAIN schedule : schedule'[y] = IF y = x THEN new ELSE schedule[y]
    BY <2>1, <2>2, <2>3, ExceptSeq
  <2>5. /\ s \in MonitorRequest /\ s # NoMonitorRequest /\ s.pc = "scheduled" /\ s.kind = "upsert"
        /\ s.row = r.row /\ s.project = p /\ s.id = x /\ s.set = r.set
    <3>1. x \in 0..MaxSchedules
      BY <2>2 DEF ScheduleIds
    <3> QED BY <1>1, <3>1 DEF MonitorRequest, NoMonitorRequest
  <2>6. StepOf(q, p, s)
    <3>1. SchedulesEndure
      BY <1>4, <2>2, <2>3, <2>4 DEF SchedulesEndure
    <3>2. \A d \in UnderWay(p) \ {q} : d \in crossed /\ p \in torn
      BY <1>1, SameProject
    <3>3. \A y \in DOMAIN schedule :
              schedule'[y] = schedule[y] \/ (schedule[y] # NoSchedule /\ schedule[y].for = p)
      BY <1>4, <2>2, <2>4
    <3> QED BY <1>1, <1>2, <2>1, <2>4, <2>5, <3>1, <3>2, <3>3 DEF StepOf
  <2>7. /\ UnderWay(p)' = (UnderWay(p) \ {q}) \cup {q}
        /\ \A d \in MonitorRequests : monitorReq'[d] = IF d = q THEN s ELSE monitorReq[d]
    BY <1>1, <2>5, <2>6, UnderWayAfter
  <2>8. MonitoringTypeOK'
    BY <1>1, <1>2, <2>1, <2>4, <2>5 DEF MonitoringTypeOK
  <2>9. MonitorRequestKept(q, s)'
    <3>1. RequestOwns(s)'
      <4>1. x \in DOMAIN schedule' /\ schedule'[x] # NoSchedule /\ schedule'[x].for = p
        BY <2>2, <2>3, <2>4
      <4>2. Owned(x, p)'
        BY <4>1 DEF Owned
      <4> QED BY <2>5, <4>2 DEF RequestOwns
    <3>2. CASE q \in crossed
      BY <1>1, <1>2, <2>5, <3>1, <3>2 DEF MonitorRequestKept
    <3>3. CASE q \notin crossed
      <4>1. Undisturbed(q, r)
        BY <1>1, <3>3
      <4>2. Undisturbed(q, s)'
        <5>1. schedule'[x] # NoSchedule /\ schedule'[x].set = r.set
          BY <2>2, <2>3, <2>4
        <5>2. UnderWay(p)' = {q} /\ r.row = monitor'[p]
          BY <1>2, <2>7, <4>1 DEF Undisturbed
        <5> QED BY <2>5, <5>1, <5>2 DEF Undisturbed
      <4> QED BY <1>2, <3>1, <3>3, <4>2 DEF MonitorRequestKept
    <3> QED BY <3>2, <3>3
  <2>10. MonitorKept(p)'
    <3> SUFFICES ASSUME monitor[p] # NoMonitor PROVE MonitorKept(p)'
      BY <1>2 DEF MonitorKept
    <3>1. Owned(monitor[p].schedule, p)
      BY <1>1 DEF MonitoringInv, MonitorKept
    <3>2. Owned(monitor[p].schedule, p)'
      BY <1>2, <2>6, <3>1, OwnedEndures DEF StepOf
    <3>3. q \in UnderWay(p)' /\ monitorReq'[q].pc # "found"
      BY <2>5, <2>7
    <3> QED BY <1>2, <3>2, <3>3 DEF MonitorKept
  <2>11. Cardinality(Orphans(p)') <= forsaken'[p]
    <3>1. Orphans(p)' \subseteq Orphans(p)
      <4> SUFFICES ASSUME NEW y \in Orphans(p)' PROVE y \in Orphans(p)
        OBVIOUS
      <4>1. /\ y \in DOMAIN schedule' /\ schedule'[y] # NoSchedule /\ schedule'[y].for = p
            /\ monitor[p].schedule # y
            /\ \A d \in MonitorRequests : Makes(monitorReq'[d], p) => monitorReq'[d].id # y
        BY <1>2 DEF Orphans, Makes
      <4>2. y \in DOMAIN schedule /\ schedule[y] # NoSchedule /\ schedule[y].for = p
        BY <1>4, <2>2, <2>4, <4>1
      <4>3. \A d \in MonitorRequests : Makes(monitorReq[d], p) => monitorReq[d].id # y
        BY <1>1, <2>7, <4>1 DEF Makes
      <4> QED BY <4>1, <4>2, <4>3 DEF Orphans
    <3>2. Cardinality(Orphans(p)) <= forsaken[p] /\ forsaken[p] \in Nat
      BY <1>1, MonitorRows DEF MonitoringInv, OrphansForsaken
    <3>3. Cardinality(Orphans(p)') <= forsaken[p]
      BY <1>1, <3>1, <3>2, OrphansCounted
    <3> QED BY <1>2, <3>3
  <2> QED BY <1>1, <2>6, <2>8, <2>9, <2>10, <2>11, MonitorStep
<1> QED BY <1>3, <1>4

LEMMA DropScheduleKeeps ==
    ASSUME MonitoringInv, NEW q \in MonitorRequests, DropSchedule(q)
    PROVE  MonitoringInv'
<1> PICK r : r = monitorReq[q]
  OBVIOUS
<1> PICK p : p = r.project
  OBVIOUS
<1> PICK x : x = r.row.schedule
  OBVIOUS
<1>1. /\ r.pc = "found" /\ r.kind = "delete" /\ r.row # NoMonitor /\ p \in Projects
      /\ r \in MonitorRequest /\ r # NoMonitorRequest /\ RequestOwns(r) /\ Owned(x, p)
      /\ IF q \in crossed THEN p \in torn ELSE Undisturbed(q, r)
      /\ MonitoringTypeOK
  BY MonitorRequestIs DEF DropSchedule, Between, MonitoringInv, RequestOwns
<1>2. UNCHANGED <<projectRow, monitor, forsaken, torn, crossed>>
  BY DEF DropSchedule
<1>3. CASE schedule[x] = NoSchedule
  <2>1. UNCHANGED schedule /\ RequestEnds(q)
    BY <1>3 DEF DropSchedule
  <2>2. Forsakes(p, FALSE)
    BY <1>1, <1>2 DEF Forsakes, MonitoringTypeOK
  <2>3. Leaves(q, p)
    BY <1>1, <1>2, <2>1, <2>2 DEF Leaves, Makes
  <2> QED BY <1>1, <2>3, LeavesKeeps
<1>4. CASE schedule[x] # NoSchedule
  <2> PICK s : s = [r EXCEPT !.pc = "scheduled", !.id = x]
    OBVIOUS
  <2>1. /\ schedule' = [schedule EXCEPT ![x] = NoSchedule]
        /\ monitorReq' = [monitorReq EXCEPT ![q] = s]
    BY <1>4 DEF DropSchedule, Scheduled
  <2>2. /\ schedule \in Seq({NoSchedule} \cup ScheduleRow) /\ x \in DOMAIN schedule
        /\ schedule[x].for = p /\ x \in ScheduleIds /\ MaxSchedules \in Nat
    BY <1>1, <1>4, MonitorRows DEF MonitoringTypeOK, Owned
  <2>4. /\ schedule' \in Seq({NoSchedule} \cup ScheduleRow) /\ Len(schedule') = Len(schedule)
        /\ DOMAIN schedule' = DOMAIN schedule
        /\ \A y \in DOMAIN schedule : schedule'[y] = IF y = x THEN NoSchedule ELSE schedule[y]
    BY <2>1, <2>2, ExceptSeq
  <2>5. /\ s \in MonitorRequest /\ s # NoMonitorRequest /\ s.pc = "scheduled" /\ s.kind = "delete"
        /\ s.row = r.row /\ s.project = p /\ s.id = x
    <3>1. x \in 0..MaxSchedules
      BY <2>2 DEF ScheduleIds
    <3> QED BY <1>1, <3>1 DEF MonitorRequest, NoMonitorRequest
  <2>6. StepOf(q, p, s)
    <3>1. SchedulesEndure
      BY <1>4, <2>2, <2>4 DEF SchedulesEndure
    <3>2. \A d \in UnderWay(p) \ {q} : d \in crossed /\ p \in torn
      BY <1>1, SameProject
    <3>3. \A y \in DOMAIN schedule :
              schedule'[y] = schedule[y] \/ (schedule[y] # NoSchedule /\ schedule[y].for = p)
      BY <1>4, <2>2, <2>4
    <3> QED BY <1>1, <1>2, <2>1, <2>4, <2>5, <3>1, <3>2, <3>3 DEF StepOf
  <2>7. /\ UnderWay(p)' = (UnderWay(p) \ {q}) \cup {q}
        /\ \A d \in MonitorRequests : monitorReq'[d] = IF d = q THEN s ELSE monitorReq[d]
    BY <1>1, <2>5, <2>6, UnderWayAfter
  <2>8. MonitoringTypeOK'
    BY <1>1, <1>2, <2>1, <2>4, <2>5 DEF MonitoringTypeOK
  <2>9. MonitorRequestKept(q, s)'
    <3>1. RequestOwns(s)'
      BY <1>1, <2>2, <2>4, <2>5 DEF RequestOwns, Owned
    <3>2. CASE q \in crossed
      BY <1>1, <1>2, <2>5, <3>1, <3>2 DEF MonitorRequestKept
    <3>3. CASE q \notin crossed
      <4>1. Undisturbed(q, r)
        BY <1>1, <3>3
      <4>2. Undisturbed(q, s)'
        BY <1>1, <1>2, <2>5, <2>7, <4>1 DEF Undisturbed
      <4> QED BY <1>2, <3>1, <3>3, <4>2 DEF MonitorRequestKept
    <3> QED BY <3>2, <3>3
  <2>10. MonitorKept(p)'
    <3> SUFFICES ASSUME monitor[p] # NoMonitor PROVE MonitorKept(p)'
      BY <1>2 DEF MonitorKept
    <3>1. Owned(monitor[p].schedule, p)
      BY <1>1 DEF MonitoringInv, MonitorKept
    <3>2. Owned(monitor[p].schedule, p)'
      BY <1>2, <2>6, <3>1, OwnedEndures DEF StepOf
    <3>3. q \in UnderWay(p)' /\ monitorReq'[q].pc # "found"
      BY <2>5, <2>7
    <3> QED BY <1>2, <3>2, <3>3 DEF MonitorKept
  <2>11. Cardinality(Orphans(p)') <= forsaken'[p]
    <3>1. Orphans(p)' \subseteq Orphans(p)
      <4> SUFFICES ASSUME NEW y \in Orphans(p)' PROVE y \in Orphans(p)
        OBVIOUS
      <4>1. /\ y \in DOMAIN schedule' /\ schedule'[y] # NoSchedule /\ schedule'[y].for = p
            /\ monitor[p].schedule # y
            /\ \A d \in MonitorRequests : Makes(monitorReq'[d], p) => monitorReq'[d].id # y
        BY <1>2 DEF Orphans, Makes
      <4>2. y \in DOMAIN schedule /\ schedule[y] # NoSchedule /\ schedule[y].for = p
        BY <1>4, <2>2, <2>4, <4>1
      <4>3. \A d \in MonitorRequests : Makes(monitorReq[d], p) => monitorReq[d].id # y
        BY <1>1, <2>7, <4>1 DEF Makes
      <4> QED BY <4>1, <4>2, <4>3 DEF Orphans
    <3>2. Cardinality(Orphans(p)) <= forsaken[p] /\ forsaken[p] \in Nat
      BY <1>1, MonitorRows DEF MonitoringInv, OrphansForsaken
    <3>3. Cardinality(Orphans(p)') <= forsaken[p]
      BY <1>1, <3>1, <3>2, OrphansCounted
    <3> QED BY <1>2, <3>3
  <2> QED BY <1>1, <2>6, <2>8, <2>9, <2>10, <2>11, MonitorStep
<1> QED BY <1>3, <1>4

-----------------------------------------------------------------------------
\* A request commits the monitor, or fails to.
LEMMA SaveMonitorKeeps ==
    ASSUME MonitoringInv, NEW q \in MonitorRequests, SaveMonitor(q)
    PROVE  MonitoringInv'
<1> PICK r : r = monitorReq[q]
  OBVIOUS
<1> PICK p : p = r.project
  OBVIOUS
<1> PICK s : s = NoMonitorRequest
  OBVIOUS
<1>1. /\ r.pc = "scheduled" /\ r.kind = "upsert" /\ p \in Projects
      /\ r \in MonitorRequest /\ r # NoMonitorRequest /\ RequestOwns(r)
      /\ IF q \in crossed THEN p \in torn ELSE Undisturbed(q, r)
      /\ MonitoringTypeOK
  BY MonitorRequestIs DEF SaveMonitor, Between, MonitoringInv
<1>2. /\ UNCHANGED <<projectRow, schedule, crossed>> /\ RequestEnds(q)
      /\ monitorReq' = [monitorReq EXCEPT ![q] = s]
  BY DEF SaveMonitor, RequestEnds
<1> DEFINE stored == IF r.row # NoMonitor THEN monitor[p].schedule = r.row.schedule
                     ELSE p \in projectRow /\ monitor[p] = NoMonitor
<1>3. CASE ~stored
  <2>1. Forsakes(p, r.row = NoMonitor) /\ Tears({p}) /\ UNCHANGED monitor
    BY <1>3 DEF SaveMonitor
  <2>2. \E lost \in BOOLEAN : Forsakes(p, lost) /\ (Makes(r, p) => lost)
    <3>1. CASE r.row = NoMonitor
      <4>1. Forsakes(p, TRUE)
        BY <2>1, <3>1 DEF Forsakes
      <4> QED BY <4>1
    <3>2. CASE r.row # NoMonitor
      <4>1. Forsakes(p, FALSE)
        BY <2>1, <3>2 DEF Forsakes
      <4> QED BY <3>2, <4>1 DEF Makes
    <3> QED BY <3>1, <3>2
  <2>3. Leaves(q, p)
    BY <1>1, <1>2, <2>1, <2>2 DEF Leaves, Tears
  <2> QED BY <1>1, <2>3, LeavesKeeps
<1>4. CASE stored
  <2> PICK row : row = IF r.row # NoMonitor
                       THEN [schedule |-> r.row.schedule, set |-> SavedMonitor(r)]
                       ELSE [schedule |-> r.id, set |-> r.set]
    OBVIOUS
  <2>1. /\ monitor' = [monitor EXCEPT ![p] = row] /\ UNCHANGED forsaken
        /\ torn' = IF q \in crossed THEN torn ELSE torn \ {p}
    BY <1>4 DEF SaveMonitor
  <2>2. Owned(r.id, p) /\ (r.row # NoMonitor => r.id = r.row.schedule)
    BY <1>1 DEF RequestOwns
  <2>3. r.row # NoMonitor => monitor[p] # NoMonitor
    <3> SUFFICES ASSUME r.row # NoMonitor, monitor[p] = NoMonitor PROVE FALSE
      OBVIOUS
    <3>1. r.row.schedule = 0
      BY <1>4 DEF NoMonitor
    <3>2. r.row \in MonitorRow
      BY <1>1 DEF MonitorRequest
    <3> QED BY <1>1, <3>1, <3>2, MonitorRows DEF MonitorRow, ScheduleIds
  <2>4. row.schedule = r.id /\ row \in MonitorRow
    <3>1. r.set \in Settings /\ r.id \in ScheduleIds
      BY <1>1, <2>2, MonitorRows DEF MonitorRequest, Owned
    <3>2. CASE r.row = NoMonitor
      BY <3>1, <3>2 DEF MonitorRow
    <3>3. CASE r.row # NoMonitor
      <4>1. monitor[p] \in MonitorRow /\ r.row \in MonitorRow
        BY <1>1, <2>3, <3>3, MonitorRows DEF MonitorRequest
      <4>2. SavedMonitor(r) \in Settings
        BY <1>1, <3>1, <4>1 DEF SavedMonitor, MonitorRow, Settings
      <4> QED BY <2>2, <3>1, <3>3, <4>2 DEF MonitorRow
    <3> QED BY <3>2, <3>3
  <2>5. /\ \A e \in Projects \ {p} : monitor'[e] = monitor[e]
        /\ monitor'[p] = row /\ row # NoMonitor
    BY <1>1, <2>1, <2>4, MonitorRows DEF MonitoringTypeOK, MonitorRow, NoMonitor, ScheduleIds
  <2>6. MonitoringTypeOK'
    BY <1>1, <1>2, <2>1, <2>4 DEF MonitoringTypeOK
  <2>7. \A d \in UnderWay(p) \ {q} : d \in crossed /\ q \in crossed /\ p \in torn
    BY <1>1, SameProject
  <2>8. StepOf(q, p, s)
    <3>1. SchedulesEndure
      BY <1>2 DEF SchedulesEndure
    <3> QED BY <1>1, <1>2, <2>1, <2>5, <2>7, <3>1 DEF StepOf
  <2>9. /\ UnderWay(p)' = UnderWay(p) \ {q}
        /\ \A d \in MonitorRequests : monitorReq'[d] = IF d = q THEN s ELSE monitorReq[d]
    BY <1>1, <2>8, UnderWayAfter
  <2>10. MonitorRequestKept(q, s)'
    BY DEF MonitorRequestKept
  <2>11. MonitorKept(p)'
    <3>1. Owned(r.id, p)' /\ monitor'[p].schedule = r.id
      BY <1>2, <2>2, <2>4, <2>5 DEF Owned
    <3>2. ASSUME p \notin torn' PROVE MonitorShown(p)'
      <4>1. Undisturbed(q, r) /\ q \notin crossed
        BY <1>1, <2>1, <3>2
      <4>2. schedule[r.id] # NoSchedule /\ schedule[r.id].set = r.set /\ r.row = monitor[p]
        BY <1>1, <4>1 DEF Undisturbed
      <4>3. row.set = r.set
        <5>1. CASE r.row = NoMonitor
          BY <5>1
        <5>2. CASE r.row # NoMonitor
          <6>1. r.set \in Settings
            BY <1>1 DEF MonitorRequest
          <6>2. SavedMonitor(r) = r.set
            BY <4>2, <6>1 DEF SavedMonitor, Settings
          <6> QED BY <5>2, <6>2
        <5> QED BY <5>1, <5>2
      <4> QED BY <1>2, <2>4, <2>5, <4>2, <4>3 DEF MonitorShown
    <3> QED BY <3>1, <3>2 DEF MonitorKept
  <2>12. Cardinality(Orphans(p)') <= forsaken'[p]
    <3>1. Orphans(p)' \subseteq Orphans(p)
      <4> SUFFICES ASSUME NEW y \in Orphans(p)' PROVE y \in Orphans(p)
        OBVIOUS
      <4>1. /\ y \in DOMAIN schedule /\ schedule[y] # NoSchedule /\ schedule[y].for = p
            /\ row.schedule # y
            /\ \A d \in MonitorRequests : Makes(monitorReq'[d], p) => monitorReq'[d].id # y
        BY <1>2, <2>5 DEF Orphans, Makes
      <4>2. \A d \in MonitorRequests : Makes(monitorReq[d], p) => monitorReq[d].id # y
        BY <2>4, <2>9, <4>1 DEF Makes
      <4>3. monitor[p].schedule # y
        <5>1. CASE r.row # NoMonitor
          BY <1>4, <2>2, <2>4, <4>1, <5>1
        <5>2. CASE r.row = NoMonitor
          <6>1. monitor[p].schedule = 0
            BY <1>4, <5>2 DEF NoMonitor
          <6> QED BY <1>1, <4>1, <6>1, MonitorRows DEF ScheduleIds
        <5> QED BY <5>1, <5>2
      <4> QED BY <4>1, <4>2, <4>3 DEF Orphans
    <3>2. Cardinality(Orphans(p)) <= forsaken[p] /\ forsaken[p] \in Nat
      BY <1>1, MonitorRows DEF MonitoringInv, OrphansForsaken
    <3>3. Cardinality(Orphans(p)') <= forsaken[p]
      BY <1>1, <3>1, <3>2, OrphansCounted
    <3> QED BY <2>1, <3>3
  <2> QED BY <1>1, <2>6, <2>8, <2>10, <2>11, <2>12, MonitorStep
<1> QED BY <1>3, <1>4

LEMMA DropMonitorKeeps ==
    ASSUME MonitoringInv, NEW q \in MonitorRequests, DropMonitor(q)
    PROVE  MonitoringInv'
<1> PICK r : r = monitorReq[q]
  OBVIOUS
<1> PICK p : p = r.project
  OBVIOUS
<1> PICK s : s = NoMonitorRequest
  OBVIOUS
<1>1. /\ r.pc = "scheduled" /\ r.kind = "delete" /\ p \in Projects
      /\ r \in MonitorRequest /\ r # NoMonitorRequest /\ RequestOwns(r)
      /\ IF q \in crossed THEN p \in torn ELSE Undisturbed(q, r)
      /\ MonitoringTypeOK
  BY MonitorRequestIs DEF DropMonitor, Between, MonitoringInv
<1>2. /\ UNCHANGED <<projectRow, schedule, forsaken, torn, crossed>> /\ RequestEnds(q)
      /\ monitorReq' = [monitorReq EXCEPT ![q] = s]
      /\ monitor' = IF monitor[p].schedule = r.row.schedule
                    THEN [monitor EXCEPT ![p] = NoMonitor] ELSE monitor
  BY DEF DropMonitor, RequestEnds
<1>3. CASE monitor[p].schedule # r.row.schedule
  <2>1. UNCHANGED monitor
    BY <1>2, <1>3
  <2>2. p \in torn
    BY <1>1, <1>3 DEF Undisturbed
  <2>3. Forsakes(p, FALSE)
    BY <1>1, <1>2 DEF Forsakes, MonitoringTypeOK
  <2>4. Leaves(q, p)
    BY <1>1, <1>2, <2>1, <2>2, <2>3 DEF Leaves, Makes
  <2> QED BY <1>1, <2>4, LeavesKeeps
<1>4. CASE monitor[p].schedule = r.row.schedule
  <2> PICK x : x = r.row.schedule
    OBVIOUS
  <2>1. monitor' = [monitor EXCEPT ![p] = NoMonitor]
    BY <1>2, <1>4
  <2>2. /\ \A e \in Projects \ {p} : monitor'[e] = monitor[e]
        /\ monitor'[p] = NoMonitor
    BY <1>1, <2>1 DEF MonitoringTypeOK
  <2>3. schedule[x] = NoSchedule
    BY <1>1 DEF RequestOwns
  <2>4. MonitoringTypeOK'
    BY <1>1, <1>2, <2>1 DEF MonitoringTypeOK
  <2>5. \A d \in UnderWay(p) \ {q} : d \in crossed /\ p \in torn
    BY <1>1, SameProject
  <2>6. StepOf(q, p, s)
    <3>1. SchedulesEndure
      BY <1>2 DEF SchedulesEndure
    <3> QED BY <1>1, <1>2, <2>2, <2>5, <3>1 DEF StepOf
  <2>7. \A d \in MonitorRequests : monitorReq'[d] = IF d = q THEN s ELSE monitorReq[d]
    BY <1>1, <2>6, UnderWayAfter
  <2>8. MonitorRequestKept(q, s)' /\ MonitorKept(p)'
    BY <2>2 DEF MonitorRequestKept, MonitorKept
  <2>9. Cardinality(Orphans(p)') <= forsaken'[p]
    <3>1. Orphans(p)' \subseteq Orphans(p)
      <4> SUFFICES ASSUME NEW y \in Orphans(p)' PROVE y \in Orphans(p)
        OBVIOUS
      <4>1. /\ y \in DOMAIN schedule /\ schedule[y] # NoSchedule /\ schedule[y].for = p
            /\ \A d \in MonitorRequests : Makes(monitorReq'[d], p) => monitorReq'[d].id # y
        BY <1>2 DEF Orphans, Makes
      <4>2. \A d \in MonitorRequests : Makes(monitorReq[d], p) => monitorReq[d].id # y
        BY <1>1, <2>7, <4>1 DEF Makes
      <4>3. monitor[p].schedule # y
        BY <1>4, <2>3, <4>1
      <4> QED BY <4>1, <4>2, <4>3 DEF Orphans
    <3>2. Cardinality(Orphans(p)) <= forsaken[p] /\ forsaken[p] \in Nat
      BY <1>1, MonitorRows DEF MonitoringInv, OrphansForsaken
    <3>3. Cardinality(Orphans(p)') <= forsaken[p]
      BY <1>1, <3>1, <3>2, OrphansCounted
    <3> QED BY <1>2, <3>3
  <2> QED BY <1>1, <2>4, <2>6, <2>8, <2>9, MonitorStep
<1> QED BY <1>3, <1>4

-----------------------------------------------------------------------------
\* A step of no request, which writes one of the two tables alone: whoever it concerns
\* is among the crossed.
CrossesOnly(P) ==
    /\ SchedulesEndure /\ UNCHANGED monitorReq /\ P \subseteq Projects /\ Crosses(P)
    /\ \A e \in Projects : monitor'[e] = monitor[e] \/ (e \in P /\ monitor'[e] = NoMonitor)
    /\ \A e \in Projects \ P :
           /\ monitor[e] # NoMonitor => schedule'[monitor[e].schedule] = schedule[monitor[e].schedule]
           /\ \A d \in UnderWay(e) : monitorReq[d].pc = "scheduled" =>
                  schedule'[monitorReq[d].id] = schedule[monitorReq[d].id]

LEMMA CrossesKept ==
    ASSUME MonitoringInv, NEW P, CrossesOnly(P)
    PROVE  /\ \A d \in MonitorRequests : MonitorRequestKept(d, monitorReq[d])'
           /\ \A e \in Projects : MonitorKept(e)'
<1>1. /\ UNCHANGED monitorReq /\ \A e : UnderWay(e)' = UnderWay(e)
      /\ torn' = torn \cup P /\ crossed' = crossed \cup UNION {UnderWay(p) : p \in P}
  BY DEF CrossesOnly, UnderWay, Crosses, Tears
<1>2. ASSUME NEW d \in MonitorRequests PROVE MonitorRequestKept(d, monitorReq[d])'
  <2> PICK r : r = monitorReq[d]
    OBVIOUS
  <2> SUFFICES ASSUME r # NoMonitorRequest PROVE MonitorRequestKept(d, r)'
    BY <1>1 DEF MonitorRequestKept
  <2>1. /\ RequestOwns(r) /\ RequestOwns(r)' /\ r.project \in Projects /\ d \in UnderWay(r.project)
        /\ IF d \in crossed THEN r.project \in torn ELSE Undisturbed(d, r)
    <3>1. r \in MonitorRequest /\ MonitorRequestKept(d, r)
      BY DEF MonitoringInv, MonitoringTypeOK
    <3> QED BY <1>2, <3>1, OwnedEndures DEF MonitorRequestKept, MonitorRequest, CrossesOnly, UnderWay
  <2>2. CASE d \in crossed
    BY <1>1, <2>1, <2>2 DEF MonitorRequestKept
  <2>3. CASE r.project \in P
    <3>1. d \in crossed' /\ r.project \in torn'
      BY <1>1, <2>1, <2>3
    <3> QED BY <2>1, <3>1 DEF MonitorRequestKept
  <2>4. CASE d \notin crossed /\ r.project \notin P
    <3>1. d \notin crossed'
      <4> SUFFICES ASSUME NEW p \in P, d \in UnderWay(p) PROVE FALSE
        BY <1>1, <2>4
      <4> QED BY <2>4 DEF UnderWay
    <3>2. Undisturbed(d, r)
      BY <2>1, <2>4
    <3>3. r.row = monitor'[r.project] /\ UnderWay(r.project)' = {d}
      BY <1>1, <2>1, <2>4, <3>2 DEF Undisturbed, CrossesOnly
    <3>4. r.pc = "scheduled" => schedule'[r.id] = schedule[r.id]
      BY <2>1, <2>4 DEF CrossesOnly
    <3>5. Undisturbed(d, r)'
      BY <3>2, <3>3, <3>4 DEF Undisturbed
    <3> QED BY <2>1, <3>1, <3>5 DEF MonitorRequestKept
  <2> QED BY <2>2, <2>3, <2>4
<1>3. ASSUME NEW e \in Projects PROVE MonitorKept(e)'
  <2> SUFFICES ASSUME monitor'[e] # NoMonitor PROVE MonitorKept(e)'
    BY DEF MonitorKept
  <2>1. monitor'[e] = monitor[e] /\ MonitorKept(e)
    BY DEF CrossesOnly, MonitoringInv
  <2> PICK x : x = monitor[e].schedule
    OBVIOUS
  <2>2. Owned(x, e) /\ Owned(x, e)'
    BY <2>1, OwnedEndures DEF MonitorKept, CrossesOnly
  <2>3. CASE e \in P
    BY <1>1, <2>1, <2>2, <2>3 DEF MonitorKept
  <2>4. CASE e \notin P
    <3>1. schedule'[x] = schedule[x] /\ (e \notin torn' => e \notin torn)
      BY <1>1, <2>1, <2>4 DEF CrossesOnly
    <3> QED BY <1>1, <2>1, <2>2, <3>1 DEF MonitorKept, MonitorShown
  <2> QED BY <2>3, <2>4
<1> QED BY <1>2, <1>3

LEMMA ForgetProjectKeeps ==
    ASSUME MonitoringInv, NEW p \in Projects, ForgetProject(p)
    PROVE  MonitoringInv'
<1>1. /\ UNCHANGED <<schedule, monitorReq>> /\ MonitoringTypeOK
      /\ monitor' = [monitor EXCEPT ![p] = NoMonitor]
      /\ projectRow' = projectRow \ {p} /\ Crosses({p})
  BY DEF ForgetProject, MonitoringInv
<1> PICK lost \in BOOLEAN : lost = (monitor[p] # NoMonitor)
  OBVIOUS
<1>2. Forsakes(p, lost)
  BY DEF ForgetProject, Forsakes
<1>3. /\ forsaken' \in [Projects -> Nat]
      /\ \A e \in Projects \ {p} : forsaken'[e] = forsaken[e]
      /\ forsaken'[p] = IF lost THEN forsaken[p] + 1 ELSE forsaken[p]
  BY <1>1, <1>2, ForsakesMore
<1>4. \A e \in Projects : monitor'[e] = IF e = p THEN NoMonitor ELSE monitor[e]
  BY <1>1 DEF MonitoringTypeOK
<1>5. CrossesOnly({p})
  BY <1>1, <1>4 DEF CrossesOnly, SchedulesEndure
<1>6. MonitoringTypeOK'
  <2>1. torn' \subseteq Projects /\ crossed' \subseteq MonitorRequests
    BY <1>1 DEF MonitoringTypeOK, Crosses, Tears, UnderWay
  <2> QED BY <1>1, <1>3, <2>1 DEF MonitoringTypeOK
<1>7. ASSUME NEW e \in Projects PROVE Cardinality(Orphans(e)') <= forsaken'[e]
  <2>1. Cardinality(Orphans(e)) <= forsaken[e] /\ forsaken[e] \in Nat /\ forsaken'[e] \in Nat
    BY <1>1, <1>3, MonitorRows DEF MonitoringInv, OrphansForsaken
  <2>2. CASE e # p \/ ~lost
    <3>1. Orphans(e)' \subseteq Orphans(e)
      BY <1>1, <1>4, <2>2 DEF Orphans
    <3>2. forsaken'[e] = forsaken[e]
      BY <1>3, <2>2
    <3> QED BY <1>1, <2>1, <3>1, <3>2, OrphansCounted
  <2>3. CASE e = p /\ lost
    <3> PICK x : x = monitor[p].schedule
      OBVIOUS
    <3>1. Orphans(e)' \subseteq Orphans(e) \cup {x}
      BY <1>1, <2>3 DEF Orphans
    <3>2. forsaken'[e] = forsaken[e] + 1
      BY <1>3, <2>3
    <3> QED BY <1>1, <2>1, <3>1, <3>2, OrphansCounted
  <2> QED BY <2>2, <2>3
<1>8. OrphansForsaken'
  BY <1>7 DEF OrphansForsaken
<1> QED BY <1>5, <1>6, <1>8, CrossesKept DEF MonitoringInv

LEMMA EditScheduleKeeps ==
    ASSUME MonitoringInv, NEW s \in DOMAIN schedule, NEW row, EditSchedule(s, row),
           \/ row = NoSchedule
           \/ row \in ScheduleRow /\ row.for = schedule[s].for
    PROVE  MonitoringInv'
<1>1. /\ UNCHANGED <<projectRow, monitor, monitorReq, forsaken>> /\ MonitoringTypeOK
      /\ schedule' = [schedule EXCEPT ![s] = row] /\ schedule[s] # NoSchedule
      /\ Crosses(Touches(s))
  BY DEF EditSchedule, MonitoringInv, LiveSchedules
<1>2. /\ schedule' \in Seq({NoSchedule} \cup ScheduleRow) /\ Len(schedule') = Len(schedule)
      /\ DOMAIN schedule' = DOMAIN schedule
      /\ \A y \in DOMAIN schedule : schedule'[y] = IF y = s THEN row ELSE schedule[y]
  <2>1. schedule \in Seq({NoSchedule} \cup ScheduleRow) /\ DOMAIN schedule = 1..Len(schedule)
    BY <1>1, MonitorRows DEF MonitoringTypeOK
  <2> QED BY <1>1, <2>1, ExceptSeq
<1>3. SchedulesEndure
  BY <1>1, <1>2 DEF SchedulesEndure
<1>4. CrossesOnly(Touches(s))
  <2>1. ASSUME NEW e \in Projects \ Touches(s), monitor[e] # NoMonitor
        PROVE  schedule'[monitor[e].schedule] = schedule[monitor[e].schedule]
    <3>1. Owned(monitor[e].schedule, e) /\ monitor[e].schedule # s
      BY <2>1 DEF MonitoringInv, MonitorKept, Touches
    <3> QED BY <1>2, <3>1 DEF Owned
  <2>2. ASSUME NEW e \in Projects \ Touches(s), NEW d \in UnderWay(e), monitorReq[d].pc = "scheduled"
        PROVE  schedule'[monitorReq[d].id] = schedule[monitorReq[d].id]
    <3>1. monitorReq[d].id # s
      BY <2>2 DEF Touches
    <3>2. Owned(monitorReq[d].id, e)
      <4>1. d \in MonitorRequests /\ monitorReq[d].project = e
        BY DEF UnderWay
      <4> QED BY <2>2, <4>1, MonitorRequestIs DEF RequestOwns
    <3> QED BY <1>2, <3>1, <3>2 DEF Owned
  <2>3. Touches(s) \subseteq Projects
    BY DEF Touches
  <2> QED BY <1>1, <1>3, <2>1, <2>2, <2>3 DEF CrossesOnly
<1>5. MonitoringTypeOK'
  <2>1. torn' \subseteq Projects /\ crossed' \subseteq MonitorRequests
    BY <1>1 DEF MonitoringTypeOK, Crosses, Tears, UnderWay, Touches
  <2> QED BY <1>1, <1>2, <2>1 DEF MonitoringTypeOK
<1>6. ASSUME NEW e \in Projects PROVE Cardinality(Orphans(e)') <= forsaken'[e]
  <2>1. Cardinality(Orphans(e)) <= forsaken[e] /\ forsaken[e] \in Nat
    BY <1>1, MonitorRows DEF MonitoringInv, OrphansForsaken
  <2>2. Orphans(e)' \subseteq Orphans(e)
    <3> SUFFICES ASSUME NEW y \in Orphans(e)' PROVE y \in Orphans(e)
      OBVIOUS
    <3>1. /\ y \in DOMAIN schedule' /\ schedule'[y] # NoSchedule /\ schedule'[y].for = e
          /\ monitor[e].schedule # y
          /\ \A d \in MonitorRequests : Makes(monitorReq[d], e) => monitorReq[d].id # y
      BY <1>1 DEF Orphans, Makes
    <3>2. y \in DOMAIN schedule /\ schedule[y] # NoSchedule /\ schedule[y].for = e
      BY <1>2, <1>3, <3>1 DEF SchedulesEndure
    <3> QED BY <3>1, <3>2 DEF Orphans
  <2>3. Cardinality(Orphans(e)') <= forsaken[e]
    BY <1>1, <2>1, <2>2, OrphansCounted
  <2> QED BY <1>1, <2>3
<1>7. OrphansForsaken'
  BY <1>6 DEF OrphansForsaken
<1> QED BY <1>4, <1>5, <1>7, CrossesKept DEF MonitoringInv

-----------------------------------------------------------------------------
LEMMA MonitoringStarts == MonitoringInit => MonitoringInv
<1> SUFFICES ASSUME MonitoringInit PROVE MonitoringInv
  OBVIOUS
<1>1. schedule \in Seq({NoSchedule} \cup ScheduleRow) /\ Len(schedule) = 0 /\ DOMAIN schedule = {}
  BY EmptySeq DEF MonitoringInit
<1>2. MonitoringTypeOK
  BY <1>1, MonitoringAssumption DEF MonitoringInit, MonitoringTypeOK, MonitoringAssumption
<1>3. ASSUME NEW p \in Projects PROVE Cardinality(Orphans(p)) <= forsaken[p] /\ MonitorKept(p)
  <2>1. Orphans(p) = {} /\ forsaken[p] = 0 /\ monitor[p] = NoMonitor
    BY <1>1 DEF Orphans, MonitoringInit
  <2>2. Cardinality({}) = 0
    BY FS_EmptySet
  <2> QED BY <2>1, <2>2 DEF MonitorKept
<1>4. \A q \in MonitorRequests : MonitorRequestKept(q, monitorReq[q])
  BY DEF MonitoringInit, MonitorRequestKept
<1> QED BY <1>2, <1>3, <1>4 DEF MonitoringInv, OrphansForsaken

LEMMA MonitoringKeeps == MonitoringInv /\ [MonitoringNext]_monitoringVars => MonitoringInv'
<1> SUFFICES ASSUME MonitoringInv, [MonitoringNext]_monitoringVars PROVE MonitoringInv'
  OBVIOUS
<1>1. ASSUME NEW q \in MonitorRequests, NEW p \in Projects, NEW set \in Settings,
             FindMonitor(q, "upsert", p, set)
      PROVE  MonitoringInv'
  BY <1>1, FindMonitorKeeps
<1>2. ASSUME NEW q \in MonitorRequests, NEW p \in Projects, monitor[p] # NoMonitor,
             FindMonitor(q, "delete", p, monitor[p].set)
      PROVE  MonitoringInv'
  <2>1. monitor[p].set \in Settings
    BY <1>2, MonitorRows DEF MonitoringInv, MonitorRow
  <2> QED BY <1>2, <2>1, FindMonitorKeeps
<1>3. ASSUME NEW q \in MonitorRequests,
             \/ CreateScheduled(q) \/ UpdateScheduled(q) \/ SaveMonitor(q)
             \/ DropSchedule(q) \/ DropMonitor(q) \/ MonitorDies(q)
      PROVE  MonitoringInv'
  BY <1>3, CreateScheduledKeeps, UpdateScheduledKeeps, SaveMonitorKeeps, DropScheduleKeeps,
     DropMonitorKeeps, MonitorDiesKeeps
<1>4. ASSUME NEW p \in Projects, ForgetProject(p) PROVE MonitoringInv'
  BY <1>4, ForgetProjectKeeps
<1>5. ASSUME NEW s \in DOMAIN schedule, NEW set \in Settings, PatchSchedule(s, set)
      PROVE  MonitoringInv'
  <2> PICK row : row = [schedule[s] EXCEPT !.set = set]
    OBVIOUS
  <2>1. EditSchedule(s, row) /\ schedule[s] # NoSchedule
    BY <1>5 DEF PatchSchedule, LiveSchedules
  <2>2. schedule[s] \in ScheduleRow
    BY <2>1, MonitorRows DEF MonitoringInv
  <2>3. row \in ScheduleRow /\ row.for = schedule[s].for
    BY <2>2 DEF ScheduleRow
  <2> QED BY <2>1, <2>3, EditScheduleKeeps
<1>6. ASSUME NEW s \in DOMAIN schedule, DeleteSchedule(s) PROVE MonitoringInv'
  BY <1>6, EditScheduleKeeps DEF DeleteSchedule
<1>7. CASE UNCHANGED monitoringVars
  <2>1. /\ \A p : UnderWay(p)' = UnderWay(p) /\ Orphans(p)' = Orphans(p)
        /\ MonitoringTypeOK'
    BY <1>7 DEF monitoringVars, UnderWay, Orphans, MonitoringInv, MonitoringTypeOK
  <2>2. ASSUME NEW p \in Projects PROVE MonitorKept(p)'
    <3>1. MonitorKept(p)
      BY DEF MonitoringInv
    <3> QED BY <1>7, <2>1, <3>1 DEF monitoringVars, MonitorKept, Owned, MonitorShown
  <2>3. ASSUME NEW q \in MonitorRequests PROVE MonitorRequestKept(q, monitorReq[q])'
    <3>1. MonitorRequestKept(q, monitorReq[q])
      BY DEF MonitoringInv
    <3> QED BY <1>7, <2>1, <3>1
        DEF monitoringVars, MonitorRequestKept, RequestOwns, Owned, Undisturbed
  <2>4. OrphansForsaken'
    BY <1>7, <2>1 DEF monitoringVars, OrphansForsaken, MonitoringInv
  <2> QED BY <2>1, <2>2, <2>3, <2>4 DEF MonitoringInv
<1> QED BY <1>1, <1>2, <1>3, <1>4, <1>5, <1>6, <1>7 DEF MonitoringNext

\* Each schedule nobody accounts for is an orphan or one that a request is about to commit.
LEMMA MonitoringSchedules == MonitoringInv => MonitorsScheduled
<1> SUFFICES ASSUME MonitoringInv PROVE MonitorsScheduled
  OBVIOUS
<1>1. MonitoringTypeOK /\ IsFiniteSet(MonitorRequests)
  BY MonitoringAssumption DEF MonitoringInv, MonitoringAssumption
<1>2. ASSUME NEW p \in Projects
      PROVE  Cardinality({s \in LiveSchedules : schedule[s].for = p /\ monitor[p].schedule # s})
               <= forsaken[p] + Cardinality({q \in MonitorRequests :
                      /\ Between(q, "upsert", "scheduled")
                      /\ monitorReq[q].row = NoMonitor /\ monitorReq[q].project = p})
  <2> DEFINE loose == {s \in LiveSchedules : schedule[s].for = p /\ monitor[p].schedule # s}
             made == {monitorReq[q].id : q \in Makers(p)}
             makers == {q \in MonitorRequests :
                           /\ Between(q, "upsert", "scheduled")
                           /\ monitorReq[q].row = NoMonitor /\ monitorReq[q].project = p}
  <2>1. makers = Makers(p)
    BY DEF Makers, Makes, Between, NoMonitorRequest
  <2>2. loose \subseteq Orphans(p) \cup made
    <3> SUFFICES ASSUME NEW s \in loose, s \notin made PROVE s \in Orphans(p)
      OBVIOUS
    <3> QED BY DEF LiveSchedules, Orphans, Makers
  <2>3. IsFiniteSet(Orphans(p)) /\ Cardinality(Orphans(p)) \in Nat
        /\ Cardinality(Orphans(p)) <= forsaken[p] /\ forsaken[p] \in Nat
    <3>1. IsFiniteSet(1..Len(schedule)) /\ Orphans(p) \subseteq 1..Len(schedule)
      BY <1>1, MonitorRows, FS_Interval DEF Orphans
    <3> QED BY <1>1, <3>1, FS_Subset, FS_CardinalityType, MonitorRows DEF MonitoringInv, OrphansForsaken
  <2>4. /\ IsFiniteSet(made) /\ Cardinality(made) <= Cardinality(makers)
        /\ Cardinality(made) \in Nat /\ Cardinality(makers) \in Nat
    <3>1. IsFiniteSet(Makers(p))
      BY <1>1, FS_Subset DEF Makers
    <3>2. IsFiniteSet(made) /\ Cardinality(made) <= Cardinality(Makers(p))
      <4> DEFINE f == [q \in Makers(p) |-> monitorReq[q].id]
      <4>1. f \in Surjection(Makers(p), made)
        BY DEF Surjection
      <4> HIDE DEF f
      <4> QED BY <3>1, <4>1, FS_Surjection
    <3> QED BY <2>1, <3>1, <3>2, FS_CardinalityType
  <2>5. /\ IsFiniteSet(Orphans(p) \cup made)
        /\ Cardinality(Orphans(p) \cup made) <= Cardinality(Orphans(p)) + Cardinality(made)
        /\ Cardinality(Orphans(p) \cup made) \in Nat
    <3> HIDE DEF made
    <3>1. IsFiniteSet(Orphans(p) \cup made) /\ IsFiniteSet(Orphans(p) \cap made)
          /\ Cardinality(Orphans(p) \cup made)
               = Cardinality(Orphans(p)) + Cardinality(made) - Cardinality(Orphans(p) \cap made)
      BY <2>3, <2>4, FS_Union, FS_Intersection
    <3> QED BY <2>3, <2>4, <3>1, FS_CardinalityType
  <2>6. Cardinality(loose) <= Cardinality(Orphans(p) \cup made) /\ Cardinality(loose) \in Nat
    BY <2>2, <2>5, FS_Subset, FS_CardinalityType
  <2> HIDE DEF loose, made, makers
  <2>7. Cardinality(loose) <= forsaken[p] + Cardinality(makers)
    BY <2>3, <2>4, <2>5, <2>6
  <2> QED BY <2>7 DEF loose, makers
<1>3. SchedulesAccounted
  BY <1>2 DEF SchedulesAccounted
<1>4. MonitorShowsSchedule
  BY DEF MonitorShowsSchedule, MonitoringInv, MonitorKept, MonitorShown
<1> QED BY <1>3, <1>4 DEF MonitorsScheduled

\* In every reachable state, for any number of requests, projects and schedules, each
\* schedule made for a project is its monitor's, a request's about to commit, or one of
\* those left by a request that failed or died between its two commits or by the project's
\* deletion, and a monitor that nothing has torn shows its schedule as it is
\* (project_monitoring/service.py:40-84).
THEOREM MonitoringCorrect ==
    MonitoringInit /\ [][MonitoringNext]_monitoringVars => [](MonitoringTypeOK /\ MonitorsScheduled)
<1>1. MonitoringInv => MonitoringTypeOK /\ MonitorsScheduled
  BY MonitoringSchedules DEF MonitoringInv
<1> QED BY MonitoringStarts, MonitoringKeeps, <1>1, PTL

-----------------------------------------------------------------------------
(***************************************************************************)
(* Baseline                                                                *)
(***************************************************************************)
\* A snapshot is of an observation; an automatic one was preferred to another snapshot.
SnapshotOutdoes(s) ==
    /\ snapshot[s].research \in DOMAIN observed
    /\ snapshot[s].reason = "BEST_VISIBILITY" =>
           /\ snapshot[s].against \in DOMAIN snapshot
           /\ Decline(snapshot[s].against, snapshot[s].research, "visibility") < 0

RegressionTied(e) ==
    /\ e.snapshot \in DOMAIN snapshot /\ e.current \in DOMAIN observed
    /\ \E i \in 1..4 :
           /\ Severities[i] = e.severity
           /\ Decline(e.snapshot, e.current, e.metric) >= e.scale[i]
           /\ \A j \in (i + 1)..4 : Decline(e.snapshot, e.current, e.metric) < e.scale[j]

\* What a request has read is still there, as a baseline is never deleted.
BaseRequestGrounded(r) ==
    /\ r.pc \in {"chosen", "found"} =>
           r.research \in DOMAIN observed /\ (r.row # NoBaseline => baseline # NoBaseline)
    /\ r.pc \in {"loading", "loaded", "current"} => baseline # NoBaseline
    /\ r.pc \in {"loaded", "current"} => r.newest \in DOMAIN snapshot
    /\ r.pc = "current" => r.current \in DOMAIN observed

BaselineInv ==
    /\ BaselineTypeOK
    /\ RowSnapshotted
    /\ \A s \in DOMAIN snapshot : SnapshotOutdoes(s)
    /\ \A e \in regression : RegressionTied(e)
    /\ \A q \in BaselineRequests : BaseRequestGrounded(baseReq[q])

LEMMA BaselineRows ==
    ASSUME BaselineTypeOK
    PROVE  /\ MaxObserved \in Nat /\ MaxSnapshots \in Nat
           /\ Len(observed) \in Nat /\ DOMAIN observed = 1..Len(observed) /\ DOMAIN observed \subseteq Observed
           /\ Len(snapshot) \in Nat /\ DOMAIN snapshot = 1..Len(snapshot)
           /\ DOMAIN snapshot \subseteq 1..MaxSnapshots
           /\ \A i \in DOMAIN observed, m \in Metrics : observed[i][m] \in Nat
           /\ \A s \in DOMAIN snapshot : snapshot[s] \in BaselineSnapshot
<1>1. MaxObserved \in Nat /\ MaxSnapshots \in Nat /\ Scores \subseteq Nat
  BY ScalesAssumption DEF ScalesAssumption
<1>2. /\ Len(observed) \in Nat /\ DOMAIN observed = 1..Len(observed) /\ DOMAIN observed \subseteq Observed
      /\ Len(snapshot) \in Nat /\ DOMAIN snapshot = 1..Len(snapshot)
      /\ DOMAIN snapshot \subseteq 1..MaxSnapshots
  BY <1>1 DEF BaselineTypeOK, Observed
<1>3. \A i \in DOMAIN observed : observed[i] \in [Metrics -> Scores]
  BY <1>2, ElementOfSeq DEF BaselineTypeOK
<1>4. \A s \in DOMAIN snapshot : snapshot[s] \in BaselineSnapshot
  BY <1>2, ElementOfSeq DEF BaselineTypeOK
<1> QED BY <1>1, <1>2, <1>3, <1>4

\* Whatever a request is at, it is of the kind that gets there.
LEMMA BaseRequestKind ==
    ASSUME BaselineInv, NEW q \in BaselineRequests
    PROVE  /\ BaseRequestGrounded(baseReq[q])
           /\ baseReq[q].pc \in {"chosen", "found"} => baseReq[q] \in SetRequest
           /\ baseReq[q].pc \in {"loading", "loaded", "current"} => baseReq[q] \in EvaluateRequest
<1>1. baseReq[q] \in {NoBaseRequest} \cup SetRequest \cup EvaluateRequest
  BY DEF BaselineInv, BaselineTypeOK
<1>2. BaseRequestGrounded(baseReq[q])
  BY DEF BaselineInv
<1> QED BY <1>1, <1>2 DEF NoBaseRequest, SetRequest, EvaluateRequest

\* The tables only grow, and what was in them stays as it was.
BaselineGrows ==
    /\ \A i \in DOMAIN observed : i \in DOMAIN observed' /\ observed'[i] = observed[i]
    /\ \A s \in DOMAIN snapshot : s \in DOMAIN snapshot' /\ snapshot'[s] = snapshot[s]
    /\ baseline # NoBaseline => baseline' # NoBaseline

LEMMA BaselineGrowth ==
    ASSUME BaselineInv, BaselineGrows
    PROVE  /\ \A s \in DOMAIN snapshot : SnapshotOutdoes(s)'
           /\ \A e \in regression : RegressionTied(e)'
           /\ \A r : BaseRequestGrounded(r) => BaseRequestGrounded(r)'
<1>1. ASSUME NEW s \in DOMAIN snapshot, NEW c \in DOMAIN observed, NEW m
      PROVE  Decline(s, c, m)' = Decline(s, c, m)
  <2>1. snapshot[s].research \in DOMAIN observed
    BY DEF BaselineInv, SnapshotOutdoes
  <2> QED BY <2>1 DEF Decline, BaselineGrows
<1>2. ASSUME NEW s \in DOMAIN snapshot PROVE SnapshotOutdoes(s)'
  <2>1. SnapshotOutdoes(s) /\ snapshot'[s] = snapshot[s]
    BY DEF BaselineInv, BaselineGrows
  <2> PICK t : t = snapshot[s]
    OBVIOUS
  <2>2. ASSUME t.reason = "BEST_VISIBILITY"
        PROVE  t.against \in DOMAIN snapshot' /\ Decline(t.against, t.research, "visibility")' < 0
    <3>1. /\ t.against \in DOMAIN snapshot /\ t.research \in DOMAIN observed
          /\ Decline(t.against, t.research, "visibility") < 0
      BY <2>1, <2>2 DEF SnapshotOutdoes
    <3>2. Decline(t.against, t.research, "visibility")' = Decline(t.against, t.research, "visibility")
      BY <1>1, <3>1
    <3> QED BY <3>1, <3>2 DEF BaselineGrows
  <2> QED BY <2>1, <2>2 DEF SnapshotOutdoes, BaselineGrows
<1>3. ASSUME NEW e \in regression PROVE RegressionTied(e)'
  <2>1. RegressionTied(e)
    BY DEF BaselineInv
  <2>2. Decline(e.snapshot, e.current, e.metric)' = Decline(e.snapshot, e.current, e.metric)
    BY <1>1, <2>1 DEF RegressionTied
  <2> QED BY <2>1, <2>2 DEF RegressionTied, BaselineGrows
<1>4. ASSUME NEW r, BaseRequestGrounded(r) PROVE BaseRequestGrounded(r)'
  BY <1>4 DEF BaseRequestGrounded, BaselineGrows
<1> QED BY <1>2, <1>3, <1>4

\* What a step of one request has to show: what it added, and itself.
LEMMA BaselineStep ==
    ASSUME BaselineInv, BaselineTypeOK', RowSnapshotted', BaselineGrows,
           \A s \in DOMAIN snapshot' \ DOMAIN snapshot : SnapshotOutdoes(s)',
           \A e \in regression' \ regression : RegressionTied(e)',
           \A q \in BaselineRequests : baseReq'[q] = baseReq[q] \/ BaseRequestGrounded(baseReq[q])'
    PROVE  BaselineInv'
<1>1. /\ \A s \in DOMAIN snapshot : SnapshotOutdoes(s)'
      /\ \A e \in regression : RegressionTied(e)'
      /\ \A r : BaseRequestGrounded(r) => BaseRequestGrounded(r)'
  BY BaselineGrowth
<1>2. ASSUME NEW q \in BaselineRequests PROVE BaseRequestGrounded(baseReq[q])'
  <2> PICK r : r = baseReq[q]
    OBVIOUS
  <2>1. BaseRequestGrounded(r) /\ BaseRequestGrounded(r)'
    BY <1>1 DEF BaselineInv
  <2>2. baseReq'[q] = r \/ BaseRequestGrounded(baseReq[q])'
    OBVIOUS
  <2> QED BY <2>1, <2>2 DEF BaseRequestGrounded
<1>3. \A s \in DOMAIN snapshot' : SnapshotOutdoes(s)'
  BY <1>1
<1>4. \A e \in regression' : RegressionTied(e)'
  BY <1>1
<1> QED BY <1>2, <1>3, <1>4 DEF BaselineInv

\* A step that only moves a request.
LEMMA BaselineReads ==
    ASSUME BaselineInv, NEW q \in BaselineRequests, NEW r,
           UNCHANGED <<observed, baseline, snapshot, regression>>, BaseMoves(q, r),
           r \in {NoBaseRequest} \cup SetRequest \cup EvaluateRequest, BaseRequestGrounded(r)
    PROVE  BaselineInv'
<1>1. BaselineTypeOK'
  BY DEF BaselineInv, BaselineTypeOK, BaseMoves
<1>2. BaselineGrows /\ RowSnapshotted'
  BY DEF BaselineGrows, RowSnapshotted, BaselineInv
<1>3. \A d \in BaselineRequests : baseReq'[d] = IF d = q THEN r ELSE baseReq[d]
  BY DEF BaselineInv, BaselineTypeOK, BaseMoves
<1>4. BaseRequestGrounded(r)'
  BY DEF BaseRequestGrounded
<1>5. ASSUME NEW d \in BaselineRequests
      PROVE  baseReq'[d] = baseReq[d] \/ BaseRequestGrounded(baseReq[d])'
  <2>1. baseReq'[d] = baseReq[d] \/ baseReq'[d] = r
    BY <1>3
  <2> QED BY <1>4, <2>1 DEF BaseRequestGrounded
<1> QED BY <1>1, <1>2, <1>5, BaselineStep

-----------------------------------------------------------------------------
LEMMA ObserveKeeps ==
    ASSUME BaselineInv, NEW o \in [Metrics -> Scores], Observe(o)
    PROVE  BaselineInv'
<1>1. /\ UNCHANGED <<baseline, snapshot, regression, baseReq>> /\ BaselineTypeOK
      /\ observed' = Append(observed, o) /\ Len(observed) < MaxObserved
  BY DEF Observe, BaselineInv
<1>2. /\ observed' \in Seq([Metrics -> Scores]) /\ Len(observed') = Len(observed) + 1
      /\ \A i \in 1..Len(observed) : observed'[i] = observed[i]
  BY <1>1, AppendProperties DEF BaselineTypeOK
<1>3. BaselineTypeOK'
  BY <1>1, <1>2, BaselineRows DEF BaselineTypeOK
<1>4. BaselineGrows /\ RowSnapshotted'
  <2>1. DOMAIN observed' = 1..(Len(observed) + 1)
    BY <1>2
  <2> QED BY <1>1, <1>2, <2>1, BaselineRows DEF BaselineGrows, RowSnapshotted, BaselineInv
<1> QED BY <1>1, <1>3, <1>4, BaselineStep

LEMMA SelectKeeps ==
    ASSUME BaselineInv, NEW q \in BaselineRequests, NEW chosen \in Observed,
           NEW policy \in Policies, NEW scale \in Scales, Select(q, chosen, policy, scale)
    PROVE  BaselineInv'
<1> PICK r : r = [pc |-> "chosen", research |-> chosen, policy |-> policy,
                  scale |-> scale, row |-> NoBaseline]
  OBVIOUS
<1>1. /\ UNCHANGED <<observed, baseline, snapshot, regression>> /\ BaseMoves(q, r)
      /\ chosen \in DOMAIN observed
  BY DEF Select
<1>2. r \in SetRequest
  BY DEF SetRequest
<1>3. BaseRequestGrounded(r)
  BY <1>1 DEF BaseRequestGrounded
<1> QED BY <1>1, <1>2, <1>3, BaselineReads

LEMMA FindBaselineKeeps ==
    ASSUME BaselineInv, NEW q \in BaselineRequests, FindBaseline(q)
    PROVE  BaselineInv'
<1> PICK r : r = baseReq[q]
  OBVIOUS
<1> PICK s : s = [r EXCEPT !.pc = "found", !.row = baseline]
  OBVIOUS
<1>1. /\ UNCHANGED <<observed, baseline, snapshot, regression>> /\ BaseMoves(q, s)
      /\ r \in SetRequest /\ BaseRequestGrounded(r) /\ r.pc = "chosen"
  BY BaseRequestKind DEF FindBaseline
<1>2. s \in SetRequest
  BY <1>1 DEF SetRequest, BaselineInv, BaselineTypeOK
<1>3. s.pc = "found" /\ s.row = baseline /\ s.research = r.research
  BY <1>1 DEF SetRequest
<1>4. BaseRequestGrounded(s)
  BY <1>1, <1>3 DEF BaseRequestGrounded
<1> QED BY <1>1, <1>2, <1>4, BaselineReads

LEMMA LoadBaselineKeeps ==
    ASSUME BaselineInv, NEW q \in BaselineRequests, LoadBaseline(q)
    PROVE  BaselineInv'
<1> PICK r : r = [pc |-> "loading", row |-> baseline, newest |-> 0, current |-> 0]
  OBVIOUS
<1>1. /\ UNCHANGED <<observed, baseline, snapshot, regression>> /\ BaseMoves(q, r)
      /\ baseline # NoBaseline
  BY DEF LoadBaseline
<1>2. r \in EvaluateRequest
  <2>1. baseline \in BaselineRow /\ 0 \in 0..MaxSnapshots /\ 0 \in 0..MaxObserved
    BY <1>1, BaselineRows DEF BaselineInv, BaselineTypeOK
  <2> QED BY <2>1 DEF EvaluateRequest
<1>3. BaseRequestGrounded(r)
  BY <1>1 DEF BaseRequestGrounded
<1> QED BY <1>1, <1>2, <1>3, BaselineReads

LEMMA LoadSnapshotsKeeps ==
    ASSUME BaselineInv, NEW q \in BaselineRequests, LoadSnapshots(q)
    PROVE  BaselineInv'
<1> PICK r : r = baseReq[q]
  OBVIOUS
<1> PICK s : s = [r EXCEPT !.pc = "loaded", !.newest = Len(snapshot)]
  OBVIOUS
<1>1. /\ UNCHANGED <<observed, baseline, snapshot, regression>> /\ BaseMoves(q, s)
      /\ r \in EvaluateRequest /\ BaseRequestGrounded(r) /\ r.pc = "loading"
  BY BaseRequestKind DEF LoadSnapshots
<1>2. baseline # NoBaseline /\ Len(snapshot) \in DOMAIN snapshot
  <2>1. baseline # NoBaseline
    BY <1>1 DEF BaseRequestGrounded
  <2>2. \E t \in DOMAIN snapshot : TRUE
    BY <2>1 DEF BaselineInv, RowSnapshotted
  <2> QED BY <2>1, <2>2, BaselineRows DEF BaselineInv
<1>3. s \in EvaluateRequest
  <2>1. Len(snapshot) \in 0..MaxSnapshots
    BY <1>2, BaselineRows DEF BaselineInv
  <2> QED BY <1>1, <2>1 DEF EvaluateRequest
<1>4. s.pc = "loaded" /\ s.newest = Len(snapshot)
  BY <1>1 DEF EvaluateRequest
<1>5. BaseRequestGrounded(s)
  BY <1>2, <1>4 DEF BaseRequestGrounded
<1> QED BY <1>1, <1>3, <1>5, BaselineReads

LEMMA LoadCurrentKeeps ==
    ASSUME BaselineInv, NEW q \in BaselineRequests, LoadCurrent(q)
    PROVE  BaselineInv'
<1> PICK r : r = baseReq[q]
  OBVIOUS
<1> PICK s : s = [r EXCEPT !.pc = "current", !.current = Len(observed)]
  OBVIOUS
<1>1. /\ UNCHANGED <<observed, baseline, snapshot, regression>> /\ BaseMoves(q, s)
      /\ r \in EvaluateRequest /\ BaseRequestGrounded(r) /\ r.pc = "loaded"
  BY BaseRequestKind DEF LoadCurrent
<1>2. baseline # NoBaseline /\ r.newest \in DOMAIN snapshot /\ Len(observed) \in DOMAIN observed
  <2>1. baseline # NoBaseline /\ r.newest \in DOMAIN snapshot
    BY <1>1 DEF BaseRequestGrounded
  <2>2. snapshot[r.newest].research \in DOMAIN observed
    BY <2>1 DEF BaselineInv, SnapshotOutdoes
  <2> QED BY <2>1, <2>2, BaselineRows DEF BaselineInv
<1>3. s \in EvaluateRequest
  <2>1. Len(observed) \in 0..MaxObserved
    BY <1>2, BaselineRows DEF BaselineInv, Observed
  <2> QED BY <1>1, <2>1 DEF EvaluateRequest
<1>4. s.pc = "current" /\ s.newest = r.newest /\ s.current = Len(observed)
  BY <1>1 DEF EvaluateRequest
<1>5. BaseRequestGrounded(s)
  BY <1>2, <1>4 DEF BaseRequestGrounded
<1> QED BY <1>1, <1>3, <1>5, BaselineReads

-----------------------------------------------------------------------------
\* What an update leaves in the row: for each column the value it brings, or what is there.
LEMMA UpdatedRow ==
    ASSUME baseline \in BaselineRow, NEW was \in BaselineRow, NEW new \in BaselineRow
    PROVE  /\ Updated(was, new) \in BaselineRow
           /\ Updated(was, new).research \in {baseline.research, new.research}
<1>1. Updated(was, new) =
         [research |-> IF new.research = was.research THEN baseline.research ELSE new.research,
          policy |-> IF new.policy = was.policy THEN baseline.policy ELSE new.policy,
          scale |-> IF new.scale = was.scale THEN baseline.scale ELSE new.scale]
  BY DEF Updated, BaselineRow
<1> QED BY <1>1 DEF BaselineRow

\* A snapshot is added, of what the row is set to.
LEMMA BaselineMoved ==
    ASSUME BaselineInv, NEW n \in BaselineSnapshot, Len(snapshot) < MaxSnapshots,
           snapshot' = Append(snapshot, n), UNCHANGED observed,
           \/ baseline' \in BaselineRow /\ baseline'.research = n.research
           \/ /\ baseline \in BaselineRow /\ baseline' \in BaselineRow
              /\ baseline'.research \in {baseline.research, n.research}
    PROVE  /\ snapshot' \in Seq(BaselineSnapshot) /\ Len(snapshot') <= MaxSnapshots
           /\ DOMAIN snapshot' = DOMAIN snapshot \cup {Len(snapshot) + 1}
           /\ snapshot'[Len(snapshot) + 1] = n /\ Len(snapshot) + 1 \notin DOMAIN snapshot
           /\ RowSnapshotted' /\ BaselineGrows
<1>1. /\ snapshot \in Seq(BaselineSnapshot) /\ Len(snapshot) \in Nat /\ MaxSnapshots \in Nat
      /\ DOMAIN snapshot = 1..Len(snapshot)
  BY BaselineRows DEF BaselineInv, BaselineTypeOK
<1>2. /\ snapshot' \in Seq(BaselineSnapshot) /\ Len(snapshot') = Len(snapshot) + 1
      /\ \A i \in 1..Len(snapshot) : snapshot'[i] = snapshot[i]
      /\ snapshot'[Len(snapshot) + 1] = n
  BY <1>1, AppendProperties
<1>3. DOMAIN snapshot' = DOMAIN snapshot \cup {Len(snapshot) + 1} /\ Len(snapshot) + 1 \notin DOMAIN snapshot
  <2>1. DOMAIN snapshot' = 1..(Len(snapshot) + 1)
    BY <1>2
  <2> QED BY <1>1, <2>1
<1>4. BaselineGrows
  <2>1. NoBaseline \notin BaselineRow
    BY BaselineRows DEF NoBaseline, BaselineRow
  <2> QED BY <1>1, <1>2, <1>3, <2>1 DEF BaselineGrows
<1>5. \E s \in DOMAIN snapshot' : snapshot'[s].research = baseline'.research
  <2>1. CASE baseline'.research = n.research
    BY <1>2, <1>3, <2>1
  <2>2. CASE baseline \in BaselineRow /\ baseline'.research = baseline.research
    <3>1. baseline # NoBaseline
      BY <2>2 DEF NoBaseline, BaselineRow
    <3>2. PICK s \in DOMAIN snapshot : snapshot[s].research = baseline.research
      BY <3>1 DEF BaselineInv, RowSnapshotted
    <3>3. s \in DOMAIN snapshot' /\ snapshot'[s] = snapshot[s]
      BY <1>1, <1>2, <1>3, <3>2
    <3> QED BY <2>2, <3>2, <3>3
  <2> QED BY <2>1, <2>2
<1>6. Len(snapshot') <= MaxSnapshots
  BY <1>1, <1>2
<1> QED BY <1>2, <1>3, <1>4, <1>5, <1>6 DEF RowSnapshotted

LEMMA SetBaselineKeeps ==
    ASSUME BaselineInv, NEW q \in BaselineRequests, SetBaseline(q)
    PROVE  BaselineInv'
<1> PICK r : r = baseReq[q]
  OBVIOUS
<1> PICK new : new = [research |-> r.research, policy |-> r.policy, scale |-> r.scale]
  OBVIOUS
<1>1. /\ r \in SetRequest /\ BaseRequestGrounded(r) /\ r.pc = "found" /\ BaselineTypeOK
      /\ UNCHANGED <<observed, regression>> /\ Len(snapshot) < MaxSnapshots
      /\ BaseMoves(q, NoBaseRequest)
  BY BaseRequestKind DEF SetBaseline, BaselineInv
<1>2. BaseRequestGrounded(NoBaseRequest)
  BY DEF BaseRequestGrounded, NoBaseRequest
<1>3. CASE r.row = NoBaseline /\ baseline # NoBaseline
  <2>1. UNCHANGED <<baseline, snapshot>>
    BY <1>3 DEF SetBaseline
  <2> QED BY <1>1, <1>2, <2>1, BaselineReads
<1>4. CASE ~(r.row = NoBaseline /\ baseline # NoBaseline)
  <2> PICK n : n = [research |-> r.research, against |-> 0,
                    reason |-> IF r.row = NoBaseline THEN "CREATED" ELSE "MANUAL_UPDATE"]
    OBVIOUS
  <2>1. /\ baseline' = IF r.row = NoBaseline THEN new ELSE Updated(r.row, new)
        /\ snapshot' = Append(snapshot, n)
    BY <1>4 DEF SetBaseline
  <2>2. new \in BaselineRow /\ new.research = n.research /\ n.research \in DOMAIN observed
    BY <1>1 DEF SetRequest, BaselineRow, BaseRequestGrounded
  <2>3. n \in BaselineSnapshot /\ n.reason # "BEST_VISIBILITY"
    <3>1. 0 \in 0..MaxSnapshots
      BY <1>1, BaselineRows
    <3> QED BY <1>1, <3>1 DEF SetRequest, BaselineSnapshot
  <2>4. \/ baseline' \in BaselineRow /\ baseline'.research = n.research
        \/ /\ baseline \in BaselineRow /\ baseline' \in BaselineRow
           /\ baseline'.research \in {baseline.research, n.research}
    <3>1. CASE r.row = NoBaseline
      BY <2>1, <2>2, <3>1
    <3>2. CASE r.row # NoBaseline
      <4>1. baseline \in BaselineRow /\ r.row \in BaselineRow
        BY <1>1, <3>2 DEF BaseRequestGrounded, BaselineTypeOK, SetRequest
      <4> QED BY <2>1, <2>2, <3>2, <4>1, UpdatedRow
    <3> QED BY <3>1, <3>2
  <2>5. /\ snapshot' \in Seq(BaselineSnapshot) /\ Len(snapshot') <= MaxSnapshots
        /\ DOMAIN snapshot' = DOMAIN snapshot \cup {Len(snapshot) + 1}
        /\ snapshot'[Len(snapshot) + 1] = n
        /\ RowSnapshotted' /\ BaselineGrows
    BY <1>1, <2>1, <2>3, <2>4, BaselineMoved
  <2>6. BaselineTypeOK'
    BY <1>1, <2>4, <2>5 DEF BaselineTypeOK, BaseMoves
  <2>7. \A s \in DOMAIN snapshot' \ DOMAIN snapshot : SnapshotOutdoes(s)'
    BY <1>1, <2>2, <2>3, <2>5 DEF SnapshotOutdoes
  <2>8. \A d \in BaselineRequests : baseReq'[d] = baseReq[d] \/ BaseRequestGrounded(baseReq[d])'
    BY <1>1 DEF BaseMoves, BaselineTypeOK, BaseRequestGrounded, NoBaseRequest
  <2> QED BY <1>1, <2>5, <2>6, <2>7, <2>8, BaselineStep
<1> QED BY <1>3, <1>4

\* The severity of a decline that reaches a threshold is that of the last it reaches.
LEMMA SeverityIs ==
    ASSUME NEW decline \in Int, NEW scale \in Scales, Reached(decline, scale) # {}
    PROVE  \E i \in 1..4 :
               /\ Severity(decline, scale) = Severities[i] /\ decline >= scale[i]
               /\ \A j \in (i + 1)..4 : decline < scale[j]
<1>1. scale \in [1..4 -> Nat]
  BY ScalesAssumption DEF ScalesAssumption
<1>2. \E i \in Reached(decline, scale) : \A j \in Reached(decline, scale) : j <= i
  BY DEF Reached
<1> DEFINE i == CHOOSE i \in Reached(decline, scale) : \A j \in Reached(decline, scale) : j <= i
<1>3. i \in Reached(decline, scale) /\ \A j \in Reached(decline, scale) : j <= i
  BY <1>2
<1>4. Severity(decline, scale) = Severities[i]
  BY DEF Severity
<1> HIDE DEF i
<1>5. ASSUME NEW j \in (i + 1)..4 PROVE decline < scale[j]
  <2>1. i \in 1..4 /\ j \in 1..4 /\ ~(j <= i)
    BY <1>3 DEF Reached
  <2>2. j \notin Reached(decline, scale)
    BY <1>3, <2>1
  <2> QED BY <1>1, <2>1, <2>2 DEF Reached
<1> QED BY <1>3, <1>4, <1>5 DEF Reached

LEMMA EvaluateKeeps ==
    ASSUME BaselineInv, NEW q \in BaselineRequests, Evaluate(q)
    PROVE  BaselineInv'
<1> PICK r : r = baseReq[q]
  OBVIOUS
<1> PICK against : against = r.newest
  OBVIOUS
<1>1. /\ r \in EvaluateRequest /\ BaseRequestGrounded(r) /\ r.pc = "current" /\ BaselineTypeOK
      /\ UNCHANGED observed /\ BaseMoves(q, NoBaseRequest)
      /\ regression' = regression \cup Regressions(against, r.current, r.row.scale)
  BY BaseRequestKind DEF Evaluate, BaselineInv
<1>2. /\ against \in DOMAIN snapshot /\ r.current \in DOMAIN observed /\ r.row \in BaselineRow
      /\ r.row.scale \in Scales /\ baseline \in BaselineRow
      /\ snapshot[against].research \in DOMAIN observed
  BY <1>1 DEF BaseRequestGrounded, EvaluateRequest, BaselineRow, BaselineInv, BaselineTypeOK, SnapshotOutdoes
<1>3. \A m \in Metrics : Decline(against, r.current, m) \in Int
  BY SMTT(30), <1>1, <1>2, BaselineRows DEF Decline
<1>4. ASSUME NEW e \in Regressions(against, r.current, r.row.scale)
      PROVE  e \in Regression /\ RegressionTied(e)
  <2>1. PICK m \in Metrics :
            /\ Reached(Decline(against, r.current, m), r.row.scale) # {}
            /\ e = [snapshot |-> against, current |-> r.current, metric |-> m, scale |-> r.row.scale,
                    severity |-> Severity(Decline(against, r.current, m), r.row.scale)]
    BY <1>4 DEF Regressions
  <2>2. PICK i \in 1..4 :
            /\ Severity(Decline(against, r.current, m), r.row.scale) = Severities[i]
            /\ Decline(against, r.current, m) >= r.row.scale[i]
            /\ \A j \in (i + 1)..4 : Decline(against, r.current, m) < r.row.scale[j]
    BY <1>2, <1>3, <2>1, SeverityIs
  <2>3. e \in Regression
    BY <1>1, <1>2, <2>1, <2>2, BaselineRows DEF Regression
  <2> QED BY <1>2, <2>1, <2>2, <2>3 DEF RegressionTied
<1>5. /\ \A d \in BaselineRequests : baseReq'[d] = baseReq[d] \/ BaseRequestGrounded(baseReq[d])'
      /\ baseReq' \in [BaselineRequests -> {NoBaseRequest} \cup SetRequest \cup EvaluateRequest]
  BY <1>1 DEF BaseMoves, BaselineTypeOK, BaseRequestGrounded, NoBaseRequest
<1>6. regression' \subseteq Regression
  BY <1>1, <1>4 DEF BaselineTypeOK
<1>7. SUFFICES /\ baseline' \in {NoBaseline} \cup BaselineRow
               /\ snapshot' \in Seq(BaselineSnapshot) /\ Len(snapshot') <= MaxSnapshots
               /\ RowSnapshotted' /\ BaselineGrows
               /\ \A s \in DOMAIN snapshot' \ DOMAIN snapshot : SnapshotOutdoes(s)'
  <2>1. BaselineTypeOK'
    BY <1>1, <1>5, <1>6, <1>7 DEF BaselineTypeOK
  <2>2. ASSUME NEW e \in regression' \ regression PROVE RegressionTied(e)'
    <3>1. RegressionTied(e)
      BY <1>1, <1>4
    <3>2. Decline(e.snapshot, e.current, e.metric)' = Decline(e.snapshot, e.current, e.metric)
      BY <1>1, <1>7, <3>1 DEF Decline, BaselineGrows, RegressionTied
    <3> QED BY <1>7, <3>1, <3>2 DEF RegressionTied, BaselineGrows
  <2> QED BY <1>5, <1>7, <2>1, <2>2, BaselineStep
<1> DEFINE moves == ShouldUpdate(r.row.policy, against, r.current)
                        /\ r.current # snapshot[against].research
<1>8. CASE ~moves
  <2>1. UNCHANGED <<baseline, snapshot>>
    BY <1>8 DEF Evaluate
  <2> QED BY <1>1, <2>1 DEF BaselineTypeOK, RowSnapshotted, BaselineInv, BaselineGrows
<1>9. CASE moves
  <2> PICK n : n = [research |-> r.current, reason |-> r.row.policy, against |-> against]
    OBVIOUS
  <2> PICK new : new = [r.row EXCEPT !.research = r.current]
    OBVIOUS
  <2>1. /\ Len(snapshot) < MaxSnapshots /\ snapshot' = Append(snapshot, n)
        /\ baseline' = Updated(r.row, new)
    BY <1>9 DEF Evaluate
  <2>2. n \in BaselineSnapshot /\ new \in BaselineRow /\ new.research = n.research
    <3>1. r.current \in Observed /\ against \in 0..MaxSnapshots /\ r.row.policy \in Policies
      BY <1>1, <1>2, BaselineRows DEF BaselineRow
    <3> QED BY <1>2, <3>1 DEF BaselineSnapshot, BaselineRow
  <2>3. baseline' \in BaselineRow /\ baseline'.research \in {baseline.research, n.research}
    BY ZenonT(60), <1>2, <2>1, <2>2, UpdatedRow
  <2>4. /\ snapshot' \in Seq(BaselineSnapshot) /\ Len(snapshot') <= MaxSnapshots
        /\ DOMAIN snapshot' = DOMAIN snapshot \cup {Len(snapshot) + 1}
        /\ snapshot'[Len(snapshot) + 1] = n
        /\ RowSnapshotted' /\ BaselineGrows
    BY <1>1, <1>2, <2>1, <2>2, <2>3, BaselineMoved
  <2>5. ASSUME NEW s \in DOMAIN snapshot' \ DOMAIN snapshot PROVE SnapshotOutdoes(s)'
    <3>1. snapshot'[s] = n /\ n.research \in DOMAIN observed' /\ against \in DOMAIN snapshot'
      BY <1>1, <1>2, <2>4
    <3>2. ASSUME r.row.policy = "BEST_VISIBILITY"
          PROVE  Decline(against, r.current, "visibility")' < 0
      <4>1. Decline(against, r.current, "visibility") < 0
        BY <1>9, <3>2 DEF ShouldUpdate
      <4>2. Decline(against, r.current, "visibility")' = Decline(against, r.current, "visibility")
        BY <1>1, <1>2, <2>4 DEF Decline, BaselineGrows
      <4> QED BY <4>1, <4>2
    <3> QED BY <3>1, <3>2 DEF SnapshotOutdoes
  <2> QED BY <2>3, <2>4, <2>5
<1> QED BY <1>8, <1>9

-----------------------------------------------------------------------------
LEMMA BaselineStarts == BaselineInit => BaselineInv
<1> SUFFICES ASSUME BaselineInit PROVE BaselineInv
  OBVIOUS
<1>1. /\ observed = <<>> /\ observed \in Seq([Metrics -> Scores]) /\ Len(observed) = 0
      /\ snapshot \in Seq(BaselineSnapshot) /\ Len(snapshot) = 0 /\ DOMAIN snapshot = {}
  BY EmptySeq DEF BaselineInit
<1>2. BaselineTypeOK
  BY <1>1, ScalesAssumption DEF BaselineInit, BaselineTypeOK, ScalesAssumption
<1> QED BY <1>1, <1>2 DEF BaselineInit, BaselineInv, RowSnapshotted, BaseRequestGrounded, NoBaseRequest

LEMMA BaselineKeeps == BaselineInv /\ [BaselineNext]_baselineVars => BaselineInv'
<1> SUFFICES ASSUME BaselineInv, [BaselineNext]_baselineVars PROVE BaselineInv'
  OBVIOUS
<1>1. ASSUME NEW o \in [Metrics -> Scores], Observe(o) PROVE BaselineInv'
  BY <1>1, ObserveKeeps
<1>2. ASSUME NEW q \in BaselineRequests, NEW r \in Observed, NEW policy \in Policies,
             NEW scale \in Scales, Select(q, r, policy, scale)
      PROVE  BaselineInv'
  BY <1>2, SelectKeeps
<1>3. ASSUME NEW q \in BaselineRequests,
             \/ FindBaseline(q) \/ SetBaseline(q)
             \/ LoadBaseline(q) \/ LoadSnapshots(q) \/ LoadCurrent(q) \/ Evaluate(q)
      PROVE  BaselineInv'
  BY <1>3, FindBaselineKeeps, SetBaselineKeeps, LoadBaselineKeeps, LoadSnapshotsKeeps,
     LoadCurrentKeeps, EvaluateKeeps
<1>4. CASE UNCHANGED baselineVars
  <2>1. BaselineTypeOK' /\ BaselineGrows /\ RowSnapshotted'
    BY <1>4 DEF baselineVars, BaselineInv, BaselineTypeOK, BaselineGrows, RowSnapshotted
  <2> QED BY <1>4, <2>1, BaselineStep DEF baselineVars
<1> QED BY <1>1, <1>2, <1>3, <1>4 DEF BaselineNext

\* A loss that is reported reaches a threshold, which is at least nothing.
LEMMA BaselineAgrees == BaselineInv => BaselineRecorded
<1> SUFFICES ASSUME BaselineInv PROVE BaselineRecorded
  OBVIOUS
<1>1. ASSUME NEW s \in DOMAIN snapshot, snapshot[s].reason = "BEST_VISIBILITY"
      PROVE  /\ Decline(snapshot[s].against, snapshot[s].research, "visibility") < 0
             /\ \A e \in regression :
                    ~(/\ e.snapshot = snapshot[s].against /\ e.current = snapshot[s].research
                      /\ e.metric = "visibility")
  <2> PICK lost : lost = Decline(snapshot[s].against, snapshot[s].research, "visibility")
    OBVIOUS
  <2>1. lost < 0 /\ lost \in Int
    <3>1. SnapshotOutdoes(s)
      BY DEF BaselineInv
    <3>2. snapshot[snapshot[s].against].research \in DOMAIN observed
      BY <1>1, <3>1 DEF BaselineInv, SnapshotOutdoes
    <3> QED BY <1>1, <3>1, <3>2, BaselineRows DEF SnapshotOutdoes, Decline, BaselineInv, Metrics
  <2>2. ASSUME NEW e \in regression, e.snapshot = snapshot[s].against,
               e.current = snapshot[s].research, e.metric = "visibility"
        PROVE  FALSE
    <3>1. PICK i \in 1..4 : lost >= e.scale[i]
      BY <2>2 DEF BaselineInv, RegressionTied
    <3>2. e.scale[i] \in Nat
      <4>1. e.scale \in Scales
        BY DEF BaselineInv, BaselineTypeOK, Regression
      <4> QED BY <4>1, ScalesAssumption DEF ScalesAssumption
    <3> QED BY <2>1, <3>1, <3>2
  <2> QED BY <2>1, <2>2
<1>2. BestOutdoes
  BY <1>1 DEF BestOutdoes
<1>3. RegressionsTied
  BY DEF RegressionsTied, BaselineInv, RegressionTied
<1> QED BY <1>2, <1>3 DEF BaselineRecorded, BaselineInv

\* In every reachable state, for any number of requests and any observations, scores and
\* thresholds, the row names a research that has been snapshotted, what BEST_VISIBILITY
\* installed outdid the snapshot it was compared with, and each regression is of the
\* severity its thresholds give it (baseline/engine.py:39-125, 168-176).
THEOREM BaselineCorrect ==
    BaselineInit /\ [][BaselineNext]_baselineVars => [](BaselineTypeOK /\ BaselineRecorded)
<1>1. BaselineInv => BaselineTypeOK /\ BaselineRecorded
  BY BaselineAgrees DEF BaselineInv
<1> QED BY BaselineStarts, BaselineKeeps, <1>1, PTL

===============================================================================
