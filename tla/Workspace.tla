------------------------------- MODULE Workspace -------------------------------
(***************************************************************************)
(* A project of a user's workspace: its domains, of which at most one is   *)
(* the primary one, and its bulk research, which launches one research per *)
(* target in commits of their own and reports their progress.              *)
(*                                                                         *)
(* The name, the settings, the competitors and the saved configurations of *)
(* a project are left out.  Every request runs in a session of its own and *)
(* may die between two commits.                                            *)
(***************************************************************************)
EXTENDS Naturals, Sequences, FiniteSets

CONSTANTS WsRequests,       \* requests in progress at once
          Hosts,            \* hostnames
          Payloads,         \* what an import may bring: sequences of incoming domains
          MaxDomains,       \* bound on domains that were ever stored
          Total             \* targets of the bulk run

ASSUME WorkspaceAssumption ==
    /\ MaxDomains \in Nat /\ Total \in Nat \ {0}
    /\ Payloads \subseteq Seq([host : Hosts, primary : BOOLEAN]) \ {<<>>}

VARIABLES project,      \* the row of workspace_projects
          domain,       \* table project_domains; a deleted row is no longer live
          bulk,         \* table bulk_research_runs: the one run
          item,         \* table bulk_research_items, by target
          research,     \* tables researches and research_jobs, by target
          ended,        \* the ends the research of a target has come to so far
          wsReq         \* requests in progress

domainVars == <<project, domain>>
bulkVars == <<bulk, item, research, ended>>
workspaceVars == <<domainVars, bulkVars, wsReq>>

Targets == 1..Total
DomainIds == 1..MaxDomains
ProjectDomain == [host : Hosts, primary : BOOLEAN, live : BOOLEAN]
ResearchStatus == {"DRAFT", "ACTIVE", "COMPLETED", "FAILED", "ARCHIVED"}
ItemState == {"none", "PENDING", "COMPLETED", "FAILED"}

NoWsRequest == [pc |-> "idle"]
\* The save of a new domain; demote: the primary domains it has loaded.
Saving == [pc : {"listed", "placing"}, host : Hosts, primary : BOOLEAN, demote : SUBSET DomainIds]
Loaded == [host : Hosts, primary : BOOLEAN]
\* was: the row as it was loaded.
Changing == [pc : {"loaded"}, id : DomainIds, was : Loaded]
\* known: the rows import_domains has loaded, as its session knows them.
Importing == [pc : {"importing"}, todo : Seq(Loaded),
              known : UNION {[S -> Loaded] : S \in SUBSET DomainIds}]
\* at: the target that is being launched.
Launching == [pc : {"launch", "enqueue", "record"}, at : Targets]
\* stored: the items as they were loaded; seen: with the states of their researches.
Reading == [pc : {"items", "states"}, stored : [Targets -> ItemState], seen : [Targets -> ItemState]]
\* full: whether it reports that everything is finished.
Answering == [pc : {"answered"}, full : BOOLEAN]

WorkspaceTypeOK ==
    /\ project \in {"none", "kept", "deleted"}
    /\ domain \in Seq(ProjectDomain) /\ Len(domain) <= MaxDomains
    /\ bulk \in {"none", "kept", "deleted"}
    /\ item \in [Targets -> ItemState]
    /\ research \in [Targets -> {"none", "deleted"} \cup ResearchStatus]
    /\ ended \in [Targets -> SUBSET {"COMPLETED", "FAILED"}]
    /\ \A q \in WsRequests :
        wsReq[q] \in {NoWsRequest} \cup Saving \cup Changing \cup Importing
                        \cup Launching \cup Reading \cup Answering

WorkspaceInit ==
    /\ project = "none" /\ domain = <<>>
    /\ bulk = "none" /\ item = [t \in Targets |-> "none"]
    /\ research = [t \in Targets |-> "none"] /\ ended = [t \in Targets |-> {}]
    /\ wsReq = [q \in WsRequests |-> NoWsRequest]

WsTo(q, s) == wsReq' = [wsReq EXCEPT ![q] = s]
WsLeave(q) == WsTo(q, NoWsRequest)
WsBegins(q) == wsReq[q] = NoWsRequest /\ project = "kept"

-----------------------------------------------------------------------------
(***************************************************************************)
(* The project and its domains                                             *)
(***************************************************************************)
CreateProject ==
    /\ project = "none"
    /\ project' = "kept"
    /\ UNCHANGED <<domain, bulkVars, wsReq>>

\* ON DELETE CASCADE takes the domains, the bulk run and its items; the researches
\* stay, without their project.
DeleteProject ==
    /\ project = "kept"
    /\ project' = "deleted"
    /\ domain' = [i \in DOMAIN domain |-> [domain[i] EXCEPT !.live = FALSE]]
    /\ bulk' = IF bulk = "kept" THEN "deleted" ELSE bulk
    /\ item' = [t \in Targets |-> "none"]
    /\ UNCHANGED <<research, ended, wsReq>>

LiveIn(d) == {i \in DOMAIN d : d[i].live}
PrimariesIn(d) == {i \in LiveIn(d) : d[i].primary}

\* What the session of a request with the given rows in hand takes for primary: it
\* does not load again what it holds.
SeenPrimary(d, known) ==
    {i \in LiveIn(d) : IF i \in DOMAIN known THEN known[i].primary ELSE d[i].primary}
Demoted(d, rows) ==
    [i \in DOMAIN d |-> IF i \in rows THEN [d[i] EXCEPT !.primary = FALSE] ELSE d[i]]

\* uq_project_domains_hostname and uq_project_domains_primary.
Allowed(d) ==
    /\ \A i, j \in LiveIn(d) : i # j => d[i].host # d[j].host
    /\ Cardinality(PrimariesIn(d)) <= 1

\* A flush that updates rows, which must still be there, and then inserts; the
\* project must be there too.
Flushes(rows, d) == project = "kept" /\ rows \subseteq LiveIn(domain) /\ Allowed(d)

\* The first domain is the primary one whatever was asked.
CreateDomain(q, host, primary) ==
    /\ WsBegins(q)
    /\ WsTo(q, [pc |-> "listed", host |-> host, demote |-> {},
                primary |-> primary \/ LiveIn(domain) = {}])
    /\ UNCHANGED <<domainVars, bulkVars>>

\* save lists the domains to take the mark from them.
ListToDemote(q) ==
    /\ wsReq[q].pc = "listed"
    /\ WsTo(q, [wsReq[q] EXCEPT !.pc = "placing",
                                !.demote = IF wsReq[q].primary THEN PrimariesIn(domain) ELSE {}])
    /\ UNCHANGED <<domainVars, bulkVars>>

Inserted(d, new, demote) ==
    Append(Demoted(d, demote), [host |-> new.host, primary |-> new.primary, live |-> TRUE])

PlaceDomain(q) ==
    /\ wsReq[q].pc = "placing"
    /\ Len(domain) < MaxDomains
    /\ LET d == Inserted(domain, wsReq[q], wsReq[q].demote)
       IN  domain' = IF Flushes(wsReq[q].demote, d) THEN d ELSE domain
    /\ WsLeave(q)
    /\ UNCHANGED <<project, bulkVars>>

LoadDomain(q, i) ==
    /\ WsBegins(q)
    /\ i \in LiveIn(domain)
    /\ WsTo(q, [pc |-> "loaded", id |-> i,
                was |-> [host |-> domain[i].host, primary |-> domain[i].primary]])
    /\ UNCHANGED <<domainVars, bulkVars>>

\* Only columns that differ from what was loaded are written.
Written(i, was, now) ==
    [domain EXCEPT ![i].host = IF now.host # was.host THEN now.host ELSE @,
                   ![i].primary = IF now.primary # was.primary THEN now.primary ELSE @]

FirstFlush_AfterListing(i, was, now) == Demoted(Written(i, was, now), PrimariesIn(domain) \ {i})
\* The listing of save flushes the row before the mark is taken from the others.
FirstFlush(i, was, now) == Written(i, was, now)

\* save of a row that is stored.  The flush holds the row and its index entry until
\* the commit, so that what others do meanwhile waits or commutes.
Saved(i, was, now, known) ==
    LET d == Written(i, was, now)
    IN  IF now.primary THEN Demoted(d, SeenPrimary(d, known) \ {i}) ELSE d

ChangeDomain(q, now) ==
    /\ wsReq[q].pc = "loaded"
    /\ LET i == wsReq[q].id
       IN  domain' = IF Flushes({i}, FirstFlush(i, wsReq[q].was, now))
                     THEN Saved(i, wsReq[q].was, now, <<>>) ELSE domain
    /\ WsLeave(q)
    /\ UNCHANGED <<project, bulkVars>>

\* A delete that finds the row gone is not an error.
DeleteDomain(i) ==
    /\ i \in LiveIn(domain)
    /\ domain' = [domain EXCEPT ![i].live = FALSE]
    /\ UNCHANGED <<project, bulkVars, wsReq>>

ImportDomains(q, payload) ==
    /\ WsBegins(q)
    /\ WsTo(q, [pc |-> "importing", todo |-> payload,
                known |-> [i \in LiveIn(domain) |-> [host |-> domain[i].host,
                                                     primary |-> domain[i].primary]]])
    /\ UNCHANGED <<domainVars, bulkVars>>

\* What the session knows once it has saved: its rows no longer have the mark if the
\* incoming one has it.
KnownAfter(known, i, incoming) ==
    [j \in DOMAIN known |-> IF j = i THEN incoming
                            ELSE [known[j] EXCEPT !.primary = @ /\ ~incoming.primary]]

\* Each incoming domain is committed by itself; the first that fails ends the import.
ImportOne(q) ==
    /\ wsReq[q].pc = "importing"
    /\ LET incoming == Head(wsReq[q].todo)
           known == wsReq[q].known
           demote == IF incoming.primary THEN SeenPrimary(domain, known) ELSE {}
           matched == \E j \in DOMAIN known : known[j].host = incoming.host
           m == CHOOSE j \in DOMAIN known : known[j].host = incoming.host
           done(d, k) == /\ domain' = d
                         /\ IF Len(wsReq[q].todo) = 1 THEN WsLeave(q)
                            ELSE WsTo(q, [pc |-> "importing", todo |-> Tail(wsReq[q].todo), known |-> k])
           fails == UNCHANGED domain /\ WsLeave(q)
       IN  IF matched
           THEN IF Flushes({m}, FirstFlush(m, known[m], incoming))
                THEN done(Saved(m, known[m], incoming, known), KnownAfter(known, m, incoming))
                ELSE fails
           ELSE /\ Len(domain) < MaxDomains
                /\ IF Flushes(demote, Inserted(domain, incoming, demote))
                   THEN done(Inserted(domain, incoming, demote), KnownAfter(known, 0, incoming))
                   ELSE fails
    /\ UNCHANGED <<project, bulkVars>>

-----------------------------------------------------------------------------
(***************************************************************************)
(* Bulk research                                                           *)
(***************************************************************************)
Ends(status) ==
    CASE status = "COMPLETED" -> "COMPLETED"
      [] status \in {"FAILED", "ARCHIVED"} -> "FAILED"
      [] OTHER -> "PENDING"

CreateBulkRun(q) ==
    /\ WsBegins(q) /\ bulk = "none"
    /\ bulk' = "kept"
    /\ WsTo(q, [pc |-> "launch", at |-> 1])
    /\ UNCHANGED <<domainVars, item, research, ended>>

\* researches.project_id refers to the project: without it the request fails.
LaunchResearch(q) ==
    /\ wsReq[q].pc = "launch"
    /\ IF project = "kept"
       THEN /\ research' = [research EXCEPT ![wsReq[q].at] = "DRAFT"]
            /\ WsTo(q, [wsReq[q] EXCEPT !.pc = "enqueue"])
       ELSE UNCHANGED research /\ WsLeave(q)
    /\ UNCHANGED <<domainVars, bulk, item, ended>>

\* enqueue refuses a research that is gone or that has an active job, which somebody
\* else may have given it by now.
EnqueueLaunched(q) ==
    /\ wsReq[q].pc = "enqueue"
    /\ IF research[wsReq[q].at] \notin {"deleted", "ACTIVE"}
       THEN /\ research' = [research EXCEPT ![wsReq[q].at] = "ACTIVE"]
            /\ WsTo(q, [wsReq[q] EXCEPT !.pc = "record"])
       ELSE UNCHANGED research /\ WsLeave(q)
    /\ UNCHANGED <<domainVars, bulk, item, ended>>

ReadAfter(items) == [pc |-> "items", stored |-> items, seen |-> items]

\* After the last target the progress is read as get_bulk_run reads it.
AddItem(q) ==
    /\ wsReq[q].pc = "record"
    /\ IF bulk = "kept"
       THEN /\ item' = [item EXCEPT ![wsReq[q].at] = "PENDING"]
            /\ WsTo(q, IF wsReq[q].at < Total THEN [pc |-> "launch", at |-> wsReq[q].at + 1]
                       ELSE ReadAfter(item'))
       ELSE UNCHANGED item /\ WsLeave(q)
    /\ UNCHANGED <<domainVars, bulk, research, ended>>

ReadBulkRun(q) ==
    /\ WsBegins(q) /\ bulk = "kept"
    /\ WsTo(q, ReadAfter(item))
    /\ UNCHANGED <<domainVars, bulkVars>>

\* A research that was deleted has no status: its item keeps the state it had.
ReadStatuses(q) ==
    /\ wsReq[q].pc = "items"
    /\ WsTo(q, [wsReq[q] EXCEPT !.pc = "states",
                                !.seen = [t \in Targets |->
                                            IF @[t] = "none" \/ research[t] = "deleted" THEN @[t]
                                            ELSE Ends(research[t])]])
    /\ UNCHANGED <<domainVars, bulkVars>>

Finished(seen) == {t \in Targets : seen[t] \in {"COMPLETED", "FAILED"}}
\* progress_percent counts against the targets that were asked for.
Full(seen) == Cardinality(Finished(seen)) = Total

\* What changed is written, if its rows are still there, and the progress answered.
SyncItems(q) ==
    /\ wsReq[q].pc = "states"
    /\ LET changed == {t \in Targets : wsReq[q].seen[t] # wsReq[q].stored[t]}
       IN  IF \A t \in changed : item[t] # "none"
           THEN /\ item' = [t \in Targets |-> IF t \in changed THEN wsReq[q].seen[t] ELSE item[t]]
                /\ WsTo(q, [pc |-> "answered", full |-> Full(wsReq[q].seen)])
           ELSE UNCHANGED item /\ WsLeave(q)
    /\ UNCHANGED <<domainVars, bulk, research, ended>>

AnswerBulkRun(q) ==
    /\ wsReq[q].pc = "answered"
    /\ WsLeave(q)
    /\ UNCHANGED <<domainVars, bulkVars>>

\* The queue and its callers: a research ends, is archived, enqueued again, deleted.
ResearchMoves(t, status) ==
    /\ \/ research[t] = "ACTIVE" /\ status \in {"COMPLETED", "FAILED"}
       \/ research[t] \in ResearchStatus /\ status \in {"ARCHIVED", "deleted"}
       \/ research[t] \in ResearchStatus \ {"ACTIVE"} /\ status = "ACTIVE"
    /\ research' = [research EXCEPT ![t] = status]
    /\ ended' = [ended EXCEPT ![t] = @ \cup ({Ends(status)} \ {"PENDING"})]
    /\ UNCHANGED <<domainVars, bulk, item, wsReq>>

\* A request dies between two commits.
WsRequestDies(q) ==
    /\ wsReq[q].pc \in {"importing", "launch", "enqueue", "record"}
    /\ WsLeave(q)
    /\ UNCHANGED <<domainVars, bulkVars>>

WorkspaceNext ==
    \/ CreateProject
    \/ DeleteProject
    \/ \E i \in DOMAIN domain : DeleteDomain(i)
    \/ \E t \in Targets, status \in ResearchStatus \cup {"deleted"} : ResearchMoves(t, status)
    \/ \E q \in WsRequests :
        \/ \E host \in Hosts, primary \in BOOLEAN :
            \/ CreateDomain(q, host, primary)
            \/ ChangeDomain(q, [host |-> host, primary |-> primary])
        \/ ListToDemote(q)
        \/ PlaceDomain(q)
        \/ \E i \in DOMAIN domain : LoadDomain(q, i)
        \/ \E payload \in Payloads : ImportDomains(q, payload)
        \/ ImportOne(q)
        \/ CreateBulkRun(q)
        \/ LaunchResearch(q)
        \/ EnqueueLaunched(q)
        \/ AddItem(q)
        \/ ReadBulkRun(q)
        \/ ReadStatuses(q)
        \/ SyncItems(q)
        \/ AnswerBulkRun(q)
        \/ WsRequestDies(q)

-----------------------------------------------------------------------------
(***************************************************************************)
(* Properties                                                              *)
(***************************************************************************)
\* DomainRepository.save and create_domain, _read_bulk_run and create_bulk_run: the
\* domains of a project have at most one primary one and distinct hosts, whoever
\* creates, changes and imports them at once; and the report that a bulk run is
\* finished, or the state of an item, is never ahead of the researches: each target
\* was launched and its research came to the end that is stored.
ProjectConsistent ==
    /\ Cardinality(PrimariesIn(domain)) <= 1
    /\ Cardinality({domain[i].host : i \in LiveIn(domain)}) = Cardinality(LiveIn(domain))
    /\ \A t \in Targets :
        /\ item[t] # "none" => research[t] \notin {"none", "DRAFT"}
        /\ item[t] \in {"COMPLETED", "FAILED"} => item[t] \in ended[t]
    /\ \A q \in WsRequests :
        wsReq[q].pc = "answered" /\ wsReq[q].full => \A t \in Targets : ended[t] # {}

\* DomainRepository.save: a domain that is stored becomes the primary one only where
\* the project has none; the mark moves only to a domain that is new.
MarkMovesToNew ==
    [][\A i \in LiveIn(domain) :
        ~domain[i].primary /\ domain'[i].primary => PrimariesIn(domain) = {}]_workspaceVars

\* ProjectConsistent and MarkMovesToNew together: a project's domains, their mark and its
\* bulk runs agree with one another (workspace/service.py).
ProjectKept == []ProjectConsistent /\ MarkMovesToNew

===============================================================================
