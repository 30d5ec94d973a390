--------------------------- MODULE ProjectMonitoring ---------------------------
(***************************************************************************)
(* The monitor of a project, one row of project_monitors, and the schedule *)
(* it stands for, a row of schedules that it refers to by an id without a  *)
(* foreign key.  The two are written by two commits of one session, so     *)
(* requests interleave and may die between them; /schedules and the        *)
(* deletion of a project change one of the two alone.                      *)
(*                                                                         *)
(* The frequency, models and query of a request stand together as its plan. *)
(* Whether the template research belongs to the project is checked before  *)
(* anything is read or written and is left out, as are the next run times. *)
(***************************************************************************)
EXTENDS Naturals, Sequences, FiniteSets

CONSTANTS MonitorRequests,  \* requests in progress at once
          Projects,
          Cadences,         \* what a schedule may be asked to do
          MaxSchedules      \* bound on schedules

ASSUME MonitoringAssumption == IsFiniteSet(MonitorRequests) /\ MaxSchedules \in Nat

VARIABLES projectRow,       \* rows of workspace_projects
          schedule,         \* table schedules, by id
          monitor,          \* table project_monitors, by project, which is unique
          monitorReq,       \* requests in progress
          forsaken,         \* per project, times that a schedule made for it lost its monitor
          torn,             \* projects with a write to one of the two that the other may lack
          crossed           \* requests during which something else touched what they write

monitoringVars == <<projectRow, schedule, monitor, monitorReq, forsaken, torn, crossed>>

ScheduleIds == 1..MaxSchedules
NoSchedule == [for |-> "NONE"]
Settings == [plan : Cadences, enabled : BOOLEAN]
\* for: the project whose name the schedule bears; those of POST /schedules concern nobody here.
ScheduleRow == [for : Projects, set : Settings]
NoMonitor == [schedule |-> 0]
MonitorRow == [schedule : ScheduleIds, set : Settings]
NoMonitorRequest == [pc |-> "idle"]
MonitorRequest ==
    [pc : {"found", "scheduled"}, kind : {"upsert", "delete"}, project : Projects,
     row : {NoMonitor} \cup MonitorRow, id : 0..MaxSchedules, set : Settings]

MonitoringTypeOK ==
    /\ projectRow \subseteq Projects
    /\ schedule \in Seq({NoSchedule} \cup ScheduleRow) /\ Len(schedule) <= MaxSchedules
    /\ monitor \in [Projects -> {NoMonitor} \cup MonitorRow]
    /\ monitorReq \in [MonitorRequests -> {NoMonitorRequest} \cup MonitorRequest]
    /\ forsaken \in [Projects -> Nat]
    /\ torn \subseteq Projects /\ crossed \subseteq MonitorRequests

MonitoringInit ==
    /\ projectRow = Projects
    /\ schedule = <<>>
    /\ monitor = [p \in Projects |-> NoMonitor]
    /\ monitorReq = [q \in MonitorRequests |-> NoMonitorRequest]
    /\ forsaken = [p \in Projects |-> 0]
    /\ torn = {} /\ crossed = {}

LiveSchedules == {s \in DOMAIN schedule : schedule[s] # NoSchedule}
Between(q, kind, pc) == monitorReq[q].pc = pc /\ monitorReq[q].kind = kind
RequestEnds(q) == monitorReq' = [monitorReq EXCEPT ![q] = NoMonitorRequest]
Forsakes(p, lost) == forsaken' = [forsaken EXCEPT ![p] = IF lost THEN @ + 1 ELSE @]

UnderWay(p) == {q \in MonitorRequests :
                   monitorReq[q] # NoMonitorRequest /\ monitorReq[q].project = p}
Tears(P) == torn' = torn \cup P
Crosses(P) == Tears(P) /\ crossed' = crossed \cup UNION {UnderWay(p) : p \in P}

FindMonitor(q, kind, p, set) ==
    /\ monitorReq[q] = NoMonitorRequest
    /\ p \in projectRow
    /\ monitorReq' = [monitorReq EXCEPT ![q] =
           [pc |-> "found", kind |-> kind, project |-> p, row |-> monitor[p],
            id |-> 0, set |-> set]]
    /\ torn' = IF UnderWay(p) = {} THEN torn ELSE torn \cup {p}
    /\ crossed' = IF UnderWay(p) = {} THEN crossed \ {q} ELSE crossed \cup UnderWay(p) \cup {q}
    /\ UNCHANGED <<projectRow, schedule, monitor, forsaken>>

Updates_Never(q) == FALSE
Updates(q) == monitorReq[q].row # NoMonitor

Scheduled(q, id) ==
    monitorReq' = [monitorReq EXCEPT ![q].pc = "scheduled", ![q].id = id]

CreateScheduled(q) ==
    /\ Between(q, "upsert", "found") /\ ~Updates(q)
    /\ Len(schedule) < MaxSchedules
    /\ schedule' = Append(schedule, [for |-> monitorReq[q].project, set |-> monitorReq[q].set])
    /\ Scheduled(q, Len(schedule) + 1)
    /\ UNCHANGED <<projectRow, monitor, forsaken, torn, crossed>>

UpdateScheduled(q) ==
    LET s == monitorReq[q].row.schedule
    IN  /\ Between(q, "upsert", "found") /\ Updates(q)
        /\ IF schedule[s] = NoSchedule
           THEN RequestEnds(q) /\ UNCHANGED schedule
           ELSE /\ schedule' = [schedule EXCEPT ![s] = [@ EXCEPT !.set = monitorReq[q].set]]
                /\ Scheduled(q, s)
        /\ UNCHANGED <<projectRow, monitor, forsaken, torn, crossed>>

\* What an update writes: the columns that differ from the row the request read.
SavedMonitor(r) == LET was == r.row.set  now == monitor[r.project].set
            IN  [plan |-> IF r.set.plan = was.plan THEN now.plan ELSE r.set.plan,
                 enabled |-> IF r.set.enabled = was.enabled THEN now.enabled ELSE r.set.enabled]

\* The insert meets the project's foreign key and its unique monitor, the update the
\* row it changes.
SaveMonitor(q) ==
    LET r == monitorReq[q]
        stored == IF r.row # NoMonitor THEN monitor[r.project].schedule = r.row.schedule
                  ELSE r.project \in projectRow /\ monitor[r.project] = NoMonitor
        row == IF r.row # NoMonitor THEN [schedule |-> r.row.schedule, set |-> SavedMonitor(r)]
               ELSE [schedule |-> r.id, set |-> r.set]
    IN  /\ Between(q, "upsert", "scheduled")
        /\ IF stored
           THEN /\ monitor' = [monitor EXCEPT ![r.project] = row]
                /\ torn' = IF q \in crossed THEN torn ELSE torn \ {r.project}
                /\ UNCHANGED forsaken
           ELSE Forsakes(r.project, r.row = NoMonitor) /\ Tears({r.project}) /\ UNCHANGED monitor
        /\ RequestEnds(q)
        /\ UNCHANGED <<projectRow, schedule, crossed>>

DropSchedule(q) ==
    LET s == monitorReq[q].row.schedule
    IN  /\ Between(q, "delete", "found")
        /\ IF schedule[s] = NoSchedule
           THEN RequestEnds(q) /\ UNCHANGED schedule
           ELSE schedule' = [schedule EXCEPT ![s] = NoSchedule] /\ Scheduled(q, s)
        /\ UNCHANGED <<projectRow, monitor, forsaken, torn, crossed>>

DropMonitor(q) ==
    LET r == monitorReq[q]
    IN  /\ Between(q, "delete", "scheduled")
        /\ monitor' = IF monitor[r.project].schedule = r.row.schedule
                      THEN [monitor EXCEPT ![r.project] = NoMonitor] ELSE monitor
        /\ RequestEnds(q)
        /\ UNCHANGED <<projectRow, schedule, forsaken, torn, crossed>>

MonitorDies(q) ==
    /\ monitorReq[q] # NoMonitorRequest
    /\ IF monitorReq[q].pc = "scheduled"
       THEN /\ Tears({monitorReq[q].project})
            /\ Forsakes(monitorReq[q].project, monitorReq[q].row = NoMonitor)
       ELSE UNCHANGED <<torn, forsaken>>
    /\ RequestEnds(q)
    /\ UNCHANGED <<projectRow, schedule, monitor, crossed>>

\* DELETE /workspace/projects/{id}: the monitor goes with its project, the schedule stays.
ForgetProject(p) ==
    /\ p \in projectRow
    /\ projectRow' = projectRow \ {p}
    /\ monitor' = [monitor EXCEPT ![p] = NoMonitor]
    /\ Forsakes(p, monitor[p] # NoMonitor)
    /\ Crosses({p})
    /\ UNCHANGED <<schedule, monitorReq>>

\* /schedules knows nothing of monitors.
Touches(s) ==
    {p \in Projects : \/ monitor[p].schedule = s
                      \/ \E q \in UnderWay(p) :
                             s \in {monitorReq[q].id, monitorReq[q].row.schedule}}

EditSchedule(s, row) ==
    /\ s \in LiveSchedules
    /\ schedule' = [schedule EXCEPT ![s] = row]
    /\ Crosses(Touches(s))
    /\ UNCHANGED <<projectRow, monitor, monitorReq, forsaken>>

PatchSchedule(s, set) == s \in LiveSchedules /\ EditSchedule(s, [schedule[s] EXCEPT !.set = set])
DeleteSchedule(s) == EditSchedule(s, NoSchedule)

MonitoringNext ==
    \/ \E q \in MonitorRequests :
           \/ \E p \in Projects, set \in Settings : FindMonitor(q, "upsert", p, set)
           \/ \E p \in {p \in Projects : monitor[p] # NoMonitor} :
                  FindMonitor(q, "delete", p, monitor[p].set)
           \/ CreateScheduled(q) \/ UpdateScheduled(q) \/ SaveMonitor(q)
           \/ DropSchedule(q) \/ DropMonitor(q) \/ MonitorDies(q)
    \/ \E p \in Projects : ForgetProject(p)
    \/ \E s \in DOMAIN schedule :
           (\E set \in Settings : PatchSchedule(s, set)) \/ DeleteSchedule(s)

--------------------------------------------------------------------------------

\* Of the schedules that upserts made for a project at most one is its monitor's, each
\* other one belongs to an upsert about to commit its monitor or was left by an upsert
\* that failed there or died, or by the project's deletion (project_monitoring/service.py:
\* 54-76): retries and races repeat the monitored research no more often than that.
SchedulesAccounted ==
    \A p \in Projects :
        Cardinality({s \in LiveSchedules : schedule[s].for = p /\ monitor[p].schedule # s})
          <= forsaken[p] + Cardinality({q \in MonitorRequests :
                 /\ Between(q, "upsert", "scheduled")
                 /\ monitorReq[q].row = NoMonitor /\ monitorReq[q].project = p})

\* A monitor shows the schedule it stands for, existing, enabled as shown and with the
\* plan shown, from each upsert that completes with nothing crossing it until a request
\* dies between its commits or fails there, requests of the project overlap, or /schedules
\* or a deletion changes one of the two alone (service.py:70-84).
MonitorShowsSchedule ==
    \A p \in Projects \ torn :
        monitor[p] # NoMonitor /\ UnderWay(p) = {}
            => /\ schedule[monitor[p].schedule] # NoSchedule
               /\ schedule[monitor[p].schedule].set = monitor[p].set

\* The schedules behind the monitors are the ones that exist, one for each, as far as two
\* commits without a transaction around them can tell (service.py:40-84).
MonitorsScheduled == SchedulesAccounted /\ MonitorShowsSchedule

================================================================================
