# AI Ranking OS: formal models

TLA+ models of AI Ranking OS, checked with TLC on small instances and, for the
results that matter most, proved with TLAPS for every value of the constants.

The program is a Python monolith: FastAPI routers over SQLAlchemy services and
PostgreSQL. It runs as two uvicorn processes, whose synchronous endpoints run in
thread pools, and one research worker process (`infra/`). Nearly every hard
question about it has the same shape: *several sessions read rows, think, and
write them back at READ COMMITTED*. Three facts shape all modules:

- sessions are created with `expire_on_commit=False` (`backend/app/database.py:25`),
  so a row stays in memory as it was read, across the session's own commits;
- a `SELECT ... FOR UPDATE` holds its locks until the *first* commit or rollback
  of the session, not until the end of the service call;
- what really excludes two sessions is a partial unique index or a row lock,
  hardly ever the test the Python code makes first.

One action of a module is therefore one transaction, or one read whose result a
later transaction of the same session uses.


## 1. Inventory

The modelled components; `PROJECT.json` lists all components with their files.

### Tasks, agents and executions: Decision Center and Execution Engine

*Source:* `decision_center/`, `execution_engine/`. *State:* tables `tasks`,
`agents`, `executions`; the copies of their rows in every open session.
*Operations:* create, patch, assign and complete a task; create an agent; start
an execution (pick or name a READY task, match an idle compatible agent, commit
the assignment, run with up to three retries); cancel an execution.
*Interactions:* the research run creates tasks and starts executions; clients
call the same endpoints.
*Hard:* the select, the match and the commit are separate statements; a run
writes states from memory for as long as the adapter takes, while a cancellation
may already have handed task and agent on; nothing resumes a run that died.
*Correct when:* executions are exclusive per task and per agent, an agent owns
one task in progress, assignments fit, outcomes are final, a failure comes after
all attempts, an active execution has exactly one driver, and it ends.

### Scheduler and project monitoring

*Source:* `scheduler/`, `project_monitoring/`. *State:* tables `schedules`,
`schedule_executions`, `project_monitors`; the due schedules a request of
`POST /schedules/run` has read, and its row locks. *Operations:* create, update
(retime, enable), delete, `run_due` with `_claim` and `_execute`; upsert and
delete of a project's monitor, which owns a schedule. *Interactions:* a cron job
outside the program calls `run_due`; an adapter launches research synchronously.
*Hard:* the first commit of `run_due` drops the locks on all the other due
schedules, which stay in memory; deleting and retiming while a slot runs; an
index conflict rolls back and expires everything; a crash leaves RUNNING; the
monitor and its schedule are two commits without a foreign key.
*Correct when:* one execution of a schedule runs at a time, slots are run in
order and once, every request ends, and schedules and monitors match.

### LLM router

*Source:* `backend/app/llm_router/`. *State:* policies, reservations (unique per
correlation id), cost log; models with their circuits and versions. *Operations:*
edit a policy, `decide` (select, reserve), `generate` (decide, execute, settle,
log the actual cost); seed, create, update and delete models. *Interactions:*
calls the query executor; everything that asks a model calls it.
*Hard:* budgets are copied before the policy row is locked; sums are read in
four statements; settlement and cost log are two commits; reservations expire;
every request to the registry seeds it, beside deletions and creations.
*Correct when:* live reservations stay within the budget, a plan stays within
its reservation, a correlation id is executed once, costs are logged once,
truthfully, for settled reservations, and a registered model is complete.

### Query executor and providers

*Source:* `query_executor/`, `backend/app/providers/`. *State:* execution history
rows; step results in memory; a registry of cancellation events in each process;
limiters and a response cache; two caches of readiness. *Operations:* run a plan
(SINGLE, FALLBACK, or PARALLEL, ENSEMBLE, CONSENSUS on a pool of eight), with
retries and timeouts per step; cancel; a call of an adapter through cache,
limiter and transport; a probe. *Interactions:* called by the router and by
clients. *Hard:* a cancellation arrives at any moment and at any process; a
timed-out call keeps running; a fallback is left halfway; plans are refused and
commits fail after RUNNING was stored; limiters read the time before their lock;
permits have to come back from every way a call may end; probes overlap.
*Correct when:* the outcome follows from the steps, providers are not skipped,
the registry and the permits do not leak, rates are kept, cached answers and
verdicts are recent, a set event is heard, every run and call ends.

### Research and what is derived from it

*Source:* `research/`, `product/`, `change_detection/`, `notification_center/`
and the seven engines the product pipeline calls; `baseline/`, `graph_search/`.
*State:* jobs, researches, responses, scores; what engines store; notices;
baselines with their snapshots and regressions. *Operations:* enqueue, take and
run a job; a run by the API; extraction and scoring; the wizard's pipeline; the
comparison with the research before; setting and evaluating a baseline; a search
in the knowledge graph. *Interactions:* the run uses tasks and executions, the
scheduler and the wizard start runs, the pipeline notifies.
*Hard:* no unique index on active jobs; a dead worker leaves RUNNING; statuses
are written from memory; scores are inserted by two runs; the pipeline commits in
a dozen transactions without resumption; updates and evaluations overlap.
*Correct when:* no job is taken twice, a job's verdict is what its answers
deserve, a ready research is scored, a report is announced once and whole, and
what a baseline records was so compared.

### Records of people: authentication, beta, keys, links, organizations, roles

*Source:* `authentication/`, `closed_beta/`, `apikeys/`, `report_sharing/`,
`organization_workspace/`, `rbac/`. *State:* sessions, users, invitations, keys,
links, memberships, roles and their parents. *Operations:* login, refresh,
logout; invite, resend, revoke, accept; create, rotate, revoke, use a credential;
join, leave, promote, switch; edit roles, check access. *Interactions:*
acceptance of an invitation writes into three components.
*Hard:* every rotation and acceptance takes several commits, and tests are made
without a lock. *Correct when:* what was revoked or replaced opens nothing, an
owner is not left without a key, partial work does not pass for complete, a
report is seen on the record, limits, defaults and inheritance hold as far as
the requests do not overlap.

### Workspace and cache

*Source:* `workspace/`, `cache/`, `hardening/`. *State:* domains and bulk runs of
a project; a value in Redis and in the memory of a process; the circuit breaker.
*Operations:* create, change, delete, import domains; launch and read a bulk run;
get, set, delete. *Hard:* `save` demotes other primaries after autoflushing;
imports commit item by item; states are read and stored in different statements;
Redis comes and goes between the halves of an operation. *Correct when:* a
project has at most one primary domain, a bulk run's items are never ahead of
their researches, and a value that was deleted for good or has expired is not
served.

### Database schema

*Source:* `backend/alembic/`, all `models.py`. *State:* the schema and its
version stamp. *Operations:* each operation of the upgrade and downgrade of 71
revisions; commands that several containers run at once. *Correct when:* the
stamp tells the schema, upgrades do not fail by themselves and break no image in
service, and head is what the models declare.

### Not modelled, and why

| Component | Reason |
|---|---|
| Router selection, AI visibility, influence | floating-point scores over rows read once; the selection is an arbitrary input of `RouterBudget` |
| The router's persisted circuit breaker | nothing but tests calls `record_success` and `record_failure` |
| API rate limiter | one bucket or window per process under one lock; the provider limiter, the same algorithm, is modelled |
| Alert engine | rows are appended; nothing decides on them |
| Recurrence (`scheduler/engine.py:42`) | calendar and cron arithmetic over dates; the scheduler's module counts slots |
| Entity extraction and linking, relationship discovery, query intent, reason engine | text patterns and string similarity |
| Segmentation, product analytics, report center, cost analytics, observability, model benchmark and evaluation, provider discovery and registry, export | pure reports over rows they only read |
| Audit, retention, feedback, monitoring, settings, competitors, favourites | single transactions nothing else decides on |
| Front end, deployment | they fix the inputs and the number of processes |


## 2. Modules

| Module | Role |
|---|---|
| `TaskExecution` | tasks, agents, executions and the sessions that change them |
| `AgentLease` | abstract specification: agents are leased to tasks, one to one |
| `ScheduledResearch` | schedules, their executions, requests of `run_due` |
| `ProjectMonitoring` | monitors and their schedules |
| `RouterBudget` | policies, reservations, costs, requests of the router |
| `ModelRegistry` | models, circuits, versions, seeding |
| `PlanContract` | what `execute_plan` promises its callers |
| `QueryExecution` | the executor, its steps, cancellation, the registries |
| `ProviderCalls`, `ProviderReadiness` | adapters with limiter, cache and transport; probes and their two caches |
| `ResearchRun` | queue, workers and runs of one research, responses and score |
| `ProductReports` | the wizard's pipeline, change detection, notices |
| `Baseline` | baselines, snapshots, evaluations, regressions |
| `GraphTraversal` | breadth-first search against a reference definition |
| `Workspace` | domains and bulk runs of a project |
| `ResilientCache` | memory, Redis and the circuit breaker between them |
| `Sessions`, `Invitations`, `ApiKeys`, `SharedReports`, `Organizations`, `RoleGraph` | the records of people |
| `SchemaOperations`, `SchemaRevisions`, `DeclaredModels`, `SchemaMigration` | DDL; the 71 revisions; the tables the models declare; commands that run them |
| `SchemaStages` | what each revision does alone: facts TLC evaluates and the proofs use |
| `Credentials` | `Sessions` and `ApiKeys` side by side: what a caller may present |
| `TaskExecutionProofs`, `ScheduledResearchProofs`, `RouterBudgetProofs` | theorems about the module of that name |
| `ServicesProofs` | theorems about `QueryExecution`, `ProviderCalls`, `ResearchRun`, and the three side by side |
| `WorkspaceProofs` | theorems about `Workspace`, `ProjectMonitoring`, `Baseline` |
| `SetupProofs` | theorems about `ModelRegistry`, `ProviderReadiness`, `ProductReports`, `ResilientCache`, `GraphTraversal`, and everything of the run `setup` side by side |
| `AccessProofs` | theorems about `Sessions`, `ApiKeys`, `Invitations`, `SharedReports`, `Organizations`, `RoleGraph`, `SchemaMigration`, and everything of the run `records` side by side |
| `SumTheorems` | lemmas about sums over finite sets |
| `MC...` | the values the constants have in the runs, and what runs side by side |

`PROJECT.json` maps each definition to the lines it stands for. Rows are records
in functions from ids; a request in progress is a record whose `pc` names the
commit or the read that comes next, and `Die`-like actions end a request between
any two. Variables marked *history* in their declarations remember what a
property needs and no guard reads.

### TaskExecution

`task`, `agent` and `execution` are the tables; `session[s]` is what a session
holds in memory and, through `pc`, where it stands:

    LoadTask -> UpdateTask | AssignTask | CompleteTask          (edits)
    LoadExecution -> LoadExecutionTask -> CancelExecution       (cancellation)
    SelectReadyTask | SelectTask -> ScheduleExecution           (scheduling)
      -> RefreshExecution -> StartRunning -> AttemptFailed* ->
         FailExecution | CompleteExecution                      (running)

`Merge` is the mapper's UPDATE: a column is written only if the session changed
it. A commit waits for rows that another session locked (`TaskLocked`,
`AgentLocked`) and is refused by the three partial unique indexes (`TaskFree`,
`AgentFree`, `RowFits`); a refusal rolls the transaction back. `Crash` ends a
session; `abandoned` is a history variable that remembers its execution. Task
ids are ordered as the rows were created. An adapter call is a choice between
success and failure. Sprints, projects and log rows are left out: no decision
reads them.

`LeaseOf` maps the rows to `AgentLease`: the lease of an agent is the task of
its active execution. Cancellations by stale sessions are leases returned,
reactivated rows are leases granted again; the abstract module only demands
that no two agents ever hold the same task.

### ScheduledResearch and ProjectMonitoring

Time is counted in periods of the schedule, so the slot after `n` is `n + 1`
and the calendar drops out; a slot is what `next_run_at` identifies. A worker is
one call of `run_due`: `RunDue` reads and locks the due rows, `CheckActive` and
`Claim` are the two halves of `_claim` for the head of its queue, `Launch` is
one attempt of the launcher, `Finish` the commit of `_execute`. `seen` is
`next_run_at` as the worker remembers it. `Claim` empties `locks`, because a
commit ends the transaction; `ClaimConflict` also forgets everything `seen`,
because a rollback expires rows. An execution that was deleted with its schedule
stays in the table as DELETED, so ids are not reused.

In `ProjectMonitoring` an upsert is `FindMonitor`, then `CreateScheduled` or
`UpdateScheduled` (the scheduler's commit), then `SaveMonitor`; a deletion is
`FindMonitor`, `DropSchedule`, `DropMonitor`. `PatchSchedule`, `DeleteSchedule`
(requests to `/schedules`) and `ForgetProject` change one side alone. `forsaken`,
`torn` and `crossed` remember where the two commits came apart, and the
properties say that they come apart nowhere else. The executions of the
schedules belong to `ScheduledResearch`: the two modules share the table
`schedules`, of which each keeps the columns it is about.

### RouterBudget, PlanContract, QueryExecution and ModelRegistry

A router request is `Select`, `LockPolicy`, four `ReadSpent`, `Reserve` or
`Reject`, `Execute`, `Settle`, `LogActual`. `Rankings` are the results
`select_models` may return. Costs are small numbers; `paid` and `ceiling` are
history variables. Requests under one policy wait for its row from
`LockPolicy` to the commit.

`Execute` does not contain the executor. It assumes `Delivers` of `PlanContract`
about which steps answered and whether the execution counts as COMPLETED, and
the run `services_work` checks as part of `PlansKept` (`ContractKept`) that
`QueryExecution` guarantees just that for every execution that was not
cancelled. `generate` calls `execute_plan` without a cancellation event, and its
plans are valid because `route` builds them, so nothing is lost between the two:
this is how the two modules compose.

In `QueryExecution` a step is waiting, checking the event, or dispatching, until
it has a result. `MayStart` is the pool for concurrent modes and the sequence
for the others; `Collect` computes the outcome; `Persist` overwrites the row;
`Abort` is an exception on the way. `active` has one set per server process; a
cancellation reads, signals and commits in three actions, at a server of its
own. Backoff is the time between two `Check`s. The late answer of a call that
timed out is dropped by the code and by the model.

In `ModelRegistry` a request arrives (`RegArrive`), seeds as `ensure_seeded`
does (`ListModels`, a commit for each `SeedModel`, `ModelsSeeded`, `ListPolicies`,
`SeedPolicies`), and then creates, updates (`LoadModel`, `UpdateModel`) or
deletes (`FindCircuit`, `DeleteModel`). A model has two columns, enough for an
update to change one and keep a stale other.

### ProviderCalls and ProviderReadiness

A call is at a place: `Lookup` (the response cache), `Stamp` (the clock, read
before the limiter's lock), `Acquire`, `Prepare` (credentials and payload),
`Send` (one attempt of the transport), `Store`, `Release`; embeddings, streams
and the local adapter start at `Prepare`. Times are ticks, and a thread is held
up before the lock for at most `Skew` of them. `admitted` and `answeredAt` are
history: what the limiter let through in the last minute, less that skew, and
when the provider last answered a prompt. A readiness check reads the verdict,
probes unless a probe's outcome is cached, and stores; `probeEnded` is history.

### ResearchRun

One research: `job` and `research` are rows, `qworker[w]` is a worker process,
`study[r]` a run by a worker or an API request. `EnqueueCheck` and
`EnqueueCommit` are the two halves of `enqueue`; `LockNext` and `TakeJob` those
of `process_next`, then `RunJob`, `EndJob` or `FailJob`. A run goes `OpenRun`,
`ExecuteTask`, `ExtractResponse`, `Reload` per selection, then `CountResponses`,
`ReadResponses`, `LookForScore`, `WriteScore` and `FinishRun`. That a task is
executed is the business of `TaskExecution`; here its execution answers or does
not. `Disturbed` marks runs that another run of the same research overlapped.

### ProductReports, Baseline, GraphTraversal

`ProductReports` follows the brand's researches in order of creation: which
engines have committed something derived from each (`derived`), its row of
changes and its notices; each engine is one action. What the engines compute is
left out: only that they succeed or stop the pipeline. `Compare` and `SaveChange`
are the two halves of `detect`, which a request may repeat, and `PatchProduct`
the edit of a research. In `Baseline`, `Select`, `FindBaseline`, `SetBaseline` are
`set`; `LoadBaseline`, `LoadSnapshots`, `LoadCurrent`, `Evaluate` are `evaluate`,
which commits its regressions and a new snapshot at once. `GraphTraversal` has
one action, the body of the loop of `neighbors`, and chooses graph, depth and
direction initially; `Within` is the reference definition.

### Workspace and ResilientCache

A domain is created or changed in up to three steps: what `save` lists, the
autoflush that the listing causes (`FirstFlush`), and the commit with the
demotions; `SeenPrimary` is what the session's identity map makes of rows it has
loaded before. `Allowed` are the two unique indexes. An import repeats this item by
item in one session (`known`). A bulk run launches (`LaunchResearch`), enqueues
and stores an item per target, and its readers go `ReadBulkRun`, `ReadStatuses`,
`SyncItems`, `AnswerBulkRun`. In `ResilientCache` a thread acts on the memory
(`Local`), asks the breaker (`Gate`), asks Redis (`Succeeds`, `Fails`) and falls
back (`ReadFallback`); a value is the number of the set that wrote it.

### Sessions, Invitations, ApiKeys, SharedReports, Organizations, RoleGraph

Each has requests that arrive, test and commit, one action per commit. `late`
and `dead` mark requests that came in after the retirement of their credential
had been answered; `over` are families ended by a reuse and `shaken` those whose
refreshes overlapped; `renounced` are keys somebody asked to revoke; `crowded`,
`hurried` and `spoiled` mark organizations, users and invitations on which two
requests overlapped; `tangled` is set when two changes of parents did. These
history variables state exactly how far the code's tests without locks carry.
Expiry, passwords and scopes only ever refuse, and any request may be refused.
`Credentials` puts sessions and keys side by side and says of both that what was
replaced or revoked opens nothing any more.

### SchemaOperations, SchemaRevisions, DeclaredModels, SchemaMigration

A revision is a sequence of operations (`Up0001` ... `Down0071`, one definition
per function of a revision file), a schema a function from names to tables.
`SchemaOperations` says what PostgreSQL does with an operation and when it
refuses it. `SchemaMigration` runs commands: `Begin` reads the version, `Operate`
takes the next operation when no other transaction holds its tables, `Stamp`
updates the version, `Commit` merges, `Refused`, `Crash` and `DeadlockVictim` roll
back. `DeclaredModels` is what the ORM classes declare; `ModelsServed` compares.
PostgreSQL and Alembic themselves are external.

`SchemaStages` computes the schemas every upgrade and downgrade passes through
with nobody else at work, and states as assumptions what is true of each: an
upgrade arrives at the next version and a downgrade back at the one before with
nothing refused, an index name belongs to one table, no version lacks what an
earlier one offers, the newest has what the models declare. TLC evaluates them for
all 71 revisions whenever it runs `records`.


## 3. Runs

The services of `services_work`, the records of `records` and the parts of
`setup` share nothing they write: their steps commute, and every property speaks
about one of them. So a behaviour of these runs has a *focus*, chosen initially,
and steps of that part only; the run checks the union of the parts' behaviours,
not their product. A property `XKept` is a conjunction, whose parts are defined
and explained one by one in the module they belong to.

| Run | Properties | Instance |
|---|---|---|
| `task_exclusion` | TasksExclusive, ClaimsImplemented | 2 tasks, 2 agents with different skills, 2 executions, 2 sessions, a patch that takes a task and changes its skill |
| `task_retry` | TypeOK, RunsDriven, OutcomeNotRewritten, EveryActiveEnds | 1 task, 1 agent, 2 executions, 2 sessions, 1 retry, crashes, fairness |
| `schedules` | TypeOK, SchedulesExclusive, SlotsAscend, FailedAfterAllAttempts, EveryRequestEnds | 1 schedule, 3 requests, 3 executions and a clock to 2; or 2 schedules, 2 requests and 4 executions; 2 attempts, crashes, fairness |
| `router_edits` | TypeOK, BudgetKept, OneExecutionPerCorrelation, RejectedOnlyIfUnaffordable | 2 requests, 2 correlation ids, 2 models, a policy edited between FALLBACK and MULTI with different budgets, crashes |
| `router_days` | BudgetKept, LogFollowsSettlement, EveryRequestEnds | as above with one configuration and a clock over a day's end and a reservation's lifetime, fairness |
| `services_work` | ServicesTypeOK, PlansKept, ResearchSettled, LimiterKept, ServicesEnd, CachedIsRecent | an execution of 5 kinds of plan with up to 3 steps and 3 retries, pool of 2, 2 servers that die, 2 cancellations; a research queued by 2 requests, 2 workers, 2 runs, one death; 2 callers of one adapter, 2 prompts, windows of 2 requests and 3 tokens, one retry, a clock to 2; fairness |
| `records` | RecordsTypeOK, CredentialsRetired, InvitationsKept, LinksKept, RolesKept, SchemaKept, OrganizationsKept | 2 requests at a time to each component: 3 sessions, 2 invitations sent twice, 3 keys, 2 links with 2 views, 2 organizations with 3 users and a limit of 2, 3 roles; 2 commands over all 71 revisions |
| `setup` | SetupTypeOK, ReportHonest, RegistryWhole, MonitorsScheduled, BaselineRecorded, ReadinessRecent, TraversalExact, ProjectKept, ServedAlive | 2 requests at a time to each component: 3 domains and 2 targets, 2 researches, 1 model, 1 project with 3 schedules, 2 observations and 3 snapshots; 2 sets and 2 ticks of the cache; 4 instants of readiness; every graph of 4 entities of the kind described below |

- Two sessions, requests or workers are where races live: each needs one that
  read something and one that changes it. A second execution is needed for a
  task that was requeued, and the third request of `schedules` lets one commit
  while two others sit between test and claim.
- The three retries of the engine are reduced to one (`MaxRetries`), those of the
  transport likewise (`RetryBudget`): an attempt that may be repeated and one
  that may not are the only two kinds the loops tell apart. `services_work` uses
  the executor's real maximum of three for a single step.
- The executor has one execution because executions share nothing but the
  registry, which is keyed by their ids. A pool of 2 with 3 steps makes a step
  wait as the real pool of 8 does with up to 20. A research stands alone because
  jobs of different researches share the order of the queue only.
- `records` runs the commands a deployment has: from nothing to head, `ci.yml`'s way
  down to 0040 and up again, back to base, and every single revision up and down.
- The schedule's `Expired` and the bounds `MaxTime`, `Executions`, the
  constants named `Max...` and `Room` (no request starts unless ids are left for all that it may
  claim) only cut behaviours off.
- The MC modules cut further, each saying what: a behaviour of
  `MCSetup!WorkspaceMC` exercises the domains or the bulk runs and fails,
  archives or deletes the first target only; `ProductsMC` gives each research one
  score it may get and lets a patch end the first only; `BaselineMC` makes the
  observations first, one metric mirroring the other and the lowest 0, and leaves
  out the policy that never installs anything;
  the graphs have every edge between different entities other than into the root
  but for two, a self-loop and one way back; `MCServices!ProvidersMC` has one caller
  when it is not `generate`, and time stands still in mock mode; `ExecutorMC` has two
  cancellations at once only where an execution has at most two steps;
  `MCRecords!OrganizationsMC` exercises three people in one organization, or two in
  two, and `RolesMC` one access check at a time and no change begun when none may
  come any more.
- Symmetry is used over sessions, workers and requests, which are
  interchangeable, and never in a run with a liveness property.
- `CHECK_DEADLOCK FALSE` everywhere: ids run out and clients may stop, so the
  models may stop.

`setup` (1.6 million distinct states) is the largest and takes longest, before
`router_edits` (1.1 million) and `records` (850 thousand).

### Fairness

Nobody is obliged to send a request. A request that has started keeps running
until it ends or its process dies: weak fairness of a session's, worker's,
request's, run's or call's next step, in `services_work` under the condition that
it is in focus. Adapter and provider calls return or time out, threads and sleeps
end, and a worker process that ended is replaced by its supervisor. Where a
commit waits for a row lock that is released and taken again (`Claim` of the
scheduler, `LockPolicy` of the router) strong fairness is assumed: PostgreSQL
queues the waiters of a row. Crashes never have fairness. Task edits have none:
an edit may be given up. `records` and `setup` check safety only.

### Disagreements found

| Run | Property | What happens |
|---|---|---|
| `task_transitions` | TransitionsAllowed | `_set_state` (`execution_engine/service.py:76`) checks the transition on a stale copy: CANCELLED becomes RUNNING, or a finished execution CANCELLED |
| `schedule_duplicate` | SlotRunOnce | `_claim` (`scheduler/engine.py:161`) uses a slot read before its lock was lost, so a slot another request has completed runs again; scheduler/README.md:11 says FOR UPDATE SKIP LOCKED protects it |
| `router_settle_gap` | HardBudget | between settlement and cost log (`llm_router/service.py:35`) spending is in neither sum, and a request is admitted over budget |
| `router_ensemble_cost` | ActualCostLogged | collected outputs have no `usage` (`llm_router/service.py:41`), so ensembles cost nothing in the log |

HardBudget fails in a second way that has no run of its own: the sums span all
policies while the lock serializes one, so two requests under two policies can
reserve the same headroom.


## 4. Proofs

tlapm checks every leaf. The constants are arbitrary, within the named
assumptions of the modules (`EngineAssumption`, `SchedulerAssumption`,
`RouterAssumption`, `ExecutorAssumption`, `ProviderAssumption`,
`ResearchAssumption`, `SessionsAssumption`, `ApiKeysAssumption`,
`InvitationsAssumption`, `SharedReportsAssumption`, `OrganizationsAssumption`,
`RoleGraphAssumption`, `RegistryAssumption`, `ReadinessAssumption`,
`ProductAssumption`, `MonitoringAssumption`, `ScalesAssumption`,
`CacheAssumption`, `WorkspaceAssumption`, `TraversalAssumption`,
`CommandsAssumption`). They say that
bounds are numbers and that the requests of a behaviour are finitely many, that
plans have as many retry counts as steps, that a ranking names each model once,
that an import brings at least one domain (`workspace/schemas.py:142`), that the
entities of a graph are finitely many, and that the names for "nobody" are
nobody's name. The assumptions of `SchemaStages` are not about constants: they are
facts about the 71 revisions and the declared models, as they are written down,
which TLC evaluates at every run and a fold over a sequence keeps from the prover.

| Theorem | States |
|---|---|
| `TaskExecutionProofs!TypeCorrect` | TypeOK |
| `TaskExclusion`, `AgentExclusion`, `InProgressExclusion`, together `ThreeExclusions` | OneActivePerTask, OneActivePerAgent, OneInProgressPerAgent; TasksExclusive |
| `AssignmentMatches` | ClaimIsCompatible |
| `LeaseRefinement` | `Spec => LeasesImplemented`, i.e. TaskExecution implements AgentLease |
| `ClaimsRefinement` | ClaimsImplemented, the two above together |
| `RunsAreDriven` | RunsDriven: an active execution has a session that drives it, and FAILED comes after all attempts |
| `OutcomesStand` | OutcomeNotRewritten, an action property |
| `ScheduledResearchProofs!TypeCorrect` | TypeOK |
| `RunningExclusion`, `LauncherExclusion`, `RunningIsHeld`, together `SchedulesExclusion` | OneRunning, OneLauncher, RunningHasWorker; SchedulesExclusive |
| `FailureIsFinal` | FailedAfterAllAttempts |
| `SlotsInOrder` | SlotsAscend |
| `RouterBudgetProofs!TypeCorrect` | TypeOK |
| `ExecutionExclusion`, `LogIntegrity` | OneExecutionPerCorrelation, LogFollowsSettlement |
| `PolicyRowExclusion` | RowExclusive: one request holds a policy's row |
| `BudgetCorrect` | BudgetKept |
| `RejectionJustified` | RejectedOnlyIfUnaffordable, an action property |
| `ServicesProofs!TypeCorrect`, `PlansCorrect` | TypeOK; PlansKept, with the contract the router relies on |
| `ProviderTypeCorrect`, `LimiterHolds`, `CacheAnswersRecent` | ProviderTypeOK, LimiterKept; CachedIsRecent, an action property |
| `ResearchTypeCorrect`, `ResearchComesOut` | ResearchTypeOK, ResearchSettled |
| `ServicesTyped` | ServicesTypeOK, of the composition |
| `WorkspaceProofs!WorkspaceCorrect` | ProjectKept, an invariant and an action property |
| `MonitoringCorrect`, `BaselineCorrect` | MonitorsScheduled; BaselineRecorded |
| `SetupProofs!RegistryCorrect`, `ReadinessCorrect`, `ReportsAreHonest` | RegistryWhole; ReadinessRecent; ReportHonest |
| `CacheServesAlive` | ServedAlive, an action property |
| `TraversalCorrect` | TraversalExact |
| `SetupTyped` | SetupTypeOK, of the composition |
| `AccessProofs!CredentialsRetire` | CredentialsRetired |
| `InvitationsComplete` | InvitationsKept |
| `SharedReportsOnRecord` | LinksKept |
| `OrganizationsWhole` | OrganizationsKept |
| `RolesSound` | RolesKept |
| `ChangesLocked` | TypeOK of `SchemaMigration` |
| `SchemaIsKept` | SchemaKept, two invariants of the schema, one of refusals and an action property |
| `RecordsTyped` | RecordsTypeOK, of the composition |

In every module the argument is the same: an inductive invariant that says what
a request remembers of rows it no longer locks, one lemma per action (or one
per way in which a step can disturb the invariant, and one per action that it is
such a way), and PTL for the last step. What the invariants say:

*TaskExecution.* `TypeOK` needs `Bound`: a busy session and an execution refer to
existing rows, which is what the foreign keys guarantee. Given that, every step
writes at most one execution row, and a row it makes active has passed both
unique indexes (`RowStep`, one proof step per action), whatever the session
remembers; exclusion follows from `RowStep` alone, with no invariant about the
sessions' stale copies. The same is done for tasks (`TaskStep`). The refinement
uses exclusion: while an agent has at most one active execution, `LeaseOf` does
not depend on which one CHOOSE picks, and each step grants a lease, returns one,
or stutters.

*Assignments.* ClaimIsCompatible is about two rows at the moment of a commit,
and what makes it true is a lock taken earlier. `ClaimInv` says so: a session
that has claimed a task has it matched with an agent (`Matched` speaks of the
committed row, not of the session's copy), and no two sessions have claimed the
same task. `ClaimStep` is what a step may do to claims and to the rows under
them: nothing, write a row nobody has claimed, end a claim and write its row, or
make one. Every action is one of the four (`CommitEditClaims`, `FinishClaims`,
`NextClaimStep`), and `ClaimStep` keeps `ClaimInv` (`StepClaimInv`); a new
execution comes only from a session that has claimed (`NewExecution`).

*Drivers.* `DriveInv` follows one execution through the session that runs it:
there is one driver, an active execution that was not abandoned has it, a recorded outcome
has none, and between two commits only a cancellation can have changed the row
behind the driver's back (`DriverKnows`). That last part is why a stale copy
is harmless to the attempts it counts, although not to the transitions
(the finding `task_transitions`).

*ScheduledResearch.* OneLauncher says something about workers and the index
speaks about rows, so neither is inductive. `IInv` ties them together: a worker
that holds an execution holds a RUNNING or DELETED row (`HolderInv`), a DELETED
row belongs to a deleted schedule (`RowInv`), so that nothing new can be claimed
for it, and a RUNNING row has a live holder or was abandoned (`Held`).
`HolderInv` also says that a worker about to store FAILED is at its last
attempt, which gives FailedAfterAllAttempts.
*Slots.* With one schedule in the table `run_due` commits for the last time when
it has claimed it, so the row it read stays locked until the claim. `SlotInv` says
that (`QueueLocked`), that what was claimed lies behind the next slot and behind
the clock (`SlotsPast`), and from both that slots ascend; with two schedules the
lock is lost, which is the finding `schedule_duplicate`.

*RouterBudget.* `IInv` is `Shape /\ Progress /\ OneExecutionPerCorrelation /\
RowExclusive`: the fields the argument needs, with amounts left arbitrary; what
the rows of a correlation id say of the request that executes under it (reserved
until it settles, settled and unlogged until it logs, its output zero or what was
paid); and that one request holds a policy row. `BInv` adds the amounts: while a
request holds the row, the reservations of the policy are at most what it has
read of them (`ReadKept`, by the row lock: nobody else can add to them), and every
budget a request may still be using is below the highest the policy ever had
(`CeilingKept`). A reservation made under it therefore keeps the sum below that
ceiling. `AInv` is all of these with `PlanWithinReservation`.
For RejectedOnlyIfUnaffordable a rejection must have tried the cheapest plan: a
ranking can be arranged by cost, and the first `top_k` of that arrangement cost no
more than any other choice of as many (`CheapestPlan`).

*Sums.* `SumFunctionOnSet` is a fold over a set in the order CHOOSE gives, and the
library's induction theorems take an operator, which the installed provers cannot
instantiate. `SumTheorems` does without: a function that adds up all subsets is
built along the cardinality (`AddsUp`), with the least number, or a smallest
subset, that would be a counterexample in place of the induction step
(`NatLeast`, `SmallestBadSet`). From it follow that a sum does not depend on the
order, is additive over disjoint sets and monotone, and what becomes of it when
one summand changes; and that a finite set can be listed by cost, the first of
which cost least (`Arranges`, `CheapestFirst`).

*QueryExecution.* `IInv` is the type, `RegistryExact`, and for each execution
`Kept(e)`: what the place of the request, its result and its steps say of each other
(`RunShape`), that a step in its last state has used the attempts that state
needs (`StepShape`), that in a sequential mode no step starts before its
predecessor allows it (`InTurn`), and the contract itself (`Contracted`).

*ProviderCalls.* The limiter's window is in the time the threads read before
the lock, the history in real time. `WindowsKept` relates them: the history is, entry by entry, the end of the window, each entry admitted at most
`Skew` after its stamp (`Traces`), so what the window keeps within the limits bounds
what was admitted in any `Minute - Skew`. `PermitsAddUp` counts the callers that
hold a permit, and `CacheKept` says that an entry that has not expired was given
`ResponseTtl` before it does.

*ResearchRun.* ResearchSettled speaks of rows; `RInv` adds what is in memory: the
queue's rows belong to the worker that holds them (`QueueKept`, `WorkersKept`,
`RunsKept`), a run that had the research to itself knows its status
(`AloneKept`, `JudgedKept`), and whenever the research is ACTIVE or unscored
somebody is left who will write it (`ActiveKept`, `ScoreKept`: a job that waits or
a run that vouches). The number of jobs is bounded by counting the requests that have not
decided yet.

*Access.* `SessionsInv`: what was spent stays revoked, an ended family is empty and
nobody refreshes it (`OverKept`), and in a family whose refreshes never overlapped
the one live session is the token being refreshed or its replacement
(`LineKept`). `KeysInv`: a revoked key was renounced or has a successor. `InvitesInv`: what
a request has loaded of an invitation is still there or was replaced (`Loaded`),
what it has committed of the user stays (`MadeBy`), and it has the user to itself
(`MadeAlone`, `MadeFirst`), since the first of its four commits is the one the
unique index of users guards. `SharesInv`: each of the commits of a view is ahead of the
next one by the requests in between (`ViewsCounted`, an argument about
cardinalities), and a link once closed stays so (`LinkMarked`).
`OrgInv`: an organization is bare, or its founder owns it and no request is about to
write his row (`Bare`, `Founded`); a single acceptance between its count and its
insert still has the room it counted (`RoomKept`); an invitation in the hands of one
request has admitted nobody before that request joins (`AdmitsOne`); and a user has no
default membership while a request of his has tested that there is none or has
cleared them (`SettledKept`).
`RolesInv`: a walk has followed every edge of the roles it has read (`Followed`), so
that a change whose walk found no cycle adds parents from which its role cannot be
reached (`ChangeStands`), and such edges close none (`StaysHierarchy`). `Reach` is
stated as the least set that contains the roles one starts from and is closed under
the edges: all the proof uses is that it is closed and least (`ReachLeast`).

*Projects.* What ProjectKept says of the index holds because a flush is refused;
what it says of hosts is the unique constraint. The rest is about a bulk run: only one request
launches it, and `BulkRequestKept` says that this request has not come to the
targets behind the one it is at, so that what it stores of a target is never
ahead of a research, and that a reading request that is about to report the run
finished has seen every item finished. MarkMovesToNew follows from what a
request listed before it flushes.

*Monitors.* `MonitoringInv` accounts for every schedule: it is its monitor's, a
request that made it has yet to commit, or it is one of the `Orphans`, which are no
more than the requests that failed or died, and deletions of projects, have left.
A request that nothing crossed is alone with its project's monitor, which is as
it has read it (`Undisturbed`); so a monitor that nothing has torn shows its schedule
whenever no request is between its two commits (`MonitorKept`).

*Baselines.* `BaselineInv`: what a request carries was observed and the row it
compares with was snapshotted (`BaseRequestGrounded`), each snapshot taken for
BEST_VISIBILITY outdoes the one it names, and a regression belongs to the two
snapshots it names.

*Registry.* `RegistryInv` is RegistryTypeOK and RegistryWhole, arranged by table: it is
inductive as it stands, because a model, its circuit and its first version are
one commit, each later one writes row and version together, and a deletion takes the
circuit with the row.

*Readiness.* `ReadinessInv`: the verdict and the probe stored carry the moment their
probe ended at the latest (`ProbedSince`), although threads store them in any
order.

*Reports.* `ProductsInv`: a request at a statement has committed everything the
statements before it derive, rows only gain what is derived, one wizard run has
each research, and what a comparison refers to was stored before it and had
completed.

*Cache.* `CacheInv`: an entry, in memory or in Redis, outlives its set by no more
than a lifetime, and is of no value that a delete has removed for good
(`EntryAlive`); a delete that has emptied the memory finds there nothing of what
it deletes, since only sets that are under way write, and it deletes what sets that
had ended stored (`AccessKept`).

*Graph search.* `TraversalInv`: the queue goes outward by at most one step, what
is no farther than its head has been found, and at its distance (`QueueOK`,
`FrontierOK`, `DistanceOK`), and what has left the queue was followed
(`FollowedOK`). The reference `Within` is a recursive function; that there is one
is shown by building it round by round, with a least-number argument in place of
induction (`SomeRounds`, `AllNumbers`). `ById`, the order the code visits new
neighbours in, is a CHOOSE: that a finite set of numbers can be listed in order
is a lemma of its own.

*Migrations.* `TypeOK` of `SchemaMigration` says that what is not committed is locked.
It is inductive only with the direction of a command (`LocksNamed`): a table that a
transaction on its way up has locked exists, since no upgrade drops one; one that a
transaction on its way down has locked is still committed, since no downgrade
creates one. A table made and dropped in one transaction would be locked and
nowhere, and `RevisionsAssumption` says that none is.

SchemaKept is proved for any number of migrators, commands between any two
versions and failures anywhere, from the facts of `SchemaStages` about one revision
at a time. A command reads the version before it locks anything, so that other
migrators may go up, down and back while it runs; `Found` is the version it read,
`Reached` the schema where it would be by now if it were alone. `OnCourse` says
of each table it has locked: if what is committed there is as in `Found`, what
is live there is as in `Reached`. Every table is considered by itself, since the
rest of the schema may be any other version's. Whether it was as in `Found` is
settled when the command stamps its first revision: the row of versions must
still hold the version it read, and from then on nobody else can change it
(`StampIsFound`). At version 0 there is no row to find; there the first table
tells, which every version but 0 has (`FirstTable`). So a commit leaves a version
(`EndsOnCourse`). That nobody is refused whom no commit has overtaken needs more
of the tables others have locked: their foreign keys lead to tables locked by the
same migrator, or are committed, and index names are of their table
(`TableStands`); then what is legal alone is legal among others
(`LegalAmongOthers`). The rest of SchemaKept speaks of single versions.

*Only model-checked.* Liveness (EveryActiveEnds, EveryRequestEnds, ServicesEnd):
fairness and ENABLED are out of the prover's reach. What the recursive folds make
of the 71 revisions (the assumptions of `SchemaStages`) is computed by TLC. Every
invariant and action property of the passing runs is stated by a theorem.


## 5. Plan

In order of what fails worst when it is wrong.

1. `ResearchRun` composed with `TaskExecution` through `AgentLease`, so that the
   race of a run's tasks with `/execution/start` (`research/service.py:198`) is
   visible.
2. Cache tags, and the alert engine's seeding and evaluation.
3. `Recurrence`: the calendar of `scheduler/engine.py:42` as an algorithm against a
   reference definition.


## 6. Hazards no property covers

`PROJECT.json` lists the hazards with the properties that cover them. These
remain:

- a cancellation that arrives before the executor has registered the execution
  is lost, and the row it wrote is overwritten by RUNNING and by the outcome
  (`query_executor/service.py:189`); README.md:312 promises only cooperative
  cancellation, so this is behaviour of the model and not a property;
- the executor's registry and the API's rate limits are per process
  (`query_executor/service.py:36`, `rate_limit/backend.py:15`), and every
  dispatcher has provider limiters of its own;
- a refused plan or an outcome that cannot be stored leaves its row RUNNING;
- a call that timed out keeps running and may be charged while the next attempt
  runs (`query_executor/timeout.py:16`); costs of retries are not in the router's
  estimate; `/router/estimate`, `/plan` and `/route` reserve budget that nothing
  releases before it expires (`llm_router/api.py:89`);
- `complete_task` tests REVIEW on a stale row and may take a task from BACKLOG to
  DONE (`decision_center/service.py:192`; README.md:220 promises a mandatory
  REVIEW gate);
- a research run commits its tasks as READY before it starts them, so that
  `/execution/start` may claim one first (`research/service.py:198`);
- `next_run_at` clamps a monthly schedule's day to the month's length and goes on
  from the clamped day (`scheduler/engine.py:42`);
- the router's breaker counts failures without a lock and lets every request
  through while HALF_OPEN (`llm_router/circuit_breaker.py:31`, `:55`), should it
  ever be called; docs/Router.md:14 describes its cycle;
- a success that was under way when the in-memory breaker opened closes it
  (`hardening/service.py:56`), which is in the model and harms no property;
- a monitor whose schedule is gone can be neither updated nor deleted
  (`project_monitoring/service.py:54`, `:83`): a death between the two commits of
  its deletion leaves it so;
- a circuit left behind by a deletion that overlapped a creation makes every
  later seeding fail (`llm_router/registry.py`), and an active model of
  `providers.yaml` that was deleted comes back with the next request;
- two evaluations that overlap may install a worse baseline last, and a row's
  research need not be its newest snapshot's (`baseline/engine.py:42`);
- two comparisons of one research at once end the pipeline of one of them, and
  the report is never announced; an edit of the research's metadata during a run
  is lost (`product/service.py`);
- making a domain primary while another is always violates the index
  (`workspace/repository.py:157`), and two first requests of a user race to create
  the workspace (`:26`);
- entries deleted or set while Redis was down or by other processes come back from
  Redis or stay in a process's memory (`cache/resilient.py`), and a set between the
  two halves of an invalidation by tag is kept without its tag.

To check a module: `tlc -config X.cfg MCModule`; to check proofs:
`tlapm TaskExecutionProofs.tla`, and likewise the other modules with theorems
(`ServicesProofs`, `SetupProofs` and `AccessProofs` take longest).
