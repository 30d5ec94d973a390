--------------------------- MODULE TaskExecution ---------------------------
(***************************************************************************)
(* Decision Center and Execution Engine: tasks, agents and executions kept *)
(* in PostgreSQL and changed by concurrent request sessions.               *)
(*                                                                         *)
(* A session is one SQLAlchemy Session (one HTTP request, or the research  *)
(* worker).  Sessions are created with expire_on_commit=False, so the rows *)
(* a session has loaded stay in its memory across its own commits and go   *)
(* stale when another session commits.  One action is one transaction, or  *)
(* the read that a later transaction of the same session is based on;      *)
(* inside a transaction the effects are atomic, between two actions every  *)
(* other session may commit (READ COMMITTED).  The mapper emits an UPDATE  *)
(* only for a column whose new value differs from the value the session    *)
(* holds in memory.                                                        *)
(***************************************************************************)
EXTENDS Naturals, FiniteSets

CONSTANTS Tasks,           \* task ids that may be created, in id order
          Agents,          \* agent ids that may be created, in id order
          Executions,      \* execution ids that may be allocated
          Sessions,        \* database sessions that may be open at once
          Specialization,  \* [Agents -> skills], as each agent row is created
          Dispatchable,    \* agents created enabled and of a supported type
          Patches,         \* the bodies of PATCH /tasks/{id} that are sent
          NewTasks,        \* the bodies of POST /tasks that are sent
          None,            \* SQL NULL
          MaxRetries,      \* MAX_RETRIES of the execution engine
          Crashes          \* whether a session may die between two steps

TaskStatus == {"BACKLOG", "READY", "IN_PROGRESS", "BLOCKED", "REVIEW", "DONE"}
TaskPriority == {"HIGH", "MEDIUM", "LOW"}
ExecutionState == {"PENDING", "ASSIGNED", "RUNNING", "WAITING_REVIEW",
                   "COMPLETED", "FAILED", "CANCELLED"}
ActiveStates == {"PENDING", "ASSIGNED", "RUNNING", "WAITING_REVIEW"}
Skills == {Specialization[a] : a \in Agents} \cup {None}
MaxAttempts == 1 + MaxRetries
Absent == "ABSENT"         \* the status of a row that is not in its table

TaskRow == [status : TaskStatus \cup {Absent}, owner : Agents \cup {None},
            priority : TaskPriority, need : Skills]
NoTask == [status |-> Absent, owner |-> None, priority |-> "LOW", need |-> None]
ExecutionRow == [state : ExecutionState \cup {Absent}, task : Tasks \cup {None},
                 agent : Agents \cup {None}, attempts : 0..MaxAttempts]
NoExecution == [state |-> Absent, task |-> None, agent |-> None, attempts |-> 0]
\* A PATCH body: a field the client left out is "unset".
PatchBody == [status : (TaskStatus \ {"DONE"}) \cup {"unset"},
              priority : TaskPriority \cup {"unset"},
              need : Skills \cup {"unset"}]

ASSUME EngineAssumption ==
    /\ Tasks \subseteq Nat
    /\ Agents \subseteq Nat
    /\ Executions \subseteq Nat
    /\ MaxRetries \in Nat
    /\ Crashes \in BOOLEAN
    /\ None \notin Tasks \cup Agents \cup Executions
    /\ Dispatchable \subseteq Agents
    /\ Patches \subseteq PatchBody
    /\ NewTasks \subseteq [status : TaskStatus, owner : Agents \cup {None},
                           priority : TaskPriority, need : Skills]

\* ALLOWED_TRANSITIONS of the execution state machine.
AllowedTransitions(current) ==
    CASE current = "PENDING" -> {"ASSIGNED", "CANCELLED", "FAILED"}
      [] current = "ASSIGNED" -> {"RUNNING", "CANCELLED", "FAILED"}
      [] current = "RUNNING" -> {"WAITING_REVIEW", "FAILED", "CANCELLED"}
      [] current = "WAITING_REVIEW" -> {"COMPLETED", "FAILED", "CANCELLED"}
      [] OTHER -> {}

VARIABLES task,       \* table tasks
          agent,      \* ids of the rows of table agents
          execution,  \* table executions
          session,    \* what each session holds in memory
          abandoned   \* history: executions whose session died while driving them

vars == <<task, agent, execution, session, abandoned>>

SessionState ==
    [pc : {"idle", "editing", "found", "cancelling", "claimed", "scheduled",
           "refreshed", "running", "exhausted"},
     task : Tasks \cup {None}, row : TaskRow, agent : Agents \cup {None},
     exec : Executions \cup {None}, state : ExecutionState \cup {Absent},
     attempt : 0..MaxAttempts]
Idle == [pc |-> "idle", task |-> None, row |-> NoTask, agent |-> None,
         exec |-> None, state |-> Absent, attempt |-> 0]

TypeOK ==
    /\ task \in [Tasks -> TaskRow]
    /\ agent \subseteq Agents
    /\ execution \in [Executions -> ExecutionRow]
    /\ session \in [Sessions -> SessionState]
    /\ abandoned \subseteq Executions

Init ==
    /\ task = [t \in Tasks |-> NoTask]
    /\ agent = {}
    /\ execution = [e \in Executions |-> NoExecution]
    /\ session = [s \in Sessions |-> Idle]
    /\ abandoned = {}

-----------------------------------------------------------------------------
(***************************************************************************)
(* Row locks and unique indexes                                            *)
(***************************************************************************)
Active(e) == execution[e].state \in ActiveStates

\* A session between its SELECT ... FOR UPDATE and its commit holds the task
\* and the agent row, and its uncommitted PENDING row the task's index entry.
TaskLocked_NoForUpdate(t) == FALSE
TaskLocked(t) == \E s \in Sessions : session[s].pc = "claimed" /\ session[s].task = t
AgentLocked(a) == \E s \in Sessions : session[s].pc = "claimed" /\ session[s].agent = a

\* The three partial unique indexes: uq_executions_active_task,
\* uq_executions_active_agent and uq_tasks_owner_in_progress.
TaskFree(t, e) == \A f \in Executions \ {e} : ~(Active(f) /\ execution[f].task = t)
AgentFree_NoIndex(a, e) == TRUE
AgentFree(a, e) == \A f \in Executions \ {e} : ~(Active(f) /\ execution[f].agent = a)
OwnerFree(a, t) ==
    \A u \in Tasks \ {t} : ~(task[u].status = "IN_PROGRESS" /\ task[u].owner = a)
RowFits(t, row) ==
    (row.status = "IN_PROGRESS" /\ row.owner # None) => OwnerFree(row.owner, t)

\* The row that results when a session which read `old` assigns `new`: columns
\* it did not change keep the value another session may have written since.
Column(current, old, new) == IF new = old THEN current ELSE new
Merge(current, old, new) ==
    [status   |-> Column(current.status, old.status, new.status),
     owner    |-> Column(current.owner, old.owner, new.owner),
     priority |-> Column(current.priority, old.priority, new.priority),
     need     |-> Column(current.need, old.need, new.need)]

Close(s) == session' = [session EXCEPT ![s] = Idle]

-----------------------------------------------------------------------------
(***************************************************************************)
(* Decision Center                                                         *)
(***************************************************************************)
CreateAgent(a) ==
    /\ a \notin agent
    /\ \A b \in Agents : b < a => b \in agent
    /\ agent' = agent \cup {a}
    /\ UNCHANGED <<task, execution, session, abandoned>>

CreateTask(t, body) ==
    /\ task[t].status = Absent
    /\ \A u \in Tasks : u < t => task[u].status # Absent
    /\ body.owner # None => body.owner \in agent /\ ~AgentLocked(body.owner)
    /\ RowFits(t, body)
    /\ task' = [task EXCEPT ![t] = body]
    /\ UNCHANGED <<agent, execution, session, abandoned>>

\* _get_task at the head of update_task, assign_task and complete_task.
LoadTask(s, t) ==
    /\ session[s].pc = "idle"
    /\ task[t].status # Absent
    /\ session' = [session EXCEPT ![s] = [Idle EXCEPT !.pc = "editing", !.task = t,
                                                      !.row = task[t]]]
    /\ UNCHANGED <<task, agent, execution, abandoned>>

\* The end of an edit: flush and commit, unless a unique index refuses the row
\* (then the transaction is rolled back).  The UPDATE waits for the row lock.
CommitEdit(s, new) ==
    LET t == session[s].task
        row == Merge(task[t], session[s].row, new)
    IN  /\ ~TaskLocked(t)
        /\ \/ RowFits(t, row) /\ task' = [task EXCEPT ![t] = row]
           \/ ~RowFits(t, row) /\ UNCHANGED task
        /\ Close(s)
        /\ UNCHANGED <<agent, execution, abandoned>>

Patched(field, old) == IF field = "unset" THEN old ELSE field
UpdateTask(s, patch) ==
    LET old == session[s].row
    IN  /\ session[s].pc = "editing"
        /\ (patch.status = "IN_PROGRESS" /\ old.owner # None)
               => OwnerFree(old.owner, session[s].task)
        /\ CommitEdit(s, [status   |-> Patched(patch.status, old.status),
                          owner    |-> old.owner,
                          priority |-> Patched(patch.priority, old.priority),
                          need     |-> Patched(patch.need, old.need)])

AssignTask(s, a) ==
    LET old == session[s].row
    IN  /\ session[s].pc = "editing"
        /\ a \in agent
        /\ ~AgentLocked(a)
        /\ old.status = "IN_PROGRESS" => OwnerFree(a, session[s].task)
        /\ CommitEdit(s, [old EXCEPT !.owner = a])

CompleteTask(s) ==
    /\ session[s].pc = "editing"
    /\ session[s].row.status = "REVIEW"
    /\ CommitEdit(s, [session[s].row EXCEPT !.status = "DONE"])

\* A request that validation refuses, or whose client goes away, leaves no trace.
RejectEdit(s) ==
    /\ session[s].pc \in {"editing", "found", "cancelling"}
    /\ Close(s)
    /\ UNCHANGED <<task, agent, execution, abandoned>>

-----------------------------------------------------------------------------
(***************************************************************************)
(* Execution Engine: scheduling                                            *)
(***************************************************************************)
Rank(priority) == CASE priority = "HIGH" -> 0 [] priority = "MEDIUM" -> 1 [] OTHER -> 2

Ready == {t \in Tasks : task[t].status = "READY"}

\* The queue order: priority_order, then creation order.
Before(t, u) ==
    \/ Rank(task[t].priority) < Rank(task[u].priority)
    \/ Rank(task[t].priority) = Rank(task[u].priority) /\ t < u

Compatible(t) ==
    {a \in agent \cap Dispatchable :
        /\ Specialization[a] = task[t].need
        /\ OwnerFree(a, None)
        /\ AgentFree(a, None)
        /\ ~AgentLocked(a)}

\* Lock the rows and flush the PENDING execution.  When no agent is free, or
\* the flush meets an active execution of the task, the request ends unchanged.
Claim(s, t) ==
    /\ session[s].pc = "idle"
    /\ t \in Ready
    /\ ~TaskLocked(t)
    /\ TaskFree(t, None)
    /\ \E a \in Compatible(t) :
        /\ \A b \in Compatible(t) : a <= b
        /\ session' = [session EXCEPT ![s] = [Idle EXCEPT !.pc = "claimed", !.task = t,
                                                          !.agent = a]]
    /\ UNCHANGED <<task, agent, execution, abandoned>>

SelectReadyTask(s, t) ==
    /\ Claim(s, t)
    /\ \A u \in Ready \ {t} : Before(u, t) => TaskLocked(u)

SelectTask(s, t) == Claim(s, t)

\* The rest of schedule_execution: PENDING -> ASSIGNED, the task handed to the
\* agent, and one commit; on an index conflict everything is rolled back.
ScheduleExecution(s, e) ==
    LET t == session[s].task
        a == session[s].agent
    IN  /\ session[s].pc = "claimed"
        /\ execution[e].state = Absent
        /\ \A f \in Executions : f < e => execution[f].state # Absent
        /\ TaskFree(t, e)
        /\ AgentFree(a, e)
        /\ OwnerFree(a, t)
        /\ execution' = [execution EXCEPT ![e] = [state |-> "ASSIGNED", task |-> t,
                                                  agent |-> a, attempts |-> 0]]
        /\ task' = [task EXCEPT ![t].status = "IN_PROGRESS", ![t].owner = a]
        /\ session' = [session EXCEPT ![s].pc = "scheduled", ![s].exec = e]
        /\ UNCHANGED <<agent, abandoned>>

ScheduleConflict(s) ==
    /\ session[s].pc = "claimed"
    /\ ~ /\ TaskFree(session[s].task, None)
         /\ AgentFree(session[s].agent, None)
         /\ OwnerFree(session[s].agent, session[s].task)
    /\ Close(s)
    /\ UNCHANGED <<task, agent, execution, abandoned>>

-----------------------------------------------------------------------------
(***************************************************************************)
(* Execution Engine: running                                               *)
(***************************************************************************)
\* db.refresh(execution): the last time the session reads the state column.
RefreshExecution(s) ==
    /\ session[s].pc = "scheduled"
    /\ session' = [session EXCEPT ![s].pc = "refreshed",
                                  ![s].state = execution[session[s].exec].state]
    /\ UNCHANGED <<task, agent, execution, abandoned>>

\* The transition check of _set_state is made on the session's own copy.
MaySet(s, target) == target \in AllowedTransitions(session[s].state)

\* A state written by the driving session enters the active indexes again, so
\* it is refused while another active execution holds the task or the agent.
Indexed(e) == TaskFree(execution[e].task, e) /\ AgentFree(execution[e].agent, e)

StartRunning(s) ==
    LET e == session[s].exec
    IN  /\ session[s].pc = "refreshed"
        /\ MaySet(s, "RUNNING")
        /\ ~TaskLocked(session[s].task)
        /\ Indexed(e)
        /\ execution' = [execution EXCEPT ![e].state = "RUNNING"]
        /\ session' = [session EXCEPT ![s].pc = "running", ![s].state = "RUNNING",
                                      ![s].attempt = 1]
        /\ UNCHANGED <<task, agent, abandoned>>

\* The refreshed row was already cancelled, or the commit met an index entry.
StartRefused(s) ==
    /\ session[s].pc = "refreshed"
    /\ ~MaySet(s, "RUNNING")
         \/ (~TaskLocked(session[s].task) /\ ~Indexed(session[s].exec))
    /\ Close(s)
    /\ UNCHANGED <<task, agent, execution, abandoned>>

MayRetry_CountsRetries(n) == n < MaxRetries
MayRetry_OneTooMany(n) == n <= MaxAttempts
MayRetry(n) == n < MaxAttempts

PhaseAfter_GivesUp(n) == IF MayRetry(n) THEN "running" ELSE "idle"
PhaseAfter(n) == IF MayRetry(n) THEN "running" ELSE "exhausted"

\* manager.execute raised: the attempt is committed; then back-off and retry.
AttemptFailed(s) ==
    LET n == session[s].attempt
    IN  /\ session[s].pc = "running"
        /\ execution' = [execution EXCEPT ![session[s].exec].attempts = n]
        /\ session' = [session EXCEPT ![s].pc = PhaseAfter(n),
                                      ![s].attempt = IF MayRetry(n) THEN n + 1 ELSE n]
        /\ UNCHANGED <<task, agent, abandoned>>

Finish_LoopsOn(s, outcome, status) ==
    /\ ~TaskLocked(session[s].task)
    /\ execution' = [execution EXCEPT ![session[s].exec] =
                        [@ EXCEPT !.state = outcome, !.attempts = session[s].attempt]]
    /\ task' = [task EXCEPT ![session[s].task].status = status]
    /\ UNCHANGED <<agent, session, abandoned>>
\* The transaction that ends a run, and the return from run_execution.
Finish(s, outcome, status) ==
    /\ ~TaskLocked(session[s].task)
    /\ execution' = [execution EXCEPT ![session[s].exec] =
                        [@ EXCEPT !.state = outcome, !.attempts = session[s].attempt]]
    /\ task' = [task EXCEPT ![session[s].task].status = status]
    /\ Close(s)
    /\ UNCHANGED <<agent, abandoned>>

FailExecution(s) ==
    /\ session[s].pc = "exhausted"
    /\ MaySet(s, "FAILED")
    /\ Finish(s, "FAILED", "BLOCKED")

\* manager.execute returned: WAITING_REVIEW is flushed, then COMPLETED and the
\* task's REVIEW -> DONE are committed, in one transaction.
CompleteExecution(s) ==
    /\ session[s].pc = "running"
    /\ MaySet(s, "WAITING_REVIEW")
    /\ Indexed(session[s].exec)
    /\ Finish(s, "COMPLETED", "DONE")

\* The flush of WAITING_REVIEW met an index entry: the error is not handled and
\* the result of the attempt is lost.
CompletionRefused(s) ==
    /\ session[s].pc = "running"
    /\ ~TaskLocked(session[s].task)
    /\ ~Indexed(session[s].exec)
    /\ Close(s)
    /\ UNCHANGED <<task, agent, execution, abandoned>>

-----------------------------------------------------------------------------
(***************************************************************************)
(* Execution Engine: cancellation                                          *)
(***************************************************************************)
LoadExecution(s, e) ==
    /\ session[s].pc = "idle"
    /\ Active(e)
    /\ session' = [session EXCEPT ![s] = [Idle EXCEPT !.pc = "found", !.exec = e,
                       !.task = execution[e].task, !.state = execution[e].state]]
    /\ UNCHANGED <<task, agent, execution, abandoned>>

LoadExecutionTask(s) ==
    /\ session[s].pc = "found"
    /\ session' = [session EXCEPT ![s].pc = "cancelling", ![s].row = task[session[s].task]]
    /\ UNCHANGED <<task, agent, execution, abandoned>>

CancelExecution(s) ==
    LET e == session[s].exec
        t == session[s].task
        old == session[s].row
    IN  /\ session[s].pc = "cancelling"
        /\ MaySet(s, "CANCELLED")
        /\ ~TaskLocked(t)
        /\ execution' = [execution EXCEPT ![e].state = "CANCELLED"]
        /\ task' = [task EXCEPT ![t] =
                       Merge(task[t], old, [old EXCEPT !.status = "READY", !.owner = None])]
        /\ Close(s)
        /\ UNCHANGED <<agent, abandoned>>

-----------------------------------------------------------------------------
\* The process dies, or its database connection drops: the open transaction is
\* rolled back and nothing in the code ever resumes the execution.
Crash(s) ==
    /\ Crashes
    /\ session[s].pc \in {"claimed", "scheduled", "refreshed", "running", "exhausted"}
    /\ abandoned' = abandoned \cup ({session[s].exec} \cap Executions)
    /\ Close(s)
    /\ UNCHANGED <<task, agent, execution>>

Drive(s) ==
    \/ ScheduleConflict(s)
    \/ \E e \in Executions : ScheduleExecution(s, e)
    \/ RefreshExecution(s)
    \/ StartRunning(s)
    \/ StartRefused(s)
    \/ AttemptFailed(s)
    \/ FailExecution(s)
    \/ CompleteExecution(s)
    \/ CompletionRefused(s)

Edit(s) ==
    \/ \E p \in Patches : UpdateTask(s, p)
    \/ \E a \in Agents : AssignTask(s, a)
    \/ CompleteTask(s)
    \/ LoadExecutionTask(s)
    \/ CancelExecution(s)
    \/ RejectEdit(s)

Next ==
    \/ \E a \in Agents : CreateAgent(a)
    \/ \E t \in Tasks, body \in NewTasks : CreateTask(t, body)
    \/ \E s \in Sessions :
        \/ \E t \in Tasks : LoadTask(s, t) \/ SelectReadyTask(s, t) \/ SelectTask(s, t)
        \/ \E e \in Executions : LoadExecution(s, e)
        \/ Edit(s)
        \/ Drive(s)
        \/ Crash(s)

Spec == Init /\ [][Next]_vars

\* A request that has started keeps running unless its process dies; nobody is
\* obliged to send one.
FairSpec == Spec /\ \A s \in Sessions : WF_vars(Drive(s))

-----------------------------------------------------------------------------
(***************************************************************************)
(* Properties                                                              *)
(***************************************************************************)
\* "one active execution per task" (README.md:224), although a stale session can
\* make a cancelled execution active again after its task was requeued.
OneActivePerTask ==
    \A e, f \in Executions :
        Active(e) /\ Active(f) /\ execution[e].task = execution[f].task => e = f

\* "one active execution per ... agent" (README.md:224), against concurrent
\* schedulers and sessions that overwrite a cancellation.
OneActivePerAgent ==
    \A e, f \in Executions :
        Active(e) /\ Active(f) /\ execution[e].agent = execution[f].agent => e = f

\* "no more than one IN_PROGRESS task per agent" (README.md:219), against
\* concurrent assignments, edits of stale rows and the scheduler.
OneInProgressPerAgent ==
    \A t, u \in Tasks :
        /\ task[t].status = "IN_PROGRESS" /\ task[u].status = "IN_PROGRESS"
        /\ task[t].owner = task[u].owner
        /\ task[t].owner # None
        => t = u

Drives(s, e) ==
    /\ session[s].exec = e
    /\ session[s].pc \in {"scheduled", "refreshed", "running", "exhausted"}

\* An active execution has exactly one session behind it, unless that session
\* died: run_execution never leaves an execution active without a driver.
ActiveHasDriver ==
    \A e \in Executions \ abandoned :
        Active(e) => /\ \E s \in Sessions : Drives(s, e)
                     /\ \A s, r \in Sessions : Drives(s, e) /\ Drives(r, e) => s = r

\* "A failed adapter call is retried up to three times with exponential backoff
\* before the execution becomes FAILED" (README.md:225): no execution fails with
\* attempts left, whatever a concurrent cancellation wrote in between.
ExhaustedBeforeFailed ==
    \A e \in Executions :
        /\ execution[e].state = "FAILED" => execution[e].attempts = MaxAttempts
        /\ execution[e].state = "COMPLETED" => execution[e].attempts > 0

\* A recorded outcome is not replaced by the other one and a finished execution
\* is not started again; a stale cancellation is the only write that may follow.
OutcomeNotRewritten ==
    [][\A e \in Executions :
          execution[e].state \in {"COMPLETED", "FAILED"} =>
              execution'[e].state \in {execution[e].state, "CANCELLED"}]_vars

\* "matches task specialization to an idle enabled agent" (README.md:223): when
\* the assignment commits, the task is still READY and still asks for the skill
\* the agent was selected for, although PATCH may change both concurrently.
ClaimIsCompatible ==
    [][\A e \in Executions :
          execution[e].state = Absent /\ execution'[e].state # Absent =>
              LET t == execution'[e].task
                  a == execution'[e].agent
              IN  /\ task[t].status = "READY"
                  /\ a \in Dispatchable /\ Specialization[a] = task[t].need]_vars

\* Every execution that was made active is ended, unless its process dies.
EveryActiveEnds == \A e \in Executions : Active(e) ~> ~Active(e) \/ e \in abandoned

\* The committed states follow ALLOWED_TRANSITIONS (a completion commits
\* WAITING_REVIEW and COMPLETED together): what the state machine promises.
TransitionsAllowed ==
    [][\A e \in Executions :
          execution[e].state \in ExecutionState /\ execution'[e].state # execution[e].state
          => \/ execution'[e].state \in AllowedTransitions(execution[e].state)
             \/ execution[e].state = "RUNNING" /\ execution'[e].state = "COMPLETED"]_vars

(***************************************************************************)
(* Refinement: the executions implement exclusive leases of agents to      *)
(* tasks, whatever the sessions remember.                                  *)
(***************************************************************************)
Working(rows, a) ==
    {e \in Executions : rows[e].state \in ActiveStates /\ rows[e].agent = a}
LeaseOf(rows) ==
    [a \in Agents |-> IF Working(rows, a) = {} THEN None
                      ELSE rows[CHOOSE e \in Working(rows, a) : TRUE].task]
Lease == LeaseOf(execution)
Leases == INSTANCE AgentLease WITH lease <- Lease
LeasesImplemented == Leases!Spec

\* OneActivePerTask, OneActivePerAgent and OneInProgressPerAgent together: a task and an
\* agent belong to one another alone, whoever schedules, edits and cancels meanwhile
\* (execution_engine/service.py:156-228, decision_center/service.py:128-187).
TasksExclusive == OneActivePerTask /\ OneActivePerAgent /\ OneInProgressPerAgent

\* ActiveHasDriver and ExhaustedBeforeFailed together: what is active is being run, and
\* what failed was tried to the end (execution_engine/service.py:240-308).
RunsDriven == ActiveHasDriver /\ ExhaustedBeforeFailed

\* ClaimIsCompatible and LeasesImplemented together: assignments are leases of AgentLease,
\* taken by agents that fit their tasks (execution_engine/service.py:99-228).
ClaimsImplemented == ClaimIsCompatible /\ LeasesImplemented

=============================================================================
