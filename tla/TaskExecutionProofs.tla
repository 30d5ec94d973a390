------------------------ MODULE TaskExecutionProofs ------------------------
(***************************************************************************)
(* Theorems about TaskExecution: type correctness, the three exclusions    *)
(* that its partial unique indexes guarantee, the match of a task with the *)
(* agent it is assigned to, the refinement of AgentLease, and the session  *)
(* that drives each active execution to an outcome that stands.            *)
(***************************************************************************)
EXTENDS TaskExecution, TLAPS

\* A session that is busy, and an execution, refer to existing rows:
\* what the foreign keys guarantee, and what makes TypeOK inductive.
Bound ==
    /\ \A s \in Sessions :
        /\ session[s].pc # "idle" => session[s].task \in Tasks
        /\ session[s].pc \notin {"idle", "editing", "claimed"} =>
               session[s].exec \in Executions /\ execution[session[s].exec].state # Absent
        /\ session[s].pc = "claimed" => session[s].agent \in Agents
    /\ \A e \in Executions :
        execution[e].state # Absent =>
            execution[e].task \in Tasks /\ execution[e].agent \in Agents

TypeInv == TypeOK /\ Bound

\* The row that a merged UPDATE leaves is a row of the table.
LEMMA MergeType ==
    ASSUME NEW current \in TaskRow, NEW old \in TaskRow, NEW new \in TaskRow
    PROVE  Merge(current, old, new) \in TaskRow
BY DEF Merge, Column, TaskRow

LEMMA NullTypes == NoTask \in TaskRow /\ NoExecution \in ExecutionRow /\ Idle \in SessionState
<1>1. NoTask \in TaskRow
  BY DEF NoTask, TaskRow, Absent, TaskPriority, Skills
<1>2. NoExecution \in ExecutionRow
  BY EngineAssumption DEF NoExecution, ExecutionRow, MaxAttempts, EngineAssumption
<1>3. Idle \in SessionState
  BY <1>1, EngineAssumption DEF Idle, SessionState, MaxAttempts, EngineAssumption
<1> QED BY <1>1, <1>2, <1>3

LEMMA InitTypeInv == Init => TypeInv
<1> SUFFICES ASSUME Init PROVE TypeInv
  OBVIOUS
<1>1. TypeOK
  BY NullTypes DEF TypeOK, Init
<1>2. Bound
  BY DEF Bound, Init, Idle, Active, NoExecution, ActiveStates, Absent
<1> QED BY <1>1, <1>2 DEF TypeInv

\* A step that ends a request and changes no execution keeps the invariant.
LEMMA CloseTypeInv ==
    ASSUME TypeInv, NEW s \in Sessions, Close(s), UNCHANGED <<agent, execution>>,
           task' \in [Tasks -> TaskRow], abandoned' \subseteq Executions
    PROVE  TypeInv'
<1>1. TypeOK'
  BY NullTypes DEF TypeInv, TypeOK, Close
<1>2. Bound'
  BY DEF TypeInv, TypeOK, Bound, Close, Idle
<1> QED BY <1>1, <1>2 DEF TypeInv

\* CommitEdit keeps the types when the row it writes is one.
LEMMA CommitEditTypeInv ==
    ASSUME TypeInv, NEW s \in Sessions, NEW new \in TaskRow,
           session[s].pc = "editing", CommitEdit(s, new)
    PROVE  TypeInv'
<1> DEFINE t == session[s].task
           row == Merge(task[t], session[s].row, new)
<1>1. t \in Tasks /\ task[t] \in TaskRow /\ session[s].row \in TaskRow
  BY DEF TypeInv, TypeOK, Bound, SessionState
<1>2. row \in TaskRow
  BY <1>1, MergeType
<1>3. task' \in [Tasks -> TaskRow]
  BY <1>1, <1>2 DEF CommitEdit, TypeInv, TypeOK
<1> QED BY <1>3, CloseTypeInv DEF CommitEdit, TypeInv, TypeOK

\* Finish writes a state that is no longer active, and a status of the table.
LEMMA FinishTypeInv ==
    ASSUME TypeInv, NEW s \in Sessions, NEW outcome \in ExecutionState \ ActiveStates,
           NEW status \in TaskStatus, Finish(s, outcome, status),
           session[s].pc \in {"running", "exhausted"}
    PROVE  TypeInv'
<1> DEFINE e == session[s].exec
           row == [execution[e] EXCEPT !.state = outcome, !.attempts = session[s].attempt]
<1>1. task' \in [Tasks -> TaskRow]
  BY DEF Finish, TypeInv, TypeOK, TaskRow
<1>2. execution' \in [Executions -> ExecutionRow]
  <2>1. e \in Executions /\ session[s].attempt \in 0..MaxAttempts
    BY DEF TypeInv, TypeOK, Bound, SessionState
  <2>2. row \in ExecutionRow
    <3>1. execution[e] \in ExecutionRow /\ outcome \in ExecutionState
      BY <2>1 DEF TypeInv, TypeOK
    <3> HIDE DEF e
    <3> QED BY <2>1, <3>1 DEF ExecutionRow
  <2>3. execution' = [execution EXCEPT ![e] = row]
    BY DEF Finish
  <2> QED BY <2>1, <2>2, <2>3 DEF TypeInv, TypeOK
<1>3. TypeOK'
  BY <1>1, <1>2, NullTypes DEF Finish, Close, TypeInv, TypeOK
<1>4. Bound'
  <2>1. outcome # Absent
    BY DEF ExecutionState, Absent
  <2> QED BY <2>1 DEF Finish, Close, TypeInv, TypeOK, Bound, Idle, ExecutionRow
<1> QED BY <1>3, <1>4 DEF TypeInv

LEMMA NextTypeInv == TypeInv /\ [Next]_vars => TypeInv'
<1> SUFFICES ASSUME TypeInv, [Next]_vars PROVE TypeInv'
  OBVIOUS
<1>1. ASSUME NEW a \in Agents, CreateAgent(a) PROVE TypeInv'
  BY <1>1 DEF CreateAgent, TypeInv, TypeOK, Bound
<1>2. ASSUME NEW t \in Tasks, NEW body \in NewTasks, CreateTask(t, body) PROVE TypeInv'
  <2>1. body \in TaskRow
    BY EngineAssumption DEF EngineAssumption, TaskRow
  <2> QED BY <1>2, <2>1 DEF CreateTask, TypeInv, TypeOK, Bound
<1>3. ASSUME NEW s \in Sessions, NEW t \in Tasks, LoadTask(s, t) PROVE TypeInv'
  <2>1. TypeOK'
    BY <1>3, NullTypes DEF LoadTask, TypeInv, TypeOK, SessionState
  <2>2. Bound'
    BY <1>3 DEF LoadTask, TypeInv, TypeOK, Bound, Idle, Absent
  <2> QED BY <2>1, <2>2 DEF TypeInv
<1>4. ASSUME NEW s \in Sessions, NEW t \in Tasks, Claim(s, t) PROVE TypeInv'
  <2> PICK a \in Compatible(t) :
        session' = [session EXCEPT ![s] = [Idle EXCEPT !.pc = "claimed", !.task = t,
                                                       !.agent = a]]
    BY <1>4 DEF Claim
  <2>1. a \in Agents
    BY DEF Compatible, TypeInv, TypeOK
  <2>2. TypeOK'
    BY <1>4, <2>1, NullTypes DEF Claim, TypeInv, TypeOK, SessionState
  <2>3. Bound'
    BY <1>4, <2>1 DEF Claim, TypeInv, TypeOK, Bound, Idle, Absent
  <2> QED BY <2>2, <2>3 DEF TypeInv
<1>5. ASSUME NEW s \in Sessions, NEW e \in Executions, LoadExecution(s, e) PROVE TypeInv'
  <2>1. TypeOK'
    BY <1>5, NullTypes DEF LoadExecution, TypeInv, TypeOK, SessionState, ExecutionRow
  <2>2. Bound'
    BY <1>5 DEF LoadExecution, TypeInv, TypeOK, Bound, Idle, Absent, Active, ActiveStates
  <2> QED BY <2>1, <2>2 DEF TypeInv
<1>6. ASSUME NEW s \in Sessions, Edit(s) PROVE TypeInv'
  <2> session[s] \in SessionState /\ session[s].row \in TaskRow
    BY DEF TypeInv, TypeOK, SessionState
  <2>1. ASSUME NEW p \in Patches, UpdateTask(s, p) PROVE TypeInv'
    <3> DEFINE old == session[s].row
               new == [status   |-> Patched(p.status, old.status), owner |-> old.owner,
                       priority |-> Patched(p.priority, old.priority),
                       need     |-> Patched(p.need, old.need)]
    <3>1. p \in PatchBody
      BY EngineAssumption DEF EngineAssumption
    <3>2. new \in TaskRow
      BY <3>1 DEF Patched, PatchBody, TaskRow
    <3> QED BY <2>1, <3>2, CommitEditTypeInv DEF UpdateTask
  <2>2. ASSUME NEW a \in Agents, AssignTask(s, a) PROVE TypeInv'
    <3>1. [session[s].row EXCEPT !.owner = a] \in TaskRow
      BY DEF TaskRow
    <3> QED BY <2>2, <3>1, CommitEditTypeInv DEF AssignTask
  <2>3. CASE CompleteTask(s)
    <3>1. [session[s].row EXCEPT !.status = "DONE"] \in TaskRow
      BY DEF TaskRow, TaskStatus
    <3> QED BY <2>3, <3>1, CommitEditTypeInv DEF CompleteTask
  <2>4. CASE LoadExecutionTask(s)
    <3>1. session[s].task \in Tasks
      BY <2>4 DEF LoadExecutionTask, TypeInv, Bound
    <3>2. TypeOK'
      BY <2>4, <3>1 DEF LoadExecutionTask, TypeInv, TypeOK, SessionState
    <3>3. Bound'
      BY <2>4 DEF LoadExecutionTask, TypeInv, TypeOK, Bound, SessionState, Absent
    <3> QED BY <3>2, <3>3 DEF TypeInv
  <2>5. CASE CancelExecution(s)
    <3>1. session[s].task \in Tasks /\ task[session[s].task] \in TaskRow
      BY <2>5 DEF CancelExecution, TypeInv, TypeOK, Bound
    <3>2. [session[s].row EXCEPT !.status = "READY", !.owner = None] \in TaskRow
      BY DEF TaskRow, TaskStatus
    <3>3. task' \in [Tasks -> TaskRow]
      BY <2>5, <3>1, <3>2, MergeType DEF CancelExecution, TypeInv, TypeOK
    <3>4. execution' \in [Executions -> ExecutionRow]
      BY <2>5 DEF CancelExecution, TypeInv, TypeOK, ExecutionRow, ExecutionState
    <3>5. TypeOK'
      BY <2>5, <3>3, <3>4, NullTypes DEF CancelExecution, Close, TypeInv, TypeOK
    <3>6. Bound'
      BY <2>5 DEF CancelExecution, Close, TypeInv, TypeOK, Bound, Idle, Absent,
                  ExecutionRow
    <3> QED BY <3>5, <3>6 DEF TypeInv
  <2>6. CASE RejectEdit(s)
    BY <2>6, CloseTypeInv DEF RejectEdit, TypeInv, TypeOK
  <2> QED BY <1>6, <2>1, <2>2, <2>3, <2>4, <2>5, <2>6 DEF Edit
<1>7. ASSUME NEW s \in Sessions, Drive(s) PROVE TypeInv'
  <2> session[s] \in SessionState
    BY DEF TypeInv, TypeOK
  <2>1. CASE ScheduleConflict(s)
    BY <2>1, CloseTypeInv DEF ScheduleConflict, TypeInv, TypeOK
  <2>2. ASSUME NEW e \in Executions, ScheduleExecution(s, e) PROVE TypeInv'
    <3> DEFINE t == session[s].task
               a == session[s].agent
    <3>1. t \in Tasks /\ a \in Agents
      BY <2>2 DEF ScheduleExecution, TypeInv, Bound
    <3>2. [state |-> "ASSIGNED", task |-> t, agent |-> a, attempts |-> 0] \in ExecutionRow
      BY <3>1, EngineAssumption DEF ExecutionRow, ExecutionState, MaxAttempts, EngineAssumption
    <3>3. task' \in [Tasks -> TaskRow]
      BY <2>2, <3>1 DEF ScheduleExecution, TypeInv, TypeOK, TaskRow, TaskStatus
    <3>4. session' \in [Sessions -> SessionState]
      BY <2>2 DEF ScheduleExecution, TypeInv, TypeOK, SessionState
    <3>5. TypeOK'
      BY <2>2, <3>2, <3>3, <3>4 DEF ScheduleExecution, TypeInv, TypeOK
    <3>6. Bound'
      BY <2>2, <3>1 DEF ScheduleExecution, TypeInv, TypeOK, Bound, SessionState, Absent
    <3> QED BY <3>5, <3>6 DEF TypeInv
  <2>3. CASE RefreshExecution(s)
    <3>1. session[s].exec \in Executions
      BY <2>3 DEF RefreshExecution, TypeInv, Bound
    <3>2. TypeOK'
      BY <2>3, <3>1 DEF RefreshExecution, TypeInv, TypeOK, SessionState, ExecutionRow
    <3>3. Bound'
      BY <2>3 DEF RefreshExecution, TypeInv, TypeOK, Bound, SessionState, Absent
    <3> QED BY <3>2, <3>3 DEF TypeInv
  <2>4. CASE StartRunning(s)
    <3>1. 1 \in 0..MaxAttempts
      BY EngineAssumption DEF MaxAttempts, EngineAssumption
    <3>2. execution' \in [Executions -> ExecutionRow]
      BY <2>4 DEF StartRunning, TypeInv, TypeOK, ExecutionRow, ExecutionState
    <3>3. session' \in [Sessions -> SessionState]
      BY <2>4, <3>1 DEF StartRunning, TypeInv, TypeOK, SessionState, ExecutionState
    <3>4. Bound'
      BY <2>4 DEF StartRunning, TypeInv, TypeOK, Bound, SessionState, Absent
    <3> QED BY <2>4, <3>2, <3>3, <3>4 DEF StartRunning, TypeInv, TypeOK
  <2>5. CASE StartRefused(s)
    BY <2>5, CloseTypeInv DEF StartRefused, TypeInv, TypeOK
  <2>6. CASE AttemptFailed(s)
    <3>1. execution' \in [Executions -> ExecutionRow]
      <4>1. session[s].exec \in Executions /\ session[s].attempt \in 0..MaxAttempts
        BY <2>6 DEF AttemptFailed, TypeInv, Bound, SessionState
      <4> QED BY <2>6, <4>1 DEF AttemptFailed, TypeInv, TypeOK, ExecutionRow
    <3>2. session' \in [Sessions -> SessionState]
      <4> DEFINE n == session[s].attempt
                 next == IF MayRetry(n) THEN n + 1 ELSE n
      <4>1. next \in 0..MaxAttempts
        BY EngineAssumption DEF SessionState, MayRetry, MaxAttempts, EngineAssumption
      <4>2. session' = [session EXCEPT ![s].pc = PhaseAfter(n), ![s].attempt = next]
        BY <2>6 DEF AttemptFailed
      <4>3. PhaseAfter(n) \in {"running", "exhausted"}
        BY DEF PhaseAfter
      <4> HIDE DEF next
      <4> QED BY <4>1, <4>2, <4>3 DEF TypeInv, TypeOK, SessionState
    <3>3. Bound'
      BY <2>6 DEF AttemptFailed, TypeInv, TypeOK, Bound, SessionState, Absent, PhaseAfter,
            ExecutionRow
    <3> QED BY <2>6, <3>1, <3>2, <3>3 DEF AttemptFailed, TypeInv, TypeOK
  <2>7. CASE FailExecution(s)
    BY <2>7, FinishTypeInv DEF FailExecution, ExecutionState, ActiveStates, TaskStatus
  <2>8. CASE CompleteExecution(s)
    BY <2>8, FinishTypeInv DEF CompleteExecution, ExecutionState, ActiveStates, TaskStatus
  <2>9. CASE CompletionRefused(s)
    BY <2>9, CloseTypeInv DEF CompletionRefused, TypeInv, TypeOK
  <2> QED BY <1>7, <2>1, <2>2, <2>3, <2>4, <2>5, <2>6, <2>7, <2>8, <2>9 DEF Drive
<1>8. ASSUME NEW s \in Sessions, Crash(s) PROVE TypeInv'
  BY <1>8, CloseTypeInv DEF Crash, TypeInv, TypeOK
<1>9. CASE UNCHANGED vars
  BY <1>9 DEF vars, TypeInv, TypeOK, Bound
<1> QED BY <1>1, <1>2, <1>3, <1>4, <1>5, <1>6, <1>7, <1>8, <1>9
        DEF Next, SelectReadyTask, SelectTask

\* Every row and every session stays within its type, and references only rows
\* that exist, whatever the sessions do and however many there are.
THEOREM TypeCorrect == Spec => []TypeOK
<1>1. Spec => []TypeInv
  BY InitTypeInv, NextTypeInv, PTL DEF Spec
<1>2. TypeInv => TypeOK
  BY DEF TypeInv
<1> QED BY <1>1, <1>2, PTL

-----------------------------------------------------------------------------
(***************************************************************************)
(* Exclusion.  A step writes at most one execution row, and a row that it  *)
(* makes active has passed both unique indexes.                            *)
(***************************************************************************)
\* What a step may do to the row of e, given that it leaves the others alone.
Entered(e) ==
    \/ ~Active(e)'
    \/ /\ Active(e)
       /\ execution'[e].task = execution[e].task
       /\ execution'[e].agent = execution[e].agent
    \/ /\ ~Active(e)
       /\ TaskFree(execution'[e].task, e)
       /\ AgentFree(execution'[e].agent, e)

RowStep ==
    \/ execution' = execution
    \/ \E e \in Executions :
        /\ \A f \in Executions \ {e} : execution'[f] = execution[f]
        /\ Entered(e)

LEMMA NextRowStep == TypeInv /\ [Next]_vars => RowStep
<1> SUFFICES ASSUME TypeInv, [Next]_vars PROVE RowStep
  OBVIOUS
<1> execution \in [Executions -> ExecutionRow]
  BY DEF TypeInv, TypeOK
<1>1. ASSUME NEW s \in Sessions, NEW e \in Executions, ScheduleExecution(s, e) PROVE RowStep
  BY <1>1 DEF ScheduleExecution, RowStep, Entered, Active, Absent, ActiveStates
<1>2. ASSUME NEW s \in Sessions, StartRunning(s) PROVE RowStep
  <2>1. session[s].exec \in Executions
    BY <1>2 DEF StartRunning, TypeInv, Bound
  <2> QED BY <1>2, <2>1 DEF StartRunning, RowStep, Entered, Indexed, ExecutionRow
<1>3. ASSUME NEW s \in Sessions, AttemptFailed(s) PROVE RowStep
  <2>1. session[s].exec \in Executions
    BY <1>3 DEF AttemptFailed, TypeInv, Bound
  <2> QED BY <1>3, <2>1 DEF AttemptFailed, RowStep, Entered, Active, ExecutionRow
<1>4. ASSUME NEW s \in Sessions, NEW outcome \in {"COMPLETED", "FAILED"}, NEW status,
             session[s].pc \in {"running", "exhausted"}, Finish(s, outcome, status)
      PROVE  RowStep
  <2> DEFINE e == session[s].exec
  <2>1. e \in Executions
    BY <1>4 DEF TypeInv, Bound
  <2>2. execution'[e].state = outcome
    BY <1>4, <2>1 DEF Finish, ExecutionRow
  <2>3. \A f \in Executions \ {e} : execution'[f] = execution[f]
    BY <1>4, <2>1 DEF Finish
  <2> QED BY <2>1, <2>2, <2>3 DEF RowStep, Entered, Active, ActiveStates
<1>5. ASSUME NEW s \in Sessions, CancelExecution(s) PROVE RowStep
  <2>1. session[s].exec \in Executions
    BY <1>5 DEF CancelExecution, TypeInv, Bound
  <2> QED BY <1>5, <2>1 DEF CancelExecution, RowStep, Entered, Active, ActiveStates, ExecutionRow
<1>6. ASSUME NEW s \in Sessions, Drive(s) PROVE RowStep
  <2>1. CASE FailExecution(s) BY <2>1, <1>4 DEF FailExecution
  <2>2. CASE CompleteExecution(s) BY <2>2, <1>4 DEF CompleteExecution
  <2> QED BY <1>6, <1>1, <1>2, <1>3, <2>1, <2>2
          DEF Drive, RowStep, ScheduleConflict, RefreshExecution, StartRefused, CompletionRefused
<1>7. ASSUME NEW s \in Sessions, Edit(s) PROVE RowStep
  BY <1>5, <1>7 DEF Edit, RowStep, UpdateTask, AssignTask, CompleteTask, CommitEdit,
     LoadExecutionTask, RejectEdit
<1>8. CASE UNCHANGED vars
  BY <1>8 DEF vars, RowStep
<1> QED BY <1>6, <1>7, <1>8 DEF Next, RowStep, CreateAgent, CreateTask, LoadTask,
        SelectReadyTask, SelectTask, Claim, LoadExecution, Crash

ExclusionInv == OneActivePerTask /\ OneActivePerAgent

LEMMA StepExclusionInv == ExclusionInv /\ RowStep => ExclusionInv'
<1> SUFFICES ASSUME ExclusionInv, RowStep PROVE ExclusionInv'
  OBVIOUS
<1>1. CASE execution' = execution
  BY <1>1 DEF ExclusionInv, OneActivePerTask, OneActivePerAgent, Active
<1>2. ASSUME NEW e \in Executions, Entered(e),
             \A f \in Executions \ {e} : execution'[f] = execution[f]
      PROVE  ExclusionInv'
  <2>1. OneActivePerTask'
    BY <1>2 DEF Entered, ExclusionInv, OneActivePerTask, TaskFree, Active
  <2>2. OneActivePerAgent'
    BY <1>2 DEF Entered, ExclusionInv, OneActivePerAgent, AgentFree, Active
  <2> QED BY <2>1, <2>2 DEF ExclusionInv
<1> QED BY <1>1, <1>2 DEF RowStep

LEMMA InitExclusionInv == Init => ExclusionInv
BY DEF Init, ExclusionInv, OneActivePerTask, OneActivePerAgent, Active, ActiveStates,
   NoExecution, Absent

LEMMA Exclusion == Spec => [](TypeInv /\ ExclusionInv)
<1>1. Init => TypeInv /\ ExclusionInv
  BY InitTypeInv, InitExclusionInv
<1>2. TypeInv /\ ExclusionInv /\ [Next]_vars => (TypeInv /\ ExclusionInv)'
  BY NextTypeInv, NextRowStep, StepExclusionInv
<1> QED BY <1>1, <1>2, PTL DEF Spec

\* No task has two active executions, although cancelled executions can be made
\* active again by the session that runs them.
THEOREM TaskExclusion == Spec => []OneActivePerTask
<1>1. TypeInv /\ ExclusionInv => OneActivePerTask
  BY DEF ExclusionInv
<1> QED BY <1>1, Exclusion, PTL

\* No agent works on two active executions.
THEOREM AgentExclusion == Spec => []OneActivePerAgent
<1>1. TypeInv /\ ExclusionInv => OneActivePerAgent
  BY DEF ExclusionInv
<1> QED BY <1>1, Exclusion, PTL

-----------------------------------------------------------------------------
(***************************************************************************)
(* One task in progress per agent.                                         *)
(***************************************************************************)
\* The row that a step may leave for t: it keeps its place in the index, is not
\* in the index, or has been checked against it.
Kept(t) ==
    \/ task'[t].status # "IN_PROGRESS"
    \/ task'[t].owner = None
    \/ task'[t].status = task[t].status /\ task'[t].owner = task[t].owner
    \/ OwnerFree(task'[t].owner, t)

TaskStep ==
    \/ task' = task
    \/ \E t \in Tasks : Kept(t) /\ \A u \in Tasks \ {t} : task'[u] = task[u]

\* A row checked by RowFits may be written.
LEMMA FittingRow ==
    ASSUME TypeInv, NEW t \in Tasks, NEW row \in TaskRow, RowFits(t, row),
           task' = [task EXCEPT ![t] = row]
    PROVE  TaskStep
<1>1. task'[t] = row /\ \A u \in Tasks \ {t} : task'[u] = task[u]
  BY DEF TypeInv, TypeOK
<1>2. Kept(t)
  BY <1>1 DEF Kept, RowFits
<1> QED BY <1>1, <1>2 DEF TaskStep

LEMMA NextTaskStep == TypeInv /\ [Next]_vars => TaskStep
<1> SUFFICES ASSUME TypeInv, [Next]_vars PROVE TaskStep
  OBVIOUS
<1> task \in [Tasks -> TaskRow]
  BY DEF TypeInv, TypeOK
<1>1. ASSUME NEW t \in Tasks, NEW body \in NewTasks, CreateTask(t, body) PROVE TaskStep
  <2>1. body \in TaskRow
    BY EngineAssumption DEF EngineAssumption, TaskRow
  <2> QED BY <1>1, <2>1, FittingRow DEF CreateTask
<1>2. ASSUME NEW s \in Sessions, NEW new \in TaskRow, session[s].pc = "editing",
             CommitEdit(s, new)
      PROVE  TaskStep
  <2> DEFINE t == session[s].task
             row == Merge(task[t], session[s].row, new)
  <2>1. t \in Tasks /\ row \in TaskRow
    BY <1>2, MergeType DEF TypeInv, TypeOK, Bound, SessionState
  <2>2. CASE RowFits(t, row) /\ task' = [task EXCEPT ![t] = row]
    BY <2>1, <2>2, FittingRow
  <2>3. CASE task' = task
    BY <2>3 DEF TaskStep
  <2> QED BY <1>2, <2>2, <2>3 DEF CommitEdit
<1>3. ASSUME NEW s \in Sessions, Edit(s) PROVE TaskStep
  <2> session[s].row \in TaskRow
    BY DEF TypeInv, TypeOK, SessionState
  <2>1. ASSUME NEW p \in Patches, UpdateTask(s, p) PROVE TaskStep
    <3> DEFINE old == session[s].row
               new == [status   |-> Patched(p.status, old.status), owner |-> old.owner,
                       priority |-> Patched(p.priority, old.priority),
                       need     |-> Patched(p.need, old.need)]
    <3>1. new \in TaskRow
      BY EngineAssumption DEF EngineAssumption, Patched, PatchBody, TaskRow
    <3> QED BY <2>1, <3>1, <1>2 DEF UpdateTask
  <2>2. ASSUME NEW a \in Agents, AssignTask(s, a) PROVE TaskStep
    <3>1. [session[s].row EXCEPT !.owner = a] \in TaskRow
      BY DEF TaskRow
    <3> QED BY <2>2, <3>1, <1>2 DEF AssignTask
  <2>3. CASE CompleteTask(s)
    <3>1. [session[s].row EXCEPT !.status = "DONE"] \in TaskRow
      BY DEF TaskRow, TaskStatus
    <3> QED BY <2>3, <3>1, <1>2 DEF CompleteTask
  <2>4. CASE CancelExecution(s)
    <3> DEFINE t == session[s].task
               old == session[s].row
               row == Merge(task[t], old, [old EXCEPT !.status = "READY", !.owner = None])
    <3>1. t \in Tasks /\ task[t] \in TaskRow
      BY <2>4 DEF CancelExecution, TypeInv, TypeOK, Bound
    <3>2. task' = [task EXCEPT ![t] = row]
      BY <2>4 DEF CancelExecution
    <3>3. /\ row.status \in {"READY", task[t].status}
          /\ row.owner \in {None, task[t].owner}
      BY <3>1 DEF Merge, Column, TaskRow
    <3>4. row.status = "READY" \/ row.status = task[t].status
      BY <3>3
    <3> HIDE DEF row
    <3> QED BY <3>1, <3>2, <3>3, <3>4 DEF TaskStep, Kept
  <2>5. CASE LoadExecutionTask(s) \/ RejectEdit(s)
    BY <2>5 DEF LoadExecutionTask, RejectEdit, TaskStep
  <2> QED BY <1>3, <2>1, <2>2, <2>3, <2>4, <2>5 DEF Edit
<1>4. ASSUME NEW s \in Sessions, NEW e \in Executions, ScheduleExecution(s, e) PROVE TaskStep
  <2>1. session[s].task \in Tasks
    BY <1>4 DEF ScheduleExecution, TypeInv, Bound
  <2> QED BY <1>4, <2>1 DEF ScheduleExecution, TaskStep, Kept, TaskRow
<1>5. ASSUME NEW s \in Sessions, NEW outcome, NEW status \in {"BLOCKED", "DONE"},
             session[s].pc \in {"running", "exhausted"}, Finish(s, outcome, status)
      PROVE  TaskStep
  <2>1. session[s].task \in Tasks
    BY <1>5 DEF TypeInv, Bound
  <2> QED BY <1>5, <2>1 DEF Finish, TaskStep, Kept, TaskRow
<1>6. ASSUME NEW s \in Sessions, Drive(s) PROVE TaskStep
  <2>1. CASE FailExecution(s) BY <2>1, <1>5 DEF FailExecution
  <2>2. CASE CompleteExecution(s) BY <2>2, <1>5 DEF CompleteExecution
  <2> QED BY <1>6, <1>4, <2>1, <2>2
          DEF Drive, TaskStep, ScheduleConflict, RefreshExecution, StartRunning, StartRefused,
              AttemptFailed, CompletionRefused
<1>7. CASE UNCHANGED vars
  BY <1>7 DEF vars, TaskStep
<1> QED BY <1>1, <1>3, <1>6, <1>7 DEF Next, TaskStep, CreateAgent, LoadTask,
        SelectReadyTask, SelectTask, Claim, LoadExecution, Crash

LEMMA StepOneInProgress ==
    ASSUME TypeInv, OneInProgressPerAgent, TaskStep PROVE OneInProgressPerAgent'
<1>1. CASE task' = task
  BY <1>1 DEF OneInProgressPerAgent
<1>2. ASSUME NEW t \in Tasks, Kept(t), \A u \in Tasks \ {t} : task'[u] = task[u]
      PROVE  OneInProgressPerAgent'
  BY <1>2 DEF OneInProgressPerAgent, Kept, OwnerFree
<1> QED BY <1>1, <1>2 DEF TaskStep

\* No agent owns two tasks in progress, whoever assigned them: a client, an edit
\* of a stale row, or the scheduler.
THEOREM InProgressExclusion == Spec => []OneInProgressPerAgent
<1>1. Init => OneInProgressPerAgent
  BY DEF Init, OneInProgressPerAgent, NoTask, Absent
<1>2. TypeInv /\ OneInProgressPerAgent /\ [Next]_vars => OneInProgressPerAgent'
  BY NextTaskStep, StepOneInProgress
<1> QED BY <1>1, <1>2, InitTypeInv, NextTypeInv, PTL DEF Spec

-----------------------------------------------------------------------------
(***************************************************************************)
(* The executions implement exclusive leases.                              *)
(***************************************************************************)
\* The lease of an agent with one active execution is that execution's task.
LEMMA LeaseOfActive ==
    ASSUME NEW rows, NEW e \in Executions, NEW a \in Agents, e \in Working(rows, a),
           \A f \in Working(rows, a) : f = e
    PROVE  LeaseOf(rows)[a] = rows[e].task
<1>1. (CHOOSE f \in Working(rows, a) : TRUE) \in Working(rows, a)
  OBVIOUS
<1> QED BY <1>1 DEF LeaseOf

LEMMA LeaseOfIdle ==
    ASSUME NEW rows, NEW a \in Agents, Working(rows, a) = {}
    PROVE  LeaseOf(rows)[a] = None
BY DEF LeaseOf

\* What the lease of an agent is when the exclusion properties hold.
LEMMA LeaseCharacterised ==
    ASSUME NEW rows,
           \A e, f \in Executions :
              /\ rows[e].state \in ActiveStates /\ rows[f].state \in ActiveStates
              /\ rows[e].agent = rows[f].agent
              => e = f
    PROVE  /\ LeaseOf(rows) = [a \in Agents |-> LeaseOf(rows)[a]]
           /\ \A a \in Agents :
                \/ /\ \A e \in Executions :
                         rows[e].state \in ActiveStates => rows[e].agent # a
                   /\ LeaseOf(rows)[a] = None
                \/ \E e \in Executions :
                     /\ rows[e].state \in ActiveStates /\ rows[e].agent = a
                     /\ LeaseOf(rows)[a] = rows[e].task
<1>1. LeaseOf(rows) = [a \in Agents |-> LeaseOf(rows)[a]]
  BY DEF LeaseOf
<1>2. ASSUME NEW a \in Agents, Working(rows, a) = {}
      PROVE  /\ \A e \in Executions : rows[e].state \in ActiveStates => rows[e].agent # a
             /\ LeaseOf(rows)[a] = None
  BY <1>2, LeaseOfIdle DEF Working
<1>3. ASSUME NEW a \in Agents, NEW e \in Working(rows, a)
      PROVE  /\ rows[e].state \in ActiveStates /\ rows[e].agent = a /\ e \in Executions
             /\ LeaseOf(rows)[a] = rows[e].task
  BY <1>3, LeaseOfActive DEF Working
<1> QED BY <1>1, <1>2, <1>3

\* A step acquires a lease, releases one or leaves all of them alone.
LEMMA StepLease ==
    ASSUME TypeInv, TypeInv', ExclusionInv, ExclusionInv', RowStep
    PROVE  [Leases!Next]_Lease
<1> DEFINE L == LeaseOf(execution)
           M == LeaseOf(execution')
           ActiveThen(e) == execution'[e].state \in ActiveStates
<1>1. /\ L = [a \in Agents |-> L[a]]
      /\ \A a \in Agents :
           \/ (\A e \in Executions : Active(e) => execution[e].agent # a) /\ L[a] = None
           \/ \E e \in Executions :
                 Active(e) /\ execution[e].agent = a /\ L[a] = execution[e].task
  <2>1. \A e, f \in Executions :
           /\ execution[e].state \in ActiveStates /\ execution[f].state \in ActiveStates
           /\ execution[e].agent = execution[f].agent
           => e = f
    BY DEF ExclusionInv, OneActivePerAgent, Active
  <2> QED BY <2>1, LeaseCharacterised DEF Active
<1>2. /\ M = [a \in Agents |-> M[a]]
      /\ \A a \in Agents :
           \/ (\A e \in Executions : ActiveThen(e) => execution'[e].agent # a) /\ M[a] = None
           \/ \E e \in Executions :
                 ActiveThen(e) /\ execution'[e].agent = a /\ M[a] = execution'[e].task
  <2>1. \A e, f \in Executions :
           /\ execution'[e].state \in ActiveStates /\ execution'[f].state \in ActiveStates
           /\ execution'[e].agent = execution'[f].agent
           => e = f
    BY DEF ExclusionInv, OneActivePerAgent, Active
  <2> QED BY <2>1, LeaseCharacterised
<1>3. Lease = L /\ Lease' = M
  BY DEF Lease
<1>4. /\ \A e, f \in Executions :
            /\ Active(e) /\ Active(f)
            /\ execution[e].agent = execution[f].agent \/ execution[e].task = execution[f].task
            => e = f
      /\ \A e, f \in Executions :
            /\ ActiveThen(e) /\ ActiveThen(f)
            /\ \/ execution'[e].agent = execution'[f].agent
               \/ execution'[e].task = execution'[f].task
            => e = f
  BY DEF ExclusionInv, OneActivePerAgent, OneActivePerTask, Active
<1>5. /\ \A e \in Executions :
            Active(e) => execution[e].task \in Tasks /\ execution[e].agent \in Agents
      /\ \A e \in Executions :
            ActiveThen(e) => execution'[e].task \in Tasks /\ execution'[e].agent \in Agents
  BY DEF TypeInv, Bound, Active, ActiveStates, Absent
<1>6. None \notin Tasks
  BY EngineAssumption DEF EngineAssumption
<1> HIDE DEF L, M
<1>7. CASE execution' = execution
  BY <1>3, <1>7 DEF L, M
<1>8. ASSUME NEW e \in Executions, Entered(e),
             \A f \in Executions \ {e} : execution'[f] = execution[f]
      PROVE  [Leases!Next]_Lease
  <2>0. \A f \in Executions \ {e} : ActiveThen(f) <=> Active(f)
    BY <1>8 DEF Active
  <2>1. CASE ~Active(e) /\ ~ActiveThen(e)
    <3>1. \A a \in Agents : M[a] = L[a]
      BY <1>1, <1>2, <1>4, <1>8, <2>0, <2>1
    <3> QED BY <1>1, <1>2, <1>3, <3>1
  <2>2. CASE Active(e) /\ ~ActiveThen(e)
    <3> DEFINE a == execution[e].agent
    <3>1. a \in Agents /\ L[a] # None /\ M[a] = None
      BY <1>1, <1>2, <1>4, <1>5, <1>6, <1>8, <2>0, <2>2
    <3>2. \A b \in Agents \ {a} : M[b] = L[b]
      BY <1>1, <1>2, <1>4, <1>8, <2>0, <2>2
    <3>3. M = [L EXCEPT ![a] = None]
      BY <1>1, <1>2, <3>1, <3>2
    <3> QED BY <1>3, <3>1, <3>3 DEF Leases!Next, Leases!Release
  <2>3. CASE Active(e) /\ ActiveThen(e)
    <3>1. execution'[e].task = execution[e].task /\ execution'[e].agent = execution[e].agent
      BY <1>8, <2>3 DEF Entered, Active
    <3>2. \A a \in Agents : M[a] = L[a]
      BY <1>1, <1>2, <1>4, <1>8, <2>0, <2>3, <3>1
    <3> QED BY <1>1, <1>2, <1>3, <3>2
  <2>4. CASE ~Active(e) /\ ActiveThen(e)
    <3> DEFINE a == execution'[e].agent
               t == execution'[e].task
    <3>1. TaskFree(t, e) /\ AgentFree(a, e)
      BY <1>8, <2>4 DEF Entered, Active
    <3>2. a \in Agents /\ t \in Tasks /\ L[a] = None /\ M[a] = t
      BY <1>1, <1>2, <1>4, <1>5, <1>8, <2>0, <2>4, <3>1 DEF AgentFree
    <3>3. \A b \in Agents \ {a} : M[b] = L[b]
      BY <1>1, <1>2, <1>4, <1>8, <2>0, <2>4
    <3>4. \A b \in Agents : L[b] # t
      BY <1>1, <1>6, <2>4, <3>1, <3>2 DEF TaskFree
    <3>5. M = [L EXCEPT ![a] = t]
      BY <1>1, <1>2, <3>2, <3>3
    <3> QED BY <1>3, <3>2, <3>4, <3>5 DEF Leases!Next, Leases!Acquire
  <2> QED BY <2>1, <2>2, <2>3, <2>4
<1> QED BY <1>7, <1>8 DEF RowStep

\* The Execution Engine implements AgentLease: agents and tasks are paired one to
\* one, and a pair is dissolved before either side enters another.
THEOREM LeaseRefinement == Spec => LeasesImplemented
<1>1. Init => Leases!Init
  BY DEF Init, Leases!Init, Lease, LeaseOf, Working, ActiveStates, NoExecution, Absent
<1>2. /\ TypeInv /\ ExclusionInv /\ [Next]_vars
      /\ (TypeInv /\ ExclusionInv)'
      => [Leases!Next]_Lease
  BY NextRowStep, StepLease
<1> QED BY <1>1, <1>2, Exclusion, PTL DEF Spec, LeasesImplemented, Leases!Spec

-----------------------------------------------------------------------------
(***************************************************************************)
(* Assignments.  A session that has claimed a task holds its row, so the   *)
(* row is the one it selected until the session itself writes it.          *)
(***************************************************************************)
Matched(t, a) ==
    /\ t \in Tasks /\ task[t].status = "READY"
    /\ a \in Dispatchable /\ Specialization[a] = task[t].need

ClaimInv ==
    /\ \A s \in Sessions :
          session[s].pc = "claimed" => Matched(session[s].task, session[s].agent)
    /\ \A s, r \in Sessions :
          session[s].pc = "claimed" /\ session[r].pc = "claimed"
            /\ session[s].task = session[r].task => s = r

\* A step lets claims stand or end, makes one on a task without any, or ends
\* one; and only the claim that it ends may be on a task that it writes.
ClaimsStand(S) ==
    \A s \in S : session'[s] = session[s] \/ session'[s].pc # "claimed"
ClaimStep ==
    \/ task' = task /\ ClaimsStand(Sessions)
    \/ \E t \in Tasks :
          /\ ClaimsStand(Sessions)
          /\ ~TaskLocked(t) \/ task[t].status = Absent
          /\ \A u \in Tasks \ {t} : task'[u] = task[u]
    \/ \E s \in Sessions :
          /\ session[s].pc = "claimed" /\ session'[s].pc # "claimed"
          /\ \A r \in Sessions \ {s} : session'[r] = session[r]
          /\ \A u \in Tasks \ {session[s].task} : task'[u] = task[u]
    \/ \E s \in Sessions :
          /\ Matched(session'[s].task, session'[s].agent) /\ ~TaskLocked(session'[s].task)
          /\ \A r \in Sessions \ {s} : session'[r] = session[r]
          /\ task' = task

\* An edit writes a row that nobody has claimed.
LEMMA CommitEditClaims ==
    ASSUME TypeInv, NEW s \in Sessions, NEW new, session[s].pc = "editing", CommitEdit(s, new)
    PROVE  ClaimStep
<1> DEFINE t == session[s].task
<1>1. t \in Tasks /\ ~TaskLocked(t) /\ \A u \in Tasks \ {t} : task'[u] = task[u]
  BY DEF CommitEdit, TypeInv, TypeOK, Bound
<1>2. ClaimsStand(Sessions)
  BY DEF CommitEdit, Close, ClaimsStand, TypeInv, TypeOK, Idle
<1> HIDE DEF t
<1> QED BY <1>1, <1>2 DEF ClaimStep

LEMMA FinishClaims ==
    ASSUME TypeInv, NEW s \in Sessions, NEW outcome, NEW status,
           session[s].pc \in {"running", "exhausted"}, Finish(s, outcome, status)
    PROVE  ClaimStep
<1> DEFINE t == session[s].task
<1>1. t \in Tasks /\ ~TaskLocked(t) /\ \A u \in Tasks \ {t} : task'[u] = task[u]
  BY DEF Finish, TypeInv, TypeOK, Bound
<1>2. ClaimsStand(Sessions)
  BY DEF Finish, Close, ClaimsStand, TypeInv, TypeOK, Idle
<1> HIDE DEF t
<1> QED BY <1>1, <1>2 DEF ClaimStep

LEMMA NextClaimStep == TypeInv /\ [Next]_vars => ClaimStep
<1> SUFFICES ASSUME TypeInv, [Next]_vars PROVE ClaimStep
  OBVIOUS
<1>0. task \in [Tasks -> TaskRow] /\ session \in [Sessions -> SessionState]
  BY DEF TypeInv, TypeOK
<1>1. ASSUME NEW t \in Tasks, NEW body \in NewTasks, CreateTask(t, body) PROVE ClaimStep
  BY <1>0, <1>1 DEF CreateTask, ClaimStep, ClaimsStand
<1>2. ASSUME NEW s \in Sessions, NEW t \in Tasks, Claim(s, t) PROVE ClaimStep
  <2>1. PICK a \in Compatible(t) :
            session' = [session EXCEPT ![s] = [Idle EXCEPT !.pc = "claimed", !.task = t,
                                                           !.agent = a]]
    BY <1>2 DEF Claim
  <2>2. session'[s].task = t /\ session'[s].agent = a
    BY <1>0, <2>1 DEF Idle
  <2>3. Matched(t, a) /\ ~TaskLocked(t) /\ task' = task
    BY <1>2 DEF Claim, Ready, Compatible, Matched
  <2>4. \A r \in Sessions \ {s} : session'[r] = session[r]
    BY <1>0, <2>1
  <2> QED BY <2>2, <2>3, <2>4 DEF ClaimStep
<1>3. ASSUME NEW s \in Sessions, NEW e \in Executions, ScheduleExecution(s, e) PROVE ClaimStep
  <2>1. session'[s].pc = "scheduled" /\ \A r \in Sessions \ {s} : session'[r] = session[r]
    BY <1>0, <1>3 DEF ScheduleExecution, SessionState
  <2>2. \A u \in Tasks \ {session[s].task} : task'[u] = task[u]
    BY <1>0, <1>3 DEF ScheduleExecution
  <2> QED BY <1>3, <2>1, <2>2 DEF ScheduleExecution, ClaimStep
<1>4. ASSUME NEW s \in Sessions, CancelExecution(s) PROVE ClaimStep
  <2> DEFINE t == session[s].task
  <2>1. t \in Tasks /\ ~TaskLocked(t) /\ \A u \in Tasks \ {t} : task'[u] = task[u]
    BY <1>0, <1>4 DEF CancelExecution, TypeInv, Bound
  <2>2. ClaimsStand(Sessions)
    BY <1>0, <1>4 DEF CancelExecution, Close, ClaimsStand, Idle
  <2> HIDE DEF t
  <2> QED BY <2>1, <2>2 DEF ClaimStep
<1>5. ASSUME NEW s \in Sessions, Drive(s) PROVE ClaimStep
  <2>1. CASE FailExecution(s) BY <2>1, FinishClaims DEF FailExecution
  <2>2. CASE CompleteExecution(s) BY <2>2, FinishClaims DEF CompleteExecution
  <2>3. CASE ScheduleConflict(s) \/ StartRefused(s) \/ CompletionRefused(s)
    BY <1>0, <2>3 DEF ScheduleConflict, StartRefused, CompletionRefused, Close, ClaimStep,
                      ClaimsStand, Idle
  <2>4. CASE RefreshExecution(s)
    BY <1>0, <2>4 DEF RefreshExecution, ClaimStep, ClaimsStand, SessionState
  <2>5. CASE StartRunning(s)
    BY <1>0, <2>5 DEF StartRunning, ClaimStep, ClaimsStand, SessionState
  <2>6. CASE AttemptFailed(s)
    BY <1>0, <2>6 DEF AttemptFailed, PhaseAfter, ClaimStep, ClaimsStand, SessionState
  <2> QED BY <1>3, <1>5, <2>1, <2>2, <2>3, <2>4, <2>5, <2>6 DEF Drive
<1>6. ASSUME NEW s \in Sessions, Edit(s) PROVE ClaimStep
  <2>1. CASE LoadExecutionTask(s)
    BY <1>0, <2>1 DEF LoadExecutionTask, ClaimStep, ClaimsStand, SessionState
  <2>2. CASE RejectEdit(s)
    BY <1>0, <2>2 DEF RejectEdit, Close, ClaimStep, ClaimsStand, Idle
  <2> QED BY <1>4, <1>6, <2>1, <2>2, CommitEditClaims DEF Edit, UpdateTask, AssignTask,
          CompleteTask
<1>7. ASSUME NEW s \in Sessions,
             \/ \E t \in Tasks : LoadTask(s, t)
             \/ \E e \in Executions : LoadExecution(s, e)
             \/ Crash(s)
      PROVE  ClaimStep
  <2>1. task' = task /\ \A r \in Sessions \ {s} : session'[r] = session[r]
    BY <1>0, <1>7 DEF LoadTask, LoadExecution, Crash, Close
  <2>2. ASSUME NEW t \in Tasks, LoadTask(s, t) PROVE session'[s].pc = "editing"
    BY <1>0, <2>2 DEF LoadTask, Idle
  <2>3. ASSUME NEW e \in Executions, LoadExecution(s, e) PROVE session'[s].pc = "found"
    BY <1>0, <2>3 DEF LoadExecution, Idle
  <2>4. CASE Crash(s)
    BY <1>0, <2>1, <2>4 DEF Crash, Close, ClaimStep, ClaimsStand, Idle
  <2> QED BY <1>7, <2>1, <2>2, <2>3, <2>4 DEF ClaimStep, ClaimsStand
<1>8. CASE UNCHANGED vars \/ \E a \in Agents : CreateAgent(a)
  BY <1>8 DEF vars, CreateAgent, ClaimStep, ClaimsStand
<1> QED BY <1>1, <1>2, <1>5, <1>6, <1>7, <1>8 DEF Next, SelectReadyTask, SelectTask

LEMMA StepClaimInv ==
    ASSUME ClaimInv, ClaimStep PROVE ClaimInv'
<1>1. CASE task' = task /\ ClaimsStand(Sessions)
  BY <1>1 DEF ClaimInv, ClaimsStand, Matched
<1>2. ASSUME NEW t \in Tasks, ClaimsStand(Sessions), ~TaskLocked(t) \/ task[t].status = Absent,
             \A u \in Tasks \ {t} : task'[u] = task[u]
      PROVE  ClaimInv'
  BY <1>2 DEF ClaimInv, ClaimsStand, Matched, TaskLocked, Absent
<1>3. ASSUME NEW s \in Sessions, session[s].pc = "claimed", session'[s].pc # "claimed",
             \A r \in Sessions \ {s} : session'[r] = session[r],
             \A u \in Tasks \ {session[s].task} : task'[u] = task[u]
      PROVE  ClaimInv'
  BY <1>3 DEF ClaimInv, Matched
<1>4. ASSUME NEW s \in Sessions, Matched(session'[s].task, session'[s].agent),
             ~TaskLocked(session'[s].task),
             \A r \in Sessions \ {s} : session'[r] = session[r], task' = task
      PROVE  ClaimInv'
  BY <1>4 DEF ClaimInv, Matched, TaskLocked
<1> QED BY <1>1, <1>2, <1>3, <1>4 DEF ClaimStep

\* A row appears in the table of executions only when a claim is committed.
LEMMA NewExecution ==
    ASSUME TypeInv, [Next]_vars, NEW e \in Executions,
           execution[e].state = Absent, execution'[e].state # Absent
    PROVE  \E s \in Sessions : ScheduleExecution(s, e)
<1>0. execution \in [Executions -> ExecutionRow]
  BY DEF TypeInv, TypeOK
<1>1. \A s \in Sessions : session[s].pc \notin {"idle", "editing", "claimed"} =>
          session[s].exec \in Executions \ {e}
  BY DEF TypeInv, Bound
<1>2. ASSUME NEW s \in Sessions, CancelExecution(s) PROVE FALSE
  BY <1>0, <1>1, <1>2 DEF CancelExecution
<1>3. ASSUME NEW s \in Sessions, Edit(s) PROVE FALSE
  BY <1>2, <1>3 DEF Edit, UpdateTask, AssignTask, CompleteTask, CommitEdit,
     LoadExecutionTask, RejectEdit
<1>4. ASSUME NEW s \in Sessions, Drive(s) PROVE \E r \in Sessions : ScheduleExecution(r, e)
  <2>1. ASSUME NEW f \in Executions, ScheduleExecution(s, f) PROVE f = e
    BY <1>0, <2>1 DEF ScheduleExecution
  <2>2. CASE StartRunning(s)
    BY <1>0, <1>1, <2>2 DEF StartRunning
  <2>3. CASE AttemptFailed(s)
    BY <1>0, <1>1, <2>3 DEF AttemptFailed
  <2>4. CASE FailExecution(s)
    BY <1>0, <1>1, <2>4 DEF FailExecution, Finish
  <2>5. CASE CompleteExecution(s)
    BY <1>0, <1>1, <2>5 DEF CompleteExecution, Finish
  <2> QED BY <1>4, <2>1, <2>2, <2>3, <2>4, <2>5
          DEF Drive, ScheduleConflict, RefreshExecution, StartRefused, CompletionRefused
<1> QED BY <1>3, <1>4 DEF Next, vars, CreateAgent, CreateTask, LoadTask,
        SelectReadyTask, SelectTask, Claim, LoadExecution, Crash

\* The task of an assignment that commits is still the one that was selected and
\* still asks for what its agent can do, whatever edits were made in between.
THEOREM AssignmentMatches == Spec => ClaimIsCompatible
<1>1. Init => ClaimInv
  BY DEF Init, ClaimInv, Idle
<1>2. TypeInv /\ ClaimInv /\ [Next]_vars => ClaimInv'
  BY NextClaimStep, StepClaimInv
<1>3. ASSUME TypeInv, ClaimInv, [Next]_vars, NEW e \in Executions,
             execution[e].state = Absent, execution'[e].state # Absent
      PROVE  /\ task[execution'[e].task].status = "READY"
             /\ execution'[e].agent \in Dispatchable
             /\ Specialization[execution'[e].agent] = task[execution'[e].task].need
  <2>1. PICK s \in Sessions : ScheduleExecution(s, e)
    BY <1>3, NewExecution
  <2>2. execution'[e].task = session[s].task /\ execution'[e].agent = session[s].agent
    BY <1>3, <2>1 DEF ScheduleExecution, TypeInv, TypeOK
  <2> QED BY <1>3, <2>1, <2>2 DEF ScheduleExecution, ClaimInv, Matched
<1>4. TypeInv /\ ClaimInv /\ [Next]_vars =>
          [\A e \in Executions :
             execution[e].state = Absent /\ execution'[e].state # Absent =>
               LET t == execution'[e].task
                   a == execution'[e].agent
               IN  /\ task[t].status = "READY"
                   /\ a \in Dispatchable /\ Specialization[a] = task[t].need]_vars
  BY <1>3
<1> QED BY <1>1, <1>2, <1>4, InitTypeInv, NextTypeInv, PTL DEF Spec, ClaimIsCompatible

\* An agent and a task are assigned to each other only when they match, and then
\* hold each other alone until the lease is over.
THEOREM ClaimsRefinement == Spec => ClaimsImplemented
BY AssignmentMatches, LeaseRefinement, PTL DEF ClaimsImplemented

\* What the three indexes are for, together: no task and no agent has two active
\* executions, and no agent owns two tasks in progress.
THEOREM ThreeExclusions == Spec => []TasksExclusive
<1>1. OneActivePerTask /\ OneActivePerAgent /\ OneInProgressPerAgent => TasksExclusive
  BY DEF TasksExclusive
<1> QED BY <1>1, TaskExclusion, AgentExclusion, InProgressExclusion, PTL

-----------------------------------------------------------------------------
(***************************************************************************)
(* Drivers.  An execution is moved on by the session that scheduled it and *)
(* by nobody else; others can only cancel it, on what they read earlier.   *)
(***************************************************************************)
Driving == {"scheduled", "refreshed", "running", "exhausted"}
Outcomes == {"COMPLETED", "FAILED"}

\* An execution has one driver, as long as it is active one that is alive, and none
\* once its outcome is recorded.
OneDriver == \A s, r \in Sessions, e \in Executions : Drives(s, e) /\ Drives(r, e) => s = r
ActiveDriven ==
    \A e \in Executions \ abandoned : Active(e) => \E s \in Sessions : Drives(s, e)
OutcomeFinal ==
    \A e \in Executions, s \in Sessions : execution[e].state \in Outcomes => ~Drives(s, e)

\* What a driver holds in memory tells of the row: before it runs, only a cancellation
\* can have changed it, and a driver that saw one finds it still there.
DriverKnows(s) ==
    LET q == session[s]
    IN  /\ q.pc \in {"scheduled", "refreshed"} =>
               execution[q.exec].state \in {"ASSIGNED", "CANCELLED"}
        /\ q.pc = "refreshed" => q.state = "ASSIGNED" \/ execution[q.exec].state = "CANCELLED"
        /\ q.pc \in {"running", "exhausted"} => q.attempt > 0
        /\ q.pc = "exhausted" => q.attempt = MaxAttempts

DriveInv ==
    /\ OneDriver /\ ActiveDriven /\ OutcomeFinal /\ ExhaustedBeforeFailed
    /\ \A s \in Sessions : DriverKnows(s)

\* Sessions that neither drive before nor after a step, and executions left alone.
LEMMA QuietDrive ==
    ASSUME DriveInv, execution' = execution, abandoned \subseteq abandoned',
           \A r \in Sessions :
               session'[r] = session[r]
                 \/ (session[r].pc \notin Driving /\ session'[r].pc \notin Driving)
    PROVE  DriveInv'
<1>1. \A r \in Sessions, e \in Executions : Drives(r, e)' <=> Drives(r, e)
  BY DEF Drives, Driving
<1>2. OneDriver' /\ ActiveDriven' /\ OutcomeFinal' /\ ExhaustedBeforeFailed'
  BY <1>1 DEF DriveInv, OneDriver, ActiveDriven, OutcomeFinal, ExhaustedBeforeFailed, Active
<1>3. \A r \in Sessions : DriverKnows(r)'
  BY DEF DriveInv, DriverKnows, Driving
<1> QED BY <1>2, <1>3 DEF DriveInv

\* The driver of an execution goes on.
LEMMA DriverGoesOn ==
    ASSUME TypeInv, DriveInv, NEW s \in Sessions, NEW e \in Executions, Drives(s, e), Drives(s, e)',
           \A r \in Sessions \ {s} : session'[r] = session[r],
           \A f \in Executions \ {e} : execution'[f] = execution[f],
           abandoned' = abandoned, DriverKnows(s)',
           execution'[e].state \notin Outcomes
    PROVE  DriveInv'
<1>1. \A r \in Sessions, f \in Executions : Drives(r, f)' <=> Drives(r, f)
  BY DEF Drives
<1>2. OneDriver'
  BY <1>1 DEF DriveInv, OneDriver
<1>3. ActiveDriven'
  BY <1>1 DEF DriveInv, ActiveDriven, Active
<1>4. OutcomeFinal'
  BY <1>1 DEF DriveInv, OutcomeFinal, Outcomes
<1>5. ExhaustedBeforeFailed'
  BY DEF DriveInv, ExhaustedBeforeFailed, Outcomes
<1>6. \A r \in Sessions : DriverKnows(r)'
  <2>1. ASSUME NEW r \in Sessions \ {s}, session[r].pc \in Driving PROVE session[r].exec \in Executions \ {e}
    <3>1. session[r].exec \in Executions
      BY <2>1 DEF TypeInv, Bound, Driving
    <3>2. session[r].exec # e
      BY <2>1 DEF DriveInv, OneDriver, Drives, Driving
    <3> QED BY <3>1, <3>2
  <2> QED BY <2>1 DEF DriveInv, DriverKnows, Driving
<1> QED BY <1>2, <1>3, <1>4, <1>5, <1>6 DEF DriveInv

\* The driver of an execution stops: the execution is over, or it is abandoned.
LEMMA DriverStops ==
    ASSUME TypeInv, DriveInv, NEW s \in Sessions, NEW e \in Executions, Drives(s, e), Close(s),
           \A f \in Executions \ {e} : execution'[f] = execution[f],
           abandoned \subseteq abandoned', Active(e)' => e \in abandoned',
           execution'[e].state = "FAILED" => execution'[e].attempts = MaxAttempts,
           execution'[e].state = "COMPLETED" => execution'[e].attempts > 0
    PROVE  DriveInv'
<1>1. /\ session'[s] = Idle
      /\ \A r \in Sessions \ {s} : session'[r] = session[r]
  BY DEF Close, TypeInv, TypeOK
<1>2. \A f \in Executions : ~Drives(s, f)'
  BY <1>1 DEF Drives, Idle
<1>3. \A r \in Sessions \ {s}, f \in Executions : Drives(r, f)' <=> Drives(r, f)
  BY <1>1 DEF Drives
<1>4. \A r \in Sessions \ {s} : ~Drives(r, e)
  BY DEF DriveInv, OneDriver
<1>5. OneDriver'
  BY <1>2, <1>3 DEF DriveInv, OneDriver
<1>6. ActiveDriven'
  <2> SUFFICES ASSUME NEW f \in Executions, f \notin abandoned', Active(f)'
               PROVE  \E r \in Sessions : Drives(r, f)'
    BY DEF ActiveDriven
  <2>1. f # e /\ Active(f)
    BY DEF Active
  <2>2. PICK r \in Sessions : Drives(r, f)
    BY <2>1 DEF DriveInv, ActiveDriven
  <2>3. r # s
    BY <2>1, <2>2 DEF Drives
  <2> QED BY <1>3, <2>2, <2>3
<1>7. OutcomeFinal'
  BY <1>2, <1>3, <1>4 DEF DriveInv, OutcomeFinal
<1>8. ExhaustedBeforeFailed'
  BY DEF DriveInv, ExhaustedBeforeFailed
<1>9. \A r \in Sessions : DriverKnows(r)'
  <2>1. DriverKnows(s)'
    BY <1>1 DEF DriverKnows, Idle
  <2>2. ASSUME NEW r \in Sessions \ {s}, session[r].pc \in Driving PROVE session[r].exec \in Executions \ {e}
    <3>1. session[r].exec \in Executions
      BY <2>2 DEF TypeInv, Bound, Driving
    <3>2. session[r].exec # e
      BY <1>4, <2>2 DEF Drives, Driving
    <3> QED BY <3>1, <3>2
  <2> QED BY <1>1, <2>1, <2>2 DEF DriveInv, DriverKnows, Driving
<1> QED BY <1>5, <1>6, <1>7, <1>8, <1>9 DEF DriveInv

LEMMA ScheduleDrive ==
    ASSUME TypeInv, DriveInv, NEW s \in Sessions, NEW e \in Executions, ScheduleExecution(s, e)
    PROVE  DriveInv'
<1>1. /\ session'[s].exec = e /\ session'[s].pc = "scheduled"
      /\ \A r \in Sessions \ {s} : session'[r] = session[r]
      /\ execution[e].state = Absent
      /\ execution'[e].state = "ASSIGNED"
      /\ \A f \in Executions \ {e} : execution'[f] = execution[f]
      /\ abandoned' = abandoned /\ session[s].pc = "claimed"
  BY DEF ScheduleExecution, TypeInv, TypeOK, SessionState
<1>2. \A r \in Sessions : ~Drives(r, e)
  BY <1>1 DEF TypeInv, Bound, Drives
<1>3. \A f \in Executions : Drives(s, f)' <=> f = e
  BY <1>1 DEF Drives
<1>4. \A r \in Sessions \ {s}, f \in Executions : Drives(r, f)' <=> Drives(r, f)
  BY <1>1 DEF Drives
<1>5. OneDriver'
  BY <1>2, <1>3, <1>4 DEF DriveInv, OneDriver
<1>6. ActiveDriven'
  <2> SUFFICES ASSUME NEW f \in Executions, f \notin abandoned', Active(f)', f # e
               PROVE  \E r \in Sessions : Drives(r, f)'
    BY <1>3 DEF ActiveDriven
  <2>1. PICK r \in Sessions : Drives(r, f)
    BY <1>1 DEF DriveInv, ActiveDriven, Active
  <2>2. r # s
    BY <1>1, <2>1 DEF Drives
  <2> QED BY <1>4, <2>1, <2>2
<1>7. OutcomeFinal'
  BY <1>1, <1>3, <1>4 DEF DriveInv, OutcomeFinal, Outcomes
<1>8. ExhaustedBeforeFailed'
  BY <1>1 DEF DriveInv, ExhaustedBeforeFailed
<1>9. \A r \in Sessions : DriverKnows(r)'
  <2>1. DriverKnows(s)'
    BY <1>1 DEF DriverKnows
  <2>2. ASSUME NEW r \in Sessions \ {s}, session[r].pc \in Driving PROVE session[r].exec \in Executions \ {e}
    BY <1>1, <2>2 DEF TypeInv, Bound, Driving
  <2> QED BY <1>1, <2>1, <2>2 DEF DriveInv, DriverKnows, Driving
<1> QED BY <1>5, <1>6, <1>7, <1>8, <1>9 DEF DriveInv

\* A cancellation meets the execution in any state, its driver and outcome included.
LEMMA CancelDrive ==
    ASSUME TypeInv, DriveInv, NEW s \in Sessions, CancelExecution(s)
    PROVE  DriveInv'
<1> DEFINE e == session[s].exec
<1>1. e \in Executions
  BY DEF CancelExecution, TypeInv, Bound
<1>2. /\ execution'[e].state = "CANCELLED"
      /\ \A f \in Executions \ {e} : execution'[f] = execution[f]
      /\ session'[s].pc = "idle" /\ session[s].pc = "cancelling"
      /\ \A r \in Sessions \ {s} : session'[r] = session[r]
      /\ abandoned' = abandoned
  BY <1>1 DEF CancelExecution, Close, Idle, TypeInv, TypeOK, ExecutionRow
<1> HIDE DEF e
<1>3. \A r \in Sessions, f \in Executions : Drives(r, f)' <=> Drives(r, f)
  BY <1>2 DEF Drives
<1>4. OneDriver'
  BY <1>3 DEF DriveInv, OneDriver
<1>5. ActiveDriven'
  BY <1>2, <1>3 DEF DriveInv, ActiveDriven, Active, ActiveStates
<1>6. OutcomeFinal'
  BY <1>2, <1>3 DEF DriveInv, OutcomeFinal, Outcomes
<1>7. ExhaustedBeforeFailed'
  BY <1>2 DEF DriveInv, ExhaustedBeforeFailed
<1>8. \A r \in Sessions : DriverKnows(r)'
  <2>1. ASSUME NEW r \in Sessions, session[r].pc \in Driving PROVE session[r].exec \in Executions
    BY <2>1 DEF TypeInv, Bound, Driving
  <2> QED BY <1>2, <2>1 DEF DriveInv, DriverKnows, Driving
<1> QED BY <1>4, <1>5, <1>6, <1>7, <1>8 DEF DriveInv

\* An execution that is active has its index entries.
LEMMA ActiveIndexed ==
    ASSUME ExclusionInv, NEW e \in Executions, Active(e)
    PROVE  Indexed(e)
BY DEF ExclusionInv, OneActivePerTask, OneActivePerAgent, Indexed, TaskFree, AgentFree

LEMMA DriveDrive ==
    ASSUME TypeInv, ExclusionInv, DriveInv, NEW s \in Sessions, Drive(s)
    PROVE  DriveInv'
<1> PICK e : e = session[s].exec
  OBVIOUS
<1>0. /\ session[s] \in SessionState /\ session \in [Sessions -> SessionState]
      /\ execution \in [Executions -> ExecutionRow]
      /\ session[s].pc \in Driving => e \in Executions /\ Drives(s, e)
  BY DEF TypeInv, TypeOK, Bound, Driving, Drives
<1>1. CASE ScheduleConflict(s)
  BY <1>0, <1>1, QuietDrive DEF ScheduleConflict, Close, Idle, Driving
<1>2. CASE RefreshExecution(s)
  <2>1. /\ e \in Executions /\ Drives(s, e) /\ session[s].pc = "scheduled"
        /\ session'[s].pc = "refreshed" /\ session'[s].exec = e
        /\ session'[s].state = execution[e].state
        /\ \A r \in Sessions \ {s} : session'[r] = session[r]
        /\ execution' = execution /\ abandoned' = abandoned
    BY <1>0, <1>2 DEF RefreshExecution, Driving, SessionState
  <2>2. execution[e].state \in {"ASSIGNED", "CANCELLED"}
    BY <2>1 DEF DriveInv, DriverKnows
  <2>3. Drives(s, e)' /\ DriverKnows(s)'
    BY <2>1, <2>2 DEF Drives, DriverKnows
  <2> QED BY <2>1, <2>2, <2>3, DriverGoesOn DEF Outcomes
<1>3. CASE StartRunning(s)
  <2>1. /\ e \in Executions /\ Drives(s, e)
        /\ session'[s].pc = "running" /\ session'[s].exec = e /\ session'[s].attempt = 1
        /\ \A r \in Sessions \ {s} : session'[r] = session[r]
        /\ execution'[e].state = "RUNNING"
        /\ \A f \in Executions \ {e} : execution'[f] = execution[f]
        /\ abandoned' = abandoned
    BY <1>0, <1>3 DEF StartRunning, Driving, SessionState, ExecutionRow
  <2>2. Drives(s, e)' /\ DriverKnows(s)'
    BY <2>1 DEF Drives, DriverKnows
  <2> QED BY <2>1, <2>2, DriverGoesOn DEF Outcomes
<1>4. CASE StartRefused(s)
  <2>1. /\ e \in Executions /\ Drives(s, e) /\ Close(s) /\ session[s].pc = "refreshed"
        /\ execution' = execution /\ abandoned' = abandoned
    BY <1>0, <1>4 DEF StartRefused, Driving
  <2>2. ~Active(e)
    <3>1. CASE ~MaySet(s, "RUNNING")
      <4>1. session[s].state # "ASSIGNED"
        BY <3>1 DEF MaySet, AllowedTransitions
      <4>2. execution[e].state = "CANCELLED"
        BY <2>1, <4>1 DEF DriveInv, DriverKnows
      <4> QED BY <4>2 DEF Active, ActiveStates
    <3>2. CASE ~Indexed(e)
      BY <2>1, <3>2, ActiveIndexed
    <3> QED BY <1>4, <3>1, <3>2 DEF StartRefused
  <2>3. ~Active(e)' /\ ExhaustedBeforeFailed
    BY <2>1, <2>2 DEF Active, DriveInv
  <2> QED BY <2>1, <2>3, DriverStops DEF ExhaustedBeforeFailed
<1>5. CASE AttemptFailed(s)
  <2> DEFINE n == session[s].attempt
             next == IF MayRetry(n) THEN n + 1 ELSE n
  <2>1. /\ e \in Executions /\ Drives(s, e)
        /\ session[s].pc = "running" /\ n \in Nat /\ n > 0 /\ n <= MaxAttempts /\ MaxAttempts \in Nat
    <3>1. e \in Executions /\ Drives(s, e) /\ session[s].pc = "running" /\ n \in 0..MaxAttempts
      BY <1>0, <1>5 DEF AttemptFailed, Driving, SessionState
    <3>2. n > 0
      BY <3>1 DEF DriveInv, DriverKnows
    <3> QED BY <3>1, <3>2, EngineAssumption DEF MaxAttempts, EngineAssumption
  <2>2. /\ session'[s].pc = PhaseAfter(n) /\ session'[s].exec = e /\ session'[s].attempt = next
        /\ \A r \in Sessions \ {s} : session'[r] = session[r]
        /\ \A f \in Executions \ {e} : execution'[f] = execution[f]
        /\ execution'[e].state = execution[e].state
        /\ abandoned' = abandoned
    BY <1>0, <1>5, <2>1 DEF AttemptFailed, SessionState, ExecutionRow
  <2>3. /\ PhaseAfter(n) \in {"running", "exhausted"}
        /\ PhaseAfter(n) = "exhausted" => next = MaxAttempts
        /\ next > 0
    BY <2>1 DEF PhaseAfter, MayRetry
  <2>4. execution[e].state \notin Outcomes
    BY <2>1 DEF DriveInv, OutcomeFinal
  <2> HIDE DEF n, next
  <2>5. Drives(s, e)' /\ DriverKnows(s)'
    BY <2>2, <2>3 DEF Drives, DriverKnows
  <2> QED BY <2>1, <2>2, <2>4, <2>5, DriverGoesOn
<1>6. ASSUME NEW outcome \in Outcomes, NEW status, Finish(s, outcome, status),
             session[s].pc \in {"running", "exhausted"},
             outcome = "FAILED" => session[s].pc = "exhausted"
      PROVE  DriveInv'
  <2>1. /\ e \in Executions /\ Drives(s, e) /\ Close(s)
        /\ \A f \in Executions \ {e} : execution'[f] = execution[f]
        /\ execution'[e].state = outcome /\ execution'[e].attempts = session[s].attempt
        /\ abandoned' = abandoned
    BY <1>0, <1>6 DEF Finish, Driving, ExecutionRow
  <2>2. session[s].attempt > 0 /\ (outcome = "FAILED" => session[s].attempt = MaxAttempts)
    BY <1>6 DEF DriveInv, DriverKnows
  <2>3. ~Active(e)'
    BY <2>1 DEF Active, ActiveStates, Outcomes
  <2> QED BY <2>1, <2>2, <2>3, DriverStops
<1>7. CASE CompletionRefused(s)
  <2>1. /\ e \in Executions /\ Drives(s, e) /\ Close(s)
        /\ execution' = execution /\ abandoned' = abandoned
    BY <1>0, <1>7 DEF CompletionRefused, Driving
  <2>2. ~Active(e)' /\ ExhaustedBeforeFailed
    BY <1>7, <2>1, ActiveIndexed DEF CompletionRefused, Active, DriveInv
  <2> QED BY <2>1, <2>2, DriverStops DEF ExhaustedBeforeFailed
<1>8. CASE FailExecution(s)
  BY <1>6, <1>8 DEF FailExecution, Outcomes
<1>9. CASE CompleteExecution(s)
  BY <1>6, <1>9 DEF CompleteExecution, Outcomes
<1> QED BY <1>1, <1>2, <1>3, <1>4, <1>5, <1>7, <1>8, <1>9, ScheduleDrive DEF Drive

LEMMA NextDriveInv ==
    ASSUME TypeInv, ExclusionInv, DriveInv, [Next]_vars
    PROVE  DriveInv'
<1>0. session \in [Sessions -> SessionState]
  BY DEF TypeInv, TypeOK
<1>1. CASE UNCHANGED vars \/ \E a \in Agents : CreateAgent(a)
  BY <1>1, QuietDrive DEF vars, CreateAgent
<1>2. ASSUME NEW t \in Tasks, NEW body \in NewTasks, CreateTask(t, body) PROVE DriveInv'
  BY <1>2, QuietDrive DEF CreateTask
<1>3. ASSUME NEW s \in Sessions, NEW q, q.pc \notin Driving, session[s].pc \notin Driving,
             session' = [session EXCEPT ![s] = q], execution' = execution,
             abandoned \subseteq abandoned'
      PROVE  DriveInv'
  BY <1>0, <1>3, QuietDrive
<1>4. ASSUME NEW s \in Sessions, NEW t \in Tasks, LoadTask(s, t) PROVE DriveInv'
  BY <1>3, <1>4 DEF LoadTask, Idle, Driving
<1>5. ASSUME NEW s \in Sessions, NEW t \in Tasks, Claim(s, t) PROVE DriveInv'
  BY <1>3, <1>5 DEF Claim, Idle, Driving
<1>6. ASSUME NEW s \in Sessions, NEW e \in Executions, LoadExecution(s, e) PROVE DriveInv'
  BY <1>3, <1>6 DEF LoadExecution, Idle, Driving
<1>7. ASSUME NEW s \in Sessions, Edit(s) PROVE DriveInv'
  <2>1. CASE LoadExecutionTask(s)
    BY <1>0, <2>1, QuietDrive DEF LoadExecutionTask, SessionState, Driving
  <2>2. ASSUME Close(s), session[s].pc \notin Driving, execution' = execution, abandoned' = abandoned
        PROVE  DriveInv'
    BY <1>3, <2>2 DEF Close, Idle, Driving
  <2> QED BY <1>7, <2>1, <2>2, CancelDrive DEF Edit, UpdateTask, AssignTask, CompleteTask,
          CommitEdit, RejectEdit, Driving
<1>8. ASSUME NEW s \in Sessions, Crash(s) PROVE DriveInv'
  <2>1. Close(s) /\ execution' = execution /\ abandoned \subseteq abandoned'
    BY <1>8 DEF Crash
  <2>2. CASE session[s].pc \notin Driving
    BY <1>3, <2>1, <2>2 DEF Close, Idle, Driving
  <2>3. CASE session[s].pc \in Driving
    <3> DEFINE e == session[s].exec
    <3>1. e \in Executions /\ Drives(s, e) /\ e \in abandoned'
      BY <1>8, <2>3 DEF Crash, TypeInv, Bound, Drives, Driving
    <3>2. ExhaustedBeforeFailed
      BY DEF DriveInv
    <3> HIDE DEF e
    <3> QED BY <2>1, <3>1, <3>2, DriverStops DEF ExhaustedBeforeFailed
  <2> QED BY <2>2, <2>3
<1> QED BY <1>1, <1>2, <1>4, <1>5, <1>6, <1>7, <1>8, DriveDrive DEF Next, SelectReadyTask, SelectTask

LEMMA Driven == Spec => [](TypeInv /\ ExclusionInv /\ DriveInv)
<1>1. Init => DriveInv
  BY DEF Init, Idle, NoExecution, DriveInv, OneDriver, ActiveDriven, OutcomeFinal,
         ExhaustedBeforeFailed, DriverKnows, Drives, Active, ActiveStates, Outcomes, Absent
<1>2. TypeInv /\ ExclusionInv /\ DriveInv /\ [Next]_vars => DriveInv'
  BY NextDriveInv
<1> QED BY <1>1, <1>2, Exclusion, PTL DEF Spec

\* An active execution has exactly one session behind it unless that session died, and
\* none fails with attempts left, however cancellations and retries interleave.
THEOREM RunsAreDriven == Spec => []RunsDriven
<1>1. DriveInv => RunsDriven
  <2> SUFFICES ASSUME DriveInv PROVE RunsDriven
    OBVIOUS
  <2>1. ActiveHasDriver
    BY DEF DriveInv, OneDriver, ActiveDriven, ActiveHasDriver
  <2> QED BY <2>1 DEF DriveInv, RunsDriven
<1> QED BY <1>1, Driven, PTL

\* Whoever writes an execution with a recorded outcome cancels it.
LEMMA OutcomeStands ==
    ASSUME TypeInv, DriveInv, [Next]_vars, NEW e \in Executions, execution[e].state \in Outcomes
    PROVE  execution'[e].state \in {execution[e].state, "CANCELLED"}
<1>0. execution \in [Executions -> ExecutionRow]
  BY DEF TypeInv, TypeOK
<1>1. \A s \in Sessions : session[s].pc \in Driving => session[s].exec \in Executions \ {e}
  BY DEF DriveInv, OutcomeFinal, Drives, TypeInv, Bound, Driving
<1>2. ASSUME NEW s \in Sessions, CancelExecution(s)
      PROVE  execution'[e].state \in {execution[e].state, "CANCELLED"}
  BY <1>0, <1>2 DEF CancelExecution, ExecutionRow
<1>3. ASSUME NEW s \in Sessions, Edit(s)
      PROVE  execution'[e].state \in {execution[e].state, "CANCELLED"}
  BY <1>2, <1>3 DEF Edit, UpdateTask, AssignTask, CompleteTask, CommitEdit,
     LoadExecutionTask, RejectEdit
<1>4. ASSUME NEW s \in Sessions, Drive(s) PROVE execution'[e] = execution[e]
  <2>1. ASSUME NEW f \in Executions, ScheduleExecution(s, f) PROVE execution'[e] = execution[e]
    BY <1>0, <2>1 DEF ScheduleExecution, Outcomes, Absent
  <2>2. CASE StartRunning(s)
    BY <1>0, <1>1, <2>2 DEF StartRunning, Driving
  <2>3. CASE AttemptFailed(s)
    BY <1>0, <1>1, <2>3 DEF AttemptFailed, Driving
  <2>4. CASE FailExecution(s)
    BY <1>0, <1>1, <2>4 DEF FailExecution, Finish, Driving
  <2>5. CASE CompleteExecution(s)
    BY <1>0, <1>1, <2>5 DEF CompleteExecution, Finish, Driving
  <2> QED BY <1>4, <2>1, <2>2, <2>3, <2>4, <2>5
          DEF Drive, ScheduleConflict, RefreshExecution, StartRefused, CompletionRefused
<1> QED BY <1>3, <1>4 DEF Next, vars, CreateAgent, CreateTask, LoadTask,
        SelectReadyTask, SelectTask, Claim, LoadExecution, Crash

\* A recorded outcome is not replaced by the other one, and a finished execution is not
\* started again: only a cancellation that was read earlier may follow.
THEOREM OutcomesStand == Spec => OutcomeNotRewritten
<1>1. TypeInv /\ DriveInv /\ [Next]_vars =>
          [\A e \in Executions :
             execution[e].state \in {"COMPLETED", "FAILED"} =>
                 execution'[e].state \in {execution[e].state, "CANCELLED"}]_vars
  BY OutcomeStands DEF Outcomes
<1> QED BY <1>1, Driven, PTL DEF Spec, OutcomeNotRewritten

=============================================================================
