------------------------- MODULE ScheduledResearch -------------------------
(***************************************************************************)
(* Scheduled Research: schedules, the slots they fall due at, and the      *)
(* processes that answer POST /schedules/run.                              *)
(*                                                                         *)
(* run_due locks all due schedules in one SELECT ... FOR UPDATE SKIP       *)
(* LOCKED, but the first commit ends that transaction and with it every    *)
(* lock, while the rows of the later schedules stay in memory as they were *)
(* read (expire_on_commit=False).  A rollback, in contrast, expires them.  *)
(* Time is counted in periods of the schedule type, so that the slot after *)
(* slot n is n + 1.                                                        *)
(***************************************************************************)
EXTENDS Naturals, Sequences, FiniteSets

CONSTANTS Schedules,    \* schedule ids, in id order
          Workers,      \* requests of POST /schedules/run in progress at once
          Executions,   \* ids that schedule_executions may allocate, in id order
          MaxTime,      \* the clock stops here
          MaxAttempts,  \* max_attempts of the retry policies
          Expired,      \* next_run_at of a row that a rollback has expired
          Crashes       \* whether a request may die between two steps

ASSUME SchedulerAssumption ==
    /\ Schedules \subseteq Nat \ {0} /\ IsFiniteSet(Schedules)
    /\ Executions \subseteq Nat \ {0}
    /\ MaxTime \in Nat
    /\ MaxAttempts \in 1..3
    /\ Crashes \in BOOLEAN
    /\ Expired \notin Nat

Slots == 0..(MaxTime + 1)
None == 0           \* no execution: ids are positive
Status == {"ABSENT", "RUNNING", "COMPLETED", "FAILED", "DELETED"}

VARIABLES clock,
          schedule,     \* table schedules
          execution,    \* table schedule_executions
          worker,       \* what each request holds in memory, and its row locks
          abandoned     \* history: executions whose request died

vars == <<clock, schedule, execution, worker, abandoned>>

ScheduleRow == [live : {"absent", "live", "deleted"}, enabled : BOOLEAN, next : Slots]
ExecutionRow == [status : Status, schedule : Schedules \cup {None}, slot : Slots,
                 attempts : 0..MaxAttempts]
NoExecution == [status |-> "ABSENT", schedule |-> None, slot |-> 0, attempts |-> 0]
WorkerState == [pc : {"idle", "loop", "checked", "launching", "ending"},
                todo : Seq(Schedules), seen : [Schedules -> Slots \cup {Expired}],
                locks : SUBSET Schedules, exec : Executions \cup {None},
                attempt : 0..MaxAttempts, outcome : {"none", "COMPLETED", "FAILED"}]
Idle == [pc |-> "idle", todo |-> <<>>, seen |-> [i \in Schedules |-> Expired],
         locks |-> {}, exec |-> None, attempt |-> 0, outcome |-> "none"]

TypeOK ==
    /\ clock \in 0..MaxTime
    /\ schedule \in [Schedules -> ScheduleRow]
    /\ execution \in [Executions -> ExecutionRow]
    /\ worker \in [Workers -> WorkerState]
    /\ abandoned \subseteq Executions

Init ==
    /\ clock = 0
    /\ schedule = [i \in Schedules |-> [live |-> "absent", enabled |-> FALSE, next |-> 0]]
    /\ execution = [e \in Executions |-> NoExecution]
    /\ worker = [w \in Workers |-> Idle]
    /\ abandoned = {}

-----------------------------------------------------------------------------
Live(i) == schedule[i].live = "live"
Running(i) == {e \in Executions : execution[e].status = "RUNNING" /\ execution[e].schedule = i}
Locked(i) == \E w \in Workers : i \in worker[w].locks
NextSlot(n) == IF n < MaxTime + 1 THEN n + 1 ELSE n     \* next_run_at, bounded

Due(i) == Live(i) /\ schedule[i].enabled /\ schedule[i].next <= clock

\* ORDER BY next_run_at, id
Sorted(due) ==
    {q \in [1..Cardinality(due) -> due] :
        \A m, n \in DOMAIN q : m < n =>
            \/ schedule[q[m]].next < schedule[q[n]].next
            \/ schedule[q[m]].next = schedule[q[n]].next /\ q[m] < q[n]}

Tick ==
    /\ clock < MaxTime
    /\ clock' = clock + 1
    /\ UNCHANGED <<schedule, execution, worker, abandoned>>

-----------------------------------------------------------------------------
(***************************************************************************)
(* create, update, delete                                                  *)
(***************************************************************************)
\* The first slot is start_at when it lies ahead, else one period from now.
Create(i, start) ==
    /\ schedule[i].live = "absent"
    /\ schedule' = [schedule EXCEPT ![i] =
                       [live |-> "live", enabled |-> TRUE,
                        next |-> IF start >= clock THEN start ELSE NextSlot(start)]]
    /\ UNCHANGED <<clock, execution, worker, abandoned>>

\* PATCH waits for a row lock; a change of the recurrence restarts it from now.
Update(i, enabled, retimed) ==
    /\ Live(i)
    /\ ~Locked(i)
    /\ schedule' = [schedule EXCEPT ![i] =
                       [live |-> "live", enabled |-> enabled,
                        next |-> IF retimed THEN NextSlot(clock) ELSE @.next]]
    /\ UNCHANGED <<clock, execution, worker, abandoned>>

\* The executions go with the schedule (cascade="all, delete-orphan").
Delete(i) ==
    /\ Live(i)
    /\ ~Locked(i)
    /\ schedule' = [schedule EXCEPT ![i].live = "deleted"]
    /\ execution' = [e \in Executions |->
                        IF execution[e].schedule = i
                        THEN [execution[e] EXCEPT !.status = "DELETED"]
                        ELSE execution[e]]
    /\ UNCHANGED <<clock, worker, abandoned>>

-----------------------------------------------------------------------------
(***************************************************************************)
(* run_due                                                                 *)
(***************************************************************************)
\* Bound: a request starts only while ids are left for all that may be claimed.
Room(due) ==
    Cardinality({e \in Executions : execution[e].status = "ABSENT"}) >=
        Cardinality(due) + Cardinality({x \in Workers \X Schedules :
            \E n \in DOMAIN worker[x[1]].todo : worker[x[1]].todo[n] = x[2]})

RowLocks_NoForUpdate(due) == {}
RowLocks(due) == due

RunDue(w) ==
    LET due == {i \in Schedules : Due(i) /\ ~Locked(i)}
    IN  /\ worker[w].pc = "idle"
        /\ due # {}
        /\ Room(due)
        /\ \E queue \in Sorted(due) :
            worker' = [worker EXCEPT ![w] =
                          [Idle EXCEPT !.pc = "loop", !.todo = queue, !.locks = RowLocks(due),
                                       !.seen = [i \in Schedules |-> schedule[i].next]]]
        /\ UNCHANGED <<clock, schedule, execution, abandoned>>

\* The end of the request closes the session and releases what is still locked.
Return(w) ==
    /\ worker[w].pc = "loop"
    /\ worker[w].todo = <<>>
    /\ worker' = [worker EXCEPT ![w] = Idle]
    /\ UNCHANGED <<clock, schedule, execution, abandoned>>

\* The head of _claim: is an execution running?  An expired row is read again.
CheckActive(w) ==
    LET i == Head(worker[w].todo)
    IN  /\ worker[w].pc = "loop"
        /\ worker[w].todo # <<>>
        /\ \/ /\ worker[w].seen[i] = Expired /\ ~Live(i)     \* ObjectDeletedError
              /\ worker' = [worker EXCEPT ![w] = Idle]
           \/ /\ worker[w].seen[i] # Expired \/ Live(i)
              /\ Running(i) # {}
              /\ worker' = [worker EXCEPT ![w].todo = Tail(@)]
           \/ /\ worker[w].seen[i] # Expired \/ Live(i)
              /\ Running(i) = {}
              /\ worker' = [worker EXCEPT ![w].pc = "checked",
                               ![w].seen[i] = IF @ = Expired THEN schedule[i].next ELSE @]
        /\ UNCHANGED <<clock, schedule, execution, abandoned>>

OneRunningIndex_Off(i) == TRUE
\* uq_schedule_executions_one_running
OneRunningIndex(i) == Running(i) = {}

\* The commit of _claim waits for the row lock, then takes the slot that was read.
Claim(w, e) ==
    LET i == Head(worker[w].todo)
        slot == worker[w].seen[i]
    IN  /\ worker[w].pc = "checked"
        /\ Live(i)
        /\ \A v \in Workers \ {w} : i \notin worker[v].locks
        /\ OneRunningIndex(i)
        /\ execution[e].status = "ABSENT"
        /\ \A f \in Executions : f < e => execution[f].status # "ABSENT"
        /\ execution' = [execution EXCEPT ![e] =
                [status |-> "RUNNING", schedule |-> i, slot |-> slot, attempts |-> 0]]
        /\ schedule' = [schedule EXCEPT ![i].next = NextSlot(slot)]
        /\ worker' = [worker EXCEPT ![w] =
                [pc |-> "launching", todo |-> Tail(@.todo), locks |-> {}, exec |-> e,
                 seen |-> [@.seen EXCEPT ![i] = NextSlot(slot)], attempt |-> 1,
                 outcome |-> "none"]]
        /\ UNCHANGED <<clock, abandoned>>

\* IntegrityError: the rollback releases the locks and expires every row.
ClaimConflict(w) ==
    LET i == Head(worker[w].todo)
    IN  /\ worker[w].pc = "checked"
        /\ Live(i)
        /\ \A v \in Workers \ {w} : i \notin worker[v].locks
        /\ ~OneRunningIndex(i)
        /\ worker' = [worker EXCEPT ![w] =
                         [Idle EXCEPT !.pc = "loop", !.todo = Tail(worker[w].todo)]]
        /\ UNCHANGED <<clock, schedule, execution, abandoned>>

\* StaleDataError: the schedule was deleted, and the request ends with an error.
ClaimGone(w) ==
    /\ worker[w].pc = "checked"
    /\ ~Live(Head(worker[w].todo))
    /\ worker' = [worker EXCEPT ![w] = Idle]
    /\ UNCHANGED <<clock, schedule, execution, abandoned>>

LastAttempt_Early(n) == n >= MaxAttempts - 1
LastAttempt_Late(n) == n > MaxAttempts
LastAttempt(n) == n >= MaxAttempts

AfterFailure_Forever(held, n) == [held EXCEPT !.attempt = IF LastAttempt(n) THEN 1 ELSE n + 1]
AfterFailure(held, n) ==
    IF LastAttempt(n) THEN [held EXCEPT !.pc = "ending", !.outcome = "FAILED"]
    ELSE [held EXCEPT !.attempt = n + 1]

\* launcher.launch returned or raised; a further attempt commits, through the
\* session the launcher shares, what the previous one left in memory.
Launch(w, succeeded) ==
    LET e == worker[w].exec
        n == worker[w].attempt
    IN  /\ worker[w].pc = "launching"
        /\ execution' = IF execution[e].status = "DELETED" THEN execution
                        ELSE [execution EXCEPT ![e].attempts = n - 1]
        /\ worker' = [worker EXCEPT ![w] =
                IF succeeded THEN [@ EXCEPT !.pc = "ending", !.outcome = "COMPLETED"]
                ELSE AfterFailure(@, n)]
        /\ UNCHANGED <<clock, schedule, abandoned>>

\* The commit at the end of _execute; the row of a deleted schedule is gone and
\* the request ends with an error.
Finish(w) ==
    LET e == worker[w].exec
    IN  /\ worker[w].pc = "ending"
        /\ \/ /\ execution[e].status # "DELETED"
              /\ execution' = [execution EXCEPT ![e] =
                     [status |-> worker[w].outcome, schedule |-> @.schedule, slot |-> @.slot,
                      attempts |-> worker[w].attempt]]
              /\ worker' = [worker EXCEPT ![w] =
                     [Idle EXCEPT !.pc = "loop", !.todo = worker[w].todo,
                                  !.seen = worker[w].seen, !.locks = worker[w].locks]]
           \/ /\ execution[e].status = "DELETED"
              /\ worker' = [worker EXCEPT ![w] = Idle]
              /\ UNCHANGED execution
        /\ UNCHANGED <<clock, schedule, abandoned>>

\* The process dies: its locks are released, its execution stays RUNNING.
Crash(w) ==
    /\ Crashes
    /\ worker[w].pc # "idle"
    /\ abandoned' = abandoned \cup ({worker[w].exec} \ {None})
    /\ worker' = [worker EXCEPT ![w] = Idle]
    /\ UNCHANGED <<clock, schedule, execution>>

-----------------------------------------------------------------------------
Step(w) ==
    \/ Return(w)
    \/ CheckActive(w)
    \/ \E e \in Executions : Claim(w, e)
    \/ ClaimConflict(w)
    \/ ClaimGone(w)
    \/ \E succeeded \in BOOLEAN : Launch(w, succeeded)
    \/ Finish(w)

Next ==
    \/ Tick
    \/ \E i \in Schedules :
        \/ \E start \in 0..MaxTime : Create(i, start)
        \/ \E enabled, retimed \in BOOLEAN : Update(i, enabled, retimed)
        \/ Delete(i)
    \/ \E w \in Workers : RunDue(w) \/ Step(w) \/ Crash(w)

Spec == Init /\ [][Next]_vars

\* A request that has started keeps running; nobody is obliged to send one.
\* PostgreSQL queues lock waiters, so a commit that waits gets its turn.
FairSpec ==
    Spec /\ \A w \in Workers : /\ WF_vars(Step(w))
                               /\ SF_vars(ClaimConflict(w) \/ \E e \in Executions : Claim(w, e))

-----------------------------------------------------------------------------
(***************************************************************************)
(* Properties                                                              *)
(***************************************************************************)
\* "a PostgreSQL partial unique index allowing only one RUNNING execution per
\* schedule" (scheduler/README.md:12), although _claim tests and inserts in two
\* steps and the row lock is long gone for all schedules but the first.
OneRunning == \A i \in Schedules : Cardinality(Running(i)) <= 1

\* What the index is for: no two requests launch research for one schedule at
\* the same time, even while the schedule is retimed, deleted or abandoned.
OneLauncher ==
    \A v, w \in Workers :
        /\ worker[v].exec # None /\ worker[w].exec # None
        /\ execution[worker[v].exec].schedule = execution[worker[w].exec].schedule
        => v = w

\* A RUNNING execution is in the hands of one request, or its request died: the
\* retry loop never leaves one behind.
RunningHasWorker ==
    \A e \in Executions \ abandoned :
        execution[e].status = "RUNNING" =>
            Cardinality({w \in Workers : worker[w].exec = e}) = 1

\* An execution is FAILED only after the attempts of its retry policy, and a
\* finished one has recorded its last attempt, whatever commits of the launcher
\* came in between.
FailedAfterAllAttempts ==
    \A e \in Executions :
        /\ execution[e].status = "FAILED" => execution[e].attempts = MaxAttempts
        /\ execution[e].status = "COMPLETED" => execution[e].attempts > 0

\* OneRunning, OneLauncher and RunningHasWorker together: at most one request runs
\* research for a schedule, and what is marked RUNNING is what it runs (engine.py:152-231).
SchedulesExclusive == OneRunning /\ OneLauncher /\ RunningHasWorker

\* As long as no second schedule exists the slots of a schedule are run in order and
\* none twice, while requests, retiming and a late clock interleave: _claim then uses a
\* row it has locked (engine.py:138-143, 161).
SlotsAscend ==
    Cardinality({i \in Schedules : schedule[i].live # "absent"}) <= 1 =>
    \A e, f \in Executions :
        /\ execution[e].schedule = execution[f].schedule
        /\ execution[e].status # "ABSENT" /\ execution[f].status # "ABSENT"
        /\ e < f
        => execution[e].slot < execution[f].slot

\* "Concurrency is protected by FOR UPDATE SKIP LOCKED" (scheduler/README.md:11):
\* two concurrent requests do not run the same slot of a schedule.
SlotRunOnce ==
    \A e, f \in Executions :
        /\ execution[e].schedule = execution[f].schedule
        /\ execution[e].status # "ABSENT" /\ execution[f].status # "ABSENT"
        /\ execution[e].slot = execution[f].slot
        => e = f

\* Every request ends (or its process dies), whatever the others hold locked.
EveryRequestEnds == \A w \in Workers : worker[w].pc # "idle" ~> worker[w].pc = "idle"

=============================================================================
