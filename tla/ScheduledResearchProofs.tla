---------------------- MODULE ScheduledResearchProofs ----------------------
(***************************************************************************)
(* Theorems about ScheduledResearch, for any number of schedules, requests *)
(* and executions: who may hold a RUNNING execution, what a finished one   *)
(* has been through, and in which order the slots of a schedule are run.   *)
(***************************************************************************)
EXTENDS ScheduledResearch, FiniteSetTheorems, SequenceTheorems, TLAPS

\* What a request in progress has in its hands.
HolderInv ==
    \A w \in Workers :
        /\ worker[w].pc = "checked" =>
               worker[w].todo # <<>> /\ worker[w].seen[Head(worker[w].todo)] \in Slots
        /\ worker[w].pc \in {"launching", "ending"} <=> worker[w].exec # None
        /\ worker[w].exec # None =>
               /\ execution[worker[w].exec].status \in {"RUNNING", "DELETED"}
               /\ worker[w].attempt \in 1..MaxAttempts
        /\ worker[w].pc = "ending" <=> worker[w].outcome # "none"
        /\ worker[w].outcome = "FAILED" => worker[w].attempt = MaxAttempts

\* Executions belong to schedules; those of a deleted schedule are gone with it.
RowInv ==
    \A e \in Executions :
        /\ execution[e].status = "ABSENT" => execution[e].schedule = None
        /\ execution[e].status # "ABSENT" => execution[e].schedule \in Schedules
        /\ execution[e].status = "DELETED" => schedule[execution[e].schedule].live = "deleted"

\* A running execution is alone in its schedule, and in the hands of one request.
Exclusive ==
    /\ \A e, f \in Executions :
        /\ execution[e].status = "RUNNING" /\ execution[f].status = "RUNNING"
        /\ execution[e].schedule = execution[f].schedule
        => e = f
    /\ OneLauncher

Held ==
    \A e \in Executions \ abandoned :
        execution[e].status = "RUNNING" => \E w \in Workers : worker[w].exec = e

IInv == TypeOK /\ HolderInv /\ RowInv /\ Exclusive /\ Held /\ FailedAfterAllAttempts

LEMMA IdleType == Idle \in WorkerState
BY SchedulerAssumption DEF Idle, WorkerState, SchedulerAssumption, Slots, None

LEMMA TailType ==
    ASSUME NEW w \in WorkerState, w.todo # <<>>
    PROVE  Tail(w.todo) \in Seq(Schedules) /\ Head(w.todo) \in Schedules
<1>1. w.todo \in Seq(Schedules)
  BY DEF WorkerState
<1> QED BY <1>1

LEMMA SortedType ==
    ASSUME NEW due \in SUBSET Schedules, NEW queue \in Sorted(due)
    PROVE  queue \in Seq(Schedules)
<1>1. IsFiniteSet(due)
  BY SchedulerAssumption, FS_Subset DEF SchedulerAssumption
<1>2. Cardinality(due) \in Nat
  BY <1>1, FS_CardinalityType
<1>3. queue \in [1..Cardinality(due) -> Schedules]
  BY DEF Sorted
<1> QED BY <1>2, <1>3

LEMMA NextSlotType == \A n \in Slots : NextSlot(n) \in Slots
BY SchedulerAssumption DEF SchedulerAssumption, NextSlot, Slots

LEMMA InitInv == Init => IInv
<1> SUFFICES ASSUME Init PROVE IInv
  OBVIOUS
<1>1. TypeOK
  BY IdleType, SchedulerAssumption
  DEF Init, TypeOK, ScheduleRow, ExecutionRow, NoExecution, Slots, None, Status, SchedulerAssumption
<1>2. HolderInv /\ RowInv /\ Exclusive /\ Held /\ FailedAfterAllAttempts
  BY DEF Init, HolderInv, RowInv, Exclusive, OneLauncher, Held, FailedAfterAllAttempts, Idle,
         NoExecution, None
<1> QED BY <1>1, <1>2 DEF IInv

\* A step of a request that changes neither rows nor its execution.
LEMMA QuietStep ==
    ASSUME IInv, NEW w \in Workers, NEW s \in WorkerState,
           worker' = [worker EXCEPT ![w] = s],
           worker[w].exec = None, s.exec = None,
           s.pc \in {"idle", "loop", "checked"}, s.outcome = "none",
           s.pc = "checked" => s.todo # <<>> /\ s.seen[Head(s.todo)] \in Slots,
           UNCHANGED <<clock, schedule, execution, abandoned>>
    PROVE  IInv'
<1>1. TypeOK'
  BY DEF IInv, TypeOK
<1>2. HolderInv'
  BY DEF IInv, TypeOK, HolderInv
<1>3. RowInv' /\ FailedAfterAllAttempts'
  BY DEF IInv, RowInv, FailedAfterAllAttempts
<1>4. Exclusive' /\ Held'
  BY SchedulerAssumption DEF IInv, TypeOK, Exclusive, OneLauncher, Held, SchedulerAssumption, None
<1> QED BY <1>1, <1>2, <1>3, <1>4 DEF IInv

\* A request that takes no execution, or gives its one up.
LEMMA AbandonStep ==
    ASSUME IInv, NEW w \in Workers, worker' = [worker EXCEPT ![w] = Idle],
           abandoned' = abandoned \cup ({worker[w].exec} \ {None}),
           UNCHANGED <<clock, schedule, execution>>
    PROVE  IInv'
<1>1. TypeOK'
  BY IdleType DEF IInv, TypeOK, WorkerState
<1>2. HolderInv' /\ RowInv' /\ FailedAfterAllAttempts' /\ Exclusive'
  BY DEF IInv, TypeOK, HolderInv, RowInv, FailedAfterAllAttempts, Exclusive, OneLauncher, Idle, None
<1>3. Held'
  BY DEF IInv, TypeOK, Held, Idle, None
<1> QED BY <1>1, <1>2, <1>3 DEF IInv

\* Each branch of CheckActive moves on to the next schedule, to the claim, or ends.
LEMMA CheckActiveInv ==
    ASSUME IInv, NEW w \in Workers, CheckActive(w)
    PROVE  IInv'
<1> USE DEF None
<1> DEFINE i == Head(worker[w].todo)
<1>1. worker[w] \in WorkerState
  BY DEF IInv, TypeOK
<1>2. /\ i \in Schedules /\ worker[w].todo # <<>>
      /\ worker[w].exec = None /\ worker[w].outcome = "none" /\ worker[w].pc = "loop"
  BY <1>1 DEF CheckActive, IInv, HolderInv, WorkerState
<1>3. CASE worker' = [worker EXCEPT ![w] = Idle]
  BY <1>2, <1>3, QuietStep, IdleType DEF CheckActive, Idle
<1>4. CASE worker' = [worker EXCEPT ![w].todo = Tail(@)]
  <2> DEFINE s == [worker[w] EXCEPT !.todo = Tail(@)]
  <2>1. s \in WorkerState /\ s.exec = None /\ s.outcome = "none" /\ s.pc = "loop"
    BY <1>1, <1>2, TailType DEF WorkerState
  <2>2. worker' = [worker EXCEPT ![w] = s]
    BY <1>4
  <2> QED BY <1>2, <2>1, <2>2, QuietStep DEF CheckActive
<1>5. CASE worker' = [worker EXCEPT ![w].pc = "checked",
                          ![w].seen[i] = IF @ = Expired THEN schedule[i].next ELSE @]
  <2> DEFINE s == [worker[w] EXCEPT !.pc = "checked",
                       !.seen[i] = IF @ = Expired THEN schedule[i].next ELSE @]
  <2>1. schedule[i].next \in Slots
    BY <1>2 DEF IInv, TypeOK, ScheduleRow
  <2>2. s \in WorkerState /\ s.exec = None /\ s.outcome = "none" /\ s.pc = "checked"
    BY <1>1, <1>2, <2>1 DEF WorkerState
  <2>3. s.todo # <<>> /\ s.seen[Head(s.todo)] \in Slots
    BY <1>1, <1>2, <2>1 DEF WorkerState
  <2>4. worker' = [worker EXCEPT ![w] = s]
    BY <1>5
  <2> QED BY <1>2, <2>2, <2>3, <2>4, QuietStep DEF CheckActive
<1> QED BY <1>3, <1>4, <1>5 DEF CheckActive

\* The partial unique index keeps the new execution alone in its schedule.
LEMMA ClaimInv ==
    ASSUME IInv, NEW w \in Workers, NEW e \in Executions, Claim(w, e)
    PROVE  IInv'
<1> USE SchedulerAssumption DEF None, SchedulerAssumption
<1> DEFINE i == Head(worker[w].todo)
           slot == worker[w].seen[i]
           row == [status |-> "RUNNING", schedule |-> i, slot |-> slot, attempts |-> 0]
<1>1. worker[w] \in WorkerState /\ worker[w].pc = "checked"
  BY DEF IInv, TypeOK, Claim
<1>2. i \in Schedules /\ slot \in Slots /\ NextSlot(slot) \in Slots
  BY <1>1, NextSlotType DEF IInv, HolderInv, WorkerState
<1>3. row \in ExecutionRow /\ execution' = [execution EXCEPT ![e] = row]
  BY <1>2 DEF ExecutionRow, Status, Claim
<1>4. worker[w].exec = None /\ worker[w].outcome = "none"
  BY <1>1 DEF IInv, HolderInv
<1>5. TypeOK'
  <2>1. schedule' \in [Schedules -> ScheduleRow]
    BY <1>2 DEF Claim, IInv, TypeOK, ScheduleRow
  <2>2. worker' \in [Workers -> WorkerState]
    <3> DEFINE s == [pc |-> "launching", todo |-> Tail(worker[w].todo), locks |-> {}, exec |-> e,
                     seen |-> [worker[w].seen EXCEPT ![i] = NextSlot(slot)], attempt |-> 1,
                     outcome |-> "none"]
    <3>1. Tail(worker[w].todo) \in Seq(Schedules) /\ worker[w].todo # <<>>
      BY <1>1, TailType DEF IInv, HolderInv
    <3>2. s \in WorkerState
      BY <1>1, <1>2, <3>1 DEF WorkerState
    <3>3. worker' = [worker EXCEPT ![w] = s]
      BY DEF Claim
    <3> QED BY <3>2, <3>3 DEF IInv, TypeOK
  <2> QED BY <1>3, <2>1, <2>2 DEF Claim, IInv, TypeOK
<1>6. \A v \in Workers : worker[v].exec # e
  BY DEF IInv, HolderInv, Claim
<1>7. HolderInv'
  BY <1>1, <1>3, <1>4, <1>6 DEF Claim, IInv, TypeOK, HolderInv, WorkerState
<1>8. RowInv'
  BY <1>2, <1>3 DEF Claim, IInv, TypeOK, RowInv, ScheduleRow, ExecutionRow, Live
<1>9. Exclusive'
  <2>1. \A f \in Executions :
           execution[f].status = "RUNNING" => execution[f].schedule # i
    BY DEF Claim, OneRunningIndex, Running
  <2>2. \A f \in Executions :
           execution[f].status = "DELETED" => execution[f].schedule # i
    BY DEF Claim, Live, IInv, RowInv
  <2>3. \A v \in Workers :
           worker[v].exec # None => /\ worker[v].exec \in Executions \ {e}
                                    /\ execution[worker[v].exec].schedule # i
    BY <1>6, <2>1, <2>2 DEF IInv, TypeOK, HolderInv, WorkerState
  <2>4. OneLauncher'
    <3>1. \A v \in Workers \ {w} : worker'[v] = worker[v]
      BY DEF Claim, IInv, TypeOK
    <3>2. worker'[w].exec = e
      BY DEF Claim, IInv, TypeOK
    <3>3. execution'[e].schedule = i /\ \A f \in Executions \ {e} : execution'[f] = execution[f]
      BY <1>3 DEF IInv, TypeOK
    <3>4. OneLauncher
      BY DEF IInv, Exclusive
    <3>5. \A v \in Workers \ {w} : worker[v].exec # None =>
             /\ worker'[v].exec = worker[v].exec
             /\ execution'[worker'[v].exec].schedule = execution[worker[v].exec].schedule
             /\ execution'[worker'[v].exec].schedule # i
      BY <2>3, <3>1, <3>3
    <3>6. execution'[worker'[w].exec].schedule = i
      BY <3>2, <3>3
    <3> QED BY <3>1, <3>4, <3>5, <3>6 DEF OneLauncher
  <2> QED BY <1>3, <2>1, <2>4 DEF IInv, TypeOK, Exclusive
<1>10. Held' /\ FailedAfterAllAttempts'
  BY <1>3, <1>4 DEF Claim, IInv, TypeOK, Held, FailedAfterAllAttempts
<1> QED BY <1>5, <1>7, <1>8, <1>9, <1>10 DEF IInv

\* An attempt ends: the request goes on to the next one or to the end.
LEMMA LaunchInv ==
    ASSUME IInv, NEW w \in Workers, NEW succeeded \in BOOLEAN, Launch(w, succeeded)
    PROVE  IInv'
<1> USE SchedulerAssumption DEF None, SchedulerAssumption
<1> DEFINE e == worker[w].exec
           n == worker[w].attempt
<1>1. worker[w] \in WorkerState /\ worker[w].pc = "launching" /\ worker[w].outcome = "none"
  BY DEF IInv, TypeOK, HolderInv, Launch
<1>2. /\ e \in Executions /\ e # None /\ n \in 1..MaxAttempts
      /\ execution[e].status \in {"RUNNING", "DELETED"}
  BY <1>1 DEF IInv, HolderInv, WorkerState
<1>3. execution' \in [Executions -> ExecutionRow]
  BY <1>2 DEF Launch, IInv, TypeOK, ExecutionRow
<1>4. \A f \in Executions : /\ execution'[f].status = execution[f].status
                            /\ execution'[f].schedule = execution[f].schedule
                            /\ f # e => execution'[f] = execution[f]
  BY <1>2 DEF Launch, IInv, TypeOK, ExecutionRow
<1>5. PICK s \in WorkerState :
           /\ worker' = [worker EXCEPT ![w] = s]
           /\ s.exec = e /\ s.attempt \in 1..MaxAttempts
           /\ \/ s.pc = "launching" /\ s.outcome = "none"
              \/ s.pc = "ending" /\ s.outcome = "COMPLETED"
              \/ s.pc = "ending" /\ s.outcome = "FAILED" /\ s.attempt = MaxAttempts
  <2>1. CASE succeeded
    <3> DEFINE s == [worker[w] EXCEPT !.pc = "ending", !.outcome = "COMPLETED"]
    <3>1. s \in WorkerState /\ s.exec = e /\ s.attempt = n /\ s.pc = "ending" /\ s.outcome = "COMPLETED"
      BY <1>1 DEF WorkerState
    <3>2. worker' = [worker EXCEPT ![w] = s]
      BY <2>1 DEF Launch
    <3> QED BY <1>2, <3>1, <3>2
  <2>2. CASE ~succeeded /\ LastAttempt(n)
    <3> DEFINE s == [worker[w] EXCEPT !.pc = "ending", !.outcome = "FAILED"]
    <3>1. s \in WorkerState /\ s.exec = e /\ s.attempt = n /\ s.pc = "ending" /\ s.outcome = "FAILED"
      BY <1>1 DEF WorkerState
    <3>2. worker' = [worker EXCEPT ![w] = s]
      BY <2>2 DEF Launch, AfterFailure
    <3>3. n = MaxAttempts
      BY <1>2, <2>2 DEF LastAttempt
    <3> QED BY <1>2, <3>1, <3>2, <3>3
  <2>3. CASE ~succeeded /\ ~LastAttempt(n)
    <3> DEFINE s == [worker[w] EXCEPT !.attempt = n + 1]
    <3>1. n + 1 \in 1..MaxAttempts /\ n + 1 \in 0..MaxAttempts
      BY <1>2, <2>3 DEF LastAttempt
    <3>2. s \in WorkerState /\ s.exec = e /\ s.attempt = n + 1 /\ s.pc = "launching" /\ s.outcome = "none"
      BY <1>1, <3>1 DEF WorkerState
    <3>3. worker' = [worker EXCEPT ![w] = s]
      BY <2>3 DEF Launch, AfterFailure
    <3> QED BY <3>1, <3>2, <3>3
  <2> QED BY <2>1, <2>2, <2>3
<1>6. TypeOK'
  BY <1>3, <1>5 DEF Launch, IInv, TypeOK
<1>7. HolderInv'
  <2>1. \A v \in Workers \ {w} : worker'[v] = worker[v]
    BY <1>5 DEF IInv, TypeOK
  <2>2. worker'[w] = s
    BY <1>5 DEF IInv, TypeOK
  <2>3. \A v \in Workers : worker[v].exec \in Executions \cup {None}
    BY DEF IInv, TypeOK, WorkerState
  <2>4. \A f \in Executions : execution'[f].status = execution[f].status
    BY <1>4
  <2>5. /\ s.exec = e /\ s.attempt \in 1..MaxAttempts /\ s.pc \in {"launching", "ending"}
        /\ s.pc = "ending" <=> s.outcome # "none"
        /\ s.outcome = "FAILED" => s.attempt = MaxAttempts
    BY <1>5
  <2>6. HolderInv
    BY DEF IInv
  <2> HIDE SchedulerAssumption
  <2> HIDE DEF e, n
  <2>7. ASSUME NEW v \in Workers \ {w}
        PROVE  /\ worker'[v] = worker[v]
               /\ worker[v].exec # None => execution'[worker[v].exec].status \in {"RUNNING", "DELETED"}
    BY <2>1, <2>3, <2>4, <2>6 DEF HolderInv
  <2>8. execution'[s.exec].status \in {"RUNNING", "DELETED"} /\ s.exec # None
    BY <1>2, <2>4, <2>5
  <2> QED BY <2>2, <2>5, <2>6, <2>7, <2>8 DEF HolderInv
<1>8. RowInv' /\ FailedAfterAllAttempts'
  <2>1. UNCHANGED schedule
    BY DEF Launch
  <2>2. RowInv'
    BY <1>4, <2>1 DEF IInv, RowInv
  <2>3. FailedAfterAllAttempts'
    BY <1>2, <1>4 DEF IInv, FailedAfterAllAttempts
  <2> QED BY <2>2, <2>3
<1>9. Exclusive' /\ Held'
  BY SMTT(30), <1>2, <1>4, <1>5 DEF Launch, IInv, TypeOK, Exclusive, OneLauncher, HolderInv, WorkerState, Held
<1> QED BY <1>6, <1>7, <1>8, <1>9 DEF IInv

\* The request records the outcome of the execution it alone holds.
LEMMA FinishInv ==
    ASSUME IInv, NEW w \in Workers, Finish(w)
    PROVE  IInv'
<1> USE SchedulerAssumption DEF None, SchedulerAssumption
<1> DEFINE e == worker[w].exec
<1>1. worker[w] \in WorkerState /\ worker[w].pc = "ending"
  BY DEF IInv, TypeOK, Finish
<1>2. /\ e \in Executions /\ e # None /\ worker[w].attempt \in 1..MaxAttempts
      /\ worker[w].outcome \in {"COMPLETED", "FAILED"}
      /\ worker[w].outcome = "FAILED" => worker[w].attempt = MaxAttempts
      /\ execution[e].status \in {"RUNNING", "DELETED"}
  BY <1>1 DEF IInv, HolderInv, WorkerState
<1>3. \A v \in Workers \ {w} : worker[v].exec # e
  BY <1>2 DEF IInv, Exclusive, OneLauncher
<1>4. CASE execution[e].status # "DELETED"
  <2> DEFINE row == [status |-> worker[w].outcome, schedule |-> execution[e].schedule,
                     slot |-> execution[e].slot, attempts |-> worker[w].attempt]
             s == [Idle EXCEPT !.pc = "loop", !.todo = worker[w].todo,
                               !.seen = worker[w].seen, !.locks = worker[w].locks]
  <2>0. /\ execution' = [execution EXCEPT ![e] = row] /\ worker' = [worker EXCEPT ![w] = s]
        /\ UNCHANGED <<clock, schedule, abandoned>>
    BY <1>4 DEF Finish
  <2>1. row \in ExecutionRow /\ execution' = [execution EXCEPT ![e] = row]
    BY <1>2, <2>0 DEF IInv, TypeOK, ExecutionRow, Status
  <2>2. s \in WorkerState /\ worker' = [worker EXCEPT ![w] = s]
    BY <1>1, <2>0, IdleType DEF WorkerState, Idle
  <2>3. TypeOK'
    BY <1>4, <2>1, <2>2 DEF Finish, IInv, TypeOK
  <2>4. row.status \in {"COMPLETED", "FAILED"} /\ row.schedule = execution[e].schedule
    BY <1>2, <2>1 DEF IInv, TypeOK, ExecutionRow
  <2>5. \A v \in Workers \ {w} : worker'[v] = worker[v]
    BY <2>2
  <2>6. /\ execution'[e] = row
        /\ \A f \in Executions \ {e} : execution'[f] = execution[f]
    BY <1>2, <2>1 DEF IInv, TypeOK
  <2>7. HolderInv'
    <3>1. worker'[w] = s /\ s.pc = "loop" /\ s.exec = None /\ s.outcome = "none"
      BY <2>2 DEF IInv, TypeOK, Idle
    <3>2. \A v \in Workers : worker[v].exec \in Executions \cup {None}
      BY DEF IInv, TypeOK, WorkerState
    <3>3. HolderInv
      BY DEF IInv
    <3> HIDE DEF e, s, row
    <3>4. \A v \in Workers \ {w} :
            worker[v].exec # None => execution'[worker[v].exec] = execution[worker[v].exec]
      BY <1>3, <2>6, <3>2
    <3> QED BY <2>5, <3>1, <3>3, <3>4 DEF HolderInv
  <2>8. RowInv' /\ Held'
    <3>1. RowInv /\ Held /\ execution[e].status # "ABSENT"
      BY <1>2 DEF IInv
    <3> HIDE DEF e, s, row
    <3>2. \A f \in Executions : /\ execution'[f].schedule = execution[f].schedule
                                /\ f # e => execution'[f].status = execution[f].status
      BY <2>4, <2>6
    <3>3. RowInv'
      BY <2>0, <2>4, <2>6, <3>1, <3>2 DEF RowInv
    <3>4. ASSUME NEW f \in Executions \ abandoned, execution'[f].status = "RUNNING"
          PROVE  \E v \in Workers : worker'[v].exec = f
      <4>1. f # e
        BY <2>4, <2>6, <3>4
      <4>2. PICK v \in Workers : worker[v].exec = f
        BY <3>1, <3>2, <3>4, <4>1 DEF Held
      <4>3. v # w
        BY <4>1, <4>2 DEF e
      <4> QED BY <2>5, <4>2, <4>3
    <3> QED BY <2>0, <3>3, <3>4 DEF Held
  <2>9. Exclusive'
    BY SMTT(30), <1>1, <1>3, <2>1, <2>2, <2>4 DEF IInv, TypeOK, Exclusive, OneLauncher, HolderInv, WorkerState, Idle
  <2>10. FailedAfterAllAttempts'
    BY <1>2, <2>1 DEF IInv, TypeOK, FailedAfterAllAttempts, ExecutionRow
  <2> QED BY <2>3, <2>7, <2>8, <2>9, <2>10 DEF IInv
<1>5. CASE execution[e].status = "DELETED"
  <2>1. worker' = [worker EXCEPT ![w] = Idle] /\ UNCHANGED <<clock, schedule, execution, abandoned>>
    BY <1>5 DEF Finish
  <2>2. TypeOK'
    BY <2>1, IdleType DEF IInv, TypeOK
  <2>3. HolderInv' /\ RowInv' /\ Exclusive' /\ FailedAfterAllAttempts'
    BY <2>1 DEF IInv, TypeOK, HolderInv, RowInv, Exclusive, OneLauncher, FailedAfterAllAttempts, Idle
  <2>4. Held'
    BY <1>5, <2>1 DEF IInv, TypeOK, Held, Idle
  <2> QED BY <2>2, <2>3, <2>4 DEF IInv
<1> QED BY <1>4, <1>5

LEMMA StepInv ==
    ASSUME IInv, NEW w \in Workers, Step(w)
    PROVE  IInv'
<1>1. worker[w] \in WorkerState
  BY DEF IInv, TypeOK
<1>2. CASE Return(w)
  BY <1>2, QuietStep, IdleType DEF Return, IInv, HolderInv, Idle
<1>3. CASE CheckActive(w)
  BY <1>3, CheckActiveInv
<1>4. CASE \E e \in Executions : Claim(w, e)
  BY <1>4, ClaimInv
<1>5. CASE ClaimConflict(w)
  <2> DEFINE s == [Idle EXCEPT !.pc = "loop", !.todo = Tail(worker[w].todo)]
  <2>1. worker[w].todo # <<>> /\ worker[w].exec = None
    BY <1>5 DEF ClaimConflict, IInv, HolderInv
  <2>2. s \in WorkerState
    BY <1>1, <2>1, TailType, IdleType DEF WorkerState, Idle
  <2> QED BY <1>5, <2>1, <2>2, QuietStep DEF ClaimConflict, Idle
<1>6. CASE ClaimGone(w)
  BY <1>6, QuietStep, IdleType DEF ClaimGone, IInv, HolderInv, Idle
<1>7. CASE \E succeeded \in BOOLEAN : Launch(w, succeeded)
  BY <1>7, LaunchInv
<1>8. CASE Finish(w)
  BY <1>8, FinishInv
<1> QED BY <1>2, <1>3, <1>4, <1>5, <1>6, <1>7, <1>8 DEF Step

LEMMA NextInv == IInv /\ [Next]_vars => IInv'
<1> USE DEF None
<1> SUFFICES ASSUME IInv, [Next]_vars PROVE IInv'
  OBVIOUS
<1>1. CASE Tick
  <2>1. TypeOK'
    BY <1>1, SchedulerAssumption DEF Tick, SchedulerAssumption, IInv, TypeOK
  <2> QED BY <1>1, <2>1
      DEF Tick, IInv, HolderInv, RowInv, Exclusive, OneLauncher, Held, FailedAfterAllAttempts
<1>2. ASSUME NEW i \in Schedules, NEW start \in 0..MaxTime, Create(i, start) PROVE IInv'
  <2>1. start \in Slots /\ NextSlot(start) \in Slots
    BY NextSlotType, SchedulerAssumption DEF Slots, SchedulerAssumption
  <2>2. TypeOK'
    BY <1>2, <2>1 DEF Create, IInv, TypeOK, ScheduleRow
  <2>3. RowInv'
    BY <1>2 DEF Create, IInv, TypeOK, RowInv, ScheduleRow
  <2> QED BY <1>2, <2>2, <2>3 DEF Create, IInv, HolderInv, Exclusive, OneLauncher, Held, FailedAfterAllAttempts
<1>3. ASSUME NEW i \in Schedules, NEW enabled \in BOOLEAN, NEW retimed \in BOOLEAN,
             Update(i, enabled, retimed)
      PROVE  IInv'
  <2>1. NextSlot(clock) \in Slots
    BY NextSlotType, SchedulerAssumption DEF Slots, SchedulerAssumption, IInv, TypeOK
  <2> DEFINE row == [live |-> "live", enabled |-> enabled,
                     next |-> IF retimed THEN NextSlot(clock) ELSE schedule[i].next]
  <2>2. TypeOK'
    <3>1. row \in ScheduleRow
      BY <2>1 DEF IInv, TypeOK, ScheduleRow
    <3>2. schedule' = [schedule EXCEPT ![i] = row]
      BY <1>3 DEF Update
    <3> QED BY <1>3, <3>1, <3>2 DEF Update, IInv, TypeOK
  <2>3. RowInv'
    <3>1. \A j \in Schedules : schedule'[j].live = schedule[j].live
      BY <1>3 DEF Update, Live, IInv, TypeOK
    <3> QED BY <1>3, <3>1 DEF Update, IInv, RowInv
  <2> QED BY <1>3, <2>2, <2>3 DEF Update, IInv, HolderInv, Exclusive, OneLauncher, Held, FailedAfterAllAttempts
<1>4. ASSUME NEW i \in Schedules, Delete(i) PROVE IInv'
  <2>1. \A e \in Executions :
           /\ execution'[e].schedule = execution[e].schedule
           /\ execution'[e].attempts = execution[e].attempts
           /\ execution'[e].slot = execution[e].slot
           /\ execution'[e].status = IF execution[e].schedule = i THEN "DELETED"
                                     ELSE execution[e].status
    BY <1>4 DEF Delete, IInv, TypeOK, ExecutionRow
  <2>2. TypeOK'
    BY <1>4 DEF Delete, IInv, TypeOK, ScheduleRow, ExecutionRow, Status
  <2>3. RowInv'
    BY <1>4, <2>1, SchedulerAssumption
    DEF Delete, IInv, TypeOK, RowInv, ScheduleRow, SchedulerAssumption
  <2>4. HolderInv'
    BY <1>4, <2>1 DEF Delete, IInv, TypeOK, HolderInv, WorkerState
  <2>5. Exclusive' /\ Held' /\ FailedAfterAllAttempts'
    BY <1>4, <2>1 DEF Delete, IInv, TypeOK, Exclusive, OneLauncher, HolderInv, WorkerState, Held,
       FailedAfterAllAttempts
  <2> QED BY <2>2, <2>3, <2>4, <2>5 DEF IInv
<1>5. ASSUME NEW w \in Workers, RunDue(w) PROVE IInv'
  <2> DEFINE due == {i \in Schedules : Due(i) /\ ~Locked(i)}
  <2>1. PICK queue \in Sorted(due) :
           worker' = [worker EXCEPT ![w] =
                         [Idle EXCEPT !.pc = "loop", !.todo = queue, !.locks = RowLocks(due),
                                      !.seen = [i \in Schedules |-> schedule[i].next]]]
    BY <1>5 DEF RunDue
  <2> DEFINE s == [Idle EXCEPT !.pc = "loop", !.todo = queue, !.locks = RowLocks(due),
                               !.seen = [i \in Schedules |-> schedule[i].next]]
  <2>2. queue \in Seq(Schedules)
    BY SortedType
  <2>3. \A i \in Schedules : schedule[i].next \in Slots
    BY DEF IInv, TypeOK, ScheduleRow
  <2>4. s \in WorkerState
    BY <2>2, <2>3, IdleType DEF WorkerState, Idle, RowLocks
  <2>5. worker[w].exec = None
    BY <1>5 DEF RunDue, IInv, HolderInv
  <2> QED BY ZenonT(60), <1>5, <2>1, <2>4, <2>5, QuietStep DEF RunDue, Idle
<1>6. ASSUME NEW w \in Workers, Step(w) PROVE IInv'
  BY <1>6, StepInv
<1>7. ASSUME NEW w \in Workers, Crash(w) PROVE IInv'
  BY <1>7, AbandonStep DEF Crash
<1>8. CASE UNCHANGED vars
  BY <1>8
  DEF vars, IInv, TypeOK, HolderInv, RowInv, Exclusive, OneLauncher, Held, FailedAfterAllAttempts
<1> QED BY <1>1, <1>2, <1>3, <1>4, <1>5, <1>6, <1>7, <1>8 DEF Next

LEMMA Invariance == Spec => []IInv
<1>1. Init => IInv
  BY InitInv
<1>2. IInv /\ [Next]_vars => IInv'
  BY NextInv
<1> QED BY <1>1, <1>2, PTL DEF Spec

\* Rows and requests keep their types, whatever is created, deleted or lost.
THEOREM TypeCorrect == Spec => []TypeOK
<1>1. IInv => TypeOK
  BY DEF IInv
<1> QED BY <1>1, Invariance, PTL

\* No schedule ever has two RUNNING executions: what _claim relies on the index for.
THEOREM RunningExclusion == Spec => []OneRunning
<1>1. IInv => OneRunning
  <2> SUFFICES ASSUME IInv, NEW i \in Schedules PROVE Cardinality(Running(i)) <= 1
    BY DEF OneRunning
  <2>1. CASE Running(i) = {}
    BY <2>1, FS_EmptySet
  <2>2. ASSUME NEW e \in Running(i) PROVE Cardinality(Running(i)) <= 1
    <3>1. Running(i) = {e}
      BY <2>2 DEF IInv, Exclusive, Running
    <3> QED BY <3>1, FS_Singleton
  <2> QED BY <2>1, <2>2
<1> QED BY <1>1, Invariance, PTL

\* No two requests launch research for one schedule at the same time.
THEOREM LauncherExclusion == Spec => []OneLauncher
<1>1. IInv => OneLauncher
  BY DEF IInv, Exclusive
<1> QED BY <1>1, Invariance, PTL

\* A RUNNING execution has exactly one request that will end it, or that died.
THEOREM RunningIsHeld == Spec => []RunningHasWorker
<1>1. IInv => RunningHasWorker
  <2> SUFFICES ASSUME IInv, NEW e \in Executions \ abandoned, execution[e].status = "RUNNING"
               PROVE  Cardinality({w \in Workers : worker[w].exec = e}) = 1
    BY DEF RunningHasWorker
  <2>1. PICK w \in Workers : worker[w].exec = e
    BY DEF IInv, Held
  <2>2. e # None
    BY SchedulerAssumption DEF SchedulerAssumption, None
  <2>3. {v \in Workers : worker[v].exec = e} = {w}
    BY <2>1, <2>2 DEF IInv, Exclusive, OneLauncher
  <2> QED BY <2>3, FS_Singleton
<1> QED BY <1>1, Invariance, PTL

\* The executions of a schedule do not overlap, and the one that is running is
\* held by a request, unless that died.
THEOREM SchedulesExclusion == Spec => []SchedulesExclusive
<1>1. OneRunning /\ OneLauncher /\ RunningHasWorker => SchedulesExclusive
  BY DEF SchedulesExclusive
<1> QED BY <1>1, RunningExclusion, LauncherExclusion, RunningIsHeld, PTL

\* FAILED is recorded only after every attempt the retry policy allows.
THEOREM FailureIsFinal == Spec => []FailedAfterAllAttempts
<1>1. IInv => FailedAfterAllAttempts
  BY DEF IInv
<1> QED BY <1>1, Invariance, PTL

-----------------------------------------------------------------------------
(***************************************************************************)
(* Slots.  With one schedule the first commit of run_due is also its last, *)
(* so that every claim is made under the lock the row was read with.       *)
(***************************************************************************)
\* No second schedule exists, nor ever did.
Alone ==
    \A i, j \in Schedules : schedule[i].live # "absent" /\ schedule[j].live # "absent" => i = j

\* A request that is about to claim holds the lock of the row it read, and the row was due.
Queued(s) ==
    /\ s.pc \in {"idle", "launching", "ending"} => s.todo = <<>>
    /\ s.todo # <<>> =>
           LET i == Head(s.todo)
           IN  /\ Len(s.todo) = 1
               /\ i \in Schedules /\ Live(i) /\ i \in s.locks
               /\ s.seen[i] = schedule[i].next /\ schedule[i].next <= clock
QueueLocked == \A w \in Workers : Queued(worker[w])

\* What was claimed lies behind the clock and behind the next slot of its schedule.
SlotsPast ==
    \A e \in Executions :
        execution[e].status # "ABSENT" =>
            /\ execution[e].slot < schedule[execution[e].schedule].next
            /\ execution[e].slot <= clock

SlotOrder ==
    \A e, f \in Executions :
        /\ execution[e].schedule = execution[f].schedule
        /\ execution[e].status # "ABSENT" /\ execution[f].status # "ABSENT"
        /\ e < f
        => execution[e].slot < execution[f].slot

\* Execution ids are allocated in order, to schedules that were created.
Allocated ==
    \A e \in Executions :
        execution[e].status # "ABSENT" =>
            /\ schedule[execution[e].schedule].live # "absent"
            /\ \A f \in Executions : f < e => execution[f].status # "ABSENT"

SlotInv == Allocated /\ (Alone => QueueLocked /\ SlotsPast /\ SlotOrder)

\* A step of a request that leaves schedules and slots as they are.
LEMMA SlotsStand ==
    ASSUME IInv, SlotInv, NEW w \in Workers, NEW s, worker' = [worker EXCEPT ![w] = s],
           UNCHANGED <<clock, schedule>>,
           \A e \in Executions : /\ execution'[e].slot = execution[e].slot
                                 /\ execution'[e].schedule = execution[e].schedule
                                 /\ execution'[e].status = "ABSENT" <=> execution[e].status = "ABSENT",
           Alone => Queued(s)
    PROVE  SlotInv'
<1>1. Allocated'
  BY DEF SlotInv, Allocated
<1>2. SUFFICES ASSUME Alone' PROVE QueueLocked' /\ SlotsPast' /\ SlotOrder'
  BY <1>1 DEF SlotInv
<1>3. Alone
  BY <1>2 DEF Alone
<1>4. QueueLocked'
  BY <1>3 DEF SlotInv, QueueLocked, Queued, Live, IInv, TypeOK
<1>5. SlotsPast' /\ SlotOrder'
  BY <1>3 DEF SlotInv, SlotsPast, SlotOrder
<1> QED BY <1>4, <1>5

LEMMA ShortTail ==
    ASSUME NEW s \in Seq(Schedules), s # <<>>, Len(s) = 1
    PROVE  Tail(s) = <<>>
<1>1. Tail(s) \in Seq(Schedules) /\ Len(Tail(s)) = 0
  OBVIOUS
<1> QED BY <1>1, EmptySeq

LEMMA EmptyQueue ==
    ASSUME NEW s, s.todo = <<>>
    PROVE  Queued(s)
BY DEF Queued

LEMMA SlotTick ==
    ASSUME IInv, SlotInv, Tick
    PROVE  SlotInv'
<1>1. /\ clock \in Nat /\ clock' = clock + 1
      /\ UNCHANGED <<schedule, execution, worker>>
      /\ \A i \in Schedules : schedule[i].next \in Nat
      /\ \A e \in Executions : execution[e].slot \in Nat
  BY SchedulerAssumption DEF Tick, IInv, TypeOK, ScheduleRow, ExecutionRow, Slots, SchedulerAssumption
<1>2. Allocated'
  BY <1>1 DEF SlotInv, Allocated
<1>3. ASSUME Alone' PROVE QueueLocked' /\ SlotsPast' /\ SlotOrder'
  <2>1. Alone
    BY <1>1, <1>3 DEF Alone
  <2>2. QueueLocked'
    BY <1>1, <2>1 DEF SlotInv, QueueLocked, Queued, Live
  <2>3. SlotsPast' /\ SlotOrder'
    BY <1>1, <2>1 DEF SlotInv, SlotsPast, SlotOrder
  <2> QED BY <2>2, <2>3
<1> QED BY <1>2, <1>3 DEF SlotInv

\* The first schedule finds nothing queued and nothing claimed.
LEMMA SlotCreate ==
    ASSUME IInv, SlotInv, NEW i \in Schedules, NEW start \in 0..MaxTime, Create(i, start)
    PROVE  SlotInv'
<1>1. /\ schedule[i].live = "absent"
      /\ schedule'[i].live = "live"
      /\ \A j \in Schedules \ {i} : schedule'[j] = schedule[j]
      /\ UNCHANGED <<clock, execution, worker>>
      /\ \A e \in Executions : execution[e].status # "ABSENT" => execution[e].schedule \in Schedules
  BY DEF Create, IInv, TypeOK, RowInv
<1>2. Allocated'
  BY <1>1 DEF SlotInv, Allocated
<1>3. ASSUME Alone' PROVE QueueLocked' /\ SlotsPast' /\ SlotOrder'
  <2>1. Alone /\ \A j \in Schedules : schedule[j].live = "absent"
    BY <1>1, <1>3 DEF Alone
  <2>2. \A w \in Workers : worker[w].todo = <<>>
    BY <2>1 DEF SlotInv, QueueLocked, Queued, Live
  <2>3. \A e \in Executions : execution[e].status = "ABSENT"
    BY <1>1, <2>1 DEF SlotInv, Allocated
  <2> QED BY <1>1, <2>2, <2>3 DEF QueueLocked, Queued, SlotsPast, SlotOrder
<1> QED BY <1>2, <1>3 DEF SlotInv

\* An edit waits for the lock, and a retimed schedule starts over behind the clock.
LEMMA SlotUpdate ==
    ASSUME IInv, SlotInv, NEW i \in Schedules, NEW enabled \in BOOLEAN, NEW retimed \in BOOLEAN,
           Update(i, enabled, retimed)
    PROVE  SlotInv'
<1>1. /\ \A j \in Schedules : schedule'[j].live = schedule[j].live
      /\ \A j \in Schedules \ {i} : schedule'[j] = schedule[j]
      /\ schedule'[i].next = IF retimed THEN NextSlot(clock) ELSE schedule[i].next
      /\ Live(i) /\ \A w \in Workers : i \notin worker[w].locks
      /\ UNCHANGED <<clock, execution, worker>>
      /\ \A e \in Executions : execution[e].status # "ABSENT" => execution[e].schedule \in Schedules
  BY DEF Update, Live, Locked, IInv, TypeOK, RowInv
<1>2. Allocated'
  BY <1>1 DEF SlotInv, Allocated
<1>3. ASSUME Alone' PROVE QueueLocked' /\ SlotsPast' /\ SlotOrder'
  <2>1. Alone
    BY <1>1, <1>3 DEF Alone
  <2>2. \A w \in Workers : worker[w].todo = <<>>
    BY <1>1, <2>1 DEF SlotInv, QueueLocked, Queued, Live, Alone
  <2>3. NextSlot(clock) = clock + 1 /\ clock \in Nat /\ \A e \in Executions : execution[e].slot \in Nat
    BY SchedulerAssumption DEF IInv, TypeOK, NextSlot, SchedulerAssumption, ExecutionRow, Slots
  <2>4. SlotsPast'
    BY <1>1, <2>1, <2>3 DEF SlotInv, SlotsPast
  <2>5. SlotOrder'
    BY <1>1, <2>1 DEF SlotInv, SlotOrder
  <2> QED BY <1>1, <2>2, <2>4, <2>5 DEF QueueLocked, Queued
<1> QED BY <1>2, <1>3 DEF SlotInv

LEMMA SlotDelete ==
    ASSUME IInv, SlotInv, NEW i \in Schedules, Delete(i)
    PROVE  SlotInv'
<1>1. /\ schedule'[i].live = "deleted"
      /\ \A j \in Schedules : schedule'[j].next = schedule[j].next
      /\ \A j \in Schedules \ {i} : schedule'[j] = schedule[j]
      /\ Live(i) /\ \A w \in Workers : i \notin worker[w].locks
      /\ UNCHANGED <<clock, worker>>
  BY DEF Delete, Live, Locked, IInv, TypeOK, ScheduleRow
<1>2. \A e \in Executions : /\ execution'[e].slot = execution[e].slot
                            /\ execution'[e].schedule = execution[e].schedule
                            /\ execution'[e].status # "ABSENT" <=> execution[e].status # "ABSENT"
                            /\ execution[e].status # "ABSENT" => execution[e].schedule \in Schedules
  <2>1. \A e \in Executions :
            /\ execution'[e].slot = execution[e].slot
            /\ execution'[e].schedule = execution[e].schedule
            /\ execution'[e].status = IF execution[e].schedule = i THEN "DELETED"
                                      ELSE execution[e].status
    BY DEF Delete, IInv, TypeOK, ExecutionRow
  <2>2. \A e \in Executions : execution[e].status = "ABSENT" <=> execution[e].schedule \notin Schedules
    BY SchedulerAssumption DEF IInv, RowInv, SchedulerAssumption, None
  <2> QED BY <2>1, <2>2
<1>3. Allocated'
  BY <1>1, <1>2 DEF SlotInv, Allocated
<1>4. ASSUME Alone' PROVE QueueLocked' /\ SlotsPast' /\ SlotOrder'
  <2>1. Alone
    BY <1>1, <1>4 DEF Alone, Live
  <2>2. \A w \in Workers : worker[w].todo = <<>>
    BY <1>1, <2>1 DEF SlotInv, QueueLocked, Queued, Live, Alone
  <2>3. SlotsPast' /\ SlotOrder'
    BY <1>1, <1>2, <2>1 DEF SlotInv, SlotsPast, SlotOrder
  <2> QED BY <1>1, <2>2, <2>3 DEF QueueLocked, Queued
<1> QED BY <1>3, <1>4 DEF SlotInv

LEMMA SlotRunDue ==
    ASSUME IInv, SlotInv, NEW w \in Workers, RunDue(w)
    PROVE  SlotInv'
<1> DEFINE due == {i \in Schedules : Due(i) /\ ~Locked(i)}
<1>1. PICK queue \in Sorted(due) :
           worker' = [worker EXCEPT ![w] =
                         [Idle EXCEPT !.pc = "loop", !.todo = queue, !.locks = RowLocks(due),
                                      !.seen = [i \in Schedules |-> schedule[i].next]]]
  BY DEF RunDue
<1> DEFINE s == [Idle EXCEPT !.pc = "loop", !.todo = queue, !.locks = RowLocks(due),
                             !.seen = [i \in Schedules |-> schedule[i].next]]
<1>2. due # {} /\ UNCHANGED <<clock, schedule, execution>>
  BY DEF RunDue
<1>3. ASSUME Alone PROVE Queued(s)
  <2>1. PICK i \in Schedules : i \in due
    BY <1>2
  <2>2. Live(i) /\ schedule[i].next <= clock
    BY <2>1 DEF Due
  <2>3. due = {i}
    BY <1>3, <2>1 DEF Alone, Due, Live
  <2> HIDE DEF due
  <2>4. Cardinality(due) = 1
    BY <2>3, FS_Singleton
  <2>5. queue \in [1..1 -> {i}]
    BY <1>1, <2>3, <2>4 DEF Sorted
  <2>6. queue \in Seq(Schedules) /\ Len(queue) = 1 /\ Head(queue) = i
    <3>1. queue \in Seq(Schedules)
      BY <1>1, <2>3, SortedType
    <3>2. DOMAIN queue = 1..1 /\ queue[1] = i
      BY <2>5
    <3> QED BY <3>1, <3>2
  <2>7. s.todo = queue /\ s.pc = "loop" /\ s.locks = {i} /\ s.seen[i] = schedule[i].next
    BY <2>3 DEF Idle, RowLocks
  <2> HIDE DEF s
  <2> QED BY <2>2, <2>6, <2>7 DEF Queued
<1>4. worker' = [worker EXCEPT ![w] = s]
  BY <1>1
<1> HIDE DEF s, due
<1> QED BY <1>2, <1>3, <1>4, SlotsStand

\* The slot that is claimed is the one of the locked row, ahead of all claimed before.
LEMMA SlotClaim ==
    ASSUME IInv, SlotInv, NEW w \in Workers, NEW e \in Executions, Claim(w, e)
    PROVE  SlotInv'
<1> PICK i : i = Head(worker[w].todo)
  OBVIOUS
<1> PICK slot : slot = worker[w].seen[i]
  OBVIOUS
<1>1. /\ worker[w] \in WorkerState /\ worker[w].todo # <<>> /\ i \in Schedules /\ slot \in Slots
      /\ worker[w].todo \in Seq(Schedules)
      /\ Live(i) /\ \A v \in Workers \ {w} : i \notin worker[v].locks
      /\ execution[e].status = "ABSENT"
      /\ \A f \in Executions : f < e => execution[f].status # "ABSENT"
      /\ e \in Nat /\ \A f \in Executions : f \in Nat
  BY SchedulerAssumption DEF Claim, IInv, TypeOK, HolderInv, WorkerState, SchedulerAssumption
<1>2. /\ execution'[e].status = "RUNNING" /\ execution'[e].schedule = i /\ execution'[e].slot = slot
      /\ \A f \in Executions \ {e} : execution'[f] = execution[f]
      /\ schedule'[i].next = NextSlot(slot)
      /\ \A j \in Schedules : schedule'[j].live = schedule[j].live
      /\ \A j \in Schedules \ {i} : schedule'[j] = schedule[j]
      /\ UNCHANGED clock
  BY <1>1 DEF Claim, IInv, TypeOK, ScheduleRow
<1>3. /\ worker'[w].todo = Tail(worker[w].todo)
      /\ \A v \in Workers \ {w} : worker'[v] = worker[v]
  BY DEF Claim, IInv, TypeOK
<1>4. Allocated'
  <2> SUFFICES ASSUME NEW f \in Executions, execution'[f].status # "ABSENT"
               PROVE  /\ schedule'[execution'[f].schedule].live # "absent"
                      /\ \A g \in Executions : g < f => execution'[g].status # "ABSENT"
    BY DEF Allocated
  <2>1. CASE f = e
    BY <1>1, <1>2, <2>1 DEF Live
  <2>2. CASE f # e
    <3>1. execution[f].status # "ABSENT" /\ execution[f].schedule \in Schedules
      BY <1>2, <2>2 DEF IInv, RowInv
    <3>2. /\ schedule[execution[f].schedule].live # "absent"
          /\ \A g \in Executions : g < f => execution[g].status # "ABSENT"
      BY <3>1 DEF SlotInv, Allocated
    <3>3. schedule'[execution[f].schedule].live # "absent"
      BY <1>2, <3>1, <3>2
    <3>4. \A g \in Executions : g < f => execution'[g].status # "ABSENT"
      BY <1>2, <3>2
    <3> QED BY <1>2, <2>2, <3>3, <3>4
  <2> QED BY <2>1, <2>2
<1>5. ASSUME Alone' PROVE QueueLocked' /\ SlotsPast' /\ SlotOrder'
  <2>1. Alone
    BY <1>2, <1>5 DEF Alone
  <2>2. Len(worker[w].todo) = 1 /\ slot = schedule[i].next /\ slot <= clock
    BY <1>1, <2>1 DEF SlotInv, QueueLocked, Queued
  <2>3. worker'[w].todo = <<>>
    BY <1>1, <1>3, <2>2, ShortTail
  <2>4. \A v \in Workers \ {w} : worker[v].todo = <<>>
    BY <1>1, <2>1 DEF SlotInv, QueueLocked, Queued, Alone, Live
  <2>5. \A v \in Workers : worker'[v].todo = <<>>
    BY <1>3, <2>3, <2>4
  <2>6. QueueLocked'
    BY <2>5 DEF QueueLocked, Queued
  <2>7. NextSlot(slot) = slot + 1 /\ slot \in Nat /\ clock \in Nat
    BY <1>1, <2>2, SchedulerAssumption DEF IInv, TypeOK, NextSlot, SchedulerAssumption, Slots
  <2>8. \A f \in Executions : execution[f].slot \in Nat
    BY SchedulerAssumption DEF IInv, TypeOK, ExecutionRow, SchedulerAssumption, Slots
  <2>9. \A f \in Executions : execution[f].status # "ABSENT" =>
            execution[f].schedule = i /\ execution[f].slot < slot /\ execution[f].slot <= clock
    <3> SUFFICES ASSUME NEW f \in Executions, execution[f].status # "ABSENT"
                 PROVE  execution[f].schedule = i /\ execution[f].slot < slot
                          /\ execution[f].slot <= clock
      OBVIOUS
    <3>1. execution[f].schedule \in Schedules
      BY DEF IInv, RowInv
    <3>2. execution[f].schedule = i
      BY <1>1, <2>1, <3>1 DEF SlotInv, Allocated, Alone, Live
    <3> QED BY <2>1, <2>2, <3>2 DEF SlotInv, SlotsPast
  <2>10. SlotsPast'
    BY <1>2, <2>2, <2>7, <2>8, <2>9 DEF SlotsPast
  <2>11. SlotOrder'
    <3> SUFFICES ASSUME NEW f \in Executions, NEW g \in Executions,
                        execution'[f].schedule = execution'[g].schedule,
                        execution'[f].status # "ABSENT", execution'[g].status # "ABSENT", f < g
                 PROVE  execution'[f].slot < execution'[g].slot
      BY DEF SlotOrder
    <3>1. CASE f = e
      BY <1>1, <1>2, <3>1 DEF SlotInv, Allocated
    <3>2. CASE g = e
      BY <1>1, <1>2, <2>9, <3>2
    <3>3. CASE f # e /\ g # e
      BY <1>2, <2>1, <3>3 DEF SlotInv, SlotOrder
    <3> QED BY <3>1, <3>2, <3>3
  <2> QED BY <2>6, <2>10, <2>11
<1> QED BY <1>4, <1>5 DEF SlotInv

LEMMA SlotStep ==
    ASSUME IInv, SlotInv, NEW w \in Workers, Step(w)
    PROVE  SlotInv'
<1>1. worker[w] \in WorkerState /\ worker[w].todo \in Seq(Schedules)
  BY DEF IInv, TypeOK, WorkerState
<1>2. Idle.todo = <<>> /\ Idle.pc = "idle"
  BY DEF Idle
<1>3. CASE Return(w) \/ ClaimGone(w)
  BY <1>2, <1>3, SlotsStand, EmptyQueue DEF Return, ClaimGone
<1>4. CASE CheckActive(w)
  <2> PICK i : i = Head(worker[w].todo)
    OBVIOUS
  <2>1. worker[w].todo # <<>> /\ worker[w].pc = "loop" /\ UNCHANGED <<clock, schedule, execution>>
    BY <1>4 DEF CheckActive
  <2>2. Alone => Queued(worker[w])
    BY DEF SlotInv, QueueLocked
  <2>3. CASE worker' = [worker EXCEPT ![w] = Idle]
    BY <1>2, <2>1, <2>3, SlotsStand, EmptyQueue
  <2>4. CASE worker' = [worker EXCEPT ![w].todo = Tail(@)]
    <3> DEFINE s == [worker[w] EXCEPT !.todo = Tail(@)]
    <3>1. s.todo = Tail(worker[w].todo) /\ worker' = [worker EXCEPT ![w] = s]
      BY <1>1, <2>4 DEF WorkerState
    <3>2. Alone => s.todo = <<>>
      BY <1>1, <2>1, <2>2, <3>1, ShortTail DEF Queued
    <3> HIDE DEF s
    <3> QED BY <2>1, <3>1, <3>2, SlotsStand, EmptyQueue
  <2>5. CASE worker' = [worker EXCEPT ![w].pc = "checked",
                             ![w].seen[i] = IF @ = Expired THEN schedule[i].next ELSE @]
    <3> DEFINE s == [worker[w] EXCEPT !.pc = "checked",
                         !.seen[i] = IF @ = Expired THEN schedule[i].next ELSE @]
    <3>1. i \in Schedules
      BY <1>1, <2>1
    <3>2. /\ s.pc = "checked" /\ s.todo = worker[w].todo /\ s.locks = worker[w].locks
          /\ s.seen[i] = IF worker[w].seen[i] = Expired THEN schedule[i].next ELSE worker[w].seen[i]
      BY <1>1, <3>1 DEF WorkerState
    <3>3. worker' = [worker EXCEPT ![w] = s]
      BY <2>5
    <3> HIDE DEF s
    <3>4. Alone => Queued(s)
      BY <2>1, <2>2, <3>2 DEF Queued
    <3> QED BY <2>1, <3>3, <3>4, SlotsStand
  <2> QED BY <1>4, <2>3, <2>4, <2>5 DEF CheckActive
<1>5. CASE ClaimConflict(w)
  <2> DEFINE s == [Idle EXCEPT !.pc = "loop", !.todo = Tail(worker[w].todo)]
  <2>1. worker[w].todo # <<>>
    BY <1>5 DEF ClaimConflict, IInv, HolderInv
  <2>2. s.todo = Tail(worker[w].todo) /\ s.pc = "loop"
    BY DEF Idle
  <2>3. worker' = [worker EXCEPT ![w] = s] /\ UNCHANGED <<clock, schedule, execution>>
    BY <1>5 DEF ClaimConflict
  <2> HIDE DEF s
  <2>4. Alone => s.todo = <<>>
    BY <1>1, <2>1, <2>2, ShortTail DEF SlotInv, QueueLocked, Queued
  <2> QED BY <2>3, <2>4, SlotsStand, EmptyQueue
<1>6. ASSUME NEW succeeded \in BOOLEAN, Launch(w, succeeded) PROVE SlotInv'
  <2> PICK n : n = worker[w].attempt
    OBVIOUS
  <2>1. /\ worker[w].pc = "launching" /\ UNCHANGED <<clock, schedule>>
        /\ \A f \in Executions : /\ execution'[f].slot = execution[f].slot
                                 /\ execution'[f].schedule = execution[f].schedule
                                 /\ execution'[f].status = execution[f].status
    BY <1>6 DEF Launch, IInv, TypeOK, ExecutionRow
  <2> DEFINE s == IF succeeded THEN [worker[w] EXCEPT !.pc = "ending", !.outcome = "COMPLETED"]
                  ELSE AfterFailure(worker[w], n)
  <2>2. worker' = [worker EXCEPT ![w] = s]
    BY <1>6 DEF Launch
  <2>3. s.todo = worker[w].todo
    BY <1>1 DEF AfterFailure, WorkerState
  <2> HIDE DEF s
  <2>4. Alone => s.todo = <<>>
    BY <2>1, <2>3 DEF SlotInv, QueueLocked, Queued
  <2> QED BY <2>1, <2>2, <2>4, SlotsStand, EmptyQueue
<1>7. CASE Finish(w)
  <2> PICK e : e = worker[w].exec
    OBVIOUS
  <2>1. worker[w].pc = "ending" /\ UNCHANGED <<clock, schedule>>
    BY <1>7 DEF Finish
  <2>2. e \in Executions /\ execution[e].status \in {"RUNNING", "DELETED"}
        /\ worker[w].outcome \in {"COMPLETED", "FAILED"}
    BY <1>1, <2>1 DEF IInv, HolderInv, WorkerState
  <2>3. CASE execution[e].status # "DELETED"
    <3> DEFINE s == [Idle EXCEPT !.pc = "loop", !.todo = worker[w].todo,
                                 !.seen = worker[w].seen, !.locks = worker[w].locks]
    <3>1. s.todo = worker[w].todo
      BY DEF Idle
    <3>2. worker' = [worker EXCEPT ![w] = s]
      BY <1>7, <2>3 DEF Finish
    <3> HIDE DEF s
    <3>3. Alone => s.todo = <<>>
      BY <2>1, <3>1 DEF SlotInv, QueueLocked, Queued
    <3>4. \A f \in Executions :
              /\ execution'[f].slot = execution[f].slot
              /\ execution'[f].schedule = execution[f].schedule
              /\ execution'[f].status = "ABSENT" <=> execution[f].status = "ABSENT"
      BY <1>7, <2>2, <2>3 DEF Finish, IInv, TypeOK, ExecutionRow
    <3> QED BY <2>1, <3>2, <3>3, <3>4, SlotsStand, EmptyQueue
  <2>4. CASE execution[e].status = "DELETED"
    BY <1>2, <1>7, <2>1, <2>4, SlotsStand, EmptyQueue DEF Finish
  <2> QED BY <2>3, <2>4
<1> QED BY <1>3, <1>4, <1>5, <1>6, <1>7, SlotClaim DEF Step

LEMMA NextSlotInv == IInv /\ SlotInv /\ [Next]_vars => SlotInv'
<1> SUFFICES ASSUME IInv, SlotInv, [Next]_vars PROVE SlotInv'
  OBVIOUS
<1>1. ASSUME NEW w \in Workers, Crash(w) PROVE SlotInv'
  BY <1>1, SlotsStand, EmptyQueue DEF Crash, Idle
<1>2. CASE UNCHANGED vars
  BY <1>2 DEF vars, SlotInv, Allocated, Alone, QueueLocked, Queued, Live, SlotsPast, SlotOrder
<1> QED BY <1>1, <1>2, SlotTick, SlotCreate, SlotUpdate, SlotDelete, SlotRunDue, SlotStep DEF Next

LEMMA AtMostOneSchedule ==
    ASSUME Cardinality({i \in Schedules : schedule[i].live # "absent"}) <= 1
    PROVE  Alone
<1> SUFFICES ASSUME NEW i \in Schedules, NEW j \in Schedules, i # j,
                    schedule[i].live # "absent", schedule[j].live # "absent"
             PROVE  FALSE
  BY DEF Alone
<1> DEFINE known == {k \in Schedules : schedule[k].live # "absent"}
<1>1. IsFiniteSet(known) /\ {i, j} \subseteq known
  BY FS_Subset, SchedulerAssumption DEF SchedulerAssumption
<1>2. Cardinality({i, j}) = 2
  <2>1. IsFiniteSet({i}) /\ Cardinality({i}) = 1
    BY FS_Singleton
  <2>2. Cardinality({i} \cup {j}) = 2
    <3>1. Cardinality({i} \cup {j}) = Cardinality({i}) + 1
      BY <2>1, FS_AddElement
    <3> QED BY <2>1, <3>1
  <2>3. {i} \cup {j} = {i, j}
    OBVIOUS
  <2> QED BY <2>2, <2>3
<1> HIDE DEF known
<1>3. Cardinality({i, j}) <= Cardinality(known) /\ Cardinality(known) \in Nat
  BY <1>1, FS_Subset, FS_CardinalityType
<1> QED BY <1>2, <1>3 DEF known

\* The slots of the only schedule are run in order and none twice, while requests,
\* retiming and a late clock interleave (run_due, _claim).
THEOREM SlotsInOrder == Spec => []SlotsAscend
<1>1. Init => SlotInv
  BY DEF Init, SlotInv, Allocated, Alone, QueueLocked, Queued, SlotsPast, SlotOrder, NoExecution, Idle
<1>2. Spec => []SlotInv
  BY <1>1, NextSlotInv, Invariance, PTL DEF Spec
<1>3. SlotInv => SlotsAscend
  BY AtMostOneSchedule DEF SlotInv, SlotOrder, SlotsAscend
<1> QED BY <1>2, <1>3, PTL

=============================================================================
