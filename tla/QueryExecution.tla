--------------------------- MODULE QueryExecution ---------------------------
(***************************************************************************)
(* The query executor: a request stores an execution, registers its        *)
(* cancellation event in the memory of the server process, runs the steps  *)
(* of a plan with retries and timeouts, and stores the result.  A          *)
(* cancellation may arrive at another process, reads the row, sets the     *)
(* event if it finds one and commits CANCELLED, each a step of its own.    *)
(*                                                                         *)
(* A call that timed out keeps running in its thread; its answer is        *)
(* dropped, so the model forgets it.  Backoff is the time a step spends    *)
(* between two attempts.                                                   *)
(***************************************************************************)
EXTENDS Naturals, Sequences, FiniteSets, Functions, PlanContract

CONSTANTS Executions,   \* execution ids
          Servers,      \* server processes
          Cancellers,   \* cancellation requests in progress at once
          Plans,        \* plans that clients send
          PoolSize,     \* max_workers of execute_parallel
          Crashes       \* whether a server process may die

Modes == {"SINGLE", "PARALLEL", "ENSEMBLE", "CONSENSUS", "FALLBACK"}
Outcome == {"COMPLETED", "PARTIAL", "FAILED", "CANCELLED", "TIMED_OUT"}
ExecutorState == {"PENDING", "RUNNING"} \cup Outcome
StepState == {"COMPLETED", "FAILED", "CANCELLED", "TIMED_OUT", "SKIPPED"}

\* retries: max_retries of each step; storable: its values fit the columns they
\* are stored in, which only the final commit finds out.
Plan == [mode : Modes, ids : Seq(Nat), retries : Seq(0..3), storable : BOOLEAN]

ASSUME ExecutorAssumption ==
    /\ Plans \subseteq Plan
    /\ \A p \in Plans : Len(p.ids) = Len(p.retries) /\ Len(p.ids) \in 1..20
    /\ PoolSize \in Nat \ {0}
    /\ Crashes \in BOOLEAN

VARIABLES row,      \* table query_execution_history
          run,      \* the request that executes each plan, and its result in memory
          step,     \* the steps of each execution
          event,    \* the cancellation event of each execution
          active,   \* _active_cancellations of each server process
          cancel    \* cancellation requests

vars == <<row, run, step, event, active, cancel>>

Absent == [state |-> "ABSENT", output |-> FALSE]
Row == [state : ExecutorState, output : BOOLEAN] \cup {Absent}
Run == [pc : {"created", "registered", "executing", "collected", "persisted",
              "done", "aborted", "dead"},
        server : Servers, plan : Plans, result : Outcome \cup {"NONE"}]
NotRun == [pc |-> "none"]
Step == [pc : {"waiting", "checking", "dispatching"} \cup StepState, attempts : 0..4]
Unstarted == [pc |-> "waiting", attempts |-> 0]
IdleCancel == [pc |-> "idle"]

TypeOK ==
    /\ row \in [Executions -> Row]
    /\ run \in [Executions -> Run \cup {NotRun}]
    /\ step \in [Executions -> Seq(Step)]
    /\ event \in [Executions -> BOOLEAN]
    /\ active \in [Servers -> SUBSET Executions]
    /\ cancel \in [Cancellers ->
                     [pc : {"found", "signalled"}, server : Servers, exec : Executions]
                         \cup {IdleCancel}]

Init ==
    /\ row = [e \in Executions |-> Absent]
    /\ run = [e \in Executions |-> NotRun]
    /\ step = [e \in Executions |-> <<>>]
    /\ event = [e \in Executions |-> FALSE]
    /\ active = [s \in Servers |-> {}]
    /\ cancel = [k \in Cancellers |-> IdleCancel]

-----------------------------------------------------------------------------
(***************************************************************************)
(* run                                                                     *)
(***************************************************************************)
Create(e, s, plan) ==
    /\ run[e] = NotRun
    /\ row' = [row EXCEPT ![e] = [state |-> "PENDING", output |-> FALSE]]
    /\ run' = [run EXCEPT ![e] =
                 [pc |-> "created", server |-> s, plan |-> plan, result |-> "NONE"]]
    /\ step' = [step EXCEPT ![e] = [i \in 1..Len(plan.ids) |-> Unstarted]]
    /\ UNCHANGED <<event, active, cancel>>

Register(e) ==
    /\ run[e].pc = "created"
    /\ active' = [active EXCEPT ![run[e].server] = @ \cup {e}]
    /\ run' = [run EXCEPT ![e].pc = "registered"]
    /\ UNCHANGED <<row, step, event, cancel>>

\* Writes RUNNING over whatever the row has become since it was created.
Start(e) ==
    /\ run[e].pc = "registered"
    /\ row' = [row EXCEPT ![e].state = "RUNNING"]
    /\ run' = [run EXCEPT ![e].pc = "executing"]
    /\ UNCHANGED <<step, event, active, cancel>>

\* validate_plan
Valid(plan) == IsInjective(plan.ids) /\ (plan.mode = "SINGLE" => Len(plan.ids) = 1)

\* finally: _unregister
Registered(e) == [active EXCEPT ![run[e].server] = @ \ {e}]

\* An exception leaves the row as it is.
Abort(e) ==
    /\ \/ run[e].pc = "executing" /\ ~Valid(run[e].plan)
       \/ run[e].pc = "collected" /\ ~run[e].plan.storable
    /\ run' = [run EXCEPT ![e].pc = "aborted"]
    /\ active' = Registered(e)
    /\ UNCHANGED <<row, step, event, cancel>>

-----------------------------------------------------------------------------
(***************************************************************************)
(* execute_plan                                                            *)
(***************************************************************************)
Concurrent(plan) == plan.mode \in {"PARALLEL", "ENSEMBLE", "CONSENSUS"}
Steps(e) == DOMAIN step[e]
In(e, states) == {i \in Steps(e) : step[e][i].pc \in states}
Executing(e) == run[e].pc = "executing" /\ Valid(run[e].plan)

\* A pool takes the steps in order, a fallback the next one after a failure.
MayStart(e, i) ==
    IF Concurrent(run[e].plan)
    THEN /\ \A j \in 1..(i - 1) : step[e][j].pc # "waiting"
         /\ Cardinality(In(e, {"checking", "dispatching"})) < PoolSize
    ELSE i > 1 => /\ step[e][i - 1].pc \in StepState \ {"COMPLETED"}
                  /\ ~event[e]

StartStep(e, i) ==
    /\ Executing(e)
    /\ step[e][i].pc = "waiting"
    /\ MayStart(e, i)
    /\ step' = [step EXCEPT ![e][i].pc = "checking"]
    /\ UNCHANGED <<row, run, event, active, cancel>>

\* The top of the retry loop: the only place where a step becomes CANCELLED.
Check(e, i) ==
    /\ Executing(e)
    /\ step[e][i].pc = "checking"
    /\ step' = [step EXCEPT ![e][i].pc = IF event[e] THEN "CANCELLED" ELSE "dispatching"]
    /\ UNCHANGED <<row, run, event, active, cancel>>

\* A call that is under way when the event is set may still answer.
Answer(e, i) ==
    /\ Executing(e)
    /\ step[e][i].pc = "dispatching"
    /\ step' = [step EXCEPT ![e][i] = [pc |-> "COMPLETED", attempts |-> @.attempts + 1]]
    /\ UNCHANGED <<row, run, event, active, cancel>>

LastAttempt_Late(e, i, n) == n = 2 + run[e].plan.retries[i]
LastAttempt(e, i, n) == n = 1 + run[e].plan.retries[i]

\* how: FAILED for any error of adapter or provider, TIMED_OUT.
AttemptFails(e, i, how) ==
    LET n == step[e][i].attempts + 1
    IN  /\ Executing(e)
        /\ step[e][i].pc = "dispatching"
        /\ step' = [step EXCEPT ![e][i] =
                      [pc |-> IF LastAttempt(e, i, n) THEN how ELSE "checking", attempts |-> n]]
        /\ UNCHANGED <<row, run, event, active, cancel>>

\* Every result is in, or the fallback loop was left.
Collectable(e) ==
    \/ In(e, StepState) = Steps(e)
    \/ /\ ~Concurrent(run[e].plan)
       /\ In(e, {"checking", "dispatching"}) = {}
       /\ In(e, {"COMPLETED"}) # {} \/ (event[e] /\ In(e, StepState) # {})

OutcomeOf_Optimistic(e) ==
    IF In(e, {"COMPLETED"}) # {} THEN "COMPLETED"
    ELSE IF event[e] THEN "CANCELLED"
    ELSE IF In(e, {"TIMED_OUT"}) # {} THEN "TIMED_OUT" ELSE "FAILED"
OutcomeOf(e) ==
    LET completed == In(e, {"COMPLETED"})
    IN  CASE event[e] -> "CANCELLED"
          [] ~event[e] /\ completed = Steps(e) -> "COMPLETED"
          [] ~event[e] /\ completed \notin {{}, Steps(e)} ->
                 IF run[e].plan.mode = "FALLBACK" THEN "COMPLETED" ELSE "PARTIAL"
          [] ~event[e] /\ completed = {} ->
                 IF In(e, {"TIMED_OUT"}) # {} THEN "TIMED_OUT" ELSE "FAILED"

Collect(e) ==
    /\ Executing(e)
    /\ Collectable(e)
    /\ run' = [run EXCEPT ![e].pc = "collected", ![e].result = OutcomeOf(e)]
    /\ step' = [step EXCEPT ![e] =
                  [i \in Steps(e) |->
                     IF step[e][i].pc = "waiting" /\ In(e, {"COMPLETED"}) # {}
                     THEN [step[e][i] EXCEPT !.pc = "SKIPPED"] ELSE step[e][i]]]
    /\ UNCHANGED <<row, event, active, cancel>>

\* The final commit overwrites the state without looking at the row.
Persist(e) ==
    /\ run[e].pc = "collected" /\ run[e].plan.storable
    /\ row' = [row EXCEPT ![e] = [state |-> run[e].result, output |-> TRUE]]
    /\ run' = [run EXCEPT ![e].pc = "persisted"]
    /\ UNCHANGED <<step, event, active, cancel>>

Unregister(e) ==
    /\ run[e].pc = "persisted"
    /\ active' = Registered(e)
    /\ run' = [run EXCEPT ![e].pc = "done"]
    /\ UNCHANGED <<row, step, event, cancel>>

-----------------------------------------------------------------------------
(***************************************************************************)
(* cancel                                                                  *)
(***************************************************************************)
CancelRead(k, e, s) ==
    /\ cancel[k] = IdleCancel
    /\ row[e].state \in {"PENDING", "RUNNING"}
    /\ cancel' = [cancel EXCEPT ![k] = [pc |-> "found", server |-> s, exec |-> e]]
    /\ UNCHANGED <<row, run, step, event, active>>

\* Only a request that runs in the same process is reached.
Reached(k) == cancel[k].exec \in active[cancel[k].server]

CancelSignal(k) ==
    /\ cancel[k].pc = "found"
    /\ event' = [event EXCEPT ![cancel[k].exec] = @ \/ Reached(k)]
    /\ cancel' = [cancel EXCEPT ![k].pc = "signalled"]
    /\ UNCHANGED <<row, run, step, active>>

CancelCommit(k) ==
    /\ cancel[k].pc = "signalled"
    /\ row' = [row EXCEPT ![cancel[k].exec].state = "CANCELLED"]
    /\ cancel' = [cancel EXCEPT ![k] = IdleCancel]
    /\ UNCHANGED <<run, step, event, active>>

\* A process takes its requests and its registry with it.
Crash(s) ==
    /\ Crashes
    /\ active' = [active EXCEPT ![s] = {}]
    /\ run' = [e \in Executions |->
                 IF run[e] # NotRun /\ run[e].server = s /\ run[e].pc \notin {"done", "aborted"}
                 THEN [run[e] EXCEPT !.pc = "dead"] ELSE run[e]]
    /\ cancel' = [k \in Cancellers |->
                    IF cancel[k] # IdleCancel /\ cancel[k].server = s
                    THEN IdleCancel ELSE cancel[k]]
    /\ UNCHANGED <<row, step, event>>

Advance(e) ==
    \/ Register(e)
    \/ Start(e)
    \/ \E i \in Steps(e) :
        \/ StartStep(e, i)
        \/ Check(e, i)
        \/ Answer(e, i)
        \/ \E how \in {"FAILED", "TIMED_OUT"} : AttemptFails(e, i, how)
    \/ Collect(e)
    \/ Persist(e)
    \/ Unregister(e)
    \/ Abort(e)

Next ==
    \/ \E e \in Executions :
        \/ \E s \in Servers, plan \in Plans : Create(e, s, plan)
        \/ Advance(e)
    \/ \E k \in Cancellers :
        \/ \E e \in Executions, s \in Servers : CancelRead(k, e, s)
        \/ CancelSignal(k)
        \/ CancelCommit(k)
    \/ \E s \in Servers : Crash(s)

Spec == Init /\ [][Next]_vars

\* Threads run, provider calls end or time out, sleeps end.
FairSpec == Spec /\ \A e \in Executions : WF_vars(Advance(e))

-----------------------------------------------------------------------------
(***************************************************************************)
(* Properties                                                              *)
(***************************************************************************)
\* What RouterBudget relies on: whatever its steps did and however they were
\* interleaved, an execution that was not cancelled delivers as its mode says.
ContractKept ==
    \A e \in Executions :
        run[e] # NotRun /\ run[e].result \notin {"NONE", "CANCELLED"} =>
            Delivers(Concurrent(run[e].plan), Steps(e), In(e, {"COMPLETED"}),
                     run[e].result = "COMPLETED")

\* "per-provider retries" (README.md:312): a fallback turns to the next provider
\* only when every earlier one has failed as often as its step allows.
FallbackExhausts ==
    \A e \in Executions :
        run[e] # NotRun /\ run[e].plan.mode = "FALLBACK" =>
            \A i \in Steps(e) :
                step[e][i].pc \notin {"waiting", "SKIPPED"} =>
                    \A j \in 1..(i - 1) :
                        /\ step[e][j].pc \in {"FAILED", "TIMED_OUT"}
                        /\ step[e][j].attempts = 1 + run[e].plan.retries[j]

\* _active_cancellations holds the executions in progress in its process and no
\* others: refused plans and failed commits do not leave their event behind.
RegistryExact ==
    \A s \in Servers, e \in Executions :
        e \in active[s] =>
            run[e].server = s /\ run[e].pc \in {"registered", "executing", "collected", "persisted"}

Over(e) == run[e].pc \in {"done", "aborted", "dead"}

\* Every execution that was accepted ends, though steps wait for a place in the
\* pool and a fallback may be left halfway.
EveryRunEnds == \A e \in Executions : run[e].pc = "created" ~> Over(e)

\* "cooperative cancellation" (README.md:312): an event that is set while steps
\* are still running is heard, and the execution ends CANCELLED.
SignalHeard ==
    \A e \in Executions :
        run[e].pc = "executing" /\ event[e] ~>
            run[e].pc \in {"aborted", "dead"} \/ (run[e].pc = "done" /\ row[e].state = "CANCELLED")

\* ContractKept, FallbackExhausts and RegistryExact together: an execution delivers what
\* its mode promises and leaves no cancellation event behind (query_executor/service.py).
PlansKept == ContractKept /\ FallbackExhausts /\ RegistryExact

=============================================================================
