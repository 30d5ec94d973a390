---------------------------- MODULE ServicesProofs ----------------------------
(***************************************************************************)
(* Theorems about the services that run research: the query executor, the  *)
(* adapters of the providers, and the research queue and its runs, for any *)
(* plans, selections, numbers of threads, workers and requests, and deaths *)
(* of processes.                                                           *)
(*                                                                         *)
(* The inductive invariants are IInv, PInv and RInv.  What an execution    *)
(* delivers needs what each of its steps has come to (Kept).  What the     *)
(* limiter holds needs who holds the permits and what its window has seen. *)
(* ResearchSettled alone is not inductive: that a job is taken once needs  *)
(* to know who holds it and who has its lock (QueueInv); what a job says of*)
(* its run needs what the run and the judging worker remember of the status*)
(* while nobody else writes it (AloneKept, FinishedKept, JudgedKept); that *)
(* a research is not left ACTIVE needs who will yet write it (ActiveKept); *)
(* and that it is scored needs who will yet count, and what it has found   *)
(* (FoundKept, ScoreKept).                                                 *)
(***************************************************************************)
EXTENDS MCServices, FiniteSetTheorems, SequenceTheorems, SumTheorems

-----------------------------------------------------------------------------
(***************************************************************************)
(* QueryExecution: the shape of a run and of its steps                     *)
(***************************************************************************)
Underway == {"created", "registered", "executing"}

\* The result in memory is set when the steps are collected, and steps are skipped then.
RunShape(e) ==
    /\ run[e] = NotRun => step[e] = <<>>
    /\ run[e] # NotRun => Len(step[e]) = Len(run[e].plan.ids)
    /\ run[e].pc \in Underway => run[e].result = "NONE"
    /\ run[e].pc \in {"collected", "persisted"} => run[e].result # "NONE"
    /\ run[e] # NotRun /\ run[e].result = "NONE" =>
           \A i \in Steps(e) : step[e][i].pc # "SKIPPED"

\* A step is given up after all its attempts, or because the event is set.
StepShape(e, i) ==
    /\ step[e][i].pc = "waiting" => step[e][i].attempts = 0
    /\ step[e][i].pc \in {"checking", "dispatching"} =>
           step[e][i].attempts <= run[e].plan.retries[i]
    /\ step[e][i].pc \in {"FAILED", "TIMED_OUT"} =>
           step[e][i].attempts = 1 + run[e].plan.retries[i]
    /\ step[e][i].pc = "CANCELLED" => event[e]

\* Without concurrency a step is begun when every earlier one has failed.
InTurn(e, i) ==
    ~Concurrent(run[e].plan) /\ step[e][i].pc \notin {"waiting", "SKIPPED"} =>
        \A j \in 1..(i - 1) : step[e][j].pc \in {"FAILED", "TIMED_OUT"}

StepsKept(e) == run[e] # NotRun => \A i \in Steps(e) : StepShape(e, i) /\ InTurn(e, i)

Contracted(e) ==
    run[e] # NotRun /\ run[e].result \notin {"NONE", "CANCELLED"} =>
        Delivers(Concurrent(run[e].plan), Steps(e), In(e, {"COMPLETED"}),
                 run[e].result = "COMPLETED")

Kept(e) == RunShape(e) /\ StepsKept(e) /\ Contracted(e)

\* The inductive invariant.
IInv == TypeOK /\ (\A e \in Executions : Kept(e)) /\ RegistryExact

-----------------------------------------------------------------------------
LEMMA PlanShape ==
    ASSUME NEW p \in Plans
    PROVE  /\ p.mode \in Modes /\ p.storable \in BOOLEAN
           /\ p.ids \in Seq(Nat) /\ p.retries \in Seq(0..3)
           /\ Len(p.ids) = Len(p.retries) /\ Len(p.ids) \in 1..20
BY ExecutorAssumption DEF ExecutorAssumption, Plan

LEMMA RunFields ==
    ASSUME TypeOK, NEW e \in Executions, run[e].pc # "none"
    PROVE  run[e] \in Run
BY DEF TypeOK, NotRun

\* run: what a request has in its hands is a run.
LEMMA RunIsNot == \A r \in Run : r # NotRun /\ r.pc # "none"
BY DEF Run, NotRun

LEMMA StepFields ==
    ASSUME TypeOK, NEW e \in Executions
    PROVE  /\ step[e] \in Seq(Step) /\ Steps(e) = 1..Len(step[e]) /\ Len(step[e]) \in Nat
           /\ \A i \in Steps(e) : step[e][i] \in Step
<1>1. step[e] \in Seq(Step)
  BY DEF TypeOK
<1> QED BY <1>1, LenProperties DEF Steps

\* An execution that a step leaves alone.
LEMMA KeptStands ==
    ASSUME NEW e \in Executions, Kept(e), run'[e] = run[e], step'[e] = step[e],
           event[e] => event'[e]
    PROVE  Kept(e)'
BY DEF Kept, RunShape, StepsKept, StepShape, InTurn, Contracted, Steps, In

\* An execution whose request goes on, with its steps as they are.
LEMMA KeptMoves ==
    ASSUME NEW e \in Executions, Kept(e), run[e] \in Run, NEW pc,
           run'[e] = [run[e] EXCEPT !.pc = pc], run'[e] \in Run,
           step'[e] = step[e], event'[e] = event[e],
           pc \in Underway => run[e].pc \in Underway,
           pc \in {"collected", "persisted"} => run[e].pc \in {"collected", "persisted"}
    PROVE  Kept(e)'
<1>1. /\ run'[e].plan = run[e].plan /\ run'[e].result = run[e].result /\ run'[e].pc = pc
      /\ run[e] # NotRun /\ run'[e] # NotRun
  BY RunIsNot DEF Run
<1>2. RunShape(e)'
  BY <1>1 DEF Kept, RunShape, Steps
<1>3. StepsKept(e)'
  BY <1>1 DEF Kept, StepsKept, StepShape, InTurn, Steps
<1>4. Contracted(e)'
  BY <1>1 DEF Kept, Contracted, Steps, In
<1> QED BY <1>2, <1>3, <1>4 DEF Kept

\* One step of one execution goes on.
LEMMA StepMoves ==
    ASSUME IInv, NEW e \in Executions, Executing(e), NEW i \in Steps(e), NEW s \in Step,
           step' = [step EXCEPT ![e][i] = s], UNCHANGED <<row, run, event, active, cancel>>,
           step[e][i].pc \in {"waiting", "checking", "dispatching"},
           s.pc \notin {"waiting", "SKIPPED"},
           s.pc \in {"checking", "dispatching"} => s.attempts <= run[e].plan.retries[i],
           s.pc \in {"FAILED", "TIMED_OUT"} => s.attempts = 1 + run[e].plan.retries[i],
           s.pc = "CANCELLED" => event[e],
           step[e][i].pc = "waiting" /\ ~Concurrent(run[e].plan) =>
               \A j \in 1..(i - 1) : step[e][j].pc \in {"FAILED", "TIMED_OUT"}
    PROVE  IInv'
<1> USE DEF IInv
<1>1. run[e].pc = "executing" /\ run[e] \in Run /\ run[e] # NotRun /\ run[e].result = "NONE"
  BY RunFields, RunIsNot DEF Executing, Kept, RunShape, Underway
<1>2. /\ step[e] \in Seq(Step) /\ Steps(e) = 1..Len(step[e]) /\ Len(step[e]) \in Nat
      /\ step'[e] = [step[e] EXCEPT ![i] = s]
  BY StepFields DEF TypeOK
<1>3. /\ step'[e] \in Seq(Step) /\ Len(step'[e]) = Len(step[e])
      /\ \A j \in Steps(e) : step'[e][j] = IF j = i THEN s ELSE step[e][j]
  BY <1>2, ExceptSeq
<1>4. Steps(e)' = Steps(e)
  BY <1>2, <1>3, LenProperties DEF Steps
<1>5. TypeOK'
  BY <1>3 DEF TypeOK
<1>6. RunShape(e)'
  BY <1>1, <1>3, <1>4 DEF Kept, RunShape
<1>7. StepsKept(e)'
  <2> SUFFICES ASSUME NEW k \in Steps(e) PROVE StepShape(e, k)' /\ InTurn(e, k)'
    BY <1>4 DEF StepsKept
  <2>1. StepShape(e, k) /\ InTurn(e, k)
    BY <1>1 DEF Kept, StepsKept
  <2>2. StepShape(e, k)'
    BY <1>3, <2>1 DEF StepShape
  <2>3. InTurn(e, k)'
    <3> SUFFICES ASSUME ~Concurrent(run[e].plan), step'[e][k].pc \notin {"waiting", "SKIPPED"},
                        NEW j \in 1..(k - 1)
                 PROVE  step'[e][j].pc \in {"FAILED", "TIMED_OUT"}
      BY DEF InTurn
    <3>1. j \in Steps(e) /\ j # k
      BY <1>2
    <3>2. step[e][j].pc \in {"FAILED", "TIMED_OUT"}
      <4>1. CASE k = i /\ step[e][i].pc = "waiting"
        BY <4>1
      <4>2. CASE ~(k = i /\ step[e][i].pc = "waiting")
        BY <1>3, <2>1, <4>2 DEF InTurn
      <4> QED BY <4>1, <4>2
    <3> QED BY <1>3, <3>1, <3>2
  <2> QED BY <2>2, <2>3
<1>8. Contracted(e)'
  BY <1>1 DEF Contracted
<1>9. ASSUME NEW f \in Executions, f # e PROVE Kept(f)'
  BY <1>9, KeptStands DEF TypeOK
<1>10. RegistryExact'
  BY DEF RegistryExact
<1> QED BY <1>5, <1>6, <1>7, <1>8, <1>9, <1>10 DEF Kept

-----------------------------------------------------------------------------
LEMMA InitInv == Init => IInv
<1> SUFFICES ASSUME Init PROVE IInv
  OBVIOUS
<1>1. TypeOK
  BY EmptySeq DEF Init, TypeOK, Row, Absent, NotRun, IdleCancel
<1>2. \A e \in Executions : run[e] = NotRun /\ step[e] = <<>> /\ run[e].pc = "none"
  BY DEF Init, NotRun
<1>3. \A e \in Executions : Kept(e)
  BY <1>2 DEF Kept, RunShape, StepsKept, Contracted, Underway
<1>4. RegistryExact
  BY DEF Init, RegistryExact
<1> QED BY <1>1, <1>3, <1>4 DEF IInv

LEMMA CreateInv ==
    ASSUME IInv, NEW e \in Executions, NEW s \in Servers, NEW plan \in Plans, Create(e, s, plan)
    PROVE  IInv'
<1> USE DEF IInv
<1> DEFINE fresh == [pc |-> "created", server |-> s, plan |-> plan, result |-> "NONE"]
           steps == [i \in 1..Len(plan.ids) |-> Unstarted]
<1>1. run'[e] = fresh /\ step'[e] = steps /\ fresh \in Run
  BY DEF Create, TypeOK, Run
<1>2. Len(plan.ids) \in Nat /\ plan.retries \in Seq(0..3) /\ Len(plan.retries) = Len(plan.ids)
  BY PlanShape
<1>3. /\ steps \in Seq(Step) /\ Len(steps) = Len(plan.ids) /\ DOMAIN steps = 1..Len(plan.ids)
      /\ \A i \in DOMAIN steps : steps[i] = Unstarted
  BY <1>2 DEF Step, Unstarted
<1>4. TypeOK'
  <2>1. [state |-> "PENDING", output |-> FALSE] \in Row
    BY DEF Row, ExecutorState
  <2> HIDE DEF fresh, steps
  <2> QED BY <1>1, <1>3, <2>1 DEF Create, TypeOK
<1>5. Kept(e)'
  <2>1. run'[e] # NotRun /\ run'[e].pc = "created" /\ run'[e].result = "NONE" /\ run'[e].plan = plan
    BY <1>1, RunIsNot
  <2>2. Len(step'[e]) = Len(plan.ids) /\ \A i \in DOMAIN step'[e] : step'[e][i] = Unstarted
    BY <1>1, <1>3
  <2> HIDE DEF fresh, steps
  <2>3. RunShape(e)'
    BY <2>1, <2>2 DEF RunShape, Steps, Unstarted, Underway
  <2>4. StepsKept(e)'
    BY <2>1, <2>2 DEF StepsKept, StepShape, InTurn, Steps, Unstarted
  <2>5. Contracted(e)'
    BY <2>1 DEF Contracted
  <2> QED BY <2>3, <2>4, <2>5 DEF Kept
<1>6. ASSUME NEW f \in Executions, f # e PROVE Kept(f)'
  BY <1>6, KeptStands DEF Create, TypeOK
<1>7. RegistryExact'
  BY DEF Create, TypeOK, RegistryExact, NotRun
<1> QED BY <1>4, <1>5, <1>6, <1>7

\* A request moves on, and with it what the registry holds of it.
LEMMA RunMoves ==
    ASSUME IInv, NEW e \in Executions, run[e].pc # "none",
           NEW pc \in {"registered", "executing", "persisted", "done", "aborted"},
           run' = [run EXCEPT ![e].pc = pc], UNCHANGED <<step, event, cancel>>,
           pc \in Underway => run[e].pc \in Underway,
           pc = "persisted" => run[e].pc = "collected",
           row' \in [Executions -> Row],
           \/ pc = "registered" /\ active' = [active EXCEPT ![run[e].server] = @ \cup {e}]
           \/ pc \in {"done", "aborted"} /\ active' = Registered(e)
           \/ pc \in {"executing", "persisted"} /\ UNCHANGED active
    PROVE  IInv'
<1> USE DEF IInv
<1>1. run[e] \in Run /\ run[e].server \in Servers
  BY RunFields DEF Run
<1>2. /\ run'[e] = [run[e] EXCEPT !.pc = pc] /\ run'[e] \in Run
      /\ \A f \in Executions \ {e} : run'[f] = run[f]
  BY <1>1 DEF TypeOK, Run
<1> PICK held : held = active[run[e].server]
  OBVIOUS
<1>7. PICK left \in SUBSET Executions :
        /\ active' = [active EXCEPT ![run[e].server] = left]
        /\ left \subseteq held \cup {e}
        /\ pc \in {"done", "aborted"} => e \notin left
  <2>1. held \in SUBSET Executions /\ active = [active EXCEPT ![run[e].server] = held]
    BY <1>1 DEF TypeOK
  <2>2. CASE pc = "registered"
    <3>1. active' = [active EXCEPT ![run[e].server] = held \cup {e}]
      BY <2>2
    <3>2. held \cup {e} \in SUBSET Executions
      BY <2>1
    <3> QED BY <2>2, <3>1, <3>2
  <2>3. CASE pc \in {"done", "aborted"}
    <3>1. active' = [active EXCEPT ![run[e].server] = held \ {e}]
      BY <2>3 DEF Registered
    <3>2. held \ {e} \in SUBSET Executions /\ e \notin held \ {e} /\ held \ {e} \subseteq held \cup {e}
      BY <2>1
    <3> QED BY <2>3, <3>1, <3>2
  <2>4. CASE pc \in {"executing", "persisted"}
    BY <2>1, <2>4
  <2> QED BY <2>2, <2>3, <2>4
<1>3. TypeOK'
  <2>1. active' \in [Servers -> SUBSET Executions]
    BY <1>1, <1>7 DEF TypeOK
  <2> QED BY <1>2, <2>1 DEF TypeOK
<1>4. Kept(e)'
  BY <1>1, <1>2, KeptMoves
<1>5. ASSUME NEW f \in Executions, f # e PROVE Kept(f)'
  BY <1>2, <1>5, KeptStands
<1>6. RegistryExact'
  <2> SUFFICES ASSUME NEW s \in Servers, NEW f \in Executions, f \in active'[s]
               PROVE  /\ run'[f].server = s
                      /\ run'[f].pc \in {"registered", "executing", "collected", "persisted"}
    BY DEF RegistryExact
  <2>1. CASE f # e
    <3>1. f \in active[s]
      BY <1>1, <1>7, <2>1 DEF TypeOK
    <3> QED BY <1>2, <2>1, <3>1 DEF RegistryExact
  <2>2. CASE f = e
    <3>1. run'[e].server = run[e].server /\ run'[e].pc = pc
      BY <1>1, <1>2 DEF Run
    <3>2. e \in active[s] => run[e].server = s
      BY DEF RegistryExact
    <3>3. pc \notin {"done", "aborted"}
      BY <1>1, <1>7, <2>2, <3>2 DEF TypeOK
    <3>4. run[e].server = s
      BY <1>1, <1>7, <2>2, <3>2 DEF TypeOK
    <3> QED BY <2>2, <3>1, <3>3, <3>4
  <2> QED BY <2>1, <2>2
<1> QED BY <1>3, <1>4, <1>5, <1>6

LEMMA RegisterInv == ASSUME IInv, NEW e \in Executions, Register(e) PROVE IInv'
BY RunMoves DEF Register, Underway, IInv, TypeOK

LEMMA RowState == \A r \in Row, s \in ExecutorState : [r EXCEPT !.state = s] \in Row
<1> SUFFICES ASSUME NEW r \in Row, NEW s \in ExecutorState
             PROVE  [r EXCEPT !.state = s] \in [state : ExecutorState, output : BOOLEAN]
  BY DEF Row
<1>1. CASE r = Absent
  BY <1>1 DEF Absent
<1>2. CASE r \in [state : ExecutorState, output : BOOLEAN]
  BY <1>2
<1> QED BY <1>1, <1>2 DEF Row

LEMMA StartInv == ASSUME IInv, NEW e \in Executions, Start(e) PROVE IInv'
<1>1. row' \in [Executions -> Row]
  BY RowState DEF Start, IInv, TypeOK, ExecutorState
<1> QED BY <1>1, RunMoves DEF Start, Underway

LEMMA AbortInv == ASSUME IInv, NEW e \in Executions, Abort(e) PROVE IInv'
BY RunMoves DEF Abort, Underway, IInv, TypeOK

LEMMA PersistInv == ASSUME IInv, NEW e \in Executions, Persist(e) PROVE IInv'
<1>1. run[e] \in Run /\ run[e].result # "NONE"
  BY RunFields DEF Persist, IInv, Kept, RunShape
<1>2. [state |-> run[e].result, output |-> TRUE] \in Row
  BY <1>1 DEF Run, Row, ExecutorState
<1>3. row' \in [Executions -> Row]
  BY <1>2 DEF Persist, IInv, TypeOK
<1> QED BY <1>3, RunMoves DEF Persist, Underway

LEMMA UnregisterInv == ASSUME IInv, NEW e \in Executions, Unregister(e) PROVE IInv'
BY RunMoves DEF Unregister, Underway, IInv, TypeOK

-----------------------------------------------------------------------------
\* StartStep, Check, Answer and AttemptFails, one step of an execution each.
LEMMA StartStepInv ==
    ASSUME IInv, NEW e \in Executions, NEW i \in Steps(e), StartStep(e, i)
    PROVE  IInv'
<1> PICK s : s = [step[e][i] EXCEPT !.pc = "checking"]
  OBVIOUS
<1>1. /\ step[e][i] \in Step /\ step[e] \in Seq(Step) /\ Steps(e) = 1..Len(step[e])
      /\ Len(step[e]) \in Nat
  BY StepFields DEF IInv
<1>2. /\ run[e] \in Run /\ run[e] # NotRun /\ run[e].result = "NONE" /\ run[e].plan \in Plans
  BY RunFields, RunIsNot DEF StartStep, Executing, IInv, Kept, RunShape, Underway, Run
<1>3. s \in Step /\ s.pc = "checking" /\ s.attempts = 0
  BY <1>1, <1>2 DEF Step, StartStep, IInv, Kept, StepsKept, StepShape
<1>4. step' = [step EXCEPT ![e][i] = s]
  BY <1>1 DEF StartStep, IInv, TypeOK
<1>5. 0 <= run[e].plan.retries[i]
  <2>1. /\ Len(step[e]) = Len(run[e].plan.retries) /\ run[e].plan.retries \in Seq(0..3)
    BY <1>2, PlanShape DEF IInv, Kept, RunShape
  <2>2. run[e].plan.retries[i] \in 0..3
    BY <1>1, <2>1
  <2> QED BY <2>2
<1>6. ASSUME ~Concurrent(run[e].plan), NEW j \in 1..(i - 1)
      PROVE  step[e][j].pc \in {"FAILED", "TIMED_OUT"}
  <2>1. i - 1 \in Steps(e) /\ j \in Steps(e) /\ i - 1 \in Int /\ i > 1
    BY <1>1
  <2>2. step[e][i - 1].pc \in StepState \ {"COMPLETED"} /\ ~event[e]
    BY <1>6, <2>1 DEF StartStep, MayStart
  <2>3. StepShape(e, i - 1) /\ InTurn(e, i - 1) /\ step[e][i - 1].pc # "SKIPPED"
    BY <1>2, <2>1 DEF IInv, Kept, StepsKept, RunShape
  <2>4. step[e][i - 1].pc \in {"FAILED", "TIMED_OUT"}
    BY <2>2, <2>3 DEF StepShape, StepState
  <2>5. CASE j = i - 1
    BY <2>4, <2>5
  <2>6. CASE j # i - 1
    <3>1. j \in 1..(i - 1 - 1)
      BY <1>1, <2>6
    <3> QED BY <1>6, <2>3, <2>4, <3>1 DEF InTurn
  <2> QED BY <2>5, <2>6
<1> QED BY ZenonT(60), <1>3, <1>4, <1>5, <1>6, StepMoves DEF StartStep

LEMMA CheckInv ==
    ASSUME IInv, NEW e \in Executions, NEW i \in Steps(e), Check(e, i)
    PROVE  IInv'
<1> PICK s : s = [step[e][i] EXCEPT !.pc = IF event[e] THEN "CANCELLED" ELSE "dispatching"]
  OBVIOUS
<1>1. step[e][i] \in Step
  BY StepFields DEF IInv
<1>2. run[e] # NotRun
  BY RunFields, RunIsNot DEF Check, Executing, IInv
<1>3. /\ s \in Step /\ s.attempts = step[e][i].attempts
      /\ s.pc = IF event[e] THEN "CANCELLED" ELSE "dispatching"
  BY <1>1 DEF Step, StepState
<1>4. step' = [step EXCEPT ![e][i] = s]
  BY <1>1 DEF Check, IInv, TypeOK
<1>5. step[e][i].attempts <= run[e].plan.retries[i]
  BY <1>2 DEF Check, IInv, Kept, StepsKept, StepShape
<1>6. s.pc \in {"CANCELLED", "dispatching"} /\ (s.pc = "CANCELLED" => event[e])
  BY <1>3
<1>7. /\ Executing(e) /\ step[e][i].pc = "checking"
      /\ UNCHANGED <<row, run, event, active, cancel>>
  BY DEF Check
<1> QED BY <1>3, <1>4, <1>5, <1>6, <1>7, StepMoves

LEMMA AnswerInv ==
    ASSUME IInv, NEW e \in Executions, NEW i \in Steps(e), Answer(e, i)
    PROVE  IInv'
<1> PICK s : s = [pc |-> "COMPLETED", attempts |-> step[e][i].attempts + 1]
  OBVIOUS
<1>1. step[e][i] \in Step /\ step[e] \in Seq(Step) /\ Steps(e) = 1..Len(step[e])
  BY StepFields DEF IInv
<1>2. /\ run[e] \in Run /\ run[e] # NotRun /\ run[e].plan \in Plans
  BY RunFields, RunIsNot DEF Answer, Executing, IInv, Run
<1>3. /\ Len(step[e]) = Len(run[e].plan.retries) /\ run[e].plan.retries \in Seq(0..3)
      /\ step[e][i].attempts <= run[e].plan.retries[i]
  BY <1>2, PlanShape DEF Answer, IInv, Kept, RunShape, StepsKept, StepShape
<1>4. run[e].plan.retries[i] \in 0..3
  BY <1>1, <1>3
<1>5. s \in Step /\ s.pc = "COMPLETED"
  BY <1>1, <1>3, <1>4 DEF Step, StepState
<1>6. step' = [step EXCEPT ![e][i] = s]
  BY <1>1 DEF Answer, IInv, TypeOK
<1> QED BY <1>5, <1>6, StepMoves DEF Answer

LEMMA AttemptFailsInv ==
    ASSUME IInv, NEW e \in Executions, NEW i \in Steps(e),
           NEW how \in {"FAILED", "TIMED_OUT"}, AttemptFails(e, i, how)
    PROVE  IInv'
<1> PICK n : n = step[e][i].attempts + 1
  OBVIOUS
<1> PICK s : s = [pc |-> IF LastAttempt(e, i, n) THEN how ELSE "checking", attempts |-> n]
  OBVIOUS
<1>1. step[e][i] \in Step /\ step[e] \in Seq(Step) /\ Steps(e) = 1..Len(step[e])
  BY StepFields DEF IInv
<1>2. /\ run[e] \in Run /\ run[e] # NotRun /\ run[e].plan \in Plans
  BY RunFields, RunIsNot DEF AttemptFails, Executing, IInv, Run
<1>3. /\ Len(step[e]) = Len(run[e].plan.retries) /\ run[e].plan.retries \in Seq(0..3)
      /\ step[e][i].attempts <= run[e].plan.retries[i]
  BY <1>2, PlanShape DEF AttemptFails, IInv, Kept, RunShape, StepsKept, StepShape
<1>4. run[e].plan.retries[i] \in 0..3
  BY <1>1, <1>3
<1>5. step[e][i].attempts \in 0..4
  BY <1>1 DEF Step
<1>6. /\ n \in 0..4
      /\ LastAttempt(e, i, n) => n = 1 + run[e].plan.retries[i]
      /\ ~LastAttempt(e, i, n) => n <= run[e].plan.retries[i]
  <2> PICK r \in 0..3 : r = run[e].plan.retries[i]
    BY <1>4
  <2> PICK a \in 0..4 : a = step[e][i].attempts
    BY <1>5
  <2>1. a <= r /\ n = a + 1
    BY <1>3
  <2>2. LastAttempt(e, i, n) <=> n = 1 + r
    BY DEF LastAttempt
  <2>3. n \in 0..4 /\ (n = 1 + r \/ n <= r)
    BY <2>1
  <2> QED BY <2>2, <2>3
<1>7. /\ s \in Step /\ s.attempts = n
      /\ s.pc \in {"FAILED", "TIMED_OUT"} => s.attempts = 1 + run[e].plan.retries[i]
      /\ s.pc = "checking" => s.attempts <= run[e].plan.retries[i]
      /\ s.pc \in {"FAILED", "TIMED_OUT", "checking"}
  <2>1. CASE LastAttempt(e, i, n)
    BY <1>6, <2>1 DEF Step, StepState
  <2>2. CASE ~LastAttempt(e, i, n)
    BY <1>6, <2>2 DEF Step, StepState
  <2> QED BY <2>1, <2>2
<1>9. /\ Executing(e) /\ step[e][i].pc = "dispatching"
      /\ UNCHANGED <<row, run, event, active, cancel>>
  BY DEF AttemptFails
<1>8. step' = [step EXCEPT ![e][i] = s]
  BY DEF AttemptFails
<1> QED BY <1>7, <1>8, <1>9, StepMoves

-----------------------------------------------------------------------------
\* The steps that completed say what became of an execution nobody cancelled.
LEMMA OutcomeShape ==
    ASSUME IInv, NEW e \in Executions, Executing(e)
    PROVE  /\ OutcomeOf(e) \in Outcome
           /\ event[e] => OutcomeOf(e) = "CANCELLED"
           /\ ~event[e] => (OutcomeOf(e) = "COMPLETED" <=>
                IF Concurrent(run[e].plan) THEN In(e, {"COMPLETED"}) = Steps(e)
                ELSE In(e, {"COMPLETED"}) # {})
<1> DEFINE completed == In(e, {"COMPLETED"})
<1>1. run[e] \in Run /\ run[e] # NotRun /\ run[e].plan \in Plans
  BY RunFields, RunIsNot DEF Executing, IInv, Run
<1>2. Len(step[e]) = Len(run[e].plan.ids) /\ Len(step[e]) \in 1..20
  BY <1>1, PlanShape DEF IInv, Kept, RunShape
<1>3. Steps(e) = 1..Len(step[e])
  BY StepFields DEF IInv
<1>5. run[e].plan.mode = "SINGLE" => Len(step[e]) = 1
  BY <1>2 DEF Executing, Valid
<1> PICK n \in 1..20 : Steps(e) = 1..n /\ (run[e].plan.mode = "SINGLE" => n = 1)
  BY <1>2, <1>3, <1>5
<1>4. Steps(e) # {} /\ completed \subseteq Steps(e)
  <2>1. 1 \in Steps(e)
    OBVIOUS
  <2> QED BY <2>1 DEF In
<1>12. run[e].plan.mode = "SINGLE" => Steps(e) = {1}
  OBVIOUS
<1>6. ~Concurrent(run[e].plan) => run[e].plan.mode \in {"SINGLE", "FALLBACK"}
  BY <1>1, PlanShape DEF Concurrent, Modes
<1>7. run[e].plan.mode = "FALLBACK" => ~Concurrent(run[e].plan)
  BY DEF Concurrent
<1> HIDE DEF completed
<1>8. CASE event[e]
  BY <1>8 DEF OutcomeOf, Outcome
<1>9. CASE ~event[e] /\ completed = Steps(e)
  <2>1. OutcomeOf(e) = "COMPLETED"
    BY <1>4, <1>9 DEF OutcomeOf, completed
  <2> QED BY <1>4, <1>9, <2>1 DEF Outcome, completed
<1>10. CASE ~event[e] /\ completed = {}
  <2>1. OutcomeOf(e) \in {"TIMED_OUT", "FAILED"}
    BY <1>4, <1>10 DEF OutcomeOf, completed
  <2> QED BY <1>4, <1>10, <2>1 DEF Outcome, completed
<1>11. CASE ~event[e] /\ completed \notin {{}, Steps(e)}
  <2>1. OutcomeOf(e) = IF run[e].plan.mode = "FALLBACK" THEN "COMPLETED" ELSE "PARTIAL"
    BY <1>11 DEF OutcomeOf, completed
  <2>2. run[e].plan.mode # "SINGLE"
    BY <1>4, <1>11, <1>12
  <2> QED BY <1>6, <1>7, <1>11, <2>1, <2>2 DEF Outcome, completed
<1> QED BY <1>8, <1>9, <1>10, <1>11 DEF TypeOK, IInv

LEMMA CollectInv == ASSUME IInv, NEW e \in Executions, Collect(e) PROVE IInv'
<1> USE DEF IInv
<1> PICK outcome \in Outcome : outcome = OutcomeOf(e)
  BY OutcomeShape DEF Collect
<1> PICK skips \in BOOLEAN : skips <=> In(e, {"COMPLETED"}) # {}
  OBVIOUS
<1> PICK steps : steps = [i \in Steps(e) |->
                            IF step[e][i].pc = "waiting" /\ skips
                            THEN [step[e][i] EXCEPT !.pc = "SKIPPED"] ELSE step[e][i]]
  OBVIOUS
<1>1. run[e] \in Run /\ run[e] # NotRun /\ run[e].pc = "executing"
  BY RunFields, RunIsNot DEF Collect, Executing
<1>2. /\ step[e] \in Seq(Step) /\ Steps(e) = 1..Len(step[e]) /\ Len(step[e]) \in Nat
      /\ \A i \in Steps(e) : step[e][i] \in Step
  BY StepFields
<1>3. /\ steps \in Seq(Step) /\ Len(steps) = Len(step[e]) /\ DOMAIN steps = Steps(e)
      /\ \A i \in Steps(e) :
            \/ steps[i] = step[e][i]
            \/ step[e][i].pc = "waiting" /\ steps[i].pc = "SKIPPED"
  <2>1. \A i \in Steps(e) : /\ steps[i] \in Step
                            /\ \/ steps[i] = step[e][i]
                               \/ step[e][i].pc = "waiting" /\ steps[i].pc = "SKIPPED"
    BY <1>2 DEF Step, StepState
  <2>2. steps \in [1..Len(step[e]) -> Step]
    BY <1>2, <2>1
  <2>3. steps \in Seq(Step) /\ Len(steps) = Len(step[e])
    BY <1>2, <2>2
  <2> QED BY <2>1, <2>3
<1>4. /\ step' = [step EXCEPT ![e] = steps] /\ step'[e] = steps
      /\ Steps(e)' = Steps(e)
  BY <1>3 DEF Collect, TypeOK, Steps
<1>5. /\ run'[e] \in Run /\ run'[e] # NotRun /\ run'[e].pc = "collected"
      /\ run'[e].result = outcome /\ run'[e].plan = run[e].plan /\ run'[e].server = run[e].server
      /\ \A f \in Executions \ {e} : run'[f] = run[f] /\ step'[f] = step[f]
      /\ UNCHANGED <<row, event, active, cancel>> /\ outcome # "NONE"
  BY <1>1, RunIsNot DEF Collect, TypeOK, Run, Outcome
<1>6. TypeOK'
  BY <1>3, <1>4, <1>5 DEF Collect, TypeOK
<1>7. RunShape(e)'
  BY <1>1, <1>3, <1>4, <1>5 DEF RunShape, Kept, Underway
<1>8. StepsKept(e)'
  <2> SUFFICES ASSUME NEW i \in Steps(e) PROVE StepShape(e, i)' /\ InTurn(e, i)'
    BY <1>4 DEF StepsKept
  <2>1. StepShape(e, i) /\ InTurn(e, i)
    BY <1>1 DEF Kept, StepsKept
  <2>2. StepShape(e, i)'
    BY <1>3, <1>4, <1>5, <2>1 DEF StepShape
  <2>3. InTurn(e, i)'
    <3> SUFFICES ASSUME ~Concurrent(run[e].plan), steps[i].pc \notin {"waiting", "SKIPPED"},
                        NEW j \in 1..(i - 1)
                 PROVE  steps[j].pc \in {"FAILED", "TIMED_OUT"}
      BY <1>4, <1>5 DEF InTurn
    <3>1. j \in Steps(e)
      BY <1>2
    <3>2. step[e][j].pc \in {"FAILED", "TIMED_OUT"}
      BY <1>3, <2>1 DEF InTurn
    <3> QED BY <1>3, <3>1, <3>2
  <2> QED BY <2>2, <2>3
<1>9. In(e, {"COMPLETED"})' = In(e, {"COMPLETED"})
  BY <1>3, <1>4 DEF In
<1>10. Contracted(e)'
  <2> SUFFICES ASSUME outcome # "CANCELLED"
               PROVE  Delivers(Concurrent(run[e].plan), Steps(e), In(e, {"COMPLETED"}),
                               outcome = "COMPLETED")
    BY <1>4, <1>5, <1>9 DEF Contracted
  <2>1. outcome = "COMPLETED" <=>
           IF Concurrent(run[e].plan) THEN In(e, {"COMPLETED"}) = Steps(e)
           ELSE In(e, {"COMPLETED"}) # {}
    BY OutcomeShape DEF Collect, TypeOK
  <2>2. In(e, {"COMPLETED"}) \subseteq Steps(e)
    BY DEF In
  <2>3. ASSUME ~Concurrent(run[e].plan) PROVE Cardinality(In(e, {"COMPLETED"})) <= 1
    <3>1. \A i, j \in In(e, {"COMPLETED"}) : ~(i < j)
      <4> SUFFICES ASSUME NEW i \in In(e, {"COMPLETED"}), NEW j \in In(e, {"COMPLETED"}), i < j
                   PROVE  FALSE
        OBVIOUS
      <4>1. i \in Steps(e) /\ j \in Steps(e) /\ step[e][i].pc = "COMPLETED"
            /\ step[e][j].pc = "COMPLETED"
        BY DEF In
      <4>2. InTurn(e, j) /\ i \in 1..(j - 1)
        BY <1>1, <1>2, <4>1 DEF Kept, StepsKept
      <4> QED BY <2>3, <4>1, <4>2 DEF InTurn
    <3>2. \A i, j \in In(e, {"COMPLETED"}) : i = j
      BY <1>2, <2>2, <3>1
    <3>3. CASE In(e, {"COMPLETED"}) = {}
      BY <3>3, FS_EmptySet
    <3>4. ASSUME NEW i \in In(e, {"COMPLETED"}) PROVE Cardinality(In(e, {"COMPLETED"})) <= 1
      <4>1. In(e, {"COMPLETED"}) = {i}
        BY <3>2
      <4>2. Cardinality({i}) = 1
        BY FS_Singleton
      <4> QED BY <4>1, <4>2
    <3> QED BY <3>3, <3>4
  <2> QED BY <2>1, <2>2, <2>3 DEF Delivers
<1>11. ASSUME NEW f \in Executions, f # e PROVE Kept(f)'
  BY <1>5, <1>11, KeptStands
<1>12. RegistryExact'
  BY <1>5, <1>1 DEF RegistryExact
<1> QED BY <1>6, <1>7, <1>8, <1>10, <1>11, <1>12 DEF Kept

-----------------------------------------------------------------------------
LEMMA CancelInv ==
    ASSUME IInv, NEW k \in Cancellers,
           \/ \E e \in Executions, s \in Servers : CancelRead(k, e, s)
           \/ CancelSignal(k)
           \/ CancelCommit(k)
    PROVE  IInv'
<1>1. UNCHANGED <<run, step, active>>
  BY DEF CancelRead, CancelSignal, CancelCommit
<1>2. TypeOK' /\ \A e \in Executions : event[e] => event'[e]
  <2>1. CASE \E e \in Executions, s \in Servers : CancelRead(k, e, s)
    BY <2>1 DEF CancelRead, IInv, TypeOK
  <2>2. CASE CancelSignal(k)
    <3>1. cancel[k].exec \in Executions
      BY <2>2 DEF CancelSignal, IInv, TypeOK, IdleCancel
    <3>5. cancel[k] \in [pc : {"found", "signalled"}, server : Servers, exec : Executions]
      BY <2>2 DEF CancelSignal, IInv, TypeOK, IdleCancel
    <3>2. cancel'[k] \in [pc : {"found", "signalled"}, server : Servers, exec : Executions]
      BY <2>2, <3>5 DEF CancelSignal, IInv, TypeOK
    <3>3. Reached(k) \in BOOLEAN
      BY DEF Reached
    <3>4. event' \in [Executions -> BOOLEAN] /\ \A e \in Executions : event[e] => event'[e]
      BY <2>2, <3>1, <3>3 DEF CancelSignal, IInv, TypeOK
    <3> QED BY <2>2, <3>2, <3>4 DEF CancelSignal, IInv, TypeOK
  <2>3. CASE CancelCommit(k)
    <3>1. row' \in [Executions -> Row]
      BY <2>3, RowState DEF CancelCommit, IInv, TypeOK, ExecutorState, Outcome
    <3> QED BY <2>3, <3>1 DEF CancelCommit, IInv, TypeOK
  <2> QED BY <2>1, <2>2, <2>3
<1>3. \A e \in Executions : Kept(e)'
  BY <1>1, <1>2, KeptStands DEF IInv
<1>4. RegistryExact'
  BY <1>1 DEF IInv, RegistryExact
<1> QED BY <1>2, <1>3, <1>4 DEF IInv

LEMMA CrashInv == ASSUME IInv, NEW s \in Servers, Crash(s) PROVE IInv'
<1>1. \A e \in Executions :
        \/ run'[e] = run[e] /\ (run[e].pc = "none" \/ run[e].pc \in {"done", "aborted"} \/ run[e].server # s)
        \/ /\ run[e] \in Run /\ run'[e] = [run[e] EXCEPT !.pc = "dead"] /\ run'[e] \in Run
           /\ run[e].server = s
  <2> SUFFICES ASSUME NEW e \in Executions
               PROVE  \/ /\ run'[e] = run[e]
                         /\ \/ run[e].pc = "none" \/ run[e].pc \in {"done", "aborted"}
                            \/ run[e].server # s
                      \/ /\ run[e] \in Run /\ run'[e] = [run[e] EXCEPT !.pc = "dead"]
                         /\ run'[e] \in Run /\ run[e].server = s
    OBVIOUS
  <2>1. CASE run[e] = NotRun
    BY <2>1 DEF Crash, NotRun
  <2>2. CASE run[e] \in Run
    <3>1. run[e] # NotRun
      BY <2>2, RunIsNot
    <3>2. [run[e] EXCEPT !.pc = "dead"] \in Run
      BY <2>2 DEF Run
    <3> QED BY <2>2, <3>1, <3>2 DEF Crash
  <2> QED BY <2>1, <2>2 DEF IInv, TypeOK
<1>2. TypeOK'
  BY <1>1 DEF Crash, IInv, TypeOK
<1>3. ASSUME NEW e \in Executions PROVE Kept(e)'
  <2>1. step'[e] = step[e] /\ event'[e] = event[e] /\ Kept(e)
    BY DEF Crash, IInv
  <2>2. CASE run'[e] = run[e]
    BY <2>1, <2>2, KeptStands
  <2>3. CASE run[e] \in Run /\ run'[e] = [run[e] EXCEPT !.pc = "dead"] /\ run'[e] \in Run
    BY <2>1, <2>3, KeptMoves DEF Underway
  <2> QED BY <1>1, <2>2, <2>3
<1>4. RegistryExact'
  <2> SUFFICES ASSUME NEW v \in Servers, NEW e \in Executions, e \in active'[v]
               PROVE  /\ run'[e].server = v
                      /\ run'[e].pc \in {"registered", "executing", "collected", "persisted"}
    BY DEF RegistryExact
  <2>1. v # s /\ e \in active[v]
    BY DEF Crash, IInv, TypeOK
  <2>2. run[e].server = v /\ run[e].pc \in {"registered", "executing", "collected", "persisted"}
    BY <2>1 DEF IInv, RegistryExact
  <2> QED BY <1>1, <2>1, <2>2
<1> QED BY <1>2, <1>3, <1>4 DEF IInv

LEMMA NextInv == IInv /\ [Next]_vars => IInv'
<1> SUFFICES ASSUME IInv, [Next]_vars PROVE IInv'
  OBVIOUS
<1>1. ASSUME NEW e \in Executions, Advance(e) PROVE IInv'
  BY <1>1, RegisterInv, StartInv, StartStepInv, CheckInv, AnswerInv, AttemptFailsInv,
     CollectInv, PersistInv, UnregisterInv, AbortInv DEF Advance
<1>2. CASE UNCHANGED vars
  <2>1. \A e \in Executions : Kept(e)'
    BY <1>2, KeptStands DEF vars, IInv
  <2> QED BY <1>2, <2>1 DEF vars, IInv, TypeOK, RegistryExact
<1> QED BY <1>1, <1>2, CreateInv, CancelInv, CrashInv DEF Next

\* The variables keep their types (query_executor/service.py).
THEOREM TypeCorrect == Spec => []TypeOK
<1>1. Spec => []IInv
  BY InitInv, NextInv, PTL DEF Spec
<1>2. IInv => TypeOK
  BY DEF IInv
<1> QED BY <1>1, <1>2, PTL

LEMMA InvKeepsPlans == IInv => PlansKept
<1> SUFFICES ASSUME IInv PROVE PlansKept
  OBVIOUS
<1>1. ContractKept
  BY DEF IInv, Kept, Contracted, ContractKept
<1>2. FallbackExhausts
  <2> SUFFICES ASSUME NEW e \in Executions, run[e] # NotRun, run[e].plan.mode = "FALLBACK",
                      NEW i \in Steps(e), step[e][i].pc \notin {"waiting", "SKIPPED"},
                      NEW j \in 1..(i - 1)
               PROVE  /\ step[e][j].pc \in {"FAILED", "TIMED_OUT"}
                      /\ step[e][j].attempts = 1 + run[e].plan.retries[j]
    BY DEF FallbackExhausts
  <2>1. j \in Steps(e)
    BY StepFields DEF IInv
  <2>2. step[e][j].pc \in {"FAILED", "TIMED_OUT"}
    BY DEF IInv, Kept, StepsKept, InTurn, Concurrent
  <2> QED BY <2>1, <2>2 DEF IInv, Kept, StepsKept, StepShape
<1> QED BY <1>1, <1>2 DEF IInv, PlansKept

\* Whatever its steps did and however cancellations interleaved with them, an execution
\* delivers what its mode promises, a fallback exhausts each provider before the next, and
\* the registry holds the executions in progress only (execute_plan, _register).
THEOREM PlansCorrect == Spec => []PlansKept
<1>1. Spec => []IInv
  BY InitInv, NextInv, PTL DEF Spec
<1> QED BY <1>1, InvKeepsPlans, PTL

-----------------------------------------------------------------------------
(***************************************************************************)
(* ProviderCalls: windows                                                  *)
(***************************************************************************)
\* v is what is left of w after its first k entries.
LeftAfter(w, v, k) ==
    /\ k \in 0..Len(w) /\ Len(v) = Len(w) - k
    /\ \A i \in 1..Len(v) : v[i] = w[k + i]

LEMMA FromLeaves ==
    ASSUME NEW S, NEW w \in Seq(S), NEW counted \in SUBSET DOMAIN w
    PROVE  /\ From(w, counted) \in Seq(S)
           /\ \E k \in 0..Len(w) : /\ LeftAfter(w, From(w, counted), k)
                                   /\ \A j \in counted : k < j
                                   /\ k < Len(w) => k + 1 \in counted
<1>1. Len(w) \in Nat /\ DOMAIN w = 1..Len(w)
  BY LenProperties
<1>2. CASE counted = {}
  <2>1. From(w, counted) = <<>>
    BY <1>2 DEF From
  <2>2. LeftAfter(w, <<>>, Len(w))
    BY <1>1, EmptySeq DEF LeftAfter
  <2>3. Len(w) \in 0..Len(w) /\ ~(Len(w) < Len(w))
    BY <1>1
  <2>4. \A j \in counted : Len(w) < j
    BY <1>2
  <2>5. <<>> \in Seq(S)
    BY EmptySeq
  <2> QED BY <2>1, <2>2, <2>3, <2>4, <2>5
<1>3. CASE counted # {}
  <2>1. counted \in SUBSET Nat
    BY <1>1
  <2>2. PICK n : n \in counted
    BY <1>3
  <2>3. \E m \in counted : \A j \in counted : m <= j
    BY <2>1, <2>2, NatLeast
  <2>4. Min(counted) \in counted /\ \A j \in counted : Min(counted) <= j
    BY <2>3 DEF Min
  <2> PICK m : m = Min(counted)
    OBVIOUS
  <2>5. m \in 1..Len(w) /\ m \in counted /\ \A j \in counted : m <= j
    BY <1>1, <2>4
  <2>6. From(w, counted) = SubSeq(w, m, Len(w))
    BY <1>3 DEF From
  <2>7. /\ SubSeq(w, m, Len(w)) \in Seq(S)
        /\ LeftAfter(w, SubSeq(w, m, Len(w)), m - 1)
    <3>1. \A i \in m..Len(w) : w[i] \in S
      BY <1>1, <2>5, ElementOfSeq
    <3>2. /\ SubSeq(w, m, Len(w)) \in Seq(S)
          /\ Len(SubSeq(w, m, Len(w))) = IF m <= Len(w) THEN Len(w) - m + 1 ELSE 0
          /\ \A i \in 1..(Len(w) - m + 1) : SubSeq(w, m, Len(w))[i] = w[m + i - 1]
      BY <1>1, <2>5, <3>1, SubSeqProperties
    <3> QED BY <1>1, <2>5, <3>2 DEF LeftAfter
  <2>8. /\ m - 1 \in 0..Len(w) /\ m - 1 + 1 \in counted
        /\ \A j \in counted : m - 1 < j
    BY <1>1, <2>1, <2>5
  <2> QED BY <2>6, <2>7, <2>8
<1> QED BY <1>2, <1>3

Tokens(w) == [i \in DOMAIN w |-> w[i].tokens]

LEMMA TokensType ==
    ASSUME NEW w \in Seq(Admission)
    PROVE  /\ Len(w) \in Nat /\ DOMAIN w = 1..Len(w) /\ IsFiniteSet(DOMAIN w)
           /\ \A i \in DOMAIN w : w[i] \in Admission /\ Tokens(w)[i] \in Nat
           /\ TokensIn(w) = SumFunctionOnSet(Tokens(w), 1..Len(w))
           /\ TokensIn(w) \in Nat
<1>1. Len(w) \in Nat /\ DOMAIN w = 1..Len(w)
  BY LenProperties
<1>2. IsFiniteSet(DOMAIN w)
  BY <1>1, FS_Interval
<1>3. \A i \in DOMAIN w : w[i] \in Admission /\ Tokens(w)[i] \in Nat
  <2> SUFFICES ASSUME NEW i \in DOMAIN w PROVE w[i] \in Admission /\ Tokens(w)[i] \in Nat
    OBVIOUS
  <2>1. w[i] \in Admission
    BY <1>1, ElementOfSeq
  <2> QED BY <2>1 DEF Tokens, Admission
<1>4. TokensIn(w) = SumFunctionOnSet(Tokens(w), 1..Len(w))
  BY <1>1 DEF TokensIn, Tokens
<1>5. TokensIn(w) \in Nat
  BY <1>1, <1>2, <1>3, <1>4, SumNat
<1> QED BY <1>1, <1>2, <1>3, <1>4, <1>5

\* What is left of a window holds no more tokens than the window.
LEMMA LessLeft ==
    ASSUME NEW w \in Seq(Admission), NEW v \in Seq(Admission), NEW k \in Nat,
           Len(v) + k <= Len(w), \A i \in 1..Len(v) : v[i].tokens = w[k + i].tokens
    PROVE  Len(v) <= Len(w) /\ TokensIn(v) <= TokensIn(w)
<1> DEFINE g == [i \in 1..Len(v) |-> k + i]
           kept == {g[i] : i \in 1..Len(v)}
<1>1. /\ Len(v) \in Nat /\ Len(w) \in Nat /\ DOMAIN v = 1..Len(v) /\ DOMAIN w = 1..Len(w)
      /\ IsFiniteSet(1..Len(v)) /\ IsFiniteSet(1..Len(w))
      /\ \A i \in 1..Len(v) : Tokens(v)[i] \in Nat
      /\ \A i \in 1..Len(w) : Tokens(w)[i] \in Nat
  BY TokensType
<1>2. \A i \in 1..Len(v) : g[i] = k + i /\ g[i] \in 1..Len(w)
  BY <1>1
<1>3. kept \subseteq 1..Len(w)
  BY <1>2
<1>4. \A i \in 1..Len(v) : Tokens(v)[i] = Tokens(w)[g[i]]
  BY <1>1, <1>2 DEF Tokens
<1>5. OneToOne(g, 1..Len(v))
  BY <1>1, <1>2 DEF OneToOne
<1>6. Composes(Tokens(v), Tokens(w), g, 1..Len(v), kept)
  BY <1>4 DEF Composes
<1> HIDE DEF g, kept
<1>7. SumFunctionOnSet(Tokens(w), kept) = SumFunctionOnSet(Tokens(v), 1..Len(v))
  BY <1>1, <1>5, <1>6, SumImage
<1>8. SumFunctionOnSet(Tokens(w), kept) <= SumFunctionOnSet(Tokens(w), 1..Len(w))
  BY <1>1, <1>3, SumSubset
<1> QED BY <1>1, <1>7, <1>8, TokensType

\* An admission adds its tokens.
LEMMA OneMore ==
    ASSUME NEW w \in Seq(Admission), NEW e \in Admission
    PROVE  /\ Append(w, e) \in Seq(Admission) /\ Len(Append(w, e)) = Len(w) + 1
           /\ TokensIn(Append(w, e)) = TokensIn(w) + e.tokens
<1> PICK v : v = Append(w, e)
  OBVIOUS
<1>1. /\ v \in Seq(Admission) /\ Len(v) = Len(w) + 1 /\ v[Len(w) + 1] = e
      /\ \A i \in 1..Len(w) : v[i] = w[i]
  BY AppendProperties
<1>2. /\ Len(w) \in Nat /\ DOMAIN w = 1..Len(w) /\ DOMAIN v = 1..Len(v)
      /\ IsFiniteSet(1..Len(v))
      /\ \A i \in 1..Len(v) : Tokens(v)[i] \in Nat
      /\ \A i \in 1..Len(w) : Tokens(w)[i] \in Nat
      /\ TokensIn(v) = SumFunctionOnSet(Tokens(v), 1..Len(v))
      /\ TokensIn(w) = SumFunctionOnSet(Tokens(w), 1..Len(w))
  BY <1>1, TokensType
<1>3. Len(v) \in 1..Len(v) /\ (1..Len(v)) \ {Len(v)} = 1..Len(w)
  BY <1>1, <1>2
<1>4. SumFunctionOnSet(Tokens(v), 1..Len(v)) =
        Tokens(v)[Len(v)] + SumFunctionOnSet(Tokens(v), 1..Len(w))
  <2>1. \A i \in 1..Len(v) : Tokens(v)[i] \in Int
    BY <1>2
  <2>2. SumFunctionOnSet(Tokens(v), 1..Len(v)) = Tokens(v)[Len(v)] +
            SumFunctionOnSet(Tokens(v), (1..Len(v)) \ {Len(v)})
    BY SMTT(30), <1>2, <1>3, <2>1, SumRemove
  <2> QED BY <1>3, <2>2
<1>5. Tokens(v)[Len(v)] = e.tokens
  BY <1>1, <1>2, <1>3 DEF Tokens
<1>6. \A i \in 1..Len(w) : Tokens(v)[i] = Tokens(w)[i]
  BY <1>1, <1>2 DEF Tokens
<1>7. IsFiniteSet(1..Len(w))
  BY <1>2, FS_Interval
<1>8. SumFunctionOnSet(Tokens(v), 1..Len(w)) = SumFunctionOnSet(Tokens(w), 1..Len(w))
  BY <1>2, <1>6, <1>7, SumAgree
<1>9. e.tokens \in Nat /\ TokensIn(w) \in Nat
  BY TokensType DEF Admission
<1> QED BY <1>1, <1>2, <1>4, <1>5, <1>8, <1>9

\* The admissions of d are the last ones of the window w, each of them made at most Skew
\* after its stamp was taken.
Traces(w, d) ==
    \E k \in Nat :
        /\ Len(d) + k = Len(w)
        /\ \A i \in 1..Len(d) :
            w[k + i].tokens = d[i].tokens /\ d[i].at <= w[k + i].at + Skew

\* The admissions of d are younger than Minute - Skew at time t, and in order.
Fresh(d, t) ==
    \A i \in 1..Len(d) :
        /\ d[i].at <= t /\ d[i].at + (Minute - Skew) > t
        /\ \A j \in 1..i : d[j].at <= d[i].at

Within(w) == Len(w) <= Rpm /\ TokensIn(w) <= Tpm

LEMMA Numbers ==
    /\ Rpm \in Nat /\ Tpm \in Nat /\ RetryBudget \in Nat /\ Skew \in Nat /\ MaxClock \in Nat
    /\ ConcurrentCalls \in Nat \ {0} /\ ResponseTtl \in Nat \ {0} /\ MaxEntries \in Nat \ {0}
    /\ Minute \in Nat /\ Minute > Skew
BY ProviderAssumption DEF ProviderAssumption

LEMMA StillCounted ==
    \A a, b, t, m, k \in Nat : a <= b + k /\ a + (m - k) > t => b + m > t
OBVIOUS

LEMMA StillFresh ==
    \A a, b, t, m, k \in Nat :
        a + (m - k) > t + 1 /\ b <= t /\ a <= b => b <= t + 1 /\ b + (m - k) > t + 1
OBVIOUS

LEMMA AdmissionAt ==
    ASSUME NEW w \in Seq(Admission), NEW i \in 1..Len(w)
    PROVE  w[i] \in Admission /\ w[i].at \in 0..MaxClock /\ w[i].tokens \in Nat
<1>1. w[i] \in Admission
  BY ElementOfSeq
<1> QED BY <1>1 DEF Admission

LEMMA TailCounts ==
    \A k, m, n, p \in Nat : n + k = p /\ m <= k => k - m \in Nat /\ n + (k - m) = p - m
OBVIOUS

\* What is dropped ahead of d leaves its trace in the window.
LEMMA TailTraces ==
    ASSUME NEW w, NEW v, NEW d, Len(w) \in Nat, Len(v) \in Nat, Len(d) \in Nat,
           NEW m \in 0..Len(w), LeftAfter(w, v, m), NEW k \in Nat, m <= k, Len(d) + k = Len(w),
           \A i \in 1..Len(d) : w[k + i].tokens = d[i].tokens /\ d[i].at <= w[k + i].at + Skew
    PROVE  Traces(v, d)
<1>1. m \in Nat /\ Len(v) = Len(w) - m
  BY DEF LeftAfter
<1>2. k - m \in Nat /\ Len(d) + (k - m) = Len(w) - m
  BY <1>1, TailCounts
<1> PICK n \in Nat : n = k - m
  BY <1>2
<1>3. Len(d) + n = Len(v)
  BY <1>1, <1>2
<1>4. ASSUME NEW i \in 1..Len(d)
      PROVE  v[n + i].tokens = d[i].tokens /\ d[i].at <= v[n + i].at + Skew
  <2>1. n + i \in 1..Len(v) /\ m + (n + i) = k + i
    BY <1>1, <1>3
  <2>2. v[n + i] = w[k + i]
    BY <2>1 DEF LeftAfter
  <2> QED BY <2>2
<1> QED BY <1>3, <1>4 DEF Traces

\* Pruning at a time that has passed drops nothing that was admitted since.
LEMMA PruningKeeps ==
    ASSUME NEW w \in Seq(Admission), NEW d \in Seq(Admission), NEW t \in 0..MaxClock,
           NEW s \in 0..MaxClock, s <= t, Traces(w, d), Fresh(d, t), Within(w)
    PROVE  /\ Pruned(w, s) \in Seq(Admission)
           /\ Traces(Pruned(w, s), d) /\ Within(Pruned(w, s))
<1> DEFINE counted == {i \in DOMAIN w : w[i].at + Minute > s}
<1> PICK v : v = Pruned(w, s)
  OBVIOUS
<1>1. /\ v \in Seq(Admission)
      /\ \E m \in 0..Len(w) : LeftAfter(w, v, m) /\ \A j \in counted : m < j
  <2>1. v = From(w, counted) /\ counted \in SUBSET DOMAIN w
    BY DEF Pruned
  <2> HIDE DEF counted
  <2> QED BY <2>1, FromLeaves
<1>2. PICK m \in 0..Len(w) : LeftAfter(w, v, m) /\ \A j \in counted : m < j
  BY <1>1
<1>3. PICK k \in Nat : /\ Len(d) + k = Len(w)
                       /\ \A i \in 1..Len(d) :
                            w[k + i].tokens = d[i].tokens /\ d[i].at <= w[k + i].at + Skew
  BY DEF Traces
<1>4. Len(w) \in Nat /\ DOMAIN w = 1..Len(w) /\ Len(d) \in Nat /\ Len(v) \in Nat
  BY <1>1, LenProperties
<1>5. m <= k
  <2>1. CASE Len(d) = 0
    BY <1>3, <1>4, <2>1
  <2>2. CASE Len(d) > 0
    <3>1. 1 \in 1..Len(d) /\ k + 1 \in 1..Len(w)
      BY <1>3, <1>4, <2>2
    <3>2. d[1].at \in 0..MaxClock /\ w[k + 1].at \in 0..MaxClock
      BY <3>1, AdmissionAt
    <3>3. d[1].at <= w[k + 1].at + Skew /\ d[1].at + (Minute - Skew) > t
      BY <1>3, <3>1 DEF Fresh
    <3>4. w[k + 1].at + Minute > s
      <4> PICK a \in Nat, b \in Nat : a = d[1].at /\ b = w[k + 1].at
        BY SMTT(30), <3>2, Numbers
      <4>1. a <= b + Skew /\ a + (Minute - Skew) > t /\ s \in Nat /\ t \in Nat
        BY <3>3, Numbers
      <4>2. b + Minute > t
        BY ZenonT(60), <4>1, Numbers, StillCounted
      <4>3. b + Minute \in Nat
        BY Numbers
      <4>4. b + Minute > s
        BY <4>1, <4>2, <4>3
      <4> QED BY <4>4
    <3>5. m < k + 1
      BY <1>2, <1>4, <3>1, <3>4
    <3> QED BY <1>4, <3>5
  <2> QED BY <1>4, <2>1, <2>2
<1> HIDE DEF counted
<1>6. Traces(v, d)
  BY <1>1, <1>2, <1>3, <1>4, <1>5, TailTraces
<1>7. Within(v)
  <2>1. m \in Nat /\ Len(v) + m <= Len(w) /\ \A i \in 1..Len(v) : v[i].tokens = w[m + i].tokens
    BY <1>2, <1>4 DEF LeftAfter
  <2>2. Len(v) <= Len(w) /\ TokensIn(v) <= TokensIn(w)
    BY <1>1, <2>1, LessLeft
  <2>3. TokensIn(v) \in Nat /\ TokensIn(w) \in Nat
    BY <1>1, TokensType
  <2> QED BY <1>4, <2>2, <2>3, Numbers DEF Within
<1> QED BY <1>1, <1>6, <1>7

\* Time passes: the admissions that grow too old are the first ones.
LEMMA AgeingKeeps ==
    ASSUME NEW w \in Seq(Admission), NEW d \in Seq(Admission), NEW t \in 0..MaxClock,
           Traces(w, d), Fresh(d, t)
    PROVE  /\ Younger(d, Minute - Skew, t + 1) \in Seq(Admission)
           /\ Traces(w, Younger(d, Minute - Skew, t + 1))
           /\ Fresh(Younger(d, Minute - Skew, t + 1), t + 1)
<1> DEFINE young == {i \in DOMAIN d : d[i].at + (Minute - Skew) > t + 1}
<1> PICK v : v = Younger(d, Minute - Skew, t + 1)
  OBVIOUS
<1>1. /\ v \in Seq(Admission)
      /\ \E m \in 0..Len(d) : LeftAfter(d, v, m) /\ (m < Len(d) => m + 1 \in young)
  <2>1. v = From(d, young) /\ young \in SUBSET DOMAIN d
    BY DEF Younger
  <2> HIDE DEF young
  <2> QED BY <2>1, FromLeaves
<1>2. PICK m \in 0..Len(d) : LeftAfter(d, v, m) /\ (m < Len(d) => m + 1 \in young)
  BY <1>1
<1>3. PICK k \in Nat : /\ Len(d) + k = Len(w)
                       /\ \A i \in 1..Len(d) :
                            w[k + i].tokens = d[i].tokens /\ d[i].at <= w[k + i].at + Skew
  BY DEF Traces
<1>4. Len(w) \in Nat /\ Len(d) \in Nat /\ Len(v) \in Nat
  BY <1>1, LenProperties
<1>5. ASSUME NEW i \in 1..Len(v) PROVE v[i] = d[m + i] /\ m + i \in 1..Len(d) /\ m < Len(d)
  BY <1>2, <1>4, <1>5 DEF LeftAfter
<1>6. Traces(w, v)
  <2>1. k + m \in Nat /\ Len(v) + (k + m) = Len(w)
    BY <1>2, <1>3, <1>4 DEF LeftAfter
  <2>2. ASSUME NEW i \in 1..Len(v)
        PROVE  w[(k + m) + i].tokens = v[i].tokens /\ v[i].at <= w[(k + m) + i].at + Skew
    <3>1. (k + m) + i = k + (m + i)
      BY <1>4
    <3> QED BY <1>3, <1>5, <3>1
  <2> QED BY <2>1, <2>2 DEF Traces
<1>7. Fresh(v, t + 1)
  <2> SUFFICES ASSUME NEW i \in 1..Len(v)
               PROVE  /\ v[i].at <= t + 1 /\ v[i].at + (Minute - Skew) > t + 1
                      /\ \A j \in 1..i : v[j].at <= v[i].at
    BY DEF Fresh
  <2>1. v[i] = d[m + i] /\ m + i \in 1..Len(d) /\ m + 1 \in young /\ m + 1 \in 1..(m + i)
    BY <1>2, <1>4, <1>5
  <2>2. d[m + 1].at + (Minute - Skew) > t + 1 /\ m + 1 \in 1..Len(d)
    BY <1>4, <2>1
  <2> HIDE DEF young
  <2>3. d[m + i].at <= t /\ d[m + 1].at <= d[m + i].at
    BY <2>1 DEF Fresh
  <2>4. d[m + 1].at \in Nat /\ d[m + i].at \in Nat
    BY <2>1, <2>2, AdmissionAt, Numbers
  <2>5. ASSUME NEW j \in 1..i PROVE v[j].at <= v[i].at
    <3>1. j \in 1..Len(v) /\ m + j \in 1..(m + i)
      BY <1>4
    <3> QED BY <1>5, <2>1, <3>1 DEF Fresh
  <2>6. v[i].at <= t + 1 /\ v[i].at + (Minute - Skew) > t + 1
    <3> PICK a \in Nat, b \in Nat : a = d[m + 1].at /\ b = d[m + i].at
      BY <2>4
    <3>1. a + (Minute - Skew) > t + 1 /\ b <= t /\ a <= b /\ t \in Nat
      BY <2>2, <2>3, Numbers
    <3>2. b <= t + 1 /\ b + (Minute - Skew) > t + 1
      BY <3>1, Numbers, StillFresh
    <3> QED BY <2>1, <3>2
  <2> QED BY <2>5, <2>6
<1> QED BY <1>1, <1>6, <1>7

LEMMA BothGrow == \A k, m, n \in Nat : n + k = m => (n + 1) + k = m + 1
OBVIOUS

\* An admission enters the window and the history together.
LEMMA AdmittingKeeps ==
    ASSUME NEW w \in Seq(Admission), NEW d \in Seq(Admission), NEW t \in 0..MaxClock,
           NEW s \in 0..MaxClock, t <= s + Skew, NEW tokens \in Nat, Traces(w, d), Fresh(d, t)
    PROVE  /\ Traces(Append(w, [at |-> s, tokens |-> tokens]), Append(d, [at |-> t, tokens |-> tokens]))
           /\ Fresh(Append(d, [at |-> t, tokens |-> tokens]), t)
<1> PICK e \in Admission : e = [at |-> s, tokens |-> tokens]
  BY DEF Admission
<1> PICK f \in Admission : f = [at |-> t, tokens |-> tokens]
  BY DEF Admission
<1> PICK ww : ww = Append(w, e)
  OBVIOUS
<1> PICK dd : dd = Append(d, f)
  OBVIOUS
<1>1. /\ Len(ww) = Len(w) + 1 /\ ww[Len(w) + 1] = e /\ \A i \in 1..Len(w) : ww[i] = w[i]
      /\ Len(dd) = Len(d) + 1 /\ dd[Len(d) + 1] = f /\ \A i \in 1..Len(d) : dd[i] = d[i]
      /\ Len(w) \in Nat /\ Len(d) \in Nat
  BY AppendProperties, LenProperties
<1>2. e.at = s /\ e.tokens = tokens /\ f.at = t /\ f.tokens = tokens
  OBVIOUS
<1>3. Traces(ww, dd)
  <2>1. PICK k \in Nat : /\ Len(d) + k = Len(w)
                         /\ \A i \in 1..Len(d) :
                              w[k + i].tokens = d[i].tokens /\ d[i].at <= w[k + i].at + Skew
    BY DEF Traces
  <2>2. ASSUME NEW i \in 1..Len(dd)
        PROVE  ww[k + i].tokens = dd[i].tokens /\ dd[i].at <= ww[k + i].at + Skew
    <3>1. CASE i = Len(d) + 1
      <4>1. k + i = Len(w) + 1
        BY <1>1, <2>1, <3>1
      <4> QED BY <1>1, <1>2, <3>1, <4>1
    <3>2. CASE i # Len(d) + 1
      <4>1. i \in 1..Len(d) /\ k + i \in 1..Len(w)
        BY <1>1, <2>1, <3>2
      <4> QED BY <1>1, <2>1, <4>1
    <3> QED BY <3>1, <3>2
  <2>3. Len(dd) + k = Len(ww)
    <3> PICK m \in Nat, n \in Nat : m = Len(w) /\ n = Len(d)
      BY <1>1
    <3>1. Len(ww) = m + 1 /\ Len(dd) = n + 1 /\ n + k = m
      BY <1>1, <2>1
    <3>2. (n + 1) + k = m + 1
      BY <3>1, BothGrow
    <3> QED BY <3>1, <3>2
  <2> QED BY <2>2, <2>3 DEF Traces
<1>4. Fresh(dd, t)
  <2> SUFFICES ASSUME NEW i \in 1..Len(dd)
               PROVE  /\ dd[i].at <= t /\ dd[i].at + (Minute - Skew) > t
                      /\ \A j \in 1..i : dd[j].at <= dd[i].at
    BY DEF Fresh
  <2>1. CASE i = Len(d) + 1
    <3>1. ASSUME NEW j \in 1..i PROVE dd[j].at <= t
      <4>1. CASE j = i
        BY <1>1, <1>2, <2>1, <4>1
      <4>2. CASE j # i
        <5>1. j \in 1..Len(d)
          BY <1>1, <2>1, <4>2
        <5> QED BY <1>1, <5>1 DEF Fresh
      <4> QED BY <4>1, <4>2
    <3> QED BY <1>1, <1>2, <2>1, <3>1, Numbers
  <2>2. CASE i # Len(d) + 1
    <3>1. i \in 1..Len(d) /\ \A j \in 1..i : j \in 1..Len(d)
      BY <1>1, <2>2
    <3> QED BY <1>1, <3>1 DEF Fresh
  <2> QED BY <2>1, <2>2
<1> QED BY <1>3, <1>4

-----------------------------------------------------------------------------
(***************************************************************************)
(* ProviderCalls                                                           *)
(***************************************************************************)
\* What a call has in its hands at time t; generate alone uses limiter and cache.
CallKept(r, t) ==
    /\ r.at \in {"lookup", "stamp", "acquire", "store", "release"} => r.kind = "generate"
    /\ r.at = "acquire" => r.stamp <= t /\ t <= r.stamp + Skew

HoldsPermit(r, a) ==
    /\ r.kind = "generate" /\ r.adapter = a
    /\ r.at \in {"prepare", "send", "store", "release"}

WindowsKept ==
    \A a \in Adapters :
        /\ window[a] \in Seq(Admission) /\ admitted[a] \in Seq(Admission)
        /\ Traces(window[a], admitted[a]) /\ Fresh(admitted[a], now) /\ Within(window[a])

\* An answer that is kept was given, ResponseTtl before it expires.
CacheKept ==
    /\ IsFiniteSet(DOMAIN responses) /\ DOMAIN responses \subseteq Prompts
    /\ Cardinality(DOMAIN responses) <= MaxEntries
    /\ \A p \in DOMAIN responses : responses[p] \in 0..(MaxClock + ResponseTtl)
    /\ DOMAIN answeredAt \subseteq Prompts
    /\ \A p \in DOMAIN answeredAt : answeredAt[p] \in 0..MaxClock
    /\ \A p \in DOMAIN responses : responses[p] > now =>
            p \in DOMAIN answeredAt /\ responses[p] = answeredAt[p] + ResponseTtl

PInv ==
    /\ now \in 0..MaxClock /\ mock \in BOOLEAN
    /\ window \in [Adapters -> Seq(Admission)] /\ admitted \in [Adapters -> Seq(Admission)]
    /\ permits \in [Adapters -> 0..ConcurrentCalls]
    /\ call \in [Callers -> ProviderCall]
    /\ \A c \in Callers : CallKept(call[c], now)
    /\ WindowsKept
    /\ PermitsExact
    /\ CacheKept

Out(a) == {c \in Callers : HoldsPermit(call[c], a)}

PermitsAddUp == \A a \in Adapters : permits[a] + Cardinality(Out(a)) = ConcurrentCalls

LEMMA PermitsOut == PermitsExact <=> PermitsAddUp
<1>1. \A a \in Adapters :
        Out(a) = {c \in Callers :
            /\ call[c].kind = "generate" /\ call[c].adapter = a
            /\ call[c].at \in {"prepare", "send", "store", "release"}}
  BY DEF Out, HoldsPermit
<1> QED BY <1>1 DEF PermitsExact, PermitsAddUp

LEMMA NoCallType ==
    /\ NoCall \in ProviderCall /\ NoCall.at = "idle" /\ NoCall.kind = "generate"
    /\ NoCall.stamp = 0 /\ NoCall.attempt = 0
<1>1. Some(Adapters) \in Adapters /\ Some(Prompts) \in Prompts
  BY ProviderAssumption DEF ProviderAssumption, Some
<1>2. 0 \in 0..MaxClock /\ 0 \in 0..RetryBudget
  BY Numbers
<1> QED BY <1>1, <1>2 DEF NoCall, ProviderCall, Places, Kinds

\* A step of a call that neither enters nor leaves the limiter.
LEMMA CallMoves ==
    ASSUME PInv, NEW c \in Callers, NEW r \in ProviderCall, call' = [call EXCEPT ![c] = r],
           \A a \in Adapters : HoldsPermit(r, a) <=> HoldsPermit(call[c], a), CallKept(r, now),
           UNCHANGED <<now, mock, window, permits, admitted>>, CacheKept'
    PROVE  PInv'
<1>1. /\ call' \in [Callers -> ProviderCall] /\ call'[c] = r
      /\ \A d \in Callers \ {c} : call'[d] = call[d]
  BY DEF PInv
<1>2. \A d \in Callers : CallKept(call'[d], now)
  BY <1>1 DEF PInv
<1>3. \A a \in Adapters : Out(a)' = Out(a)
  BY <1>1 DEF Out
<1>4. PermitsExact'
  <2>1. PermitsAddUp'
    BY <1>3, PermitsOut DEF PInv, PermitsAddUp
  <2>2. (PermitsExact <=> PermitsAddUp)'
    BY PermitsOut, PTL
  <2> QED BY <2>1, <2>2
<1>5. WindowsKept'
  BY DEF PInv, WindowsKept
<1> QED BY <1>1, <1>2, <1>4, <1>5 DEF PInv

LEMMA ProviderInitInv == ProviderInit => PInv
<1> SUFFICES ASSUME ProviderInit PROVE PInv
  OBVIOUS
<1>1. \A c \in Callers : call[c] = NoCall
  BY DEF ProviderInit
<1>2. call \in [Callers -> ProviderCall] /\ \A c \in Callers : CallKept(call[c], now)
  BY <1>1, NoCallType DEF ProviderInit, CallKept
<1>3. <<>> \in Seq(Admission) /\ Len(<<>>) = 0 /\ TokensIn(<<>>) = 0
  <2>1. <<>> \in Seq(Admission) /\ Len(<<>>) = 0
    BY EmptySeq
  <2>2. TokensIn(<<>>) = SumFunctionOnSet(Tokens(<<>>), 1..0)
    BY <2>1, TokensType
  <2>3. 1..0 = {}
    OBVIOUS
  <2> QED BY <2>1, <2>2, <2>3, SumEmpty
<1>4. WindowsKept
  <2>1. Traces(<<>>, <<>>) /\ Fresh(<<>>, now) /\ Within(<<>>)
    BY <1>3, Numbers DEF Traces, Fresh, Within
  <2> QED BY <1>3, <2>1 DEF ProviderInit, WindowsKept
<1>5. PermitsExact
  <2>1. \A a \in Adapters : Out(a) = {}
    BY <1>1, NoCallType DEF Out, HoldsPermit
  <2>2. \A a \in Adapters : permits[a] + Cardinality(Out(a)) = ConcurrentCalls
    <3>1. Cardinality({}) = 0 /\ ConcurrentCalls + 0 = ConcurrentCalls
      BY FS_EmptySet, Numbers
    <3> QED BY <2>1, <3>1 DEF ProviderInit
  <2> QED BY <2>2, PermitsOut DEF PermitsAddUp
<1>6. CacheKept
  <2>1. DOMAIN <<>> = {}
    BY EmptySeq
  <2> QED BY <2>1, FS_EmptySet, Numbers DEF ProviderInit, CacheKept
<1>7. 0 \in 0..MaxClock /\ ConcurrentCalls \in 0..ConcurrentCalls
  BY Numbers
<1> QED BY <1>2, <1>3, <1>4, <1>5, <1>6, <1>7 DEF ProviderInit, PInv

LEMMA CallFields ==
    ASSUME PInv, NEW c \in Callers
    PROVE  /\ call[c] \in ProviderCall /\ CallKept(call[c], now)
           /\ call[c].adapter \in Adapters /\ call[c].prompt \in Prompts
           /\ call[c].stamp \in 0..MaxClock /\ call[c].attempt \in 0..RetryBudget
           /\ now \in 0..MaxClock
BY DEF PInv, ProviderCall

LEMMA CacheStands ==
    ASSUME PInv, UNCHANGED <<now, responses, answeredAt>>
    PROVE  CacheKept'
BY DEF PInv, CacheKept

\* Generate, and the calls that go to the transport at once.
LEMMA BeginsInv ==
    ASSUME PInv, NEW c \in Callers,
           \/ \E a \in Adapters, p \in Prompts : Generate(c, a, p)
           \/ \E kind \in {"stream", "embed", "local"} : CallDirectly(c, kind)
    PROVE  PInv'
<1>1. /\ call[c].at = "idle" /\ UNCHANGED <<now, mock, window, permits, responses, admitted, answeredAt>>
      /\ \A a \in Adapters : ~HoldsPermit(call[c], a)
  BY DEF Generate, CallDirectly, HoldsPermit
<1>2. ASSUME NEW a \in Adapters, NEW p \in Prompts, Generate(c, a, p) PROVE PInv'
  <2> PICK r : r = [NoCall EXCEPT !.at = "lookup", !.adapter = a, !.prompt = p]
    OBVIOUS
  <2>1. r \in ProviderCall /\ r.at = "lookup" /\ r.kind = "generate"
    BY NoCallType DEF ProviderCall, Places
  <2>2. call' = [call EXCEPT ![c] = r]
    BY <1>2 DEF Generate
  <2>3. CallKept(r, now) /\ \A b \in Adapters : ~HoldsPermit(r, b)
    BY <2>1 DEF CallKept, HoldsPermit
  <2> QED BY <1>1, <2>1, <2>2, <2>3, CallMoves, CacheStands
<1>3. ASSUME NEW kind \in {"stream", "embed", "local"}, CallDirectly(c, kind) PROVE PInv'
  <2> PICK r : r = [NoCall EXCEPT !.at = "prepare", !.kind = kind]
    OBVIOUS
  <2>1. r \in ProviderCall /\ r.at = "prepare" /\ r.kind = kind
    BY NoCallType DEF ProviderCall, Places, Kinds
  <2>2. call' = [call EXCEPT ![c] = r]
    BY <1>3 DEF CallDirectly
  <2>3. CallKept(r, now) /\ \A b \in Adapters : ~HoldsPermit(r, b)
    BY <2>1 DEF CallKept, HoldsPermit
  <2> QED BY <1>1, <2>1, <2>2, <2>3, CallMoves, CacheStands
<1> QED BY <1>2, <1>3

\* What After leaves of a call that the transport is done with.
LEMMA AfterIs ==
    ASSUME PInv, NEW c \in Callers, NEW answered \in BOOLEAN, After(c, answered),
           call[c].at \in {"prepare", "send"}
    PROVE  \E r \in ProviderCall :
              /\ call' = [call EXCEPT ![c] = r] /\ CallKept(r, now)
              /\ \A a \in Adapters : HoldsPermit(r, a) <=> HoldsPermit(call[c], a)
<1>1. CASE call[c].kind # "generate"
  <2>1. call' = [call EXCEPT ![c] = NoCall]
    BY <1>1 DEF After
  <2>2. CallKept(NoCall, now) /\ \A a \in Adapters : HoldsPermit(NoCall, a) <=> HoldsPermit(call[c], a)
    BY <1>1, NoCallType DEF CallKept, HoldsPermit
  <2> QED BY <2>1, <2>2, NoCallType
<1>2. CASE call[c].kind = "generate"
  <2> PICK place \in {"store", "release"} : place = IF answered THEN "store" ELSE "release"
    OBVIOUS
  <2> PICK r : r = [call[c] EXCEPT !.at = place, !.attempt = 0]
    OBVIOUS
  <2>1. call[c] \in ProviderCall /\ 0 \in 0..RetryBudget
    BY CallFields, Numbers
  <2>2. /\ r \in ProviderCall /\ r.at = place /\ r.kind = call[c].kind
        /\ r.adapter = call[c].adapter
    BY <2>1 DEF ProviderCall, Places
  <2>3. call' = [call EXCEPT ![c] = r]
    BY <1>2, <2>1 DEF After, PInv, ProviderCall
  <2>4. CallKept(r, now) /\ \A a \in Adapters : HoldsPermit(r, a) <=> HoldsPermit(call[c], a)
    BY <1>2, <2>2 DEF CallKept, HoldsPermit
  <2> QED BY <2>2, <2>3, <2>4
<1> QED BY <1>1, <1>2

\* A call goes on to a place that is as far in the limiter as it was.
LEMMA AtIs ==
    ASSUME PInv, NEW c \in Callers, NEW place \in Places, At(c, place)
    PROVE  \E r \in ProviderCall :
              /\ call' = [call EXCEPT ![c] = r] /\ r.at = place /\ r.kind = call[c].kind
              /\ r.adapter = call[c].adapter /\ r.stamp = call[c].stamp
<1> PICK r : r = [call[c] EXCEPT !.at = place]
  OBVIOUS
<1>1. call[c] \in ProviderCall
  BY CallFields
<1>2. /\ r \in ProviderCall /\ r.at = place /\ r.kind = call[c].kind
      /\ r.adapter = call[c].adapter /\ r.stamp = call[c].stamp
  BY <1>1 DEF ProviderCall
<1>3. call' = [call EXCEPT ![c] = r]
  BY DEF At
<1> QED BY <1>2, <1>3

LEMMA PrepareInv ==
    ASSUME PInv, NEW c \in Callers, NEW found \in BOOLEAN, Prepare(c, found)
    PROVE  PInv'
<1>1. call[c].at = "prepare" /\ UNCHANGED <<now, mock, window, permits, responses, admitted, answeredAt>>
  BY DEF Prepare
<1>2. CASE found
  <2>1. PICK r \in ProviderCall :
              /\ call' = [call EXCEPT ![c] = r] /\ r.at = "send" /\ r.kind = call[c].kind
              /\ r.adapter = call[c].adapter
    BY <1>2, AtIs DEF Prepare, Places
  <2>2. CallKept(r, now) /\ \A a \in Adapters : HoldsPermit(r, a) <=> HoldsPermit(call[c], a)
    BY <1>1, <2>1 DEF CallKept, HoldsPermit
  <2> QED BY <1>1, <2>1, <2>2, CallMoves, CacheStands
<1>3. CASE ~found
  <2>1. PICK r \in ProviderCall :
              /\ call' = [call EXCEPT ![c] = r] /\ CallKept(r, now)
              /\ \A a \in Adapters : HoldsPermit(r, a) <=> HoldsPermit(call[c], a)
    BY <1>1, <1>3, AfterIs DEF Prepare
  <2> QED BY <1>1, <2>1, CallMoves, CacheStands
<1> QED BY <1>2, <1>3

LEMMA Wraps == \A n, k \in Nat : k < n => (k + 1) % (n + 1) \in 0..n
OBVIOUS

LEMMA SendInv ==
    ASSUME PInv, NEW c \in Callers, NEW outcome \in Attempts,
           Send(c, outcome) \/ SendStream(c, outcome)
    PROVE  PInv'
<1>1. call[c].at = "send" /\ UNCHANGED <<now, mock, window, permits, responses, admitted, answeredAt>>
  BY DEF Send, SendStream
<1>2. CASE After(c, outcome = "answered")
  <2>1. PICK r \in ProviderCall :
              /\ call' = [call EXCEPT ![c] = r] /\ CallKept(r, now)
              /\ \A a \in Adapters : HoldsPermit(r, a) <=> HoldsPermit(call[c], a)
    BY <1>1, <1>2, AfterIs
  <2> QED BY <1>1, <2>1, CallMoves, CacheStands
<1>3. CASE Send(c, outcome) /\ outcome = "transient" /\ Retries(c)
  <2> PICK n : n = (call[c].attempt + 1) % (RetryBudget + 1)
    OBVIOUS
  <2> PICK r : r = [call[c] EXCEPT !.attempt = n]
    OBVIOUS
  <2>1. call[c] \in ProviderCall /\ n \in 0..RetryBudget
    BY <1>3, CallFields, Numbers, Wraps DEF Retries
  <2>2. /\ r \in ProviderCall /\ r.at = "send" /\ r.kind = call[c].kind
        /\ r.adapter = call[c].adapter
    BY <1>1, <2>1 DEF ProviderCall
  <2>3. call' = [call EXCEPT ![c] = r]
    BY <1>3, <2>1 DEF Send, PInv
  <2>4. CallKept(r, now) /\ \A a \in Adapters : HoldsPermit(r, a) <=> HoldsPermit(call[c], a)
    BY <1>1, <2>2 DEF CallKept, HoldsPermit
  <2> QED BY <1>1, <2>2, <2>3, <2>4, CallMoves, CacheStands
<1> QED BY <1>2, <1>3 DEF Send, SendStream

LEMMA LookupInv == ASSUME PInv, NEW c \in Callers, Lookup(c) PROVE PInv'
<1> PICK p : p = call[c].prompt
  OBVIOUS
<1>1. /\ call[c].at = "lookup" /\ UNCHANGED <<now, mock, window, permits, admitted, answeredAt>>
      /\ call[c].kind = "generate" /\ \A a \in Adapters : ~HoldsPermit(call[c], a)
  BY CallFields DEF Lookup, CallKept, HoldsPermit
<1>2. CASE Live(p)
  <2>1. call' = [call EXCEPT ![c] = NoCall] /\ UNCHANGED responses
    BY <1>2 DEF Lookup
  <2>2. CallKept(NoCall, now) /\ \A a \in Adapters : ~HoldsPermit(NoCall, a)
    BY NoCallType DEF CallKept, HoldsPermit
  <2> QED BY <1>1, <2>1, <2>2, NoCallType, CallMoves, CacheStands
<1>3. CASE ~Live(p)
  <2>1. At(c, "stamp") /\ responses' = Restrict(responses, DOMAIN responses \ {p})
    BY <1>3 DEF Lookup
  <2>2. PICK r \in ProviderCall :
              call' = [call EXCEPT ![c] = r] /\ r.at = "stamp" /\ r.kind = call[c].kind
    BY <2>1, AtIs DEF Places
  <2>3. CallKept(r, now) /\ \A a \in Adapters : ~HoldsPermit(r, a)
    BY <1>1, <2>2 DEF CallKept, HoldsPermit
  <2>4. CacheKept'
    <3>1. /\ DOMAIN responses' = DOMAIN responses \ {p}
          /\ \A q \in DOMAIN responses' : responses'[q] = responses[q]
      BY <2>1 DEF Restrict
    <3>2. /\ IsFiniteSet(DOMAIN responses')
          /\ Cardinality(DOMAIN responses') <= Cardinality(DOMAIN responses)
          /\ Cardinality(DOMAIN responses') \in Nat /\ Cardinality(DOMAIN responses) \in Nat
      BY <3>1, FS_Subset, FS_CardinalityType DEF PInv, CacheKept
    <3>3. Cardinality(DOMAIN responses') <= MaxEntries
      BY <3>2, Numbers DEF PInv, CacheKept
    <3> QED BY <1>1, <3>1, <3>2, <3>3 DEF PInv, CacheKept
  <2> QED BY <1>1, <2>2, <2>3, <2>4, CallMoves
<1> QED BY <1>2, <1>3

LEMMA StampInv == ASSUME PInv, NEW c \in Callers, Stamp(c) PROVE PInv'
<1>1. /\ call[c].at = "stamp" /\ UNCHANGED <<now, mock, window, permits, responses, admitted, answeredAt>>
      /\ call[c].kind = "generate" /\ \A a \in Adapters : ~HoldsPermit(call[c], a)
  BY CallFields DEF Stamp, CallKept, HoldsPermit
<1> PICK r : r = [call[c] EXCEPT !.at = "acquire", !.stamp = now]
  OBVIOUS
<1>2. call[c] \in ProviderCall /\ now \in 0..MaxClock
  BY CallFields
<1>3. r \in ProviderCall /\ r.at = "acquire" /\ r.stamp = now /\ r.kind = call[c].kind
  BY <1>2 DEF ProviderCall, Places
<1>4. call' = [call EXCEPT ![c] = r]
  BY <1>2 DEF Stamp, PInv
<1>5. CallKept(r, now) /\ \A a \in Adapters : ~HoldsPermit(r, a)
  BY <1>1, <1>2, <1>3, Numbers DEF CallKept, HoldsPermit
<1> QED BY <1>1, <1>3, <1>4, <1>5, CallMoves, CacheStands

LEMMA StoreInv == ASSUME PInv, NEW c \in Callers, NEW parsed \in Parses, Store(c, parsed) PROVE PInv'
<1> PICK p : p = call[c].prompt
  OBVIOUS
<1>1. /\ call[c].at = "store" /\ UNCHANGED <<now, mock, window, permits, admitted>>
      /\ p \in Prompts /\ now \in 0..MaxClock /\ At(c, "release")
  BY CallFields DEF Store
<1>2. PICK r \in ProviderCall :
            /\ call' = [call EXCEPT ![c] = r] /\ r.at = "release" /\ r.kind = call[c].kind
            /\ r.adapter = call[c].adapter
  BY <1>1, AtIs DEF Places
<1>3. CallKept(r, now) /\ \A a \in Adapters : HoldsPermit(r, a) <=> HoldsPermit(call[c], a)
  BY <1>1, <1>2, CallFields DEF CallKept, HoldsPermit
<1>4. CacheKept'
  <2>1. CASE ~parsed
    <3>1. UNCHANGED <<responses, answeredAt>>
      BY <2>1 DEF Store, Stores
    <3> QED BY <1>1, <3>1, CacheStands
  <2>2. CASE parsed
    <3>1. /\ answeredAt' = [q \in DOMAIN answeredAt \cup {p} |-> IF q = p THEN now ELSE answeredAt[q]]
          /\ Put(p)
      BY <2>2 DEF Store, Stores
    <3>2. PICK dropped :
            /\ responses' = [q \in (DOMAIN responses \ dropped) \cup {p} |->
                                IF q = p THEN now + ResponseTtl ELSE responses[q]]
            /\ \/ Cardinality(DOMAIN responses) < MaxEntries /\ dropped = {}
               \/ \E d \in DOMAIN responses : dropped = {d}
      BY <3>1 DEF Put
    <3> PICK old : old = DOMAIN responses
      OBVIOUS
    <3>3. IsFiniteSet(old) /\ Cardinality(old) \in Nat /\ Cardinality(old) <= MaxEntries
      BY FS_CardinalityType DEF PInv, CacheKept
    <3>4. IsFiniteSet(old \ dropped) /\ Cardinality(old \ dropped) < MaxEntries
      <4>1. CASE Cardinality(old) < MaxEntries /\ dropped = {}
        <5>1. old \ dropped = old
          BY <4>1
        <5> QED BY <3>3, <4>1, <5>1
      <4>2. ASSUME NEW d \in old, dropped = {d} PROVE Cardinality(old \ dropped) < MaxEntries
        <5>1. Cardinality(old \ {d}) = Cardinality(old) - 1
          BY <3>3, FS_RemoveElement
        <5> QED BY <3>3, <4>2, <5>1, Numbers
      <4> QED BY <3>2, <3>3, <4>1, <4>2, FS_Subset
    <3>5. /\ IsFiniteSet((old \ dropped) \cup {p})
          /\ Cardinality((old \ dropped) \cup {p}) <= MaxEntries
      <4>1. Cardinality(old \ dropped) \in Nat
        BY <3>4, FS_CardinalityType
      <4>2. /\ IsFiniteSet((old \ dropped) \cup {p})
            /\ \/ Cardinality((old \ dropped) \cup {p}) = Cardinality(old \ dropped)
               \/ Cardinality((old \ dropped) \cup {p}) = Cardinality(old \ dropped) + 1
        BY <3>4, FS_AddElement
      <4> QED BY <3>4, <4>1, <4>2, Numbers
    <3>6. /\ DOMAIN responses' = (old \ dropped) \cup {p} /\ responses'[p] = now + ResponseTtl
          /\ \A q \in old \ dropped : q # p => responses'[q] = responses[q]
      BY <3>2
    <3>7. /\ DOMAIN answeredAt' = DOMAIN answeredAt \cup {p} /\ answeredAt'[p] = now
          /\ \A q \in DOMAIN answeredAt : q # p => answeredAt'[q] = answeredAt[q]
      BY <3>1
    <3>8. now + ResponseTtl \in 0..(MaxClock + ResponseTtl)
      BY <1>1, Numbers
    <3>9. \A q \in DOMAIN responses' : /\ responses'[q] \in 0..(MaxClock + ResponseTtl)
                                       /\ responses'[q] > now => q \in DOMAIN answeredAt' /\
                                             responses'[q] = answeredAt'[q] + ResponseTtl
      <4> SUFFICES ASSUME NEW q \in DOMAIN responses'
                   PROVE  /\ responses'[q] \in 0..(MaxClock + ResponseTtl)
                          /\ responses'[q] > now => q \in DOMAIN answeredAt' /\
                                responses'[q] = answeredAt'[q] + ResponseTtl
        OBVIOUS
      <4>1. CASE q = p
        BY <3>6, <3>7, <3>8, <4>1
      <4>2. CASE q # p
        <5>1. q \in DOMAIN responses /\ responses'[q] = responses[q]
          BY <3>6, <4>2
        <5> QED BY <3>7, <4>2, <5>1 DEF PInv, CacheKept
      <4> QED BY <4>1, <4>2
    <3>10. /\ DOMAIN answeredAt' \subseteq Prompts
           /\ \A q \in DOMAIN answeredAt' : answeredAt'[q] \in 0..MaxClock
           /\ DOMAIN responses' \subseteq Prompts
      BY <1>1, <3>6, <3>7 DEF PInv, CacheKept
    <3> QED BY <1>1, <3>5, <3>6, <3>9, <3>10 DEF CacheKept
  <2> QED BY <2>1, <2>2
<1> QED BY <1>1, <1>2, <1>3, <1>4, CallMoves

\* The permits of an adapter when a call takes one or gives one back.
LEMMA PermitMoves ==
    ASSUME PInv, NEW c \in Callers, NEW r \in ProviderCall, call' = [call EXCEPT ![c] = r],
           NEW a \in Adapters,
           \/ /\ HoldsPermit(r, a) /\ ~HoldsPermit(call[c], a) /\ permits[a] > 0
              /\ permits' = [permits EXCEPT ![a] = @ - 1]
           \/ /\ ~HoldsPermit(r, a) /\ HoldsPermit(call[c], a)
              /\ permits' = [permits EXCEPT ![a] = @ + 1],
           \A b \in Adapters \ {a} : HoldsPermit(r, b) <=> HoldsPermit(call[c], b)
    PROVE  permits' \in [Adapters -> 0..ConcurrentCalls] /\ PermitsExact'
<1>1. permits[a] \in 0..ConcurrentCalls /\ permits \in [Adapters -> 0..ConcurrentCalls]
  BY DEF PInv
<1>2. \A b \in Adapters : permits[b] + Cardinality(Out(b)) = ConcurrentCalls
  BY PermitsOut DEF PInv, PermitsAddUp
<1>3. \A b \in Adapters : IsFiniteSet(Out(b)) /\ Cardinality(Out(b)) \in Nat
  <2>1. \A b \in Adapters : Out(b) \subseteq Callers
    BY DEF Out
  <2> QED BY <2>1, FS_Subset, FS_CardinalityType, ProviderAssumption DEF ProviderAssumption
<1>4. call'[c] = r /\ \A d \in Callers \ {c} : call'[d] = call[d]
  BY DEF PInv
<1>5. \A b \in Adapters \ {a} : Out(b)' = Out(b) /\ permits'[b] = permits[b]
  BY <1>1, <1>4 DEF Out
<1>6. permits'[a] \in 0..ConcurrentCalls /\ permits'[a] + Cardinality(Out(a)') = ConcurrentCalls
  <2>1. CASE /\ HoldsPermit(r, a) /\ ~HoldsPermit(call[c], a) /\ permits[a] > 0
             /\ permits' = [permits EXCEPT ![a] = @ - 1]
    <3>1. Out(a)' = Out(a) \cup {c} /\ c \notin Out(a)
      BY <1>4, <2>1 DEF Out
    <3>2. Cardinality(Out(a) \cup {c}) = Cardinality(Out(a)) + 1
      BY <1>3, <3>1, FS_AddElement
    <3>3. permits'[a] = permits[a] - 1
      BY <1>1, <2>1
    <3>4. permits[a] > 0
      BY <2>1
    <3>5. permits'[a] \in 0..ConcurrentCalls
      BY <1>1, <3>3, <3>4, Numbers
    <3>6. permits'[a] + (Cardinality(Out(a)) + 1) = ConcurrentCalls
      BY <1>1, <1>2, <1>3, <3>3, Numbers
    <3> QED BY <3>1, <3>2, <3>5, <3>6
  <2>2. CASE /\ ~HoldsPermit(r, a) /\ HoldsPermit(call[c], a)
             /\ permits' = [permits EXCEPT ![a] = @ + 1]
    <3>1. Out(a)' = Out(a) \ {c} /\ c \in Out(a)
      BY <1>4, <2>2 DEF Out
    <3>2. Cardinality(Out(a) \ {c}) = Cardinality(Out(a)) - 1
      BY <1>3, <3>1, FS_RemoveElement
    <3>3. Cardinality(Out(a) \ {c}) \in Nat
      BY <1>3, FS_RemoveElement, FS_CardinalityType
    <3>4. permits'[a] = permits[a] + 1
      BY <1>1, <2>2
    <3>5. permits'[a] + (Cardinality(Out(a)) - 1) = ConcurrentCalls
      BY <1>1, <1>2, <1>3, <3>4, Numbers
    <3>6. permits'[a] \in Nat /\ permits'[a] <= ConcurrentCalls
      BY <1>1, <3>2, <3>3, <3>4, <3>5, Numbers
    <3> QED BY <3>1, <3>2, <3>5, <3>6, Numbers
  <2> QED BY <2>1, <2>2
<1>7. \A b \in Adapters : permits'[b] + Cardinality(Out(b)') = ConcurrentCalls
  BY <1>2, <1>5, <1>6
<1>8. (PermitsExact <=> PermitsAddUp)'
  BY PermitsOut, PTL
<1>9. permits' \in [Adapters -> 0..ConcurrentCalls]
  BY <1>1, <1>6
<1> QED BY <1>7, <1>8, <1>9 DEF PermitsAddUp

LEMMA ReleaseInv == ASSUME PInv, NEW c \in Callers, Release(c) PROVE PInv'
<1> PICK a \in Adapters : a = call[c].adapter
  BY CallFields
<1>1. /\ call[c].at = "release" /\ UNCHANGED <<now, mock, window, responses, admitted, answeredAt>>
      /\ call' = [call EXCEPT ![c] = NoCall] /\ permits' = [permits EXCEPT ![a] = @ + 1]
      /\ call[c].kind = "generate"
  BY CallFields DEF Release, CallKept
<1>2. /\ \A b \in Adapters : ~HoldsPermit(NoCall, b) /\ (HoldsPermit(call[c], b) <=> b = a)
      /\ CallKept(NoCall, now)
  BY <1>1, NoCallType DEF HoldsPermit, CallKept
<1>3. permits' \in [Adapters -> 0..ConcurrentCalls] /\ PermitsExact'
  BY <1>1, <1>2, NoCallType, PermitMoves
<1>4. \A d \in Callers : CallKept(call'[d], now)
  BY <1>1, <1>2 DEF PInv
<1>5. call' \in [Callers -> ProviderCall]
  BY <1>1, NoCallType DEF PInv
<1>6. WindowsKept' /\ CacheKept'
  BY <1>1, CacheStands DEF PInv, WindowsKept
<1> QED BY <1>1, <1>3, <1>4, <1>5, <1>6 DEF PInv

LEMMA AcquireInv == ASSUME PInv, NEW c \in Callers, Acquire(c) PROVE PInv'
<1> PICK a \in Adapters : a = call[c].adapter
  BY CallFields
<1> PICK s \in 0..MaxClock : s = call[c].stamp
  BY CallFields
<1> PICK w : w = Pruned(window[a], s)
  OBVIOUS
<1> PICK tokens \in Nat : tokens = Charge[call[c].prompt]
  BY CallFields, ProviderAssumption DEF ProviderAssumption
<1>1. /\ call[c].at = "acquire" /\ UNCHANGED <<now, mock, responses, answeredAt>>
      /\ call[c].kind = "generate" /\ s <= now /\ now <= s + Skew /\ now \in 0..MaxClock
  BY CallFields DEF Acquire, CallKept
<1>2. /\ window[a] \in Seq(Admission) /\ admitted[a] \in Seq(Admission)
      /\ Traces(window[a], admitted[a]) /\ Fresh(admitted[a], now) /\ Within(window[a])
  BY DEF PInv, WindowsKept
<1>3. w \in Seq(Admission) /\ Traces(w, admitted[a]) /\ Within(w)
  BY <1>1, <1>2, PruningKeeps
<1>4. \A b \in Adapters : ~HoldsPermit(call[c], b)
  BY <1>1 DEF HoldsPermit
<1>5. CASE Admits(w, tokens) /\ permits[a] > 0
  <2> PICK e \in Admission : e = [at |-> s, tokens |-> tokens]
    BY DEF Admission
  <2> PICK f \in Admission : f = [at |-> now, tokens |-> tokens]
    BY <1>1 DEF Admission
  <2> PICK place \in {"store", "prepare"} : place = IF mock THEN "store" ELSE "prepare"
    OBVIOUS
  <2> PICK r : r = [call[c] EXCEPT !.at = place, !.stamp = 0]
    OBVIOUS
  <2>1. /\ permits' = [permits EXCEPT ![a] = @ - 1]
        /\ window' = [window EXCEPT ![a] = Append(w, e)]
        /\ admitted' = [admitted EXCEPT ![a] = Append(admitted[a], f)]
        /\ call' = [call EXCEPT ![c] = r]
    BY <1>5 DEF Acquire, PInv, ProviderCall
  <2>2. call[c] \in ProviderCall /\ 0 \in 0..MaxClock
    BY CallFields, Numbers
  <2>3. /\ r \in ProviderCall /\ r.at = place /\ r.kind = call[c].kind
        /\ r.adapter = call[c].adapter
    BY <2>2 DEF ProviderCall, Places
  <2>4. CallKept(r, now) /\ \A b \in Adapters : HoldsPermit(r, b) <=> b = a
    BY <1>1, <2>3 DEF CallKept, HoldsPermit
  <2>5. permits' \in [Adapters -> 0..ConcurrentCalls] /\ PermitsExact'
    BY ZenonT(60), <1>4, <1>5, <2>1, <2>3, <2>4, PermitMoves
  <2>6. /\ Append(w, e) \in Seq(Admission) /\ Append(admitted[a], f) \in Seq(Admission)
        /\ Traces(Append(w, e), Append(admitted[a], f))
        /\ Fresh(Append(admitted[a], f), now)
    BY <1>1, <1>2, <1>3, OneMore, AdmittingKeeps
  <2>7. Within(Append(w, e))
    <3>1. /\ Len(Append(w, e)) = Len(w) + 1 /\ TokensIn(Append(w, e)) = TokensIn(w) + tokens
      BY <1>3, OneMore
    <3>2. Len(w) \in Nat /\ Len(w) < Rpm /\ TokensIn(w) + tokens <= Tpm
      BY <1>3, <1>5, LenProperties DEF Admits
    <3> QED BY <3>1, <3>2, Numbers DEF Within
  <2>8. WindowsKept'
    <3>1. \A b \in Adapters \ {a} : window'[b] = window[b] /\ admitted'[b] = admitted[b]
      BY <2>1 DEF PInv
    <3>2. window'[a] = Append(w, e) /\ admitted'[a] = Append(admitted[a], f)
      BY <2>1 DEF PInv
    <3>3. now' = now
      BY <1>1
    <3> QED BY <2>6, <2>7, <3>1, <3>2, <3>3 DEF PInv, WindowsKept
  <2>9. /\ window' \in [Adapters -> Seq(Admission)] /\ admitted' \in [Adapters -> Seq(Admission)]
        /\ call' \in [Callers -> ProviderCall] /\ \A d \in Callers : CallKept(call'[d], now)
    BY <2>1, <2>3, <2>4, <2>6 DEF PInv
  <2> QED BY <1>1, <2>5, <2>8, <2>9, CacheStands DEF PInv
<1>6. CASE ~(Admits(w, tokens) /\ permits[a] > 0)
  <2>1. /\ window' = [window EXCEPT ![a] = w] /\ call' = [call EXCEPT ![c] = NoCall]
        /\ UNCHANGED <<permits, admitted>>
    BY <1>6 DEF Acquire
  <2>2. /\ call' \in [Callers -> ProviderCall] /\ call'[c] = NoCall
        /\ \A d \in Callers \ {c} : call'[d] = call[d]
    BY <2>1, NoCallType DEF PInv
  <2>3. \A d \in Callers : CallKept(call'[d], now)
    BY <2>2, NoCallType DEF PInv, CallKept
  <2>4. \A b \in Adapters : Out(b)' = Out(b)
    BY <1>4, <2>2, NoCallType DEF Out, HoldsPermit
  <2>5. PermitsExact'
    <3>1. \A b \in Adapters : permits[b] + Cardinality(Out(b)) = ConcurrentCalls
      BY PermitsOut DEF PInv, PermitsAddUp
    <3>2. \A b \in Adapters : permits'[b] + Cardinality(Out(b)') = ConcurrentCalls
      BY <2>1, <2>4, <3>1
    <3>3. (PermitsExact <=> PermitsAddUp)'
      BY PermitsOut, PTL
    <3> QED BY <3>2, <3>3 DEF PermitsAddUp
  <2>6. WindowsKept' /\ window' \in [Adapters -> Seq(Admission)]
    BY <1>1, <1>2, <1>3, <2>1 DEF PInv, WindowsKept
  <2> QED BY <1>1, <2>1, <2>2, <2>3, <2>5, <2>6, CacheStands DEF PInv
<1> QED BY <1>5, <1>6

LEMMA ProviderTickInv == ASSUME PInv, ProviderTick PROVE PInv'
<1>1. /\ now < MaxClock /\ now' = now + 1 /\ now \in 0..MaxClock
      /\ \A c \in Callers : call[c].at = "acquire" => now < call[c].stamp + Skew
      /\ admitted' = [a \in Adapters |-> Younger(admitted[a], Minute - Skew, now + 1)]
      /\ answeredAt' = Restrict(answeredAt,
                          {p \in DOMAIN answeredAt : now + 1 < answeredAt[p] + ResponseTtl})
      /\ UNCHANGED <<mock, window, permits, responses, call>>
  BY DEF ProviderTick, PInv
<1>2. now' \in 0..MaxClock
  BY <1>1, Numbers
<1>3. ASSUME NEW c \in Callers PROVE CallKept(call'[c], now')
  <2>1. CASE call[c].at = "acquire"
    <3>1. call[c].stamp \in 0..MaxClock /\ call[c].stamp <= now /\ now < call[c].stamp + Skew
      BY <1>1, <2>1, CallFields DEF CallKept
    <3>2. call[c].stamp <= now + 1 /\ now + 1 <= call[c].stamp + Skew
      BY <1>1, <3>1, Numbers
    <3> QED BY <1>1, <2>1, <3>2, CallFields DEF CallKept
  <2>2. CASE call[c].at # "acquire"
    BY <1>1, <2>2, CallFields DEF CallKept
  <2> QED BY <2>1, <2>2
<1>4. ASSUME NEW a \in Adapters
      PROVE  /\ admitted'[a] \in Seq(Admission) /\ Traces(window[a], admitted'[a])
             /\ Fresh(admitted'[a], now + 1)
  <2>1. /\ window[a] \in Seq(Admission) /\ admitted[a] \in Seq(Admission)
        /\ Traces(window[a], admitted[a]) /\ Fresh(admitted[a], now)
    BY DEF PInv, WindowsKept
  <2>2. admitted'[a] = Younger(admitted[a], Minute - Skew, now + 1)
    BY <1>1
  <2> QED BY <1>1, <2>1, <2>2, AgeingKeeps
<1>5. WindowsKept' /\ admitted' \in [Adapters -> Seq(Admission)]
  BY <1>1, <1>4 DEF PInv, WindowsKept
<1>6. PermitsExact'
  BY <1>1 DEF PInv, PermitsExact
<1>7. CacheKept'
  <2>1. /\ \A p \in DOMAIN answeredAt : now + 1 < answeredAt[p] + ResponseTtl => p \in DOMAIN answeredAt'
        /\ \A p \in DOMAIN answeredAt' : p \in DOMAIN answeredAt /\ answeredAt'[p] = answeredAt[p]
    BY <1>1 DEF Restrict
  <2>2. ASSUME NEW p \in DOMAIN responses, responses[p] > now + 1
        PROVE  p \in DOMAIN answeredAt' /\ responses[p] = answeredAt'[p] + ResponseTtl
    <3>1. responses[p] \in Nat /\ responses[p] > now
      BY <1>1, <2>2, Numbers DEF PInv, CacheKept
    <3>2. p \in DOMAIN answeredAt /\ responses[p] = answeredAt[p] + ResponseTtl
      BY <3>1 DEF PInv, CacheKept
    <3> QED BY <2>1, <2>2, <3>1, <3>2, <1>1
  <2> QED BY <1>1, <2>1, <2>2 DEF PInv, CacheKept
<1> QED BY <1>1, <1>2, <1>3, <1>5, <1>6, <1>7 DEF PInv

LEMMA ProviderNextInv == PInv /\ [ProviderNext]_providerVars => PInv'
<1> SUFFICES ASSUME PInv, [ProviderNext]_providerVars PROVE PInv'
  OBVIOUS
<1>1. CASE UNCHANGED providerVars
  <2>1. WindowsKept' /\ PermitsExact' /\ CacheKept'
    BY <1>1, CacheStands DEF providerVars, PInv, WindowsKept, PermitsExact
  <2> QED BY <1>1, <2>1 DEF providerVars, PInv
<1>2. ASSUME NEW c \in Callers, CallStep(c) PROVE PInv'
  <2>1. ASSUME NEW found \in Credential(call[c].kind), Prepare(c, found) PROVE PInv'
    <3>1. found \in BOOLEAN
      BY DEF Credential
    <3> QED BY <2>1, <3>1, PrepareInv
  <2> QED BY <1>2, <2>1, LookupInv, StampInv, AcquireInv, ReleaseInv, SendInv, StoreInv DEF CallStep
<1>3. ASSUME NEW c \in Callers,
             \/ \E a \in Adapters, p \in Prompts : Generate(c, a, p)
             \/ Stream(c) \/ Embed(c) \/ Local(c)
      PROVE  PInv'
  BY <1>3, BeginsInv DEF Stream, Embed, Local
<1> QED BY <1>1, <1>2, <1>3, ProviderTickInv DEF ProviderNext

LEMMA ProviderAlways == ProviderSpec => []PInv
BY ProviderInitInv, ProviderNextInv, PTL DEF ProviderSpec

\* Calls, windows and cache keep their types; the cache never outgrows its bound
\* (provider.py, rate_limit.py, cache.py).
THEOREM ProviderTypeCorrect == ProviderSpec => []ProviderTypeOK
<1>1. PInv => ProviderTypeOK
  BY DEF PInv, CacheKept, ProviderTypeOK, Range
<1> QED BY <1>1, ProviderAlways, PTL

\* No permit of an adapter leaks or is given back twice, and no minute, less the time a
\* thread may be held up, sees more requests or tokens admitted than the limiter allows
\* (rate_limit.py:32-50).
THEOREM LimiterHolds == ProviderSpec => []LimiterKept
<1>1. PInv => LimiterKept
  <2> SUFFICES ASSUME PInv, NEW a \in Adapters
               PROVE  Len(admitted[a]) <= Rpm /\ TokensIn(admitted[a]) <= Tpm
    BY DEF LimiterKept, Paced, PInv
  <2>1. PICK w \in Seq(Admission), d \in Seq(Admission) :
          w = window[a] /\ d = admitted[a] /\ Traces(w, d) /\ Within(w)
    BY DEF PInv, WindowsKept
  <2>2. PICK k \in Nat : /\ Len(d) + k = Len(w)
                         /\ \A i \in 1..Len(d) : w[k + i].tokens = d[i].tokens
    BY <2>1 DEF Traces
  <2>3. Len(d) \in Nat /\ Len(w) \in Nat /\ TokensIn(d) \in Nat /\ TokensIn(w) \in Nat
    BY TokensType
  <2>4. Len(d) + k <= Len(w)
    BY <2>2, <2>3
  <2>5. \A i \in 1..Len(d) : d[i].tokens = w[k + i].tokens
    BY <2>2
  <2>6. Len(d) <= Len(w) /\ TokensIn(d) <= TokensIn(w)
    BY <2>4, <2>5, LessLeft
  <2> QED BY <2>1, <2>3, <2>6, Numbers DEF Within
<1> QED BY <1>1, ProviderAlways, PTL

\* What generate answers from the cache, the provider answered less than ResponseTtl ago
\* (provider.py:87-90, cache.py:26-45).
THEOREM CacheAnswersRecent == ProviderSpec => CachedIsRecent
<1> DEFINE Recent == \A c \in Callers : call[c].at = "lookup" /\ call'[c].at = "idle"
                          => call[c].prompt \in DOMAIN answeredAt
<1>1. ASSUME PInv, [ProviderNext]_providerVars PROVE [Recent]_providerVars
  <2> SUFFICES ASSUME ProviderNext, NEW c \in Callers, call[c].at = "lookup", call'[c].at = "idle"
               PROVE  call[c].prompt \in DOMAIN answeredAt
    BY <1>1
  <2>1. call \in [Callers -> ProviderCall] /\ call'[c] # call[c]
    BY <1>1 DEF PInv
  <2>2. \A d \in Callers : \A r : call' = [call EXCEPT ![d] = r] => d = c
    BY <2>1
  <2>3. ASSUME ProviderTick PROVE FALSE
    BY <2>1, <2>3 DEF ProviderTick
  <2>4. ASSUME NEW d \in Callers,
               \/ \E a \in Adapters, p \in Prompts : Generate(d, a, p)
               \/ \E kind \in Kinds : CallDirectly(d, kind)
        PROVE  FALSE
    BY <2>2, <2>4 DEF Generate, CallDirectly
  <2>5. ASSUME NEW d \in Callers, Stamp(d) \/ Acquire(d) \/ Release(d) PROVE FALSE
    <3>1. call[d].at # "lookup" /\ d # c
      BY <2>5 DEF Stamp, Acquire, Release
    <3> QED BY <2>1, <2>5, <3>1 DEF Stamp, Acquire, Release
  <2>6. ASSUME NEW d \in Callers, NEW found, Prepare(d, found) PROVE FALSE
    <3>1. d # c
      BY <2>6 DEF Prepare
    <3> QED BY <2>1, <2>6, <3>1 DEF Prepare, After, At
  <2>7. ASSUME NEW d \in Callers, NEW outcome, Send(d, outcome) \/ SendStream(d, outcome)
        PROVE  FALSE
    <3>1. d # c
      BY <2>7 DEF Send, SendStream
    <3> QED BY <2>1, <2>7, <3>1 DEF Send, SendStream, After
  <2>8. ASSUME NEW d \in Callers, NEW parsed, Store(d, parsed) PROVE FALSE
    <3>1. d # c
      BY <2>8 DEF Store
    <3> QED BY <2>1, <2>8, <3>1 DEF Store, At
  <2>9. PICK d \in Callers : Lookup(d)
    BY <2>3, <2>4, <2>5, <2>6, <2>7, <2>8 DEF ProviderNext, CallStep, Stream, Embed, Local, Kinds
  <2>10. c = d
    BY <2>1, <2>9 DEF Lookup, At
  <2>11. Live(call[c].prompt)
    <3>1. CASE At(c, "stamp")
      <4>1. call'[c].at = "stamp"
        BY <1>1, <2>1, <3>1, CallFields DEF At, PInv, ProviderCall
      <4> QED BY <4>1
    <3> QED BY <2>9, <2>10, <3>1 DEF Lookup
  <2> QED BY <1>1, <2>11 DEF Live, PInv, CacheKept
<1> HIDE DEF Recent
<1> QED BY <1>1, ProviderAlways, PTL DEF ProviderSpec, CachedIsRecent, Recent

-----------------------------------------------------------------------------
(***************************************************************************)
(* ResearchRun: the inductive invariant                                    *)
(***************************************************************************)
Request == [pc : {"idle", "done"}] \cup [pc : {"checked"}, seen : ResearchStatus]
Worker == {IdleWorker} \cup
          [pc : {"locked", "taken"}, job : JobIds] \cup
          [pc : {"running"}, job : JobIds, study : Studies] \cup
          [pc : {"judging"}, job : JobIds, failed : BOOLEAN]

RowsKept ==
    /\ research \in Research
    /\ job \in Seq(ResearchJob)
    /\ enqueuer \in [Enqueuers -> Request]
    /\ qworker \in [QueueWorkers -> Worker]
    /\ study \in [Studies -> Study \cup {NotStudied}]
    /\ response \in [Studies -> Seq(Response)]
    /\ deaths \in 0..MaxDeaths

Undecided == {q \in Enqueuers : enqueuer[q].pc # "done"}

\* The queue: what is PENDING was never taken, what is locked is locked by its worker.
QueueKept ==
    /\ Len(job) + Cardinality(Undecided) <= Cardinality(Enqueuers)
    /\ \A j \in DOMAIN job :
        /\ job[j].attempts <= 1
        /\ job[j].state = "PENDING" => job[j].attempts = 0
        /\ \A w \in QueueWorkers : job[j].lock = w =>
              job[j].state = "PENDING" /\ Holds(w, j) /\ qworker[w].pc = "locked"

\* A worker has its job to itself.
WorkersKept ==
    \A w \in QueueWorkers, j \in JobIds :
        Holds(w, j) =>
            /\ j \in DOMAIN job
            /\ IF qworker[w].pc = "locked" THEN job[j].lock = w ELSE job[j].state = "RUNNING"
            /\ \A v \in QueueWorkers : Holds(v, j) => v = w
            /\ \A r \in Studies : qworker[w].pc = "running" /\ qworker[w].study = r =>
                  study[r] # NotStudied /\ study[r].job = j

\* A job has one run at most, and a worker that waits for it while it is in progress.
RunsKept ==
    \A r \in Studies, j \in JobIds :
        study[r] # NotStudied /\ study[r].job = j =>
            /\ j \in DOMAIN job /\ job[j].state # "PENDING"
            /\ \A s \in Studies : study[s] # NotStudied /\ study[s].job = j => s = r
            /\ \A w \in QueueWorkers : Holds(w, j) => qworker[w].pc \in {"running", "judging"}
            /\ InProgress(r) => Awaited(r)

Scoring == {"counting", "reading", "looking", "writing"}
\* What a run has stored at each place of run_research.
Stored(s, resp) ==
    /\ s.pc \in {"none", "opening", "refused"} => resp = <<>>
    /\ s.pc = "executing" => Len(resp) < s.width
    /\ s.pc \in Working \cup Ended => Len(resp) <= s.width
    /\ s.pc \in {"extracting", "reloading"} \cup Scoring => Len(resp) > 0
    /\ s.pc = "extracting" => resp[Len(resp)].status = "NORMALIZED"
    /\ s.pc = "reloading" => resp[Len(resp)].status = "FAILED"
    /\ s.pc \in {"finishing", "finished"} => Len(resp) = s.width

ResponsesKept == IsFiniteSet(Responses) /\ \A r \in Studies : Stored(study[r], response[r])

\* A run that has the research to itself sees what is stored, and so does its worker.
Relies(r) == InProgress(r) \/ (Awaited(r) /\ study[r].pc = "finished")
AloneKept ==
    \A r \in Studies :
        study[r] # NotStudied /\ study[r].alone /\ Relies(r) =>
            /\ \A s \in Studies : s # r => ~InProgress(s)
            /\ research.status = study[r].seen
FinishedKept == \A r \in Studies : study[r].pc = "finished" => study[r].seen = Verdict(r)
JudgedKept ==
    \A w \in QueueWorkers, r \in Studies :
        /\ qworker[w].pc = "judging"
        /\ study[r].pc = "finished" /\ study[r].alone /\ study[r].job = qworker[w].job
        => qworker[w].failed = (Verdict(r) = "FAILED")

\* Who will yet write the status of a research that is ACTIVE, or was kept from it.
Vouching(s, awaited) ==
    \/ s.pc = "opening"
    \/ s.pc \in Working /\ s.seen = "ACTIVE"
    \/ s.pc \in {"broken", "dead"}
    \/ s.pc = "raised" /\ s.job = 0
    \/ s.pc \in Raised /\ s.seen # "FAILED" /\ awaited
Vouches(r) == Vouching(study[r], Awaited(r))
Waits(j) ==
    \/ job[j].state = "PENDING"
    \/ job[j].state = "RUNNING" /\ \A w \in QueueWorkers : Holds(w, j) => qworker[w].pc = "taken"
ActiveKept ==
    research.status = "ACTIVE" =>
        (\E j \in DOMAIN job : Waits(j)) \/ (\E r \in Studies : Vouches(r))

\* total_tasks is what some run that opened asked for.
Opened(s) == study[s].pc \notin {"none", "opening", "refused"}
Bounded(n, widths) == n = 0 \/ \E k \in widths : n <= k
OpenWidths == {study[s].width : s \in {s \in Studies : Opened(s)}}
TotalsKept ==
    /\ Bounded(research.total, OpenWidths)
    /\ \A r \in Studies : study[r] # NotStudied => Bounded(study[r].total, OpenWidths)

Processed == \A p \in Responses : response[p[1]][p[2]].status = "PROCESSED"
NoneLost == \A r \in Studies : study[r].pc \notin {"raised", "broken", "dead"}
AllAlone == \A r \in Studies : study[r] # NotStudied => study[r].alone
Scored == research.score > 0 /\ (AllAlone => research.score = Cardinality(Responses))
\* Who will yet score, and what it found.
WillScore(r) == study[r].pc \in {"opening", "executing"} \cup Scoring
FoundKept ==
    \A r \in Studies : study[r].pc \in {"looking", "writing"} =>
        study[r].found > 0 /\ (AllAlone => study[r].found = Cardinality(Responses))
ScoreKept ==
    Responses # {} /\ Processed /\ NoneLost => Scored \/ \E r \in Studies : WillScore(r)

QueueInv == QueueKept /\ WorkersKept /\ RunsKept
DataInv == ResponsesKept /\ FinishedKept /\ TotalsKept /\ FoundKept /\ ScoreKept
StatusInv == AloneKept /\ JudgedKept /\ JobVerdict /\ ActiveKept
RInv == RowsKept /\ QueueInv /\ DataInv /\ StatusInv

-----------------------------------------------------------------------------
LEMMA ResearchNumbers ==
    /\ MaxRuns \in Nat /\ MaxDeaths \in Nat /\ IsFiniteSet(Enqueuers) /\ "none" \notin QueueWorkers
    /\ Widths.queued \subseteq Nat \ {0} /\ Widths.direct \subseteq Nat \ {0}
    /\ Cardinality(Enqueuers) \in Nat /\ Studies \subseteq Nat \ {0} /\ JobIds \subseteq Nat \ {0}
BY ResearchAssumption, FS_CardinalityType DEF ResearchAssumption, Studies, JobIds

LEMMA StudyIs ==
    ASSUME RowsKept, NEW r \in Studies
    PROVE  /\ study[r] # NotStudied <=> study[r].pc # "none"
           /\ study[r] # NotStudied => study[r] \in Study
           /\ study[r].pc \in {"none"} \cup Working \cup Ended
BY DEF RowsKept, Study, NotStudied, Working, Ended

LEMMA WorkerIs ==
    ASSUME NEW x \in Worker
    PROVE  /\ x # IdleWorker <=> x.pc # "idle"
           /\ x.pc \in {"idle", "locked", "taken", "running", "judging"}
           /\ x # IdleWorker => x.job \in JobIds
           /\ x.pc = "running" => x.study \in Studies
           /\ x.pc = "judging" => x.failed \in BOOLEAN
           /\ x.pc = "locked" => [x EXCEPT !.pc = "taken"] = [pc |-> "taken", job |-> x.job]
BY DEF Worker, IdleWorker

\* A run that others may only have disturbed.
Same(a, b) ==
    /\ a = NotStudied <=> b = NotStudied
    /\ b.pc = a.pc /\ b.job = a.job /\ b.width = a.width /\ b.seen = a.seen /\ b.total = a.total
    /\ b.found = a.found /\ b.row = a.row
    /\ b.alone \in BOOLEAN => (b.alone => a.alone)

LEMMA DisturbedIs ==
    ASSUME RowsKept, NEW r \in Studies
    PROVE  /\ Disturbed[r] \in Study \cup {NotStudied}
           /\ Same(study[r], Disturbed[r])
           /\ Relies(r) => ~Disturbed[r].alone
<1> PICK s : s = study[r]
  OBVIOUS
<1>1. CASE ~Relies(r)
  <2>1. Disturbed[r] = s
    BY <1>1 DEF Disturbed, Relies
  <2> QED BY <1>1, <2>1 DEF Same, RowsKept
<1>2. CASE Relies(r)
  <2>1. s \in Study /\ s # NotStudied
    BY <1>2, StudyIs DEF Relies, InProgress, Working
  <2>2. PICK t : t = [s EXCEPT !.alone = FALSE]
    OBVIOUS
  <2>3. t \in Study /\ t.alone = FALSE
    BY <2>1, <2>2 DEF Study
  <2>4. t # NotStudied
    BY <2>3 DEF Study, NotStudied, Working, Ended
  <2>5. Disturbed[r] = t
    BY <1>2, <2>2 DEF Disturbed, Relies
  <2> QED BY <2>1, <2>2, <2>3, <2>4, <2>5 DEF Same, Study
<1> QED BY <1>1, <1>2

LEMMA DisturbedAll ==
    RowsKept => /\ Disturbed \in [Studies -> Study \cup {NotStudied}]
                /\ \A r \in Studies : Same(study[r], Disturbed[r])
<1>1. RowsKept => \A r \in Studies : /\ Disturbed[r] \in Study \cup {NotStudied}
                                     /\ Same(study[r], Disturbed[r])
  BY DisturbedIs
<1>2. Disturbed = [r \in Studies |-> Disturbed[r]]
  BY DEF Disturbed
<1> QED BY <1>1, <1>2

-----------------------------------------------------------------------------
(***************************************************************************)
(* The data while no run moves                                             *)
(***************************************************************************)
LEMMA RestsData ==
    ASSUME RInv, \A r \in Studies : Same(study[r], study'[r]) /\ study'[r] \in Study \cup {NotStudied},
           research'.total = research.total, research'.score = research.score,
           response' = response
    PROVE  DataInv'
<1>1. Responses' = Responses /\ Processed' = Processed
  BY DEF Responses, Processed
<1>2. ResponsesKept'
  BY <1>1 DEF RInv, DataInv, ResponsesKept, Same, Stored
<1>3. FinishedKept'
  BY DEF RInv, DataInv, FinishedKept, Same, Verdict
<1>4. TotalsKept'
  <2>1. OpenWidths' = OpenWidths
    BY DEF OpenWidths, Opened, Same
  <2> QED BY <2>1 DEF RInv, DataInv, TotalsKept, Same
<1>5. AllAlone' => AllAlone
  BY DEF AllAlone, Same, Study
<1>6. FoundKept'
  BY <1>1, <1>5 DEF RInv, DataInv, FoundKept, Same
<1>7. ScoreKept'
  <2>1. NoneLost' = NoneLost /\ \A r \in Studies : WillScore(r)' = WillScore(r)
    BY DEF NoneLost, WillScore, Same
  <2>2. Scored => Scored'
    BY <1>1, <1>5 DEF Scored
  <2> QED BY <1>1, <2>1, <2>2 DEF RInv, DataInv, ScoreKept
<1> QED BY <1>2, <1>3, <1>4, <1>6, <1>7 DEF DataInv

-----------------------------------------------------------------------------
(***************************************************************************)
(* A run takes a step                                                      *)
(***************************************************************************)
RunTakes(r, t) ==
    /\ r \in Studies /\ t \in Study /\ InProgress(r)
    /\ t.job = study[r].job /\ t.width = study[r].width /\ t.alone = study[r].alone
    /\ t.pc \notin {"opening", "refused"}
    /\ study'[r] = t
    /\ study' \in [Studies -> Study \cup {NotStudied}]
    /\ \A x \in Studies : x # r => Same(study[x], study'[x]) /\ response'[x] = response[x]
    /\ t.pc = "finished" => response'[r] = response[r]
    /\ response' \in [Studies -> Seq(Response)]
    /\ research' \in Research

LEMMA RunTakesQueue ==
    ASSUME RInv, NEW r, NEW t, RunTakes(r, t), UNCHANGED <<job, enqueuer, qworker>>
    PROVE  QueueInv'
<1>1. QueueKept'
  BY DEF RInv, QueueInv, QueueKept, Undecided, Holds
<1>2. \A x \in Studies : /\ study'[x] = NotStudied <=> study[x] = NotStudied
                         /\ study'[x].job = study[x].job
                         /\ InProgress(x)' => InProgress(x)
                         /\ Awaited(x)' = Awaited(x)
  <2>1. t # NotStudied /\ study[r] # NotStudied
    BY StudyIs DEF RunTakes, RInv, InProgress, Working, Study, NotStudied, Ended
  <2> QED BY <2>1 DEF RunTakes, Same, InProgress, Awaited
<1>3. WorkersKept'
  BY <1>2 DEF RInv, QueueInv, WorkersKept, Holds
<1>4. RunsKept'
  BY <1>2 DEF RInv, QueueInv, RunsKept, Holds
<1> QED BY <1>1, <1>3, <1>4 DEF QueueInv

LEMMA RunTakesFields ==
    ASSUME RInv, NEW r, NEW t, RunTakes(r, t)
    PROVE  /\ t # NotStudied /\ study[r] # NotStudied /\ study[r].pc \in Working
           /\ \A x \in Studies : /\ study'[x] = NotStudied <=> study[x] = NotStudied
                                 /\ study'[x].job = study[x].job
                                 /\ study'[x].width = study[x].width
                                 /\ InProgress(x)' => InProgress(x)
           /\ AllAlone' => AllAlone
<1>1. t # NotStudied /\ study[r] # NotStudied /\ study[r].pc \in Working
  BY StudyIs DEF RunTakes, RInv, InProgress, Working, Study, NotStudied, Ended
<1>2. \A x \in Studies : /\ study'[x] = NotStudied <=> study[x] = NotStudied
                         /\ study'[x].job = study[x].job
                         /\ study'[x].width = study[x].width
                         /\ InProgress(x)' => InProgress(x)
  BY <1>1 DEF RunTakes, Same, InProgress
<1>3. \A x \in Studies : study'[x] # NotStudied /\ study'[x].alone => study[x].alone
  BY <1>1 DEF RunTakes, Same, Study
<1> QED BY <1>1, <1>2, <1>3 DEF AllAlone

LEMMA RunTakesData ==
    ASSUME RInv, NEW r, NEW t, RunTakes(r, t),
           IsFiniteSet(Responses'), Stored(t, response'[r]),
           t.pc = "finished" => t.seen = Verdict(r),
           research'.total \in {research.total, t.width},
           t.total \in {study[r].total, research.total, t.width},
           t.pc \in {"looking", "writing"} =>
               t.found > 0 /\ (AllAlone => t.found = Cardinality(Responses')),
           ScoreKept'
    PROVE  DataInv'
<1>1. ResponsesKept'
  BY DEF RInv, DataInv, ResponsesKept, RunTakes, Same, Stored
<1>2. FinishedKept'
  <2>1. \A x \in Studies : study'[x].pc = "finished" => response'[x] = response[x]
    BY DEF RunTakes
  <2>2. \A x \in Studies : study'[x].pc = "finished" => Verdict(x)' = Verdict(x)
    BY <2>1 DEF Verdict
  <2>3. \A x \in Studies : study'[x].pc = "finished" => study'[x].seen = Verdict(x)
    BY DEF RInv, DataInv, FinishedKept, RunTakes, Same
  <2> QED BY <2>2, <2>3 DEF FinishedKept
<1>3. TotalsKept'
  <2>1. r \in Studies /\ t.width \in Nat /\ t.pc \in Working \cup Ended /\ t.pc # "opening"
    BY DEF RunTakes, Study
  <2>2. Opened(r)'
    BY <2>1, RunTakesFields DEF Opened, RunTakes, InProgress, Working, Ended
  <2>3. OpenWidths \subseteq OpenWidths'
    <3>1. \A x \in Studies : Opened(x) => Opened(x)'
      BY <2>2 DEF Opened, RunTakes, Same
    <3> QED BY <3>1, RunTakesFields DEF OpenWidths
  <2>4. t.width \in OpenWidths'
    BY <2>1, <2>2 DEF OpenWidths, RunTakes
  <2>5. \A n : Bounded(n, OpenWidths) => Bounded(n, OpenWidths')
    BY <2>3 DEF Bounded
  <2>6. Bounded(t.width, OpenWidths')
    BY <2>1, <2>4 DEF Bounded
  <2>7. Bounded(research.total, OpenWidths) /\ Bounded(study[r].total, OpenWidths)
    BY <2>1, RunTakesFields DEF RInv, DataInv, TotalsKept
  <2>8. Bounded(research'.total, OpenWidths') /\ Bounded(t.total, OpenWidths')
    BY <2>5, <2>6, <2>7
  <2>9. ASSUME NEW x \in Studies, study'[x] # NotStudied
        PROVE  Bounded(study'[x].total, OpenWidths')
    <3>1. CASE x = r
      BY <2>8, <3>1 DEF RunTakes
    <3>2. CASE x # r
      <4>1. Bounded(study[x].total, OpenWidths) /\ study'[x].total = study[x].total
        BY <2>9, <3>2, RunTakesFields DEF RInv, DataInv, TotalsKept, RunTakes, Same
      <4> QED BY <2>5, <4>1
    <3> QED BY <3>1, <3>2
  <2> QED BY <2>8, <2>9 DEF TotalsKept
<1>4. FoundKept'
  <2> SUFFICES ASSUME NEW x \in Studies, study'[x].pc \in {"looking", "writing"}
               PROVE  study'[x].found > 0 /\ (AllAlone' => study'[x].found = Cardinality(Responses'))
    BY DEF FoundKept
  <2>1. CASE x = r
    BY <2>1, RunTakesFields DEF RunTakes
  <2>2. CASE x # r
    <3>1. study[x].pc \in {"looking", "writing"} /\ study'[x].found = study[x].found
      BY <2>2 DEF RunTakes, Same
    <3>2. InProgress(x) /\ InProgress(r) /\ study[x] # NotStudied /\ r \in Studies
      BY <3>1, StudyIs DEF InProgress, Working, RunTakes, RInv
    <3>3. ~AllAlone
      BY <2>2, <3>2 DEF RInv, StatusInv, AloneKept, Relies, AllAlone
    <3> QED BY <3>1, <3>3, RunTakesFields DEF RInv, DataInv, FoundKept
  <2> QED BY <2>1, <2>2
<1> QED BY <1>1, <1>2, <1>3, <1>4 DEF DataInv

LEMMA RunTakesStatus ==
    ASSUME RInv, NEW r, NEW t, RunTakes(r, t), UNCHANGED <<job, enqueuer, qworker>>,
           study[r].alone => research'.status = t.seen,
           research'.status = "ACTIVE" =>
              \/ Vouching(t, Awaited(r))
              \/ research.status = "ACTIVE" /\ ~Vouches(r),
           t.pc = "finished" => t.seen = Verdict(r)
    PROVE  StatusInv'
<1>1. \A x \in Studies : Awaited(x)' = Awaited(x)
  BY DEF Awaited
<1>2. AloneKept'
  <2> SUFFICES ASSUME NEW x \in Studies, study'[x] # NotStudied, study'[x].alone, Relies(x)'
               PROVE  /\ \A s \in Studies : s # x => ~InProgress(s)'
                      /\ research'.status = study'[x].seen
    BY DEF AloneKept
  <2>1. CASE x = r
    <3>1. study[r].alone /\ Relies(r)
      BY <2>1 DEF RunTakes, Relies
    <3> QED BY <2>1, <3>1, RunTakesFields DEF RInv, StatusInv, AloneKept, RunTakes
  <2>2. CASE x # r
    <3>1. study[x].alone /\ Relies(x) /\ study'[x].seen = study[x].seen
      BY <1>1, <2>2 DEF RunTakes, Same, Relies, InProgress, Study
    <3>2. InProgress(r) /\ r \in Studies
      BY DEF RunTakes
    <3> QED BY <2>2, <3>1, <3>2, RunTakesFields DEF RInv, StatusInv, AloneKept
  <2> QED BY <2>1, <2>2
<1>3. \A x \in Studies : study'[x].pc = "finished" => Verdict(x)' = Verdict(x)
  BY DEF Verdict, RunTakes
<1>4. \A x \in Studies :
          study'[x].pc = "finished" /\ x # r => study[x].pc = "finished"
              /\ study'[x].job = study[x].job /\ (study'[x].alone => study[x].alone)
  BY StudyIs DEF RunTakes, Same, Study, RInv, NotStudied
<1>5. InProgress(r) /\ study[r].job # 0 =>
        \E w \in QueueWorkers : Holds(w, study[r].job) /\ qworker[w].pc = "running"
  <2> SUFFICES ASSUME InProgress(r), study[r].job # 0
               PROVE  \E w \in QueueWorkers : Holds(w, study[r].job) /\ qworker[w].pc = "running"
    OBVIOUS
  <2>1. Awaited(r) /\ r \in Studies /\ study[r].job \in JobIds
    BY RunTakesFields, StudyIs DEF RInv, QueueInv, RunsKept, RunTakes, Study
  <2>2. PICK w \in QueueWorkers : qworker[w].pc = "running" /\ qworker[w].study = r
    BY <2>1 DEF Awaited
  <2>3. qworker[w] # IdleWorker
    BY <2>2 DEF IdleWorker
  <2>4. qworker[w] \in Worker /\ qworker[w].job \in JobIds
    BY <2>3, WorkerIs DEF RInv, RowsKept
  <2> QED BY <2>1, <2>2, <2>3, <2>4 DEF RInv, QueueInv, WorkersKept, Holds
<1>6. JudgedKept'
  <2> SUFFICES ASSUME NEW w \in QueueWorkers, NEW x \in Studies, qworker[w].pc = "judging",
                      study'[x].pc = "finished", study'[x].alone, study'[x].job = qworker[w].job
               PROVE  qworker[w].failed = (Verdict(x)' = "FAILED")
    BY DEF JudgedKept
  <2>1. CASE x = r
    <3>1. qworker[w].job # 0 /\ qworker[w] # IdleWorker /\ qworker[w].job \in JobIds
      BY WorkerIs, ResearchNumbers DEF RInv, RowsKept
    <3>2. PICK v \in QueueWorkers : Holds(v, qworker[w].job) /\ qworker[v].pc = "running"
      BY <1>5, <2>1, <3>1 DEF RunTakes
    <3>3. v = w
      BY <3>1, <3>2 DEF RInv, QueueInv, WorkersKept, Holds
    <3> QED BY <3>2, <3>3
  <2>2. CASE x # r
    BY <1>3, <1>4, <2>2 DEF RInv, StatusInv, JudgedKept
  <2> QED BY <2>1, <2>2
<1>7. JobVerdict'
  <2> SUFFICES ASSUME NEW x \in Studies, study'[x].pc = "finished", study'[x].job # 0, study'[x].alone,
                      NEW answered,
                      answered = (/\ Len(response'[x]) = study'[x].width
                                  /\ \A i \in DOMAIN response'[x] : response'[x][i].answer)
               PROVE  /\ job[study'[x].job].state = "COMPLETED" => answered
                      /\ job[study'[x].job].state = "FAILED" => ~answered
    BY DEF JobVerdict
  <2>1. CASE x = r
    <3>1. PICK v \in QueueWorkers : Holds(v, study[r].job) /\ qworker[v].pc = "running"
      BY <1>5, <2>1 DEF RunTakes
    <3>2. job[study[r].job].state = "RUNNING"
      <4>1. qworker[v] \in Worker /\ qworker[v].job \in JobIds
        BY <3>1, WorkerIs DEF RInv, RowsKept, Holds
      <4> QED BY <3>1, <4>1 DEF RInv, QueueInv, WorkersKept, Holds
    <3> QED BY <2>1, <3>2 DEF RunTakes
  <2>2. CASE x # r
    <3>1. response'[x] = response[x] /\ study'[x].width = study[x].width
      BY <2>2, RunTakesFields DEF RunTakes
    <3>2. study[x].pc = "finished" /\ study[x].job = study'[x].job /\ study[x].alone
      BY <1>4, <2>2, RunTakesFields
    <3> QED BY <3>1, <3>2 DEF RInv, StatusInv, JobVerdict
  <2> QED BY <2>1, <2>2
<1>8. ActiveKept'
  <2> SUFFICES ASSUME research'.status = "ACTIVE"
               PROVE  (\E j \in DOMAIN job : Waits(j)') \/ (\E x \in Studies : Vouches(x)')
    BY DEF ActiveKept
  <2>1. \A j \in DOMAIN job : Waits(j)' = Waits(j)
    BY DEF Waits, Holds
  <2>2. \A x \in Studies : x # r => Vouches(x)' = Vouches(x)
    BY <1>1 DEF RunTakes, Same, Vouches, Vouching
  <2>3. Vouches(r)' = Vouching(t, Awaited(r)) /\ r \in Studies
    BY <1>1 DEF RunTakes, Vouches
  <2> QED BY <2>1, <2>2, <2>3 DEF RInv, StatusInv, ActiveKept
<1> QED BY <1>2, <1>6, <1>7, <1>8 DEF StatusInv

LEMMA RunTakesInv ==
    ASSUME RInv, NEW r, NEW t, RunTakes(r, t), UNCHANGED <<job, enqueuer, qworker>>,
           deaths' \in 0..MaxDeaths,
           IsFiniteSet(Responses'), Stored(t, response'[r]),
           t.pc = "finished" => t.seen = Verdict(r),
           research'.total \in {research.total, t.width},
           t.total \in {study[r].total, research.total, t.width},
           t.pc \in {"looking", "writing"} =>
               t.found > 0 /\ (AllAlone => t.found = Cardinality(Responses')),
           ScoreKept',
           study[r].alone => research'.status = t.seen,
           research'.status = "ACTIVE" =>
              \/ Vouching(t, Awaited(r))
              \/ research.status = "ACTIVE" /\ ~Vouches(r)
    PROVE  RInv'
<1>1. RowsKept'
  BY DEF RInv, RowsKept, RunTakes
<1> QED BY <1>1, RunTakesQueue, RunTakesData, RunTakesStatus DEF RInv

ResponsesListed ==
    \A p : p \in Responses <=> \E r \in Studies : \E i \in 1..Len(response[r]) : p = <<r, i>>

LEMMA ResponsesList == RowsKept => ResponsesListed
<1>1. RowsKept => \A r \in Studies : DOMAIN response[r] = 1..Len(response[r])
  BY DEF RowsKept
<1> QED BY <1>1 DEF ResponsesListed, Responses

LEMMA ResponsesAre ==
    ASSUME RowsKept
    PROVE  \A r \in Studies : /\ response[r] \in Seq(Response) /\ Len(response[r]) \in Nat
                              /\ DOMAIN response[r] = 1..Len(response[r])
                              /\ \A i \in 1..Len(response[r]) : <<r, i>> \in Responses
BY ResponsesList DEF RowsKept, ResponsesListed

\* A run in progress, as its next step finds it.
LEMMA RunFacts ==
    ASSUME RInv, NEW r \in Studies, InProgress(r)
    PROVE  /\ study[r] \in Study /\ study[r] # NotStudied
           /\ response[r] \in Seq(Response) /\ Len(response[r]) \in Nat
           /\ study[r].width \in Nat \ {0} /\ Len(response[r]) <= study[r].width
           /\ study[r].alone => research.status = study[r].seen
           /\ Stored(study[r], response[r])
           /\ research \in Research /\ study \in [Studies -> Study \cup {NotStudied}]
           /\ IsFiniteSet(Responses)
<1>1. study[r] \in Study /\ study[r] # NotStudied
  BY StudyIs DEF RInv, InProgress, Working
<1>2. Stored(study[r], response[r]) /\ IsFiniteSet(Responses)
  BY DEF RInv, DataInv, ResponsesKept
<1>3. Len(response[r]) <= study[r].width
  BY <1>2 DEF Stored, InProgress
<1>4. study[r].alone => research.status = study[r].seen
  BY <1>1 DEF RInv, StatusInv, AloneKept, Relies
<1> QED BY <1>1, <1>2, <1>3, <1>4 DEF RInv, RowsKept, Study

\* The step changes the run alone.
LEMMA RunAlone ==
    ASSUME RInv, NEW r \in Studies, InProgress(r), NEW t \in Study,
           study' = [study EXCEPT ![r] = t],
           t.job = study[r].job, t.width = study[r].width, t.alone = study[r].alone,
           t.pc \notin {"opening", "refused"}, research' \in Research,
           \/ response' = response
           \/ /\ t.pc # "finished"
              /\ \E resp \in Seq(Response) : response' = [response EXCEPT ![r] = resp]
    PROVE  /\ RunTakes(r, t)
           /\ \A x \in Studies : x # r => WillScore(x)' = WillScore(x)
           /\ \A x \in Studies : x # r => study'[x] = study[x]
           /\ NoneLost' => NoneLost /\ t.pc \notin {"raised", "broken", "dead"}
           /\ AllAlone' = AllAlone
<1>1. study'[r] = t /\ \A x \in Studies : x # r => study'[x] = study[x]
  BY RunFacts
<1>2. response' \in [Studies -> Seq(Response)] /\ \A x \in Studies : x # r => response'[x] = response[x]
  BY DEF RInv, RowsKept
<1>3. study' \in [Studies -> Study \cup {NotStudied}]
  BY RunFacts
<1>4. RunTakes(r, t)
  BY <1>1, <1>2, <1>3 DEF RunTakes, Same
<1>5. \A x \in Studies : x # r => WillScore(x)' = WillScore(x)
  BY <1>1 DEF WillScore
<1>6. NoneLost' => NoneLost /\ t.pc \notin {"raised", "broken", "dead"}
  BY <1>1 DEF NoneLost, InProgress, Working
<1>7. AllAlone' = AllAlone
  BY <1>1, <1>4, RunTakesFields DEF AllAlone
<1> QED BY <1>1, <1>4, <1>5, <1>6, <1>7

LEMMA OpenRunInv == ASSUME RInv, NEW r \in Studies, OpenRun(r) PROVE RInv'
<1>1. InProgress(r) /\ study[r].pc = "opening"
  BY DEF OpenRun, InProgress, Working
<1> PICK t : t = [study[r] EXCEPT !.pc = "executing", !.seen = "ACTIVE", !.total = study[r].width]
  OBVIOUS
<1>2. /\ t \in Study /\ t.pc = "executing" /\ t.seen = "ACTIVE" /\ t.total = t.width
      /\ t.job = study[r].job /\ t.width = study[r].width /\ t.alone = study[r].alone
  BY <1>1, RunFacts DEF Study, Working, ResearchStatus
<1>3. study' = [study EXCEPT ![r] = t] /\ response' = response
  BY DEF OpenRun
<1>4. /\ research' \in Research /\ research'.total = t.width
      /\ research'.status = IF study[r].seen = "ACTIVE" THEN research.status ELSE "ACTIVE"
  BY <1>1, <1>2, RunFacts DEF OpenRun, Written, Research, ResearchStatus
<1>5. RunTakes(r, t)
  BY <1>1, <1>2, <1>3, <1>4, RunAlone
<1>6. Stored(t, response'[r])
  <2>1. response[r] = <<>>
    BY <1>1, RunFacts DEF Stored
  <2> QED BY <1>1, <1>2, <1>3, <2>1, RunFacts DEF Stored, Scoring
<1>7. ScoreKept'
  BY <1>2, <1>5 DEF ScoreKept, WillScore, RunTakes
<1>8. IsFiniteSet(Responses')
  BY <1>1, <1>3, RunFacts DEF Responses
<1>9. study[r].alone => research'.status = t.seen
  BY <1>1, <1>2, <1>4, RunFacts
<1>10. Vouching(t, Awaited(r))
  BY <1>2 DEF Vouching, Working
<1>11. UNCHANGED <<job, enqueuer, qworker>> /\ deaths' \in 0..MaxDeaths
  BY DEF OpenRun, RInv, RowsKept
<1> QED BY <1>2, <1>4, <1>5, <1>6, <1>7, <1>8, <1>9, <1>10, <1>11, RunTakesInv

LEMMA ExecuteTaskInv ==
    ASSUME RInv, NEW r \in Studies, NEW answer \in BOOLEAN, ExecuteTask(r, answer)
    PROVE  RInv'
<1>1. InProgress(r) /\ study[r].pc = "executing"
  BY DEF ExecuteTask, InProgress, Working
<1> PICK t : t = [study[r] EXCEPT !.pc = "extracting"]
  OBVIOUS
<1>2. /\ t \in Study /\ t.pc = "extracting" /\ t.seen = study[r].seen /\ t.total = study[r].total
      /\ t.job = study[r].job /\ t.width = study[r].width /\ t.alone = study[r].alone
  BY <1>1, RunFacts DEF Study, Working
<1> PICK e : e = [status |-> "NORMALIZED", answer |-> answer]
  OBVIOUS
<1>3. e \in Response /\ e.status = "NORMALIZED"
  BY DEF Response, ProcessingStatus
<1> PICK resp : resp = Append(response[r], e)
  OBVIOUS
<1>4. /\ resp \in Seq(Response) /\ Len(resp) = Len(response[r]) + 1 /\ resp[Len(resp)] = e
  BY <1>1, <1>3, RunFacts, AppendProperties
<1>5. /\ study' = [study EXCEPT ![r] = t] /\ response' = [response EXCEPT ![r] = resp]
      /\ research' = research /\ UNCHANGED <<job, enqueuer, qworker, deaths>>
  BY DEF ExecuteTask, Go
<1>6. research' \in Research
  BY <1>1, <1>5, RunFacts
<1>7. RunTakes(r, t)
  BY <1>1, <1>2, <1>4, <1>5, <1>6, RunAlone
<1>8. response'[r] = resp /\ \A x \in Studies : x # r => response'[x] = response[x]
  BY <1>5 DEF RInv, RowsKept
<1>9. Stored(t, response'[r])
  BY <1>1, <1>2, <1>3, <1>4, <1>8, RunFacts DEF Stored, Scoring
<1>10. RowsKept'
  BY <1>5, <1>7 DEF RunTakes, RInv, RowsKept
<1>11. Responses' = Responses \cup {<<r, Len(resp)>>}
  <2>1. \A p : p \in Responses' <=> \E x \in Studies : \E i \in 1..Len(response'[x]) : p = <<x, i>>
    <3>1. (RowsKept => ResponsesListed)'
      BY ResponsesList, PTL
    <3> QED BY <1>10, <3>1 DEF ResponsesListed
  <2>2. \A p : p \in Responses <=> \E x \in Studies : \E i \in 1..Len(response[x]) : p = <<x, i>>
    BY ResponsesList DEF RInv, ResponsesListed
  <2>3. \A x \in Studies : \A i : i \in 1..Len(response'[x]) <=>
              i \in 1..Len(response[x]) \/ (x = r /\ i = Len(resp))
    <3> SUFFICES ASSUME NEW x \in Studies, NEW i
                 PROVE  i \in 1..Len(response'[x]) <=>
                          i \in 1..Len(response[x]) \/ (x = r /\ i = Len(resp))
      OBVIOUS
    <3>1. CASE x = r
      BY <1>1, <1>4, <1>8, <3>1, RunFacts
    <3>2. CASE x # r
      BY <1>8, <3>2
    <3> QED BY <3>1, <3>2
  <2> QED BY <2>1, <2>2, <2>3
<1>12. IsFiniteSet(Responses')
  BY <1>1, <1>11, RunFacts, FS_AddElement
<1>13. ~Processed'
  <2>1. <<r, Len(resp)>> \in Responses'
    BY <1>11
  <2>2. response'[r][Len(resp)].status = "NORMALIZED"
    BY <1>3, <1>4, <1>8
  <2> QED BY <2>1, <2>2 DEF Processed
<1>14. Vouching(t, Awaited(r)) \/ ~Vouches(r)
  BY <1>1, <1>2 DEF Vouches, Vouching, Working, Raised
<1>15. (study[r].alone => research'.status = t.seen) /\ research'.total = research.total
       /\ deaths' \in 0..MaxDeaths
  BY <1>1, <1>2, <1>5, RunFacts DEF RInv, RowsKept
<1>16. ScoreKept'
  BY <1>13 DEF ScoreKept
<1> QED BY <1>2, <1>5, <1>7, <1>9, <1>12, <1>14, <1>15, <1>16, RunTakesInv

\* The step stores nothing but, it may be, a score.
LEMMA RunMovesOn ==
    ASSUME RInv, NEW r \in Studies, InProgress(r), NEW t \in Study,
           study' = [study EXCEPT ![r] = t], response' = response,
           UNCHANGED <<job, enqueuer, qworker>>, deaths' \in 0..MaxDeaths,
           research' \in Research, research'.status = research.status, research'.total = research.total,
           t.job = study[r].job, t.width = study[r].width, t.alone = study[r].alone,
           t.seen \in {study[r].seen, research.status}, t.total \in {study[r].total, research.total},
           \/ t.pc \in {"dead", "broken"}
           \/ study[r].pc # "opening" /\ t.pc \in (Working \ {"opening"}) \cup {"raised"},
           Stored(t, response[r]),
           t.pc \in {"looking", "writing"} =>
               t.found > 0 /\ (AllAlone => t.found = Cardinality(Responses)),
           ScoreKept'
    PROVE  RInv'
<1>1. RunTakes(r, t)
  BY RunAlone DEF Working
<1>2. Responses' = Responses /\ IsFiniteSet(Responses)
  BY RunFacts DEF Responses
<1>3. study[r].alone => research'.status = t.seen
  BY RunFacts
<1>4. research'.status = "ACTIVE" =>
        Vouching(t, Awaited(r)) \/ (research.status = "ACTIVE" /\ ~Vouches(r))
  <2> SUFFICES ASSUME research.status = "ACTIVE", Vouches(r), t.pc \notin {"dead", "broken"}
               PROVE  Vouching(t, Awaited(r))
    BY DEF Vouching
  <2>1. study[r].seen = "ACTIVE"
    BY DEF Vouches, Vouching, InProgress, Working, Raised
  <2>2. t.seen = "ACTIVE"
    BY <2>1
  <2>3. t.job # 0 => Awaited(r)
    BY RunFacts DEF RInv, QueueInv, RunsKept, Study
  <2> QED BY <2>2, <2>3 DEF Vouching, Raised
<1> QED BY <1>1, <1>2, <1>3, <1>4, RunTakesInv DEF RunTakes, Working

LEMMA ExtractResponseInv ==
    ASSUME RInv, NEW r \in Studies, NEW status \in ProcessingStatus, ExtractResponse(r, status)
    PROVE  RInv'
<1>1. InProgress(r) /\ study[r].pc = "extracting" /\ status \in {"PROCESSED", "FAILED"}
  BY DEF ExtractResponse, InProgress, Working
<1> PICK t : t = [study[r] EXCEPT !.pc = IF status = "PROCESSED" THEN "counting" ELSE "reloading"]
  OBVIOUS
<1>2. /\ t \in Study /\ t.pc = (IF status = "PROCESSED" THEN "counting" ELSE "reloading")
      /\ t.seen = study[r].seen /\ t.total = study[r].total
      /\ t.job = study[r].job /\ t.width = study[r].width /\ t.alone = study[r].alone
  BY <1>1, RunFacts DEF Study, Working
<1>3. t.pc \in {"counting", "reloading"} /\ t.pc \notin {"opening", "refused", "finished", "looking", "writing"}
  BY <1>2
<1> PICK n \in Nat : n = Len(response[r])
  BY <1>1, RunFacts
<1>4. n > 0 /\ n <= study[r].width /\ response[r] \in Seq(Response) /\ n \in 1..n
  BY <1>1, RunFacts DEF Stored
<1> PICK e : e = [response[r][n] EXCEPT !.status = status]
  OBVIOUS
<1>5. e \in Response /\ e.status = status
  <2>1. response[r][n] \in Response
    BY <1>4, ElementOfSeq
  <2> QED BY <2>1 DEF Response
<1> PICK resp : resp = [response[r] EXCEPT ![n] = e]
  OBVIOUS
<1>6. resp \in Seq(Response) /\ Len(resp) = n /\ resp[n] = e
  BY <1>4, <1>5, ExceptSeq
<1>7. /\ study' = [study EXCEPT ![r] = t] /\ response' = [response EXCEPT ![r] = resp]
      /\ research' = research /\ UNCHANGED <<job, enqueuer, qworker, deaths>>
  BY DEF ExtractResponse, Go
<1>8. research' \in Research
  BY <1>1, <1>7, RunFacts
<1>9. RunTakes(r, t)
  BY <1>1, <1>2, <1>3, <1>6, <1>7, <1>8, RunAlone
<1>10. response'[r] = resp /\ \A x \in Studies : x # r => response'[x] = response[x]
  BY <1>7 DEF RInv, RowsKept
<1>11. Stored(t, response'[r])
  BY <1>1, <1>2, <1>4, <1>5, <1>6, <1>10 DEF Stored, Scoring
<1>12. RowsKept'
  BY <1>7, <1>9 DEF RunTakes, RInv, RowsKept
<1>13. Responses' = Responses
  <2>1. (RowsKept => ResponsesListed)'
    BY ResponsesList, PTL
  <2>2. \A x \in Studies : Len(response'[x]) = Len(response[x])
    BY <1>6, <1>10
  <2> QED BY <1>12, <2>1, <2>2, ResponsesList DEF RInv, ResponsesListed
<1>14. IsFiniteSet(Responses')
  BY <1>1, <1>13, RunFacts
<1>15. ScoreKept'
  <2>1. CASE status = "PROCESSED"
    BY <1>2, <1>9, <2>1 DEF ScoreKept, WillScore, Scoring, RunTakes
  <2>2. CASE status = "FAILED"
    <3>1. <<r, n>> \in Responses'
      BY <1>4, <1>13, ResponsesAre DEF RInv
    <3>2. response'[r][n].status = "FAILED"
      BY <1>5, <1>6, <1>10, <2>2
    <3> QED BY <3>1, <3>2 DEF ScoreKept, Processed
  <2> QED BY <1>1, <2>1, <2>2
<1>16. Vouching(t, Awaited(r)) \/ ~Vouches(r)
  BY <1>1, <1>2 DEF Vouches, Vouching, Working, Raised
<1>17. (study[r].alone => research'.status = t.seen) /\ research'.total = research.total
       /\ deaths' \in 0..MaxDeaths
  BY <1>1, <1>2, <1>7, RunFacts DEF RInv, RowsKept
<1> QED BY <1>2, <1>3, <1>7, <1>9, <1>11, <1>14, <1>15, <1>16, <1>17, RunTakesInv

LEMMA Unread == Processed => Unprocessed = {}
BY DEF Processed, Unprocessed

\* A response that was not extracted, or could not be, keeps the research unscored.
LEMMA NotAllProcessed ==
    ASSUME RInv, NEW r \in Studies, study[r].pc \in {"extracting", "reloading"}
    PROVE  ~Processed
<1>1. InProgress(r)
  BY DEF InProgress, Working
<1>2. Len(response[r]) > 0 /\ response[r][Len(response[r])].status \in {"NORMALIZED", "FAILED"}
  BY <1>1, RunFacts DEF Stored
<1>3. <<r, Len(response[r])>> \in Responses
  BY <1>2, ResponsesAre DEF RInv
<1> QED BY <1>2, <1>3 DEF Processed

LEMMA AfterTaskIs ==
    ASSUME RInv, NEW r \in Studies, InProgress(r)
    PROVE  \/ AfterTask(r) = "executing" /\ Len(response[r]) < study[r].width
           \/ AfterTask(r) = "finishing" /\ Len(response[r]) = study[r].width
BY RunFacts DEF AfterTask

LEMMA ReloadInv == ASSUME RInv, NEW r \in Studies, Reload(r) PROVE RInv'
<1>1. InProgress(r) /\ study[r].pc = "reloading"
  BY DEF Reload, InProgress, Working
<1> PICK t : t = [study[r] EXCEPT !.pc = AfterTask(r), !.seen = research.status,
                                  !.total = research.total]
  OBVIOUS
<1>2. AfterTask(r) \in {"executing", "finishing"}
  BY <1>1, AfterTaskIs
<1>3. /\ t \in Study /\ t.pc = AfterTask(r) /\ t.seen = research.status /\ t.total = research.total
      /\ t.job = study[r].job /\ t.width = study[r].width /\ t.alone = study[r].alone
  BY <1>1, <1>2, RunFacts DEF Study, Working, Research
<1>4. /\ study' = [study EXCEPT ![r] = t] /\ response' = response /\ research' = research
      /\ UNCHANGED <<job, enqueuer, qworker, deaths>>
  BY DEF Reload
<1>5. Stored(t, response[r])
  BY <1>1, <1>3, RunFacts, AfterTaskIs DEF Stored, Scoring
<1>6. ScoreKept'
  BY <1>1, <1>4, NotAllProcessed DEF ScoreKept, Processed, Responses
<1>7. research' \in Research /\ deaths' \in 0..MaxDeaths
  BY <1>4 DEF RInv, RowsKept
<1> QED BY <1>1, <1>2, <1>3, <1>4, <1>5, <1>6, <1>7, RunMovesOn DEF Working

LEMMA CountResponsesInv == ASSUME RInv, NEW r \in Studies, CountResponses(r) PROVE RInv'
<1>1. InProgress(r) /\ study[r].pc = "counting"
  BY DEF CountResponses, InProgress, Working
<1> PICK t : t = [study[r] EXCEPT !.pc = IF Ready(r) THEN "reading" ELSE AfterTask(r)]
  OBVIOUS
<1>2. AfterTask(r) \in {"executing", "finishing"}
  BY <1>1, AfterTaskIs
<1>3. /\ t \in Study /\ t.pc = (IF Ready(r) THEN "reading" ELSE AfterTask(r))
      /\ t.seen = study[r].seen /\ t.total = study[r].total
      /\ t.job = study[r].job /\ t.width = study[r].width /\ t.alone = study[r].alone
  BY <1>1, <1>2, RunFacts DEF Study, Working
<1>4. /\ study' = [study EXCEPT ![r] = t] /\ response' = response /\ research' = research
      /\ UNCHANGED <<job, enqueuer, qworker, deaths>>
  BY DEF CountResponses, Go
<1>5. Stored(t, response[r])
  BY <1>1, <1>3, RunFacts, AfterTaskIs DEF Stored, Scoring
<1>6. research' \in Research /\ deaths' \in 0..MaxDeaths
  BY <1>4 DEF RInv, RowsKept
<1>7. study'[r] = t /\ \A x \in Studies : x # r => study'[x] = study[x]
  BY <1>1, <1>4, RunFacts
<1>8. ScoreKept'
  <2> SUFFICES ASSUME Responses' # {}, Processed', NoneLost'
               PROVE  \E x \in Studies : WillScore(x)'
    BY DEF ScoreKept
  <2>1. Responses # {} /\ Processed /\ NoneLost /\ IsFiniteSet(Responses)
    BY <1>1, <1>4, <1>7, RunFacts DEF Processed, Responses, NoneLost
  <2>2. CASE t.pc \in {"reading", "executing"}
    BY <1>7, <2>2 DEF WillScore, Scoring
  <2>3. CASE t.pc = "finishing"
    <3>1. ~(Cardinality(Responses) >= study[r].total)
      BY <1>2, <1>3, <2>1, <2>3, Unread DEF Ready
    <3>2. Cardinality(Responses) \in Nat /\ study[r].total \in Nat
      BY <1>1, <2>1, RunFacts, FS_CardinalityType DEF Study
    <3>3. Bounded(study[r].total, OpenWidths)
      BY <1>1, RunFacts DEF RInv, DataInv, TotalsKept
    <3>4. PICK s \in Studies : Opened(s) /\ study[r].total <= study[s].width
      BY <3>1, <3>2, <3>3 DEF Bounded, OpenWidths
    <3>5. Len(response[s]) <= Cardinality(Responses) /\ Len(response[s]) \in Nat
      <4>1. Len(response[s]) \in Nat /\ \A i \in 1..Len(response[s]) : <<s, i>> \in Responses
        BY ResponsesAre DEF RInv
      <4>2. PICK k \in Nat : k = Len(response[s])
        BY <4>1
      <4>3. PICK f : f = [i \in 1..k |-> <<s, i>>]
        OBVIOUS
      <4>4. f \in Injection(1..k, Responses)
        BY <4>1, <4>2, <4>3 DEF Injection, IsInjective
      <4>5. Cardinality(1..k) = k
        <5>1. Cardinality(1..k) = IF 1 > k THEN 0 ELSE k - 1 + 1
          BY FS_Interval
        <5> QED BY <5>1
      <4> QED BY <2>1, <4>2, <4>4, <4>5, FS_Injection
    <3>6. study[s].pc \in (Working \cup {"finished"}) \ {"opening"} /\ study[s].width \in Nat
      BY <2>1, <3>4, StudyIs DEF Opened, NoneLost, Ended, RInv, Study
    <3>7. study[s].pc \notin {"extracting", "reloading"}
      BY <2>1, NotAllProcessed
    <3>8. study[s].pc \notin {"finishing", "finished"}
      <4>1. Len(response[s]) # study[s].width
        BY <3>1, <3>2, <3>4, <3>5, <3>6
      <4> QED BY <4>1 DEF RInv, DataInv, ResponsesKept, Stored
    <3>9. WillScore(s)
      BY <3>6, <3>7, <3>8 DEF WillScore, Working, Scoring
    <3>10. s # r
      <4>1. Len(response[r]) = study[r].width
        BY <1>1, <1>2, <1>3, <2>3, AfterTaskIs DEF Ready
      <4> QED BY <3>1, <3>2, <3>4, <3>5, <3>6, <4>1
    <3> QED BY <1>7, <3>9, <3>10 DEF WillScore
  <2> QED BY <1>2, <1>3, <2>2, <2>3
<1>9. t.pc \in {"reading", "executing", "finishing"} /\ t.pc \notin {"looking", "writing"}
  BY <1>2, <1>3
<1>10. t.pc \in Working \ {"opening"} /\ study[r].pc # "opening"
  BY <1>1, <1>9 DEF Working
<1> QED BY <1>1, <1>3, <1>4, <1>5, <1>6, <1>8, <1>9, <1>10, RunMovesOn

LEMMA ReadResponsesInv == ASSUME RInv, NEW r \in Studies, ReadResponses(r) PROVE RInv'
<1>1. InProgress(r) /\ study[r].pc = "reading"
  BY DEF ReadResponses, InProgress, Working
<1>2. Cardinality(Responses) \in Nat /\ Cardinality(Responses) > 0
  <2>1. IsFiniteSet(Responses) /\ Len(response[r]) > 0
    BY <1>1, RunFacts DEF Stored, Scoring
  <2>2. <<r, 1>> \in Responses
    <3>1. 1 \in 1..Len(response[r])
      BY <1>1, <2>1, RunFacts
    <3> QED BY <3>1, ResponsesAre DEF RInv
  <2>3. Cardinality(Responses) # 0 /\ Cardinality(Responses) \in Nat
    BY <2>1, <2>2, FS_EmptySet, FS_CardinalityType
  <2> QED BY <2>3
<1> PICK k \in Nat : k = Cardinality(Responses)
  BY <1>2
<1> PICK t : t = [study[r] EXCEPT !.pc = IF Unprocessed = {} THEN "looking" ELSE "raised", !.found = k]
  OBVIOUS
<1>3. /\ t \in Study /\ t.pc = (IF Unprocessed = {} THEN "looking" ELSE "raised") /\ t.found = k
      /\ t.seen = study[r].seen /\ t.total = study[r].total
      /\ t.job = study[r].job /\ t.width = study[r].width /\ t.alone = study[r].alone
  BY <1>1, RunFacts DEF Study, Working, Ended
<1>4. t.pc \in {"looking", "raised"}
  BY <1>3
<1>5. /\ study' = [study EXCEPT ![r] = t] /\ response' = response /\ research' = research
      /\ UNCHANGED <<job, enqueuer, qworker, deaths>>
  BY DEF ReadResponses
<1>6. Stored(t, response[r])
  BY <1>1, <1>3, <1>4, RunFacts DEF Stored, Scoring
<1>7. research' \in Research /\ deaths' \in 0..MaxDeaths
  BY <1>5 DEF RInv, RowsKept
<1>8. study'[r] = t
  BY <1>1, <1>5, RunFacts
<1>9. ScoreKept'
  <2>1. CASE t.pc = "looking"
    BY <1>8, <2>1 DEF ScoreKept, WillScore, Scoring
  <2>2. CASE t.pc = "raised"
    BY <1>8, <2>2 DEF ScoreKept, NoneLost
  <2> QED BY <1>4, <2>1, <2>2
<1>10. t.pc \in (Working \ {"opening"}) \cup {"raised"} /\ study[r].pc # "opening"
  BY <1>1, <1>4 DEF Working
<1>11. t.found > 0 /\ t.found = Cardinality(Responses)
  BY <1>2, <1>3
<1> QED BY <1>1, <1>3, <1>5, <1>6, <1>7, <1>9, <1>10, <1>11, RunMovesOn

LEMMA LookForScoreInv == ASSUME RInv, NEW r \in Studies, LookForScore(r) PROVE RInv'
<1>1. InProgress(r) /\ study[r].pc = "looking"
  BY DEF LookForScore, InProgress, Working
<1> PICK saved : saved = (research.score > 0)
  OBVIOUS
<1>2. saved \in BOOLEAN
  OBVIOUS
<1> PICK t : t = [study[r] EXCEPT !.pc = "writing", !.row = saved]
  OBVIOUS
<1>3. /\ t \in Study /\ t.pc = "writing" /\ t.found = study[r].found
      /\ t.seen = study[r].seen /\ t.total = study[r].total
      /\ t.job = study[r].job /\ t.width = study[r].width /\ t.alone = study[r].alone
  BY <1>2, <1>1, RunFacts DEF Study, Working
<1>4. /\ study' = [study EXCEPT ![r] = t] /\ response' = response /\ research' = research
      /\ UNCHANGED <<job, enqueuer, qworker, deaths>>
  BY DEF LookForScore
<1>5. Stored(t, response[r])
  BY <1>1, <1>3, RunFacts DEF Stored, Scoring
<1>6. research' \in Research /\ deaths' \in 0..MaxDeaths
  BY <1>4 DEF RInv, RowsKept
<1>7. ScoreKept'
  <2>1. study'[r] = t
    BY <1>1, <1>4, RunFacts
  <2> QED BY <1>3, <2>1 DEF ScoreKept, WillScore, Scoring
<1>8. t.pc \in Working \ {"opening"} /\ study[r].pc # "opening"
  BY <1>1, <1>3 DEF Working
<1>9. t.found > 0 /\ (AllAlone => t.found = Cardinality(Responses))
  BY <1>1, <1>3 DEF RInv, DataInv, FoundKept
<1> QED BY <1>1, <1>3, <1>4, <1>5, <1>6, <1>7, <1>8, <1>9, RunMovesOn

LEMMA WriteScoreInv == ASSUME RInv, NEW r \in Studies, WriteScore(r) PROVE RInv'
<1>1. InProgress(r) /\ study[r].pc = "writing" /\ UNCHANGED <<job, enqueuer, qworker, response, deaths>>
  BY DEF WriteScore, InProgress, Working
<1>2. deaths' \in 0..MaxDeaths
  BY <1>1 DEF RInv, RowsKept
<1>3. CASE ~study[r].row /\ research.score > 0
  <2> PICK t : t = [study[r] EXCEPT !.pc = "broken"]
    OBVIOUS
  <2>1. /\ t \in Study /\ t.pc = "broken" /\ t.seen = study[r].seen /\ t.total = study[r].total
        /\ t.job = study[r].job /\ t.width = study[r].width /\ t.alone = study[r].alone
    BY <1>1, RunFacts DEF Study, Ended
  <2>2. study' = [study EXCEPT ![r] = t] /\ research' = research /\ research' \in Research
    BY <1>1, <1>3, RunFacts DEF WriteScore, Go
  <2>3. Stored(t, response[r])
    BY <1>1, <2>1, RunFacts DEF Stored, Scoring
  <2>4. ScoreKept'
    <3>1. study'[r] = t
      BY <1>1, <2>2, RunFacts
    <3> QED BY <2>1, <3>1 DEF ScoreKept, NoneLost
  <2> QED BY <1>1, <1>2, <2>1, <2>2, <2>3, <2>4, RunMovesOn
<1>4. CASE ~(~study[r].row /\ research.score > 0)
  <2>1. AfterTask(r) \in {"executing", "finishing"}
    BY <1>1, AfterTaskIs
  <2> PICK t : t = [study[r] EXCEPT !.pc = AfterTask(r), !.found = 0, !.row = FALSE]
    OBVIOUS
  <2>2. /\ t \in Study /\ t.pc = AfterTask(r) /\ t.seen = study[r].seen /\ t.total = study[r].total
        /\ t.job = study[r].job /\ t.width = study[r].width /\ t.alone = study[r].alone
    BY <1>1, <2>1, RunFacts DEF Study, Working
  <2>3. study' = [study EXCEPT ![r] = t] /\ research' = [research EXCEPT !.score = study[r].found]
    BY <1>4 DEF WriteScore
  <2>4. /\ research' \in Research /\ research'.status = research.status
        /\ research'.total = research.total /\ research'.score = study[r].found
    BY <1>1, <2>3, RunFacts DEF Research, Study
  <2>5. Stored(t, response[r])
    BY <1>1, <2>1, <2>2, RunFacts, AfterTaskIs DEF Stored, Scoring
  <2>6. ScoreKept'
    <3>1. study[r].found > 0 /\ (AllAlone => study[r].found = Cardinality(Responses))
      BY <1>1 DEF RInv, DataInv, FoundKept
    <3>2. t.pc \notin {"opening", "refused"}
      BY <2>1, <2>2
    <3>3. AllAlone' = AllAlone
      BY <1>1, <2>2, <2>3, <2>4, <3>2, RunAlone
    <3>4. Responses' = Responses
      BY <1>1 DEF Responses
    <3> QED BY <2>4, <3>1, <3>3, <3>4 DEF ScoreKept, Scored
  <2>7. t.pc \in Working \ {"opening"} /\ study[r].pc # "opening" /\ t.pc \notin {"looking", "writing"}
    BY <1>1, <2>1, <2>2 DEF Working
  <2> QED BY <1>1, <1>2, <2>2, <2>3, <2>4, <2>5, <2>6, <2>7, RunMovesOn
<1> QED BY <1>3, <1>4

LEMMA RequestDiesInv == ASSUME RInv, NEW r \in Studies, RequestDies(r) PROVE RInv'
<1>1. /\ InProgress(r) /\ deaths < MaxDeaths /\ deaths' = deaths + 1
      /\ UNCHANGED <<research, job, enqueuer, qworker, response>>
  BY DEF RequestDies
<1> PICK t : t = [study[r] EXCEPT !.pc = "dead"]
  OBVIOUS
<1>2. /\ t \in Study /\ t.pc = "dead" /\ t.seen = study[r].seen /\ t.total = study[r].total
      /\ t.job = study[r].job /\ t.width = study[r].width /\ t.alone = study[r].alone
  BY <1>1, RunFacts DEF Study, Ended
<1>3. study' = [study EXCEPT ![r] = t] /\ research' \in Research
  BY <1>1, RunFacts DEF RequestDies, Go
<1>4. Stored(t, response[r])
  BY <1>1, <1>2, RunFacts DEF Stored, Scoring
<1>5. ScoreKept'
  <2>1. study'[r] = t
    BY <1>1, <1>3, RunFacts
  <2> QED BY <1>2, <2>1 DEF ScoreKept, NoneLost
<1>6. deaths' \in 0..MaxDeaths
  BY <1>1, ResearchNumbers DEF RInv, RowsKept
<1> QED BY <1>1, <1>2, <1>3, <1>4, <1>5, <1>6, RunMovesOn

LEMMA FinishRunInv == ASSUME RInv, NEW r \in Studies, FinishRun(r) PROVE RInv'
<1>1. /\ InProgress(r) /\ study[r].pc = "finishing"
      /\ UNCHANGED <<job, enqueuer, qworker, response, deaths>>
  BY DEF FinishRun, InProgress, Working
<1> PICK v : v = Verdict(r)
  OBVIOUS
<1>2. v \in {"COMPLETED", "FAILED"}
  BY DEF Verdict
<1> PICK t : t = [study[r] EXCEPT !.pc = "finished", !.seen = v]
  OBVIOUS
<1>3. /\ t \in Study /\ t.pc = "finished" /\ t.seen = v /\ t.total = study[r].total
      /\ t.job = study[r].job /\ t.width = study[r].width /\ t.alone = study[r].alone
  BY <1>1, <1>2, RunFacts DEF Study, Ended, ResearchStatus
<1>4. study' = [Disturbed EXCEPT ![r] = t]
  BY DEF FinishRun
<1>5. /\ Disturbed \in [Studies -> Study \cup {NotStudied}]
      /\ \A x \in Studies : Same(study[x], Disturbed[x])
  BY DisturbedAll DEF RInv
<1>6. /\ study'[r] = t /\ \A x \in Studies : x # r => Same(study[x], study'[x])
      /\ study' \in [Studies -> Study \cup {NotStudied}]
  BY <1>3, <1>4, <1>5
<1>7. /\ research' \in Research /\ research'.total = research.total /\ research'.score = research.score
      /\ research'.status = IF study[r].seen = v THEN research.status ELSE v
  BY <1>1, <1>2, RunFacts DEF FinishRun, Written, Research, ResearchStatus
<1>8. RunTakes(r, t)
  BY <1>1, <1>3, <1>6, <1>7 DEF RunTakes, RInv, RowsKept
<1>9. Stored(t, response'[r])
  BY <1>1, <1>3, RunFacts DEF Stored, Scoring
<1>10. Responses' = Responses /\ Processed' = Processed /\ IsFiniteSet(Responses)
  BY <1>1, RunFacts DEF Responses, Processed
<1>11. ScoreKept'
  <2>1. NoneLost' => NoneLost
    BY <1>1, <1>6 DEF NoneLost, Same
  <2>2. Scored => Scored'
    BY <1>7, <1>8, <1>10, RunTakesFields DEF Scored
  <2>3. \A x \in Studies : WillScore(x) => WillScore(x)'
    BY <1>1, <1>6 DEF WillScore, Same, Scoring
  <2> QED BY <1>10, <2>1, <2>2, <2>3 DEF RInv, DataInv, ScoreKept
<1>12. study[r].alone => research'.status = t.seen
  BY <1>1, <1>3, <1>7, RunFacts
<1>13. research'.status = "ACTIVE" => research.status = "ACTIVE" /\ ~Vouches(r)
  BY <1>1, <1>2, <1>7 DEF Vouches, Vouching, Raised
<1>14. deaths' \in 0..MaxDeaths
  BY <1>1 DEF RInv, RowsKept
<1> QED BY <1>1, <1>3, <1>7, <1>8, <1>9, <1>10, <1>11, <1>12, <1>13, <1>14, RunTakesInv

-----------------------------------------------------------------------------
(***************************************************************************)
(* The queue                                                               *)
(***************************************************************************)
LEMMA SameItself == \A s : Same(s, s)
BY DEF Same

LEMMA QueueFacts ==
    ASSUME RInv
    PROVE  /\ job \in Seq(ResearchJob) /\ Len(job) \in Nat /\ DOMAIN job = 1..Len(job)
           /\ \A j \in DOMAIN job : job[j] \in ResearchJob /\ j \in JobIds /\ j # 0
           /\ IsFiniteSet(Undecided) /\ Cardinality(Undecided) \in Nat
           /\ Len(job) <= Cardinality(Enqueuers)
           /\ \A w \in QueueWorkers : qworker[w] \in Worker
<1>1. job \in Seq(ResearchJob) /\ Len(job) \in Nat /\ DOMAIN job = 1..Len(job)
  BY DEF RInv, RowsKept
<1>2. \A j \in DOMAIN job : job[j] \in ResearchJob
  BY <1>1
<1>3. IsFiniteSet(Undecided) /\ Cardinality(Undecided) \in Nat
  BY ResearchNumbers, FS_Subset, FS_CardinalityType DEF Undecided
<1>4. Len(job) <= Cardinality(Enqueuers)
  BY <1>1, <1>3, ResearchNumbers DEF RInv, QueueInv, QueueKept
<1>5. \A j \in DOMAIN job : j \in JobIds /\ j # 0
  BY <1>1, <1>4, ResearchNumbers DEF JobIds
<1> QED BY <1>1, <1>2, <1>3, <1>4, <1>5 DEF RInv, RowsKept

\* A job of the queue changes.
LEMMA JobChanges ==
    ASSUME RInv, NEW j \in DOMAIN job, NEW e \in ResearchJob
    PROVE  /\ [job EXCEPT ![j] = e] \in Seq(ResearchJob)
           /\ Len([job EXCEPT ![j] = e]) = Len(job)
           /\ DOMAIN [job EXCEPT ![j] = e] = DOMAIN job
           /\ [job EXCEPT ![j] = e][j] = e
           /\ \A k \in DOMAIN job : k # j => [job EXCEPT ![j] = e][k] = job[k]
<1>1. job \in Seq(ResearchJob) /\ j \in 1..Len(job)
  BY QueueFacts
<1> QED BY <1>1, ExceptSeq

LEMMA RestsItself ==
    ASSUME RInv, UNCHANGED <<research, study, response>>
    PROVE  DataInv'
BY SameItself, RestsData DEF RInv, RowsKept

LEMMA EnqueueCheckInv == ASSUME RInv, NEW q \in Enqueuers, EnqueueCheck(q) PROVE RInv'
<1>1. UNCHANGED <<research, job, qworker, study, response, deaths>>
  BY DEF EnqueueCheck
<1> PICK e : e = IF \E j \in DOMAIN job : ActiveJob(j) THEN [pc |-> "done"]
                 ELSE [pc |-> "checked", seen |-> research.status]
  OBVIOUS
<1>2. e \in Request
  BY DEF Request, RInv, RowsKept, Research
<1>3. enqueuer' = [enqueuer EXCEPT ![q] = e]
  BY DEF EnqueueCheck
<1>4. RowsKept'
  BY <1>1, <1>2, <1>3 DEF RInv, RowsKept
<1>5. QueueKept'
  <2>1. enqueuer[q].pc = "idle"
    BY DEF EnqueueCheck
  <2>2. Undecided' \subseteq Undecided
    BY <1>2, <1>3, <2>1 DEF Undecided, RInv, RowsKept
  <2>3. Cardinality(Undecided') <= Cardinality(Undecided) /\ Cardinality(Undecided') \in Nat
    BY <2>2, QueueFacts, FS_Subset, FS_CardinalityType
  <2>4. Len(job) + Cardinality(Undecided') <= Cardinality(Enqueuers)
    BY <2>3, QueueFacts, ResearchNumbers DEF RInv, QueueInv, QueueKept
  <2> QED BY <1>1, <2>4 DEF RInv, QueueInv, QueueKept, Holds
<1>6. WorkersKept' /\ RunsKept'
  BY <1>1 DEF RInv, QueueInv, WorkersKept, RunsKept, Holds, InProgress, Awaited
<1>7. StatusInv'
  BY <1>1 DEF RInv, StatusInv, AloneKept, JudgedKept, JobVerdict, ActiveKept, Relies, InProgress,
     Awaited, Verdict, Waits, Vouches, Holds
<1> QED BY <1>1, <1>4, <1>5, <1>6, <1>7, RestsItself DEF RInv, QueueInv

\* Whoever writes the research disturbs the runs that rely on it: none is left alone.
LEMMA DisturbsAll ==
    ASSUME RInv, study' = Disturbed, \A x \in Studies : Awaited(x)' => Awaited(x)
    PROVE  AloneKept'
<1> SUFFICES ASSUME NEW x \in Studies, study'[x] # NotStudied, study'[x].alone, Relies(x)' PROVE FALSE
  BY DEF AloneKept
<1>1. Same(study[x], study'[x]) /\ ~(Relies(x) /\ study'[x].alone)
  BY DisturbedIs DEF RInv
<1>2. Relies(x)
  BY <1>1 DEF Relies, InProgress, Same
<1> QED BY <1>1, <1>2

\* The verdict of a job stands while its state and the answers do.
LEMMA VerdictStands ==
    ASSUME RInv, response' = response,
           \A x \in Studies : study'[x].pc = "finished" =>
               /\ study[x].pc = "finished" /\ study'[x].job = study[x].job
               /\ study'[x].width = study[x].width /\ (study'[x].alone => study[x].alone)
               /\ study[x].job # 0 => job'[study[x].job].state = job[study[x].job].state
    PROVE  JobVerdict'
BY DEF RInv, StatusInv, JobVerdict

LEMMA SameFinished ==
    ASSUME RInv, NEW x \in Studies, study'[x] \in Study \cup {NotStudied},
           Same(study[x], study'[x]), study'[x].pc = "finished"
    PROVE  /\ study[x].pc = "finished" /\ study'[x].job = study[x].job
           /\ study'[x].width = study[x].width /\ (study'[x].alone => study[x].alone)
           /\ study[x] # NotStudied
BY StudyIs DEF RInv, Same, Study, NotStudied, Working, Ended

LEMMA EnqueueCommitInv == ASSUME RInv, NEW q \in Enqueuers, EnqueueCommit(q) PROVE RInv'
<1>1. /\ enqueuer[q].pc = "checked" /\ study' = Disturbed
      /\ UNCHANGED <<qworker, response, deaths>>
  BY DEF EnqueueCommit
<1> PICK e : e = [state |-> "PENDING", attempts |-> 0, lock |-> "none"]
  OBVIOUS
<1>2. e \in ResearchJob /\ e.state = "PENDING" /\ e.attempts = 0 /\ e.lock = "none"
  BY DEF ResearchJob, ResearchJobState
<1>3. /\ job' = Append(job, e) /\ enqueuer' = [enqueuer EXCEPT ![q] = [pc |-> "done"]]
      /\ research' \in Research /\ research'.total = research.total /\ research'.score = research.score
  BY DEF EnqueueCommit, RInv, RowsKept, Research, ResearchStatus
<1> PICK n \in Nat : n = Len(job)
  BY QueueFacts
<1>4. /\ job' \in Seq(ResearchJob) /\ Len(job') = n + 1 /\ job'[n + 1] = e
      /\ DOMAIN job' = DOMAIN job \cup {n + 1} /\ n + 1 \notin DOMAIN job
      /\ \A j \in DOMAIN job : job'[j] = job[j]
  <2>1. job \in Seq(ResearchJob) /\ DOMAIN job = 1..n
    BY QueueFacts
  <2>2. job' \in Seq(ResearchJob) /\ Len(job') = n + 1 /\ job'[n + 1] = e
        /\ \A j \in 1..n : job'[j] = job[j]
    BY <1>2, <1>3, <2>1, AppendProperties
  <2>3. DOMAIN job' = 1..(n + 1)
    BY <2>2
  <2> QED BY <2>1, <2>2, <2>3
<1>5. /\ \A x \in Studies : Same(study[x], study'[x])
      /\ study' \in [Studies -> Study \cup {NotStudied}]
  BY <1>1, DisturbedAll DEF RInv
<1>6. RowsKept'
  <2>1. [pc |-> "done"] \in Request
    BY DEF Request
  <2> QED BY <1>1, <1>3, <1>4, <1>5, <2>1 DEF RInv, RowsKept
<1>7. QueueKept'
  <2>1. Undecided' = Undecided \ {q} /\ q \in Undecided
    BY <1>1, <1>3 DEF Undecided, RInv, RowsKept
  <2>2. Cardinality(Undecided') = Cardinality(Undecided) - 1
    BY <2>1, QueueFacts, FS_RemoveElement
  <2>3. Len(job') + Cardinality(Undecided') <= Cardinality(Enqueuers)
    BY <1>4, <2>2, QueueFacts, ResearchNumbers DEF RInv, QueueInv, QueueKept
  <2>4. \A w \in QueueWorkers : e.lock # w
    BY <1>2, ResearchNumbers
  <2>5. \A j \in DOMAIN job' : /\ job'[j].attempts <= 1
                               /\ job'[j].state = "PENDING" => job'[j].attempts = 0
    BY <1>2, <1>4 DEF RInv, QueueInv, QueueKept
  <2>6. \A j \in DOMAIN job', w \in QueueWorkers : job'[j].lock = w =>
              job'[j].state = "PENDING" /\ Holds(w, j)' /\ qworker'[w].pc = "locked"
    BY <1>1, <1>4, <2>4 DEF RInv, QueueInv, QueueKept, Holds
  <2> QED BY <2>3, <2>5, <2>6 DEF QueueKept
<1>8. WorkersKept'
  BY <1>1, <1>4, <1>5 DEF RInv, QueueInv, WorkersKept, Holds, Same
<1>9. RunsKept'
  BY SMTT(30), <1>1, <1>4, <1>5 DEF RInv, QueueInv, RunsKept, Holds, InProgress, Awaited, Same
<1>10. \A x \in Studies : Awaited(x)' = Awaited(x)
  BY <1>1 DEF Awaited
<1>11. AloneKept'
  BY <1>1, <1>10, DisturbsAll
<1>12. JudgedKept'
  BY <1>1, <1>5, SameFinished DEF RInv, StatusInv, JudgedKept, Verdict
<1>13. JobVerdict'
  <2>1. \A x \in Studies : study[x] # NotStudied /\ study[x].job # 0 => study[x].job \in DOMAIN job
    BY StudyIs DEF RInv, QueueInv, RunsKept, Study
  <2> QED BY <1>1, <1>4, <1>5, <2>1, SameFinished, VerdictStands
<1>14. ActiveKept'
  BY <1>2, <1>4 DEF ActiveKept, Waits
<1>15. DataInv'
  BY <1>1, <1>3, <1>5, RestsData
<1> QED BY <1>6, <1>7, <1>8, <1>9, <1>11, <1>12, <1>13, <1>14, <1>15 DEF RInv, QueueInv, StatusInv

\* Nothing of the status hangs on which worker has a job that was not run yet.
LEMMA StatusWaits ==
    ASSUME RInv, UNCHANGED <<research, study, response>>,
           \A x \in Studies : Awaited(x)' = Awaited(x),
           \A w \in QueueWorkers : qworker'[w].pc = "judging" => qworker'[w] = qworker[w],
           DOMAIN job' = DOMAIN job,
           \A j \in DOMAIN job : Waits(j) => Waits(j)',
           \A x \in Studies : study[x] # NotStudied /\ study[x].job # 0 =>
               job'[study[x].job].state = job[study[x].job].state
    PROVE  StatusInv'
<1>1. AloneKept'
  BY DEF RInv, StatusInv, AloneKept, Relies, InProgress
<1>2. JudgedKept'
  BY DEF RInv, StatusInv, JudgedKept, Verdict
<1>3. JobVerdict'
  <2>1. \A x \in Studies : study[x].pc = "finished" => study[x] # NotStudied
    BY DEF NotStudied
  <2> QED BY <2>1, VerdictStands
<1>4. ActiveKept'
  BY DEF RInv, StatusInv, ActiveKept, Vouches
<1> QED BY <1>1, <1>2, <1>3, <1>4 DEF StatusInv

LEMMA LockNextInv == ASSUME RInv, NEW w \in QueueWorkers, LockNext(w) PROVE RInv'
<1>1. PICK j \in DOMAIN job :
          /\ Lockable(j) /\ job' = [job EXCEPT ![j].lock = w]
          /\ qworker' = [qworker EXCEPT ![w] = [pc |-> "locked", job |-> j]]
  BY DEF LockNext
<1>2. qworker[w] = IdleWorker /\ UNCHANGED <<research, enqueuer, study, response, deaths>>
  BY DEF LockNext
<1>3. job[j].state = "PENDING" /\ job[j].lock = "none" /\ job[j] \in ResearchJob
  BY <1>1, QueueFacts DEF Lockable
<1> PICK e : e = [job[j] EXCEPT !.lock = w]
  OBVIOUS
<1>4. e \in ResearchJob /\ e.lock = w /\ e.state = "PENDING" /\ e.attempts = job[j].attempts /\ w # "none"
  BY <1>3, ResearchNumbers DEF ResearchJob
<1>5. /\ job' \in Seq(ResearchJob) /\ Len(job') = Len(job) /\ DOMAIN job' = DOMAIN job
      /\ job'[j] = e /\ \A k \in DOMAIN job : k # j => job'[k] = job[k]
  BY <1>1, <1>4, JobChanges
<1> PICK y : y = [pc |-> "locked", job |-> j]
  OBVIOUS
<1>6. y \in Worker /\ y # IdleWorker /\ y.pc = "locked" /\ y.job = j
  BY QueueFacts DEF Worker, IdleWorker
<1>7. qworker'[w] = y /\ \A v \in QueueWorkers : v # w => qworker'[v] = qworker[v]
  BY <1>1 DEF RInv, RowsKept
<1>8. RowsKept'
  BY <1>1, <1>2, <1>5, <1>6 DEF RInv, RowsKept
<1>9. \A v \in QueueWorkers : \A k : Holds(v, k)' <=> Holds(v, k) \/ (v = w /\ k = j)
  BY <1>2, <1>6, <1>7 DEF Holds
<1>10. \A v \in QueueWorkers : ~Holds(v, j)
  <2>1. j \in JobIds
    BY QueueFacts
  <2> QED BY <1>3, <2>1, ResearchNumbers DEF RInv, QueueInv, WorkersKept
<1>11. QueueKept'
  <2>1. Undecided' = Undecided
    BY <1>2 DEF Undecided
  <2> SUFFICES ASSUME NEW k \in DOMAIN job
               PROVE  /\ job'[k].attempts <= 1
                      /\ job'[k].state = "PENDING" => job'[k].attempts = 0
                      /\ \A v \in QueueWorkers : job'[k].lock = v =>
                            job'[k].state = "PENDING" /\ Holds(v, k)' /\ qworker'[v].pc = "locked"
    BY <1>2, <1>5, <2>1 DEF RInv, QueueInv, QueueKept
  <2>2. CASE k = j
    <3>1. job[j].attempts = 0 /\ e.attempts = 0
      BY <1>3, <1>4 DEF RInv, QueueInv, QueueKept
    <3>2. job'[k].attempts <= 1 /\ job'[k].attempts = 0 /\ job'[k].state = "PENDING" /\ job'[k].lock = w
      <4>1. job'[k] = e
        BY <1>5, <2>2
      <4>2. e.state = "PENDING" /\ e.lock = w /\ e.attempts = 0
        BY <1>4, <3>1
      <4> QED BY <4>1, <4>2
    <3>3. Holds(w, k)' /\ qworker'[w].pc = "locked"
      BY <1>6, <1>7, <1>9, <2>2
    <3> QED BY <3>2, <3>3
  <2>3. CASE k # j
    <3>1. job[k].lock # w
      BY <1>2, <2>3 DEF RInv, QueueInv, QueueKept, Holds
    <3> QED BY <1>5, <1>7, <1>9, <2>3, <3>1 DEF RInv, QueueInv, QueueKept
  <2> QED BY <2>2, <2>3
<1>12. WorkersKept'
  <2> SUFFICES ASSUME NEW v \in QueueWorkers, NEW k \in JobIds, Holds(v, k)'
               PROVE  /\ k \in DOMAIN job'
                      /\ IF qworker'[v].pc = "locked" THEN job'[k].lock = v ELSE job'[k].state = "RUNNING"
                      /\ \A u \in QueueWorkers : Holds(u, k)' => u = v
                      /\ \A r \in Studies : qworker'[v].pc = "running" /\ qworker'[v].study = r =>
                            study'[r] # NotStudied /\ study'[r].job = k
    BY DEF WorkersKept
  <2>1. CASE v = w
    <3>1. k = j
      BY <1>2, <1>9, <2>1 DEF Holds
    <3> QED BY <1>4, <1>5, <1>6, <1>7, <1>9, <1>10, <2>1, <3>1
  <2>2. CASE v # w
    <3>1. qworker'[v] = qworker[v] /\ Holds(v, k) /\ k # j
      BY <1>7, <1>9, <1>10, <2>2
    <3> QED BY <1>2, <1>5, <1>9, <2>2, <3>1 DEF RInv, QueueInv, WorkersKept
  <2> QED BY <2>1, <2>2
<1>13. \A x \in Studies : Awaited(x)' = Awaited(x)
  BY <1>2, <1>6, <1>7 DEF Awaited, IdleWorker
<1>14. \A x \in Studies : study[x] # NotStudied /\ study[x].job # 0 => study[x].job # j
  BY <1>3, QueueFacts DEF RInv, QueueInv, RunsKept
<1>15. RunsKept'
  BY <1>2, <1>5, <1>7, <1>9, <1>13, <1>14 DEF RInv, QueueInv, RunsKept, InProgress, Holds
<1>16. StatusInv'
  <2>1. \A k \in DOMAIN job : Waits(k) => Waits(k)'
    <3> SUFFICES ASSUME NEW k \in DOMAIN job, Waits(k) PROVE Waits(k)'
      OBVIOUS
    <3>1. CASE k = j
      BY <1>4, <1>5, <3>1 DEF Waits
    <3>2. CASE k # j
      BY <1>5, <1>7, <1>9, <3>2, <1>2 DEF Waits, Holds
    <3> QED BY <3>1, <3>2
  <2>2. \A x \in Studies : study[x] # NotStudied /\ study[x].job # 0 =>
            job'[study[x].job].state = job[study[x].job].state
    BY <1>5, <1>14, StudyIs DEF RInv, QueueInv, RunsKept, Study
  <2>3. \A v \in QueueWorkers : qworker'[v].pc = "judging" => qworker'[v] = qworker[v]
    BY <1>6, <1>7
  <2> QED BY <1>2, <1>5, <1>13, <2>1, <2>2, <2>3, StatusWaits
<1> QED BY <1>2, <1>8, <1>11, <1>12, <1>15, <1>16, RestsItself DEF RInv, QueueInv

LEMMA TakeJobInv == ASSUME RInv, NEW w \in QueueWorkers, TakeJob(w) PROVE RInv'
<1>1. qworker[w].pc = "locked" /\ UNCHANGED <<research, enqueuer, study, response, deaths>>
  BY DEF TakeJob
<1>2. qworker[w] # IdleWorker
  BY <1>1 DEF IdleWorker
<1> PICK j : j = qworker[w].job
  OBVIOUS
<1>3. j \in DOMAIN job /\ job[j].lock = w /\ w # "none" /\ \A v \in QueueWorkers : Holds(v, j) <=> v = w
  <2>1. j \in JobIds
    BY <1>2, WorkerIs, QueueFacts
  <2> QED BY <1>1, <1>2, <2>1, ResearchNumbers DEF RInv, QueueInv, WorkersKept, Holds
<1>4. job[j].state = "PENDING" /\ job[j].attempts = 0 /\ j \in JobIds
  BY <1>3, QueueFacts DEF RInv, QueueInv, QueueKept
<1> PICK e : e = [state |-> "RUNNING", attempts |-> job[j].attempts + 1, lock |-> "none"]
  OBVIOUS
<1>5. e \in ResearchJob /\ e.lock = "none" /\ e.state = "RUNNING" /\ e.attempts = 1
  BY <1>4 DEF ResearchJob, ResearchJobState
<1>6. job' = [job EXCEPT ![j] = e]
  BY DEF TakeJob
<1>7. /\ job' \in Seq(ResearchJob) /\ Len(job') = Len(job) /\ DOMAIN job' = DOMAIN job
      /\ job'[j] = e /\ \A k \in DOMAIN job : k # j => job'[k] = job[k]
  BY <1>3, <1>5, <1>6, JobChanges
<1> PICK y : y = [pc |-> "taken", job |-> j]
  OBVIOUS
<1>8. y \in Worker /\ y # IdleWorker /\ y.pc = "taken" /\ y.job = j
  BY <1>4 DEF Worker, IdleWorker
<1>9. /\ qworker' = [qworker EXCEPT ![w] = y] /\ qworker'[w] = y
      /\ \A v \in QueueWorkers : v # w => qworker'[v] = qworker[v]
  BY <1>1, WorkerIs, QueueFacts DEF TakeJob, RInv, RowsKept
<1>10. RowsKept'
  BY <1>1, <1>7, <1>8, <1>9 DEF RInv, RowsKept
<1>11. \A v \in QueueWorkers : \A k : Holds(v, k)' <=> Holds(v, k)
  BY <1>2, <1>8, <1>9 DEF Holds
<1>12. QueueKept'
  <2>1. Undecided' = Undecided
    BY <1>1 DEF Undecided
  <2> SUFFICES ASSUME NEW k \in DOMAIN job
               PROVE  /\ job'[k].attempts <= 1
                      /\ job'[k].state = "PENDING" => job'[k].attempts = 0
                      /\ \A v \in QueueWorkers : job'[k].lock = v =>
                            job'[k].state = "PENDING" /\ Holds(v, k)' /\ qworker'[v].pc = "locked"
    BY <1>7, <2>1 DEF RInv, QueueInv, QueueKept
  <2>2. CASE k = j
    BY <1>5, <1>7, <2>2, ResearchNumbers
  <2>3. CASE k # j
    <3>1. job[k].lock # w
      BY <1>3, <2>3 DEF RInv, QueueInv, QueueKept, Holds
    <3> QED BY <1>7, <1>9, <1>11, <2>3, <3>1 DEF RInv, QueueInv, QueueKept
  <2> QED BY <2>2, <2>3
<1>13. WorkersKept'
  <2> SUFFICES ASSUME NEW v \in QueueWorkers, NEW k \in JobIds, Holds(v, k)'
               PROVE  /\ k \in DOMAIN job'
                      /\ IF qworker'[v].pc = "locked" THEN job'[k].lock = v ELSE job'[k].state = "RUNNING"
                      /\ \A u \in QueueWorkers : Holds(u, k)' => u = v
                      /\ \A r \in Studies : qworker'[v].pc = "running" /\ qworker'[v].study = r =>
                            study'[r] # NotStudied /\ study'[r].job = k
    BY DEF WorkersKept
  <2>1. CASE v = w
    <3>1. k = j
      BY <1>3, <1>8, <1>9, <2>1 DEF Holds
    <3> QED BY <1>3, <1>5, <1>7, <1>8, <1>9, <1>11, <2>1, <3>1
  <2>2. CASE v # w
    <3>1. qworker'[v] = qworker[v] /\ Holds(v, k) /\ k # j
      BY <1>3, <1>9, <1>11, <2>2
    <3> QED BY <1>1, <1>7, <1>11, <2>2, <3>1 DEF RInv, QueueInv, WorkersKept
  <2> QED BY <2>1, <2>2
<1>14. \A x \in Studies : Awaited(x)' = Awaited(x)
  BY <1>1, <1>8, <1>9 DEF Awaited
<1>15. \A x \in Studies : study[x] # NotStudied /\ study[x].job # 0 => study[x].job # j
  BY <1>4 DEF RInv, QueueInv, RunsKept
<1>16. RunsKept'
  BY <1>1, <1>3, <1>7, <1>9, <1>11, <1>14, <1>15 DEF RInv, QueueInv, RunsKept, InProgress, Holds
<1>17. StatusInv'
  <2>1. \A k \in DOMAIN job : Waits(k) => Waits(k)'
    <3> SUFFICES ASSUME NEW k \in DOMAIN job, Waits(k) PROVE Waits(k)'
      OBVIOUS
    <3>1. CASE k = j
      BY <1>3, <1>5, <1>7, <1>8, <1>9, <1>11, <3>1 DEF Waits
    <3>2. CASE k # j
      BY <1>7, <1>8, <1>9, <1>11, <3>2 DEF Waits
    <3> QED BY <3>1, <3>2
  <2>2. \A x \in Studies : study[x] # NotStudied /\ study[x].job # 0 =>
            job'[study[x].job].state = job[study[x].job].state
    BY <1>7, <1>15, StudyIs DEF RInv, QueueInv, RunsKept, Study
  <2>3. \A v \in QueueWorkers : qworker'[v].pc = "judging" => qworker'[v] = qworker[v]
    BY <1>8, <1>9
  <2> QED BY <1>1, <1>7, <1>14, <2>1, <2>2, <2>3, StatusWaits
<1> QED BY <1>1, <1>10, <1>12, <1>13, <1>16, <1>17, RestsItself DEF RInv, QueueInv

\* A worker that waits for a run, and the job and the run it has.
LEMMA RunningFacts ==
    ASSUME RInv, NEW w \in QueueWorkers, qworker[w].pc = "running"
    PROVE  /\ qworker[w] # IdleWorker /\ qworker[w] \in Worker
           /\ qworker[w].job \in JobIds /\ qworker[w].job # 0 /\ qworker[w].study \in Studies
           /\ Holds(w, qworker[w].job)
           /\ qworker[w].job \in DOMAIN job /\ job[qworker[w].job].state = "RUNNING"
           /\ \A v \in QueueWorkers : Holds(v, qworker[w].job) <=> v = w
           /\ study[qworker[w].study] # NotStudied
           /\ study[qworker[w].study].job = qworker[w].job
           /\ \A x \in Studies : study[x] # NotStudied /\ study[x].job = qworker[w].job
                                    => x = qworker[w].study
<1>1. /\ qworker[w] # IdleWorker /\ qworker[w] \in Worker
      /\ qworker[w].job \in JobIds /\ qworker[w].study \in Studies
  BY WorkerIs, QueueFacts
<1>2. qworker[w].job # 0 /\ Holds(w, qworker[w].job)
  BY <1>1, ResearchNumbers DEF Holds
<1>3. study[qworker[w].study] # NotStudied /\ study[qworker[w].study].job = qworker[w].job
  BY <1>1, <1>2 DEF RInv, QueueInv, WorkersKept
<1> QED BY <1>1, <1>2, <1>3 DEF RInv, QueueInv, WorkersKept, RunsKept

LEMMA JudgeInv == ASSUME RInv, NEW w \in QueueWorkers, Judge(w) PROVE RInv'
<1>1. /\ qworker[w].pc = "running" /\ study[qworker[w].study].pc = "finished"
      /\ UNCHANGED <<research, job, enqueuer, study, response, deaths>>
  BY DEF Judge
<1> PICK j \in JobIds : j = qworker[w].job
  BY <1>1, RunningFacts
<1> PICK r \in Studies : r = qworker[w].study
  BY <1>1, RunningFacts
<1> PICK f : f = (research.status = "FAILED")
  OBVIOUS
<1>2. f \in BOOLEAN
  OBVIOUS
<1> PICK y : y = [pc |-> "judging", job |-> j, failed |-> f]
  OBVIOUS
<1>3. y \in Worker /\ y # IdleWorker /\ y.pc = "judging" /\ y.job = j /\ y.failed = f
  BY <1>2 DEF Worker, IdleWorker
<1>4. /\ qworker' = [qworker EXCEPT ![w] = y] /\ qworker'[w] = y
      /\ \A v \in QueueWorkers : v # w => qworker'[v] = qworker[v]
  BY DEF Judge, RInv, RowsKept
<1>5. /\ j \in DOMAIN job /\ j # 0 /\ job[j].state = "RUNNING" /\ study[r] # NotStudied /\ study[r].job = j
      /\ \A v \in QueueWorkers : Holds(v, j) <=> v = w
      /\ \A x \in Studies : study[x] # NotStudied /\ study[x].job = j => x = r
  BY <1>1, RunningFacts
<1>6. \A v \in QueueWorkers : \A k : Holds(v, k)' <=> Holds(v, k)
  BY <1>1, <1>3, <1>4, RunningFacts DEF Holds
<1>7. \A x \in Studies : x # r => Awaited(x)' = Awaited(x)
  BY <1>1, <1>3, <1>4 DEF Awaited
<1>8. Awaited(r) /\ ~InProgress(r)
  BY <1>1 DEF Awaited, InProgress, Working
<1>9. ~Awaited(r)'
  <2> SUFFICES ASSUME NEW v \in QueueWorkers, qworker'[v].pc = "running", qworker'[v].study = r PROVE FALSE
    BY DEF Awaited
  <2>1. v # w /\ qworker[v].pc = "running" /\ qworker[v].study = r
    BY <1>3, <1>4
  <2>2. Holds(v, j)
    BY <1>5, <2>1, RunningFacts
  <2> QED BY <1>5, <2>1, <2>2
<1>10. RowsKept'
  BY <1>1, <1>3, <1>4 DEF RInv, RowsKept
<1>11. QueueKept'
  BY <1>1, <1>4, <1>6 DEF RInv, QueueInv, QueueKept, Undecided
<1>12. WorkersKept'
  BY <1>1, <1>3, <1>4, <1>5, <1>6 DEF RInv, QueueInv, WorkersKept
<1>13. RunsKept'
  BY <1>1, <1>3, <1>4, <1>6, <1>7, <1>8 DEF RInv, QueueInv, RunsKept, InProgress
<1>14. AloneKept'
  BY <1>1, <1>7, <1>8, <1>9 DEF RInv, StatusInv, AloneKept, Relies, InProgress
<1>15. JudgedKept'
  <2> SUFFICES ASSUME NEW v \in QueueWorkers, NEW x \in Studies, qworker'[v].pc = "judging",
                      study[x].pc = "finished", study[x].alone, study[x].job = qworker'[v].job
               PROVE  qworker'[v].failed = (Verdict(x) = "FAILED")
    BY <1>1 DEF JudgedKept, Verdict
  <2>1. CASE v = w
    <3>1. study[x] # NotStudied /\ x = r
      BY <1>3, <1>4, <1>5, <2>1 DEF NotStudied
    <3>2. research.status = study[r].seen /\ study[r].seen = Verdict(r)
      BY <1>1, <1>5, <1>8, <3>1 DEF RInv, StatusInv, AloneKept, Relies, DataInv, FinishedKept
    <3> QED BY <1>3, <1>4, <2>1, <3>1, <3>2
  <2>2. CASE v # w
    BY <1>4, <2>2 DEF RInv, StatusInv, JudgedKept
  <2> QED BY <2>1, <2>2
<1>16. JobVerdict'
  BY <1>1 DEF RInv, StatusInv, JobVerdict
<1>17. ActiveKept'
  <2>1. \A k \in DOMAIN job : Waits(k) => Waits(k)'
    BY <1>1, <1>3, <1>4, <1>5, <1>6 DEF Waits
  <2>2. ~Vouches(r)
    BY <1>1 DEF Vouches, Vouching, Working, Raised
  <2>3. \A x \in Studies : Vouches(x) => Vouches(x)'
    BY <1>1, <1>7, <2>2 DEF Vouches
  <2> QED BY <1>1, <2>1, <2>3 DEF RInv, StatusInv, ActiveKept
<1> QED BY <1>1, <1>10, <1>11, <1>12, <1>13, <1>14, <1>15, <1>16, <1>17, RestsItself
     DEF RInv, QueueInv, StatusInv

\* A worker is done with its job.
LeftQueue(w, j, s) ==
    /\ QueueInv'
    /\ job' \in Seq(ResearchJob) /\ DOMAIN job' = DOMAIN job
    /\ job'[j].state = s
    /\ \A k \in DOMAIN job : k # j => job'[k] = job[k]
    /\ qworker'[w] = IdleWorker
    /\ \A v \in QueueWorkers : v # w => qworker'[v] = qworker[v]
    /\ \A v \in QueueWorkers : \A k : Holds(v, k)' <=> Holds(v, k) /\ v # w
    /\ job[j].state = "RUNNING"
    /\ \A v \in QueueWorkers : Holds(v, j) => v = w
    /\ qworker' \in [QueueWorkers -> Worker]

LEMMA LeavesQueue ==
    ASSUME RInv, NEW w \in QueueWorkers, NEW j \in DOMAIN job, NEW s \in {"COMPLETED", "FAILED"},
           Holds(w, j), qworker[w].pc \in {"running", "judging"}, job' = [job EXCEPT ![j].state = s],
           qworker' = [qworker EXCEPT ![w] = IdleWorker], UNCHANGED enqueuer,
           \A x \in Studies : Same(study[x], study'[x]),
           qworker[w].pc = "running" => ~InProgress(qworker[w].study)
    PROVE  LeftQueue(w, j, s)
<1>1. j \in JobIds /\ job[j] \in ResearchJob
  BY QueueFacts
<1>2. job[j].state = "RUNNING" /\ \A v \in QueueWorkers : Holds(v, j) => v = w
  BY <1>1 DEF RInv, QueueInv, WorkersKept
<1> PICK e : e = [job[j] EXCEPT !.state = s]
  OBVIOUS
<1>3. e \in ResearchJob /\ e.state = s /\ e.attempts = job[j].attempts /\ e.lock = job[j].lock
  BY <1>1 DEF ResearchJob, ResearchJobState
<1>4. job' = [job EXCEPT ![j] = e]
  OBVIOUS
<1>5. /\ job' \in Seq(ResearchJob) /\ Len(job') = Len(job) /\ DOMAIN job' = DOMAIN job
      /\ job'[j] = e /\ \A k \in DOMAIN job : k # j => job'[k] = job[k]
  BY <1>3, <1>4, JobChanges
<1>6. qworker'[w] = IdleWorker /\ \A v \in QueueWorkers : v # w => qworker'[v] = qworker[v]
  BY DEF RInv, RowsKept
<1>7. \A v \in QueueWorkers : \A k : Holds(v, k)' <=> Holds(v, k) /\ v # w
  BY <1>6 DEF Holds
<1>8. \A v \in QueueWorkers : job[j].lock # v
  BY <1>2 DEF RInv, QueueInv, QueueKept
<1>9. QueueKept'
  <2>1. Undecided' = Undecided
    BY DEF Undecided
  <2>2. Len(job') + Cardinality(Undecided') <= Cardinality(Enqueuers)
    BY <1>5, <2>1 DEF RInv, QueueInv, QueueKept
  <2>3. \A k \in DOMAIN job : job'[k].attempts = job[k].attempts /\ job'[k].lock = job[k].lock
    BY <1>3, <1>5
  <2>4. \A k \in DOMAIN job : job'[k].attempts <= 1 /\ (job'[k].state = "PENDING" => job'[k].attempts = 0)
    BY <1>3, <1>5, <2>3 DEF RInv, QueueInv, QueueKept
  <2>5. \A k \in DOMAIN job, v \in QueueWorkers : job'[k].lock = v =>
            job'[k].state = "PENDING" /\ Holds(v, k)' /\ qworker'[v].pc = "locked"
    <3> SUFFICES ASSUME NEW k \in DOMAIN job, NEW v \in QueueWorkers, job'[k].lock = v
                 PROVE  job'[k].state = "PENDING" /\ Holds(v, k)' /\ qworker'[v].pc = "locked"
      OBVIOUS
    <3>1. k # j /\ job[k].state = "PENDING" /\ Holds(v, k) /\ qworker[v].pc = "locked"
      BY <1>8, <2>3 DEF RInv, QueueInv, QueueKept
    <3> QED BY <1>5, <1>6, <1>7, <3>1
  <2> QED BY <1>5, <2>2, <2>4, <2>5 DEF QueueKept
<1>10. WorkersKept'
  <2> SUFFICES ASSUME NEW v \in QueueWorkers, NEW k \in JobIds, Holds(v, k)'
               PROVE  /\ k \in DOMAIN job'
                      /\ IF qworker'[v].pc = "locked" THEN job'[k].lock = v ELSE job'[k].state = "RUNNING"
                      /\ \A u \in QueueWorkers : Holds(u, k)' => u = v
                      /\ \A r \in Studies : qworker'[v].pc = "running" /\ qworker'[v].study = r =>
                            study'[r] # NotStudied /\ study'[r].job = k
    BY DEF WorkersKept
  <2>1. v # w /\ Holds(v, k) /\ k # j /\ qworker'[v] = qworker[v]
    BY <1>2, <1>6, <1>7
  <2> QED BY <1>5, <1>7, <2>1 DEF RInv, QueueInv, WorkersKept, Same
<1>11. RunsKept'
  <2> SUFFICES ASSUME NEW r \in Studies, NEW k \in JobIds, study'[r] # NotStudied, study'[r].job = k
               PROVE  /\ k \in DOMAIN job' /\ job'[k].state # "PENDING"
                      /\ \A x \in Studies : study'[x] # NotStudied /\ study'[x].job = k => x = r
                      /\ \A v \in QueueWorkers : Holds(v, k)' => qworker'[v].pc \in {"running", "judging"}
                      /\ InProgress(r)' => Awaited(r)'
    BY DEF RunsKept
  <2>1. study[r] # NotStudied /\ study[r].job = k
    BY DEF Same
  <2>2. k \in DOMAIN job' /\ job'[k].state # "PENDING"
    BY <1>3, <1>5, <2>1 DEF RInv, QueueInv, RunsKept
  <2>3. \A x \in Studies : study'[x] # NotStudied /\ study'[x].job = k => x = r
    BY <2>1 DEF RInv, QueueInv, RunsKept, Same
  <2>4. \A v \in QueueWorkers : Holds(v, k)' => qworker'[v].pc \in {"running", "judging"}
    BY <1>6, <1>7, <2>1 DEF RInv, QueueInv, RunsKept
  <2>5. ASSUME InProgress(r)' PROVE Awaited(r)'
    <3>1. InProgress(r) /\ Awaited(r)
      BY <2>1, <2>5 DEF Same, InProgress, RInv, QueueInv, RunsKept
    <3>2. PICK v \in QueueWorkers : qworker[v].pc = "running" /\ qworker[v].study = r
      BY <3>1 DEF Awaited
    <3> QED BY <1>6, <3>1, <3>2 DEF Awaited
  <2> QED BY <2>2, <2>3, <2>4, <2>5
<1>12. qworker' \in [QueueWorkers -> Worker]
  BY DEF RInv, RowsKept, Worker
<1> QED BY <1>2, <1>3, <1>5, <1>6, <1>7, <1>9, <1>10, <1>11, <1>12 DEF QueueInv, LeftQueue

LEMMA JudgingFacts ==
    ASSUME RInv, NEW w \in QueueWorkers, qworker[w].pc = "judging"
    PROVE  /\ qworker[w].job \in DOMAIN job /\ Holds(w, qworker[w].job) /\ qworker[w].failed \in BOOLEAN
           /\ ~\E r \in Studies : study[r] # NotStudied /\ study[r].job = qworker[w].job /\ InProgress(r)
<1>1. qworker[w] # IdleWorker /\ qworker[w].job \in JobIds /\ qworker[w].failed \in BOOLEAN
  BY WorkerIs, QueueFacts
<1>2. Holds(w, qworker[w].job) /\ qworker[w].job \in DOMAIN job
  BY <1>1 DEF Holds, RInv, QueueInv, WorkersKept
<1>3. ASSUME NEW r \in Studies, study[r] # NotStudied, study[r].job = qworker[w].job, InProgress(r)
      PROVE  FALSE
  <2>1. Awaited(r)
    BY <1>1, <1>3 DEF RInv, QueueInv, RunsKept
  <2>2. PICK v \in QueueWorkers : qworker[v].pc = "running" /\ qworker[v].study = r
    BY <2>1 DEF Awaited
  <2>3. Holds(v, qworker[w].job)
    BY <1>3, <2>2, RunningFacts
  <2>4. v = w
    BY <1>1, <1>2, <2>3 DEF RInv, QueueInv, WorkersKept
  <2> QED BY <2>2, <2>4
<1> QED BY <1>1, <1>2, <1>3

LEMMA EndJobInv == ASSUME RInv, NEW w \in QueueWorkers, EndJob(w) PROVE RInv'
<1>1. qworker[w].pc = "judging" /\ UNCHANGED <<research, enqueuer, study, response, deaths>>
  BY DEF EndJob
<1> PICK j \in DOMAIN job : j = qworker[w].job
  BY <1>1, JudgingFacts
<1> PICK s \in {"COMPLETED", "FAILED"} : s = IF qworker[w].failed THEN "FAILED" ELSE "COMPLETED"
  OBVIOUS
<1>2. job' = [job EXCEPT ![j].state = s] /\ qworker' = [qworker EXCEPT ![w] = IdleWorker] /\ Holds(w, j)
  BY <1>1, JudgingFacts DEF EndJob
<1>3. \A x \in Studies : Same(study[x], study'[x])
  BY <1>1, SameItself
<1>4. LeftQueue(w, j, s)
  <2>1. qworker[w].pc \in {"running", "judging"} /\ (qworker[w].pc = "running" => ~InProgress(qworker[w].study))
    BY <1>1
  <2> QED BY <1>1, <1>2, <1>3, <2>1, LeavesQueue
<1>5. RowsKept'
  BY <1>1, <1>4 DEF RInv, RowsKept, LeftQueue
<1>6. \A x \in Studies : Awaited(x)' = Awaited(x)
  BY <1>1, <1>4 DEF Awaited, IdleWorker, LeftQueue
<1>7. AloneKept'
  BY <1>1, <1>6 DEF RInv, StatusInv, AloneKept, Relies, InProgress
<1>8. JudgedKept'
  <2>1. \A v \in QueueWorkers : qworker'[v].pc = "judging" => qworker'[v] = qworker[v]
    BY <1>4 DEF IdleWorker, LeftQueue
  <2> QED BY <1>1, <2>1 DEF RInv, StatusInv, JudgedKept, Verdict
<1>9. JobVerdict'
  <2> SUFFICES ASSUME NEW x \in Studies, study[x].pc = "finished", study[x].job # 0, study[x].alone,
                      NEW answered,
                      answered = (/\ Len(response[x]) = study[x].width
                                  /\ \A i \in DOMAIN response[x] : response[x][i].answer)
               PROVE  /\ job'[study[x].job].state = "COMPLETED" => answered
                      /\ job'[study[x].job].state = "FAILED" => ~answered
    BY <1>1 DEF JobVerdict
  <2>1. study[x] # NotStudied /\ study[x].job \in DOMAIN job
    <3>1. study[x] \in Study /\ study[x] # NotStudied
      BY StudyIs DEF RInv
    <3> QED BY <3>1 DEF RInv, QueueInv, RunsKept, Study
  <2>2. CASE study[x].job = j
    <3>1. qworker[w].failed = (Verdict(x) = "FAILED")
      BY <1>1, <2>2 DEF RInv, StatusInv, JudgedKept
    <3>2. Len(response[x]) = study[x].width
      BY DEF RInv, DataInv, ResponsesKept, Stored
    <3> QED BY <1>4, <2>2, <3>1, <3>2 DEF Verdict, LeftQueue
  <2>3. CASE study[x].job # j
    <3>1. job'[study[x].job] = job[study[x].job]
      BY <1>4, <2>1, <2>3 DEF LeftQueue
    <3> QED BY <3>1 DEF RInv, StatusInv, JobVerdict
  <2> QED BY <2>2, <2>3
<1>10. ActiveKept'
  <2>1. \A k \in DOMAIN job : Waits(k) => k # j
    BY <1>1, <1>2, <1>4 DEF Waits, LeftQueue
  <2>2. \A k \in DOMAIN job : Waits(k) => Waits(k)'
    BY <1>4, <2>1 DEF Waits, LeftQueue
  <2>3. \A x \in Studies : Vouches(x)' = Vouches(x)
    BY <1>1, <1>6 DEF Vouches
  <2> QED BY <1>1, <1>4, <2>2, <2>3 DEF RInv, StatusInv, ActiveKept, LeftQueue
<1> QED BY <1>1, <1>4, <1>5, <1>7, <1>8, <1>9, <1>10, RestsItself DEF RInv, StatusInv, LeftQueue

LEMMA FailJobInv == ASSUME RInv, NEW w \in QueueWorkers, FailJob(w) PROVE RInv'
<1>1. /\ qworker[w].pc = "running" /\ study[qworker[w].study].pc \in Raised
      /\ study' = Disturbed /\ UNCHANGED <<enqueuer, response, deaths>>
  BY DEF FailJob
<1> PICK j \in DOMAIN job : j = qworker[w].job
  BY <1>1, RunningFacts
<1> PICK r \in Studies : r = qworker[w].study
  BY <1>1, RunningFacts
<1>2. /\ Holds(w, j) /\ study[r] # NotStudied /\ study[r].job = j /\ j # 0
      /\ \A x \in Studies : study[x] # NotStudied /\ study[x].job = j => x = r
  BY <1>1, RunningFacts
<1>3. /\ job' = [job EXCEPT ![j].state = "FAILED"] /\ qworker' = [qworker EXCEPT ![w] = IdleWorker]
      /\ research' \in Research /\ research'.total = research.total /\ research'.score = research.score
      /\ research'.status = IF study[r].seen = "FAILED" THEN research.status ELSE "FAILED"
  BY DEF FailJob, RInv, RowsKept, Research, ResearchStatus
<1>4. /\ \A x \in Studies : Same(study[x], study'[x])
      /\ study' \in [Studies -> Study \cup {NotStudied}]
  BY <1>1, DisturbedAll DEF RInv
<1>5. LeftQueue(w, j, "FAILED")
  <2>1. qworker[w].pc \in {"running", "judging"} /\ (qworker[w].pc = "running" => ~InProgress(qworker[w].study))
    BY <1>1 DEF InProgress, Raised, Working
  <2> QED BY <1>1, <1>2, <1>3, <1>4, <2>1, LeavesQueue
<1>6. RowsKept'
  BY <1>1, <1>3, <1>4, <1>5 DEF RInv, RowsKept, LeftQueue
<1>7. \A x \in Studies : (Awaited(x)' => Awaited(x)) /\ (x # r => Awaited(x)' = Awaited(x))
  BY <1>1, <1>5 DEF Awaited, IdleWorker, LeftQueue
<1>8. AloneKept'
  BY <1>1, <1>7, DisturbsAll
<1>9. JudgedKept'
  <2>1. \A v \in QueueWorkers : qworker'[v].pc = "judging" => qworker'[v] = qworker[v]
    BY <1>5 DEF IdleWorker, LeftQueue
  <2> QED BY <1>1, <1>4, <2>1, SameFinished DEF RInv, StatusInv, JudgedKept, Verdict
<1>10. JobVerdict'
  <2>1. \A x \in Studies : study[x] # NotStudied /\ study[x].job # 0 => study[x].job \in DOMAIN job
    BY StudyIs DEF RInv, QueueInv, RunsKept, Study
  <2>2. \A x \in Studies : study[x].pc = "finished" /\ study[x] # NotStudied => study[x].job # j
    BY <1>1, <1>2 DEF Raised
  <2>3. \A x \in Studies : study[x].pc = "finished" /\ study[x] # NotStudied /\ study[x].job # 0 =>
            job'[study[x].job] = job[study[x].job]
    BY <1>5, <2>1, <2>2 DEF LeftQueue
  <2> QED BY <1>1, <1>4, <2>3, SameFinished, VerdictStands
<1>11. ActiveKept'
  <2> SUFFICES ASSUME research'.status = "ACTIVE"
               PROVE  (\E k \in DOMAIN job : Waits(k)') \/ (\E x \in Studies : Vouches(x)')
    BY <1>5 DEF ActiveKept, LeftQueue
  <2>1. research.status = "ACTIVE" /\ study[r].seen = "FAILED"
    BY <1>3
  <2>2. ~Vouches(r)
    BY <1>1, <1>2, <2>1 DEF Vouches, Vouching, Raised, Working
  <2>3. \A x \in Studies : Vouches(x) => Vouches(x)'
    BY <1>4, <1>7, <2>2 DEF Vouches, Vouching, Same
  <2>4. \A k \in DOMAIN job : Waits(k) => k # j
    BY <1>1, <1>2, <1>5 DEF Waits, LeftQueue
  <2>5. \A k \in DOMAIN job : Waits(k) => Waits(k)'
    BY <1>5, <2>4 DEF Waits, LeftQueue
  <2> QED BY <2>1, <2>3, <2>5 DEF RInv, StatusInv, ActiveKept
<1>12. DataInv'
  BY <1>1, <1>3, <1>4, RestsData
<1> QED BY <1>5, <1>6, <1>8, <1>9, <1>10, <1>11, <1>12 DEF RInv, StatusInv, LeftQueue

-----------------------------------------------------------------------------
(***************************************************************************)
(* A worker process is replaced                                            *)
(***************************************************************************)
LEMMA ReplaceInv ==
    ASSUME RInv, NEW w \in QueueWorkers, Replace(w), deaths' \in 0..MaxDeaths
    PROVE  RInv'
<1>1. UNCHANGED <<research, enqueuer, response>>
  BY DEF Replace
<1>2. /\ \A j \in DOMAIN job : job'[j] = IF job[j].lock = w THEN [job[j] EXCEPT !.lock = "none"] ELSE job[j]
      /\ DOMAIN job' = DOMAIN job
  BY DEF Replace
<1>3. \A j \in DOMAIN job : /\ job'[j] \in ResearchJob /\ job'[j].state = job[j].state
                            /\ job'[j].attempts = job[j].attempts
                            /\ job'[j].lock = IF job[j].lock = w THEN "none" ELSE job[j].lock
  BY <1>2, QueueFacts DEF ResearchJob
<1>4. job' \in Seq(ResearchJob) /\ Len(job') = Len(job)
  <2>1. job' = [j \in 1..Len(job) |-> job'[j]]
    BY QueueFacts DEF Replace
  <2>2. \A j \in 1..Len(job) : job'[j] \in ResearchJob
    BY <1>3, QueueFacts
  <2>3. Len(job) \in Nat
    BY QueueFacts
  <2> HIDE DEF Replace
  <2> QED BY <2>1, <2>2, <2>3, IsASeq, LenProperties
<1>5. /\ qworker' = [qworker EXCEPT ![w] = IdleWorker] /\ qworker'[w] = IdleWorker
      /\ \A v \in QueueWorkers : v # w => qworker'[v] = qworker[v]
      /\ qworker' \in [QueueWorkers -> Worker]
  BY DEF Replace, RInv, RowsKept, Worker
<1>6. \A v \in QueueWorkers : \A k : Holds(v, k)' <=> Holds(v, k) /\ v # w
  BY <1>5 DEF Holds
<1> DEFINE dies(x) == qworker[w].pc = "running" /\ qworker[w].study = x /\ InProgress(x)
<1>7. \A x \in Studies :
        /\ ~dies(x) => study'[x] = study[x]
        /\ dies(x) => /\ study'[x] \in Study /\ study'[x] # NotStudied /\ study[x] # NotStudied
                      /\ study'[x].pc = "dead" /\ study'[x].job = study[x].job
                      /\ study'[x].width = study[x].width /\ study'[x].total = study[x].total
                      /\ study'[x].seen = study[x].seen /\ study'[x].alone = study[x].alone
  <2> SUFFICES ASSUME NEW x \in Studies
               PROVE  /\ ~dies(x) => study'[x] = study[x]
                      /\ dies(x) => /\ study'[x] \in Study /\ study'[x] # NotStudied /\ study[x] # NotStudied
                                    /\ study'[x].pc = "dead" /\ study'[x].job = study[x].job
                                    /\ study'[x].width = study[x].width /\ study'[x].total = study[x].total
                                    /\ study'[x].seen = study[x].seen /\ study'[x].alone = study[x].alone
    OBVIOUS
  <2>1. study'[x] = IF dies(x) THEN [study[x] EXCEPT !.pc = "dead"] ELSE study[x]
    BY DEF Replace
  <2>2. CASE ~dies(x)
    BY <2>1, <2>2
  <2>3. CASE dies(x)
    <3>1. study[x] \in Study /\ study[x] # NotStudied
      BY <2>3, StudyIs DEF RInv, InProgress, Working
    <3>2. PICK t : t = [study[x] EXCEPT !.pc = "dead"]
      OBVIOUS
    <3>3. /\ t \in Study /\ t.pc = "dead" /\ t.job = study[x].job /\ t.width = study[x].width
          /\ t.total = study[x].total /\ t.seen = study[x].seen /\ t.alone = study[x].alone
      BY <3>1, <3>2 DEF Study, Ended
    <3>4. t # NotStudied
      BY <3>3 DEF NotStudied
    <3> QED BY <2>1, <2>3, <3>1, <3>2, <3>3, <3>4
  <2> QED BY <2>2, <2>3
<1>8. study' = [x \in Studies |-> study'[x]]
  BY DEF Replace
<1>9. study' \in [Studies -> Study \cup {NotStudied}]
  <2>1. \A x \in Studies : study'[x] \in Study \cup {NotStudied}
    BY <1>7 DEF RInv, RowsKept
  <2> QED BY <1>8, <2>1
<1>10. \A x \in Studies : (InProgress(x)' <=> InProgress(x) /\ ~dies(x))
                          /\ (study'[x].pc = "finished" <=> study[x].pc = "finished")
                          /\ study'[x].job = study[x].job /\ study'[x].alone = study[x].alone
                          /\ study'[x].width = study[x].width
                          /\ (study'[x] = NotStudied <=> study[x] = NotStudied)
  BY <1>7 DEF InProgress, Working
<1>11. RowsKept'
  BY <1>1, <1>4, <1>5, <1>9 DEF RInv, RowsKept
<1>12. QueueKept'
  <2>1. Undecided' = Undecided
    BY <1>1 DEF Undecided
  <2>2. Len(job') + Cardinality(Undecided') <= Cardinality(Enqueuers)
    BY <1>1, <1>4, <2>1 DEF RInv, QueueInv, QueueKept
  <2>3. \A k \in DOMAIN job : job'[k].attempts <= 1 /\ (job'[k].state = "PENDING" => job'[k].attempts = 0)
    BY <1>3 DEF RInv, QueueInv, QueueKept
  <2>4. \A k \in DOMAIN job, v \in QueueWorkers : job'[k].lock = v => v # w /\ job[k].lock = v
    BY <1>3, ResearchNumbers
  <2>5. \A k \in DOMAIN job, v \in QueueWorkers : job'[k].lock = v =>
            job'[k].state = "PENDING" /\ Holds(v, k)' /\ qworker'[v].pc = "locked"
    BY <1>3, <1>5, <1>6, <2>4 DEF RInv, QueueInv, QueueKept
  <2> QED BY <1>2, <2>2, <2>3, <2>5 DEF QueueKept
<1>13. WorkersKept'
  <2> SUFFICES ASSUME NEW v \in QueueWorkers, NEW k \in JobIds, Holds(v, k)'
               PROVE  /\ k \in DOMAIN job'
                      /\ IF qworker'[v].pc = "locked" THEN job'[k].lock = v ELSE job'[k].state = "RUNNING"
                      /\ \A u \in QueueWorkers : Holds(u, k)' => u = v
                      /\ \A r \in Studies : qworker'[v].pc = "running" /\ qworker'[v].study = r =>
                            study'[r] # NotStudied /\ study'[r].job = k
    BY DEF WorkersKept
  <2>1. v # w /\ Holds(v, k) /\ qworker'[v] = qworker[v] /\ k \in DOMAIN job
    BY <1>5, <1>6 DEF RInv, QueueInv, WorkersKept
  <2> QED BY <1>2, <1>3, <1>6, <1>10, <2>1 DEF RInv, QueueInv, WorkersKept
<1>14. \A x \in Studies : (Awaited(x)' => Awaited(x)) /\ (Awaited(x) /\ InProgress(x)' => Awaited(x)')
  BY <1>5, <1>10 DEF Awaited, IdleWorker
<1>15. RunsKept'
  <2> SUFFICES ASSUME NEW r \in Studies, NEW k \in JobIds, study'[r] # NotStudied, study'[r].job = k
               PROVE  /\ k \in DOMAIN job' /\ job'[k].state # "PENDING"
                      /\ \A x \in Studies : study'[x] # NotStudied /\ study'[x].job = k => x = r
                      /\ \A v \in QueueWorkers : Holds(v, k)' => qworker'[v].pc \in {"running", "judging"}
                      /\ InProgress(r)' => Awaited(r)'
    BY DEF RunsKept
  <2>1. study[r] # NotStudied /\ study[r].job = k
    BY <1>10
  <2>2. k \in DOMAIN job' /\ job'[k].state # "PENDING"
    BY <1>2, <1>3, <2>1 DEF RInv, QueueInv, RunsKept
  <2>3. \A x \in Studies : study'[x] # NotStudied /\ study'[x].job = k => x = r
    BY <1>10, <2>1 DEF RInv, QueueInv, RunsKept
  <2>4. \A v \in QueueWorkers : Holds(v, k)' => qworker'[v].pc \in {"running", "judging"}
    BY <1>5, <1>6, <2>1 DEF RInv, QueueInv, RunsKept
  <2>5. InProgress(r)' => Awaited(r)'
    BY <1>10, <1>14, <2>1 DEF RInv, QueueInv, RunsKept
  <2> QED BY <2>2, <2>3, <2>4, <2>5
<1>16. DataInv'
  <2>1. CASE \A x \in Studies : ~dies(x)
    <3>1. UNCHANGED study
      BY <1>7, <1>8, <2>1 DEF RInv, RowsKept
    <3> QED BY <1>1, <3>1, RestsItself
  <2>2. CASE \E x \in Studies : dies(x)
    <3>1. PICK r \in Studies : dies(r)
      BY <2>2
    <3>2. PICK t : t = study'[r]
      OBVIOUS
    <3>3. \A x \in Studies : x # r => ~dies(x)
      BY <3>1
    <3>4. RunTakes(r, t)
      BY <1>1, <1>7, <1>9, <3>1, <3>2, <3>3, SameItself DEF RunTakes, RInv, RowsKept
    <3>5. Stored(t, response'[r]) /\ IsFiniteSet(Responses')
      BY <1>1, <1>7, <3>1, <3>2, RunFacts DEF Stored, Scoring, Responses
    <3>6. ScoreKept'
      BY <1>7, <3>1 DEF ScoreKept, NoneLost
    <3>7. t.pc = "dead" /\ t.total = study[r].total
      BY <1>7, <3>1, <3>2
    <3> QED BY <1>1, <3>4, <3>5, <3>6, <3>7, RunTakesData
  <2> QED BY <2>1, <2>2
<1>17. AloneKept'
  <2> SUFFICES ASSUME NEW x \in Studies, study'[x] # NotStudied, study'[x].alone, Relies(x)'
               PROVE  /\ \A s \in Studies : s # x => ~InProgress(s)'
                      /\ research'.status = study'[x].seen
    BY DEF AloneKept
  <2>1. study[x] # NotStudied /\ study[x].alone /\ Relies(x) /\ study'[x] = study[x]
    BY <1>7, <1>10, <1>14 DEF Relies, InProgress, Working
  <2> QED BY <1>1, <1>10, <2>1 DEF RInv, StatusInv, AloneKept
<1>18. JudgedKept'
  <2>1. \A v \in QueueWorkers : qworker'[v].pc = "judging" => qworker'[v] = qworker[v]
    BY <1>5 DEF IdleWorker
  <2> QED BY <1>1, <1>10, <2>1 DEF RInv, StatusInv, JudgedKept, Verdict
<1>19. JobVerdict'
  <2>1. \A x \in Studies : study[x].pc = "finished" /\ study[x].job # 0 => study[x].job \in DOMAIN job
    BY StudyIs DEF RInv, QueueInv, RunsKept, Study
  <2> QED BY <1>1, <1>3, <1>10, <2>1, VerdictStands
<1>20. ActiveKept'
  <2> SUFFICES ASSUME research.status = "ACTIVE"
               PROVE  (\E k \in DOMAIN job : Waits(k)') \/ (\E x \in Studies : Vouches(x)')
    BY <1>1, <1>2 DEF ActiveKept
  <2>1. CASE qworker[w].pc \in {"taken", "running", "judging"}
    <3>1. PICK j \in JobIds : Holds(w, j)
      BY <2>1, WorkerIs, QueueFacts DEF Holds, IdleWorker
    <3>2. j \in DOMAIN job /\ job[j].state = "RUNNING" /\ \A v \in QueueWorkers : Holds(v, j) => v = w
      BY <2>1, <3>1 DEF RInv, QueueInv, WorkersKept
    <3>3. Waits(j)'
      BY <1>3, <1>6, <3>2 DEF Waits
    <3> QED BY <3>2, <3>3
  <2>2. CASE qworker[w].pc \in {"idle", "locked"}
    <3>1. \A x \in Studies : study'[x] = study[x]
      BY <1>7, <2>2
    <3>2. \A x \in Studies : Awaited(x)' = Awaited(x)
      BY <1>5, <2>2 DEF Awaited, IdleWorker
    <3>3. \A x \in Studies : Vouches(x)' = Vouches(x)
      BY <3>1, <3>2 DEF Vouches
    <3>4. \A k \in DOMAIN job : Waits(k) => Waits(k)'
      BY <1>3, <1>5, <1>6 DEF Waits
    <3> QED BY <3>3, <3>4 DEF RInv, StatusInv, ActiveKept
  <2> QED BY <2>1, <2>2, WorkerIs, QueueFacts
<1> QED BY <1>11, <1>12, <1>13, <1>15, <1>16, <1>17, <1>18, <1>19, <1>20 DEF RInv, QueueInv, StatusInv

LEMMA GiveUpInv == ASSUME RInv, NEW w \in QueueWorkers, GiveUp(w) PROVE RInv'
BY ReplaceInv DEF GiveUp, RInv, RowsKept

LEMMA RestartInv == ASSUME RInv, NEW w \in QueueWorkers, Restart(w) PROVE RInv'
<1>1. deaths' \in 0..MaxDeaths /\ Replace(w)
  BY ResearchNumbers DEF Restart, RInv, RowsKept
<1> QED BY <1>1, ReplaceInv

-----------------------------------------------------------------------------
(***************************************************************************)
(* A run begins                                                            *)
(***************************************************************************)
Begins(r, t) ==
    /\ r \in Studies /\ study[r] = NotStudied
    /\ t \in Study /\ t # NotStudied
    /\ t.pc \in {"opening", "refused"} /\ (t.pc = "refused" => research.status \in Refuses(t.job))
    /\ t.seen = research.status /\ t.total = research.total
    /\ t.alone => \A x \in Studies : ~InProgress(x)
    /\ study'[r] = t
    /\ study' \in [Studies -> Study \cup {NotStudied}]
    /\ \A x \in Studies : x # r => Same(study[x], study'[x])
    /\ \A x \in Studies : x # r /\ Relies(x) => ~study'[x].alone
    /\ UNCHANGED <<research, job, enqueuer, response, deaths>>

LEMMA BeginRunIs ==
    ASSUME RInv, NEW r \in Studies, NEW j \in JobIds \cup {0}, NEW width \in Nat \ {0},
           BeginRun(r, j, width)
    PROVE  \E t : Begins(r, t) /\ t.job = j
<1> PICK busy : busy = \E x \in Studies : InProgress(x)
  OBVIOUS
<1> PICK pc \in {"opening", "refused"} :
        pc = IF research.status \in Refuses(j) THEN "refused" ELSE "opening"
  OBVIOUS
<1> PICK t : t = [pc |-> pc, job |-> j, width |-> width, seen |-> research.status,
                  total |-> research.total, found |-> 0, row |-> FALSE, alone |-> ~busy]
  OBVIOUS
<1>1. t \in Study
  BY DEF Study, Working, Ended, RInv, RowsKept, Research
<1>2. t # NotStudied
  BY DEF NotStudied
<1>3. study' = [Disturbed EXCEPT ![r] = t] /\ study[r] = NotStudied
  BY DEF BeginRun
<1>4. Disturbed \in [Studies -> Study \cup {NotStudied}] /\ \A x \in Studies : Same(study[x], Disturbed[x])
  BY DisturbedAll DEF RInv
<1>5. \A x \in Studies : Relies(x) => ~Disturbed[x].alone
  BY DisturbedIs DEF RInv
<1>6. /\ study'[r] = t /\ study' \in [Studies -> Study \cup {NotStudied}]
      /\ \A x \in Studies : x # r => study'[x] = Disturbed[x]
  BY <1>1, <1>3, <1>4
<1>7. UNCHANGED <<research, job, enqueuer, response, deaths>>
  BY DEF BeginRun
<1>8. t.alone => \A x \in Studies : ~InProgress(x)
  OBVIOUS
<1>9. /\ t.pc = pc /\ t.job = j /\ t.seen = research.status /\ t.total = research.total
  OBVIOUS
<1> QED BY <1>1, <1>2, <1>3, <1>4, <1>5, <1>6, <1>7, <1>8, <1>9 DEF Begins

LEMMA BeginsData == ASSUME RInv, NEW r, NEW t, Begins(r, t) PROVE DataInv'
<1>1. Responses' = Responses /\ Processed' = Processed
  BY DEF Begins, Responses, Processed
<1>2. ResponsesKept'
  <2>1. Stored(study[r], response[r]) => Stored(t, response[r])
    <3> SUFFICES ASSUME Stored(study[r], response[r]) PROVE Stored(t, response[r])
      OBVIOUS
    <3>1. response[r] = <<>> /\ Len(response[r]) = 0
      BY DEF Begins, NotStudied, Stored
    <3>2. t.width \in Nat /\ t.pc \in {"opening", "refused"}
      BY DEF Begins, Study
    <3> QED BY <3>1, <3>2 DEF Stored, Scoring
  <2>2. \A x \in Studies : x # r => (Stored(study[x], response[x]) => Stored(study'[x], response'[x]))
    BY DEF Begins, Same, Stored
  <2> QED BY <1>1, <2>1, <2>2 DEF RInv, DataInv, ResponsesKept, Begins
<1>3. FinishedKept'
  BY DEF RInv, DataInv, FinishedKept, Begins, Same, Verdict
<1>4. TotalsKept'
  <2>1. \A x \in Studies : (Opened(x)' <=> Opened(x)) /\ (Opened(x) => study'[x].width = study[x].width)
    BY DEF Opened, Begins, Same, NotStudied
  <2>2. OpenWidths' = OpenWidths
    BY <2>1 DEF OpenWidths
  <2> QED BY <2>2 DEF RInv, DataInv, TotalsKept, Begins, Same
<1>5. AllAlone' => AllAlone
  BY DEF AllAlone, Begins, Same, Study
<1>6. FoundKept'
  BY <1>1, <1>5 DEF RInv, DataInv, FoundKept, Begins, Same
<1>7. ScoreKept'
  <2>1. NoneLost' => NoneLost
    BY DEF NoneLost, Begins, Same, NotStudied
  <2>2. \A x \in Studies : WillScore(x) => WillScore(x)'
    BY DEF WillScore, Begins, Same, NotStudied, Scoring
  <2>3. Scored => Scored'
    BY <1>1, <1>5 DEF Scored, Begins
  <2> QED BY <1>1, <2>1, <2>2, <2>3 DEF RInv, DataInv, ScoreKept
<1> QED BY <1>2, <1>3, <1>4, <1>6, <1>7 DEF DataInv

LEMMA BeginsStatus ==
    ASSUME RInv, NEW r, NEW t, Begins(r, t),
           \A x \in Studies : x # r => Awaited(x)' = Awaited(x),
           \A w \in QueueWorkers : qworker'[w].pc = "judging" => qworker'[w] = qworker[w],
           ActiveKept'
    PROVE  StatusInv'
<1>1. AloneKept'
  <2> SUFFICES ASSUME NEW x \in Studies, study'[x] # NotStudied, study'[x].alone, Relies(x)'
               PROVE  /\ \A s \in Studies : s # x => ~InProgress(s)'
                      /\ research'.status = study'[x].seen
    BY DEF AloneKept
  <2>1. x = r
    <3> SUFFICES ASSUME x # r PROVE FALSE
      OBVIOUS
    <3>1. Relies(x)
      BY DEF Begins, Same, Relies, InProgress
    <3> QED BY <3>1 DEF Begins
  <2> QED BY <2>1 DEF Begins, Same, InProgress
<1>2. \A x \in Studies : study'[x].pc = "finished" => x # r
  BY DEF Begins
<1>3. \A x \in Studies : study'[x].pc = "finished" =>
        /\ study[x].pc = "finished" /\ study'[x].job = study[x].job
        /\ study'[x].width = study[x].width /\ (study'[x].alone => study[x].alone)
  BY <1>2, SameFinished DEF Begins
<1>4. JudgedKept'
  BY <1>3 DEF RInv, StatusInv, JudgedKept, Verdict, Begins
<1>5. JobVerdict'
  BY <1>3, VerdictStands DEF Begins
<1> QED BY <1>1, <1>4, <1>5 DEF StatusInv

LEMMA RunJobInv ==
    ASSUME RInv, NEW w \in QueueWorkers, NEW r \in Studies, NEW width \in Widths.queued, RunJob(w, r, width)
    PROVE  RInv'
<1>1. qworker[w].pc = "taken" /\ qworker[w] # IdleWorker
  BY DEF RunJob, IdleWorker
<1> PICK j \in JobIds : j = qworker[w].job
  BY <1>1, WorkerIs, QueueFacts
<1>2. /\ j # 0 /\ Holds(w, j) /\ j \in DOMAIN job /\ job[j].state = "RUNNING"
      /\ \A v \in QueueWorkers : Holds(v, j) <=> v = w
  <2>1. j # 0 /\ Holds(w, j)
    BY <1>1, ResearchNumbers DEF Holds
  <2> QED BY <1>1, <2>1 DEF RInv, QueueInv, WorkersKept
<1>3. \A x \in Studies : study[x] # NotStudied => study[x].job # j
  BY <1>1, <1>2 DEF RInv, QueueInv, RunsKept
<1>4. PICK t : Begins(r, t) /\ t.job = j
  BY <1>1, BeginRunIs, ResearchNumbers DEF RunJob
<1> PICK y : y = [pc |-> "running", job |-> j, study |-> r]
  OBVIOUS
<1>5. y \in Worker /\ y # IdleWorker /\ y.pc = "running" /\ y.job = j /\ y.study = r
  BY DEF Worker, IdleWorker
<1>6. /\ qworker' = [qworker EXCEPT ![w] = y] /\ qworker'[w] = y
      /\ \A v \in QueueWorkers : v # w => qworker'[v] = qworker[v]
  BY DEF RunJob, RInv, RowsKept
<1>7. UNCHANGED <<research, job, enqueuer, response, deaths>> /\ study'[r] = t /\ t # NotStudied
  BY <1>4 DEF Begins
<1>8. \A v \in QueueWorkers : \A k : Holds(v, k)' <=> Holds(v, k)
  BY <1>1, <1>5, <1>6 DEF Holds
<1>9. \A x \in Studies : x # r => Awaited(x)' = Awaited(x)
  BY <1>1, <1>5, <1>6 DEF Awaited
<1>10. Awaited(r)'
  BY <1>5, <1>6 DEF Awaited
<1>11. \A x \in Studies : x # r => (study'[x] = NotStudied <=> study[x] = NotStudied)
                                   /\ study'[x].job = study[x].job /\ (InProgress(x)' <=> InProgress(x))
  BY <1>4 DEF Begins, Same, InProgress
<1>12. RowsKept'
  BY <1>4, <1>5, <1>6, <1>7 DEF RInv, RowsKept, Begins
<1>13. QueueKept'
  BY <1>1, <1>6, <1>7, <1>8 DEF RInv, QueueInv, QueueKept, Undecided
<1>14. WorkersKept'
  <2> SUFFICES ASSUME NEW v \in QueueWorkers, NEW k \in JobIds, Holds(v, k)'
               PROVE  /\ k \in DOMAIN job'
                      /\ IF qworker'[v].pc = "locked" THEN job'[k].lock = v ELSE job'[k].state = "RUNNING"
                      /\ \A u \in QueueWorkers : Holds(u, k)' => u = v
                      /\ \A x \in Studies : qworker'[v].pc = "running" /\ qworker'[v].study = x =>
                            study'[x] # NotStudied /\ study'[x].job = k
    BY DEF WorkersKept
  <2>1. CASE v = w
    <3>1. k = j
      BY <1>5, <1>6, <2>1 DEF Holds
    <3> QED BY <1>2, <1>4, <1>5, <1>6, <1>7, <1>8, <2>1, <3>1
  <2>2. CASE v # w
    <3>1. Holds(v, k) /\ qworker'[v] = qworker[v]
      BY <1>6, <1>8, <2>2
    <3>2. \A x \in Studies : qworker[v].pc = "running" /\ qworker[v].study = x =>
            study[x] # NotStudied /\ study[x].job = k
      BY <3>1 DEF RInv, QueueInv, WorkersKept
    <3>3. \A x \in Studies : study[x] # NotStudied => x # r
      BY <1>4 DEF Begins
    <3> QED BY <1>7, <1>8, <1>11, <3>1, <3>2, <3>3 DEF RInv, QueueInv, WorkersKept
  <2> QED BY <2>1, <2>2
<1>15. RunsKept'
  <2> SUFFICES ASSUME NEW x \in Studies, NEW k \in JobIds, study'[x] # NotStudied, study'[x].job = k
               PROVE  /\ k \in DOMAIN job' /\ job'[k].state # "PENDING"
                      /\ \A s \in Studies : study'[s] # NotStudied /\ study'[s].job = k => s = x
                      /\ \A v \in QueueWorkers : Holds(v, k)' => qworker'[v].pc \in {"running", "judging"}
                      /\ InProgress(x)' => Awaited(x)'
    BY DEF RunsKept
  <2>1. CASE x = r
    <3>1. k = j
      BY <1>4, <1>7, <2>1
    <3> QED BY <1>2, <1>3, <1>5, <1>6, <1>7, <1>8, <1>10, <1>11, <2>1, <3>1
  <2>2. CASE x # r
    <3>1. study[x] # NotStudied /\ study[x].job = k /\ k # j
      BY <1>3, <1>11, <2>2
    <3>2. k \in DOMAIN job' /\ job'[k].state # "PENDING"
      BY <1>7, <3>1 DEF RInv, QueueInv, RunsKept
    <3>3. \A s \in Studies : study'[s] # NotStudied /\ study'[s].job = k => s = x
      BY <1>4, <1>7, <1>11, <3>1 DEF RInv, QueueInv, RunsKept
    <3>4. \A v \in QueueWorkers : Holds(v, k)' => qworker'[v].pc \in {"running", "judging"}
      BY <1>5, <1>6, <1>8, <3>1 DEF RInv, QueueInv, RunsKept
    <3>5. InProgress(x)' => Awaited(x)'
      BY <1>9, <1>11, <2>2, <3>1 DEF RInv, QueueInv, RunsKept
    <3> QED BY <3>2, <3>3, <3>4, <3>5
  <2> QED BY <2>1, <2>2
<1>16. ActiveKept'
  <2> SUFFICES ASSUME research.status = "ACTIVE"
               PROVE  (\E k \in DOMAIN job : Waits(k)') \/ (\E x \in Studies : Vouches(x)')
    BY <1>7 DEF ActiveKept
  <2>1. t.pc = "opening"
    BY <1>2, <1>4 DEF Begins, Refuses
  <2> QED BY <1>7, <2>1 DEF Vouches, Vouching
<1>17. \A v \in QueueWorkers : qworker'[v].pc = "judging" => qworker'[v] = qworker[v]
  BY <1>5, <1>6
<1> QED BY <1>4, <1>9, <1>12, <1>13, <1>14, <1>15, <1>16, <1>17, BeginsData, BeginsStatus DEF RInv, QueueInv

LEMMA RunNowInv ==
    ASSUME RInv, NEW r \in Studies, NEW width \in Widths.direct, RunNow(r, width)
    PROVE  RInv'
<1>1. PICK t : Begins(r, t) /\ t.job = 0
  BY BeginRunIs, ResearchNumbers DEF RunNow
<1>2. UNCHANGED <<research, job, enqueuer, qworker, response, deaths>> /\ study'[r] = t /\ t # NotStudied
  BY <1>1 DEF Begins, RunNow
<1>3. \A x \in Studies : Awaited(x)' = Awaited(x)
  BY <1>2 DEF Awaited
<1>4. \A x \in Studies : x # r => (study'[x] = NotStudied <=> study[x] = NotStudied)
                                   /\ study'[x].job = study[x].job /\ (InProgress(x)' <=> InProgress(x))
  BY <1>1 DEF Begins, Same, InProgress
<1>5. study[r] = NotStudied /\ \A k \in JobIds : k # 0
  BY <1>1, ResearchNumbers DEF Begins
<1>6. RowsKept'
  BY <1>1, <1>2 DEF RInv, RowsKept, Begins
<1>7. QueueKept'
  BY <1>2 DEF RInv, QueueInv, QueueKept, Undecided, Holds
<1>8. WorkersKept'
  BY <1>2, <1>4, <1>5 DEF RInv, QueueInv, WorkersKept, Holds
<1>9. RunsKept'
  <2>1. \A x \in Studies, k \in JobIds : study'[x] # NotStudied /\ study'[x].job = k =>
            x # r /\ study[x] # NotStudied /\ study[x].job = k
    BY <1>1, <1>2, <1>4, <1>5
  <2> QED BY <1>2, <1>3, <1>4, <2>1 DEF RInv, QueueInv, RunsKept, Holds
<1>10. ActiveKept'
  <2>1. \A k \in DOMAIN job : Waits(k)' = Waits(k)
    BY <1>2 DEF Waits, Holds
  <2>2. \A x \in Studies : Vouches(x) => x # r
    BY <1>5 DEF Vouches, Vouching, NotStudied, Working, Raised
  <2>3. \A x \in Studies : Vouches(x) => Vouches(x)'
    BY <1>1, <1>3, <2>2 DEF Vouches, Vouching, Begins, Same
  <2> QED BY <1>2, <2>1, <2>3 DEF RInv, StatusInv, ActiveKept
<1> QED BY <1>1, <1>2, <1>3, <1>6, <1>7, <1>8, <1>9, <1>10, BeginsData, BeginsStatus DEF RInv, QueueInv

-----------------------------------------------------------------------------
(***************************************************************************)
(* The invariant, and what follows from it                                 *)
(***************************************************************************)
LEMMA ResearchInitInv == ResearchInit => RInv
<1> SUFFICES ASSUME ResearchInit PROVE RInv
  OBVIOUS
<1>1. RowsKept
  BY ResearchNumbers DEF ResearchInit, RowsKept, Research, ResearchStatus, Request, Worker
<1>2. \A w \in QueueWorkers : \A k : ~Holds(w, k)
  BY DEF ResearchInit, Holds
<1>3. \A r \in Studies : study[r] = NotStudied /\ study[r].pc = "none" /\ response[r] = <<>>
  BY DEF ResearchInit, NotStudied
<1>4. QueueKept
  <2>1. Undecided = Enqueuers
    BY DEF ResearchInit, Undecided
  <2>2. Len(job) = 0 /\ DOMAIN job = {}
    BY DEF ResearchInit
  <2> QED BY <2>1, <2>2, ResearchNumbers DEF QueueKept
<1>5. WorkersKept /\ RunsKept
  BY <1>2, <1>3 DEF WorkersKept, RunsKept
<1>6. Responses = {}
  BY <1>3 DEF Responses
<1>7. ResponsesKept
  BY <1>3, <1>6, FS_EmptySet DEF ResponsesKept, Stored, Working, Ended, Scoring
<1>8. FinishedKept /\ TotalsKept /\ FoundKept /\ ScoreKept
  BY <1>3, <1>6 DEF FinishedKept, TotalsKept, FoundKept, ScoreKept, Bounded, ResearchInit
<1>9. StatusInv
  BY <1>3 DEF StatusInv, AloneKept, JudgedKept, JobVerdict, ActiveKept, ResearchInit, IdleWorker
<1> QED BY <1>1, <1>4, <1>5, <1>7, <1>8, <1>9 DEF RInv, QueueInv, DataInv

LEMMA ResearchStays == RInv /\ UNCHANGED researchVars => RInv'
<1> SUFFICES ASSUME RInv, UNCHANGED researchVars PROVE RInv'
  OBVIOUS
<1>1. UNCHANGED <<research, job, enqueuer, qworker, study, response, deaths>>
  BY DEF researchVars
<1>2. RowsKept'
  BY <1>1 DEF RInv, RowsKept
<1>3. QueueInv'
  BY <1>1 DEF RInv, QueueInv, QueueKept, WorkersKept, RunsKept, Undecided, Holds, InProgress, Awaited
<1>4. DataInv'
  BY <1>1, RestsItself
<1>5. StatusInv'
  BY <1>1 DEF RInv, StatusInv, AloneKept, JudgedKept, JobVerdict, ActiveKept, Relies, InProgress,
     Awaited, Verdict, Waits, Vouches, Holds
<1> QED BY <1>2, <1>3, <1>4, <1>5 DEF RInv

LEMMA ResearchNextInv == RInv /\ [ResearchNext]_researchVars => RInv'
<1> SUFFICES ASSUME RInv, [ResearchNext]_researchVars PROVE RInv'
  OBVIOUS
<1>1. ASSUME NEW q \in Enqueuers, EnqueueCheck(q) \/ EnqueueCommit(q) PROVE RInv'
  BY <1>1, EnqueueCheckInv, EnqueueCommitInv
<1>2. ASSUME NEW w \in QueueWorkers, WorkerStep(w) \/ Restart(w) PROVE RInv'
  BY <1>2, LockNextInv, TakeJobInv, RunJobInv, JudgeInv, EndJobInv, FailJobInv, GiveUpInv, RestartInv
     DEF WorkerStep
<1>3. ASSUME NEW r \in Studies, RunStep(r) PROVE RInv'
  BY <1>3, OpenRunInv, ExecuteTaskInv, ExtractResponseInv, ReloadInv, CountResponsesInv,
     ReadResponsesInv, LookForScoreInv, WriteScoreInv, FinishRunInv DEF RunStep
<1>4. ASSUME NEW r \in Studies, (\E width \in Widths.direct : RunNow(r, width)) \/ RequestDies(r)
      PROVE  RInv'
  BY <1>4, RunNowInv, RequestDiesInv
<1> QED BY <1>1, <1>2, <1>3, <1>4, ResearchStays DEF ResearchNext

LEMMA ResearchTyped == RInv => ResearchTypeOK
<1> SUFFICES ASSUME RInv PROVE ResearchTypeOK
  OBVIOUS
<1>1. Len(job) <= Cardinality(Enqueuers)
  <2>1. Undecided \subseteq Enqueuers
    BY DEF Undecided
  <2>2. Cardinality(Undecided) \in Nat
    BY <2>1, ResearchNumbers, FS_Subset, FS_CardinalityType
  <2> QED BY <2>2, QueueFacts, ResearchNumbers DEF RInv, QueueInv, QueueKept
<1>2. ASSUME NEW r \in Studies, study[r] # NotStudied PROVE Len(response[r]) <= study[r].width
  BY <1>2, StudyIs DEF RInv, DataInv, ResponsesKept, Stored, Study
<1> QED BY <1>1, <1>2 DEF ResearchTypeOK, RInv, RowsKept, Request, Worker

LEMMA TakenOnce == RInv => JobTakenOnce
<1> SUFFICES ASSUME RInv, NEW j \in DOMAIN job
             PROVE  job[j].attempts <= 1 /\ Cardinality({w \in QueueWorkers : Holds(w, j)}) <= 1
  BY DEF JobTakenOnce
<1>1. job[j].attempts <= 1
  BY DEF RInv, QueueInv, QueueKept
<1> PICK holders : holders = {w \in QueueWorkers : Holds(w, j)}
  OBVIOUS
<1>2. \A w, v \in holders : w = v
  BY QueueFacts DEF RInv, QueueInv, WorkersKept
<1>3. CASE holders = {}
  BY <1>1, <1>3, FS_EmptySet
<1>4. CASE holders # {}
  <2>1. PICK w : holders = {w}
    BY <1>2, <1>4
  <2> QED BY <1>1, <2>1, FS_Singleton
<1> QED BY <1>3, <1>4

LEMMA NeverStuck == RInv => NotStuckActive
<1> SUFFICES ASSUME RInv, research.status = "ACTIVE"
             PROVE  \/ \E j \in DOMAIN job : ActiveJob(j)
                    \/ \E r \in Studies :
                        \/ InProgress(r)
                        \/ study[r].pc \in {"broken", "dead"}
                        \/ study[r].pc = "raised" /\ study[r].job = 0
  BY DEF NotStuckActive
<1>1. CASE \E j \in DOMAIN job : Waits(j)
  BY <1>1 DEF Waits, ActiveJob
<1>2. ASSUME NEW r \in Studies, Vouches(r)
      PROVE  \/ \E j \in DOMAIN job : ActiveJob(j)
             \/ InProgress(r)
             \/ study[r].pc \in {"broken", "dead"}
             \/ study[r].pc = "raised" /\ study[r].job = 0
  <2>1. CASE study[r].pc \in Raised /\ Awaited(r)
    <3>1. PICK w \in QueueWorkers : qworker[w].pc = "running" /\ qworker[w].study = r
      BY <2>1 DEF Awaited
    <3> QED BY <3>1, RunningFacts DEF ActiveJob
  <2> QED BY <1>2, <2>1 DEF Vouches, Vouching, InProgress, Working
<1> QED BY <1>1, <1>2 DEF RInv, StatusInv, ActiveKept

LEMMA ScoreSettles == RInv => SettledScored
<1> SUFFICES ASSUME RInv, \A r \in Studies : study[r].pc \in {"none", "finished", "refused"},
                    Responses # {}, \A p \in Responses : response[p[1]][p[2]].status = "PROCESSED"
             PROVE  /\ research.score > 0
                    /\ (\A r \in Studies : study[r] # NotStudied => study[r].alone) =>
                           research.score = Cardinality(Responses)
  BY DEF SettledScored
<1>1. Processed /\ NoneLost /\ \A r \in Studies : ~WillScore(r)
  BY DEF Processed, NoneLost, WillScore, Scoring
<1> QED BY <1>1 DEF RInv, DataInv, ScoreKept, Scored, AllAlone

\* Every run of the research keeps the types of its rows, its workers and its runs, and
\* stores no more responses than selections were asked for
\* (research/queue.py:24-82, research/service.py:153-330).
THEOREM ResearchTypeCorrect == ResearchInit /\ [][ResearchNext]_researchVars => []ResearchTypeOK
<1>1. ResearchInit => RInv
  BY ResearchInitInv
<1>2. RInv /\ [ResearchNext]_researchVars => RInv'
  BY ResearchNextInv
<1>3. RInv => ResearchTypeOK
  BY ResearchTyped
<1> QED BY <1>1, <1>2, <1>3, PTL

\* A queued research is run once, and its job, its status and its score say what became
\* of it, for any number of requests, workers, runs and deaths of processes
\* (research/queue.py:24-82, research/service.py:153-330).
THEOREM ResearchComesOut == ResearchInit /\ [][ResearchNext]_researchVars => []ResearchSettled
<1>1. ResearchInit => RInv
  BY ResearchInitInv
<1>2. RInv /\ [ResearchNext]_researchVars => RInv'
  BY ResearchNextInv
<1>3. RInv => ResearchSettled
  BY TakenOnce, NeverStuck, ScoreSettles DEF ResearchSettled, RInv, StatusInv
<1> QED BY <1>1, <1>2, <1>3, PTL

-----------------------------------------------------------------------------
(***************************************************************************)
(* The services together                                                   *)
(***************************************************************************)
ServicesInv == IInv /\ PInv /\ RInv

LEMMA ServicesSteps ==
    ASSUME [ServicesNext]_<<focus, vars, researchVars, providerVars>>
    PROVE  [Next]_vars /\ [ResearchNext]_researchVars /\ [ProviderNext]_providerVars
  BY DEF ServicesNext, ExecutorMC, ProvidersMC

\* MCServices: where the executor, the queue and the adapters run side by side, each in
\* its focus, all their variables keep their types.
THEOREM ServicesTyped == ServicesSpec => []ServicesTypeOK
<1>1. ServicesInit => ServicesInv
  BY InitInv, ProviderInitInv, ResearchInitInv DEF ServicesInit, ServicesInv
<1>2. ServicesInv /\ [ServicesNext]_<<focus, vars, researchVars, providerVars>> => ServicesInv'
  BY ServicesSteps, NextInv, ProviderNextInv, ResearchNextInv DEF ServicesInv
<1>3. ServicesInv => ServicesTypeOK
  <2>1. IInv => TypeOK
    BY DEF IInv
  <2>2. PInv => ProviderTypeOK
    BY DEF PInv, CacheKept, ProviderTypeOK, Range
  <2>3. RInv => ResearchTypeOK
    BY ResearchTyped
  <2> QED BY <2>1, <2>2, <2>3 DEF ServicesInv, ServicesTypeOK
<1> QED BY <1>1, <1>2, <1>3, PTL DEF ServicesSpec

===============================================================================
