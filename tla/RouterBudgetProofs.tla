------------------------- MODULE RouterBudgetProofs -------------------------
(***************************************************************************)
(* Theorems about RouterBudget, for any number of requests, policies,      *)
(* models and correlation ids: who executes under a correlation id, who    *)
(* holds the row of a policy, what settlement and cost log agree on, that  *)
(* reservations stay within budgets and plans within reservations, and     *)
(* that a request is rejected only when nothing cheaper would have fitted. *)
(***************************************************************************)
EXTENDS RouterBudget, SumTheorems, TLAPS

Executing == {"executing", "settling", "logging"}
Fields == {"pc", "corr", "policy", "read", "spent", "output", "success", "generate", "config"}

\* Rows and requests exist; the amounts in them may be anything.
Shape ==
    /\ DOMAIN proc = Requests
    /\ \A r \in Requests : /\ Fields \subseteq DOMAIN proc[r]
                           /\ proc[r].corr \in Correlations
    /\ DOMAIN reservation = Correlations
    /\ \A c \in Correlations : "state" \in DOMAIN reservation[c]
    /\ DOMAIN actual = Correlations /\ DOMAIN paid = Correlations

\* What the rows of a correlation id say of the request that executes under it.
RequestProgress(r) ==
    LET q == proc[r]
    IN  /\ q.pc \in {"executing", "settling"} => reservation[q.corr].state = "RESERVED"
        /\ q.pc = "logging" => reservation[q.corr].state = "SETTLED" /\ ~actual[q.corr].logged
        /\ q.pc \in {"settling", "logging"} => q.output \in {0, paid[q.corr]}

RowProgress(c) ==
    /\ actual[c].cost \in {0, paid[c]}
    /\ actual[c].logged => reservation[c].state = "SETTLED"
    /\ reservation[c].state \in {"NONE", "RESERVED"} => actual[c] = NoLog

Progress == /\ \A r \in Requests : RequestProgress(r)
            /\ \A c \in Correlations : RowProgress(c)

\* A request holds the row of its policy alone: what FOR UPDATE is for.
RowExclusive ==
    \A r, s \in Requests :
        proc[r].pc = "reading" /\ proc[s].pc = "reading" /\ proc[r].policy = proc[s].policy => r = s

IInv == Shape /\ Progress /\ OneExecutionPerCorrelation /\ RowExclusive

LEMMA IdleShape == Idle.pc = "idle" /\ Idle.corr \in Correlations /\ Fields \subseteq DOMAIN Idle
BY RouterAssumption DEF RouterAssumption, Idle, AnyOf, Fields

LEMMA InitInv == ASSUME Init PROVE IInv
<1>1. /\ DOMAIN proc = Requests
      /\ \A r \in Requests : proc[r] = Idle
  BY DEF Init
<1>2. /\ DOMAIN reservation = Correlations
      /\ \A c \in Correlations : /\ reservation[c].state = "NONE"
                                 /\ "state" \in DOMAIN reservation[c]
                                 /\ actual[c] = NoLog
      /\ DOMAIN actual = Correlations /\ DOMAIN paid = Correlations
  BY DEF Init
<1>3. Shape
  BY <1>1, <1>2, IdleShape DEF Shape
<1>4. Progress
  BY <1>1, <1>2, IdleShape DEF Progress, RequestProgress, RowProgress, NoLog
<1>5. OneExecutionPerCorrelation /\ RowExclusive
  BY <1>1, IdleShape DEF OneExecutionPerCorrelation, RowExclusive
<1> QED
  BY <1>3, <1>4, <1>5 DEF IInv

\* A request that neither executes nor reads disturbs nobody.
LEMMA QuietStep ==
    ASSUME IInv, NEW r \in Requests, NEW q,
           Fields \subseteq DOMAIN q, q.corr \in Correlations, q.pc \in {"idle", "selected"},
           proc' = [proc EXCEPT ![r] = q],
           UNCHANGED <<reservation, actual, paid>>
    PROVE  IInv'
<1>1. /\ DOMAIN proc' = Requests /\ proc'[r] = q
      /\ \A s \in Requests \ {r} : proc'[s] = proc[s]
  BY DEF IInv, Shape
<1>2. Shape'
  BY <1>1 DEF IInv, Shape
<1>3. Progress'
  BY <1>1 DEF IInv, Progress, RequestProgress, RowProgress
<1>4. OneExecutionPerCorrelation' /\ RowExclusive'
  BY <1>1 DEF IInv, OneExecutionPerCorrelation, RowExclusive
<1> QED
  BY <1>2, <1>3, <1>4 DEF IInv

LEMMA SelectInv ==
    ASSUME IInv, NEW r \in Requests, NEW c \in Correlations, NEW p \in Policies,
           NEW generate, NEW ranking, Select(r, c, p, generate, ranking)
    PROVE  IInv'
<1> DEFINE q == [Idle EXCEPT !.pc = "selected", !.generate = generate, !.corr = c,
                             !.policy = p, !.config = policy[p], !.ranking = ranking]
<1>1. Fields \subseteq DOMAIN q /\ q.corr \in Correlations /\ q.pc \in {"idle", "selected"}
  BY DEF Idle, Fields
<1>2. proc' = [proc EXCEPT ![r] = q] /\ UNCHANGED <<reservation, actual, paid>>
  BY DEF Select
<1> HIDE DEF q
<1> QED
  BY <1>1, <1>2, QuietStep

LEMMA LockPolicyInv ==
    ASSUME IInv, NEW r \in Requests, LockPolicy(r)
    PROVE  IInv'
<1>1. /\ DOMAIN proc' = Requests
      /\ DOMAIN proc'[r] = DOMAIN proc[r]
      /\ proc'[r].pc = "reading" /\ proc'[r].corr = proc[r].corr
      /\ proc'[r].policy = proc[r].policy
      /\ \A s \in Requests \ {r} : proc'[s] = proc[s]
      /\ UNCHANGED <<reservation, actual, paid>>
  BY DEF LockPolicy, IInv, Shape, Fields
<1>2. \A s \in Requests : proc[s].pc = "reading" => proc[s].policy # proc[r].policy
  BY DEF LockPolicy, PolicyRowFree, Locked
<1>3. Shape'
  BY <1>1 DEF IInv, Shape
<1>4. Progress'
  BY <1>1 DEF IInv, Progress, RequestProgress, RowProgress
<1>5. OneExecutionPerCorrelation'
  BY <1>1 DEF IInv, OneExecutionPerCorrelation
<1>6. RowExclusive'
  BY <1>1, <1>2 DEF IInv, RowExclusive
<1> QED
  BY <1>3, <1>4, <1>5, <1>6 DEF IInv

LEMMA ReadSpentInv ==
    ASSUME IInv, NEW r \in Requests, ReadSpent(r)
    PROVE  IInv'
<1>1. /\ DOMAIN proc' = Requests
      /\ DOMAIN proc'[r] = DOMAIN proc[r]
      /\ proc[r].pc = "reading" /\ proc'[r].pc = "reading" /\ proc'[r].corr = proc[r].corr
      /\ proc'[r].policy = proc[r].policy
      /\ \A s \in Requests \ {r} : proc'[s] = proc[s]
      /\ UNCHANGED <<reservation, actual, paid>>
  BY DEF ReadSpent, IInv, Shape, Fields
<1>2. Shape'
  BY <1>1 DEF IInv, Shape
<1>3. Progress'
  BY <1>1 DEF IInv, Progress, RequestProgress, RowProgress
<1>4. OneExecutionPerCorrelation' /\ RowExclusive'
  BY <1>1 DEF IInv, OneExecutionPerCorrelation, RowExclusive
<1> QED
  BY <1>2, <1>3, <1>4 DEF IInv

\* The unique correlation id: nobody executes under an id that has no row.
LEMMA ReserveInv ==
    ASSUME IInv, NEW r \in Requests, Reserve(r)
    PROVE  IInv'
<1> DEFINE c == proc[r].corr
<1>1. /\ c \in Correlations /\ proc[r].pc = "reading"
      /\ reservation[c].state = "NONE"
      /\ UNCHANGED <<actual, paid>>
  BY DEF Reserve, CorrelationFree, IInv, Shape
<1>2. /\ DOMAIN reservation' = Correlations
      /\ "state" \in DOMAIN reservation'[c] /\ reservation'[c].state = "RESERVED"
      /\ \A d \in Correlations \ {c} : reservation'[d] = reservation[d]
  BY <1>1 DEF Reserve, IInv, Shape
<1>3. PICK s \in Affordable(proc[r]) :
        proc' = [proc EXCEPT ![r] =
                    IF proc[r].generate
                    THEN [Idle EXCEPT !.pc = "executing", !.generate = TRUE, !.corr = c,
                                      !.config = proc[r].config, !.plan = PlanModels(proc[r], s)]
                    ELSE Idle]
  BY DEF Reserve
<1>4. /\ DOMAIN proc' = Requests
      /\ \A s2 \in Requests \ {r} : proc'[s2] = proc[s2]
  BY <1>3 DEF IInv, Shape
<1>5. /\ Fields \subseteq DOMAIN proc'[r] /\ proc'[r].corr \in Correlations
      /\ proc'[r].pc = "idle" \/ (proc'[r].pc = "executing" /\ proc'[r].corr = c)
  <2>1. CASE proc[r].generate
    <3> DEFINE e == [Idle EXCEPT !.pc = "executing", !.generate = TRUE, !.corr = c,
                                 !.config = proc[r].config, !.plan = PlanModels(proc[r], s)]
    <3>1. Fields \subseteq DOMAIN e /\ e.corr = c /\ e.pc = "executing"
      BY DEF Idle, Fields
    <3>2. proc'[r] = e
      BY <1>3, <2>1 DEF IInv, Shape
    <3> HIDE DEF e
    <3> QED
      BY <1>1, <3>1, <3>2
  <2>2. CASE ~proc[r].generate
    <3>1. proc'[r] = Idle
      BY <1>3, <2>2 DEF IInv, Shape
    <3> QED
      BY <3>1, IdleShape
  <2> QED
    BY <2>1, <2>2
<1>6. \A s2 \in Requests : proc[s2].pc \in Executing => proc[s2].corr # c
  BY <1>1 DEF IInv, Progress, RequestProgress, Executing
<1> HIDE DEF c
<1>7. Shape'
  BY <1>1, <1>2, <1>4, <1>5 DEF IInv, Shape
<1>8. Progress'
  <2>1. \A s2 \in Requests : RequestProgress(s2)'
    BY <1>1, <1>2, <1>4, <1>5, <1>6 DEF IInv, Shape, Progress, RequestProgress, Executing
  <2>2. \A d \in Correlations : RowProgress(d)'
    BY <1>1, <1>2 DEF IInv, Progress, RowProgress, NoLog
  <2> QED
    BY <2>1, <2>2 DEF Progress
<1>9. OneExecutionPerCorrelation'
  BY <1>4, <1>5, <1>6 DEF IInv, OneExecutionPerCorrelation, Executing
<1>10. RowExclusive'
  BY <1>4, <1>5 DEF IInv, RowExclusive
<1> QED
  BY <1>7, <1>8, <1>9, <1>10 DEF IInv

LEMMA RejectInv ==
    ASSUME IInv, NEW r \in Requests, Reject(r)
    PROVE  IInv'
BY IdleShape, QuietStep DEF Reject, AfterReject

LEMMA CrashInv ==
    ASSUME IInv, NEW r \in Requests, Crash(r)
    PROVE  IInv'
BY IdleShape, QuietStep DEF Crash

LEMMA ExecuteInv ==
    ASSUME IInv, NEW r \in Requests, NEW answered, NEW success, Execute(r, answered, success)
    PROVE  IInv'
<1> DEFINE c == proc[r].corr
           cost == SumFunctionOnSet(Cost, answered)
<1>1. /\ c \in Correlations /\ proc[r].pc = "executing"
      /\ UNCHANGED <<reservation, actual>>
  BY DEF Execute, IInv, Shape
<1>2. /\ DOMAIN paid' = Correlations /\ paid'[c] = cost
      /\ \A d \in Correlations \ {c} : paid'[d] = paid[d]
  BY <1>1 DEF Execute, IInv, Shape
<1>3. /\ DOMAIN proc' = Requests
      /\ \A s \in Requests \ {r} : proc'[s] = proc[s]
  BY DEF Execute, IInv, Shape
<1>4. /\ Fields \subseteq DOMAIN proc'[r] /\ proc'[r].corr = c
      /\ proc'[r].pc = "settling" /\ proc'[r].output \in {0, cost}
  <2>1. PICK output \in Usage(proc[r], cost) :
          proc' = [proc EXCEPT ![r] =
              [Idle EXCEPT !.pc = "settling", !.generate = TRUE, !.corr = c,
                           !.success = success, !.output = output]]
    BY DEF Execute
  <2> HIDE DEF cost
  <2>2. output \in {0, cost}
    BY <2>1 DEF Usage
  <2> DEFINE e == [Idle EXCEPT !.pc = "settling", !.generate = TRUE, !.corr = c,
                               !.success = success, !.output = output]
  <2>3. Fields \subseteq DOMAIN e /\ e.corr = c /\ e.pc = "settling" /\ e.output \in {0, cost}
    BY <2>2 DEF Idle, Fields
  <2>4. proc'[r] = e
    BY <2>1 DEF IInv, Shape
  <2> HIDE DEF e
  <2> QED
    BY <2>3, <2>4
<1>5. /\ reservation[c].state = "RESERVED" /\ actual[c] = NoLog
      /\ \A s \in Requests \ {r} : proc[s].pc \in Executing => proc[s].corr # c
  BY <1>1 DEF IInv, Progress, RequestProgress, RowProgress, OneExecutionPerCorrelation, Executing
<1> HIDE DEF c, cost
<1>6. Shape'
  BY <1>1, <1>2, <1>3, <1>4 DEF IInv, Shape
<1>7. Progress'
  <2>1. \A s \in Requests : RequestProgress(s)'
    BY <1>1, <1>2, <1>3, <1>4, <1>5 DEF IInv, Shape, Progress, RequestProgress, Executing
  <2>2. \A d \in Correlations : RowProgress(d)'
    BY <1>1, <1>2, <1>5 DEF IInv, Progress, RowProgress, NoLog
  <2> QED
    BY <2>1, <2>2 DEF Progress
<1>8. OneExecutionPerCorrelation' /\ RowExclusive'
  BY <1>1, <1>3, <1>4 DEF IInv, OneExecutionPerCorrelation, RowExclusive, c
<1> QED
  BY <1>6, <1>7, <1>8 DEF IInv

LEMMA SettleInv ==
    ASSUME IInv, NEW r \in Requests, Settle(r)
    PROVE  IInv'
<1> DEFINE c == proc[r].corr
<1>1. /\ c \in Correlations /\ proc[r].pc = "settling"
      /\ reservation[c].state = "RESERVED" /\ actual[c] = NoLog
      /\ \A s \in Requests \ {r} : proc[s].pc \in Executing => proc[s].corr # c
      /\ UNCHANGED <<actual, paid>>
  BY DEF Settle, IInv, Shape, Progress, RequestProgress, RowProgress,
         OneExecutionPerCorrelation, Executing
<1>2. /\ DOMAIN reservation' = Correlations
      /\ "state" \in DOMAIN reservation'[c]
      /\ reservation'[c].state = IF proc[r].success THEN "SETTLED" ELSE "RELEASED"
      /\ \A d \in Correlations \ {c} : reservation'[d] = reservation[d]
  BY <1>1 DEF Settle, Settled, IInv, Shape
<1>3. /\ DOMAIN proc' = Requests
      /\ \A s \in Requests \ {r} : proc'[s] = proc[s]
  BY DEF Settle, IInv, Shape
<1>4. /\ Fields \subseteq DOMAIN proc'[r] /\ proc'[r].corr \in Correlations
      /\ \/ proc'[r].pc = "idle"
         \/ /\ proc[r].success
            /\ proc'[r].pc = "logging" /\ proc'[r].corr = c
            /\ proc'[r].output = proc[r].output
  <2>1. CASE proc[r].success
    BY <2>1 DEF Settle, IInv, Shape, Fields
  <2>2. CASE ~proc[r].success
    <3>1. proc'[r] = Idle
      BY <2>2 DEF Settle, IInv, Shape
    <3> QED
      BY <3>1, IdleShape
  <2> QED
    BY <2>1, <2>2
<1>5. proc[r].output \in {0, paid[c]}
  BY <1>1 DEF IInv, Progress, RequestProgress
<1> HIDE DEF c
<1>6. Shape'
  BY <1>1, <1>2, <1>3, <1>4 DEF IInv, Shape
<1>7. Progress'
  <2>1. \A s \in Requests \ {r} : RequestProgress(s)'
    BY <1>1, <1>2, <1>3 DEF IInv, Shape, Progress, RequestProgress, Executing
  <2>2. RequestProgress(r)'
    BY <1>1, <1>2, <1>4, <1>5 DEF RequestProgress, NoLog
  <2>3. \A d \in Correlations : RowProgress(d)'
    BY <1>1, <1>2 DEF IInv, Progress, RowProgress, NoLog
  <2> QED
    BY <2>1, <2>2, <2>3 DEF Progress
<1>8. OneExecutionPerCorrelation' /\ RowExclusive'
  BY <1>1, <1>3, <1>4 DEF IInv, OneExecutionPerCorrelation, RowExclusive, Executing
<1> QED
  BY <1>6, <1>7, <1>8 DEF IInv

LEMMA LogActualInv ==
    ASSUME IInv, NEW r \in Requests, LogActual(r)
    PROVE  IInv'
<1> DEFINE c == proc[r].corr
<1>1. /\ c \in Correlations /\ proc[r].pc = "logging"
      /\ reservation[c].state = "SETTLED" /\ proc[r].output \in {0, paid[c]}
      /\ \A s \in Requests \ {r} : proc[s].pc \in Executing => proc[s].corr # c
      /\ UNCHANGED <<reservation, paid>>
  BY DEF LogActual, IInv, Shape, Progress, RequestProgress,
         OneExecutionPerCorrelation, Executing
<1>2. /\ DOMAIN actual' = Correlations
      /\ actual'[c].cost = proc[r].output
      /\ \A d \in Correlations \ {c} : actual'[d] = actual[d]
  BY <1>1 DEF LogActual, IInv, Shape
<1>3. /\ DOMAIN proc' = Requests /\ proc'[r] = Idle
      /\ \A s \in Requests \ {r} : proc'[s] = proc[s]
  BY DEF LogActual, IInv, Shape
<1> HIDE DEF c
<1>4. Shape'
  BY <1>1, <1>2, <1>3, IdleShape DEF IInv, Shape
<1>5. Progress'
  <2>1. \A s \in Requests \ {r} : RequestProgress(s)'
    BY <1>1, <1>2, <1>3 DEF IInv, Shape, Progress, RequestProgress, Executing
  <2>2. RequestProgress(r)'
    BY <1>3, IdleShape DEF RequestProgress
  <2>3. \A d \in Correlations : RowProgress(d)'
    BY <1>1, <1>2 DEF IInv, Progress, RowProgress
  <2> QED
    BY <2>1, <2>2, <2>3 DEF Progress
<1>6. OneExecutionPerCorrelation' /\ RowExclusive'
  BY <1>3, IdleShape DEF IInv, OneExecutionPerCorrelation, RowExclusive
<1> QED
  BY <1>4, <1>5, <1>6 DEF IInv

LEMMA NextInv ==
    ASSUME IInv, [Next]_vars
    PROVE  IInv'
<1>1. CASE UNCHANGED <<reservation, actual, paid, proc>>
  BY <1>1 DEF IInv, Shape, Progress, RequestProgress, RowProgress,
              OneExecutionPerCorrelation, RowExclusive
<1>2. CASE Tick
  BY <1>1, <1>2 DEF Tick
<1>3. ASSUME NEW p \in Policies, NEW config \in Configs, UpdatePolicy(p, config) PROVE IInv'
  BY <1>1, <1>3 DEF UpdatePolicy
<1>4. ASSUME NEW r \in Requests, Step(r) PROVE IInv'
  BY <1>4, LockPolicyInv, ReadSpentInv, ReserveInv, RejectInv, ExecuteInv, SettleInv,
     LogActualInv DEF Step
<1> QED
  BY <1>1, <1>2, <1>3, <1>4, SelectInv, CrashInv DEF Next, vars

LEMMA Invariance == Spec => []IInv
<1>1. Init => IInv
  BY InitInv
<1>2. IInv /\ [Next]_vars => IInv'
  BY NextInv
<1> QED
  BY <1>1, <1>2, PTL DEF Spec

\* Clients choose correlation ids and may send one twice; no two requests ever
\* execute under the same id (the unique key of router_budget_reservations).
THEOREM ExecutionExclusion == Spec => []OneExecutionPerCorrelation
<1>1. IInv => OneExecutionPerCorrelation
  BY DEF IInv
<1> QED
  BY <1>1, Invariance, PTL

\* An actual cost is logged once, for a settled reservation, and is what the
\* providers charged or nothing (generate's two commits).
THEOREM LogIntegrity == Spec => []LogFollowsSettlement
<1>1. IInv => LogFollowsSettlement
  BY DEF IInv, Shape, Progress, RequestProgress, RowProgress, LogFollowsSettlement
<1> QED
  BY <1>1, Invariance, PTL

\* The row lock of optimize_for_budget: requests that read the spending under
\* one policy do so one after the other, the serialization its budget rests on.
THEOREM PolicyRowExclusion == Spec => []RowExclusive
<1>1. IInv => RowExclusive
  BY DEF IInv
<1> QED
  BY <1>1, Invariance, PTL

-----------------------------------------------------------------------------
(***************************************************************************)
(* Types, and with them amounts that can be added up                       *)
(***************************************************************************)
LEMMA WindowsFinite == Windows = {"day", "month"}
BY DEF Windows

LEMMA PolicyConfigType ==
    ASSUME NEW config \in Configs
    PROVE  /\ config \in PolicyConfig
           /\ config.topK \in 1..8 /\ config.mode \in Modes
           /\ config.day \in Limits /\ config.month \in Limits /\ config.research \in Limits
           /\ Budgets(config) \in [Windows -> Limits]
BY RouterAssumption DEF RouterAssumption, PolicyConfig, Budgets

LEMMA IdleType == Idle \in ProcState
<1>1. /\ AnyOf(Correlations) \in Correlations
      /\ AnyOf(Policies) \in Policies /\ AnyOf(Configs) \in Configs
  BY RouterAssumption DEF RouterAssumption, AnyOf
<1>2. <<>> \in Seq(Models)
  OBVIOUS
<1>3. 0 \in 0..Len(Statements)
  BY DEF Statements
<1> QED
  BY <1>1, <1>2, <1>3 DEF Idle, ProcState

LEMMA PlanCostType ==
    ASSUME NEW s \in Seq(Models), NEW k \in Nat
    PROVE  PlanCost(s, k) \in Nat
<1> DEFINE c == [i \in DOMAIN s |-> Cost[s[i]]]
           I == 1..Smaller(k, Len(s))
<1>1. IsFiniteSet(I)
  <2>1. Smaller(k, Len(s)) \in Int
    BY DEF Smaller
  <2> QED
    BY <2>1, FS_Interval
<1>2. I \subseteq DOMAIN s
  BY DEF Smaller
<1>3. \A i \in I : c[i] \in Nat
  BY SMTT(30), <1>2, RouterAssumption DEF RouterAssumption
<1> HIDE DEF c, I
<1>4. SumFunctionOnSet(c, I) \in Nat
  BY <1>1, <1>3, SumNat
<1> QED
  BY <1>4 DEF PlanCost, c, I

LEMMA SpentType ==
    ASSUME TypeOK, NEW w \in Windows, NEW kind
    PROVE  Spent(w, kind) \in Nat
<1> DEFINE A == {c \in Correlations : actual[c].logged /\ actual[c].at >= Start(w)}
           R == {c \in Correlations : Live(c, w)}
           costs == [c \in Correlations |-> actual[c].cost]
<1>1. IsFiniteSet(A) /\ IsFiniteSet(R)
  <2>1. A \subseteq Correlations /\ R \subseteq Correlations
    OBVIOUS
  <2> HIDE DEF A, R
  <2> QED
    BY <2>1, FS_Subset, RouterAssumption DEF RouterAssumption
<1>2. /\ \A c \in A : costs[c] \in Nat
      /\ \A c \in R : Amounts[c] \in Nat
  BY DEF TypeOK, ActualLog, Reservation, Amounts
<1> HIDE DEF A, R, costs
<1>3. SumFunctionOnSet(costs, A) \in Nat /\ SumFunctionOnSet(Amounts, R) \in Nat
  BY <1>1, <1>2, SumNat
<1> QED
  BY <1>3 DEF Spent, A, R, costs

\* Cheaper or not, what is chosen is a list of models as long as the ranking.
LEMMA AffordableType ==
    ASSUME NEW q \in ProcState, NEW s \in Affordable(q)
    PROVE  s \in Seq(Models) /\ Len(s) = Len(q.ranking)
<1>1. q.ranking \in Seq(Models)
  BY DEF ProcState
<1>2. CASE s = q.ranking
  BY <1>1, <1>2
<1>3. CASE s \in ByCost(q.ranking)
  <2>1. s \in [1..Len(q.ranking) -> Models]
    BY <1>3 DEF ByCost
  <2> QED
    BY <1>1, <2>1
<1> QED
  BY <1>2, <1>3 DEF Affordable


\* A request that has chosen its models carries a ranking select_models returned.
RankingKept ==
    \A r \in Requests : proc[r].pc \in {"selected", "reading"} => proc[r].ranking \in Rankings

TInv == TypeOK /\ RankingKept

LEMMA RankingType ==
    ASSUME NEW ranking \in Rankings
    PROVE  /\ ranking \in Seq(Models) /\ Len(ranking) >= 1
           /\ IsInjective(ranking) /\ IsFiniteSet(DOMAIN ranking)
<1>1. PICK n \in 1..Cardinality(Models) : ranking \in [1..n -> Models] /\ IsInjective(ranking)
  BY RouterAssumption DEF RouterAssumption
<1>2. Cardinality(Models) \in Nat
  BY RouterAssumption, FS_CardinalityType DEF RouterAssumption
<1>3. n \in Nat /\ n >= 1
  BY <1>2
<1>4. ranking \in Seq(Models) /\ Len(ranking) = n
  BY <1>1, <1>3
<1>5. IsFiniteSet(1..n)
  BY <1>3, FS_Interval
<1> QED
  BY <1>1, <1>3, <1>4, <1>5

LEMMA InitType == ASSUME Init PROVE TInv
<1>1. clock \in 0..MaxTime
  BY RouterAssumption DEF RouterAssumption, Init
<1>2. policy \in [Policies -> Configs] /\ ceiling \in [Policies -> [Windows -> Limits]]
  <2>1. \A p \in Policies : Budgets(policy[p]) \in [Windows -> Limits]
    BY PolicyConfigType DEF Init
  <2> QED
    BY <2>1 DEF Init
<1>3. reservation \in [Correlations -> Reservation] /\ paid \in [Correlations -> Nat]
  <2>1. AnyOf(Policies) \in Policies /\ 0 \in 0..MaxTime
    BY RouterAssumption DEF RouterAssumption, AnyOf
  <2> QED
    BY <2>1 DEF Init, Reservation
<1>4. actual \in [Correlations -> ActualLog]
  BY RouterAssumption DEF RouterAssumption, Init, ActualLog, NoLog
<1>5. proc \in [Requests -> ProcState]
  BY IdleType DEF Init
<1>6. RankingKept
  BY IdleShape DEF Init, RankingKept
<1> QED
  BY <1>1, <1>2, <1>3, <1>4, <1>5, <1>6 DEF TypeOK, TInv

\* A step of a request that leaves the tables alone.
LEMMA ProcType ==
    ASSUME TInv, NEW r \in Requests, NEW q \in ProcState, proc' = [proc EXCEPT ![r] = q],
           q.pc \in {"selected", "reading"} => q.ranking \in Rankings,
           UNCHANGED <<clock, policy, ceiling, reservation, actual, paid>>
    PROVE  TInv'
BY DEF TInv, TypeOK, RankingKept

LEMMA SelectType ==
    ASSUME TInv, NEW r \in Requests, NEW c \in Correlations, NEW p \in Policies,
           NEW generate \in Generates, NEW ranking \in Rankings, Select(r, c, p, generate, ranking)
    PROVE  TInv'
<1> DEFINE q == [Idle EXCEPT !.pc = "selected", !.generate = generate, !.corr = c,
                             !.policy = p, !.config = policy[p], !.ranking = ranking]
<1>1. ranking \in Seq(Models) /\ generate \in BOOLEAN
  BY RankingType, RouterAssumption DEF RouterAssumption
<1>2. policy[p] \in Configs
  BY DEF TInv, TypeOK
<1>3. q \in ProcState /\ q.ranking \in Rankings
  BY <1>1, <1>2, IdleType DEF ProcState
<1>4. proc' = [proc EXCEPT ![r] = q] /\ UNCHANGED <<clock, policy, ceiling, reservation, actual, paid>>
  BY DEF Select
<1> HIDE DEF q
<1> QED
  BY <1>3, <1>4, ProcType

LEMMA LockPolicyType ==
    ASSUME TInv, NEW r \in Requests, LockPolicy(r)
    PROVE  TInv'
<1> DEFINE q == [proc[r] EXCEPT !.pc = "reading"]
<1>1. q \in ProcState /\ q.ranking \in Rankings
  BY DEF LockPolicy, TInv, TypeOK, RankingKept, ProcState
<1>2. proc' = [proc EXCEPT ![r] = q] /\ UNCHANGED <<clock, policy, ceiling, reservation, actual, paid>>
  BY DEF LockPolicy
<1> HIDE DEF q
<1> QED
  BY <1>1, <1>2, ProcType

LEMMA ReadSpentType ==
    ASSUME TInv, NEW r \in Requests, ReadSpent(r)
    PROVE  TInv'
<1> DEFINE n == proc[r].read + 1
           w == Statements[n][1]
           kind == Statements[n][2]
           q == [proc[r] EXCEPT !.read = n, !.spent[w] = @ + Spent(w, kind)]
           more == [proc[r].spent EXCEPT ![w] = @ + Spent(w, kind)]
<1>1. n \in 1..4 /\ n \in 0..Len(Statements) /\ proc[r] \in ProcState /\ proc[r].pc = "reading"
  BY DEF ReadSpent, TInv, TypeOK, ProcState, Statements
<1>2. w \in Windows
  BY <1>1 DEF Statements, Windows
<1>3. Spent(w, kind) \in Nat
  BY <1>2, SpentType DEF TInv
<1>4. proc' = [proc EXCEPT ![r] = q] /\ UNCHANGED <<clock, policy, ceiling, reservation, actual, paid>>
  BY DEF ReadSpent, TInv, TypeOK
<1>5. proc[r].ranking \in Rankings
  BY <1>1 DEF TInv, RankingKept
<1> HIDE DEF n, w, kind
<1>6. more \in [Windows -> Nat]
  BY <1>1, <1>2, <1>3 DEF ProcState
<1>7. q = [proc[r] EXCEPT !.read = n, !.spent = more]
  BY <1>1 DEF ProcState
<1> HIDE DEF q, more
<1>8. q \in ProcState /\ q.ranking \in Rankings
  BY <1>1, <1>5, <1>6, <1>7 DEF ProcState
<1> QED
  BY <1>4, <1>8, ProcType

\* What Reserve writes, for its ranking s.
LEMMA ReserveType ==
    ASSUME TInv, NEW r \in Requests, Reserve(r)
    PROVE  TInv'
<1> DEFINE q == proc[r]
<1>1. /\ q \in ProcState /\ q.config \in Configs /\ q.corr \in Correlations
      /\ q.policy \in Policies /\ q.ranking \in Rankings /\ clock \in 0..MaxTime
  BY DEF Reserve, TInv, TypeOK, ProcState, RankingKept
<1>2. PICK s \in Affordable(q) :
        /\ reservation' = [reservation EXCEPT ![q.corr] =
                [state |-> "RESERVED", policy |-> q.policy, at |-> clock,
                 amount |-> PlanCost(s, q.config.topK)]]
        /\ proc' = [proc EXCEPT ![r] =
                IF q.generate
                THEN [Idle EXCEPT !.pc = "executing", !.generate = TRUE, !.corr = q.corr,
                                  !.config = q.config, !.plan = PlanModels(q, s)]
                ELSE Idle]
  BY DEF Reserve
<1>3. s \in Seq(Models) /\ Len(s) >= 1 /\ q.config.topK \in 1..8
  BY <1>1, <1>2, AffordableType, PolicyConfigType, RankingType
<1>4. PlanCost(s, q.config.topK) \in Nat
  <2>1. q.config.topK \in Nat
    BY <1>3
  <2> QED
    BY <1>3, <2>1, PlanCostType
<1>5. reservation' \in [Correlations -> Reservation]
  BY <1>1, <1>2, <1>4 DEF TInv, TypeOK, Reservation
<1>6. PlanModels(q, s) \in SUBSET Models
  BY <1>3 DEF PlanModels, Smaller
<1> DEFINE e == [Idle EXCEPT !.pc = "executing", !.generate = TRUE, !.corr = q.corr,
                             !.config = q.config, !.plan = PlanModels(q, s)]
<1>7. e \in ProcState /\ e.pc = "executing"
  BY <1>1, <1>6, IdleType DEF ProcState
<1>8. proc' = [proc EXCEPT ![r] = IF q.generate THEN e ELSE Idle]
  BY <1>2
<1> HIDE DEF e
<1>9. proc' \in [Requests -> ProcState] /\ RankingKept'
  BY <1>7, <1>8, IdleType, IdleShape DEF TInv, TypeOK, RankingKept
<1> QED
  BY <1>5, <1>9 DEF TInv, TypeOK, Reserve

LEMMA ExecuteType ==
    ASSUME TInv, NEW r \in Requests, NEW answered, NEW success \in BOOLEAN,
           Execute(r, answered, success)
    PROVE  TInv'
<1> DEFINE q == proc[r]
           cost == SumFunctionOnSet(Cost, answered)
<1>1. q \in ProcState /\ q.corr \in Correlations /\ q.plan \in SUBSET Models
  BY DEF TInv, TypeOK, ProcState
<1>2. cost \in Nat
  <2>1. answered \subseteq Models
    BY <1>1 DEF Execute, Delivers
  <2>2. IsFiniteSet(answered) /\ \A m \in answered : Cost[m] \in Nat
    BY <2>1, FS_Subset, RouterAssumption DEF RouterAssumption
  <2> QED
    BY <2>2, SumNat
<1> HIDE DEF cost
<1>3. PICK output \in Usage(q, cost) :
        proc' = [proc EXCEPT ![r] =
            [Idle EXCEPT !.pc = "settling", !.generate = TRUE, !.corr = q.corr,
                         !.success = success, !.output = output]]
  BY DEF Execute, cost
<1>4. output \in Nat
  BY <1>2, <1>3 DEF Usage
<1> DEFINE e == [Idle EXCEPT !.pc = "settling", !.generate = TRUE, !.corr = q.corr,
                             !.success = success, !.output = output]
<1>5. e \in ProcState /\ e.pc = "settling"
  BY <1>1, <1>4, IdleType DEF ProcState
<1>6. proc' = [proc EXCEPT ![r] = e]
  BY <1>3
<1> HIDE DEF e
<1>7. proc' \in [Requests -> ProcState] /\ RankingKept'
  BY <1>5, <1>6 DEF TInv, TypeOK, RankingKept
<1>8. paid' = [paid EXCEPT ![q.corr] = cost] /\ UNCHANGED <<clock, policy, ceiling, reservation, actual>>
  BY DEF Execute, cost
<1>9. paid' \in [Correlations -> Nat]
  BY <1>2, <1>8 DEF TInv, TypeOK
<1> QED
  BY <1>7, <1>8, <1>9 DEF TInv, TypeOK

LEMMA SettleType ==
    ASSUME TInv, NEW r \in Requests, Settle(r)
    PROVE  TInv'
<1>1. proc[r] \in ProcState /\ proc[r].corr \in Correlations
  BY DEF TInv, TypeOK, ProcState
<1>2. reservation' \in [Correlations -> Reservation]
  BY SMTT(30), <1>1 DEF Settle, Settled, TInv, TypeOK, Reservation
<1> DEFINE q == IF proc[r].success THEN [proc[r] EXCEPT !.pc = "logging"] ELSE Idle
<1>3. q \in ProcState /\ q.pc \in {"logging", "idle"}
  BY <1>1, IdleType, IdleShape DEF ProcState
<1>4. proc' = [proc EXCEPT ![r] = q] /\ UNCHANGED <<clock, policy, ceiling, actual, paid>>
  BY DEF Settle
<1> HIDE DEF q
<1> QED
  BY <1>2, <1>3, <1>4 DEF TInv, TypeOK, RankingKept

LEMMA LogActualType ==
    ASSUME TInv, NEW r \in Requests, LogActual(r)
    PROVE  TInv'
<1>1. proc[r].output \in Nat /\ proc[r].corr \in Correlations /\ clock \in 0..MaxTime
  BY DEF TInv, TypeOK, ProcState
<1>2. actual' \in [Correlations -> ActualLog]
  BY <1>1 DEF LogActual, TInv, TypeOK, ActualLog
<1> QED
  BY <1>2, IdleType, IdleShape DEF LogActual, TInv, TypeOK, RankingKept

\* a is no larger a limit than b.
AtMost(a, b) == b = NoLimit \/ (a # NoLimit /\ a <= b)

LEMMA LargerLimit ==
    ASSUME NEW a \in Limits, NEW b \in Limits
    PROVE  Larger(a, b) \in Limits /\ AtMost(a, Larger(a, b)) /\ AtMost(b, Larger(a, b))
<1>1. CASE a = NoLimit \/ b = NoLimit
  BY <1>1 DEF Larger, AtMost, Limits
<1>2. CASE a # NoLimit /\ b # NoLimit
  <2>1. a \in Nat /\ b \in Nat
    BY <1>2 DEF Limits
  <2>2. \E x \in {a, b} : \A y \in {a, b} : x >= y
    BY <2>1
  <2>3. Max({a, b}) \in {a, b} /\ Max({a, b}) >= a /\ Max({a, b}) >= b
    BY <2>2 DEF Max
  <2> QED
    BY <1>2, <2>1, <2>3 DEF Larger, AtMost, Limits
<1> QED
  BY <1>1, <1>2

LEMMA UpdatePolicyType ==
    ASSUME TInv, NEW p \in Policies, NEW config \in Configs, UpdatePolicy(p, config)
    PROVE  TInv'
<1>1. \A w \in Windows : /\ ceiling[p][w] \in Limits /\ Budgets(config)[w] \in Limits
                         /\ Larger(ceiling[p][w], Budgets(config)[w]) \in Limits
  BY LargerLimit, PolicyConfigType DEF TInv, TypeOK
<1>2. ceiling' \in [Policies -> [Windows -> Limits]]
  BY <1>1 DEF UpdatePolicy, TInv, TypeOK
<1> QED
  BY <1>2 DEF UpdatePolicy, TInv, TypeOK, RankingKept

LEMMA NextType ==
    ASSUME TInv, [Next]_vars
    PROVE  TInv'
<1>1. CASE UNCHANGED vars
  BY <1>1 DEF vars, TInv, TypeOK, RankingKept
<1>2. CASE Tick
  <2>1. clock' \in 0..MaxTime
    BY <1>2, RouterAssumption DEF RouterAssumption, Tick, TInv, TypeOK
  <2> QED
    BY <1>2, <2>1 DEF Tick, TInv, TypeOK, RankingKept
<1>3. ASSUME NEW r \in Requests, Reject(r) \/ Crash(r) PROVE TInv'
  <2>1. proc' = [proc EXCEPT ![r] = Idle] /\ UNCHANGED <<clock, policy, ceiling, reservation, actual, paid>>
    BY <1>3 DEF Reject, Crash, AfterReject
  <2> QED
    BY <2>1, IdleType, IdleShape, ProcType
<1>4. ASSUME NEW r \in Requests, Step(r) PROVE TInv'
  BY <1>3, <1>4, LockPolicyType, ReadSpentType, ReserveType, ExecuteType, SettleType,
     LogActualType DEF Step
<1> QED
  BY <1>1, <1>2, <1>3, <1>4, SelectType, UpdatePolicyType DEF Next

LEMMA TypeInvariance == Spec => []TInv
<1>1. Init => TInv
  BY InitType
<1>2. TInv /\ [Next]_vars => TInv'
  BY NextType
<1> QED
  BY <1>1, <1>2, PTL DEF Spec

\* Type correctness of the router's budget: in particular every amount that is
\* reserved, logged or read is a number of units (optimize_for_budget, generate).
THEOREM TypeCorrect == Spec => []TypeOK
<1>1. TInv => TypeOK
  BY DEF TInv
<1> QED
  BY <1>1, TypeInvariance, PTL

-----------------------------------------------------------------------------
(***************************************************************************)
(* Reservations within budgets                                             *)
(***************************************************************************)
\* ReadSpent has read what is reserved in the window.
HasReadReserved(q, w) == q.read >= (IF w = "day" THEN 2 ELSE 4)

\* Every budget a policy has, or had when a request copied it, is below its ceiling.
CeilingKept ==
    /\ \A p \in Policies, w \in Windows : AtMost(Budgets(policy[p])[w], ceiling[p][w])
    /\ \A r \in Requests, w \in Windows :
          proc[r].pc \in {"selected", "reading"} =>
              AtMost(Budgets(proc[r].config)[w], ceiling[proc[r].policy][w])

\* What the holder of the policy's row has read cannot grow behind its back.
ReadKept ==
    \A r \in Requests, p \in Policies, w \in Windows :
        proc[r].pc = "reading" /\ proc[r].policy = p /\ HasReadReserved(proc[r], w) =>
            Reserved(p, w) <= proc[r].spent[w]

\* A request that waits for the row has read nothing yet.
SelectedAfresh == \A r \in Requests : proc[r].pc = "selected" => proc[r].read = 0

BInv == CeilingKept /\ ReadKept /\ SelectedAfresh /\ PolicyReservationsBounded

LEMMA AtMostWithin ==
    ASSUME NEW x \in Nat, NEW a \in Limits, NEW b \in Limits, Within(x, a), AtMost(a, b)
    PROVE  Within(x, b)
BY DEF Within, AtMost, Limits

LEMMA AtMostTransitive ==
    ASSUME NEW a \in Limits, NEW b \in Limits, NEW c \in Limits, AtMost(a, b), AtMost(b, c)
    PROVE  AtMost(a, c)
BY DEF AtMost, Limits

\* The live reservations of a policy in a window, and that they can be added up.
ReservedBy(p, w) == {c \in Correlations : reservation[c].policy = p /\ Live(c, w)}

Summable(p, w) ==
    /\ Reserved(p, w) \in Nat
    /\ Reserved(p, w) = SumFunctionOnSet(Amounts, ReservedBy(p, w))
    /\ IsFiniteSet(ReservedBy(p, w))
    /\ \A c \in Correlations : Amounts[c] = reservation[c].amount /\ Amounts[c] \in Nat

AllSummable == \A p \in Policies, w \in Windows : Summable(p, w)

LEMMA ReservedType == TInv => AllSummable
<1> SUFFICES ASSUME TInv, NEW p \in Policies, NEW w \in Windows PROVE Summable(p, w)
  BY DEF AllSummable
<1>1. \A c \in Correlations : Amounts[c] = reservation[c].amount /\ Amounts[c] \in Nat
  BY DEF TInv, TypeOK, Reservation, Amounts
<1>2. Reserved(p, w) = SumFunctionOnSet(Amounts, ReservedBy(p, w))
  BY DEF Reserved, ReservedBy
<1>3. ReservedBy(p, w) \subseteq Correlations
  BY DEF ReservedBy
<1>4. IsFiniteSet(ReservedBy(p, w))
  BY <1>3, FS_Subset, RouterAssumption DEF RouterAssumption
<1>5. SumFunctionOnSet(Amounts, ReservedBy(p, w)) \in Nat
  BY <1>1, <1>3, <1>4, SumNat
<1> QED
  BY <1>1, <1>2, <1>4, <1>5 DEF AllSummable, Summable

LEMMA ReservedTypeNext == TInv' => AllSummable'
BY ReservedType, PTL

LEMMA StartAdvances ==
    ASSUME TInv, clock' = clock + 1, NEW w \in Windows
    PROVE  Start(w)' \in Nat /\ Start(w) \in Nat /\ Start(w) <= Start(w)'
<1>1. clock \in Nat /\ DayLength \in Nat \ {0}
  BY RouterAssumption DEF RouterAssumption, TInv, TypeOK
<1>2. CASE w = "month"
  BY <1>2 DEF Start
<1>3. CASE w = "day"
  <2> DEFINE a == clock \div DayLength
             b == (clock + 1) \div DayLength
  <2>1. a \in Nat /\ b \in Nat /\ a <= b
    BY <1>1
  <2>2. Start(w) = a * DayLength /\ Start(w)' = b * DayLength
    BY <1>3 DEF Start
  <2> HIDE DEF a, b
  <2>3. a * DayLength <= b * DayLength /\ a * DayLength \in Nat /\ b * DayLength \in Nat
    BY <1>1, <2>1
  <2> QED
    BY <2>2, <2>3
<1> QED
  BY <1>2, <1>3 DEF Windows

\* Reservations that expire, are settled or leave the window free what they hold.
LEMMA ReservedShrinks ==
    ASSUME TInv, TInv', NEW p \in Policies, NEW w \in Windows,
           ReservedBy(p, w)' \subseteq ReservedBy(p, w),
           \A c \in ReservedBy(p, w)' : reservation'[c].amount = reservation[c].amount
    PROVE  Reserved(p, w)' <= Reserved(p, w)
<1> DEFINE S == ReservedBy(p, w)
           T == ReservedBy(p, w)'
<1>1. /\ Reserved(p, w) = SumFunctionOnSet(Amounts, S)
      /\ IsFiniteSet(S)
      /\ \A c \in Correlations : Amounts[c] = reservation[c].amount /\ Amounts[c] \in Nat
  BY ReservedType DEF AllSummable, Summable
<1>2. /\ Reserved(p, w)' = SumFunctionOnSet(Amounts', T)
      /\ IsFiniteSet(T)
      /\ \A c \in Correlations : Amounts'[c] = reservation'[c].amount /\ Amounts'[c] \in Nat
  BY ReservedTypeNext DEF AllSummable, Summable
<1>3. S \subseteq Correlations /\ T \subseteq S
  BY DEF ReservedBy
<1>4. \A c \in T : reservation'[c].amount = reservation[c].amount
  OBVIOUS
<1> HIDE DEF S, T
<1>5. SumFunctionOnSet(Amounts', T) = SumFunctionOnSet(Amounts, T)
  <2>1. \A c \in T : Amounts'[c] \in Int /\ Amounts'[c] = Amounts[c]
    BY <1>1, <1>2, <1>3, <1>4
  <2> QED
    BY <1>2, <2>1, SumAgree
<1>6. SumFunctionOnSet(Amounts, T) <= SumFunctionOnSet(Amounts, S)
  <2>1. \A c \in S : Amounts[c] \in Nat
    BY <1>1, <1>3
  <2> QED
    BY <1>1, <1>3, <2>1, SumSubset
<1> QED
  BY <1>1, <1>2, <1>5, <1>6

LEMMA InitBudget == ASSUME Init PROVE BInv
<1>1. TInv
  BY InitType
<1>2. CeilingKept
  <2>1. \A p \in Policies, w \in Windows :
            /\ ceiling[p][w] = Budgets(policy[p])[w] /\ ceiling[p][w] \in Limits
    BY <1>1 DEF TInv, TypeOK, Init
  <2>2. \A r \in Requests : proc[r].pc = "idle"
    BY IdleShape DEF Init
  <2> QED
    BY <2>1, <2>2 DEF CeilingKept, AtMost, Limits
<1>3. ReadKept
  BY IdleShape DEF Init, ReadKept
<1>4. PolicyReservationsBounded
  <2> SUFFICES ASSUME NEW p \in Policies, NEW w \in Windows
               PROVE  Within(Reserved(p, w), ceiling[p][w])
    BY DEF PolicyReservationsBounded
  <2>1. ReservedBy(p, w) = {}
    BY DEF Init, ReservedBy, Live, Active
  <2>2. Reserved(p, w) = 0
    BY <1>1, <2>1, ReservedType, SumEmpty DEF AllSummable, Summable
  <2>3. ceiling[p][w] \in Limits
    BY <1>1 DEF TInv, TypeOK
  <2> QED
    BY <2>2, <2>3 DEF Within, Limits
<1>5. SelectedAfresh
  BY IdleShape DEF Init, SelectedAfresh
<1> QED
  BY <1>2, <1>3, <1>4, <1>5 DEF BInv

\* A step after which no policy has more reserved keeps the bound.
LEMMA BoundKept ==
    ASSUME TInv, TInv', PolicyReservationsBounded,
           \A p \in Policies, w \in Windows :
               Reserved(p, w)' <= Reserved(p, w) /\ AtMost(ceiling[p][w], ceiling'[p][w])
    PROVE  PolicyReservationsBounded'
<1> SUFFICES ASSUME NEW p \in Policies, NEW w \in Windows
             PROVE  Within(Reserved(p, w)', ceiling'[p][w])
  BY DEF PolicyReservationsBounded
<1>1. Reserved(p, w) \in Nat /\ Reserved(p, w)' \in Nat
  BY ReservedType, ReservedTypeNext DEF AllSummable, Summable
<1>2. ceiling[p][w] \in Limits /\ ceiling'[p][w] \in Limits
  BY DEF TInv, TypeOK
<1>3. Within(Reserved(p, w)', ceiling[p][w])
  BY <1>1, <1>2 DEF PolicyReservationsBounded, Within, Limits
<1> QED
  BY <1>1, <1>2, <1>3, AtMostWithin

\* What a step must not do, unless it reads the spending or reserves.
LEMMA BudgetStep ==
    ASSUME TInv, TInv', BInv, CeilingKept', SelectedAfresh',
           \A p \in Policies, w \in Windows :
               Reserved(p, w)' <= Reserved(p, w) /\ AtMost(ceiling[p][w], ceiling'[p][w]),
           \A r \in Requests :
               proc'[r].pc = "reading" =>
                   \/ proc'[r].read = 0
                   \/ /\ proc[r].pc = "reading" /\ proc'[r].policy = proc[r].policy
                      /\ proc'[r].read = proc[r].read /\ proc'[r].spent = proc[r].spent
    PROVE  BInv'
<1>1. PolicyReservationsBounded'
  BY BoundKept DEF BInv
<1>2. ReadKept'
  <2> SUFFICES ASSUME NEW r \in Requests, NEW p \in Policies, NEW w \in Windows,
                      proc'[r].pc = "reading", proc'[r].policy = p, HasReadReserved(proc'[r], w)
               PROVE  Reserved(p, w)' <= proc'[r].spent[w]
    BY DEF ReadKept, HasReadReserved
  <2>1. proc'[r].read # 0
    BY DEF HasReadReserved
  <2>2. /\ proc[r].pc = "reading" /\ proc[r].policy = p
        /\ proc'[r].read = proc[r].read /\ proc'[r].spent = proc[r].spent
    BY <2>1
  <2>3. proc[r].spent[w] \in Nat
    BY DEF TInv, TypeOK, ProcState
  <2>4. Reserved(p, w) <= proc[r].spent[w]
    BY <2>2 DEF BInv, ReadKept, HasReadReserved
  <2>5. Reserved(p, w) \in Nat /\ Reserved(p, w)' \in Nat
    BY ReservedType, ReservedTypeNext DEF AllSummable, Summable
  <2>6. Reserved(p, w)' <= Reserved(p, w)
    OBVIOUS
  <2>7. Reserved(p, w)' <= proc[r].spent[w]
    BY <2>3, <2>4, <2>5, <2>6
  <2> QED
    BY <2>2, <2>7
<1> QED
  BY <1>1, <1>2 DEF BInv

LEMMA SameReserved ==
    ASSUME TInv, TInv', UNCHANGED <<clock, reservation, ceiling>>
    PROVE  \A p \in Policies, w \in Windows :
               Reserved(p, w)' <= Reserved(p, w) /\ AtMost(ceiling[p][w], ceiling'[p][w])
<1> SUFFICES ASSUME NEW p \in Policies, NEW w \in Windows
             PROVE  Reserved(p, w)' <= Reserved(p, w) /\ AtMost(ceiling[p][w], ceiling'[p][w])
  OBVIOUS
<1>1. ReservedBy(p, w)' = ReservedBy(p, w)
  BY DEF ReservedBy, Live, Active, Start
<1>2. Reserved(p, w)' <= Reserved(p, w)
  BY <1>1, ReservedShrinks
<1>3. ceiling[p][w] \in Limits
  BY DEF TInv, TypeOK
<1> QED
  BY <1>2, <1>3 DEF AtMost, Limits

\* A request that selects a policy, waits for its row, gives up, executes or logs.
LEMMA QuietBudget ==
    ASSUME TInv, TInv', BInv, NEW r \in Requests, NEW q,
           proc' = [proc EXCEPT ![r] = q],
           UNCHANGED <<clock, policy, reservation, ceiling>>,
           q.pc \in {"selected", "reading"} =>
               q.read = 0 /\ \A w \in Windows : AtMost(Budgets(q.config)[w], ceiling[q.policy][w])
    PROVE  BInv'
<1>1. /\ DOMAIN proc = Requests /\ proc'[r] = q
      /\ \A s \in Requests \ {r} : proc'[s] = proc[s]
  BY DEF TInv, TypeOK
<1>2. CeilingKept' /\ SelectedAfresh'
  BY <1>1 DEF BInv, CeilingKept, SelectedAfresh, Budgets
<1>3. \A s \in Requests :
          proc'[s].pc = "reading" =>
              \/ proc'[s].read = 0
              \/ /\ proc[s].pc = "reading" /\ proc'[s].policy = proc[s].policy
                 /\ proc'[s].read = proc[s].read /\ proc'[s].spent = proc[s].spent
  BY <1>1
<1> QED
  BY <1>2, <1>3, SameReserved, BudgetStep

LEMMA SelectBudget ==
    ASSUME TInv, TInv', BInv, NEW r \in Requests, NEW c \in Correlations, NEW p \in Policies,
           NEW generate, NEW ranking, Select(r, c, p, generate, ranking)
    PROVE  BInv'
<1> DEFINE q == [Idle EXCEPT !.pc = "selected", !.generate = generate, !.corr = c,
                             !.policy = p, !.config = policy[p], !.ranking = ranking]
<1>1. q.read = 0 /\ q.config = policy[p] /\ q.policy = p
  BY DEF Idle
<1>2. proc' = [proc EXCEPT ![r] = q] /\ UNCHANGED <<clock, policy, reservation, ceiling>>
  BY DEF Select
<1>3. \A w \in Windows : AtMost(Budgets(policy[p])[w], ceiling[p][w])
  BY DEF BInv, CeilingKept
<1> HIDE DEF q
<1> QED
  BY <1>1, <1>2, <1>3, QuietBudget

LEMMA LockPolicyBudget ==
    ASSUME TInv, TInv', BInv, NEW r \in Requests, LockPolicy(r)
    PROVE  BInv'
<1> DEFINE q == [proc[r] EXCEPT !.pc = "reading"]
<1>1. q.read = 0 /\ q.config = proc[r].config /\ q.policy = proc[r].policy
  BY DEF LockPolicy, BInv, SelectedAfresh, TInv, TypeOK, ProcState
<1>2. proc' = [proc EXCEPT ![r] = q] /\ UNCHANGED <<clock, policy, reservation, ceiling>>
  BY DEF LockPolicy
<1>3. \A w \in Windows : AtMost(Budgets(proc[r].config)[w], ceiling[proc[r].policy][w])
  BY DEF LockPolicy, BInv, CeilingKept
<1> HIDE DEF q
<1> QED
  BY <1>1, <1>2, <1>3, QuietBudget

LEMMA EndBudget ==
    ASSUME TInv, TInv', BInv, NEW r \in Requests,
           Reject(r) \/ Crash(r) \/ LogActual(r)
    PROVE  BInv'
<1>1. proc' = [proc EXCEPT ![r] = Idle] /\ UNCHANGED <<clock, policy, reservation, ceiling>>
  BY DEF Reject, AfterReject, Crash, LogActual
<1> QED
  BY <1>1, IdleShape, QuietBudget

LEMMA ExecuteBudget ==
    ASSUME TInv, TInv', BInv, NEW r \in Requests, NEW answered, NEW success,
           Execute(r, answered, success)
    PROVE  BInv'
<1>1. PICK output \in Usage(proc[r], SumFunctionOnSet(Cost, answered)) :
        proc' = [proc EXCEPT ![r] =
            [Idle EXCEPT !.pc = "settling", !.generate = TRUE, !.corr = proc[r].corr,
                         !.success = success, !.output = output]]
  BY DEF Execute
<1> DEFINE q == [Idle EXCEPT !.pc = "settling", !.generate = TRUE, !.corr = proc[r].corr,
                             !.success = success, !.output = output]
<1>2. q.pc = "settling"
  BY DEF Idle
<1>3. proc' = [proc EXCEPT ![r] = q] /\ UNCHANGED <<clock, policy, reservation, ceiling>>
  BY <1>1 DEF Execute
<1> HIDE DEF q
<1> QED
  BY <1>2, <1>3, QuietBudget

LEMMA TickBudget ==
    ASSUME TInv, TInv', BInv, Tick
    PROVE  BInv'
<1>1. UNCHANGED <<policy, ceiling, reservation, proc>> /\ clock' = clock + 1
  BY DEF Tick
<1>2. CeilingKept' /\ SelectedAfresh'
  BY <1>1 DEF BInv, CeilingKept, SelectedAfresh, Budgets
<1>3. ASSUME NEW p \in Policies, NEW w \in Windows
      PROVE  Reserved(p, w)' <= Reserved(p, w) /\ AtMost(ceiling[p][w], ceiling'[p][w])
  <2>1. Start(w)' \in Nat /\ Start(w) \in Nat /\ Start(w) <= Start(w)'
    BY <1>1, StartAdvances
  <2>2. \A c \in Correlations : Live(c, w)' => Live(c, w)
    <3> SUFFICES ASSUME NEW c \in Correlations, Live(c, w)' PROVE Live(c, w)
      OBVIOUS
    <3>1. reservation[c].at \in Nat /\ clock \in Nat /\ Lifetime \in Nat
      BY RouterAssumption DEF RouterAssumption, TInv, TypeOK, Reservation
    <3>2. /\ reservation[c].state = "RESERVED" /\ clock + 1 < reservation[c].at + Lifetime
          /\ reservation[c].at >= Start(w)'
      BY <1>1 DEF Live, Active
    <3> QED
      BY <2>1, <3>1, <3>2 DEF Live, Active
  <2>3. ReservedBy(p, w)' \subseteq ReservedBy(p, w)
    BY <1>1, <2>2 DEF ReservedBy
  <2>4. Reserved(p, w)' <= Reserved(p, w)
    BY <1>1, <2>3, ReservedShrinks
  <2>5. ceiling[p][w] \in Limits
    BY DEF TInv, TypeOK
  <2> QED
    BY <1>1, <2>4, <2>5 DEF AtMost, Limits
<1> QED
  BY <1>1, <1>2, <1>3, BudgetStep

LEMMA SettleBudget ==
    ASSUME TInv, TInv', BInv, NEW r \in Requests, Settle(r)
    PROVE  BInv'
<1>1. /\ UNCHANGED <<policy, ceiling, clock>>
      /\ DOMAIN proc = Requests
      /\ \A s \in Requests \ {r} : proc'[s] = proc[s]
      /\ proc'[r].pc \in {"logging", "idle"}
  BY IdleShape DEF Settle, TInv, TypeOK, ProcState
<1>2. CeilingKept' /\ SelectedAfresh'
  BY <1>1 DEF BInv, CeilingKept, SelectedAfresh, Budgets
<1>3. \A c \in Correlations :
          /\ reservation'[c].amount = reservation[c].amount
          /\ reservation'[c].policy = reservation[c].policy
          /\ reservation'[c].at = reservation[c].at
          /\ reservation'[c].state = "RESERVED" => reservation[c].state = "RESERVED"
  BY DEF Settle, Settled, TInv, TypeOK, Reservation
<1>4. ASSUME NEW p \in Policies, NEW w \in Windows
      PROVE  Reserved(p, w)' <= Reserved(p, w) /\ AtMost(ceiling[p][w], ceiling'[p][w])
  <2>1. ReservedBy(p, w)' \subseteq ReservedBy(p, w)
    BY <1>1, <1>3 DEF ReservedBy, Live, Active, Start
  <2>2. \A c \in ReservedBy(p, w)' : reservation'[c].amount = reservation[c].amount
    BY <1>3 DEF ReservedBy
  <2>3. Reserved(p, w)' <= Reserved(p, w)
    BY <2>1, <2>2, ReservedShrinks
  <2>4. ceiling[p][w] \in Limits
    BY DEF TInv, TypeOK
  <2> QED
    BY <1>1, <2>3, <2>4 DEF AtMost, Limits
<1> QED
  BY <1>1, <1>2, <1>4, BudgetStep

LEMMA UpdatePolicyBudget ==
    ASSUME TInv, TInv', BInv, NEW p \in Policies, NEW config \in Configs, UpdatePolicy(p, config)
    PROVE  BInv'
<1>1. /\ UNCHANGED <<clock, reservation, proc>>
      /\ policy' = [policy EXCEPT ![p] = config]
      /\ \A p2 \in Policies, w \in Windows :
            ceiling'[p2][w] = IF p2 = p THEN Larger(ceiling[p][w], Budgets(config)[w])
                              ELSE ceiling[p2][w]
  BY DEF UpdatePolicy, TInv, TypeOK
<1>2. ASSUME NEW p2 \in Policies, NEW w \in Windows
      PROVE  /\ ceiling[p2][w] \in Limits /\ ceiling'[p2][w] \in Limits
             /\ AtMost(ceiling[p2][w], ceiling'[p2][w])
             /\ AtMost(Budgets(config)[w], ceiling'[p][w])
  <2>1. /\ ceiling[p2][w] \in Limits /\ ceiling'[p2][w] \in Limits
        /\ ceiling[p][w] \in Limits /\ Budgets(config)[w] \in Limits
    BY PolicyConfigType DEF TInv, TypeOK
  <2>2. AtMost(ceiling[p][w], Larger(ceiling[p][w], Budgets(config)[w]))
        /\ AtMost(Budgets(config)[w], Larger(ceiling[p][w], Budgets(config)[w]))
    BY <2>1, LargerLimit
  <2> QED
    BY <1>1, <2>1, <2>2 DEF AtMost, Limits
<1>3. CeilingKept'
  <2>1. ASSUME NEW p2 \in Policies, NEW w \in Windows
        PROVE  AtMost(Budgets(policy'[p2])[w], ceiling'[p2][w])
    <3>1. CASE p2 = p
      BY <1>1, <1>2, <3>1 DEF TInv, TypeOK
    <3>2. CASE p2 # p
      BY <1>1, <3>2 DEF BInv, CeilingKept, TInv, TypeOK
    <3> QED
      BY <3>1, <3>2
  <2>2. ASSUME NEW r \in Requests, NEW w \in Windows, proc[r].pc \in {"selected", "reading"}
        PROVE  AtMost(Budgets(proc[r].config)[w], ceiling'[proc[r].policy][w])
    <3>1. proc[r].policy \in Policies /\ proc[r].config \in Configs
      BY DEF TInv, TypeOK, ProcState
    <3>2. Budgets(proc[r].config)[w] \in Limits
      BY <3>1, PolicyConfigType
    <3>3. AtMost(Budgets(proc[r].config)[w], ceiling[proc[r].policy][w])
      BY <2>2 DEF BInv, CeilingKept
    <3> QED
      BY <1>2, <3>1, <3>2, <3>3, AtMostTransitive
  <2> QED
    BY <1>1, <2>1, <2>2 DEF CeilingKept, Budgets
<1>4. SelectedAfresh'
  BY <1>1 DEF BInv, SelectedAfresh
<1>5. \A p2 \in Policies, w \in Windows : Reserved(p2, w)' <= Reserved(p2, w)
  <2> SUFFICES ASSUME NEW p2 \in Policies, NEW w \in Windows PROVE Reserved(p2, w)' <= Reserved(p2, w)
    OBVIOUS
  <2>1. ReservedBy(p2, w)' = ReservedBy(p2, w)
    BY <1>1 DEF ReservedBy, Live, Active, Start
  <2> QED
    BY <1>1, <2>1, ReservedShrinks
<1> QED
  BY <1>1, <1>2, <1>3, <1>4, <1>5, BudgetStep

\* What ReadSpent adds for the reserved amounts covers those of its own policy.
LEMMA ReadSpentBudget ==
    ASSUME TInv, TInv', BInv, NEW r \in Requests, ReadSpent(r)
    PROVE  BInv'
<1> DEFINE n == proc[r].read + 1
           v == Statements[n][1]
           kind == Statements[n][2]
<1>1. /\ proc[r].pc = "reading" /\ proc[r] \in ProcState
      /\ n \in {1, 2, 3, 4}
      /\ UNCHANGED <<clock, policy, ceiling, reservation, actual, paid>>
  <2>1. proc[r] \in ProcState /\ proc[r].read \in 0..4 /\ n <= 4
    BY DEF ReadSpent, TInv, TypeOK, ProcState, Statements
  <2>2. n \in {1, 2, 3, 4}
    BY <2>1
  <2> QED
    BY <2>1, <2>2 DEF ReadSpent
<1>2. v \in Windows /\ Spent(v, kind) \in Nat
  <2>1. v \in Windows
    BY <1>1 DEF Statements, Windows
  <2> QED
    BY <2>1, SpentType DEF TInv
<1>3. /\ \A s \in Requests \ {r} : proc'[s] = proc[s]
      /\ proc'[r].pc = "reading" /\ proc'[r].policy = proc[r].policy
      /\ proc'[r].config = proc[r].config /\ proc'[r].read = n
      /\ \A w \in Windows : proc'[r].spent[w] =
              IF w = v THEN proc[r].spent[w] + Spent(v, kind) ELSE proc[r].spent[w]
  BY <1>1, <1>2 DEF ReadSpent, TInv, TypeOK, ProcState
<1>4. \A p \in Policies, w \in Windows :
          Reserved(p, w)' <= Reserved(p, w) /\ AtMost(ceiling[p][w], ceiling'[p][w])
  BY <1>1, SameReserved
<1>5. PolicyReservationsBounded'
  BY <1>4, BoundKept DEF BInv
<1>6. CeilingKept' /\ SelectedAfresh'
  BY <1>1, <1>3 DEF BInv, CeilingKept, SelectedAfresh, Budgets
<1>7. ReadKept'
  <2> SUFFICES ASSUME NEW s \in Requests, NEW p \in Policies, NEW w \in Windows,
                      proc'[s].pc = "reading", proc'[s].policy = p, HasReadReserved(proc'[s], w)
               PROVE  Reserved(p, w)' <= proc'[s].spent[w]
    BY DEF ReadKept, HasReadReserved
  <2>1. Reserved(p, w) \in Nat /\ Reserved(p, w)' \in Nat /\ proc[s].spent[w] \in Nat
    BY ReservedType, ReservedTypeNext DEF AllSummable, Summable, TInv, TypeOK, ProcState
  <2>2. Reserved(p, w)' <= Reserved(p, w)
    BY <1>4
  <2>3. CASE s # r
    <3>1. Reserved(p, w) <= proc[s].spent[w]
      BY <1>3, <2>3 DEF BInv, ReadKept, HasReadReserved
    <3> QED
      BY <1>3, <2>1, <2>2, <2>3, <3>1
  <2>4. CASE s = r /\ HasReadReserved(proc[r], w)
    <3>1. Reserved(p, w) <= proc[r].spent[w]
      BY <1>1, <1>3, <2>4 DEF BInv, ReadKept, HasReadReserved
    <3>2. proc[r].spent[w] <= proc'[r].spent[w]
      BY <1>2, <1>3, <2>1, <2>4
    <3> QED
      BY <1>2, <1>3, <2>1, <2>2, <2>4, <3>1, <3>2
  <2>5. CASE s = r /\ ~HasReadReserved(proc[r], w)
    <3>1. v = w /\ kind = "reserved"
      <4>1. proc[r].read = n - 1 /\ n \in Int
        BY <1>1 DEF ProcState
      <4>2. CASE w = "day"
        <5>1. n = 2
          BY <1>1, <1>3, <2>5, <4>1, <4>2 DEF HasReadReserved
        <5> QED
          BY <4>2, <5>1 DEF Statements
      <4>3. CASE w = "month"
        <5>1. n = 4
          BY <1>1, <1>3, <2>5, <4>1, <4>3 DEF HasReadReserved
        <5> QED
          BY <4>3, <5>1 DEF Statements
      <4> QED
        BY <4>2, <4>3 DEF Windows
    <3>2. Spent(v, kind) = SumFunctionOnSet(Amounts, {c \in Correlations : Live(c, w)})
      BY <3>1 DEF Spent
    <3>3. Reserved(p, w) <= Spent(v, kind)
      <4> DEFINE S == {c \in Correlations : Live(c, w)}
      <4>1. /\ S \subseteq Correlations /\ IsFiniteSet(S)
            /\ ReservedBy(p, w) \subseteq S
        <5>1. S \subseteq Correlations /\ ReservedBy(p, w) \subseteq S
          BY DEF ReservedBy
        <5> HIDE DEF S
        <5> QED
          BY <5>1, FS_Subset, RouterAssumption DEF RouterAssumption
      <4>2. \A c \in Correlations : Amounts[c] \in Nat
        BY ReservedType DEF AllSummable, Summable
      <4>3. Reserved(p, w) = SumFunctionOnSet(Amounts, ReservedBy(p, w))
        BY ReservedType DEF AllSummable, Summable
      <4> HIDE DEF S
      <4>4. SumFunctionOnSet(Amounts, ReservedBy(p, w)) <= SumFunctionOnSet(Amounts, S)
        BY <4>1, <4>2, SumSubset
      <4> QED
        BY <3>2, <4>3, <4>4 DEF S
    <3>4. proc'[r].spent[w] = proc[r].spent[w] + Spent(v, kind)
      BY <1>3, <3>1
    <3> HIDE DEF v, kind
    <3> QED
      BY <1>2, <2>1, <2>2, <2>5, <3>3, <3>4
  <2> QED
    BY <2>3, <2>4, <2>5
<1> QED
  BY <1>5, <1>6, <1>7 DEF BInv

\* A reservation is added only to its own policy, where it was allowed.
LEMMA ReservedGrows ==
    ASSUME TInv, TInv', NEW c \in Correlations, NEW p \in Policies, NEW w \in Windows,
           reservation[c].state = "NONE",
           \A d \in Correlations \ {c} : reservation'[d] = reservation[d],
           UNCHANGED clock
    PROVE  /\ reservation'[c].policy # p => Reserved(p, w)' <= Reserved(p, w)
           /\ Reserved(p, w)' <= Reserved(p, w) + reservation'[c].amount
<1> DEFINE S == ReservedBy(p, w)
           T == ReservedBy(p, w)'
<1>1. /\ Reserved(p, w) = SumFunctionOnSet(Amounts, S) /\ Reserved(p, w) \in Nat
      /\ IsFiniteSet(S)
      /\ \A d \in Correlations : Amounts[d] = reservation[d].amount /\ Amounts[d] \in Nat
  BY ReservedType DEF AllSummable, Summable
<1>2. /\ Reserved(p, w)' = SumFunctionOnSet(Amounts', T) /\ Reserved(p, w)' \in Nat
      /\ IsFiniteSet(T)
      /\ \A d \in Correlations : Amounts'[d] = reservation'[d].amount /\ Amounts'[d] \in Nat
  BY ReservedTypeNext DEF AllSummable, Summable
<1>3. /\ S \subseteq Correlations /\ T \subseteq Correlations
      /\ T \ {c} \subseteq S
      /\ reservation'[c].policy # p => c \notin T
  BY DEF ReservedBy, Live, Active, Start
<1>4. reservation'[c].policy # p => Reserved(p, w)' <= Reserved(p, w)
  <2> SUFFICES ASSUME reservation'[c].policy # p PROVE Reserved(p, w)' <= Reserved(p, w)
    OBVIOUS
  <2>1. T \subseteq S /\ \A d \in T : reservation'[d].amount = reservation[d].amount
    BY <1>3
  <2> QED
    BY <2>1, ReservedShrinks
<1> HIDE DEF S, T
<1> DEFINE U == T \ {c}
<1>5. SumFunctionOnSet(Amounts', U) <= Reserved(p, w) /\ SumFunctionOnSet(Amounts', U) \in Nat
  <2>1. IsFiniteSet(U) /\ U \subseteq S /\ \A d \in U : d \in Correlations
    BY <1>2, <1>3, FS_Subset
  <2>2. \A d \in U : Amounts'[d] \in Int /\ Amounts'[d] = Amounts[d] /\ Amounts'[d] \in Nat
    BY <1>1, <1>2, <1>3
  <2>3. \A d \in S : Amounts[d] \in Nat
    BY <1>1, <1>3
  <2> HIDE DEF U
  <2>4. SumFunctionOnSet(Amounts', U) = SumFunctionOnSet(Amounts, U)
    BY <2>1, <2>2, SumAgree
  <2>5. SumFunctionOnSet(Amounts, U) <= SumFunctionOnSet(Amounts, S)
    BY <1>1, <2>1, <2>3, SumSubset
  <2>6. SumFunctionOnSet(Amounts', U) \in Nat
    BY <2>1, <2>2, SumNat
  <2> QED
    BY <1>1, <2>4, <2>5, <2>6
<1>6. \/ SumFunctionOnSet(Amounts', T) = SumFunctionOnSet(Amounts', U)
      \/ SumFunctionOnSet(Amounts', T) = Amounts'[c] + SumFunctionOnSet(Amounts', U)
  <2>1. CASE c \in T
    <3>1. \A d \in T : Amounts'[d] \in Int
      BY <1>2, <1>3
    <3> QED
      BY <1>2, <2>1, <3>1, SumRemove
  <2>2. CASE c \notin T
    <3>1. T = U
      BY <2>2
    <3> QED
      BY <3>1
  <2> QED
    BY <2>1, <2>2
<1>7. Amounts'[c] = reservation'[c].amount /\ Amounts'[c] \in Nat
  BY <1>2
<1> HIDE DEF U
<1>8. Reserved(p, w)' <= Reserved(p, w) + reservation'[c].amount
  BY <1>1, <1>2, <1>5, <1>6, <1>7
<1> QED
  BY <1>4, <1>8

LEMMA ReserveBudget ==
    ASSUME IInv, TInv, TInv', BInv, NEW r \in Requests, Reserve(r)
    PROVE  BInv'
<1> DEFINE q == proc[r]
           c == proc[r].corr
<1>1. /\ q \in ProcState /\ q.config \in Configs /\ c \in Correlations /\ q.policy \in Policies
      /\ q.ranking \in Rankings /\ q.pc = "reading" /\ q.read = 4
      /\ reservation[c].state = "NONE"
      /\ UNCHANGED <<clock, policy, ceiling>>
  BY DEF Reserve, CorrelationFree, Statements, TInv, TypeOK, ProcState, RankingKept
<1>2. PICK s \in Affordable(q) :
        /\ reservation' = [reservation EXCEPT ![c] =
                [state |-> "RESERVED", policy |-> q.policy, at |-> clock,
                 amount |-> PlanCost(s, q.config.topK)]]
        /\ proc' = [proc EXCEPT ![r] =
                IF q.generate
                THEN [Idle EXCEPT !.pc = "executing", !.generate = TRUE, !.corr = c,
                                  !.config = q.config, !.plan = PlanModels(q, s)]
                ELSE Idle]
  BY DEF Reserve
<1> DEFINE amount == PlanCost(s, q.config.topK)
<1>3. Allowed(q, amount)
  BY <1>2 DEF Affordable
<1>4. /\ reservation'[c].amount = amount /\ reservation'[c].policy = q.policy
      /\ \A d \in Correlations \ {c} : reservation'[d] = reservation[d]
      /\ amount \in Nat
  <2>1. /\ reservation'[c].amount = amount /\ reservation'[c].policy = q.policy
        /\ \A d \in Correlations \ {c} : reservation'[d] = reservation[d]
    BY <1>1, <1>2 DEF TInv, TypeOK
  <2>2. reservation'[c].amount \in Nat
    BY <1>1 DEF TInv, TypeOK, Reservation
  <2> QED
    BY <2>1, <2>2
<1>5. /\ proc'[r].pc \in {"executing", "idle"}
      /\ \A s2 \in Requests \ {r} : proc'[s2] = proc[s2]
  <2> DEFINE e == [Idle EXCEPT !.pc = "executing", !.generate = TRUE, !.corr = c,
                               !.config = q.config, !.plan = PlanModels(q, s)]
  <2>1. e.pc = "executing"
    BY DEF Idle
  <2>2. proc' = [proc EXCEPT ![r] = IF q.generate THEN e ELSE Idle]
    BY <1>2
  <2> HIDE DEF e
  <2> QED
    BY <2>1, <2>2, IdleShape DEF TInv, TypeOK
<1> HIDE DEF amount
<1>6. CeilingKept' /\ SelectedAfresh'
  BY <1>1, <1>5 DEF BInv, CeilingKept, SelectedAfresh, Budgets
<1>7. ASSUME NEW p \in Policies, NEW w \in Windows
      PROVE  /\ Reserved(p, w) \in Nat /\ Reserved(p, w)' \in Nat
             /\ p # q.policy => Reserved(p, w)' <= Reserved(p, w)
             /\ Reserved(p, w)' <= Reserved(p, w) + amount
  <2>1. Reserved(p, w) \in Nat /\ Reserved(p, w)' \in Nat
    BY ReservedType, ReservedTypeNext DEF AllSummable, Summable
  <2> QED
    BY <1>1, <1>4, <2>1, ReservedGrows
<1>8. ReadKept'
  <2> SUFFICES ASSUME NEW s2 \in Requests, NEW p \in Policies, NEW w \in Windows,
                      proc'[s2].pc = "reading", proc'[s2].policy = p,
                      HasReadReserved(proc'[s2], w)
               PROVE  Reserved(p, w)' <= proc'[s2].spent[w]
    BY DEF ReadKept, HasReadReserved
  <2>1. s2 # r /\ proc'[s2] = proc[s2]
    BY <1>5
  <2>2. p # q.policy
    BY <1>1, <2>1 DEF IInv, RowExclusive
  <2>3. Reserved(p, w) <= proc[s2].spent[w] /\ proc[s2].spent[w] \in Nat
    BY <2>1 DEF BInv, ReadKept, HasReadReserved, TInv, TypeOK, ProcState
  <2>4. /\ Reserved(p, w) \in Nat /\ Reserved(p, w)' \in Nat
        /\ Reserved(p, w)' <= Reserved(p, w)
    BY <1>7, <2>2
  <2> QED
    BY <2>1, <2>3, <2>4
<1>9. PolicyReservationsBounded'
  <2> SUFFICES ASSUME NEW p \in Policies, NEW w \in Windows
               PROVE  Within(Reserved(p, w)', ceiling'[p][w])
    BY DEF PolicyReservationsBounded
  <2>1. /\ Reserved(p, w) \in Nat /\ Reserved(p, w)' \in Nat
        /\ p # q.policy => Reserved(p, w)' <= Reserved(p, w)
        /\ Reserved(p, w)' <= Reserved(p, w) + amount
    BY <1>7
  <2>2. ceiling[p][w] \in Limits /\ ceiling'[p][w] = ceiling[p][w]
    BY <1>1 DEF TInv, TypeOK
  <2>3. CASE p # q.policy
    <3>1. Within(Reserved(p, w), ceiling[p][w])
      BY DEF BInv, PolicyReservationsBounded
    <3> QED
      BY <2>1, <2>2, <2>3, <3>1 DEF Within, Limits
  <2>4. CASE p = q.policy
    <3>1. Reserved(p, w) <= q.spent[w] /\ q.spent[w] \in Nat
      BY <1>1, <2>4 DEF BInv, ReadKept, HasReadReserved, ProcState
    <3>2. Within(q.spent[w] + amount, Budgets(q.config)[w])
      BY <1>3 DEF Allowed, Budgets, Windows
    <3>3. Budgets(q.config)[w] \in Limits /\ AtMost(Budgets(q.config)[w], ceiling[p][w])
      BY <1>1, <2>4, PolicyConfigType DEF BInv, CeilingKept
    <3>4. q.spent[w] + amount \in Nat
      BY <1>4, <3>1
    <3>5. Within(q.spent[w] + amount, ceiling[p][w])
      BY <2>2, <3>2, <3>3, <3>4, AtMostWithin
    <3>6. Reserved(p, w)' <= q.spent[w] + amount
      BY <1>4, <2>1, <3>1
    <3> QED
      BY <2>1, <2>2, <3>4, <3>5, <3>6 DEF Within, Limits
  <2> QED
    BY <2>3, <2>4
<1> QED
  BY <1>6, <1>8, <1>9 DEF BInv

LEMMA NextBudget ==
    ASSUME IInv, TInv, TInv', BInv, [Next]_vars
    PROVE  BInv'
<1>1. CASE UNCHANGED vars
  <2>1. CeilingKept' /\ SelectedAfresh' /\ UNCHANGED <<clock, reservation, ceiling, proc>>
    BY <1>1 DEF vars, BInv, CeilingKept, SelectedAfresh, Budgets
  <2> QED
    BY <2>1, SameReserved, BudgetStep
<1>2. ASSUME NEW r \in Requests, Step(r) PROVE BInv'
  BY <1>2, LockPolicyBudget, ReadSpentBudget, ReserveBudget, EndBudget, ExecuteBudget,
     SettleBudget DEF Step
<1> QED
  BY <1>1, <1>2, TickBudget, UpdatePolicyBudget, SelectBudget, EndBudget DEF Next

-----------------------------------------------------------------------------
(***************************************************************************)
(* Plans within reservations                                               *)
(***************************************************************************)
\* The models a plan tries, each counted once, cost at most what is reserved.
LEMMA PlanModelsCost ==
    ASSUME NEW q, NEW s \in Seq(Models), Len(s) >= 1, q.config.topK \in 1..8
    PROVE  SumFunctionOnSet(Cost, PlanModels(q, s)) <= PlanCost(s, q.config.topK)
<1> DEFINE k == Smaller(q.config.topK, Len(s))
           c == [i \in DOMAIN s |-> Cost[s[i]]]
           P == {s[i] : i \in 1..k}
<1>1. k \in Nat /\ 1 \in 1..k /\ 1..k \subseteq DOMAIN s
  BY DEF Smaller
<1>2. IsFiniteSet(1..k)
  BY <1>1, FS_Interval
<1>3. \A i \in 1..k : s[i] \in Models /\ c[i] = Cost[s[i]] /\ c[i] \in Nat
  BY <1>1, RouterAssumption DEF RouterAssumption
<1>4. PlanCost(s, q.config.topK) = SumFunctionOnSet(c, 1..k)
  BY DEF PlanCost
<1>5. PlanModels(q, s) \subseteq P
  BY <1>1 DEF PlanModels
<1>6. P \subseteq Models /\ \A m \in P : Cost[m] \in Nat
  BY <1>3
<1> HIDE DEF k, c
<1>7. Composes(c, Cost, s, 1..k, P)
  BY <1>3 DEF Composes
<1> HIDE DEF P
<1>8. IsFiniteSet(P)
  BY <1>6, FS_Subset, RouterAssumption DEF RouterAssumption
<1>9. SumFunctionOnSet(Cost, PlanModels(q, s)) <= SumFunctionOnSet(Cost, P)
  BY <1>5, <1>6, <1>8, SumSubset
<1>10. SumFunctionOnSet(Cost, P) <= SumFunctionOnSet(c, 1..k)
  BY <1>2, <1>3, <1>7, SumImage
<1>11. /\ SumFunctionOnSet(Cost, P) \in Nat
       /\ SumFunctionOnSet(c, 1..k) \in Nat
       /\ SumFunctionOnSet(Cost, PlanModels(q, s)) \in Nat
  <2>1. IsFiniteSet(PlanModels(q, s)) /\ \A m \in PlanModels(q, s) : Cost[m] \in Nat
    BY <1>5, <1>6, <1>8, FS_Subset
  <2> QED
    BY <1>2, <1>3, <1>6, <1>8, <2>1, SumNat
<1> QED
  BY <1>4, <1>9, <1>10, <1>11

\* A step that leaves amounts and plans of executing requests alone.
LEMMA SamePlans ==
    ASSUME PlanWithinReservation,
           \A r \in Requests : proc'[r].pc = "executing" => proc'[r] = proc[r],
           \A c \in Correlations : reservation'[c].amount = reservation[c].amount,
           \A r \in Requests : proc[r].corr \in Correlations
    PROVE  PlanWithinReservation'
BY DEF PlanWithinReservation

LEMMA ReservePlan ==
    ASSUME IInv, TInv, PlanWithinReservation, NEW r \in Requests, Reserve(r)
    PROVE  PlanWithinReservation'
<1> DEFINE q == proc[r]
           c == proc[r].corr
<1>1. /\ q \in ProcState /\ c \in Correlations /\ q.ranking \in Rankings
      /\ q.config \in Configs /\ reservation[c].state = "NONE"
  BY DEF Reserve, CorrelationFree, TInv, TypeOK, ProcState, RankingKept
<1>2. PICK s \in Affordable(q) :
        /\ reservation' = [reservation EXCEPT ![c] =
                [state |-> "RESERVED", policy |-> q.policy, at |-> clock,
                 amount |-> PlanCost(s, q.config.topK)]]
        /\ proc' = [proc EXCEPT ![r] =
                IF q.generate
                THEN [Idle EXCEPT !.pc = "executing", !.generate = TRUE, !.corr = c,
                                  !.config = q.config, !.plan = PlanModels(q, s)]
                ELSE Idle]
  BY DEF Reserve
<1>3. s \in Seq(Models) /\ Len(s) >= 1 /\ q.config.topK \in 1..8
  BY <1>1, <1>2, AffordableType, PolicyConfigType, RankingType
<1>4. SumFunctionOnSet(Cost, PlanModels(q, s)) <= PlanCost(s, q.config.topK)
  BY <1>3, PlanModelsCost
<1>5. /\ reservation'[c].amount = PlanCost(s, q.config.topK)
      /\ \A d \in Correlations \ {c} : reservation'[d] = reservation[d]
  BY <1>1, <1>2 DEF TInv, TypeOK
<1> DEFINE e == [Idle EXCEPT !.pc = "executing", !.generate = TRUE, !.corr = c,
                             !.config = q.config, !.plan = PlanModels(q, s)]
<1>6. e.corr = c /\ e.plan = PlanModels(q, s)
  BY DEF Idle
<1>7. proc' = [proc EXCEPT ![r] = IF q.generate THEN e ELSE Idle]
  BY <1>2
<1> HIDE DEF e
<1>8. SUFFICES ASSUME NEW r2 \in Requests, proc'[r2].pc = "executing"
      PROVE  SumFunctionOnSet(Cost, proc'[r2].plan) <= reservation'[proc'[r2].corr].amount
  BY DEF PlanWithinReservation
<1>9. CASE r2 = r
  <2>1. proc'[r2] = e
    BY <1>7, <1>8, <1>9, IdleShape DEF TInv, TypeOK
  <2> QED
    BY <1>4, <1>5, <1>6, <2>1
<1>10. CASE r2 # r
  <2>1. proc'[r2] = proc[r2] /\ proc[r2].corr \in Correlations
    BY <1>7, <1>10 DEF TInv, TypeOK, ProcState
  <2>2. proc[r2].corr # c
    BY <1>1, <1>8, <2>1 DEF IInv, Progress, RequestProgress
  <2> QED
    BY <1>5, <1>8, <2>1, <2>2 DEF PlanWithinReservation
<1> QED
  BY <1>9, <1>10

LEMMA NextPlan ==
    ASSUME IInv, TInv, PlanWithinReservation, [Next]_vars
    PROVE  PlanWithinReservation'
<1>1. /\ \A r \in Requests : proc[r] \in ProcState /\ proc[r].corr \in Correlations
      /\ DOMAIN proc = Requests
  BY DEF TInv, TypeOK, ProcState
<1>2. CASE UNCHANGED vars
  BY <1>1, <1>2, SamePlans DEF vars
<1>3. CASE Tick
  BY <1>1, <1>3, SamePlans DEF Tick
<1>4. ASSUME NEW p \in Policies, NEW config \in Configs, UpdatePolicy(p, config)
      PROVE  PlanWithinReservation'
  BY <1>1, <1>4, SamePlans DEF UpdatePolicy
<1>5. ASSUME NEW r \in Requests, NEW q, q.pc # "executing", proc' = [proc EXCEPT ![r] = q],
             \A c \in Correlations : reservation'[c].amount = reservation[c].amount
      PROVE  PlanWithinReservation'
  BY <1>1, <1>5, SamePlans
<1>6. ASSUME NEW r \in Requests, NEW c \in Correlations, NEW p \in Policies,
             NEW generate \in Generates, NEW ranking \in Rankings,
             Select(r, c, p, generate, ranking)
      PROVE  PlanWithinReservation'
  <2> DEFINE q == [Idle EXCEPT !.pc = "selected", !.generate = generate, !.corr = c,
                               !.policy = p, !.config = policy[p], !.ranking = ranking]
  <2>1. q.pc # "executing"
    BY DEF Idle
  <2>2. proc' = [proc EXCEPT ![r] = q] /\ reservation' = reservation
    BY <1>6 DEF Select
  <2> HIDE DEF q
  <2> QED
    BY <1>5, <2>1, <2>2
<1>7. ASSUME NEW r \in Requests, LockPolicy(r) PROVE PlanWithinReservation'
  BY <1>1, <1>7, SamePlans DEF LockPolicy, ProcState
<1>8. ASSUME NEW r \in Requests, ReadSpent(r) PROVE PlanWithinReservation'
  BY <1>1, <1>8, SamePlans DEF ReadSpent, ProcState
<1>9. ASSUME NEW r \in Requests, Reject(r) \/ Crash(r) PROVE PlanWithinReservation'
  BY <1>5, <1>9, IdleShape DEF Reject, Crash, AfterReject
<1>10. ASSUME NEW r \in Requests, NEW answered, NEW success, Execute(r, answered, success)
       PROVE  PlanWithinReservation'
  <2>1. PICK output \in Usage(proc[r], SumFunctionOnSet(Cost, answered)) :
          proc' = [proc EXCEPT ![r] =
              [Idle EXCEPT !.pc = "settling", !.generate = TRUE, !.corr = proc[r].corr,
                           !.success = success, !.output = output]]
    BY <1>10 DEF Execute
  <2> DEFINE q == [Idle EXCEPT !.pc = "settling", !.generate = TRUE, !.corr = proc[r].corr,
                               !.success = success, !.output = output]
  <2>2. q.pc # "executing"
    BY DEF Idle
  <2>3. proc' = [proc EXCEPT ![r] = q] /\ reservation' = reservation
    BY <1>10, <2>1 DEF Execute
  <2> HIDE DEF q
  <2> QED
    BY <1>5, <2>2, <2>3
<1>11. ASSUME NEW r \in Requests, Settle(r) PROVE PlanWithinReservation'
  <2> DEFINE q == IF proc[r].success THEN [proc[r] EXCEPT !.pc = "logging"] ELSE Idle
  <2>1. q.pc # "executing"
    BY <1>1, IdleShape DEF ProcState
  <2>2. proc' = [proc EXCEPT ![r] = q]
    BY <1>11 DEF Settle
  <2>3. \A c \in Correlations : reservation'[c].amount = reservation[c].amount
    BY <1>11 DEF Settle, TInv, TypeOK, Reservation
  <2> HIDE DEF q
  <2> QED
    BY <1>5, <2>1, <2>2, <2>3
<1>12. ASSUME NEW r \in Requests, LogActual(r) PROVE PlanWithinReservation'
  BY <1>5, <1>12, IdleShape DEF LogActual
<1>13. ASSUME NEW r \in Requests, Step(r) PROVE PlanWithinReservation'
  BY <1>7, <1>8, <1>9, <1>10, <1>11, <1>12, <1>13, ReservePlan DEF Step
<1> QED
  BY <1>2, <1>3, <1>4, <1>6, <1>9, <1>13 DEF Next

AInv == IInv /\ TInv /\ BInv /\ PlanWithinReservation

LEMMA BudgetInvariance == Spec => []AInv
<1>1. Init => AInv
  <2>1. Init => PlanWithinReservation
    BY IdleShape DEF Init, PlanWithinReservation
  <2> QED
    BY <2>1, InitInv, InitType, InitBudget DEF AInv
<1>2. AInv /\ [Next]_vars => AInv'
  <2> SUFFICES ASSUME AInv, [Next]_vars PROVE AInv'
    OBVIOUS
  <2>1. IInv /\ TInv /\ BInv /\ PlanWithinReservation
    BY DEF AInv
  <2>2. IInv'
    BY <2>1, NextInv
  <2>3. TInv'
    BY <2>1, NextType
  <2>4. BInv'
    BY <2>1, <2>3, NextBudget
  <2>5. PlanWithinReservation'
    BY <2>1, NextPlan
  <2> QED
    BY <2>2, <2>3, <2>4, <2>5 DEF AInv
<1> QED
  BY <1>1, <1>2, PTL DEF Spec

\* The live reservations of a policy never exceed the largest budget it had, and a plan
\* in execution never costs more than its reservation (optimize_for_budget, generate).
THEOREM BudgetCorrect == Spec => []BudgetKept
<1>1. AInv => BudgetKept
  BY DEF AInv, BInv, BudgetKept
<1> QED
  BY <1>1, BudgetInvariance, PTL

-----------------------------------------------------------------------------
(***************************************************************************)
(* Rejections                                                              *)
(***************************************************************************)
Candidates(q) == {q.ranking[i] : i \in DOMAIN q.ranking}
PlanSize(q) == Smaller(q.config.topK, Len(q.ranking))

\* The models a request was offered can be reordered by cost, and no choice of as many
\* costs less than the first top_k of that order.
LEMMA CheapestPlan ==
    ASSUME NEW q \in ProcState, q.ranking \in Rankings
    PROVE  \E s \in ByCost(q.ranking) :
              \A S \in SUBSET Candidates(q) :
                  Cardinality(S) = PlanSize(q) =>
                      PlanCost(s, q.config.topK) <= SumFunctionOnSet(Cost, S)
<1> DEFINE C == Candidates(q)
           n == Cardinality(C)
<1>1. /\ q.ranking \in Seq(Models) /\ Len(q.ranking) \in Nat /\ Len(q.ranking) >= 1
      /\ DOMAIN q.ranking = 1..Len(q.ranking)
      /\ IsInjective(q.ranking) /\ q.config.topK \in Nat
  BY RankingType, PolicyConfigType DEF ProcState
<1>2. IsFiniteSet(C) /\ n = Len(q.ranking) /\ C \subseteq Models
  <2>1. q.ranking \in Bijection(1..Len(q.ranking), C)
    <3>1. q.ranking \in [1..Len(q.ranking) -> C]
      BY <1>1 DEF Candidates
    <3> QED
      BY <1>1, <3>1 DEF Candidates, Bijection, Injection, Surjection
  <2>2. IsFiniteSet(1..Len(q.ranking)) /\ Cardinality(1..Len(q.ranking)) = Len(q.ranking)
    BY <1>1, FS_Interval
  <2>3. C \subseteq Models
    BY <1>1 DEF Candidates
  <2> QED
    BY <2>1, <2>2, <2>3, FS_Bijection DEF ExistsBijection
<1>3. \A m \in C : Cost[m] \in Nat
  BY <1>2, RouterAssumption DEF RouterAssumption
<1>4. C = {q.ranking[i] : i \in DOMAIN q.ranking}
  BY DEF Candidates
<1> HIDE DEF C
<1>5. PICK s : Arranges(s, Cost, C)
  BY <1>2, <1>3, SortedArrangement
<1>6. /\ s \in [1..n -> C] /\ DOMAIN s = 1..n
      /\ C = {s[i] : i \in 1..n}
      /\ \A i, j \in 1..n : i < j => Cost[s[i]] <= Cost[s[j]]
  BY <1>5 DEF Arranges
<1>7. s \in ByCost(q.ranking)
  <2>1. s \in [1..Len(q.ranking) -> Models]
    BY <1>2, <1>6
  <2>2. {s[i] : i \in DOMAIN s} = {q.ranking[i] : i \in DOMAIN q.ranking}
    BY <1>4, <1>6
  <2> QED
    BY <1>6, <2>1, <2>2 DEF ByCost
<1>8. ASSUME NEW S \in SUBSET C, Cardinality(S) = PlanSize(q)
      PROVE  PlanCost(s, q.config.topK) <= SumFunctionOnSet(Cost, S)
  <2>1. PlanSize(q) \in 0..n
    BY <1>1, <1>2 DEF PlanSize, Smaller
  <2>2. Len(s) = n
    BY <1>1, <1>2, <1>6
  <2>3. PlanCost(s, q.config.topK)
            = SumFunctionOnSet([i \in 1..n |-> Cost[s[i]]], 1..PlanSize(q))
    BY <1>2, <1>6, <2>2 DEF PlanCost, PlanSize
  <2>4. SumFunctionOnSet([i \in 1..n |-> Cost[s[i]]], 1..PlanSize(q)) <= SumFunctionOnSet(Cost, S)
    BY <1>2, <1>3, <1>5, <1>8, <2>1, CheapestFirst
  <2> QED
    BY <2>3, <2>4
<1> QED
  BY <1>7, <1>8 DEF C

\* What is allowed stays so when it costs less.
LEMMA AllowedLess ==
    ASSUME NEW q \in ProcState, NEW a \in Nat, NEW b \in Nat, a <= b, Allowed(q, b)
    PROVE  Allowed(q, a)
<1>1. /\ q.spent["day"] \in Nat /\ q.spent["month"] \in Nat
      /\ q.config.day \in Limits /\ q.config.month \in Limits /\ q.config.research \in Limits
  BY PolicyConfigType DEF ProcState, Windows
<1>2. /\ Within(q.spent["day"] + b, q.config.day)
      /\ Within(q.spent["month"] + b, q.config.month)
      /\ Within(b, q.config.research)
  BY DEF Allowed
<1>3. ASSUME NEW x \in Nat, NEW limit \in Limits, Within(x + b, limit)
      PROVE  Within(x + a, limit)
  BY <1>3 DEF Within, Limits
<1>4. Within(a, q.config.research)
  BY <1>1, <1>2 DEF Within, Limits
<1> QED
  BY <1>1, <1>2, <1>3, <1>4 DEF Allowed

LEMMA RejectUnaffordable ==
    ASSUME TInv, NEW r \in Requests, Reject(r), reservation[proc[r].corr].state = "NONE",
           NEW S \in SUBSET Candidates(proc[r]), Cardinality(S) = PlanSize(proc[r])
    PROVE  ~Allowed(proc[r], SumFunctionOnSet(Cost, S))
<1> DEFINE q == proc[r]
<1> SUFFICES ASSUME Allowed(q, SumFunctionOnSet(Cost, S)) PROVE FALSE
  OBVIOUS
<1>1. q \in ProcState /\ q.ranking \in Rankings /\ Affordable(q) = {}
  BY DEF Reject, CorrelationFree, TInv, TypeOK, RankingKept
<1>2. PICK s \in ByCost(q.ranking) : PlanCost(s, q.config.topK) <= SumFunctionOnSet(Cost, S)
  BY <1>1, CheapestPlan
<1>3. PlanCost(s, q.config.topK) \in Nat /\ SumFunctionOnSet(Cost, S) \in Nat
  <2>1. s \in Seq(Models)
    <3>1. q.ranking \in Seq(Models)
      BY <1>1, RankingType
    <3>2. s \in [1..Len(q.ranking) -> Models]
      BY <1>2 DEF ByCost
    <3> QED
      BY <3>1, <3>2
  <2>2. q.config.topK \in Nat
    <3>1. q.config \in Configs
      BY <1>1 DEF ProcState
    <3> QED
      BY <3>1, PolicyConfigType
  <2>3. S \subseteq Models
    BY <1>1, RankingType DEF Candidates
  <2>4. IsFiniteSet(S) /\ \A m \in S : Cost[m] \in Nat
    BY <2>3, FS_Subset, RouterAssumption DEF RouterAssumption
  <2> QED
    BY <2>1, <2>2, <2>4, PlanCostType, SumNat
<1>4. Allowed(q, PlanCost(s, q.config.topK))
  BY <1>1, <1>2, <1>3, AllowedLess
<1>5. q.ranking \in Affordable(q) \/ s \in Affordable(q)
  BY <1>2, <1>4 DEF Affordable
<1> QED
  BY <1>1, <1>5

\* A request is rejected for its budget only when no choice of as many of its models
\* would have fitted into what it read: the downgrade tries the cheapest ones
\* (optimize_for_budget sorts by estimated cost and raises only then).
THEOREM RejectionJustified == Spec => RejectedOnlyIfUnaffordable
<1> DEFINE A == \A r \in Requests :
                    Reject(r) /\ reservation[proc[r].corr].state = "NONE" =>
                        LET q == proc[r]
                            candidates == {q.ranking[i] : i \in DOMAIN q.ranking}
                        IN  \A S \in SUBSET candidates :
                                Cardinality(S) = Smaller(q.config.topK, Len(q.ranking)) =>
                                    ~Allowed(q, SumFunctionOnSet(Cost, S))
<1>1. TInv => A
  BY RejectUnaffordable DEF Candidates, PlanSize
<1>2. TInv /\ [Next]_vars => [A]_vars
  BY <1>1
<1>3. RejectedOnlyIfUnaffordable <=> [][A]_vars
  BY DEF RejectedOnlyIfUnaffordable
<1> QED
  BY <1>2, <1>3, TypeInvariance, PTL DEF Spec
=============================================================================
