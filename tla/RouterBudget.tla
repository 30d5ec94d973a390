---------------------------- MODULE RouterBudget ----------------------------
(***************************************************************************)
(* The LLM router's budget: a request selects models under a policy,       *)
(* reserves the predicted cost while it holds the row of that policy,      *)
(* executes the plan, settles the reservation and logs the actual cost.    *)
(*                                                                         *)
(* The spending of a window is read by two statements per window, each     *)
(* with a snapshot of its own (READ COMMITTED), over all policies; the row *)
(* lock serializes the requests of one policy only.  Settlement and cost   *)
(* log are two transactions.  Money is counted in units, time in ticks.    *)
(***************************************************************************)
EXTENDS Naturals, Sequences, FiniteSets, FiniteSetsExt, Functions, PlanContract

CONSTANTS Requests,     \* requests in progress at once
          Policies,     \* router_policies
          Configs,      \* the settings a policy may be given
          NoLimit,      \* a budget that is null
          Correlations, \* correlation ids, sent by clients or generated
          Models,       \* active models
          Cost,         \* estimate_cost of a request with each model
          FailoverRank, \* FAILOVER_PROVIDER_ORDER of each model's provider
          Rankings,     \* what select_models may return, best model first
          Generates,    \* whether requests execute their plan (generate) or not (decide)
          DayLength,    \* ticks of a day; a month is longer than MaxTime
          Lifetime,     \* ticks until a reservation expires
          MaxTime,      \* the clock stops here
          Crashes       \* whether a request may die between two steps

Windows == {"day", "month"}
Modes == {"SINGLE", "FALLBACK", "MULTI"}    \* MULTI: PARALLEL, ENSEMBLE, CONSENSUS
Limits == Nat \cup {NoLimit}
PolicyConfig == [enabled : BOOLEAN, mode : Modes, topK : 1..8,
                 day : Limits, month : Limits, research : Limits]

ASSUME RouterAssumption ==
    /\ NoLimit \notin Nat
    /\ Configs \subseteq PolicyConfig
    /\ Configs # {} /\ Policies # {} /\ Correlations # {}
    /\ Models # {} /\ IsFiniteSet(Models) /\ IsFiniteSet(Correlations)
    /\ Cost \in [Models -> Nat]
    /\ FailoverRank \in [Models -> Nat]
    /\ \A q \in Rankings : \E n \in 1..Cardinality(Models) : q \in [1..n -> Models] /\ IsInjective(q)
    /\ Generates \subseteq BOOLEAN
    /\ DayLength \in Nat \ {0} /\ Lifetime \in Nat /\ MaxTime \in Nat
    /\ Crashes \in BOOLEAN

VARIABLES clock,
          policy,       \* table router_policies
          ceiling,      \* history: the largest budgets each policy ever had
          reservation,  \* table router_budget_reservations, by correlation_id
          actual,       \* the ACTUAL rows of router_cost_logs
          paid,         \* history: what the providers charged
          proc          \* what each request holds in memory, and its row lock

vars == <<clock, policy, ceiling, reservation, actual, paid, proc>>

Reservation == [state : {"NONE", "RESERVED", "SETTLED", "RELEASED"},
                policy : Policies, amount : Nat, at : 0..MaxTime]
ActualLog == [logged : BOOLEAN, cost : Nat, at : 0..MaxTime]
NoLog == [logged |-> FALSE, cost |-> 0, at |-> 0]

Statements == <<<<"day", "actual">>, <<"day", "reserved">>,
                <<"month", "actual">>, <<"month", "reserved">>>>

ProcState == [pc : {"idle", "selected", "reading", "executing", "settling", "logging"},
              generate : BOOLEAN, corr : Correlations, policy : Policies, config : Configs,
              ranking : Seq(Models), read : 0..Len(Statements), spent : [Windows -> Nat],
              plan : SUBSET Models, output : Nat, success : BOOLEAN]

TypeOK ==
    /\ clock \in 0..MaxTime
    /\ policy \in [Policies -> Configs]
    /\ ceiling \in [Policies -> [Windows -> Limits]]
    /\ reservation \in [Correlations -> Reservation]
    /\ actual \in [Correlations -> ActualLog]
    /\ paid \in [Correlations -> Nat]
    /\ proc \in [Requests -> ProcState]

AnyOf(S) == CHOOSE x \in S : TRUE
Idle == [pc |-> "idle", generate |-> FALSE, corr |-> AnyOf(Correlations),
         policy |-> AnyOf(Policies), config |-> AnyOf(Configs), ranking |-> <<>>, read |-> 0,
         spent |-> [w \in Windows |-> 0], plan |-> {}, output |-> 0, success |-> FALSE]

Budgets(config) == [w \in Windows |-> IF w = "day" THEN config.day ELSE config.month]

Init ==
    /\ clock = 0
    /\ policy \in [Policies -> Configs]
    /\ ceiling = [p \in Policies |-> Budgets(policy[p])]
    /\ reservation = [c \in Correlations |->
                        [state |-> "NONE", policy |-> AnyOf(Policies), amount |-> 0, at |-> 0]]
    /\ actual = [c \in Correlations |-> NoLog]
    /\ paid = [c \in Correlations |-> 0]
    /\ proc = [r \in Requests |-> Idle]

-----------------------------------------------------------------------------
Within(x, limit) == limit = NoLimit \/ x <= limit
Larger(a, b) == IF a = NoLimit \/ b = NoLimit THEN NoLimit ELSE Max({a, b})
Smaller(a, b) == IF a < b THEN a ELSE b
Start(w) == IF w = "day" THEN (clock \div DayLength) * DayLength ELSE 0
Active(c) == reservation[c].state = "RESERVED" /\ clock < reservation[c].at + Lifetime

\* RESERVED rows of the window, and the amounts of all rows
Live(c, w) == Active(c) /\ reservation[c].at >= Start(w)
Amounts == [c \in Correlations |-> reservation[c].amount]

\* _spent, one statement: over the rows of every policy
Spent(w, kind) ==
    IF kind = "actual"
    THEN SumFunctionOnSet([c \in Correlations |-> actual[c].cost],
                          {c \in Correlations : actual[c].logged /\ actual[c].at >= Start(w)})
    ELSE SumFunctionOnSet(Amounts, {c \in Correlations : Live(c, w)})

\* _plan_cost: of the first top_k models of a ranking
PlanCost(ranking, k) ==
    SumFunctionOnSet([i \in DOMAIN ranking |-> Cost[ranking[i]]], 1..Smaller(k, Len(ranking)))

\* Reordered by estimated cost, ties by score.
ByCost(ranking) ==
    {q \in [1..Len(ranking) -> Models] :
        /\ {q[i] : i \in DOMAIN q} = {ranking[i] : i \in DOMAIN ranking}
        /\ \A i, j \in DOMAIN q : i < j => Cost[q[i]] <= Cost[q[j]]}

Allowed(q, amount) ==
    /\ Within(q.spent["day"] + amount, q.config.day)
    /\ Within(q.spent["month"] + amount, q.config.month)
    /\ Within(amount, q.config.research)

Locked(p) == \E r \in Requests : proc[r].pc = "reading" /\ proc[r].policy = p

Tick ==
    /\ clock < MaxTime
    /\ clock' = clock + 1
    /\ UNCHANGED <<policy, ceiling, reservation, actual, paid, proc>>

\* PATCH /router/policies: waits while a request holds the row.
UpdatePolicy(p, config) ==
    /\ ~Locked(p)
    /\ policy' = [policy EXCEPT ![p] = config]
    /\ ceiling' = [ceiling EXCEPT ![p] = [w \in Windows |-> Larger(@[w], Budgets(config)[w])]]
    /\ UNCHANGED <<clock, reservation, actual, paid, proc>>

-----------------------------------------------------------------------------
(***************************************************************************)
(* decide                                                                  *)
(***************************************************************************)
\* route up to select_models: the policy is copied as it is now.
Select(r, c, p, generate, ranking) ==
    /\ proc[r].pc = "idle"
    /\ policy[p].enabled
    /\ proc' = [proc EXCEPT ![r] =
            [Idle EXCEPT !.pc = "selected", !.generate = generate, !.corr = c,
                         !.policy = p, !.config = policy[p], !.ranking = ranking]]
    /\ UNCHANGED <<clock, policy, ceiling, reservation, actual, paid>>

PolicyRowFree_NoForUpdate(p) == TRUE
\* SELECT ... FOR UPDATE returns when no other request holds the row
PolicyRowFree(p) == ~Locked(p)

LockPolicy(r) ==
    /\ proc[r].pc = "selected"
    /\ PolicyRowFree(proc[r].policy)
    /\ proc' = [proc EXCEPT ![r].pc = "reading"]
    /\ UNCHANGED <<clock, policy, ceiling, reservation, actual, paid>>

\* current_costs: the next of its four statements
ReadSpent(r) ==
    LET n == proc[r].read + 1
        w == Statements[n][1]
    IN  /\ proc[r].pc = "reading"
        /\ n <= Len(Statements)
        /\ proc' = [proc EXCEPT ![r].read = n,
                                 ![r].spent[w] = @ + Spent(w, Statements[n][2])]
        /\ UNCHANGED <<clock, policy, ceiling, reservation, actual, paid>>

\* The rankings optimize_for_budget may go on with: none when it raises.
Affordable_AsRanked(q) ==
    {s \in {q.ranking} : Allowed(q, PlanCost(s, q.config.topK))}
Affordable(q) ==
    IF Allowed(q, PlanCost(q.ranking, q.config.topK)) THEN {q.ranking}
    ELSE {s \in ByCost(q.ranking) : Allowed(q, PlanCost(s, q.config.topK))}

\* The models a plan executes: the first in SINGLE mode, else the first top_k;
\* a FALLBACK plan tries them in failover order.
PlanModels(q, s) ==
    IF q.config.mode = "SINGLE" THEN {s[1]}
    ELSE {s[i] : i \in 1..Smaller(q.config.topK, Len(s))}

CorrelationFree_NotUnique(c) == TRUE
\* correlation_id is unique in router_budget_reservations
CorrelationFree(c) == reservation[c].state = "NONE"

\* The reservation is committed with the route's history and estimates.
Reserve(r) ==
    LET q == proc[r]
    IN  /\ q.pc = "reading"
        /\ q.read = Len(Statements)
        /\ CorrelationFree(q.corr)
        /\ \E s \in Affordable(q) :
            /\ reservation' = [reservation EXCEPT ![q.corr] =
                    [state |-> "RESERVED", policy |-> q.policy, at |-> clock,
                     amount |-> PlanCost(s, q.config.topK)]]
            /\ proc' = [proc EXCEPT ![r] =
                    IF q.generate
                    THEN [Idle EXCEPT !.pc = "executing", !.generate = TRUE, !.corr = q.corr,
                                      !.config = q.config, !.plan = PlanModels(q, s)]
                    ELSE Idle]
        /\ UNCHANGED <<clock, policy, ceiling, actual, paid>>

AfterReject_Retried(q) == [q EXCEPT !.read = 0, !.spent = Idle.spent]
AfterReject(q) == Idle

\* BudgetExceededError, or a correlation id that is taken: the transaction ends.
Reject(r) ==
    LET q == proc[r]
    IN  /\ q.pc = "reading"
        /\ q.read = Len(Statements)
        /\ Affordable(q) = {} \/ ~CorrelationFree(q.corr)
        /\ proc' = [proc EXCEPT ![r] = AfterReject(@)]
        /\ UNCHANGED <<clock, policy, ceiling, reservation, actual, paid>>

-----------------------------------------------------------------------------
(***************************************************************************)
(* generate                                                                *)
(***************************************************************************)
\* execute_plan, by its contract, which QueryExecution implements: each provider
\* that answered is paid no more than estimated.
\* The usage of the output is the answering model's in SINGLE and FALLBACK; the
\* outputs of parallel steps are collected into a value without usage.  An ensemble or
\* consensus of one model is a SINGLE plan, a parallel plan of one is not.
Usage(q, cost) ==
    IF q.config.mode # "MULTI" THEN {cost}
    ELSE IF Cardinality(q.plan) < 2 THEN {0, cost} ELSE {0}

Execute(r, answered, success) ==
    LET q == proc[r]
        cost == SumFunctionOnSet(Cost, answered)
    IN  /\ q.pc = "executing"
        /\ Delivers(q.config.mode = "MULTI", q.plan, answered, success)
        /\ paid' = [paid EXCEPT ![q.corr] = cost]
        /\ \E output \in Usage(q, cost) :
            proc' = [proc EXCEPT ![r] =
                [Idle EXCEPT !.pc = "settling", !.generate = TRUE, !.corr = q.corr,
                             !.success = success, !.output = output]]
        /\ UNCHANGED <<clock, policy, ceiling, reservation, actual>>

Settled_Inverted(success) == IF success THEN "RELEASED" ELSE "SETTLED"
Settled_Expired(success) == IF success THEN "SETTLED" ELSE "EXPIRED"
Settled(success) == IF success THEN "SETTLED" ELSE "RELEASED"

Settle(r) ==
    LET q == proc[r]
    IN  /\ q.pc = "settling"
        /\ reservation' = IF reservation[q.corr].state = "RESERVED"
                          THEN [reservation EXCEPT ![q.corr].state = Settled(q.success)]
                          ELSE reservation
        /\ proc' = [proc EXCEPT ![r] = IF q.success THEN [@ EXCEPT !.pc = "logging"] ELSE Idle]
        /\ UNCHANGED <<clock, policy, ceiling, actual, paid>>

LogActual(r) ==
    LET q == proc[r]
    IN  /\ q.pc = "logging"
        /\ actual' = [actual EXCEPT ![q.corr] = [logged |-> TRUE, cost |-> q.output, at |-> clock]]
        /\ proc' = [proc EXCEPT ![r] = Idle]
        /\ UNCHANGED <<clock, policy, ceiling, reservation, paid>>

\* The process dies; an open transaction is rolled back.
Crash(r) ==
    /\ Crashes
    /\ proc[r].pc # "idle"
    /\ proc' = [proc EXCEPT ![r] = Idle]
    /\ UNCHANGED <<clock, policy, ceiling, reservation, actual, paid>>

Step(r) ==
    \/ LockPolicy(r)
    \/ ReadSpent(r)
    \/ Reserve(r)
    \/ Reject(r)
    \/ \E answered \in SUBSET Models, success \in BOOLEAN : Execute(r, answered, success)
    \/ Settle(r)
    \/ LogActual(r)

Next ==
    \/ Tick
    \/ \E p \in Policies, config \in Configs : UpdatePolicy(p, config)
    \/ \E r \in Requests :
        \/ \E c \in Correlations, p \in Policies, generate \in Generates, ranking \in Rankings :
                Select(r, c, p, generate, ranking)
        \/ Step(r)
        \/ Crash(r)

Spec == Init /\ [][Next]_vars

\* A request that has started runs on; PostgreSQL grants a row lock in turn.
FairSpec == Spec /\ \A r \in Requests : WF_vars(Step(r)) /\ SF_vars(LockPolicy(r))

-----------------------------------------------------------------------------
(***************************************************************************)
(* Properties                                                              *)
(***************************************************************************)
Reserved(p, w) ==
    SumFunctionOnSet(Amounts, {c \in Correlations : reservation[c].policy = p /\ Live(c, w)})

\* "The policy row is the serialization point for all reservations under a
\* policy" (cost_optimizer.py:50): the live reservations of a policy never exceed
\* the largest budget it had, although budgets are read before the row is locked.
PolicyReservationsBounded ==
    \A p \in Policies, w \in Windows : Within(Reserved(p, w), ceiling[p][w])

\* A request is rejected for its budget only when no choice of as many of its
\* models would have fitted into what it read: the downgrade tried the cheapest.
RejectedOnlyIfUnaffordable ==
    [][\A r \in Requests :
        Reject(r) /\ reservation[proc[r].corr].state = "NONE" =>
            LET q == proc[r]
                candidates == {q.ranking[i] : i \in DOMAIN q.ranking}
            IN  \A S \in SUBSET candidates :
                    Cardinality(S) = Smaller(q.config.topK, Len(q.ranking)) =>
                        ~Allowed(q, SumFunctionOnSet(Cost, S))]_vars

\* What a plan may spend was reserved for it: the models it tries, in whatever
\* order, are those the reservation was computed from.
PlanWithinReservation ==
    \A r \in Requests :
        proc[r].pc = "executing" =>
            SumFunctionOnSet(Cost, proc[r].plan) <= reservation[proc[r].corr].amount

\* "release/settlement and actual-cost log" (EPIC_10_1_INTELLIGENT_ROUTING_
\* CONSOLIDATION.md:27): a cost is logged once, for a settled reservation, and is
\* what the providers charged or nothing, although the commits are apart.
LogFollowsSettlement ==
    \A c \in Correlations :
        /\ actual[c].logged => reservation[c].state = "SETTLED"
        /\ actual[c].cost \in {0, paid[c]}
        /\ \A r \in Requests :
            proc[r].pc = "logging" /\ proc[r].corr = c =>
                reservation[c].state = "SETTLED" /\ ~actual[c].logged

\* One execution per correlation id, even when clients send the same id twice.
OneExecutionPerCorrelation ==
    \A r, s \in Requests :
        /\ proc[r].pc \in {"executing", "settling", "logging"}
        /\ proc[s].pc \in {"executing", "settling", "logging"}
        /\ proc[r].corr = proc[s].corr
        => r = s

\* Every request ends, though requests of a policy wait for one another.
EveryRequestEnds == \A r \in Requests : proc[r].pc # "idle" ~> proc[r].pc = "idle"

\* "Atomic pre-execution budget reservation, hard rejection, release/settlement
\* and actual-cost log" (EPIC_10_1_INTELLIGENT_ROUTING_CONSOLIDATION.md:27): while
\* no execution costs more than was reserved and budgets are not edited, the
\* spending the router counts stays within the budgets.
HardBudget ==
    \A p \in Policies, w \in Windows :
        Within(Spent(w, "actual") + Spent(w, "reserved"), policy[p][IF w = "day" THEN "day" ELSE "month"])

\* "actual-cost log" (EPIC_10_1_INTELLIGENT_ROUTING_CONSOLIDATION.md:27): the cost
\* logged for a completed request is what its providers charged.
ActualCostLogged ==
    \A c \in Correlations : actual[c].logged => actual[c].cost = paid[c]

\* PolicyReservationsBounded and PlanWithinReservation together: what requests may spend
\* was reserved, and what is reserved is within the budget (cost_optimizer.py:40-110).
BudgetKept == PolicyReservationsBounded /\ PlanWithinReservation

=============================================================================
