---------------------------- MODULE PlanContract ----------------------------
(***************************************************************************)
(* What execute_plan promises the callers that cannot cancel it: which     *)
(* steps of a plan may answer and when the execution counts as COMPLETED.  *)
(* QueryExecution shows that the executor keeps it, RouterBudget relies on *)
(* nothing else.                                                           *)
(***************************************************************************)
EXTENDS Naturals, FiniteSets

\* SINGLE and FALLBACK stop at the first answer, the other modes want them all.
Delivers(concurrent, plan, answered, completed) ==
    /\ answered \subseteq plan
    /\ ~concurrent => Cardinality(answered) <= 1
    /\ completed <=> IF concurrent THEN answered = plan ELSE answered # {}

=============================================================================
