-------------------------- MODULE MCQueryExecution --------------------------
(***************************************************************************)
(* An instance of QueryExecution for TLC.                                  *)
(***************************************************************************)
EXTENDS QueryExecution

PlanOf(mode, retries) ==
    [mode |-> mode, ids |-> [i \in DOMAIN retries |-> i], retries |-> retries, storable |-> TRUE]

\* One plan of each kind of mode, one that validate_plan refuses and one whose
\* result cannot be stored.
MCPlans == {PlanOf("SINGLE", <<3>>),
            PlanOf("PARALLEL", <<0, 1, 0>>),
            PlanOf("FALLBACK", <<1, 0, 1>>),
            [PlanOf("ENSEMBLE", <<0, 0>>) EXCEPT !.ids = <<1, 1>>],
            [PlanOf("CONSENSUS", <<1, 0>>) EXCEPT !.storable = FALSE]}

=============================================================================
