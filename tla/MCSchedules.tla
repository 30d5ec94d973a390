---------------------------- MODULE MCSchedules ----------------------------
(***************************************************************************)
(* One schedule or two, side by side, for TLC.                             *)
(***************************************************************************)
EXTENDS ScheduledResearch

CONSTANTS w1, w2, w3

\* A behaviour exercises one schedule, with three requests and a clock that moves, or two
\* schedules that are due at once, with two requests.
VARIABLE exercised

ExercisedInit == Init /\ exercised \in {"one", "two"}

ExercisedNext ==
    /\ Next /\ UNCHANGED exercised
    /\ exercised = "one" => schedule'[2].live = "absent" /\ execution'[4] = NoExecution
    /\ exercised = "two" => clock' = 0 /\ worker'[w3] = Idle

\* What is left out creates schedules, moves the clock or begins a request: the steps
\* that fairness promises are all there.
ExercisedSpec ==
    /\ ExercisedInit
    /\ [][ExercisedNext]_<<vars, exercised>>
    /\ \A w \in Workers :
          /\ WF_vars(Step(w))
          /\ SF_vars(ClaimConflict(w) \/ \E e \in Executions : Claim(w, e))

=============================================================================
