------------------------------ MODULE MCServices ------------------------------
(***************************************************************************)
(* The services that run research, side by side: the query executor, the   *)
(* research queue and the adapters of the providers.  No two of them change *)
(* the same thing, so their steps commute: a behaviour exercises one of    *)
(* them, its focus, while the others rest.                                 *)
(***************************************************************************)
EXTENDS MCQueryExecution, ResearchRun, ProviderCalls

VARIABLE focus

Focus == {"executor", "research", "providers"}

MCWidths == [queued |-> {1}, direct |-> {2}]
MCCharge == [p \in Prompts |-> p]

\* Two cancellations are in progress at once where an execution has at most two steps.
ExecutorMC ==
    /\ Next
    /\ \A e \in Executions : Len(step'[e]) > 2 => \E k \in Cancellers : cancel'[k] = IdleCancel

\* Embeddings, streams and calls of a local model pass by the limiter and the cache, and
\* time stands still in mock mode.
ProvidersMC ==
    /\ ProviderNext
    /\ mock => now' = 0
    /\ \A c, d \in Callers : c # d /\ call'[c].kind # "generate" => call'[d].at = "idle"

ServicesInit ==
    /\ focus \in Focus
    /\ Init /\ ResearchInit /\ ProviderInit
    /\ focus # "providers" => mock = FALSE

ServicesNext ==
    /\ UNCHANGED focus
    /\ \/ focus = "executor" /\ ExecutorMC /\ UNCHANGED <<researchVars, providerVars>>
       \/ focus = "research" /\ ResearchNext /\ UNCHANGED <<vars, providerVars>>
       \/ focus = "providers" /\ ProvidersMC /\ UNCHANGED <<vars, researchVars>>

\* The fairness of each service, of which only the one in focus has steps to take.
ServicesSpec ==
    /\ ServicesInit
    /\ [][ServicesNext]_<<focus, vars, researchVars, providerVars>>
    /\ \A e \in Executions : WF_vars(focus = "executor" /\ Advance(e))
    /\ \A w \in QueueWorkers : WF_researchVars(focus = "research" /\ WorkerStep(w))
    /\ \A r \in Studies : WF_researchVars(focus = "research" /\ RunStep(r))
    /\ \A c \in Callers : WF_providerVars(focus = "providers" /\ CallStep(c))

-------------------------------------------------------------------------------

\* What the variables of every module above range over.
ServicesTypeOK == TypeOK /\ ResearchTypeOK /\ ProviderTypeOK

\* EveryRunEnds, SignalHeard, JobsEnd and CallsEnd together: what the services begin they
\* end, though steps wait for a pool, jobs for a worker and calls for a limiter.
ServicesEnd == EveryRunEnds /\ SignalHeard /\ JobsEnd /\ CallsEnd

===============================================================================
