--------------------------- MODULE ProviderReadiness ---------------------------
(***************************************************************************)
(* Whether a provider is ready to be routed to.  The answer comes from two *)
(* caches, one above the other: _healthy keeps a verdict for ReadyTtl from *)
(* the moment its check began, and health keeps the outcome of a probe for *)
(* HealthTtl from the moment it ended.  No lock is held while probing, so  *)
(* checks overtake one another and an older one may store its verdict last.*)
(***************************************************************************)
EXTENDS Naturals, FiniteSets

CONSTANTS Checkers,     \* threads that ask for the readiness of one provider
          ReadyTtl, HealthTtl,
          MaxInstant    \* the clock stops here

ASSUME ReadinessAssumption ==
    {ReadyTtl, HealthTtl} \subseteq Nat \ {0} /\ MaxInstant \in Nat

VARIABLES instant,      \* monotonic()
          verdict,      \* _health_cache
          probed,       \* provider_cache: the health entry
          check,        \* what each thread is doing
          probeEnded         \* history: when the last probe with each outcome ended

readinessVars == <<instant, verdict, probed, check, probeEnded>>

Never == MaxInstant + 1
CheckReady == [at : {"idle", "health", "probe", "verdict"}, ask : {"ready", "health"},
          began : 0..MaxInstant, available : BOOLEAN]
NoCheck == [at |-> "idle", ask |-> "ready", began |-> 0, available |-> FALSE]
NoVerdict == [since |-> Never, available |-> FALSE]
NoProbe == [expires |-> 0, available |-> FALSE]

ReadinessTypeOK ==
    /\ instant \in 0..MaxInstant
    /\ verdict \in [since : 0..Never, available : BOOLEAN]
    /\ probed \in [expires : 0..(MaxInstant + HealthTtl), available : BOOLEAN]
    /\ check \in [Checkers -> CheckReady]
    /\ probeEnded \in [BOOLEAN -> 0..Never]

ReadinessInit ==
    /\ instant = 0
    /\ verdict = NoVerdict
    /\ probed = NoProbe
    /\ check = [c \in Checkers |-> NoCheck]
    /\ probeEnded = [a \in BOOLEAN |-> Never]

-----------------------------------------------------------------------------
ReadinessTick ==
    /\ instant < MaxInstant
    /\ instant' = instant + 1
    /\ UNCHANGED <<verdict, probed, check, probeEnded>>

VerdictHolds == verdict.since # Never /\ instant < verdict.since + ReadyTtl

\* state, for a provider that is enabled, live and configured: any other is answered
\* without a probe, and one whose verdict holds with that verdict.  The clock that
\* dates the new verdict is read before the check.
AskReady(c) ==
    /\ check[c].at = "idle"
    /\ ~VerdictHolds
    /\ check' = [check EXCEPT ![c] = [NoCheck EXCEPT !.at = "health", !.began = instant]]
    /\ UNCHANGED <<instant, verdict, probed, probeEnded>>

\* provider_health asks every provider from a thread of its own.
AskHealth(c) ==
    /\ check[c].at = "idle"
    /\ check' = [check EXCEPT ![c] = [NoCheck EXCEPT !.at = "health", !.ask = "health"]]
    /\ UNCHANGED <<instant, verdict, probed, probeEnded>>

ProbeHolds == instant < probed.expires

\* Where a thread goes with the outcome of health.
WithOutcome(c, available) ==
    check' = [check EXCEPT ![c] = IF @.ask = "health" THEN NoCheck
                                  ELSE [@ EXCEPT !.at = "verdict", !.available = available]]

\* health, from provider_cache
CachedHealth(c) ==
    /\ check[c].at = "health"
    /\ IF ProbeHolds THEN WithOutcome(c, probed.available)
       ELSE check' = [check EXCEPT ![c].at = "probe"]
    /\ UNCHANGED <<instant, verdict, probed, probeEnded>>

ProbeExpiry_Extended == IF ProbeHolds THEN probed.expires + HealthTtl ELSE instant + HealthTtl
ProbeExpiry == instant + HealthTtl

\* GET /models, with the transport's retries: a provider whose credential is gone is
\* unavailable without a call.
Probe(c, available) ==
    /\ check[c].at = "probe"
    /\ probed' = [expires |-> ProbeExpiry, available |-> available]
    /\ probeEnded' = [probeEnded EXCEPT ![available] = instant]
    /\ WithOutcome(c, available)
    /\ UNCHANGED <<instant, verdict>>

Since_Stored(c) == instant
\* The verdict counts from the beginning of its check.
Since(c) == check[c].began

StoreVerdict(c) ==
    /\ check[c].at = "verdict"
    /\ verdict' = [since |-> Since(c), available |-> check[c].available]
    /\ check' = [check EXCEPT ![c] = NoCheck]
    /\ UNCHANGED <<instant, probed, probeEnded>>

ReadinessNext ==
    \/ ReadinessTick
    \/ \E c \in Checkers :
        \/ AskReady(c) \/ AskHealth(c) \/ CachedHealth(c) \/ StoreVerdict(c)
        \/ \E available \in BOOLEAN : Probe(c, available)

ReadinessSpec == ReadinessInit /\ [][ReadinessNext]_readinessVars

-----------------------------------------------------------------------------
\* A verdict that is given out was the outcome of a probe that ended less than both
\* lifetimes ago, whichever check stored it: the two caches add up, but threads that
\* probe without a lock and store in any order add nothing to them
\* (readiness.py:56-75, provider.py:217-246).
ReadinessRecent ==
    VerdictHolds => /\ probeEnded[verdict.available] # Never
                    /\ instant < probeEnded[verdict.available] + ReadyTtl + HealthTtl

================================================================================
