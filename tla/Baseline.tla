-------------------------------- MODULE Baseline --------------------------------
(***************************************************************************)
(* The baseline of one entity: the row of baselines, the snapshots of the  *)
(* observations it has stood for, and the regressions that evaluations     *)
(* recorded against a snapshot.  POST /baseline and POST /baseline/evaluate *)
(* read in several statements and write in one commit, and interleave.     *)
(*                                                                         *)
(* An observation is a scored research; of its six metrics two are kept,   *)
(* the visibility that the policy compares and one for all the others.     *)
(***************************************************************************)
EXTENDS Naturals, Integers, Sequences, FiniteSets

CONSTANTS BaselineRequests, \* requests in progress at once
          Scores,           \* values of a metric
          Scales,           \* thresholds a baseline may be given
          MaxObserved,      \* bound on observations
          MaxSnapshots      \* bound on snapshots

Severities == <<"MINOR", "MODERATE", "MAJOR", "CRITICAL">>
Metrics == {"visibility", "mention"}

\* A model_validator keeps the thresholds in order.
ASSUME ScalesAssumption ==
    /\ Scores \subseteq Nat /\ MaxObserved \in Nat /\ MaxSnapshots \in Nat
    /\ Scales \subseteq {t \in [1..4 -> Nat] : \A i \in 1..3 : t[i] <= t[i + 1]}

VARIABLES observed,         \* what the trend source's history returns, oldest first
          baseline,         \* the entity's row of baselines
          snapshot,         \* table baseline_snapshots, by id
          regression,       \* table regression_events
          baseReq           \* requests in progress

baselineVars == <<observed, baseline, snapshot, regression, baseReq>>

Policies == {"MANUAL", "LATEST", "BEST_VISIBILITY"}
NoBaseline == [research |-> 0]
Observed == 1..MaxObserved
BaselineRow == [research : Observed, policy : Policies, scale : Scales]
\* against: for an automatic snapshot, the one it was preferred to, else 0.
BaselineSnapshot == [research : Observed, reason : {"CREATED", "MANUAL_UPDATE"} \cup Policies,
             against : 0..MaxSnapshots]
Regression == [snapshot : 1..MaxSnapshots, current : Observed, metric : Metrics,
               severity : {Severities[i] : i \in 1..4}, scale : Scales]
NoBaseRequest == [pc |-> "idle"]
SetRequest == [pc : {"chosen", "found"}, research : Observed, policy : Policies,
               scale : Scales, row : {NoBaseline} \cup BaselineRow]
EvaluateRequest == [pc : {"loading", "loaded", "current"}, row : BaselineRow,
                    newest : 0..MaxSnapshots, current : 0..MaxObserved]

BaselineTypeOK ==
    /\ observed \in Seq([Metrics -> Scores]) /\ Len(observed) <= MaxObserved
    /\ baseline \in {NoBaseline} \cup BaselineRow
    /\ snapshot \in Seq(BaselineSnapshot) /\ Len(snapshot) <= MaxSnapshots
    /\ regression \subseteq Regression
    /\ baseReq \in [BaselineRequests -> {NoBaseRequest} \cup SetRequest \cup EvaluateRequest]

BaselineInit ==
    /\ observed = <<>>
    /\ baseline = NoBaseline
    /\ snapshot = <<>> /\ regression = {}
    /\ baseReq = [q \in BaselineRequests |-> NoBaseRequest]

BaseMoves(q, r) == baseReq' = [baseReq EXCEPT ![q] = r]

\* Another research of the entity is scored.
Observe(o) ==
    /\ Len(observed) < MaxObserved
    /\ observed' = Append(observed, o)
    /\ UNCHANGED <<baseline, snapshot, regression, baseReq>>

\* The research named, or without one the last observed; none answers 404.
Select(q, research, policy, scale) ==
    /\ baseReq[q] = NoBaseRequest
    /\ research \in DOMAIN observed
    /\ BaseMoves(q, [pc |-> "chosen", research |-> research, policy |-> policy,
                     scale |-> scale, row |-> NoBaseline])
    /\ UNCHANGED <<observed, baseline, snapshot, regression>>

FindBaseline(q) ==
    /\ baseReq[q].pc = "chosen"
    /\ BaseMoves(q, [baseReq[q] EXCEPT !.pc = "found", !.row = baseline])
    /\ UNCHANGED <<observed, baseline, snapshot, regression>>

\* Only the columns that differ from the row as it was read are written.
Updated(was, new) ==
    [c \in DOMAIN baseline |-> IF new[c] = was[c] THEN baseline[c] ELSE new[c]]

\* The flush of a second first baseline meets the unique entity_id.
SetBaseline(q) ==
    LET r == baseReq[q]
        new == [research |-> r.research, policy |-> r.policy, scale |-> r.scale]
        first == r.row = NoBaseline
    IN  /\ r.pc = "found"
        /\ Len(snapshot) < MaxSnapshots
        /\ IF first /\ baseline # NoBaseline
           THEN UNCHANGED <<baseline, snapshot>>
           ELSE /\ baseline' = IF first THEN new ELSE Updated(r.row, new)
                /\ snapshot' = Append(snapshot,
                       [research |-> r.research, against |-> 0,
                        reason |-> IF first THEN "CREATED" ELSE "MANUAL_UPDATE"])
        /\ BaseMoves(q, NoBaseRequest)
        /\ UNCHANGED <<observed, regression>>

\* The baseline, its snapshots and the history are three statements.
LoadBaseline(q) ==
    /\ baseReq[q] = NoBaseRequest
    /\ baseline # NoBaseline
    /\ BaseMoves(q, [pc |-> "loading", row |-> baseline, newest |-> 0, current |-> 0])
    /\ UNCHANGED <<observed, baseline, snapshot, regression>>

LoadSnapshots(q) ==
    /\ baseReq[q].pc = "loading"
    /\ BaseMoves(q, [baseReq[q] EXCEPT !.pc = "loaded", !.newest = Len(snapshot)])
    /\ UNCHANGED <<observed, baseline, snapshot, regression>>

LoadCurrent(q) ==
    /\ baseReq[q].pc = "loaded"
    /\ BaseMoves(q, [baseReq[q] EXCEPT !.pc = "current", !.current = Len(observed)])
    /\ UNCHANGED <<observed, baseline, snapshot, regression>>

Decline(s, current, metric) == observed[snapshot[s].research][metric] - observed[current][metric]

Reached(decline, scale) == {i \in 1..4 : decline >= scale[i]}
Severity(decline, scale) ==
    Severities[CHOOSE i \in Reached(decline, scale) : \A j \in Reached(decline, scale) : j <= i]

ShouldUpdate_AsGood(policy, s, current) ==
    policy = "LATEST" \/ (policy = "BEST_VISIBILITY" /\ Decline(s, current, "visibility") <= 0)
ShouldUpdate(policy, s, current) ==
    policy = "LATEST" \/ (policy = "BEST_VISIBILITY" /\ Decline(s, current, "visibility") < 0)

Regressions(s, current, scale) ==
    {[snapshot |-> s, current |-> current, metric |-> m, scale |-> scale,
      severity |-> Severity(Decline(s, current, m), scale)] :
         m \in {m \in Metrics : Reached(Decline(s, current, m), scale) # {}}}

Evaluate(q) ==
    LET r == baseReq[q]
        moves == ShouldUpdate(r.row.policy, r.newest, r.current)
                     /\ r.current # snapshot[r.newest].research
    IN  /\ r.pc = "current"
        /\ regression' = regression \cup Regressions(r.newest, r.current, r.row.scale)
        /\ IF moves
           THEN /\ Len(snapshot) < MaxSnapshots
                /\ baseline' = Updated(r.row, [r.row EXCEPT !.research = r.current])
                /\ snapshot' = Append(snapshot, [research |-> r.current, reason |-> r.row.policy,
                                                 against |-> r.newest])
           ELSE UNCHANGED <<baseline, snapshot>>
        /\ BaseMoves(q, NoBaseRequest)
        /\ UNCHANGED observed

BaselineNext ==
    \/ \E o \in [Metrics -> Scores] : Observe(o)
    \/ \E q \in BaselineRequests :
           \/ \E r \in Observed, policy \in Policies, scale \in Scales :
                  Select(q, r, policy, scale)
           \/ FindBaseline(q) \/ SetBaseline(q)
           \/ LoadBaseline(q) \/ LoadSnapshots(q) \/ LoadCurrent(q) \/ Evaluate(q)

--------------------------------------------------------------------------------

\* The research that the row names has been snapshotted, though updates that interleave
\* may leave another one newest, which evaluations compare with (engine.py:42-61, 84-113).
RowSnapshotted ==
    baseline # NoBaseline => \E s \in DOMAIN snapshot : snapshot[s].research = baseline.research

\* However evaluations interleave with updates of the baseline, what BEST_VISIBILITY
\* installs outdoes the snapshot it was compared with, and that comparison found no loss
\* of visibility to report (engine.py:88-113, 168-176).
BestOutdoes ==
    \A s \in DOMAIN snapshot : snapshot[s].reason = "BEST_VISIBILITY" =>
        /\ Decline(snapshot[s].against, snapshot[s].research, "visibility") < 0
        /\ \A e \in regression :
               ~(/\ e.snapshot = snapshot[s].against /\ e.current = snapshot[s].research
                 /\ e.metric = "visibility")

\* Every regression on record is one against the snapshot it names, of the severity that
\* the thresholds it was judged by give it (engine.py:84-107; baseline/README.md:9-10
\* "every RegressionEvent remains tied to the snapshot actually compared").
RegressionsTied ==
    \A e \in regression :
        /\ e.snapshot \in DOMAIN snapshot
        /\ \E i \in 1..4 :
               /\ Severities[i] = e.severity
               /\ Decline(e.snapshot, e.current, e.metric) >= e.scale[i]
               /\ \A j \in (i + 1)..4 : Decline(e.snapshot, e.current, e.metric) < e.scale[j]

\* A baseline's row, snapshots and regressions agree as far as interleaved updates and
\* evaluations without a lock can keep them (engine.py:39-125).
BaselineRecorded == RowSnapshotted /\ BestOutdoes /\ RegressionsTied

=================================================================================
