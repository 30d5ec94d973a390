------------------------------ MODULE ResearchRun ------------------------------
(***************************************************************************)
(* Research: requests put a research on the queue, worker processes take   *)
(* jobs with FOR UPDATE SKIP LOCKED and run the research; an API request   *)
(* may run the same research by itself.  A run has a task executed for     *)
(* every selection, stores the response, extracts from it and scores the   *)
(* research when enough of it is there.                                    *)
(*                                                                         *)
(* One research: jobs and runs of different researches share no row but    *)
(* the order of the queue.  A session keeps the status it last read or     *)
(* wrote (expire_on_commit is off) and writes only what differs from it.   *)
(* Nobody edits a research or its tasks by hand.  Commits that no other    *)
(* session reads apart, those of a task's status among them, are one step. *)
(***************************************************************************)
EXTENDS Naturals, Sequences, FiniteSets

CONSTANTS QueueWorkers,     \* worker processes
          Enqueuers,        \* POST /research/run, one request each
          MaxRuns,          \* bound on runs
          MaxDeaths,        \* bound on processes that end
          Widths            \* numbers of model selections asked for, by kind of run

ASSUME ResearchAssumption ==
    /\ IsFiniteSet(Enqueuers) /\ "none" \notin QueueWorkers
    /\ MaxRuns \in Nat /\ MaxDeaths \in Nat
    /\ Widths \in [{"queued", "direct"} -> SUBSET (Nat \ {0})]

VARIABLES research,     \* its row: status, total_tasks and score
          job,          \* table research_jobs, in the order of created_at
          enqueuer,     \* requests that put the research on the queue
          qworker,      \* worker processes
          study,        \* runs of run_research, by workers and by API requests
          response,     \* the responses of each run, one for every task executed
          deaths        \* processes that ended so far

researchVars == <<research, job, enqueuer, qworker, study, response, deaths>>

Studies == 1..MaxRuns
JobIds == 1..Cardinality(Enqueuers)

ResearchStatus == {"DRAFT", "ACTIVE", "COMPLETED", "FAILED"}
ProcessingStatus == {"NORMALIZED", "PROCESSED", "FAILED"}
ResearchJobState == {"PENDING", "RUNNING", "COMPLETED", "FAILED"}

\* score: the number of responses it was calculated from, 0 when there is none.
Research == [status : ResearchStatus, total : Nat, score : Nat]
ResearchJob == [state : ResearchJobState, attempts : Nat, lock : QueueWorkers \cup {"none"}]
\* A task that was executed, with its response: answer when it has no error_type,
\* and the task is COMPLETED then.
Response == [status : ProcessingStatus, answer : BOOLEAN]
NotStudied == [pc |-> "none"]
Working == {"opening", "executing", "extracting", "reloading", "counting", "reading",
            "looking", "writing", "finishing"}
Ended == {"finished", "refused", "raised", "broken", "dead"}
\* seen, total: the status and total_tasks in the memory of the session; found, row: the responses and
\* whether there was a score when it looked; alone: nobody else wrote the
\* research since the run began.
Study == [pc : Working \cup Ended, job : JobIds \cup {0}, width : Nat \ {0},
          seen : ResearchStatus, total : Nat, found : Nat, row : BOOLEAN, alone : BOOLEAN]
IdleWorker == [pc |-> "idle"]

ResearchTypeOK ==
    /\ research \in Research
    /\ job \in Seq(ResearchJob) /\ Len(job) <= Cardinality(Enqueuers)
    /\ enqueuer \in [Enqueuers -> [pc : {"idle", "done"}] \cup
                                  [pc : {"checked"}, seen : ResearchStatus]]
    /\ qworker \in [QueueWorkers -> {IdleWorker} \cup
                      [pc : {"locked", "taken"}, job : JobIds] \cup
                      [pc : {"running"}, job : JobIds, study : Studies] \cup
                      [pc : {"judging"}, job : JobIds, failed : BOOLEAN]]
    /\ study \in [Studies -> Study \cup {NotStudied}]
    /\ response \in [Studies -> Seq(Response)]
    /\ \A r \in Studies : study[r] # NotStudied => Len(response[r]) <= study[r].width
    /\ deaths \in 0..MaxDeaths

ResearchInit ==
    /\ research = [status |-> "DRAFT", total |-> 0, score |-> 0]
    /\ job = <<>>
    /\ enqueuer = [q \in Enqueuers |-> [pc |-> "idle"]]
    /\ qworker = [w \in QueueWorkers |-> IdleWorker]
    /\ study = [r \in Studies |-> NotStudied]
    /\ response = [r \in Studies |-> <<>>]
    /\ deaths = 0

InProgress(r) == study[r].pc \in Working
ActiveJob(j) == job[j].state \in {"PENDING", "RUNNING"}
\* The run of a job that still has to be judged.
Awaited(r) == \E w \in QueueWorkers : qworker[w].pc = "running" /\ qworker[w].study = r
\* Whoever writes the research disturbs the runs that rely on it.
Disturbed == [r \in Studies |->
                IF InProgress(r) \/ (Awaited(r) /\ study[r].pc = "finished")
                THEN [study[r] EXCEPT !.alone = FALSE] ELSE study[r]]

-----------------------------------------------------------------------------
(***************************************************************************)
(* enqueue: the test for an active job and the insert                      *)
(***************************************************************************)
EnqueueCheck(q) ==
    /\ enqueuer[q].pc = "idle"
    /\ enqueuer' = [enqueuer EXCEPT ![q] =
                      IF \E j \in DOMAIN job : ActiveJob(j) THEN [pc |-> "done"]
                      ELSE [pc |-> "checked", seen |-> research.status]]
    /\ UNCHANGED <<research, job, qworker, study, response, deaths>>

EnqueueCommit(q) ==
    /\ enqueuer[q].pc = "checked"
    /\ research' = [research EXCEPT !.status = IF enqueuer[q].seen = "ACTIVE" THEN @ ELSE "ACTIVE"]
    /\ job' = Append(job, [state |-> "PENDING", attempts |-> 0, lock |-> "none"])
    /\ enqueuer' = [enqueuer EXCEPT ![q] = [pc |-> "done"]]
    /\ study' = Disturbed
    /\ UNCHANGED <<qworker, response, deaths>>

-----------------------------------------------------------------------------
(***************************************************************************)
(* process_next                                                            *)
(***************************************************************************)
\* FOR UPDATE SKIP LOCKED
Lockable(j) == job[j].state = "PENDING" /\ job[j].lock = "none"

LockNext(w) ==
    /\ qworker[w] = IdleWorker
    /\ \E j \in DOMAIN job :
        /\ Lockable(j)
        /\ \A k \in 1..(j - 1) : ~Lockable(k)
        /\ job' = [job EXCEPT ![j].lock = w]
        /\ qworker' = [qworker EXCEPT ![w] = [pc |-> "locked", job |-> j]]
    /\ UNCHANGED <<research, enqueuer, study, response, deaths>>

TakeJob(w) ==
    /\ qworker[w].pc = "locked"
    /\ LET j == qworker[w].job
       IN  job' = [job EXCEPT ![j] =
                     [state |-> "RUNNING", attempts |-> @.attempts + 1, lock |-> "none"]]
    /\ qworker' = [qworker EXCEPT ![w].pc = "taken"]
    /\ UNCHANGED <<research, enqueuer, study, response, deaths>>

\* The outcome of the job is read back from the research.
Judge(w) ==
    /\ qworker[w].pc = "running"
    /\ study[qworker[w].study].pc = "finished"
    /\ qworker' = [qworker EXCEPT ![w] = [pc |-> "judging", job |-> qworker[w].job,
                                          failed |-> research.status = "FAILED"]]
    /\ UNCHANGED <<research, job, enqueuer, study, response, deaths>>

EndJob(w) ==
    /\ qworker[w].pc = "judging"
    /\ job' = [job EXCEPT ![qworker[w].job].state =
                 IF qworker[w].failed THEN "FAILED" ELSE "COMPLETED"]
    /\ qworker' = [qworker EXCEPT ![w] = IdleWorker]
    /\ UNCHANGED <<research, enqueuer, study, response, deaths>>

\* except Exception, ResearchRunConflictError among them
Raised == {"refused", "raised"}

\* An exception fails the job and the research.
FailJob(w) ==
    /\ qworker[w].pc = "running"
    /\ LET r == qworker[w].study
       IN  /\ study[r].pc \in Raised
           /\ research' = [research EXCEPT !.status =
                             IF study[r].seen = "FAILED" THEN @ ELSE "FAILED"]
    /\ job' = [job EXCEPT ![qworker[w].job].state = "FAILED"]
    /\ qworker' = [qworker EXCEPT ![w] = IdleWorker]
    /\ study' = Disturbed
    /\ UNCHANGED <<enqueuer, response, deaths>>

\* The process ends and another takes its place; the lock of its transaction is
\* released.
Replace(w) ==
    /\ job' = [j \in DOMAIN job |->
                 IF job[j].lock = w THEN [job[j] EXCEPT !.lock = "none"] ELSE job[j]]
    /\ study' = [r \in Studies |->
                   IF qworker[w].pc = "running" /\ qworker[w].study = r /\ InProgress(r)
                   THEN [study[r] EXCEPT !.pc = "dead"] ELSE study[r]]
    /\ qworker' = [qworker EXCEPT ![w] = IdleWorker]
    /\ UNCHANGED <<research, enqueuer, response>>

\* A failed flush ends the process: process_next uses the session again without
\* a rollback and run_worker catches nothing.
GiveUp(w) ==
    /\ qworker[w].pc = "running"
    /\ study[qworker[w].study].pc = "broken"
    /\ Replace(w)
    /\ UNCHANGED deaths

Restart(w) ==
    /\ qworker[w] # IdleWorker
    /\ deaths < MaxDeaths
    /\ deaths' = deaths + 1
    /\ Replace(w)

-----------------------------------------------------------------------------
(***************************************************************************)
(* run_research                                                            *)
(***************************************************************************)
Refuses(j) == {"COMPLETED"} \cup (IF j = 0 THEN {"ACTIVE"} ELSE {})

\* j: the job it is run for, 0 for an API request.
BeginRun(r, j, width) ==
    /\ study[r] = NotStudied
    /\ \A s \in 1..(r - 1) : study[s] # NotStudied
    /\ LET busy == \E s \in Studies : InProgress(s)
       IN  study' = [Disturbed EXCEPT ![r] =
                       [pc |-> IF research.status \in Refuses(j) THEN "refused" ELSE "opening",
                        job |-> j, width |-> width, seen |-> research.status,
                        total |-> research.total, found |-> 0, row |-> FALSE, alone |-> ~busy]]
    /\ UNCHANGED <<research, job, enqueuer, response, deaths>>

RunJob(w, r, width) ==
    /\ qworker[w].pc = "taken"
    /\ BeginRun(r, qworker[w].job, width)
    /\ qworker' = [qworker EXCEPT ![w] =
                     [pc |-> "running", job |-> qworker[w].job, study |-> r]]

\* Within the bound there is a run for every job that may still come.
RunNow(r, width) ==
    /\ Cardinality({s \in Studies : study[s] # NotStudied})
         + Cardinality({j \in DOMAIN job : job[j].state = "PENDING"})
         + Cardinality({w \in QueueWorkers : qworker[w].pc = "taken"})
         + Cardinality({q \in Enqueuers : enqueuer[q].pc # "done"}) < MaxRuns
    /\ BeginRun(r, 0, width)
    /\ UNCHANGED qworker

Go(r, pc) == study' = [study EXCEPT ![r].pc = pc]
\* Only a status that differs from the one in memory is written.
Written(r, status) == IF study[r].seen = status THEN research.status ELSE status

\* The totals, and a research task linked to a READY decision task for each
\* selection.
OpenRun(r) ==
    /\ study[r].pc = "opening"
    /\ research' = [research EXCEPT !.status = Written(r, "ACTIVE"), !.total = study[r].width]
    /\ study' = [study EXCEPT ![r].pc = "executing", ![r].seen = "ACTIVE",
                              ![r].total = study[r].width]
    /\ UNCHANGED <<job, enqueuer, qworker, response, deaths>>

\* start_task_execution and _save_response.  There is no answer when the execution
\* failed, its result cannot be normalized, somebody else took the decision task
\* or no agent was free: all of them store a response with an error.
ExecuteTask(r, answer) ==
    /\ study[r].pc = "executing"
    /\ response' = [response EXCEPT ![r] =
                      Append(@, [status |-> "NORMALIZED", answer |-> answer])]
    /\ Go(r, "extracting")
    /\ UNCHANGED <<research, job, enqueuer, qworker, deaths>>

AfterTask(r) == IF Len(response[r]) < study[r].width THEN "executing" ELSE "finishing"

\* extract: a failure is stored and suppressed, and the score is left alone.  Its
\* rollback has expired what the session remembers of the research.
ExtractResponse(r, status) ==
    /\ study[r].pc = "extracting"
    /\ status \in {"PROCESSED", "FAILED"}
    /\ response' = [response EXCEPT ![r][Len(response[r])].status = status]
    /\ Go(r, IF status = "PROCESSED" THEN "counting" ELSE "reloading")
    /\ UNCHANGED <<research, job, enqueuer, qworker, deaths>>

\* _update_progress asks for total_tasks.
Reload(r) ==
    /\ study[r].pc = "reloading"
    /\ study' = [study EXCEPT ![r] =
                   [study[r] EXCEPT !.pc = AfterTask(r), !.seen = research.status,
                                    !.total = research.total]]
    /\ UNCHANGED <<research, job, enqueuer, qworker, response, deaths>>

Responses == UNION {{<<r, i>> : i \in DOMAIN response[r]} : r \in Studies}
Unprocessed == {p \in Responses : response[p[1]][p[2]].status = "NORMALIZED"}

Ready(r) == Cardinality(Responses) >= study[r].total /\ Unprocessed = {}

\* calculate_if_ready
CountResponses(r) ==
    /\ study[r].pc = "counting"
    /\ Go(r, IF Ready(r) THEN "reading" ELSE AfterTask(r))
    /\ UNCHANGED <<research, job, enqueuer, qworker, response, deaths>>

\* calculate reads the responses again; one that came in between raises
\* ScoringNotReadyError through the whole run.
ReadResponses(r) ==
    /\ study[r].pc = "reading"
    /\ study' = [study EXCEPT ![r].pc = IF Unprocessed = {} THEN "looking" ELSE "raised",
                              ![r].found = Cardinality(Responses)]
    /\ UNCHANGED <<research, job, enqueuer, qworker, response, deaths>>

LookForScore(r) ==
    /\ study[r].pc = "looking"
    /\ study' = [study EXCEPT ![r].pc = "writing", ![r].row = research.score > 0]
    /\ UNCHANGED <<research, job, enqueuer, qworker, response, deaths>>

\* uq_research_scores_research_version: the second of two inserts fails.
WriteScore(r) ==
    /\ study[r].pc = "writing"
    /\ IF ~study[r].row /\ research.score > 0
       THEN Go(r, "broken") /\ UNCHANGED research
       ELSE /\ research' = [research EXCEPT !.score = study[r].found]
            /\ study' = [study EXCEPT ![r] = [study[r] EXCEPT !.pc = AfterTask(r),
                                                              !.found = 0, !.row = FALSE]]
    /\ UNCHANGED <<job, enqueuer, qworker, response, deaths>>

Verdict_Processed(r) ==
    IF \A i \in DOMAIN response[r] : response[r][i].status # "NORMALIZED" THEN "COMPLETED" ELSE "FAILED"
Verdict(r) ==
    IF \A i \in DOMAIN response[r] : response[r][i].answer THEN "COMPLETED" ELSE "FAILED"

FinishRun(r) ==
    LET verdict == Verdict(r)
    IN  /\ study[r].pc = "finishing"
        /\ research' = [research EXCEPT !.status = Written(r, verdict)]
        /\ study' = [Disturbed EXCEPT ![r] =
                       [study[r] EXCEPT !.pc = "finished", !.seen = verdict]]
        /\ UNCHANGED <<job, enqueuer, qworker, response, deaths>>

\* The server process of an API run ends.
RequestDies(r) ==
    /\ InProgress(r) /\ study[r].job = 0
    /\ deaths < MaxDeaths
    /\ deaths' = deaths + 1
    /\ Go(r, "dead")
    /\ UNCHANGED <<research, job, enqueuer, qworker, response>>

RunStep(r) ==
    \/ OpenRun(r)
    \/ \E answer \in BOOLEAN : ExecuteTask(r, answer)
    \/ \E status \in ProcessingStatus : ExtractResponse(r, status)
    \/ Reload(r)
    \/ CountResponses(r)
    \/ ReadResponses(r)
    \/ LookForScore(r)
    \/ WriteScore(r)
    \/ FinishRun(r)

WorkerStep(w) ==
    \/ LockNext(w)
    \/ TakeJob(w)
    \/ \E r \in Studies, width \in Widths.queued : RunJob(w, r, width)
    \/ Judge(w)
    \/ EndJob(w)
    \/ FailJob(w)
    \/ GiveUp(w)

ResearchNext ==
    \/ \E q \in Enqueuers : EnqueueCheck(q) \/ EnqueueCommit(q)
    \/ \E w \in QueueWorkers : WorkerStep(w) \/ Restart(w)
    \/ \E r \in Studies :
        \/ RunStep(r)
        \/ \E width \in Widths.direct : RunNow(r, width)
        \/ RequestDies(r)

\* run_worker loops for ever; calls of providers end.
ResearchFairness ==
    /\ \A w \in QueueWorkers : WF_researchVars(WorkerStep(w))
    /\ \A r \in Studies : WF_researchVars(RunStep(r))

-----------------------------------------------------------------------------
(***************************************************************************)
(* Properties                                                              *)
(***************************************************************************)
Holds(w, j) == qworker[w] # IdleWorker /\ qworker[w].job = j

\* process_next: workers that look at the queue at the same moment, and workers
\* that come after one that died, never take a job a second time.
JobTakenOnce ==
    \A j \in DOMAIN job :
        /\ job[j].attempts <= 1
        /\ Cardinality({w \in QueueWorkers : Holds(w, j)}) <= 1

\* process_next: a job on the queue is run and ends, whatever run_research
\* raises; only the death of its worker leaves it RUNNING.
JobsEnd ==
    \A j \in JobIds :
        (j \in DOMAIN job) ~>
            /\ j \in DOMAIN job
            /\ \/ job[j].state \in {"COMPLETED", "FAILED"}
               \/ job[j].state = "RUNNING" /\ ~\E w \in QueueWorkers : Holds(w, j)

\* process_next and run_research: the job of a run that had the research to
\* itself is COMPLETED exactly when every selection has its answer stored.
JobVerdict ==
    \A r \in Studies :
        study[r].pc = "finished" /\ study[r].job # 0 /\ study[r].alone =>
            LET answered == /\ Len(response[r]) = study[r].width
                            /\ \A i \in DOMAIN response[r] : response[r][i].answer
            IN  /\ job[study[r].job].state = "COMPLETED" => answered
                /\ job[study[r].job].state = "FAILED" => ~answered

\* An ACTIVE research is one that is queued or being run, except after a run
\* that ended without its last write.
NotStuckActive ==
    research.status = "ACTIVE" =>
        \/ \E j \in DOMAIN job : ActiveJob(j)
        \/ \E r \in Studies :
            \/ InProgress(r)
            \/ study[r].pc \in {"broken", "dead"}
            \/ study[r].pc = "raised" /\ study[r].job = 0

\* calculate_if_ready: every run leaves the score to whoever is still extracting,
\* and nobody is missed: once all runs are over and all responses PROCESSED the
\* research has a score, of all of them if no two runs overlapped.
SettledScored ==
    (/\ \A r \in Studies : study[r].pc \in {"none", "finished", "refused"}
     /\ Responses # {}
     /\ \A p \in Responses : response[p[1]][p[2]].status = "PROCESSED") =>
        /\ research.score > 0
        /\ (\A r \in Studies : study[r] # NotStudied => study[r].alone) =>
               research.score = Cardinality(Responses)

\* JobTakenOnce, JobVerdict, NotStuckActive and SettledScored together: a queued research
\* runs once, and its job, its status and its score say what became of it
\* (research/queue.py:24-82, research/service.py:153-330).
ResearchSettled == JobTakenOnce /\ JobVerdict /\ NotStuckActive /\ SettledScored

===============================================================================
