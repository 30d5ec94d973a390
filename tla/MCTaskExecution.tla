-------------------------- MODULE MCTaskExecution --------------------------
(***************************************************************************)
(* Instances of TaskExecution for TLC.                                     *)
(***************************************************************************)
EXTENDS TaskExecution, TLC

\* Agent 1 has a skill of its own, every other agent has none.
MCSpecialization == [a \in Agents |-> IF a = 1 THEN "seo" ELSE None]
SameSkill == [a \in Agents |-> None]

Body(status, owner, need) ==
    [status |-> status, owner |-> owner, priority |-> "MEDIUM", need |-> need]
ReadyTask == Body("READY", None, None)

Patch(status, priority, need) ==
    [status |-> status, priority |-> priority, need |-> need]

\* Clients that only create ready tasks.
OnlyReady == {ReadyTask}
NoPatches == {}

\* Clients that take a task and change the skill it needs behind the scheduler's back.
EditPatches == {Patch("IN_PROGRESS", "unset", "seo")}

\* Clients of the liveness run.
AnyPatches == {Patch("READY", "unset", "unset"), Patch("REVIEW", "LOW", "unset")}

SessionSymmetry == Permutations(Sessions)

=============================================================================
