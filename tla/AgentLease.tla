----------------------------- MODULE AgentLease -----------------------------
(***************************************************************************)
(* What the Execution Engine promises about agents: an agent is leased to  *)
(* at most one task, a task to at most one agent, and a lease is ended     *)
(* before the agent or the task enters another one.                        *)
(***************************************************************************)
CONSTANTS Tasks, Agents, None

VARIABLE lease      \* the task each agent works for, or None

Init == lease = [a \in Agents |-> None]

Acquire(a, t) ==
    /\ lease[a] = None
    /\ \A b \in Agents : lease[b] # t
    /\ lease' = [lease EXCEPT ![a] = t]

Release(a) ==
    /\ lease[a] # None
    /\ lease' = [lease EXCEPT ![a] = None]

Next == \E a \in Agents : Release(a) \/ \E t \in Tasks : Acquire(a, t)

Spec == Init /\ [][Next]_lease

=============================================================================
