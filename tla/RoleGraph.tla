------------------------------- MODULE RoleGraph -------------------------------
(***************************************************************************)
(* Role inheritance (rbac): roles and their parents, the validation that   *)
(* keeps inheritance free of cycles, and the roles an access check finds   *)
(* effective.  Validations and checks walk the graph with a query for each *)
(* role, while other requests edit it.                                     *)
(*                                                                         *)
(* Names, permissions and their grants are left out, and who has a role: a *)
(* check is about a user with any set of them.                             *)
(***************************************************************************)
EXTENDS Naturals, FiniteSets

CONSTANTS MaxRoles,         \* bound on roles, deleted ones included
          MaxUserRoles,     \* bound on the roles of a user
          RoleRequests,     \* requests in progress at once
          MaxEdits          \* bound on changes of the graph

ASSUME RoleGraphAssumption == MaxRoles \in Nat \ {0} /\ MaxUserRoles \in Nat /\ MaxEdits \in Nat

VARIABLES roles,            \* ids in rbac_roles; a system role is one nobody changes
          lastRole,         \* the id given out last
          parents,          \* rbac_role_inheritance: pairs of a role and a parent
          roleReq,          \* requests to /rbac
          tangled,          \* two changes of parents have overlapped
          edits

rolesVars == <<roles, lastRole, parents, roleReq, tangled, edits>>

RoleIds == 1..MaxRoles
Edge == RoleIds \X RoleIds
NoRoleRequest == [pc |-> "idle"]
\* wanted: the parents asked for, and left those still to be validated.  A walk has
\* found result, will read pending and has read parents reads times; of a check,
\* ever and always are the edges there at some time and all the time since it began.
RoleRequest == [pc : {"checking", "walking"}, role : 0..MaxRoles,
                wanted : SUBSET RoleIds, left : SUBSET RoleIds,
                result : SUBSET RoleIds, pending : SUBSET RoleIds, reads : 0..MaxRoles,
                from : SUBSET RoleIds, ever : SUBSET Edge, always : SUBSET Edge]

RolesTypeOK ==
    /\ roles \subseteq 1..lastRole /\ lastRole \in 0..MaxRoles
    /\ parents \subseteq roles \X roles
    /\ roleReq \in [RoleRequests -> {NoRoleRequest} \cup RoleRequest]
    /\ tangled \in BOOLEAN /\ edits \in 0..MaxEdits

\* All roles but one are there, each with parents among those created before it.
RolesInit ==
    /\ lastRole = MaxRoles - 1 /\ roles = 1..lastRole
    /\ parents \in {edges \in SUBSET (roles \X roles) : \A e \in edges : e[1] > e[2]}
    /\ roleReq = [q \in RoleRequests |-> NoRoleRequest]
    /\ tangled = FALSE /\ edits = 0

\* What is reachable from the roles in s along the given edges, s included: the least
\* set that has them and leads nowhere else.
LeadsWithin(edges, c) == \A d \in edges : d[1] \in c => d[2] \in c
Reach(edges, s) ==
    {r \in RoleIds : \A c \in SUBSET RoleIds : s \subseteq c /\ LeadsWithin(edges, c) => r \in c}
ParentIds(r) == {e[2] : e \in {d \in parents : d[1] = r}}

\* The requests under way after the graph has become edges: checks remember it.
Witnessed(reqs, edges) ==
    [q \in RoleRequests |->
        IF reqs[q] = NoRoleRequest \/ reqs[q].role # 0 THEN reqs[q]
        ELSE [reqs[q] EXCEPT !.ever = @ \cup edges, !.always = @ \cap edges]]

Walk(role, wanted, left, from) ==
    [pc |-> IF from = {} THEN "checking" ELSE "walking", role |-> role,
     wanted |-> wanted, left |-> left, result |-> {}, pending |-> from, reads |-> 0,
     from |-> from, ever |-> IF role = 0 THEN parents ELSE {},
     always |-> IF role = 0 THEN parents ELSE {}]

\* A change of parents begins: its role is saved, and may be new.
Change(q, r, wanted) ==
    /\ roleReq[q] = NoRoleRequest
    /\ r \notin wanted
    /\ roleReq' = [roleReq EXCEPT ![q] = Walk(r, wanted, wanted, {})]
    /\ tangled' = (tangled \/ \E p \in RoleRequests : roleReq[p] # NoRoleRequest /\ roleReq[p].role # 0)

CreateRole(q, wanted) ==
    /\ lastRole < MaxRoles
    /\ lastRole' = lastRole + 1
    /\ roles' = roles \cup {lastRole'}
    /\ Change(q, lastRole', wanted)
    /\ UNCHANGED <<parents, edits>>

EditRole(q, r, wanted) ==
    /\ r \in roles
    /\ Change(q, r, wanted)
    /\ UNCHANGED <<roles, lastRole, parents, edits>>

\* _validate_parents takes the next parent: it must exist, and its walk begins.  The
\* lists of parents that are modelled are in ascending order.
ValidateParent(q, p) ==
    /\ roleReq[q].pc = "checking" /\ roleReq[q].role # 0
    /\ p \in roleReq[q].left /\ \A other \in roleReq[q].left : p <= other
    /\ roleReq' = [roleReq EXCEPT ![q] =
                     IF p \in roles
                     THEN Walk(@.role, @.wanted, @.left \ {p}, {p}) ELSE NoRoleRequest]
    /\ UNCHANGED <<roles, lastRole, parents, tangled, edits>>

\* A role that has been read is not read again.
Pending(w, found) == (w.pending \cup found) \ w.result

\* _effective: one more role is read.
WalkStep(q, r) ==
    LET w == [roleReq[q] EXCEPT !.result = @ \cup {r}, !.pending = @ \ {r}]
    IN  /\ roleReq[q].pc = "walking"
        /\ r \in roleReq[q].pending
        /\ roleReq' = [roleReq EXCEPT ![q] =
                         [w EXCEPT !.pending = Pending(w, ParentIds(r)), !.reads = @ + 1]]
        /\ UNCHANGED <<roles, lastRole, parents, tangled, edits>>

Cyclic_Direct(q) == roleReq[q].role \in UNION {ParentIds(p) : p \in roleReq[q].from}
Cyclic(q) == roleReq[q].role \in roleReq[q].result

\* The walk is over: a validation refuses a cycle or goes on, a check is answered.
WalkDone(q) ==
    LET w == roleReq[q]
    IN  /\ w.pc = "walking" /\ w.pending = {}
        /\ roleReq' = [roleReq EXCEPT ![q] =
                         IF w.role = 0 \/ Cyclic(q) THEN NoRoleRequest
                         ELSE Walk(w.role, w.wanted, w.left, {})]
        /\ UNCHANGED <<roles, lastRole, parents, tangled, edits>>

\* set_parents; its foreign keys refuse a role that was deleted meanwhile.
SetParents(q) ==
    LET w == roleReq[q]
        own == {d \in parents : d[1] = w.role}
        refused == ~(w.wanted \subseteq roles) \/ (w.wanted # {} /\ w.role \notin roles)
        edges == IF refused THEN parents ELSE (parents \ own) \cup ({w.role} \X w.wanted)
    IN  /\ w.pc = "checking" /\ w.role # 0 /\ w.left = {}
        /\ edits < MaxEdits
        /\ parents' = edges
        /\ edits' = edits + 1
        /\ roleReq' = Witnessed([roleReq EXCEPT ![q] = NoRoleRequest], edges)
        /\ UNCHANGED <<roles, lastRole, tangled>>

\* The rows that refer to a role go with it.
DeleteRole(r) ==
    LET edges == {d \in parents : r \notin {d[1], d[2]}}
    IN  /\ r \in roles
        /\ edits < MaxEdits
        /\ roles' = roles \ {r}
        /\ parents' = edges
        /\ edits' = edits + 1
        /\ roleReq' = Witnessed(roleReq, edges)
        /\ UNCHANGED <<lastRole, tangled>>

\* check and is_allowed: user_role_ids, then the walk.
CheckAccess(q, s) ==
    /\ roleReq[q] = NoRoleRequest
    /\ s # {} /\ s \subseteq roles /\ Cardinality(s) <= MaxUserRoles
    /\ roleReq' = [roleReq EXCEPT ![q] = Walk(0, {}, {}, s)]
    /\ UNCHANGED <<roles, lastRole, parents, tangled, edits>>

RoleRequestDies(q) ==
    /\ roleReq[q] # NoRoleRequest
    /\ roleReq' = [roleReq EXCEPT ![q] = NoRoleRequest]
    /\ UNCHANGED <<roles, lastRole, parents, tangled, edits>>

RolesNext ==
    \/ \E r \in RoleIds : DeleteRole(r)
    \/ \E q \in RoleRequests :
        \/ \E s \in SUBSET RoleIds :
            CreateRole(q, s) \/ CheckAccess(q, s) \/ \E r \in RoleIds : EditRole(q, r, s)
        \/ \E r \in RoleIds : ValidateParent(q, r) \/ WalkStep(q, r)
        \/ WalkDone(q)
        \/ SetParents(q)
        \/ RoleRequestDies(q)

-----------------------------------------------------------------------------
(***************************************************************************)
(* Properties                                                              *)
(***************************************************************************)
\* _validate_parents: inheritance has no cycle, however many roles it would go
\* through, unless two changes of parents overlapped.
Acyclic == ~tangled => \A r \in roles : r \notin Reach(parents, ParentIds(r))

\* _effective, against edits between its queries: a walk that is over has found
\* every role that could be reached all the time since it began, and none that
\* could not be reached if the edges it may have seen were all there at once.
EffectiveBetween ==
    \A q \in RoleRequests :
        roleReq[q].pc = "walking" /\ roleReq[q].pending = {} /\ roleReq[q].role = 0 =>
            /\ Reach(roleReq[q].always, roleReq[q].from) \subseteq roleReq[q].result
            /\ roleReq[q].result \subseteq Reach(roleReq[q].ever, roleReq[q].from)

\* _effective: a walk reads no role twice, so that it ends even when overlapping
\* changes have closed a cycle.
ReadOnce ==
    \A q \in RoleRequests :
        roleReq[q].pc = "walking" => roleReq[q].reads = Cardinality(roleReq[q].result)

\* Acyclic, EffectiveBetween and ReadOnce together: the inheritance of roles stays a
\* hierarchy and walking it ends with the roles it grants (rbac/service.py).
RolesKept == Acyclic /\ EffectiveBetween /\ ReadOnce

================================================================================
