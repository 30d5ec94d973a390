------------------------------ MODULE ModelRegistry ------------------------------
(***************************************************************************)
(* The router's registry of models.  Every request first seeds what        *)
(* providers.yaml and policies.yaml declare and the tables lack, then      *)
(* creates, updates or deletes a model.  A model has a circuit and         *)
(* versions, in tables without foreign keys.                               *)
(*                                                                         *)
(* A model has two columns, which stand for all.  Reading requests, which  *)
(* seed and read, end after seeding here.                                  *)
(***************************************************************************)
EXTENDS Naturals, FiniteSets

CONSTANTS RegistryRequests, \* requests in progress at once
          ModelNames,           \* model ids
          Seeds,            \* those providers.yaml declares ACTIVE
          Values            \* of a column

ASSUME RegistryAssumption == Seeds \subseteq ModelNames /\ Values # {}

VARIABLES registered,   \* table router_models: the rows, by id
          circuits,     \* table router_circuit_breakers: the ids with a row
          snapshots,    \* table router_model_versions: what was recorded of each id
          policies,     \* whether table router_policies has its rows
          regReq        \* requests in progress

registryVars == <<registered, circuits, snapshots, policies, regReq>>

ModelColumns == {"name", "price"}
RegisteredModel == [ModelColumns -> Values]
NoModel == <<>>

ModelOperations == {"read", "create", "update", "delete"}
NoRegRequest == [pc |-> "idle"]
RegRequest == [pc : {"list", "listPolicies", "operate"}, op : ModelOperations, id : ModelNames]
\* missing: the seeds it has to create; lack: whether it has to create the policies.
Seeding == [pc : {"seed"}, op : ModelOperations, id : ModelNames, missing : SUBSET Seeds]
SeedingPolicies == [pc : {"seedPolicies"}, op : ModelOperations, id : ModelNames, lack : BOOLEAN]
\* was: the row as it was loaded.
Updating == [pc : {"update"}, op : {"update"}, id : ModelNames, was : RegisteredModel]
\* circuit: whether it has found one.
Deleting == [pc : {"findCircuit", "delete"}, op : {"delete"}, id : ModelNames, circuit : BOOLEAN]

RegistryTypeOK ==
    /\ registered \in [ModelNames -> {NoModel} \cup RegisteredModel]
    /\ circuits \subseteq ModelNames
    /\ snapshots \in [ModelNames -> SUBSET RegisteredModel]
    /\ policies \in BOOLEAN
    /\ regReq \in [RegistryRequests -> {NoRegRequest} \cup RegRequest \cup Seeding
                                        \cup SeedingPolicies \cup Updating \cup Deleting]

RegistryInit ==
    /\ registered = [m \in ModelNames |-> NoModel]
    /\ circuits = {}
    /\ snapshots = [m \in ModelNames |-> {}]
    /\ policies = FALSE
    /\ regReq = [q \in RegistryRequests |-> NoRegRequest]

RegTo(q, s) == regReq' = [regReq EXCEPT ![q] = s]
RegOver(q) == RegTo(q, NoRegRequest)
RegOnto(q, pc) == [pc |-> pc, op |-> regReq[q].op, id |-> regReq[q].id]
Registered == {m \in ModelNames : registered[m] # NoModel}

-----------------------------------------------------------------------------
\* create, in one transaction: the ids of a model and of its circuit are primary keys.
Creatable(m) == m \notin Registered \cup circuits
Creates(m, row) ==
    /\ registered' = [registered EXCEPT ![m] = row]
    /\ circuits' = circuits \cup {m}
    /\ snapshots' = [snapshots EXCEPT ![m] = @ \cup {row}]

(***************************************************************************)
(* ensure_seeded                                                           *)
(***************************************************************************)
RegArrive(q, op, m) ==
    /\ regReq[q] = NoRegRequest
    /\ RegTo(q, [pc |-> "list", op |-> op, id |-> m])
    /\ UNCHANGED <<registered, circuits, snapshots, policies>>

ListModels(q) ==
    /\ regReq[q].pc = "list"
    /\ RegTo(q, [pc |-> "seed", op |-> regReq[q].op, id |-> regReq[q].id,
                 missing |-> Seeds \ Registered])
    /\ UNCHANGED <<registered, circuits, snapshots, policies>>

\* Each seed is a commit; the first that is there by now ends the request, and so does
\* one whose circuit was left behind, for every request.
SeedModel(q, m, row) ==
    /\ regReq[q].pc = "seed"
    /\ m \in regReq[q].missing
    /\ IF Creatable(m)
       THEN Creates(m, row) /\ RegTo(q, [regReq[q] EXCEPT !.missing = @ \ {m}])
       ELSE UNCHANGED <<registered, circuits, snapshots>> /\ RegOver(q)
    /\ UNCHANGED policies

ModelsSeeded(q) ==
    /\ regReq[q].pc = "seed"
    /\ regReq[q].missing = {}
    /\ RegTo(q, RegOnto(q, "listPolicies"))
    /\ UNCHANGED <<registered, circuits, snapshots, policies>>

ListPolicies(q) ==
    /\ regReq[q].pc = "listPolicies"
    /\ RegTo(q, [pc |-> "seedPolicies", op |-> regReq[q].op, id |-> regReq[q].id,
                 lack |-> ~policies])
    /\ UNCHANGED <<registered, circuits, snapshots, policies>>

\* Policies that somebody else has created meanwhile end the request.
SeedPolicies(q) ==
    /\ regReq[q].pc = "seedPolicies"
    /\ policies' = TRUE
    /\ IF (regReq[q].lack /\ policies) \/ regReq[q].op = "read" THEN RegOver(q)
       ELSE RegTo(q, RegOnto(q, "operate"))
    /\ UNCHANGED <<registered, circuits, snapshots>>

-----------------------------------------------------------------------------
(***************************************************************************)
(* ModelRepository                                                         *)
(***************************************************************************)
\* A model that exists is an internal error, a circuit that does is a conflict.
CreateModel(q, row) ==
    /\ regReq[q].pc = "operate" /\ regReq[q].op = "create"
    /\ IF Creatable(regReq[q].id) THEN Creates(regReq[q].id, row)
       ELSE UNCHANGED <<registered, circuits, snapshots>>
    /\ RegOver(q)
    /\ UNCHANGED policies

LoadModel(q) ==
    /\ regReq[q].pc = "operate" /\ regReq[q].op \in {"update", "delete"}
    /\ LET m == regReq[q].id
       IN  IF m \notin Registered THEN RegOver(q)
           ELSE IF regReq[q].op = "update"
           THEN RegTo(q, [pc |-> "update", op |-> "update", id |-> m, was |-> registered[m]])
           ELSE RegTo(q, [pc |-> "findCircuit", op |-> "delete", id |-> m, circuit |-> FALSE])
    /\ UNCHANGED <<registered, circuits, snapshots, policies>>

\* What the request takes the model for once it has set the columns of its payload.
ModelAfter(was, payload) ==
    [c \in ModelColumns |-> IF c \in DOMAIN payload THEN payload[c] ELSE was[c]]
ModelSnapshot_Loaded(was, payload) == was
\* _record_version
ModelSnapshot(was, payload) == ModelAfter(was, payload)

\* Columns that differ from what was loaded are written; a row that is gone by now
\* ends the request, and its version with it.
UpdateModel(q, payload) ==
    /\ regReq[q].pc = "update"
    /\ LET m == regReq[q].id
           was == regReq[q].was
           now == ModelAfter(was, payload)
       IN  IF m \in Registered
           THEN /\ registered' = [registered EXCEPT ![m] =
                       [c \in ModelColumns |-> IF now[c] # was[c] THEN now[c] ELSE @[c]]]
                /\ snapshots' = [snapshots EXCEPT ![m] = @ \cup {ModelSnapshot(was, payload)}]
           ELSE UNCHANGED <<registered, snapshots>>
    /\ RegOver(q)
    /\ UNCHANGED <<circuits, policies>>

FindCircuit(q) ==
    /\ regReq[q].pc = "findCircuit"
    /\ RegTo(q, [regReq[q] EXCEPT !.pc = "delete", !.circuit = regReq[q].id \in circuits])
    /\ UNCHANGED <<registered, circuits, snapshots, policies>>

\* Rows that are gone by now are no error; a circuit that was not there is not deleted.
DeleteModel(q) ==
    /\ regReq[q].pc = "delete"
    /\ registered' = [registered EXCEPT ![regReq[q].id] = NoModel]
    /\ circuits' = IF regReq[q].circuit THEN circuits \ {regReq[q].id} ELSE circuits
    /\ RegOver(q)
    /\ UNCHANGED <<snapshots, policies>>

Changes == UNION {[S -> Values] : S \in SUBSET ModelColumns}

RegistryNext ==
    \E q \in RegistryRequests :
        \/ \E op \in ModelOperations, m \in ModelNames : RegArrive(q, op, m)
        \/ ListModels(q)
        \/ \E m \in Seeds, row \in RegisteredModel : SeedModel(q, m, row)
        \/ ModelsSeeded(q)
        \/ ListPolicies(q)
        \/ SeedPolicies(q)
        \/ \E row \in RegisteredModel : CreateModel(q, row)
        \/ LoadModel(q)
        \/ \E payload \in Changes : UpdateModel(q, payload)
        \/ FindCircuit(q)
        \/ DeleteModel(q)

-----------------------------------------------------------------------------
(***************************************************************************)
(* Properties                                                              *)
(***************************************************************************)
\* ModelRepository: whoever seeds, creates, updates and deletes at once, a registered
\* model has its circuit, the value of every column was recorded in a version, and a
\* request that has seeded finds the policies.
RegistryWhole ==
    /\ Registered \subseteq circuits
    /\ \A m \in Registered, c \in ModelColumns : \E v \in snapshots[m] : v[c] = registered[m][c]
    /\ \A q \in RegistryRequests : regReq[q].pc = "operate" => policies

=================================================================================
