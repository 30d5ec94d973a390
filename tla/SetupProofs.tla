------------------------------ MODULE SetupProofs -----------------------------
(***************************************************************************)
(* Theorems about what a customer is shown and what the API keeps for it:  *)
(* the model registry, the readiness of the providers, product research and*)
(* its reports, the cache and the graph search, for any number of requests,*)
(* rows, keys and entities; and, with WorkspaceProofs, that in the         *)
(* composition the rows and records of every one of them keep their types. *)
(*                                                                         *)
(* The inductive invariants: RegistryWhole is one as it stands; a verdict  *)
(* on a provider needs when its probes were (ReadinessInv); a report needs *)
(* what a request has derived by the statement it is at, and that rows only*)
(* gain (ProductsInv); what the cache serves needs that an entry is as old *)
(* as it says (CacheInv); the graph search that its queue goes outward, and*)
(* that all that is no farther than its head has been found (TraversalInv).*)
(***************************************************************************)
EXTENDS MCSetup, WorkspaceProofs, SumTheorems

(***************************************************************************)
(* ModelRegistry                                                           *)
(***************************************************************************)
RegRequests == {NoRegRequest} \cup RegRequest \cup Seeding \cup SeedingPolicies
                   \cup Updating \cup Deleting

\* A registered model has its circuit, and the value of every column was recorded.
ModelKept(m) ==
    registered[m] # NoModel =>
        /\ m \in circuits
        /\ \A c \in ModelColumns : \E v \in snapshots[m] : v[c] = registered[m][c]

TablesKept ==
    /\ registered \in [ModelNames -> {NoModel} \cup RegisteredModel]
    /\ circuits \subseteq ModelNames
    /\ snapshots \in [ModelNames -> SUBSET RegisteredModel]
    /\ policies \in BOOLEAN
    /\ \A m \in ModelNames : ModelKept(m)

\* What is said of a request: its type, and that it has policies once it has seeded.
RegStands(r, seeded) == r \in RegRequests /\ (r.pc = "operate" => seeded)

RequestsKept ==
    /\ regReq \in [RegistryRequests -> RegRequests]
    /\ \A q \in RegistryRequests : RegStands(regReq[q], policies)

RegistryInv == TablesKept /\ RequestsKept

LEMMA RegistryMeans == RegistryTypeOK /\ RegistryWhole <=> RegistryInv
BY DEF RegistryTypeOK, RegistryWhole, Registered, RegRequests, RegStands, RegistryInv,
       TablesKept, RequestsKept, ModelKept

LEMMA RowIsModel == \A row \in RegisteredModel : row # NoModel
<1> SUFFICES ASSUME NEW row \in RegisteredModel, row = NoModel PROVE FALSE
  OBVIOUS
<1>1. DOMAIN row = ModelColumns
  BY DEF RegisteredModel
<1>2. DOMAIN NoModel = {}
  BY DEF NoModel
<1> QED BY <1>1, <1>2 DEF ModelColumns

\* What each pc says of the request.
LEMMA RegKinds ==
    ASSUME NEW r \in RegRequests
    PROVE  /\ r.pc \in {"list", "listPolicies", "operate"} => r \in RegRequest
           /\ r.pc = "seed" => r \in Seeding
           /\ r.pc = "seedPolicies" => r \in SeedingPolicies
           /\ r.pc = "update" => r \in Updating
           /\ r.pc \in {"findCircuit", "delete"} => r \in Deleting
           /\ NoRegRequest \in RegRequests /\ NoRegRequest.pc = "idle"
BY DEF RegRequests, NoRegRequest, RegRequest, Seeding, SeedingPolicies, Updating, Deleting

LEMMA RegistryMoves ==
    ASSUME RegistryInv, TablesKept', policies => policies', NEW q \in RegistryRequests,
           NEW s, RegStands(s, policies'), RegTo(q, s)
    PROVE  RegistryInv'
BY DEF RegistryInv, RequestsKept, RegTo, RegStands

LEMMA ModelCreated ==
    ASSUME TablesKept, NEW m \in ModelNames, NEW row \in RegisteredModel, Creates(m, row),
           policies' \in BOOLEAN
    PROVE  TablesKept'
<1>1. /\ registered' \in [ModelNames -> {NoModel} \cup RegisteredModel]
      /\ circuits' \subseteq ModelNames
      /\ snapshots' \in [ModelNames -> SUBSET RegisteredModel]
  BY DEF TablesKept, Creates
<1>2. ASSUME NEW n \in ModelNames PROVE ModelKept(n)'
  <2>1. CASE n = m
    <3>1. registered'[n] = row /\ row \in snapshots'[n] /\ n \in circuits'
      BY <2>1 DEF TablesKept, Creates
    <3> QED BY <3>1 DEF ModelKept
  <2>2. CASE n # m
    <3>1. registered'[n] = registered[n] /\ snapshots'[n] = snapshots[n] /\ circuits \subseteq circuits'
      BY <2>2 DEF TablesKept, Creates
    <3> QED BY <3>1 DEF ModelKept, TablesKept
  <2> QED BY <2>1, <2>2
<1> QED BY <1>1, <1>2 DEF TablesKept

LEMMA TablesRest ==
    ASSUME TablesKept, UNCHANGED <<registered, circuits, snapshots>>, policies' \in BOOLEAN
    PROVE  TablesKept'
BY DEF TablesKept, ModelKept

LEMMA SeedModelKeeps ==
    ASSUME RegistryInv, NEW q \in RegistryRequests, NEW m \in Seeds, NEW row \in RegisteredModel,
           SeedModel(q, m, row)
    PROVE  RegistryInv'
<1>1. regReq[q] \in RegRequests /\ regReq[q] \in Seeding
  BY RegKinds DEF RegistryInv, RequestsKept, RegStands, SeedModel
<1>2. m \in ModelNames /\ policies' = policies /\ policies \in BOOLEAN
  BY RegistryAssumption DEF RegistryAssumption, SeedModel, RegistryInv, TablesKept
<1>3. CASE Creatable(m)
  <2>1. Creates(m, row) /\ RegTo(q, [regReq[q] EXCEPT !.missing = @ \ {m}])
    BY <1>3 DEF SeedModel
  <2>2. RegStands([regReq[q] EXCEPT !.missing = @ \ {m}], policies')
    BY <1>1 DEF RegStands, RegRequests, Seeding
  <2> QED BY <1>2, <2>1, <2>2, ModelCreated, RegistryMoves DEF RegistryInv
<1>4. CASE ~Creatable(m)
  <2>1. UNCHANGED <<registered, circuits, snapshots>> /\ RegTo(q, NoRegRequest)
    BY <1>4 DEF SeedModel, RegOver
  <2>2. RegStands(NoRegRequest, policies')
    BY <1>1, RegKinds DEF RegStands
  <2> QED BY <1>2, <2>1, <2>2, TablesRest, RegistryMoves DEF RegistryInv
<1> QED BY <1>3, <1>4

LEMMA CreateModelKeeps ==
    ASSUME RegistryInv, NEW q \in RegistryRequests, NEW row \in RegisteredModel, CreateModel(q, row)
    PROVE  RegistryInv'
<1>1. regReq[q] \in RegRequests /\ regReq[q] \in RegRequest
  BY RegKinds DEF RegistryInv, RequestsKept, RegStands, CreateModel
<1>2. regReq[q].id \in ModelNames /\ policies' = policies /\ policies \in BOOLEAN
  BY <1>1 DEF RegRequest, CreateModel, RegistryInv, TablesKept
<1>3. TablesKept'
  BY <1>2, ModelCreated, TablesRest DEF CreateModel, RegistryInv
<1>4. RegTo(q, NoRegRequest) /\ RegStands(NoRegRequest, policies')
  BY <1>1, RegKinds DEF CreateModel, RegOver, RegStands
<1> QED BY <1>2, <1>3, <1>4, RegistryMoves

LEMMA UpdateModelKeeps ==
    ASSUME RegistryInv, NEW q \in RegistryRequests, NEW payload \in Changes, UpdateModel(q, payload)
    PROVE  RegistryInv'
<1>1. regReq[q] \in RegRequests /\ regReq[q] \in Updating
  BY RegKinds DEF RegistryInv, RequestsKept, RegStands, UpdateModel
<1> PICK m \in ModelNames : m = regReq[q].id
  BY <1>1 DEF Updating
<1> PICK was \in RegisteredModel : was = regReq[q].was
  BY <1>1 DEF Updating
<1>2. ModelAfter(was, payload) \in RegisteredModel
  BY DEF ModelAfter, Changes, RegisteredModel
<1> PICK now \in RegisteredModel : now = ModelAfter(was, payload)
  BY <1>2
<1>3. TablesKept'
  <2>1. CASE m \in Registered
    <3>1. registered[m] \in RegisteredModel /\ circuits' = circuits /\ policies' = policies
      BY <2>1 DEF Registered, RegistryInv, TablesKept, UpdateModel
    <3> PICK row : row = [c \in ModelColumns |-> IF now[c] # was[c] THEN now[c] ELSE registered[m][c]]
      OBVIOUS
    <3>2. row \in RegisteredModel
      BY <3>1 DEF RegisteredModel
    <3>3. /\ registered' = [registered EXCEPT ![m] = row]
          /\ snapshots' = [snapshots EXCEPT ![m] = @ \cup {now}]
      <4>1. registered' = [registered EXCEPT ![m] =
               [c \in ModelColumns |-> IF now[c] # was[c] THEN now[c] ELSE @[c]]]
        BY <2>1 DEF UpdateModel
      <4>2. snapshots' = [snapshots EXCEPT ![m] = @ \cup {now}]
        BY <2>1 DEF UpdateModel, ModelSnapshot
      <4> QED BY <4>1, <4>2
    <3>4. ASSUME NEW n \in ModelNames PROVE ModelKept(n)'
      <4>1. CASE n # m
        <5>1. registered'[n] = registered[n] /\ snapshots'[n] = snapshots[n]
          BY <3>3, <4>1 DEF RegistryInv, TablesKept
        <5> QED BY <3>1, <5>1 DEF ModelKept, TablesKept, RegistryInv
      <4>2. CASE n = m
        <5>1. /\ registered'[n] = row /\ snapshots'[n] = snapshots[n] \cup {now}
              /\ registered[n] # NoModel /\ ModelKept(n)
          BY <2>1, <3>3, <4>2 DEF RegistryInv, TablesKept, Registered
        <5>2. ASSUME NEW c \in ModelColumns
              PROVE  \E v \in snapshots[n] \cup {now} : v[c] = row[c]
          <6>1. CASE now[c] # was[c]
            BY <6>1
          <6>2. CASE now[c] = was[c]
            <7>1. \E v \in snapshots[n] : v[c] = registered[n][c]
              BY <5>1 DEF ModelKept
            <7> QED BY <6>2, <7>1, <4>2
          <6> QED BY <6>1, <6>2
        <5> QED BY <3>1, <5>1, <5>2 DEF ModelKept
      <4> QED BY <4>1, <4>2
    <3>5. /\ registered' \in [ModelNames -> {NoModel} \cup RegisteredModel]
          /\ snapshots' \in [ModelNames -> SUBSET RegisteredModel]
      BY <3>2, <3>3 DEF RegistryInv, TablesKept
    <3> QED BY <3>1, <3>4, <3>5 DEF RegistryInv, TablesKept
  <2>2. CASE m \notin Registered
    BY <2>2, TablesRest DEF UpdateModel, RegistryInv, TablesKept
  <2> QED BY <2>1, <2>2
<1>4. RegTo(q, NoRegRequest) /\ RegStands(NoRegRequest, policies') /\ policies' = policies
  BY <1>1, RegKinds DEF UpdateModel, RegOver, RegStands
<1> QED BY <1>3, <1>4, RegistryMoves

LEMMA DeleteModelKeeps ==
    ASSUME RegistryInv, NEW q \in RegistryRequests, DeleteModel(q)
    PROVE  RegistryInv'
<1>1. regReq[q] \in RegRequests /\ regReq[q] \in Deleting
  BY RegKinds DEF RegistryInv, RequestsKept, RegStands, DeleteModel
<1> PICK m \in ModelNames : m = regReq[q].id
  BY <1>1 DEF Deleting
<1>2. /\ registered' = [registered EXCEPT ![m] = NoModel] /\ snapshots' = snapshots
      /\ circuits \ {m} \subseteq circuits' /\ circuits' \subseteq circuits /\ policies' = policies
  BY DEF DeleteModel
<1>3. ASSUME NEW n \in ModelNames PROVE ModelKept(n)'
  BY <1>2 DEF ModelKept, RegistryInv, TablesKept
<1>4. TablesKept'
  BY <1>2, <1>3 DEF RegistryInv, TablesKept
<1>5. RegTo(q, NoRegRequest) /\ RegStands(NoRegRequest, policies')
  BY <1>1, RegKinds DEF DeleteModel, RegOver, RegStands
<1> QED BY <1>2, <1>4, <1>5, RegistryMoves

\* The steps that write no model: they read, or make the policies.
LEMMA RegistryGoesOn ==
    ASSUME RegistryInv, NEW q \in RegistryRequests,
           \/ \E op \in ModelOperations, m \in ModelNames : RegArrive(q, op, m)
           \/ ListModels(q) \/ ModelsSeeded(q) \/ ListPolicies(q) \/ SeedPolicies(q)
           \/ LoadModel(q) \/ FindCircuit(q)
    PROVE  RegistryInv'
<1>1. /\ regReq[q] \in RegRequests /\ (regReq[q].pc = "operate" => policies) /\ policies \in BOOLEAN
      /\ registered \in [ModelNames -> {NoModel} \cup RegisteredModel] /\ TablesKept
  BY DEF RegistryInv, TablesKept, RequestsKept, RegStands
<1> PICK r \in RegRequests : r = regReq[q]
  BY <1>1
<1>2. RegStands(NoRegRequest, policies')
  BY RegKinds DEF RegStands
<1>3. ASSUME NEW op \in ModelOperations, NEW m \in ModelNames, RegArrive(q, op, m)
      PROVE  RegistryInv'
  <2>1. RegStands([pc |-> "list", op |-> op, id |-> m], policies')
    BY <1>3 DEF RegStands, RegRequests, RegRequest
  <2> QED BY <1>1, <1>3, <2>1, TablesRest, RegistryMoves DEF RegArrive
<1>4. CASE ListModels(q)
  <2>1. r \in RegRequest
    BY <1>4, RegKinds DEF ListModels
  <2>2. RegStands([pc |-> "seed", op |-> r.op, id |-> r.id, missing |-> Seeds \ Registered], policies')
    BY <2>1 DEF RegStands, RegRequests, RegRequest, Seeding
  <2> QED BY <1>1, <1>4, <2>2, TablesRest, RegistryMoves DEF ListModels
<1>5. CASE ModelsSeeded(q)
  <2>1. r \in Seeding
    BY <1>5, RegKinds DEF ModelsSeeded
  <2>2. RegStands([pc |-> "listPolicies", op |-> r.op, id |-> r.id], policies')
    BY <2>1 DEF RegStands, RegRequests, RegRequest, Seeding
  <2> QED BY <1>1, <1>5, <2>2, TablesRest, RegistryMoves DEF ModelsSeeded, RegOnto
<1>6. CASE ListPolicies(q)
  <2>1. r \in RegRequest
    BY <1>6, RegKinds DEF ListPolicies
  <2>2. (~policies) \in BOOLEAN
    OBVIOUS
  <2>3. RegStands([pc |-> "seedPolicies", op |-> r.op, id |-> r.id, lack |-> ~policies], policies')
    BY <2>1, <2>2 DEF RegStands, RegRequests, RegRequest, SeedingPolicies
  <2> QED BY <1>1, <1>6, <2>3, TablesRest, RegistryMoves DEF ListPolicies
<1>7. CASE SeedPolicies(q)
  <2>1. r \in SeedingPolicies /\ policies' = TRUE /\ UNCHANGED <<registered, circuits, snapshots>>
    BY <1>7, RegKinds DEF SeedPolicies
  <2>2. RegStands([pc |-> "operate", op |-> r.op, id |-> r.id], policies')
    BY <2>1 DEF RegStands, RegRequests, RegRequest, SeedingPolicies
  <2>3. TablesKept'
    BY <1>1, <2>1, TablesRest
  <2>4. RegTo(q, NoRegRequest) \/ RegTo(q, [pc |-> "operate", op |-> r.op, id |-> r.id])
    BY <1>7 DEF SeedPolicies, RegOver, RegOnto
  <2> QED BY <1>2, <2>1, <2>2, <2>3, <2>4, RegistryMoves
<1>8. CASE LoadModel(q)
  <2> PICK m : m = r.id
    OBVIOUS
  <2>1. r \in RegRequest /\ m \in ModelNames
    BY <1>8, RegKinds DEF LoadModel, RegRequest
  <2>2. ASSUME m \in Registered
        PROVE  /\ RegStands([pc |-> "update", op |-> "update", id |-> m, was |-> registered[m]], policies')
               /\ RegStands([pc |-> "findCircuit", op |-> "delete", id |-> m, circuit |-> FALSE], policies')
    BY <1>1, <2>1, <2>2 DEF RegStands, RegRequests, Updating, Deleting, Registered
  <2>3. \/ RegTo(q, NoRegRequest)
        \/ m \in Registered /\ RegTo(q, [pc |-> "update", op |-> "update", id |-> m, was |-> registered[m]])
        \/ m \in Registered /\ RegTo(q, [pc |-> "findCircuit", op |-> "delete", id |-> m, circuit |-> FALSE])
    BY <1>8 DEF LoadModel, RegOver
  <2>4. TablesKept' /\ policies' = policies
    BY <1>1, <1>8, TablesRest DEF LoadModel
  <2> QED BY <1>2, <2>2, <2>3, <2>4, RegistryMoves
<1>9. CASE FindCircuit(q)
  <2>1. r \in Deleting
    BY <1>9, RegKinds DEF FindCircuit
  <2>2. ASSUME NEW b \in BOOLEAN PROVE RegStands([r EXCEPT !.pc = "delete", !.circuit = b], policies')
    <3>1. [r EXCEPT !.pc = "delete", !.circuit = b] \in Deleting
      BY <2>1 DEF Deleting
    <3>2. [r EXCEPT !.pc = "delete", !.circuit = b].pc = "delete"
      BY <2>1 DEF Deleting
    <3> QED BY <3>1, <3>2 DEF RegStands, RegRequests
  <2>3. \E b \in BOOLEAN : RegTo(q, [r EXCEPT !.pc = "delete", !.circuit = b])
    <3>1. CASE r.id \in circuits
      <4>1. RegTo(q, [r EXCEPT !.pc = "delete", !.circuit = TRUE])
        BY <1>9, <3>1 DEF FindCircuit, RegTo
      <4> QED BY <4>1
    <3>2. CASE r.id \notin circuits
      <4>1. (r.id \in circuits) = FALSE
        BY <3>2
      <4>2. RegTo(q, [r EXCEPT !.pc = "delete", !.circuit = FALSE])
        BY <1>9, <4>1 DEF FindCircuit, RegTo
      <4> QED BY <4>2
    <3> QED BY <3>1, <3>2
  <2>4. TablesKept' /\ policies' = policies
    BY <1>1, <1>9, TablesRest DEF FindCircuit
  <2> QED BY <2>2, <2>3, <2>4, RegistryMoves
<1> QED BY <1>3, <1>4, <1>5, <1>6, <1>7, <1>8, <1>9

LEMMA RegistryInitInv == RegistryInit => RegistryInv
<1> SUFFICES ASSUME RegistryInit PROVE RegistryInv
  OBVIOUS
<1>1. TablesKept
  <2>1. policies \in BOOLEAN
    BY DEF RegistryInit
  <2> QED BY <2>1 DEF RegistryInit, TablesKept, ModelKept
<1>2. RequestsKept
  BY DEF RegistryInit, RequestsKept, RegStands, RegRequests, NoRegRequest
<1> QED BY <1>1, <1>2 DEF RegistryInv

LEMMA RegistryNextInv == RegistryInv /\ [RegistryNext]_registryVars => RegistryInv'
<1> SUFFICES ASSUME RegistryInv, [RegistryNext]_registryVars PROVE RegistryInv'
  OBVIOUS
<1>1. CASE UNCHANGED registryVars
  BY <1>1 DEF registryVars, RegistryInv, TablesKept, ModelKept, RequestsKept
<1>2. CASE RegistryNext
  <2> PICK q \in RegistryRequests :
        \/ \E op \in ModelOperations, m \in ModelNames : RegArrive(q, op, m)
        \/ ListModels(q) \/ ModelsSeeded(q) \/ ListPolicies(q) \/ SeedPolicies(q)
        \/ LoadModel(q) \/ FindCircuit(q)
        \/ \E m \in Seeds, row \in RegisteredModel : SeedModel(q, m, row)
        \/ \E row \in RegisteredModel : CreateModel(q, row)
        \/ \E payload \in Changes : UpdateModel(q, payload)
        \/ DeleteModel(q)
    BY <1>2 DEF RegistryNext
  <2> QED BY RegistryGoesOn, SeedModelKeeps, CreateModelKeeps, UpdateModelKeeps, DeleteModelKeeps
<1> QED BY <1>1, <1>2

\* ModelRepository: whoever seeds, creates, updates and deletes at once, a registered model
\* has its circuit and the value of every column was recorded in a version, for any models,
\* seeds and number of requests.
THEOREM RegistryCorrect ==
    RegistryInit /\ [][RegistryNext]_registryVars => [](RegistryTypeOK /\ RegistryWhole)
BY RegistryInitInv, RegistryNextInv, RegistryMeans, PTL

-----------------------------------------------------------------------------
(***************************************************************************)
(* ProviderReadiness                                                       *)
(***************************************************************************)
\* The last probe with outcome a ended, and less than HealthTtl before t.
ProbedSince(a, t, endedAt) == endedAt[a] \in Nat /\ endedAt[a] # Never /\ t < endedAt[a] + HealthTtl

\* A thread that has its outcome began its check when that was not yet old.
CheckKept(r, now, endedAt) ==
    /\ r.began <= now
    /\ r.at = "verdict" => ProbedSince(r.available, r.began, endedAt)

EndedKept == \A a \in BOOLEAN : probeEnded[a] = Never \/ probeEnded[a] <= instant
ProbeKept ==
    probed.expires # 0 =>
        /\ probeEnded[probed.available] # Never
        /\ probed.expires <= probeEnded[probed.available] + HealthTtl
VerdictKept == verdict.since = Never \/ ProbedSince(verdict.available, verdict.since, probeEnded)
ChecksKept == \A c \in Checkers : CheckKept(check[c], instant, probeEnded)

ReadinessInv == ReadinessTypeOK /\ EndedKept /\ ProbeKept /\ VerdictKept /\ ChecksKept

LEMMA InstantsAreNat ==
    /\ ReadyTtl \in Nat \ {0} /\ HealthTtl \in Nat \ {0} /\ MaxInstant \in Nat
    /\ Never = MaxInstant + 1
BY ReadinessAssumption DEF ReadinessAssumption, Never

\* A probe that ends now takes nothing from what was said of earlier ones.
LEMMA ProbesOnlyLater ==
    ASSUME ReadinessTypeOK, EndedKept, NEW a \in BOOLEAN,
           probeEnded' = [probeEnded EXCEPT ![a] = instant]
    PROVE  /\ \A b \in BOOLEAN, t \in 0..MaxInstant :
                 ProbedSince(b, t, probeEnded) => ProbedSince(b, t, probeEnded')
           /\ \A t \in 0..MaxInstant : t <= instant => ProbedSince(a, t, probeEnded')
           /\ probeEnded' \in [BOOLEAN -> 0..Never]
<1>1. /\ instant \in Nat /\ instant <= MaxInstant /\ probeEnded'[a] = instant
      /\ \A b \in BOOLEAN : probeEnded[b] \in Nat /\ (b # a => probeEnded'[b] = probeEnded[b])
  BY InstantsAreNat DEF ReadinessTypeOK
<1>2. probeEnded' \in [BOOLEAN -> 0..Never]
  <2>1. instant \in 0..Never
    BY <1>1, InstantsAreNat
  <2> QED BY <2>1 DEF ReadinessTypeOK
<1>3. ASSUME NEW b \in BOOLEAN, NEW t \in 0..MaxInstant, ProbedSince(b, t, probeEnded)
      PROVE  ProbedSince(b, t, probeEnded')
  <2>1. CASE b # a
    BY <1>1, <1>3, <2>1 DEF ProbedSince
  <2>2. CASE b = a
    BY <1>1, <1>3, <2>2, InstantsAreNat DEF ProbedSince, EndedKept
  <2> QED BY <2>1, <2>2
<1>4. ASSUME NEW t \in 0..MaxInstant, t <= instant PROVE ProbedSince(a, t, probeEnded')
  BY <1>1, <1>4, InstantsAreNat DEF ProbedSince
<1> QED BY <1>2, <1>3, <1>4

\* A thread goes on.
LEMMA CheckMoves ==
    ASSUME ReadinessInv, NEW c \in Checkers, NEW r \in CheckReady,
           check' = [check EXCEPT ![c] = r], UNCHANGED <<instant, probeEnded>>,
           CheckKept(r, instant, probeEnded)
    PROVE  ChecksKept' /\ check' \in [Checkers -> CheckReady] /\ EndedKept'
BY DEF ReadinessInv, ReadinessTypeOK, ChecksKept, EndedKept

LEMMA ReadinessTickKeeps == ReadinessInv /\ ReadinessTick => ReadinessInv'
<1> SUFFICES ASSUME ReadinessInv, ReadinessTick PROVE ReadinessInv'
  OBVIOUS
<1>1. /\ instant \in Nat /\ instant' = instant + 1 /\ instant' \in 0..MaxInstant
      /\ UNCHANGED <<verdict, probed, check, probeEnded>>
  BY InstantsAreNat DEF ReadinessInv, ReadinessTypeOK, ReadinessTick
<1>2. ReadinessTypeOK' /\ ProbeKept' /\ VerdictKept'
  BY <1>1 DEF ReadinessInv, ReadinessTypeOK, ProbeKept, VerdictKept
<1>3. EndedKept'
  <2>1. \A a \in BOOLEAN : probeEnded[a] \in Nat
    BY InstantsAreNat DEF ReadinessInv, ReadinessTypeOK
  <2> QED BY <1>1, <2>1 DEF ReadinessInv, EndedKept
<1>4. ChecksKept'
  <2> SUFFICES ASSUME NEW c \in Checkers PROVE CheckKept(check[c], instant', probeEnded)
    BY <1>1 DEF ChecksKept
  <2>1. check[c].began \in Nat /\ CheckKept(check[c], instant, probeEnded)
    BY InstantsAreNat DEF ReadinessInv, ReadinessTypeOK, ChecksKept, CheckReady
  <2> QED BY <1>1, <2>1 DEF CheckKept
<1> QED BY <1>2, <1>3, <1>4 DEF ReadinessInv

\* The steps of a thread that leave what was probed and found as it is.
LEMMA CheckGoesOn ==
    ASSUME ReadinessInv, NEW c \in Checkers, AskReady(c) \/ AskHealth(c) \/ CachedHealth(c)
    PROVE  ReadinessInv'
<1>1. /\ UNCHANGED <<instant, verdict, probed, probeEnded>> /\ instant \in 0..MaxInstant
      /\ check \in [Checkers -> CheckReady]
  BY DEF ReadinessInv, ReadinessTypeOK, AskReady, AskHealth, CachedHealth
<1> PICK was \in CheckReady : was = check[c]
  BY <1>1
<1>2. /\ was.began \in 0..MaxInstant /\ was.began <= instant
      /\ CheckKept(was, instant, probeEnded)
  BY DEF ReadinessInv, ChecksKept, CheckKept, CheckReady
<1>3. ASSUME NEW r \in CheckReady, check' = [check EXCEPT ![c] = r],
             r.at # "verdict" /\ (r.began = instant \/ r.began = 0 \/ r.began = was.began)
      PROVE  ReadinessInv'
  <2>1. CheckKept(r, instant, probeEnded)
    BY <1>1, <1>2, <1>3, InstantsAreNat DEF CheckKept
  <2> QED BY <1>1, <1>3, <2>1, CheckMoves
         DEF ReadinessInv, ReadinessTypeOK, ProbeKept, VerdictKept
<1>4. NoCheck \in CheckReady /\ NoCheck.at # "verdict" /\ NoCheck.began = 0
  BY <1>1, InstantsAreNat DEF NoCheck, CheckReady
<1>5. CASE AskReady(c)
  <2> PICK r : r = [NoCheck EXCEPT !.at = "health", !.began = instant]
    OBVIOUS
  <2>1. r \in CheckReady /\ r.at # "verdict" /\ r.began = instant
    BY <1>1, <1>4 DEF CheckReady
  <2> QED BY <1>3, <1>5, <2>1 DEF AskReady
<1>6. CASE AskHealth(c)
  <2> PICK r : r = [NoCheck EXCEPT !.at = "health", !.ask = "health"]
    OBVIOUS
  <2>1. r \in CheckReady /\ r.at # "verdict" /\ r.began = 0
    BY <1>4 DEF CheckReady
  <2> QED BY <1>3, <1>6, <2>1 DEF AskHealth
<1>7. CASE CachedHealth(c) /\ ~ProbeHolds
  <2> PICK r : r = [was EXCEPT !.at = "probe"]
    OBVIOUS
  <2>1. r \in CheckReady /\ r.at # "verdict" /\ r.began = was.began
    BY DEF CheckReady
  <2> QED BY <1>3, <1>7, <2>1 DEF CachedHealth
<1>8. CASE CachedHealth(c) /\ ProbeHolds
  <2>1. /\ probed.available \in BOOLEAN /\ probed.expires \in Nat
        /\ probeEnded[probed.available] \in Nat /\ instant < probed.expires
    BY <1>8, InstantsAreNat DEF ReadinessInv, ReadinessTypeOK, ProbeHolds
  <2>2. ProbedSince(probed.available, was.began, probeEnded)
    BY <1>1, <1>2, <2>1, InstantsAreNat DEF ReadinessInv, ProbeKept, ProbedSince
  <2>3. CASE was.ask = "health"
    BY <1>3, <1>4, <1>8, <2>3 DEF CachedHealth, WithOutcome
  <2>4. CASE was.ask # "health"
    <3> PICK r : r = [was EXCEPT !.at = "verdict", !.available = probed.available]
      OBVIOUS
    <3>1. r \in CheckReady /\ r.began = was.began /\ r.available = probed.available
      BY <2>1 DEF CheckReady
    <3>2. check' = [check EXCEPT ![c] = r]
      BY <1>8, <2>4 DEF CachedHealth, WithOutcome
    <3>3. CheckKept(r, instant, probeEnded)
      BY <1>2, <2>2, <3>1 DEF CheckKept
    <3> QED BY <1>1, <3>1, <3>2, <3>3, CheckMoves
           DEF ReadinessInv, ReadinessTypeOK, ProbeKept, VerdictKept
  <2> QED BY <2>3, <2>4
<1> QED BY <1>5, <1>6, <1>7, <1>8

LEMMA ProbeKeeps ==
    ASSUME ReadinessInv, NEW c \in Checkers, NEW available \in BOOLEAN, Probe(c, available)
    PROVE  ReadinessInv'
<1>1. /\ UNCHANGED <<instant, verdict>> /\ instant \in 0..MaxInstant
      /\ probeEnded' = [probeEnded EXCEPT ![available] = instant]
      /\ probed' = [expires |-> instant + HealthTtl, available |-> available]
      /\ check \in [Checkers -> CheckReady] /\ check[c].at = "probe"
  BY DEF ReadinessInv, ReadinessTypeOK, Probe, ProbeExpiry
<1>2. /\ \A b \in BOOLEAN, t \in 0..MaxInstant :
           ProbedSince(b, t, probeEnded) => ProbedSince(b, t, probeEnded')
      /\ \A t \in 0..MaxInstant : t <= instant => ProbedSince(available, t, probeEnded')
      /\ probeEnded' \in [BOOLEAN -> 0..Never]
  BY <1>1, ProbesOnlyLater DEF ReadinessInv
<1>3. ASSUME NEW d \in Checkers
      PROVE  CheckKept(check'[d], instant', probeEnded') /\ check'[d] \in CheckReady
  <2> PICK was \in CheckReady : was = check[d]
    BY <1>1
  <2>1. /\ was.began \in 0..MaxInstant /\ was.began <= instant /\ was.available \in BOOLEAN
        /\ was.at = "verdict" => ProbedSince(was.available, was.began, probeEnded')
    BY <1>2 DEF ReadinessInv, ChecksKept, CheckKept, CheckReady
  <2>2. CASE d # c
    <3>1. check'[d] = was
      BY <2>2 DEF Probe, WithOutcome
    <3> QED BY <1>1, <2>1, <3>1 DEF CheckKept
  <2>3. CASE d = c /\ was.ask = "health"
    <3>1. check'[d] = NoCheck
      BY <1>1, <2>3 DEF Probe, WithOutcome
    <3>2. NoCheck \in CheckReady /\ NoCheck.began = 0 /\ NoCheck.at = "idle"
      BY InstantsAreNat DEF NoCheck, CheckReady
    <3> QED BY <1>1, <3>1, <3>2 DEF CheckKept
  <2>4. CASE d = c /\ was.ask # "health"
    <3> PICK r : r = [was EXCEPT !.at = "verdict", !.available = available]
      OBVIOUS
    <3>1. r \in CheckReady /\ r.began = was.began /\ r.available = available
      BY DEF CheckReady
    <3>2. check'[d] = r
      BY <1>1, <2>4 DEF Probe, WithOutcome
    <3>3. ProbedSince(r.available, r.began, probeEnded')
      BY <1>2, <2>1, <3>1
    <3> QED BY <1>1, <2>1, <3>1, <3>2, <3>3 DEF CheckKept
  <2> QED BY <2>2, <2>3, <2>4
<1>4. ChecksKept'
  BY <1>3 DEF ChecksKept
<1>5. EndedKept' /\ ProbeKept'
  <2>1. /\ probeEnded'[available] = instant /\ instant \in Nat /\ instant # Never
        /\ \A a \in BOOLEAN : a # available => probeEnded'[a] = probeEnded[a]
    BY <1>1, InstantsAreNat DEF ReadinessInv, ReadinessTypeOK
  <2>2. EndedKept'
    <3> SUFFICES ASSUME NEW a \in BOOLEAN PROVE probeEnded'[a] = Never \/ probeEnded'[a] <= instant
      BY <1>1 DEF EndedKept, Never
    <3> QED BY <2>1 DEF ReadinessInv, EndedKept
  <2>3. ProbeKept'
    <3>1. probed'.available = available /\ probed'.expires = instant + HealthTtl
      BY <1>1
    <3> QED BY <2>1, <3>1, InstantsAreNat DEF ProbeKept, Never
  <2> QED BY <2>2, <2>3
<1>6. VerdictKept'
  <2>1. /\ verdict.available \in BOOLEAN
        /\ verdict.since # Never => verdict.since \in 0..MaxInstant
    BY InstantsAreNat DEF ReadinessInv, ReadinessTypeOK
  <2> QED BY <1>1, <1>2, <2>1 DEF ReadinessInv, VerdictKept, Never
<1>7. ReadinessTypeOK'
  <2>1. probed' \in [expires : 0..(MaxInstant + HealthTtl), available : BOOLEAN]
    <3>1. instant + HealthTtl \in 0..(MaxInstant + HealthTtl)
      BY <1>1, InstantsAreNat
    <3> QED BY <1>1, <3>1
  <2>2. check' \in [Checkers -> CheckReady]
    <3>1. DOMAIN check' = Checkers /\ check' = [d \in Checkers |-> check'[d]]
      BY <1>1 DEF Probe, WithOutcome
    <3> QED BY <1>3, <3>1
  <2> QED BY <1>1, <1>2, <2>1, <2>2 DEF ReadinessInv, ReadinessTypeOK, Never
<1> QED BY <1>4, <1>5, <1>6, <1>7 DEF ReadinessInv

LEMMA StoreVerdictKeeps ==
    ASSUME ReadinessInv, NEW c \in Checkers, StoreVerdict(c)
    PROVE  ReadinessInv'
<1>1. /\ UNCHANGED <<instant, probed, probeEnded>> /\ instant \in 0..MaxInstant
      /\ check' = [check EXCEPT ![c] = NoCheck]
      /\ verdict' = [since |-> check[c].began, available |-> check[c].available]
      /\ check[c] \in CheckReady /\ check[c].at = "verdict"
  BY DEF ReadinessInv, ReadinessTypeOK, StoreVerdict, Since
<1>2. NoCheck \in CheckReady /\ CheckKept(NoCheck, instant, probeEnded)
  BY <1>1, InstantsAreNat DEF NoCheck, CheckReady, CheckKept
<1>3. ChecksKept' /\ check' \in [Checkers -> CheckReady] /\ EndedKept'
  BY <1>1, <1>2, CheckMoves
<1>4. verdict' \in [since : 0..Never, available : BOOLEAN]
  BY <1>1, InstantsAreNat DEF CheckReady
<1>5. VerdictKept'
  <2>1. ProbedSince(check[c].available, check[c].began, probeEnded)
    BY <1>1 DEF ReadinessInv, ChecksKept, CheckKept
  <2>2. verdict'.available = check[c].available /\ verdict'.since = check[c].began
    BY <1>1
  <2> QED BY <1>1, <2>1, <2>2 DEF VerdictKept
<1> QED BY <1>1, <1>3, <1>4, <1>5 DEF ReadinessInv, ReadinessTypeOK, ProbeKept, Never

LEMMA ReadinessInitInv == ReadinessInit => ReadinessInv
<1> SUFFICES ASSUME ReadinessInit PROVE ReadinessInv
  OBVIOUS
<1>1. NoCheck \in CheckReady /\ NoCheck.began = 0 /\ NoCheck.at = "idle"
  BY InstantsAreNat DEF NoCheck, CheckReady
<1>2. ReadinessTypeOK
  <2>1. /\ 0 \in 0..MaxInstant /\ Never \in 0..Never /\ 0 \in 0..(MaxInstant + HealthTtl)
    BY InstantsAreNat
  <2>2. FALSE \in BOOLEAN
    OBVIOUS
  <2> QED BY <1>1, <2>1, <2>2 DEF ReadinessInit, ReadinessTypeOK, NoVerdict, NoProbe
<1>3. EndedKept /\ ProbeKept /\ VerdictKept
  <2>1. \A a \in BOOLEAN : probeEnded[a] = Never
    BY DEF ReadinessInit
  <2> QED BY <2>1 DEF ReadinessInit, EndedKept, ProbeKept, VerdictKept, NoVerdict, NoProbe
<1>4. ChecksKept
  BY <1>1 DEF ReadinessInit, ChecksKept, CheckKept
<1> QED BY <1>2, <1>3, <1>4 DEF ReadinessInv

LEMMA ReadinessNextInv == ReadinessInv /\ [ReadinessNext]_readinessVars => ReadinessInv'
<1> SUFFICES ASSUME ReadinessInv, [ReadinessNext]_readinessVars PROVE ReadinessInv'
  OBVIOUS
<1>1. CASE UNCHANGED readinessVars
  BY <1>1 DEF readinessVars, ReadinessInv, ReadinessTypeOK, EndedKept, ProbeKept, VerdictKept,
              ChecksKept
<1>2. CASE ReadinessNext
  BY <1>2, ReadinessTickKeeps, CheckGoesOn, ProbeKeeps, StoreVerdictKeeps DEF ReadinessNext
<1> QED BY <1>1, <1>2

LEMMA ReadinessInvRecent == ReadinessInv => ReadinessRecent
<1> SUFFICES ASSUME ReadinessInv, VerdictHolds
             PROVE  /\ probeEnded[verdict.available] # Never
                    /\ instant < probeEnded[verdict.available] + ReadyTtl + HealthTtl
  BY DEF ReadinessRecent
<1>1. /\ verdict.since \in Nat /\ instant \in Nat /\ instant < verdict.since + ReadyTtl
      /\ ProbedSince(verdict.available, verdict.since, probeEnded)
  BY InstantsAreNat DEF ReadinessInv, ReadinessTypeOK, VerdictHolds, VerdictKept
<1> QED BY <1>1, InstantsAreNat DEF ProbedSince

\* readiness.py and provider.py: a verdict that is given out was the outcome of a probe that
\* ended less than both lifetimes ago, for any lifetimes and number of threads.
THEOREM ReadinessCorrect == ReadinessSpec => [](ReadinessTypeOK /\ ReadinessRecent)
<1>1. ReadinessInv => ReadinessTypeOK /\ ReadinessRecent
  BY ReadinessInvRecent DEF ReadinessInv
<1> QED BY <1>1, ReadinessInitInv, ReadinessNextInv, PTL DEF ReadinessSpec

-----------------------------------------------------------------------------
(***************************************************************************)
(* ProductReports                                                          *)
(***************************************************************************)
\* The engines that have committed when a run of the wizard is at pc.
DerivedBefore(pc, d) ==
    /\ pc \notin {"run", "recommendations"} => "recommendations" \in d
    /\ pc \notin {"run", "recommendations", "graph"} => "graph" \in d
    /\ pc \notin {"run", "recommendations", "graph", "analytics"} => "analytics" \in d
    /\ pc \notin {"run", "recommendations", "graph", "analytics", "benchmark"} => "benchmark" \in d
    /\ pc \notin {"run", "recommendations", "graph", "analytics", "benchmark", "insights"} =>
           "insights" \in d
    /\ pc \notin {"run", "recommendations", "graph", "analytics", "benchmark", "insights",
                  "trend", "build"} => "trend" \in d
    /\ pc \notin {"run", "recommendations", "graph", "analytics", "benchmark", "insights",
                  "trend", "build", "advice"} => "advice" \in d

ProductHonest(p) ==
    /\ product[p].status = "COMPLETED" => product[p].ran
    /\ product[p].ready > 0 =>
           product[p].ready = 1 /\ product[p].derived = Derived /\ product[p].change
    /\ product[p].meta = "artifacts" => product[p].derived = Derived
    /\ product[p].previous # 0 => product[p].previous < p /\ product[product[p].previous].ran
    /\ product[p].moved => \E j \in 1..(p - 1) : Far(p, j)

Requesting == ProductRequest \cup Comparing
Whole(r) == r # NoProductRequest /\ r.whole

\* What a request that compares has found is so: products that completed stay so, and
\* scores that were far from each other do not change.
FoundHolds(r) ==
    /\ r.previous # 0 => r.previous < r.id /\ product[r.previous].ran
    /\ r.far => r.previous # 0 /\ Far(r.id, r.previous)

ProductStands(r) ==
    r # NoProductRequest =>
        /\ r \in Requesting /\ r.id \in DOMAIN product
        /\ r.pc \notin {"compare", "save"} => r.whole
        /\ r.whole => product[r.id].ready = 0 /\ DerivedBefore(r.pc, product[r.id].derived)
        /\ r.pc = "run" => product[r.id].score = 0
        /\ r.pc \in {"moved", "ready"} => product[r.id].change
        /\ r.pc \in {"save", "moved"} => FoundHolds(r)
        /\ r.pc = "moved" => r.far

WholeAlone ==
    \A q, d \in ProductRequests :
        q # d /\ Whole(prodReq[q]) /\ Whole(prodReq[d]) => prodReq[q].id # prodReq[d].id

TableKept ==
    /\ product \in Seq(Product) /\ Len(product) <= MaxProducts
    /\ series \in BOOLEAN
    /\ \A p \in DOMAIN product : ProductHonest(p)

WizardsKept ==
    /\ prodReq \in [ProductRequests -> {NoProductRequest} \cup Requesting]
    /\ \A q \in ProductRequests : ProductStands(prodReq[q])
    /\ WholeAlone

ProductsInv == TableKept /\ WizardsKept

\* A row only gains: what was derived, that it completed, a score, a comparison.
ProductGrows(a, b) ==
    /\ a.derived \subseteq b.derived
    /\ a.ran => b.ran
    /\ a.score > 0 => b.score = a.score
    /\ a.change => b.change

ProductsGrow ==
    /\ Len(product) <= Len(product')
    /\ \A p \in DOMAIN product : ProductGrows(product[p], product'[p])

LEMMA ProductNats ==
    /\ MaxProducts \in Nat /\ MaxScore \in Nat /\ Significant \in Nat \ {0}
BY ProductAssumption DEF ProductAssumption

LEMMA EnginesFollow ==
    /\ Following("recommendations") = "graph" /\ Following("graph") = "analytics"
    /\ Following("analytics") = "benchmark" /\ Following("benchmark") = "insights"
    /\ Following("insights") = "trend" /\ Following("trend") = "advice"
    /\ Following("advice") = "artifacts"
<1>1. /\ DOMAIN Engines = 1..7 /\ Len(Engines) = 7
      /\ Engines[1] = "recommendations" /\ Engines[2] = "graph" /\ Engines[3] = "analytics"
      /\ Engines[4] = "benchmark" /\ Engines[5] = "insights" /\ Engines[6] = "trend"
      /\ Engines[7] = "advice"
  BY DEF Engines
<1>2. ASSUME NEW i \in 1..7, NEW j \in 1..7, Engines[i] = Engines[j] PROVE i = j
  BY <1>1, <1>2
<1>3. ASSUME NEW i \in 1..7
      PROVE  Following(Engines[i]) = IF i < 7 THEN Engines[i + 1] ELSE "artifacts"
  <2> DEFINE k == CHOOSE j \in DOMAIN Engines : Engines[j] = Engines[i]
  <2>1. k \in DOMAIN Engines /\ Engines[k] = Engines[i]
    BY <1>1
  <2>2. k = i
    BY <1>1, <1>2, <2>1
  <2> QED BY <1>1, <2>2 DEF Following
<1> QED BY <1>1, <1>3

LEMMA DerivedIs ==
    Derived = {"recommendations", "graph", "analytics", "benchmark", "insights", "trend", "advice"}
<1>1. /\ DOMAIN Engines = 1..7
      /\ Engines[1] = "recommendations" /\ Engines[2] = "graph" /\ Engines[3] = "analytics"
      /\ Engines[4] = "benchmark" /\ Engines[5] = "insights" /\ Engines[6] = "trend"
      /\ Engines[7] = "advice"
  BY DEF Engines
<1>2. 1..7 = {1, 2, 3, 4, 5, 6, 7}
  OBVIOUS
<1> QED BY <1>1, <1>2 DEF Derived

\* When the answers are stored every engine has committed.
LEMMA AllDerived ==
    ASSUME NEW pc \in {"artifacts", "compare", "save", "moved", "ready"}, NEW d \in SUBSET Derived,
           DerivedBefore(pc, d)
    PROVE  d = Derived
BY DerivedIs DEF DerivedBefore

LEMMA ProductsMean == ProductsInv => ProductsTypeOK /\ ReportHonest
BY DEF ProductsInv, TableKept, WizardsKept, ProductsTypeOK, ReportHonest, ProductHonest, Requesting

LEMMA FarStays ==
    ASSUME ProductsGrow, product \in Seq(Product), NEW p \in DOMAIN product, NEW j \in DOMAIN product,
           Far(p, j)
    PROVE  Far(p, j)'
<1>1. product'[p].score = product[p].score /\ product'[j].score = product[j].score
  BY DEF ProductsGrow, ProductGrows, Far
<1> QED BY <1>1 DEF Far, Distance

LEMMA ProductRows ==
    ASSUME product \in Seq(Product)
    PROVE  /\ DOMAIN product = 1..Len(product) /\ Len(product) \in Nat
           /\ \A p \in DOMAIN product : product[p] \in Product /\ p \in Nat
BY ElementOfSeq


LEMMA FoundStays ==
    ASSUME ProductsGrow, product \in Seq(Product), NEW r \in Comparing, r.id \in DOMAIN product,
           FoundHolds(r)
    PROVE  FoundHolds(r)'
<1>1. r.previous \in Nat /\ r.id \in Nat /\ DOMAIN product = 1..Len(product) /\ Len(product) \in Nat
  BY ProductNats DEF Comparing, ProductIds
<1>2. r.previous # 0 => r.previous \in DOMAIN product
  BY <1>1 DEF FoundHolds
<1>3. r.previous # 0 => r.previous < r.id /\ product'[r.previous].ran
  BY <1>2 DEF FoundHolds, ProductsGrow, ProductGrows
<1>4. r.far => r.previous # 0 /\ Far(r.id, r.previous)'
  BY <1>2, FarStays DEF FoundHolds
<1> QED BY <1>3, <1>4 DEF FoundHolds

\* What a request remembers survives whatever only adds to the rows.
LEMMA StandsStays ==
    ASSUME ProductsGrow, product \in Seq(Product), product' \in Seq(Product),
           NEW r, ProductStands(r),
           r # NoProductRequest /\ r.whole => product'[r.id].ready = product[r.id].ready,
           r # NoProductRequest /\ r.pc = "run" => product'[r.id].score = product[r.id].score
    PROVE  ProductStands(r)'
<1> SUFFICES ASSUME r # NoProductRequest
             PROVE  /\ r \in Requesting /\ r.id \in DOMAIN product'
                    /\ r.pc \notin {"compare", "save"} => r.whole
                    /\ r.whole => product'[r.id].ready = 0 /\ DerivedBefore(r.pc, product'[r.id].derived)
                    /\ r.pc = "run" => product'[r.id].score = 0
                    /\ r.pc \in {"moved", "ready"} => product'[r.id].change
                    /\ r.pc \in {"save", "moved"} => FoundHolds(r)'
                    /\ r.pc = "moved" => r.far
  BY DEF ProductStands
<1>1. /\ r \in Requesting /\ r.id \in DOMAIN product
      /\ r.pc \notin {"compare", "save"} => r.whole
      /\ r.whole => product[r.id].ready = 0 /\ DerivedBefore(r.pc, product[r.id].derived)
      /\ r.pc = "run" => product[r.id].score = 0
      /\ r.pc \in {"moved", "ready"} => product[r.id].change
      /\ r.pc \in {"save", "moved"} => FoundHolds(r)
      /\ r.pc = "moved" => r.far
  BY DEF ProductStands
<1>2. /\ DOMAIN product = 1..Len(product) /\ DOMAIN product' = 1..Len(product')
      /\ Len(product) \in Nat /\ Len(product') \in Nat /\ Len(product) <= Len(product')
  BY DEF ProductsGrow
<1>3. r.id \in DOMAIN product' /\ ProductGrows(product[r.id], product'[r.id])
  BY <1>1, <1>2 DEF ProductsGrow
<1>4. ASSUME r.whole PROVE DerivedBefore(r.pc, product'[r.id].derived)
  BY <1>1, <1>3, <1>4 DEF ProductGrows, DerivedBefore
<1>5. r.pc \in {"save", "moved"} => FoundHolds(r)'
  <2>1. r.pc \in {"save", "moved"} => r \in Comparing
    BY <1>1, DerivedIs DEF Requesting, Comparing, ProductRequest
  <2> QED BY <1>1, <2>1, FoundStays
<1> QED BY <1>1, <1>3, <1>4, <1>5 DEF ProductGrows

\* A row is written that only gains and is as honest as before.
RowSound(row, p) ==
    /\ row \in Product
    /\ row.status = "COMPLETED" => row.ran
    /\ row.ready > 0 => row.ready = 1 /\ row.derived = Derived /\ row.change
    /\ row.meta = "artifacts" => row.derived = Derived
    /\ row.previous # 0 => row.previous < p /\ product[row.previous].ran
    /\ row.moved => \E j \in 1..(p - 1) : Far(p, j)

RowWritten(p, row) ==
    /\ p \in DOMAIN product /\ RowSound(row, p) /\ ProductGrows(product[p], row)
    /\ product' = [product EXCEPT ![p] = row]

LEMMA RowIsWritten ==
    ASSUME TableKept, series' \in BOOLEAN, NEW p, NEW row, RowWritten(p, row)
    PROVE  /\ TableKept' /\ ProductsGrow /\ Len(product') = Len(product)
           /\ product'[p] = row /\ \A n \in DOMAIN product : n # p => product'[n] = product[n]
<1>1. /\ DOMAIN product = 1..Len(product) /\ Len(product) \in Nat /\ product \in Seq(Product)
      /\ \A n \in DOMAIN product : product[n] \in Product /\ n \in Nat
  BY ProductRows DEF TableKept
<1>2. row \in Product /\ p \in 1..Len(product)
  BY <1>1 DEF RowWritten, RowSound
<1>3. /\ product' \in Seq(Product) /\ Len(product') = Len(product)
      /\ \A n \in 1..Len(product) : product'[n] = IF n = p THEN row ELSE product[n]
  BY <1>1, <1>2, ExceptSeq DEF RowWritten
<1>4. ProductsGrow
  <2> SUFFICES ASSUME NEW n \in DOMAIN product PROVE ProductGrows(product[n], product'[n])
    BY <1>1, <1>3 DEF ProductsGrow
  <2>1. CASE n = p
    BY <1>1, <1>3, <2>1 DEF RowWritten
  <2>2. CASE n # p
    BY <1>1, <1>3, <2>2 DEF ProductGrows
  <2> QED BY <2>1, <2>2
<1>5. DOMAIN product' = DOMAIN product
  BY <1>1, <1>3
<1>6. ASSUME NEW n \in DOMAIN product PROVE ProductHonest(n)'
  <2> PICK new : new = product'[n]
    OBVIOUS
  <2>1. RowSound(new, n)
    <3>1. CASE n = p
      BY <1>1, <1>3, <3>1 DEF RowWritten
    <3>2. CASE n # p
      BY <1>1, <1>3, <3>2 DEF RowSound, TableKept, ProductHonest
    <3> QED BY <3>1, <3>2
  <2>2. new.previous # 0 => new.previous < n /\ product'[new.previous].ran
    <3> SUFFICES ASSUME new.previous # 0 PROVE new.previous < n /\ product'[new.previous].ran
      OBVIOUS
    <3>1. new.previous < n /\ product[new.previous].ran /\ new.previous \in Nat
      BY <2>1, ProductNats DEF RowSound, Product
    <3>2. new.previous \in DOMAIN product
      BY <1>1, <3>1
    <3> QED BY <1>4, <3>1, <3>2 DEF ProductsGrow, ProductGrows
  <2>3. new.moved => \E j \in 1..(n - 1) : Far(n, j)'
    <3> SUFFICES ASSUME new.moved PROVE \E j \in 1..(n - 1) : Far(n, j)'
      OBVIOUS
    <3> PICK j \in 1..(n - 1) : Far(n, j)
      BY <2>1 DEF RowSound
    <3>1. j \in DOMAIN product
      BY <1>1
    <3> QED BY <1>1, <1>4, <3>1, FarStays
  <2> QED BY <2>1, <2>2, <2>3 DEF ProductHonest, RowSound
<1>7. TableKept'
  BY <1>3, <1>5, <1>6 DEF TableKept
<1> QED BY <1>1, <1>2, <1>3, <1>4, <1>7

\* A request goes on and writes at most a row that is its own.
ReadyKept(n) == product'[n].ready = product[n].ready /\ product'[n].score = product[n].score

LEMMA WizardMoves ==
    ASSUME ProductsInv, TableKept', ProductsGrow, NEW q \in ProductRequests, NEW s,
           ProductTo(q, s), ProductStands(s)', NEW r, r = prodReq[q],
           Whole(s) => (Whole(r) /\ s.id = r.id) \/ s.id \notin DOMAIN product,
           \A n \in DOMAIN product : ReadyKept(n) \/ (Whole(r) /\ n = r.id)
    PROVE  ProductsInv'
<1>1. /\ prodReq \in [ProductRequests -> {NoProductRequest} \cup Requesting]
      /\ prodReq' = [prodReq EXCEPT ![q] = s]
      /\ product \in Seq(Product) /\ product' \in Seq(Product)
      /\ s \in {NoProductRequest} \cup Requesting
  BY DEF ProductsInv, WizardsKept, TableKept, ProductTo, ProductStands
<1>2. prodReq' \in [ProductRequests -> {NoProductRequest} \cup Requesting]
  BY <1>1
<1>3. ASSUME NEW d \in ProductRequests PROVE ProductStands(prodReq[d])' 
  <2>1. CASE d = q
    BY <1>1, <2>1
  <2>2. CASE d # q
    <3> PICK t : t = prodReq[d]
      OBVIOUS
    <3>1. prodReq'[d] = t /\ ProductStands(t)
      BY <1>1, <2>2 DEF ProductsInv, WizardsKept
    <3>2. Whole(t) /\ Whole(r) => t.id # r.id
      BY <2>2 DEF ProductsInv, WizardsKept, WholeAlone
    <3>3. Whole(t) => ReadyKept(t.id)
      BY <3>1, <3>2 DEF ProductStands, Whole
    <3>4. t # NoProductRequest /\ t.pc = "run" => t.whole
      BY <3>1 DEF ProductStands
    <3>5. ProductStands(t)'
      BY <1>1, <3>1, <3>3, <3>4, StandsStays DEF Whole, ReadyKept
    <3> QED BY <3>1, <3>5
  <2> QED BY <2>1, <2>2
<1>4. WholeAlone'
  <2> SUFFICES ASSUME NEW c \in ProductRequests, NEW d \in ProductRequests, c # d,
                      Whole(prodReq'[c]), Whole(prodReq'[d])
               PROVE  prodReq'[c].id # prodReq'[d].id
    BY DEF WholeAlone
  <2>1. ASSUME NEW e \in ProductRequests, e # q, Whole(s), Whole(prodReq[e]) PROVE prodReq[e].id # s.id
    BY <2>1 DEF ProductsInv, WizardsKept, WholeAlone, ProductStands, Whole
  <2>2. \A e \in ProductRequests : prodReq'[e] = IF e = q THEN s ELSE prodReq[e]
    BY <1>1
  <2>3. CASE c = q
    BY <2>1, <2>2, <2>3
  <2>4. CASE d = q
    BY <2>1, <2>2, <2>4
  <2>5. CASE c # q /\ d # q
    BY <2>2, <2>5 DEF ProductsInv, WizardsKept, WholeAlone
  <2> QED BY <2>3, <2>4, <2>5
<1> QED BY <1>2, <1>3, <1>4 DEF ProductsInv, WizardsKept

LEMMA TableRests ==
    ASSUME TableKept, UNCHANGED product, series' \in BOOLEAN
    PROVE  /\ TableKept' /\ ProductsGrow /\ \A n \in DOMAIN product : ReadyKept(n)
           /\ \A r : ProductStands(r) => ProductStands(r)'
<1>1. TableKept' /\ \A n \in DOMAIN product : ReadyKept(n)
  BY DEF TableKept, ProductHonest, Far, ReadyKept
<1>2. ProductsGrow
  BY ProductRows DEF TableKept, ProductsGrow, ProductGrows
<1>3. ASSUME NEW r, ProductStands(r) PROVE ProductStands(r)'
  BY <1>3 DEF ProductStands, FoundHolds, Far
<1> QED BY <1>1, <1>2, <1>3

\* A request ends without having written.
LEMMA WizardOver ==
    ASSUME ProductsInv, NEW q \in ProductRequests, ProductOver(q), UNCHANGED product, series' \in BOOLEAN
    PROVE  ProductsInv'
<1> PICK s : s = NoProductRequest
  OBVIOUS
<1>1. ProductStands(s)' /\ ~Whole(s) /\ ProductTo(q, s)
  BY DEF ProductStands, Whole, ProductOver
<1>2. TableKept' /\ ProductsGrow /\ \A n \in DOMAIN product : ReadyKept(n)
  BY TableRests DEF ProductsInv
<1> QED BY <1>1, <1>2, WizardMoves
\* A set of numbers up to n that is not empty has a greatest.
LEMMA GreatestOf ==
    ASSUME NEW n \in Nat, NEW S \in SUBSET (1..n), S # {}
    PROVE  \E j \in S : \A k \in S : k <= j
<1> PICK T \in SUBSET Nat : T = {m \in Nat : \A k \in S : k <= m}
  OBVIOUS
<1>1. n \in T
  OBVIOUS
<1>2. PICK m \in T : \A k \in T : m <= k
  BY <1>1, NatLeast
<1>3. PICK e \in S : TRUE
  OBVIOUS
<1>4. CASE m \in S
  BY <1>4
<1>5. CASE m \notin S
  <2>1. m \in Nat /\ \A k \in S : k \in Nat /\ k <= m /\ k # m
    BY <1>5
  <2>2. m - 1 \in Nat
    BY <1>3, <2>1
  <2>3. \A k \in S : k <= m - 1
    BY <2>1
  <2>4. m - 1 \in T
    BY <2>2, <2>3
  <2> QED BY <1>2, <2>1, <2>4
<1> QED BY <1>4, <1>5

-----------------------------------------------------------------------------
\* What holds of a request in progress and of the row it is about.
LEMMA WizardAt ==
    ASSUME ProductsInv, NEW q \in ProductRequests, prodReq[q].pc # "idle"
    PROVE  /\ prodReq[q] # NoProductRequest /\ ProductStands(prodReq[q])
           /\ prodReq[q] \in Requesting /\ prodReq[q].id \in DOMAIN product
           /\ prodReq[q].id \in ProductIds /\ prodReq[q].whole \in BOOLEAN /\ prodReq[q].row \in BOOLEAN
           /\ prodReq[q].pc \in {"save", "moved"} => prodReq[q] \in Comparing
           /\ prodReq[q].pc \notin {"save", "moved"} => prodReq[q] \in ProductRequest
           /\ product[prodReq[q].id] \in Product
           /\ RowSound(product[prodReq[q].id], prodReq[q].id)
<1> PICK r : r = prodReq[q]
  OBVIOUS
<1>1. r # NoProductRequest /\ ProductStands(r) /\ r \in Requesting /\ r.id \in DOMAIN product
  BY DEF NoProductRequest, ProductsInv, WizardsKept, ProductStands
<1>2. /\ r.id \in ProductIds /\ r.whole \in BOOLEAN /\ r.row \in BOOLEAN
      /\ r.pc \in {"save", "moved"} => r \in Comparing
      /\ r.pc \notin {"save", "moved"} => r \in ProductRequest
  BY <1>1, DerivedIs DEF Requesting, ProductRequest, Comparing
<1>3. product[r.id] \in Product /\ ProductHonest(r.id)
  BY <1>1, ProductRows DEF ProductsInv, TableKept
<1> QED BY <1>1, <1>2, <1>3 DEF ProductHonest, RowSound

\* A request s stands on the row of its research, as it is written.
StandsOn(s, row) ==
    s # NoProductRequest =>
        /\ s \in Requesting
        /\ s.pc \notin {"compare", "save"} => s.whole
        /\ s.whole => row.ready = 0 /\ DerivedBefore(s.pc, row.derived)
        /\ s.pc # "run"
        /\ s.pc \in {"moved", "ready"} => row.change
        /\ s.pc \in {"save", "moved"} => s \in Comparing /\ FoundHolds(s)
        /\ s.pc = "moved" => s.far

LEMMA WizardWrites ==
    ASSUME ProductsInv, series' \in BOOLEAN, NEW q \in ProductRequests, prodReq[q].pc # "idle",
           NEW r, r = prodReq[q], NEW row, RowWritten(r.id, row),
           r.whole \/ (row.ready = product[r.id].ready /\ row.score = product[r.id].score),
           NEW s, ProductTo(q, s), StandsOn(s, row),
           s # NoProductRequest => s.id = r.id /\ (s.whole => r.whole)
    PROVE  ProductsInv'
<1>1. /\ TableKept' /\ ProductsGrow /\ Len(product') = Len(product)
      /\ product'[r.id] = row /\ \A n \in DOMAIN product : n # r.id => product'[n] = product[n]
  BY RowIsWritten DEF ProductsInv
<1>2. r # NoProductRequest /\ r.id \in DOMAIN product
  BY WizardAt
<1>3. product \in Seq(Product) /\ product' \in Seq(Product) /\ DOMAIN product' = DOMAIN product
  BY <1>1 DEF ProductsInv, TableKept
<1>4. ProductStands(s)'
  <2>1. s # NoProductRequest /\ s.pc \in {"save", "moved"} => FoundHolds(s)'
    BY <1>1, <1>2, <1>3, FoundStays DEF StandsOn
  <2> QED BY <1>1, <1>2, <1>3, <2>1 DEF StandsOn, ProductStands
<1>5. ASSUME NEW n \in DOMAIN product PROVE ReadyKept(n) \/ (Whole(r) /\ n = r.id)
  BY <1>1, <1>2 DEF ReadyKept, Whole
<1>6. Whole(s) => Whole(r) /\ s.id = r.id
  BY <1>2 DEF Whole
<1> QED BY <1>1, <1>4, <1>5, <1>6, WizardMoves

\* A request of the wizard goes on without having written a row.
LEMMA WizardReads ==
    ASSUME ProductsInv, UNCHANGED product, series' \in BOOLEAN, NEW q \in ProductRequests,
           NEW s, ProductTo(q, s), ProductStands(s),
           Whole(s) => Whole(prodReq[q]) /\ s.id = prodReq[q].id
    PROVE  ProductsInv'
<1> PICK r : r = prodReq[q]
  OBVIOUS
<1>1. /\ TableKept' /\ ProductsGrow /\ \A n \in DOMAIN product : ReadyKept(n)
      /\ ProductStands(s)'
  BY TableRests DEF ProductsInv
<1> QED BY <1>1, WizardMoves

LEMMA CreateProductKeeps ==
    ASSUME ProductsInv, NEW q \in ProductRequests, CreateProduct(q)
    PROVE  ProductsInv'
<1> PICK new : new = [status |-> "ACTIVE", ran |-> FALSE, score |-> 0,
                      meta |-> "own", derived |-> {}, change |-> FALSE, previous |-> 0,
                      ready |-> 0, moved |-> FALSE]
  OBVIOUS
<1> PICK r : r = prodReq[q]
  OBVIOUS
<1>1. new \in Product
  BY ProductNats DEF Product
<1>2. /\ product \in Seq(Product) /\ DOMAIN product = 1..Len(product) /\ Len(product) \in Nat
      /\ \A p \in DOMAIN product : product[p] \in Product /\ ProductHonest(p)
  BY ProductRows DEF ProductsInv, TableKept
<1>3. /\ product' \in Seq(Product) /\ Len(product') = Len(product) + 1
      /\ \A p \in 1..Len(product) : product'[p] = product[p]
      /\ product'[Len(product) + 1] = new
      /\ Len(product') <= MaxProducts
  <2>1. product' = Append(product, new) /\ Len(product) < MaxProducts
    BY DEF CreateProduct
  <2> QED BY <1>1, <1>2, <2>1, AppendProperties, ProductNats
<1>4. DOMAIN product' = 1..(Len(product) + 1)
  BY <1>3
<1>5. ProductsGrow
  BY <1>2, <1>3 DEF ProductsGrow, ProductGrows
<1>6. ASSUME NEW p \in DOMAIN product' PROVE ProductHonest(p)'
  <2>1. CASE p = Len(product) + 1
    BY <1>3, <2>1 DEF ProductHonest
  <2>2. CASE p # Len(product) + 1
    <3>1. p \in DOMAIN product /\ product'[p] = product[p]
      BY <1>2, <1>3, <1>4, <2>2
    <3>2. product[p].previous # 0 => product'[product[p].previous].ran
      <4>1. product[p].previous # 0 => product[p].previous \in DOMAIN product
        BY <1>2, <3>1, ProductNats DEF ProductHonest, Product
      <4> QED BY <1>2, <1>3, <3>1, <4>1 DEF ProductHonest
    <3>3. ASSUME product[p].moved PROVE \E j \in 1..(p - 1) : Far(p, j)'
      <4> PICK j \in 1..(p - 1) : Far(p, j)
        BY <1>2, <3>1, <3>3 DEF ProductHonest
      <4>1. j \in DOMAIN product
        BY <1>2, <3>1
      <4> QED BY <1>2, <1>5, <3>1, <4>1, FarStays
    <3> QED BY <1>2, <3>1, <3>2, <3>3 DEF ProductHonest
  <2> QED BY <2>1, <2>2
<1>7. TableKept'
  BY <1>3, <1>6 DEF TableKept, ProductsInv, CreateProduct
<1> PICK s : s = [pc |-> "run", id |-> Len(product) + 1, whole |-> TRUE, row |-> FALSE]
  OBVIOUS
<1>8. ProductTo(q, s)
  <2>1. Len(product') = Len(product) + 1
    BY <1>3
  <2> QED BY <2>1 DEF CreateProduct
<1>9. ProductStands(s)'
  <2>1. s \in ProductRequest
    BY <1>2, <1>3, ProductNats DEF ProductRequest, ProductIds
  <2>2. s.id \in DOMAIN product' /\ product'[s.id] = new
    BY <1>2, <1>3, <1>4
  <2> QED BY <2>1, <2>2 DEF ProductStands, Requesting, DerivedBefore
<1>10. \A n \in DOMAIN product : ReadyKept(n)
  BY <1>2, <1>3 DEF ReadyKept
<1>11. s.id \notin DOMAIN product
  BY <1>2
<1> QED BY <1>5, <1>7, <1>8, <1>9, <1>10, <1>11, WizardMoves

LEMMA RunProductKeeps ==
    ASSUME ProductsInv, NEW q \in ProductRequests, NEW status \in {"COMPLETED", "FAILED"},
           NEW score \in 0..MaxScore, RunProduct(q, status, score)
    PROVE  ProductsInv'
<1> PICK r : r = prodReq[q]
  OBVIOUS
<1> PICK w : w = product[r.id]
  OBVIOUS
<1>1. /\ r.pc = "run" /\ ProductStands(r) /\ r \in ProductRequest /\ r # NoProductRequest
      /\ r.id \in DOMAIN product /\ w \in Product /\ RowSound(w, r.id)
  BY WizardAt DEF RunProduct
<1>2. r.whole /\ w.ready = 0 /\ w.score = 0
  BY <1>1 DEF ProductStands
<1> PICK row : row = [WithStatus(w, status) EXCEPT !.score = score]
  OBVIOUS
<1>3. WithStatus(w, status) \in Product
  BY <1>1 DEF WithStatus, Product
<1>4. row \in Product
  BY <1>3 DEF Product
<1>5. /\ row.status = status /\ row.score = score /\ row.meta = w.meta
      /\ row.derived = w.derived /\ row.change = w.change /\ row.previous = w.previous
      /\ row.ready = w.ready /\ row.moved = w.moved
      /\ (w.ran \/ status = "COMPLETED") => row.ran
  BY <1>1 DEF Product, WithStatus
<1>6. RowWritten(r.id, row)
  <2>1. RowSound(row, r.id)
    BY <1>1, <1>4, <1>5 DEF RowSound
  <2>2. ProductGrows(w, row)
    <3>1. w.ran => row.ran
      BY <1>5
    <3>2. ~(w.score > 0) /\ w.derived \subseteq row.derived /\ (w.change => row.change)
      BY <1>2, <1>5
    <3> QED BY <3>1, <3>2 DEF ProductGrows
  <2>3. product' = [product EXCEPT ![r.id] = row]
    BY DEF RunProduct
  <2> QED BY <1>1, <2>1, <2>2, <2>3 DEF RowWritten
<1> PICK s : s = [pc |-> "recommendations", id |-> r.id, whole |-> r.whole, row |-> FALSE]
  OBVIOUS
<1>7. ProductTo(q, s) /\ series' = series
  BY DEF RunProduct, Onto
<1>8. s \in ProductRequest
  BY <1>1, DerivedIs DEF ProductRequest
<1>9. StandsOn(s, row)
  BY <1>2, <1>5, <1>8 DEF StandsOn, Requesting, DerivedBefore
<1> QED BY <1>1, <1>2, <1>6, <1>7, <1>9, WizardWrites DEF ProductsInv, TableKept

\* An engine commits what it derived, and the next one follows.
LEMMA DerivesKeeps ==
    ASSUME ProductsInv, series' \in BOOLEAN, NEW q \in ProductRequests, NEW r, r = prodReq[q],
           r.pc \in Derived \cup {"build"}, NEW engine \in Derived, Derives(q, engine),
           NEW next \in (Derived \ {"recommendations"}) \cup {"artifacts"}, next = Following(engine),
           \A d : DerivedBefore(r.pc, d) => DerivedBefore(next, d \cup {engine})
    PROVE  ProductsInv'
<1> PICK w : w = product[r.id]
  OBVIOUS
<1>1. /\ ProductStands(r) /\ r \in ProductRequest /\ r # NoProductRequest /\ r.pc # "idle"
      /\ r.id \in DOMAIN product /\ w \in Product /\ RowSound(w, r.id)
  <2>1. r.pc \notin {"idle", "save", "moved"}
    BY DerivedIs
  <2> QED BY <2>1, WizardAt
<1>2. r.whole /\ w.ready = 0 /\ DerivedBefore(r.pc, w.derived)
  BY <1>1, DerivedIs DEF ProductStands
<1> PICK row : row = [w EXCEPT !.derived = w.derived \cup {engine}]
  OBVIOUS
<1>3. row \in Product
  BY <1>1 DEF Product
<1>4. /\ row.status = w.status /\ row.ran = w.ran /\ row.score = w.score /\ row.meta = w.meta
      /\ row.derived = w.derived \cup {engine} /\ row.change = w.change
      /\ row.previous = w.previous /\ row.ready = w.ready /\ row.moved = w.moved
  BY <1>1 DEF Product
<1>5. row.derived \subseteq Derived /\ w.derived \subseteq row.derived
  BY <1>1, <1>4 DEF Product
<1>6. RowWritten(r.id, row)
  <2>1. RowSound(row, r.id)
    BY <1>1, <1>3, <1>4, <1>5 DEF RowSound
  <2>2. ProductGrows(w, row)
    BY <1>4, <1>5 DEF ProductGrows
  <2>3. product' = [product EXCEPT ![r.id] = row]
    BY DEF Derives
  <2> QED BY <1>1, <2>1, <2>2, <2>3 DEF RowWritten
<1> PICK s : s = [pc |-> next, id |-> r.id, whole |-> r.whole, row |-> FALSE]
  OBVIOUS
<1>7. ProductTo(q, s)
  BY DEF Derives, Onto
<1>8. s \in ProductRequest
  BY <1>1 DEF ProductRequest
<1>9. StandsOn(s, row)
  <2>1. s.pc \notin {"run", "moved", "ready", "save"}
    BY DerivedIs
  <2>2. DerivedBefore(s.pc, row.derived)
    BY <1>2, <1>4
  <2> QED BY <1>2, <1>4, <1>8, <2>1, <2>2 DEF StandsOn, Requesting
<1> QED BY <1>1, <1>2, <1>6, <1>7, <1>9, WizardWrites

LEMMA EnginesKeep ==
    ASSUME ProductsInv, NEW q \in ProductRequests,
           \/ Recommend(q) \/ BuildGraph(q) \/ Analyse(q) \/ Benchmark(q) \/ FindInsights(q)
           \/ BuildTrend(q) \/ Advise(q)
    PROVE  ProductsInv'
<1> PICK r : r = prodReq[q]
  OBVIOUS
<1>0. series \in BOOLEAN
  BY DEF ProductsInv, TableKept
<1>1. CASE Recommend(q)
  <2>1. CASE product[r.id].score > 0
    <3>1. Derives(q, "recommendations") /\ r.pc = "recommendations" /\ series' = series
      BY <1>1, <2>1 DEF Recommend
    <3>2. \A d : DerivedBefore(r.pc, d) => DerivedBefore("graph", d \cup {"recommendations"})
      BY <3>1 DEF DerivedBefore
    <3> QED BY <1>0, <3>1, <3>2, EnginesFollow, DerivedIs, DerivesKeeps
  <2>2. CASE ~(product[r.id].score > 0)
    BY <1>0, <1>1, <2>2, WizardOver DEF Recommend
  <2> QED BY <2>1, <2>2
<1>2. CASE BuildGraph(q)
  <2>1. Derives(q, "graph") /\ r.pc = "graph" /\ series' = series
    BY <1>2 DEF BuildGraph
  <2>2. \A d : DerivedBefore(r.pc, d) => DerivedBefore("analytics", d \cup {"graph"})
    BY <2>1 DEF DerivedBefore
  <2> QED BY <1>0, <2>1, <2>2, EnginesFollow, DerivedIs, DerivesKeeps
<1>3. CASE Analyse(q)
  <2>1. Derives(q, "analytics") /\ r.pc = "analytics" /\ series' = series
    BY <1>3 DEF Analyse
  <2>2. \A d : DerivedBefore(r.pc, d) => DerivedBefore("benchmark", d \cup {"analytics"})
    BY <2>1 DEF DerivedBefore
  <2> QED BY <1>0, <2>1, <2>2, EnginesFollow, DerivedIs, DerivesKeeps
<1>4. CASE Benchmark(q)
  <2>1. Derives(q, "benchmark") /\ r.pc = "benchmark" /\ series' = series
    BY <1>4 DEF Benchmark
  <2>2. \A d : DerivedBefore(r.pc, d) => DerivedBefore("insights", d \cup {"benchmark"})
    BY <2>1 DEF DerivedBefore
  <2> QED BY <1>0, <2>1, <2>2, EnginesFollow, DerivedIs, DerivesKeeps
<1>5. CASE FindInsights(q)
  <2>1. Derives(q, "insights") /\ r.pc = "insights" /\ series' = series
    BY <1>5 DEF FindInsights
  <2>2. \A d : DerivedBefore(r.pc, d) => DerivedBefore("trend", d \cup {"insights"})
    BY <2>1 DEF DerivedBefore
  <2> QED BY <1>0, <2>1, <2>2, EnginesFollow, DerivedIs, DerivesKeeps
<1>6. CASE BuildTrend(q)
  <2>1. r.pc = "build" /\ series' = TRUE
    BY <1>6 DEF BuildTrend
  <2>2. CASE series /\ ~r.row
    BY <1>6, <2>1, <2>2, WizardOver DEF BuildTrend
  <2>3. CASE ~(series /\ ~r.row)
    <3>1. Derives(q, "trend")
      BY <1>6, <2>3 DEF BuildTrend
    <3>2. \A d : DerivedBefore(r.pc, d) => DerivedBefore("advice", d \cup {"trend"})
      BY <2>1 DEF DerivedBefore
    <3> QED BY <2>1, <3>1, <3>2, EnginesFollow, DerivedIs, DerivesKeeps
  <2> QED BY <2>2, <2>3
<1>7. CASE Advise(q)
  <2>1. Derives(q, "advice") /\ r.pc = "advice" /\ series' = series
    BY <1>7 DEF Advise
  <2>2. \A d : DerivedBefore(r.pc, d) => DerivedBefore("artifacts", d \cup {"advice"})
    BY <2>1 DEF DerivedBefore
  <2> QED BY <1>0, <2>1, <2>2, EnginesFollow, DerivedIs, DerivesKeeps
<1> QED BY <1>1, <1>2, <1>3, <1>4, <1>5, <1>6, <1>7

LEMMA FindSeriesKeeps ==
    ASSUME ProductsInv, NEW q \in ProductRequests, FindSeries(q)
    PROVE  ProductsInv'
<1> PICK r : r = prodReq[q]
  OBVIOUS
<1>1. r \in ProductRequest /\ r.pc = "trend" /\ r # NoProductRequest /\ ProductStands(r)
  BY WizardAt DEF FindSeries
<1> PICK s : s = [pc |-> "build", id |-> r.id, whole |-> r.whole, row |-> series]
  OBVIOUS
<1>2. series \in BOOLEAN
  BY DEF ProductsInv, TableKept
<1>3. s \in ProductRequest
  BY <1>1, <1>2 DEF ProductRequest
<1>4. ProductTo(q, s) /\ UNCHANGED <<product, series>>
  BY DEF FindSeries, Onto
<1>5. ProductStands(s)
  BY <1>1, <1>3, DerivedIs DEF ProductStands, Requesting, DerivedBefore
<1> QED BY <1>1, <1>2, <1>4, <1>5, WizardReads DEF Whole

LEMMA StoreArtifactsKeeps ==
    ASSUME ProductsInv, NEW q \in ProductRequests, StoreArtifacts(q)
    PROVE  ProductsInv'
<1> PICK r : r = prodReq[q]
  OBVIOUS
<1> PICK w : w = product[r.id]
  OBVIOUS
<1>1. /\ r.pc = "artifacts" /\ ProductStands(r) /\ r \in ProductRequest /\ r # NoProductRequest
      /\ r.id \in DOMAIN product /\ w \in Product /\ RowSound(w, r.id)
  BY WizardAt DEF StoreArtifacts
<1>2. r.whole /\ w.ready = 0 /\ DerivedBefore(r.pc, w.derived)
  BY <1>1 DEF ProductStands
<1>3. w.derived = Derived
  BY <1>1, <1>2, AllDerived DEF Product
<1> PICK row : row = [w EXCEPT !.meta = "artifacts"]
  OBVIOUS
<1>4. row \in Product
  BY <1>1 DEF Product
<1>5. /\ row.status = w.status /\ row.ran = w.ran /\ row.score = w.score /\ row.meta = "artifacts"
      /\ row.derived = w.derived /\ row.change = w.change
      /\ row.previous = w.previous /\ row.ready = w.ready /\ row.moved = w.moved
  BY <1>1 DEF Product
<1>6. RowWritten(r.id, row)
  <2>1. RowSound(row, r.id)
    BY <1>1, <1>3, <1>4, <1>5 DEF RowSound
  <2>2. ProductGrows(w, row)
    BY <1>5 DEF ProductGrows
  <2>3. product' = [product EXCEPT ![r.id] = row]
    BY DEF StoreArtifacts
  <2> QED BY <1>1, <2>1, <2>2, <2>3 DEF RowWritten
<1> PICK s : s = [pc |-> "compare", id |-> r.id, whole |-> r.whole, row |-> FALSE]
  OBVIOUS
<1>7. ProductTo(q, s) /\ series' = series
  BY DEF StoreArtifacts, Onto
<1>8. s \in ProductRequest
  BY <1>1 DEF ProductRequest
<1>9. StandsOn(s, row)
  BY <1>1, <1>2, <1>5, <1>8 DEF StandsOn, Requesting, DerivedBefore
<1> QED BY <1>1, <1>2, <1>6, <1>7, <1>9, WizardWrites DEF ProductsInv, TableKept

LEMMA PatchProductKeeps ==
    ASSUME ProductsInv, NEW p \in DOMAIN product, NEW status \in {"ACTIVE", "COMPLETED", "FAILED"},
           PatchProduct(p, status)
    PROVE  ProductsInv'
<1> PICK w : w = product[p]
  OBVIOUS
<1>1. w \in Product /\ ProductHonest(p)
  BY ProductRows DEF ProductsInv, TableKept
<1> PICK row : row = [WithStatus(w, status) EXCEPT !.meta = "patched"]
  OBVIOUS
<1>2. WithStatus(w, status) \in Product
  BY <1>1 DEF WithStatus, Product
<1>3. row \in Product
  BY <1>2 DEF Product
<1>4. /\ row.status = status /\ row.score = w.score /\ row.meta = "patched"
      /\ row.derived = w.derived /\ row.change = w.change /\ row.previous = w.previous
      /\ row.ready = w.ready /\ row.moved = w.moved
      /\ (w.ran \/ status = "COMPLETED") => row.ran
  BY <1>1 DEF Product, WithStatus
<1>5. RowWritten(p, row)
  <2>1. RowSound(row, p)
    BY <1>1, <1>3, <1>4 DEF RowSound, ProductHonest
  <2>2. ProductGrows(w, row)
    BY <1>4 DEF ProductGrows
  <2>3. product' = [product EXCEPT ![p] = row]
    BY DEF PatchProduct
  <2> QED BY <2>1, <2>2, <2>3 DEF RowWritten
<1>6. /\ TableKept' /\ ProductsGrow /\ product'[p] = row
      /\ \A n \in DOMAIN product : n # p => product'[n] = product[n]
  BY <1>5, RowIsWritten DEF ProductsInv, TableKept, PatchProduct
<1>7. \A n \in DOMAIN product : ReadyKept(n)
  BY <1>4, <1>6 DEF ReadyKept
<1>8. prodReq' = prodReq /\ product \in Seq(Product) /\ product' \in Seq(Product)
  BY <1>6 DEF PatchProduct, ProductsInv, TableKept
<1>9. ASSUME NEW q \in ProductRequests PROVE ProductStands(prodReq[q])'
  <2> PICK r : r = prodReq[q]
    OBVIOUS
  <2>1. ProductStands(r)
    BY DEF ProductsInv, WizardsKept
  <2>2. r # NoProductRequest => ReadyKept(r.id)
    BY <1>7, <2>1 DEF ProductStands
  <2>3. ProductStands(r)'
    BY <1>6, <1>8, <2>1, <2>2, StandsStays DEF ReadyKept
  <2> QED BY <1>8, <2>3
<1> QED BY <1>6, <1>8, <1>9 DEF ProductsInv, WizardsKept, WholeAlone

-----------------------------------------------------------------------------
LEMMA DetectAgainKeeps ==
    ASSUME ProductsInv, NEW q \in ProductRequests, NEW p \in DOMAIN product, DetectAgain(q, p)
    PROVE  ProductsInv'
<1> PICK s : s = [pc |-> "compare", id |-> p, whole |-> FALSE, row |-> FALSE]
  OBVIOUS
<1>1. p \in ProductIds
  BY ProductRows, ProductNats DEF ProductsInv, TableKept, ProductIds
<1>2. s \in ProductRequest
  BY <1>1 DEF ProductRequest
<1>3. ProductStands(s)
  BY <1>2 DEF ProductStands, Requesting
<1> QED BY <1>2, <1>3, WizardReads DEF DetectAgain, Whole, ProductsInv, TableKept

LEMMA PreviousIs ==
    ASSUME ProductsInv, NEW p \in DOMAIN product
    PROVE  /\ Previous(p) \in 0..MaxProducts
           /\ Previous(p) # 0 => Previous(p) < p /\ product[Previous(p)].ran
<1>1. /\ DOMAIN product = 1..Len(product) /\ Len(product) \in Nat /\ Len(product) <= MaxProducts
      /\ \A n \in DOMAIN product : ProductHonest(n)
  BY ProductRows DEF ProductsInv, TableKept
<1>2. CASE Earlier(p) = {}
  <2>1. Previous(p) = 0
    BY <1>2 DEF Previous
  <2> QED BY <2>1, ProductNats
<1>3. CASE Earlier(p) # {}
  <2>1. \E j \in Earlier(p) : \A k \in Earlier(p) : k <= j
    <3> PICK e \in Earlier(p) : TRUE
      BY <1>3
    <3> PICK n \in Nat : n = p - 1
      BY <1>1
    <3>1. Earlier(p) \in SUBSET (1..n)
      BY DEF Earlier
    <3> QED BY <3>1, GreatestOf
  <2>2. Previous(p) \in Earlier(p)
    BY <1>3, <2>1 DEF Previous
  <2>3. Previous(p) \in 1..(p - 1) /\ product[Previous(p)].status = "COMPLETED"
    BY <2>2 DEF Earlier
  <2>4. Previous(p) \in DOMAIN product
    BY <1>1, <2>3
  <2> QED BY <1>1, <2>3, <2>4, ProductNats DEF ProductHonest
<1> QED BY <1>2, <1>3

LEMMA CompareKeeps ==
    ASSUME ProductsInv, NEW q \in ProductRequests, Compare(q)
    PROVE  ProductsInv'
<1> PICK r : r = prodReq[q]
  OBVIOUS
<1>1. /\ r \in ProductRequest /\ r.pc = "compare" /\ r # NoProductRequest /\ ProductStands(r)
      /\ r.id \in DOMAIN product /\ product[r.id] \in Product
  BY WizardAt DEF Compare
<1> PICK j : j = Previous(r.id)
  OBVIOUS
<1>2. j \in 0..MaxProducts /\ (j # 0 => j < r.id /\ product[j].ran)
  BY <1>1, PreviousIs
<1> PICK s : s = [pc |-> "save", id |-> r.id, whole |-> r.whole,
                  row |-> product[r.id].change, was |-> product[r.id].previous,
                  previous |-> j, far |-> Far(r.id, j)]
  OBVIOUS
<1>3. Far(r.id, j) \in BOOLEAN
  BY DEF Far
<1>4. s \in Comparing /\ s.pc = "save" /\ s.id = r.id /\ s.whole = r.whole /\ s.previous = j
  BY <1>1, <1>2, <1>3 DEF Comparing, ProductRequest, Product
<1>5. s.far => Far(r.id, j)
  OBVIOUS
<1>6. ProductTo(q, s) /\ UNCHANGED <<product, series>>
  BY DEF Compare
<1>7. FoundHolds(s)
  BY <1>2, <1>4, <1>5 DEF FoundHolds, Far
<1>8. s # NoProductRequest
  BY <1>4 DEF NoProductRequest
<1>9. ProductStands(s)
  BY <1>1, <1>4, <1>7 DEF ProductStands, Requesting, DerivedBefore
<1> QED BY <1>1, <1>4, <1>6, <1>9, WizardReads DEF Whole, ProductsInv, TableKept

LEMMA SaveChangeKeeps ==
    ASSUME ProductsInv, NEW q \in ProductRequests, SaveChange(q)
    PROVE  ProductsInv'
<1> PICK r : r = prodReq[q]
  OBVIOUS
<1> PICK w : w = product[r.id]
  OBVIOUS
<1>1. /\ r.pc = "save" /\ ProductStands(r) /\ r \in Comparing /\ r # NoProductRequest /\ r.pc # "idle"
      /\ r.id \in DOMAIN product /\ w \in Product /\ RowSound(w, r.id)
  BY WizardAt DEF SaveChange
<1>2. /\ FoundHolds(r) /\ (r.whole => w.ready = 0 /\ DerivedBefore(r.pc, w.derived))
      /\ series' = series /\ series \in BOOLEAN
  BY <1>1 DEF ProductStands, ProductsInv, TableKept, SaveChange
<1>3. CASE w.change /\ ~r.row
  BY <1>2, <1>3, WizardOver DEF SaveChange
<1>4. CASE ~(w.change /\ ~r.row)
  <2> PICK named : named = IF r.row /\ r.previous = r.was THEN w.previous ELSE r.previous
    OBVIOUS
  <2> PICK row : row = [w EXCEPT !.change = TRUE, !.previous = named]
    OBVIOUS
  <2>1. named \in {w.previous, r.previous}
    OBVIOUS
  <2>2. named \in 0..MaxProducts /\ (named # 0 => named < r.id /\ product[named].ran)
    BY <1>1, <1>2, <2>1 DEF FoundHolds, RowSound, Comparing, Product
  <2>3. row \in Product
    BY <1>1, <2>2 DEF Product
  <2>4. /\ row.status = w.status /\ row.ran = w.ran /\ row.score = w.score /\ row.meta = w.meta
        /\ row.derived = w.derived /\ row.change = TRUE
        /\ row.previous = named /\ row.ready = w.ready /\ row.moved = w.moved
    BY <1>1 DEF Product
  <2>5. RowWritten(r.id, row)
    <3>1. RowSound(row, r.id)
      BY <1>1, <2>2, <2>3, <2>4 DEF RowSound
    <3>2. ProductGrows(w, row)
      BY <2>4 DEF ProductGrows
    <3>4. product' = [product EXCEPT ![r.id] = row]
      BY <1>4, <1>1 DEF SaveChange
    <3> QED BY <1>1, <3>1, <3>2, <3>4 DEF RowWritten
  <2>6. ASSUME NEW s, ProductTo(q, s), StandsOn(s, row),
               s # NoProductRequest => s.id = r.id /\ (s.whole => r.whole)
        PROVE  ProductsInv'
    <3>1. row.ready = product[r.id].ready /\ row.score = product[r.id].score
      BY <2>4
    <3>2. series' \in BOOLEAN /\ prodReq[q].pc # "idle"
      BY <1>1, <1>2
    <3> QED BY <2>5, <2>6, <3>1, <3>2, WizardWrites
  <2>7. CASE ~r.whole
    <3> PICK s : s = NoProductRequest
      OBVIOUS
    <3>1. ProductTo(q, s)
      BY <1>4, <2>7 DEF SaveChange
    <3> QED BY <2>6, <3>1 DEF StandsOn
  <2>8. CASE r.whole /\ r.far
    <3> PICK s : s = [r EXCEPT !.pc = "moved"]
      OBVIOUS
    <3>1. ProductTo(q, s)
      BY <1>4, <2>8 DEF SaveChange
    <3>2. /\ s \in Comparing /\ s.pc = "moved" /\ s.id = r.id /\ s.whole = r.whole
          /\ s.previous = r.previous /\ s.far = r.far
      BY <1>1 DEF Comparing
    <3>3. FoundHolds(s)
      BY <1>2, <3>2 DEF FoundHolds
    <3>4. DerivedBefore(s.pc, row.derived)
      BY <1>1, <1>2, <2>4, <2>8, <3>2 DEF DerivedBefore
    <3>5. StandsOn(s, row)
      BY <1>2, <2>4, <2>8, <3>2, <3>3, <3>4 DEF StandsOn, Requesting
    <3> QED BY <2>6, <3>1, <3>2, <3>5
  <2>9. CASE r.whole /\ ~r.far
    <3> PICK s : s = [pc |-> "ready", id |-> r.id, whole |-> r.whole, row |-> FALSE]
      OBVIOUS
    <3>1. ProductTo(q, s)
      BY <1>4, <2>9 DEF SaveChange, Onto
    <3>2. s \in ProductRequest
      BY <1>1 DEF ProductRequest, Comparing
    <3>3. DerivedBefore(s.pc, row.derived)
      BY <1>1, <1>2, <2>4, <2>9 DEF DerivedBefore
    <3>4. StandsOn(s, row)
      BY <1>2, <2>4, <2>9, <3>2, <3>3 DEF StandsOn, Requesting
    <3> QED BY <2>6, <3>1, <3>4
  <2> QED BY <2>7, <2>8, <2>9
<1> QED BY <1>3, <1>4

LEMMA EmitMovedKeeps ==
    ASSUME ProductsInv, NEW q \in ProductRequests, EmitMoved(q)
    PROVE  ProductsInv'
<1> PICK r : r = prodReq[q]
  OBVIOUS
<1> PICK w : w = product[r.id]
  OBVIOUS
<1>1. /\ r.pc = "moved" /\ ProductStands(r) /\ r \in Comparing /\ r # NoProductRequest /\ r.pc # "idle"
      /\ r.id \in DOMAIN product /\ w \in Product /\ RowSound(w, r.id)
  BY WizardAt DEF EmitMoved
<1>2. /\ FoundHolds(r) /\ r.whole /\ r.far /\ w.change
      /\ w.ready = 0 /\ DerivedBefore(r.pc, w.derived)
  BY <1>1 DEF ProductStands
<1>3. \E j \in 1..(r.id - 1) : Far(r.id, j)
  <2>1. r.previous \in Nat /\ r.id \in Nat /\ r.previous # 0 /\ r.previous < r.id
        /\ Far(r.id, r.previous)
    BY <1>1, <1>2, ProductNats DEF FoundHolds, Comparing, ProductIds
  <2> QED BY <2>1
<1> PICK row : row = [w EXCEPT !.moved = TRUE]
  OBVIOUS
<1>4. row \in Product
  BY <1>1 DEF Product
<1>5. /\ row.status = w.status /\ row.ran = w.ran /\ row.score = w.score /\ row.meta = w.meta
      /\ row.derived = w.derived /\ row.change = w.change
      /\ row.previous = w.previous /\ row.ready = w.ready
  BY <1>1 DEF Product
<1>6. RowWritten(r.id, row)
  <2>1. RowSound(row, r.id)
    BY <1>1, <1>3, <1>4, <1>5 DEF RowSound
  <2>2. ProductGrows(w, row)
    BY <1>5 DEF ProductGrows
  <2>3. product' = [product EXCEPT ![r.id] = row]
    BY DEF EmitMoved
  <2> QED BY <1>1, <2>1, <2>2, <2>3 DEF RowWritten
<1> PICK s : s = [pc |-> "ready", id |-> r.id, whole |-> r.whole, row |-> FALSE]
  OBVIOUS
<1>7. ProductTo(q, s) /\ series' = series
  BY DEF EmitMoved, Onto
<1>8. s \in ProductRequest
  BY <1>1 DEF ProductRequest, Comparing
<1>9. StandsOn(s, row)
  BY <1>1, <1>2, <1>5, <1>8 DEF StandsOn, Requesting, DerivedBefore
<1> QED BY <1>1, <1>2, <1>6, <1>7, <1>9, WizardWrites DEF ProductsInv, TableKept

LEMMA EmitReadyKeeps ==
    ASSUME ProductsInv, NEW q \in ProductRequests, EmitReady(q)
    PROVE  ProductsInv'
<1> PICK r : r = prodReq[q]
  OBVIOUS
<1> PICK w : w = product[r.id]
  OBVIOUS
<1>1. /\ r.pc = "ready" /\ ProductStands(r) /\ r # NoProductRequest /\ r.pc # "idle"
      /\ r.id \in DOMAIN product /\ w \in Product /\ RowSound(w, r.id)
  BY WizardAt DEF EmitReady
<1>2. r.whole /\ w.change /\ w.ready = 0 /\ DerivedBefore(r.pc, w.derived)
  BY <1>1 DEF ProductStands
<1>3. w.derived = Derived
  BY <1>1, <1>2, AllDerived DEF Product
<1> PICK row : row = [w EXCEPT !.ready = 1]
  OBVIOUS
<1>4. row \in Product
  BY <1>1 DEF Product
<1>5. /\ row.status = w.status /\ row.ran = w.ran /\ row.score = w.score /\ row.meta = w.meta
      /\ row.derived = w.derived /\ row.change = w.change
      /\ row.previous = w.previous /\ row.ready = 1 /\ row.moved = w.moved
  BY <1>1 DEF Product
<1>6. RowWritten(r.id, row)
  <2>1. RowSound(row, r.id)
    BY <1>1, <1>2, <1>3, <1>4, <1>5 DEF RowSound
  <2>2. ProductGrows(w, row)
    BY <1>5 DEF ProductGrows
  <2>3. product' = [product EXCEPT ![r.id] = row]
    <3>1. product' = [product EXCEPT ![r.id] = [w EXCEPT !.ready = w.ready + 1]]
      BY DEF EmitReady
    <3>2. w.ready + 1 = 1
      BY <1>2
    <3> QED BY <3>1, <3>2
  <2> QED BY <1>1, <2>1, <2>2, <2>3 DEF RowWritten
<1> PICK s : s = NoProductRequest
  OBVIOUS
<1>7. ProductTo(q, s) /\ series' = series /\ StandsOn(s, row)
  BY DEF EmitReady, ProductOver, StandsOn
<1> QED BY <1>1, <1>2, <1>6, <1>7, WizardWrites DEF ProductsInv, TableKept

LEMMA ProductsInitInv == ProductsInit => ProductsInv
<1> SUFFICES ASSUME ProductsInit PROVE ProductsInv
  OBVIOUS
<1>1. product \in Seq(Product) /\ Len(product) = 0 /\ DOMAIN product = {}
  BY EmptySeq DEF ProductsInit
<1>2. series \in BOOLEAN /\ \A q \in ProductRequests : prodReq[q] = NoProductRequest
  BY DEF ProductsInit
<1>3. TableKept
  BY <1>1, <1>2, ProductNats DEF TableKept
<1>4. WizardsKept
  BY <1>2 DEF WizardsKept, ProductsInit, ProductStands, WholeAlone, Whole
<1> QED BY <1>3, <1>4 DEF ProductsInv

LEMMA ProductsNextInv == ProductsInv /\ [ProductsNext]_productVars => ProductsInv'
<1> SUFFICES ASSUME ProductsInv, [ProductsNext]_productVars PROVE ProductsInv'
  OBVIOUS
<1>1. CASE UNCHANGED productVars
  <2>1. UNCHANGED <<product, prodReq, series>>
    BY <1>1 DEF productVars
  <2>2. TableKept' /\ \A r : ProductStands(r) => ProductStands(r)'
    BY <2>1, TableRests DEF ProductsInv, TableKept
  <2> QED BY <2>1, <2>2 DEF ProductsInv, WizardsKept, WholeAlone
<1>2. CASE ProductsNext
  <2>1. ASSUME NEW q \in ProductRequests,
               \/ CreateProduct(q)
               \/ \E status \in {"COMPLETED", "FAILED"}, score \in 0..MaxScore :
                      RunProduct(q, status, score)
               \/ FindSeries(q) \/ StoreArtifacts(q)
        PROVE  ProductsInv'
    BY <2>1, CreateProductKeeps, RunProductKeeps, FindSeriesKeeps, StoreArtifactsKeeps
  <2>2. ASSUME NEW q \in ProductRequests,
               \/ Recommend(q) \/ BuildGraph(q) \/ Analyse(q) \/ Benchmark(q) \/ FindInsights(q)
               \/ BuildTrend(q) \/ Advise(q)
        PROVE  ProductsInv'
    BY <2>2, EnginesKeep
  <2>3. ASSUME NEW q \in ProductRequests,
               \/ \E p \in DOMAIN product : DetectAgain(q, p)
               \/ Compare(q) \/ SaveChange(q) \/ EmitMoved(q) \/ EmitReady(q)
        PROVE  ProductsInv'
    BY <2>3, DetectAgainKeeps, CompareKeeps, SaveChangeKeeps, EmitMovedKeeps, EmitReadyKeeps
  <2>4. ASSUME NEW q \in ProductRequests, ProductStops(q) PROVE ProductsInv'
    BY <2>4, WizardOver DEF ProductStops, ProductsInv, TableKept
  <2>5. ASSUME NEW p \in DOMAIN product, NEW status \in {"ACTIVE", "COMPLETED", "FAILED"},
               PatchProduct(p, status)
        PROVE  ProductsInv'
    BY <2>5, PatchProductKeeps
  <2> QED BY <1>2, <2>1, <2>2, <2>3, <2>4, <2>5 DEF ProductsNext
<1> QED BY <1>1, <1>2

\* _complete_product_pipeline and detect: a report is announced once, when every engine has
\* committed and the research was compared, and what it is compared with is an earlier
\* research that had completed, for any number of researches and requests.
THEOREM ReportsAreHonest ==
    ProductsInit /\ [][ProductsNext]_productVars => [](ProductsTypeOK /\ ReportHonest)
BY ProductsInitInv, ProductsNextInv, ProductsMean, PTL

-----------------------------------------------------------------------------
(***************************************************************************)
(* ResilientCache                                                          *)
(***************************************************************************)
\* A set that is going on.
Setting(a) == a # NoAccess /\ a.op = "set" /\ a.pc \in {"local", "gate", "primary"}

\* An entry outlives its set by no more than a lifetime, and no delete for good.
EntryAlive(e) ==
    /\ e.value \in 0..sets /\ e.value \notin dead
    /\ e.expires <= ticks + CacheTtl
    /\ e.value \in DOMAIN setEnded => e.expires <= setEnded[e.value] + CacheTtl

\* Once a delete has emptied the memory, what it deletes does not come back there: only
\* sets that are going on write, and it deletes those that had ended.
AccessKept(a) ==
    a # NoAccess =>
        /\ a.pc = "local" => a.op \in {"set", "delete"}
        /\ a.pc \in {"fallback", "answered"} => a.op = "get"
        /\ a.op = "get" => a.gone \subseteq dead
        /\ a.op = "delete" =>
               /\ a.gone \subseteq DOMAIN setEnded
               /\ a.pc \in {"gate", "primary"} => memory.value \notin a.gone
        /\ Setting(a) => a.value \in 1..sets /\ a.value \notin DOMAIN setEnded

CacheInv ==
    /\ CacheTypeOK
    /\ setEnded \in [DOMAIN setEnded -> 0..MaxTicks] /\ DOMAIN setEnded \subseteq 1..sets
    /\ EntryAlive(redis) /\ EntryAlive(memory)
    /\ \A c \in CacheThreads : AccessKept(access[c])
    /\ \A c, d \in CacheThreads :
           Setting(access[c]) /\ Setting(access[d]) /\ access[c].value = access[d].value => c = d

LEMMA CacheBounds ==
    ASSUME CacheTypeOK
    PROVE  /\ CacheTtl \in Nat \ {0} /\ FailureThreshold \in Nat \ {0}
           /\ RecoveryTicks \in Nat /\ MaxSets \in Nat /\ MaxTicks \in Nat
           /\ ticks \in Nat /\ ticks <= MaxTicks /\ sets \in Nat /\ sets <= MaxSets
           /\ redis.value \in Nat /\ redis.expires \in Nat
           /\ memory.value \in Nat /\ memory.expires \in Nat
<1>1. /\ CacheTtl \in Nat \ {0} /\ FailureThreshold \in Nat \ {0}
      /\ RecoveryTicks \in Nat /\ MaxSets \in Nat /\ MaxTicks \in Nat
  BY CacheAssumption DEF CacheAssumption
<1> QED BY <1>1 DEF CacheTypeOK, Entry

\* What every step leaves as it is: ends of sets stay, deletes for good too, and the memory
\* gets nothing whose set has ended.
CacheEvolves ==
    /\ ticks' \in Nat /\ ticks <= ticks' /\ sets' \in Nat /\ sets <= sets'
    /\ \A v \in DOMAIN setEnded : v \in DOMAIN setEnded' /\ setEnded'[v] = setEnded[v]
    /\ \A v \in DOMAIN setEnded' \ DOMAIN setEnded : setEnded'[v] = ticks
    /\ dead \subseteq dead'
    /\ memory'.value = memory.value \/ memory'.value \notin DOMAIN setEnded

LEMMA AccessEvolves ==
    ASSUME CacheInv, CacheEvolves, NEW c \in CacheThreads,
           Setting(access[c]) => access[c].value \notin DOMAIN setEnded'
    PROVE  \A a : a = access[c] => AccessKept(a)'
<1> SUFFICES ASSUME NEW a, a = access[c], a # NoAccess
             PROVE  AccessKept(a)'
  BY DEF AccessKept
<1>1. AccessKept(a)
  BY DEF CacheInv
<1>2. a.op = "get" => a.gone \subseteq dead'
  BY <1>1 DEF AccessKept, CacheEvolves
<1>3. a.op = "delete" =>
          /\ a.gone \subseteq DOMAIN setEnded'
          /\ a.pc \in {"gate", "primary"} => memory'.value \notin a.gone
  BY <1>1 DEF AccessKept, CacheEvolves
<1>4. Setting(a) => a.value \in 1..sets' /\ a.value \notin DOMAIN setEnded'
  <2>1. sets \in Nat
    BY CacheBounds DEF CacheInv
  <2> QED BY <1>1, <2>1 DEF AccessKept, CacheEvolves
<1> QED BY <1>1, <1>2, <1>3, <1>4 DEF AccessKept

LEMMA EntryEvolves ==
    ASSUME CacheInv, CacheEvolves, NEW e \in {redis, memory}, e.value \notin dead' \ dead
    PROVE  \A f : f = e => EntryAlive(f)'
<1> PICK v : v = e.value
  OBVIOUS
<1>1. /\ EntryAlive(e) /\ v \in Nat /\ e.expires \in Nat /\ ticks \in Nat /\ sets \in Nat /\ CacheTtl \in Nat
  BY CacheBounds DEF CacheInv
<1>2. v \in 0..sets' /\ v \notin dead' /\ e.expires <= ticks' + CacheTtl
  BY <1>1 DEF EntryAlive, CacheEvolves
<1>3. ASSUME v \in DOMAIN setEnded' PROVE e.expires <= setEnded'[v] + CacheTtl
  <2>1. CASE v \in DOMAIN setEnded
    BY <1>1, <2>1 DEF EntryAlive, CacheEvolves
  <2>2. CASE v \notin DOMAIN setEnded
    BY <1>1, <1>3, <2>2 DEF EntryAlive, CacheEvolves
  <2> QED BY <2>1, <2>2
<1> QED BY <1>2, <1>3 DEF EntryAlive

\* A step of one thread, which goes on as s.
LEMMA CacheStep ==
    ASSUME CacheInv, CacheEvolves, CacheTypeOK', NEW c \in CacheThreads, NEW s, AccessTo(c, s),
           setEnded' \in [DOMAIN setEnded' -> 0..MaxTicks],
           \A v \in DOMAIN setEnded' \ DOMAIN setEnded : Setting(access[c]) /\ v = access[c].value,
           EntryAlive(redis)', EntryAlive(memory)', AccessKept(s)',
           Setting(s) => \/ Setting(access[c]) /\ s.value = access[c].value
                         \/ s.value \notin 1..sets
    PROVE  CacheInv'
<1>1. \A d \in CacheThreads : access'[d] = IF d = c THEN s ELSE access[d]
  BY DEF CacheInv, CacheTypeOK, AccessTo
<1>2. ASSUME NEW d \in CacheThreads, d # c PROVE AccessKept(access[d])'
  <2> PICK a : a = access[d]
    OBVIOUS
  <2>1. Setting(a) => a.value \notin DOMAIN setEnded'
    <3>1. Setting(a) => a.value \notin DOMAIN setEnded
      BY DEF CacheInv, AccessKept, Setting
    <3>2. Setting(a) /\ Setting(access[c]) => a.value # access[c].value
      BY <1>2 DEF CacheInv
    <3> QED BY <3>1, <3>2
  <2>2. AccessKept(a)'
    BY <2>1, AccessEvolves
  <2>3. access'[d] = a
    BY <1>1, <1>2
  <2> QED BY <2>2, <2>3 DEF AccessKept, Setting
<1>3. AccessKept(access[c])'
  BY <1>1 DEF AccessKept, Setting
<1>4. ASSUME NEW d \in CacheThreads, NEW e \in CacheThreads,
             Setting(access'[d]), Setting(access'[e]), access'[d].value = access'[e].value
      PROVE  d = e
  <2>1. \A f \in CacheThreads : Setting(access[f]) => access[f].value \in 1..sets
    BY DEF CacheInv, AccessKept, Setting
  <2>2. \A f, g \in CacheThreads :
            Setting(access[f]) /\ Setting(access[g]) /\ access[f].value = access[g].value => f = g
    BY DEF CacheInv
  <2>3. CASE d # c /\ e # c
    BY <1>1, <1>4, <2>2, <2>3
  <2>4. CASE d = c /\ e # c
    BY <1>1, <1>4, <2>1, <2>2, <2>4
  <2>5. CASE d # c /\ e = c
    BY <1>1, <1>4, <2>1, <2>2, <2>5
  <2> QED BY <2>3, <2>4, <2>5
<1>5. DOMAIN setEnded' \subseteq 1..sets'
  <2>1. \A v \in DOMAIN setEnded' : v \in 1..sets
    BY DEF CacheInv, AccessKept, Setting
  <2>2. sets \in Nat
    BY CacheBounds DEF CacheInv
  <2> QED BY <2>1, <2>2 DEF CacheEvolves
<1>6. \A d, e \in CacheThreads :
          (Setting(access[d]) /\ Setting(access[e]) /\ access[d].value = access[e].value)' => d = e
  BY <1>4 DEF Setting
<1> QED BY <1>2, <1>3, <1>5, <1>6 DEF CacheInv

\* A step of no thread.
LEMMA CacheOutside ==
    ASSUME CacheInv, CacheEvolves, CacheTypeOK', UNCHANGED access,
           setEnded' \in [DOMAIN setEnded' -> 0..MaxTicks],
           \A v \in DOMAIN setEnded' \ DOMAIN setEnded : v \in 1..sets' /\ v \notin 1..sets,
           EntryAlive(redis)', EntryAlive(memory)'
    PROVE  CacheInv'
<1>1. ASSUME NEW d \in CacheThreads PROVE AccessKept(access[d])'
  <2> PICK a : a = access[d]
    OBVIOUS
  <2>1. Setting(a) => a.value \notin DOMAIN setEnded'
    BY DEF CacheInv, AccessKept, Setting
  <2>2. AccessKept(a)'
    BY <2>1, AccessEvolves
  <2> QED BY <2>2 DEF AccessKept, Setting
<1>2. DOMAIN setEnded' \subseteq 1..sets'
  <2>1. \A v \in DOMAIN setEnded' : v \in 1..sets \/ v \in 1..sets'
    BY DEF CacheInv
  <2>2. sets \in Nat
    BY CacheBounds DEF CacheInv
  <2> QED BY <2>1, <2>2 DEF CacheEvolves
<1>3. \A d, e \in CacheThreads :
          (Setting(access[d]) /\ Setting(access[e]) /\ access[d].value = access[e].value)' => d = e
  BY DEF CacheInv, Setting
<1> QED BY <1>1, <1>2, <1>3 DEF CacheInv

-----------------------------------------------------------------------------
\* Steps that leave the tables of values and their ends as they are.
LEMMA CacheSame ==
    ASSUME CacheInv, UNCHANGED <<redis, memory, sets, setEnded, dead>>,
           ticks' \in Nat, ticks <= ticks'
    PROVE  CacheEvolves /\ EntryAlive(redis)' /\ EntryAlive(memory)'
           /\ setEnded' \in [DOMAIN setEnded' -> 0..MaxTicks]
<1>1. CacheEvolves
  BY CacheBounds DEF CacheEvolves, CacheInv
<1>2. EntryAlive(redis)' /\ EntryAlive(memory)'
  BY <1>1, EntryEvolves
<1> QED BY <1>1, <1>2 DEF CacheInv

LEMMA AccessIs ==
    ASSUME CacheInv, NEW c \in CacheThreads, access[c].pc # "idle"
    PROVE  access[c] # NoAccess /\ access[c] \in Access /\ AccessKept(access[c])
<1>1. access[c] # NoAccess
  BY DEF NoAccess
<1> QED BY <1>1 DEF CacheInv, CacheTypeOK

LEMMA CacheTickKeeps == ASSUME CacheInv, CacheTick PROVE CacheInv'
<1>1. /\ UNCHANGED <<reachable, redis, memory, breaker, sets, access, setEnded, dead>>
      /\ ticks' = ticks + 1 /\ ticks < MaxTicks /\ ticks' \in 0..MaxTicks /\ ticks \in Nat
  BY CacheBounds DEF CacheTick, CacheInv
<1>2. CacheTypeOK'
  BY <1>1 DEF CacheInv, CacheTypeOK
<1> QED BY <1>1, <1>2, CacheSame, CacheOutside

LEMMA RedisMovesKeeps == ASSUME CacheInv, RedisMoves PROVE CacheInv'
<1>1. /\ UNCHANGED <<ticks, redis, memory, breaker, sets, access, setEnded, dead>>
      /\ ticks \in Nat /\ reachable' \in BOOLEAN
  BY CacheBounds DEF RedisMoves, CacheInv
<1>2. CacheTypeOK'
  BY <1>1 DEF CacheInv, CacheTypeOK
<1> QED BY <1>1, <1>2, CacheSame, CacheOutside

\* What a set writes is an entry, and alive.
LEMMA WrittenAlive ==
    ASSUME CacheInv, NEW v \in 1..sets', sets' \in 0..MaxSets, v \notin DOMAIN setEnded,
           UNCHANGED ticks, v \notin dead', v \in DOMAIN setEnded' => setEnded'[v] = ticks
    PROVE  /\ CacheWritten(v) \in Entry /\ CacheWritten(v).value = v
           /\ \A e : e = CacheWritten(v) => EntryAlive(e)'
<1>1. /\ ticks \in 0..MaxTicks /\ MaxTicks \in Nat /\ CacheTtl \in Nat /\ MaxSets \in Nat
  BY CacheBounds DEF CacheInv
<1>2. CacheWritten(v) = [value |-> v, expires |-> ticks + CacheTtl]
  BY DEF CacheWritten
<1>3. v \in 0..MaxSets /\ ticks + CacheTtl \in 0..(MaxTicks + CacheTtl)
  BY <1>1
<1> QED BY <1>1, <1>2, <1>3 DEF Entry, EntryAlive

LEMMA NoEntryAlive ==
    ASSUME CacheInv, UNCHANGED ticks, sets' \in Nat, dead' \subseteq 1..MaxSets,
           DOMAIN setEnded' \subseteq 1..MaxSets
    PROVE  /\ NoEntry \in Entry /\ NoEntry.value = 0
           /\ \A e : e = NoEntry => EntryAlive(e)'
<1>1. /\ ticks \in Nat /\ MaxTicks \in Nat /\ CacheTtl \in Nat /\ MaxSets \in Nat
  BY CacheBounds DEF CacheInv
<1> QED BY <1>1 DEF NoEntry, Entry, EntryAlive

LEMMA ElsewhereSetKeeps == ASSUME CacheInv, ElsewhereSet PROVE CacheInv'
<1> PICK v : v = sets'
  OBVIOUS
<1>1. /\ UNCHANGED <<ticks, reachable, memory, breaker, access, dead>>
      /\ sets' = sets + 1 /\ redis' = CacheWritten(v)
      /\ setEnded' = [w \in DOMAIN setEnded \cup {v} |-> IF w = v THEN ticks ELSE setEnded[w]]
      /\ sets' \in 0..MaxSets /\ sets \in Nat /\ ticks \in 0..MaxTicks /\ CacheTypeOK
      /\ v \in 1..sets' /\ v \notin 1..sets
  BY CacheBounds DEF ElsewhereSet, CacheInv
<1>2. /\ v \notin DOMAIN setEnded /\ v \notin dead /\ v \in 1..MaxSets
      /\ DOMAIN setEnded' = DOMAIN setEnded \cup {v}
  BY <1>1, CacheBounds DEF CacheInv, CacheTypeOK
<1>3. redis' \in Entry /\ EntryAlive(redis)'
  BY <1>1, <1>2, WrittenAlive
<1>4. CacheEvolves
  BY <1>1, <1>2 DEF CacheEvolves
<1>5. EntryAlive(memory)'
  BY <1>1, <1>4, EntryEvolves
<1>6. CacheTypeOK'
  BY <1>1, <1>2, <1>3 DEF CacheTypeOK
<1>7. setEnded' \in [DOMAIN setEnded' -> 0..MaxTicks]
  BY <1>1, <1>2 DEF CacheInv
<1> QED BY <1>1, <1>2, <1>3, <1>4, <1>5, <1>6, <1>7, CacheOutside

LEMMA ElsewhereDeleteKeeps == ASSUME CacheInv, ElsewhereDelete PROVE CacheInv'
<1>1. /\ UNCHANGED <<ticks, reachable, memory, breaker, sets, access, setEnded, dead>>
      /\ redis' = NoEntry /\ sets \in Nat /\ ticks \in Nat /\ CacheTypeOK
  BY CacheBounds DEF ElsewhereDelete, CacheInv
<1>2. redis' \in Entry /\ EntryAlive(redis)'
  <2>1. dead' \subseteq 1..MaxSets /\ DOMAIN setEnded' \subseteq 1..MaxSets
    BY <1>1 DEF CacheTypeOK
  <2> QED BY <1>1, <2>1, NoEntryAlive
<1>3. CacheEvolves
  BY <1>1 DEF CacheEvolves
<1>4. EntryAlive(memory)'
  BY <1>1, <1>3, EntryEvolves
<1>5. CacheTypeOK'
  BY <1>1, <1>2 DEF CacheTypeOK
<1> QED BY <1>1, <1>2, <1>3, <1>4, <1>5, CacheOutside DEF CacheInv

-----------------------------------------------------------------------------
LEMMA BeginKeeps ==
    ASSUME CacheInv, NEW c \in CacheThreads, Get(c) \/ Set(c) \/ Delete(c)
    PROVE  CacheInv'
<1>1. CacheTypeOK /\ sets \in Nat /\ ticks \in Nat /\ MaxSets \in Nat /\ dead \subseteq 1..MaxSets
      /\ DOMAIN setEnded \subseteq 1..MaxSets /\ DOMAIN setEnded \subseteq 1..sets
  BY CacheBounds DEF CacheInv, CacheTypeOK
<1>2. CASE Get(c)
  <2> PICK s : s = [pc |-> "gate", op |-> "get", value |-> 0, gone |-> dead]
    OBVIOUS
  <2>1. AccessTo(c, s) /\ UNCHANGED <<ticks, reachable, redis, memory, breaker, sets, setEnded, dead>>
    BY <1>2 DEF Get
  <2>2. s \in Access /\ s # NoAccess
    BY <1>1 DEF Access, NoAccess
  <2>3. CacheTypeOK'
    BY <1>1, <2>1, <2>2 DEF CacheTypeOK, AccessTo
  <2>4. AccessKept(s)' /\ ~Setting(s)
    BY <2>1 DEF AccessKept, Setting
  <2>5. CacheEvolves /\ EntryAlive(redis)' /\ EntryAlive(memory)'
        /\ setEnded' \in [DOMAIN setEnded' -> 0..MaxTicks]
    BY <1>1, <2>1, CacheSame
  <2> QED BY <2>1, <2>3, <2>4, <2>5, CacheStep
<1>3. CASE Set(c)
  <2> PICK v : v = sets'
    OBVIOUS
  <2> PICK s : s = [pc |-> "local", op |-> "set", value |-> v, gone |-> {}]
    OBVIOUS
  <2>1. /\ AccessTo(c, s) /\ UNCHANGED <<ticks, reachable, redis, memory, breaker, setEnded, dead>>
        /\ sets' = sets + 1 /\ sets' \in 0..MaxSets /\ v \in 1..sets' /\ v \notin 1..sets
    BY <1>1, <1>3 DEF Set
  <2>2. s \in Access /\ s # NoAccess
    BY <1>1, <2>1 DEF Access, NoAccess
  <2>3. CacheTypeOK'
    BY <1>1, <2>1, <2>2 DEF CacheTypeOK, AccessTo
  <2>4. AccessKept(s)'
    BY <1>1, <2>1 DEF AccessKept, Setting
  <2>5. CacheEvolves
    BY <1>1, <2>1 DEF CacheEvolves
  <2>6. EntryAlive(redis)' /\ EntryAlive(memory)'
    BY <2>1, <2>5, EntryEvolves
  <2> QED BY <2>1, <2>3, <2>4, <2>5, <2>6, CacheStep DEF CacheInv
<1>4. CASE Delete(c)
  <2> PICK s : s = [pc |-> "local", op |-> "delete", value |-> 0, gone |-> DOMAIN setEnded]
    OBVIOUS
  <2>1. AccessTo(c, s) /\ UNCHANGED <<ticks, reachable, redis, memory, breaker, sets, setEnded, dead>>
    BY <1>4 DEF Delete
  <2>2. s \in Access /\ s # NoAccess
    BY <1>1 DEF Access, NoAccess
  <2>3. CacheTypeOK'
    BY <1>1, <2>1, <2>2 DEF CacheTypeOK, AccessTo
  <2>4. AccessKept(s)' /\ ~Setting(s)
    BY <2>1 DEF AccessKept, Setting
  <2>5. CacheEvolves /\ EntryAlive(redis)' /\ EntryAlive(memory)'
        /\ setEnded' \in [DOMAIN setEnded' -> 0..MaxTicks]
    BY <1>1, <2>1, CacheSame
  <2> QED BY <2>1, <2>3, <2>4, <2>5, CacheStep
<1> QED BY <1>2, <1>3, <1>4

LEMMA LocalKeeps == ASSUME CacheInv, NEW c \in CacheThreads, Local(c) PROVE CacheInv'
<1> PICK a : a = access[c]
  OBVIOUS
<1> PICK s : s = [a EXCEPT !.pc = "gate"]
  OBVIOUS
<1>1. /\ a.pc = "local" /\ a \in Access /\ AccessKept(a) /\ a # NoAccess /\ CacheTypeOK
      /\ AccessTo(c, s) /\ UNCHANGED <<ticks, reachable, redis, breaker, sets, setEnded, dead>>
      /\ memory' = IF a.op = "set" THEN CacheWritten(a.value) ELSE NoEntry
  BY AccessIs DEF Local, AccessAt, CacheInv
<1>2. s \in Access /\ s # NoAccess /\ s.pc = "gate" /\ s.op = a.op /\ s.value = a.value /\ s.gone = a.gone
  BY <1>1 DEF Access, NoAccess
<1>3. a.op \in {"set", "delete"} /\ (a.op = "set" => Setting(a) /\ a.value \in 1..sets /\ a.value \notin DOMAIN setEnded)
  BY <1>1 DEF AccessKept, Setting
<1>4. /\ memory' \in Entry /\ EntryAlive(memory)'
      /\ memory'.value \notin DOMAIN setEnded
  <2>1. CASE a.op = "set"
    <3>1. sets' \in 0..MaxSets /\ a.value \notin dead'
      BY <1>1, <1>3, <2>1 DEF CacheTypeOK
    <3> QED BY <1>1, <1>3, <2>1, <3>1, WrittenAlive
  <2>2. CASE a.op # "set"
    <3>1. sets' \in Nat /\ dead' \subseteq 1..MaxSets /\ DOMAIN setEnded' \subseteq 1..MaxSets
      BY <1>1, CacheBounds DEF CacheTypeOK
    <3> QED BY <1>1, <2>2, <3>1, NoEntryAlive
  <2> QED BY <2>1, <2>2
<1>5. CacheEvolves
  BY <1>1, <1>4, CacheBounds DEF CacheEvolves
<1>6. EntryAlive(redis)'
  BY <1>1, <1>5, EntryEvolves
<1>7. AccessKept(s)'
  BY <1>1, <1>2, <1>3, <1>4 DEF AccessKept, Setting
<1>8. CacheTypeOK'
  BY <1>1, <1>2, <1>4 DEF CacheTypeOK, AccessTo
<1>9. Setting(s) => Setting(a) /\ s.value = a.value
  BY <1>2, <1>3 DEF Setting
<1> QED BY <1>1, <1>4, <1>5, <1>6, <1>7, <1>8, <1>9, CacheStep DEF CacheInv

-----------------------------------------------------------------------------
\* Thread c goes on as s; if it ends a set thereby, the end is recorded.
Goes(c, s) ==
    /\ AccessTo(c, s) /\ s \in {NoAccess} \cup Access
    /\ s # NoAccess => access[c].op = "get" /\ s.op = "get" /\ s.gone = access[c].gone
    /\ s # NoAccess => s.pc \in {"fallback", "answered"}
    /\ setEnded' \in [DOMAIN setEnded' -> 0..MaxTicks] /\ DOMAIN setEnded' \subseteq 1..MaxSets
    /\ \A v \in DOMAIN setEnded : v \in DOMAIN setEnded' /\ setEnded'[v] = setEnded[v]
    /\ \A v \in DOMAIN setEnded' \ DOMAIN setEnded :
           setEnded'[v] = ticks /\ Setting(access[c]) /\ v = access[c].value

LEMMA FallsGoes ==
    ASSUME CacheInv, NEW c \in CacheThreads, access[c].pc \in {"gate", "primary"}, Falls(c)
    PROVE  \E s : Goes(c, s)
<1> PICK a : a = access[c]
  OBVIOUS
<1>1. /\ a # NoAccess /\ a \in Access /\ AccessKept(a) /\ CacheTypeOK /\ a.pc \in {"gate", "primary"}
      /\ setEnded \in [DOMAIN setEnded -> 0..MaxTicks] /\ DOMAIN setEnded \subseteq 1..MaxSets
      /\ ticks \in 0..MaxTicks
  BY AccessIs DEF CacheInv, CacheTypeOK
<1>2. CASE a.op = "get"
  <2> PICK s : s = [a EXCEPT !.pc = "fallback"]
    OBVIOUS
  <2>1. AccessTo(c, s) /\ UNCHANGED setEnded
    BY <1>2 DEF Falls, AccessAt
  <2>2. s \in Access /\ s.op = "get" /\ s.gone = a.gone /\ s.pc = "fallback"
    BY <1>1, <1>2 DEF Access
  <2> QED BY <1>1, <1>2, <2>1, <2>2 DEF Goes
<1>3. CASE a.op = "delete"
  <2>1. AccessTo(c, NoAccess) /\ UNCHANGED setEnded
    BY <1>3 DEF Falls
  <2> QED BY <1>1, <2>1 DEF Goes
<1>4. CASE a.op = "set"
  <2> PICK v : v = a.value
    OBVIOUS
  <2>1. /\ AccessTo(c, NoAccess)
        /\ setEnded' = [w \in DOMAIN setEnded \cup {v} |-> IF w = v THEN ticks ELSE setEnded[w]]
    BY <1>4 DEF Falls
  <2>2. Setting(a) /\ v \in 1..MaxSets /\ v \notin DOMAIN setEnded
    <3>1. Setting(a) /\ v \in 1..sets /\ v \notin DOMAIN setEnded
      BY <1>1, <1>4 DEF AccessKept, Setting
    <3> QED BY <1>1, <3>1, CacheBounds
  <2>3. DOMAIN setEnded' = DOMAIN setEnded \cup {v}
    BY <2>1
  <2> QED BY <1>1, <2>1, <2>2, <2>3 DEF Goes
<1> QED BY <1>1, <1>2, <1>3, <1>4 DEF Access

\* What a thread leaves in Redis and deletes for good when its command is over.
LEMMA GoesKeeps ==
    ASSUME CacheInv, NEW c \in CacheThreads, NEW s, Goes(c, s),
           access[c].pc \in {"gate", "primary"},
           UNCHANGED <<ticks, memory, sets>>, reachable' \in BOOLEAN, breaker' \in Breaker,
           redis' = redis \/ redis' = Command(c),
           \/ dead' = dead
           \/ access[c].op = "delete" /\ redis' = Command(c) /\ dead' = dead \cup access[c].gone
    PROVE  CacheInv'
<1> PICK a : a = access[c]
  OBVIOUS
<1>1. /\ a # NoAccess /\ a \in Access /\ AccessKept(a) /\ CacheTypeOK
      /\ ticks \in Nat /\ sets \in 0..MaxSets /\ MaxSets \in Nat
  BY AccessIs, CacheBounds DEF CacheInv, CacheTypeOK
<1>2. /\ dead \subseteq dead' /\ dead' \subseteq DOMAIN setEnded' /\ dead' \subseteq DOMAIN setEnded
      /\ DOMAIN setEnded' \subseteq 1..MaxSets /\ memory.value \notin dead' \ dead
  <2>1. /\ dead' = dead \/ (a.op = "delete" /\ dead' = dead \cup a.gone)
        /\ DOMAIN setEnded \subseteq DOMAIN setEnded' /\ DOMAIN setEnded' \subseteq 1..MaxSets
    BY DEF Goes
  <2>2. a.op = "delete" => a.gone \subseteq DOMAIN setEnded /\ memory.value \notin a.gone
    BY <1>1 DEF AccessKept
  <2> QED BY <1>1, <2>1, <2>2 DEF CacheTypeOK
<1>3. CacheEvolves
  BY <1>1, <1>2 DEF CacheEvolves, Goes
<1>4. EntryAlive(memory)'
  BY <1>2, <1>3, EntryEvolves
<1>5. redis' \in Entry /\ EntryAlive(redis)'
  <2>1. CASE redis' = redis /\ dead' = dead
    <3>1. EntryAlive(redis)'
      BY <1>3, <2>1, EntryEvolves
    <3> QED BY <1>1, <2>1, <3>1 DEF CacheTypeOK
  <2>2. CASE redis' = Command(c) /\ a.op = "get"
    <3>1. redis' = redis /\ dead' = dead
      BY <2>2 DEF Command
    <3> QED BY <2>1, <3>1
  <2>3. CASE redis' = Command(c) /\ a.op = "set"
    <3>1. redis' = CacheWritten(a.value) /\ dead' = dead
      BY <2>3 DEF Command
    <3>2. a.value \in 1..sets' /\ a.value \notin DOMAIN setEnded /\ a.value \notin dead'
      BY <1>1, <1>2, <2>3 DEF AccessKept, Setting
    <3>3. a.value \in DOMAIN setEnded' => setEnded'[a.value] = ticks
      BY <3>2 DEF Goes
    <3> QED BY <1>1, <3>1, <3>2, <3>3, WrittenAlive
  <2>4. CASE redis' = Command(c) /\ a.op = "delete"
    <3>1. redis' = NoEntry
      BY <2>4 DEF Command
    <3> QED BY <1>1, <1>2, <3>1, NoEntryAlive
  <2> QED BY <1>1, <2>1, <2>2, <2>3, <2>4 DEF Access
<1>6. AccessKept(s)' /\ ~Setting(s)
  <2>1. s # NoAccess => s.op = "get" /\ s.gone \subseteq dead' /\ s.pc \in {"fallback", "answered"}
    BY <1>1, <1>2 DEF Goes, AccessKept
  <2> QED BY <2>1 DEF AccessKept, Setting
<1>7. CacheTypeOK'
  <2>1. access' \in [CacheThreads -> {NoAccess} \cup Access]
    BY <1>1 DEF Goes, AccessTo, CacheTypeOK
  <2> QED BY <1>1, <1>2, <1>5, <2>1 DEF CacheTypeOK
<1>8. /\ AccessTo(c, s) /\ setEnded' \in [DOMAIN setEnded' -> 0..MaxTicks]
      /\ \A v \in DOMAIN setEnded' \ DOMAIN setEnded : Setting(access[c]) /\ v = access[c].value
  BY DEF Goes
<1> QED BY <1>3, <1>4, <1>5, <1>6, <1>7, <1>8, CacheStep

LEMMA GateKeeps == ASSUME CacheInv, NEW c \in CacheThreads, Gate(c) PROVE CacheInv'
<1> PICK a : a = access[c]
  OBVIOUS
<1>1. /\ a.pc = "gate" /\ a \in Access /\ AccessKept(a) /\ a # NoAccess /\ CacheTypeOK
      /\ UNCHANGED <<ticks, reachable, redis, memory, sets, dead>> /\ reachable \in BOOLEAN
      /\ breaker \in Breaker
  BY AccessIs DEF Gate, CacheInv, CacheTypeOK
<1>2. CASE Opens
  <2>1. Falls(c) /\ UNCHANGED breaker
    BY <1>2 DEF Gate
  <2>2. PICK s : Goes(c, s)
    BY <1>1, <2>1, FallsGoes
  <2> QED BY <1>1, <2>1, <2>2, GoesKeeps
<1>3. CASE ~Opens
  <2> PICK s : s = [a EXCEPT !.pc = "primary"]
    OBVIOUS
  <2>1. /\ AccessTo(c, s) /\ UNCHANGED setEnded
        /\ breaker' = IF breaker.state = "OPEN" THEN [breaker EXCEPT !.state = "HALF_OPEN"] ELSE breaker
    BY <1>3 DEF Gate, AccessAt
  <2>2. s \in Access /\ s # NoAccess /\ s.pc = "primary" /\ s.op = a.op /\ s.value = a.value /\ s.gone = a.gone
    BY <1>1 DEF Access, NoAccess
  <2>3. breaker' \in Breaker
    BY <1>1, <2>1 DEF Breaker
  <2>4. CacheTypeOK'
    BY <1>1, <2>1, <2>2, <2>3 DEF CacheTypeOK, AccessTo
  <2>5. CacheEvolves /\ EntryAlive(redis)' /\ EntryAlive(memory)'
        /\ setEnded' \in [DOMAIN setEnded' -> 0..MaxTicks]
    BY <1>1, <2>1, CacheBounds, CacheSame
  <2>6. AccessKept(s)' /\ (Setting(s) => Setting(a))
    BY <1>1, <2>1, <2>2 DEF AccessKept, Setting
  <2> QED BY <2>1, <2>2, <2>4, <2>5, <2>6, CacheStep
<1> QED BY <1>2, <1>3

LEMMA SucceedsKeeps == ASSUME CacheInv, NEW c \in CacheThreads, Succeeds(c) PROVE CacheInv'
<1> PICK a : a = access[c]
  OBVIOUS
<1>1. /\ a.pc = "primary" /\ a \in Access /\ AccessKept(a) /\ a # NoAccess /\ CacheTypeOK
      /\ UNCHANGED <<ticks, reachable, memory, sets>> /\ reachable \in BOOLEAN
      /\ redis' = Command(c) /\ dead' = IF a.op = "delete" THEN dead \cup a.gone ELSE dead
      /\ breaker' = [breaker EXCEPT !.state = "CLOSED", !.failures = 0]
  BY AccessIs DEF Succeeds, CacheInv, CacheTypeOK
<1>2. breaker' \in Breaker
  <2>1. breaker \in Breaker /\ 0 \in 0..FailureThreshold
    BY <1>1, CacheBounds DEF CacheTypeOK
  <2> QED BY <1>1, <2>1 DEF Breaker
<1>3. \E s : Goes(c, s)
  <2>1. CASE a.op = "get" /\ Fresh(redis)
    <3> PICK s : s = [a EXCEPT !.pc = "answered", !.value = redis.value]
      OBVIOUS
    <3>1. AccessTo(c, s) /\ UNCHANGED setEnded
      BY <2>1 DEF Succeeds
    <3>2. s \in Access /\ s.op = "get" /\ s.gone = a.gone /\ s.pc = "answered"
      BY <1>1, <2>1 DEF Access, CacheTypeOK, Entry
    <3> QED BY <1>1, <2>1, <3>1, <3>2 DEF Goes, CacheInv, CacheTypeOK
  <2>2. CASE ~(a.op = "get" /\ Fresh(redis))
    <3>1. Falls(c)
      BY <2>2 DEF Succeeds
    <3> QED BY <1>1, <3>1, FallsGoes
  <2> QED BY <2>1, <2>2
<1> QED BY <1>1, <1>2, <1>3, GoesKeeps

LEMMA FailsKeeps ==
    ASSUME CacheInv, NEW c \in CacheThreads, NEW reached \in BOOLEAN, Fails(c, reached)
    PROVE  CacheInv'
<1>1. /\ access[c].pc = "primary" /\ CacheTypeOK /\ Falls(c)
      /\ UNCHANGED <<ticks, reachable, memory, sets, dead>> /\ reachable \in BOOLEAN
      /\ redis' = redis \/ redis' = Command(c)
  BY DEF Fails, CacheInv, CacheTypeOK
<1>2. breaker' \in Breaker
  <2> PICK n : n = IF breaker.failures < FailureThreshold THEN breaker.failures + 1 ELSE breaker.failures
    OBVIOUS
  <2>1. breaker' = IF n = FailureThreshold
                   THEN [state |-> "OPEN", failures |-> n, opened |-> ticks]
                   ELSE [breaker EXCEPT !.failures = n]
    BY DEF Fails
  <2>2. breaker \in Breaker /\ FailureThreshold \in Nat /\ ticks \in 0..MaxTicks
    BY <1>1, CacheBounds DEF CacheTypeOK
  <2>3. n \in 0..FailureThreshold
    BY <2>2 DEF Breaker
  <2> QED BY <2>1, <2>2, <2>3 DEF Breaker
<1>3. \E s : Goes(c, s)
  BY <1>1, FallsGoes
<1> QED BY <1>1, <1>2, <1>3, GoesKeeps

LEMMA ReadFallbackKeeps == ASSUME CacheInv, NEW c \in CacheThreads, ReadFallback(c) PROVE CacheInv'
<1> PICK a : a = access[c]
  OBVIOUS
<1>1. /\ a.pc = "fallback" /\ a \in Access /\ AccessKept(a) /\ a # NoAccess /\ CacheTypeOK
      /\ UNCHANGED <<ticks, reachable, redis, breaker, sets, setEnded, dead>>
      /\ memory' = IF Fallback(c) THEN memory ELSE NoEntry
  BY AccessIs DEF ReadFallback, CacheInv
<1> PICK s : s = IF Fallback(c) THEN [a EXCEPT !.pc = "answered", !.value = memory.value] ELSE NoAccess
  OBVIOUS
<1>2. AccessTo(c, s)
  BY DEF ReadFallback
<1>3. s \in {NoAccess} \cup Access /\ (s # NoAccess => s.pc = "answered" /\ s.op = "get" /\ s.gone \subseteq dead)
  BY <1>1 DEF Access, CacheTypeOK, Entry, AccessKept
<1>4. /\ NoEntry \in Entry /\ NoEntry.value = 0
      /\ \A e : e = NoEntry => EntryAlive(e)'
  <2>1. sets' \in Nat /\ dead' \subseteq 1..MaxSets /\ DOMAIN setEnded' \subseteq 1..MaxSets
    BY <1>1, CacheBounds DEF CacheTypeOK
  <2> QED BY <1>1, <2>1, NoEntryAlive
<1>5. CacheEvolves
  BY <1>1, <1>4, CacheBounds DEF CacheEvolves, CacheTypeOK
<1>6. EntryAlive(redis)' /\ EntryAlive(memory)'
  <2>1. EntryAlive(redis)'
    BY <1>1, <1>5, EntryEvolves
  <2>2. Fallback(c) => EntryAlive(memory)'
    BY <1>1, <1>5, EntryEvolves
  <2> QED BY <1>1, <1>4, <2>1, <2>2
<1>7. CacheTypeOK'
  BY <1>1, <1>2, <1>3, <1>4 DEF CacheTypeOK, AccessTo
<1>8. AccessKept(s)' /\ ~Setting(s)
  BY <1>1, <1>3 DEF AccessKept, Setting
<1> QED BY <1>1, <1>2, <1>5, <1>6, <1>7, <1>8, CacheStep DEF CacheInv

LEMMA AnswerValueKeeps == ASSUME CacheInv, NEW c \in CacheThreads, AnswerValue(c) PROVE CacheInv'
<1>1. /\ UNCHANGED <<ticks, reachable, redis, memory, breaker, sets, setEnded, dead>>
      /\ AccessTo(c, NoAccess) /\ CacheTypeOK
  BY DEF AnswerValue, CacheInv
<1>2. CacheTypeOK'
  BY <1>1 DEF CacheTypeOK, AccessTo
<1>3. CacheEvolves /\ EntryAlive(redis)' /\ EntryAlive(memory)'
      /\ setEnded' \in [DOMAIN setEnded' -> 0..MaxTicks]
  BY <1>1, CacheBounds, CacheSame
<1>4. AccessKept(NoAccess)' /\ ~Setting(NoAccess)
  BY DEF AccessKept, Setting
<1> QED BY <1>1, <1>2, <1>3, <1>4, CacheStep

-----------------------------------------------------------------------------
LEMMA CacheStarts == CacheInit => CacheInv
<1> SUFFICES ASSUME CacheInit PROVE CacheInv
  OBVIOUS
<1>1. /\ CacheTtl \in Nat \ {0} /\ FailureThreshold \in Nat \ {0}
      /\ RecoveryTicks \in Nat /\ MaxSets \in Nat /\ MaxTicks \in Nat
  BY CacheAssumption DEF CacheAssumption
<1>2. NoEntry \in Entry /\ breaker \in Breaker
  BY <1>1 DEF NoEntry, Entry, Breaker, CacheInit
<1>3. DOMAIN setEnded = {} /\ setEnded \in [DOMAIN setEnded -> 0..MaxTicks]
  BY DEF CacheInit
<1>4. CacheTypeOK
  BY <1>1, <1>2, <1>3 DEF CacheInit, CacheTypeOK
<1>5. EntryAlive(redis) /\ EntryAlive(memory)
  BY <1>1 DEF CacheInit, EntryAlive, NoEntry
<1> QED BY <1>3, <1>4, <1>5 DEF CacheInit, CacheInv, AccessKept, Setting

LEMMA CacheKeeps == CacheInv /\ [CacheNext]_cacheVars => CacheInv'
<1> SUFFICES ASSUME CacheInv, [CacheNext]_cacheVars PROVE CacheInv'
  OBVIOUS
<1>1. ASSUME CacheTick \/ RedisMoves \/ ElsewhereSet \/ ElsewhereDelete PROVE CacheInv'
  BY <1>1, CacheTickKeeps, RedisMovesKeeps, ElsewhereSetKeeps, ElsewhereDeleteKeeps
<1>2. ASSUME NEW c \in CacheThreads,
             \/ Get(c) \/ Set(c) \/ Delete(c) \/ Local(c) \/ Gate(c) \/ Succeeds(c)
             \/ ReadFallback(c) \/ AnswerValue(c)
      PROVE  CacheInv'
  BY <1>2, BeginKeeps, LocalKeeps, GateKeeps, SucceedsKeeps, ReadFallbackKeeps, AnswerValueKeeps
<1>3. ASSUME NEW c \in CacheThreads, NEW reached \in BOOLEAN, Fails(c, reached) PROVE CacheInv'
  BY <1>3, FailsKeeps
<1>4. CASE UNCHANGED cacheVars
  <2>1. CacheTypeOK'
    BY <1>4 DEF cacheVars, CacheInv, CacheTypeOK
  <2>2. ticks' \in Nat /\ ticks <= ticks'
    BY <1>4, CacheBounds DEF cacheVars, CacheInv
  <2> QED BY <1>4, <2>1, <2>2, CacheSame, CacheOutside DEF cacheVars
<1> QED BY <1>1, <1>2, <1>3, <1>4 DEF CacheNext

\* A value is answered as it is found in Redis or in the memory, fresh.
Serves(c) ==
    access'[c].pc = "answered" /\ access[c].pc # "answered" =>
        LET v == access'[c].value
        IN  /\ v \notin access[c].gone
            /\ v \in DOMAIN setEnded => ticks < setEnded[v] + CacheTtl

LEMMA FreshServed ==
    ASSUME CacheInv, NEW e \in {redis, memory}, Fresh(e), NEW c \in CacheThreads,
           access[c].pc # "idle", access[c].op = "get"
    PROVE  /\ e.value \notin access[c].gone
           /\ e.value \in DOMAIN setEnded => ticks < setEnded[e.value] + CacheTtl
<1>1. EntryAlive(e) /\ e.expires > ticks /\ access[c].gone \subseteq dead
  BY AccessIs DEF CacheInv, Fresh, AccessKept
<1>2. ASSUME e.value \in DOMAIN setEnded PROVE ticks < setEnded[e.value] + CacheTtl
  <2>1. e.expires <= setEnded[e.value] + CacheTtl
    BY <1>1, <1>2 DEF EntryAlive
  <2>2. setEnded[e.value] \in Nat /\ CacheTtl \in Nat /\ ticks \in Nat /\ e.expires \in Nat
    BY <1>2, CacheBounds DEF CacheInv
  <2> QED BY <1>1, <2>1, <2>2
<1> QED BY <1>1, <1>2 DEF EntryAlive

LEMMA CacheServes ==
    ASSUME CacheInv, [CacheNext]_cacheVars, NEW c \in CacheThreads PROVE Serves(c)
<1> SUFFICES ASSUME access'[c].pc = "answered", access[c].pc # "answered"
             PROVE  /\ access'[c].value \notin access[c].gone
                    /\ access'[c].value \in DOMAIN setEnded =>
                           ticks < setEnded[access'[c].value] + CacheTtl
  BY DEF Serves
<1>1. access \in [CacheThreads -> {NoAccess} \cup Access]
  BY DEF CacheInv, CacheTypeOK
<1>2. ASSUME NEW d \in CacheThreads, NEW s, AccessTo(d, s), s.pc # "answered" PROVE FALSE
  BY <1>1, <1>2 DEF AccessTo
<1>3. ASSUME NEW d \in CacheThreads, NEW pc \in {"gate", "primary", "fallback"}, AccessAt(d, pc),
             access[d] \in Access
      PROVE  FALSE
  <2>1. [access[d] EXCEPT !.pc = pc].pc = pc
    BY <1>3 DEF Access
  <2>2. AccessTo(d, [access[d] EXCEPT !.pc = pc])
    BY <1>3 DEF AccessAt
  <2> QED BY <1>2, <2>1, <2>2
<1>4. ASSUME NEW d \in CacheThreads, access[d] \in Access, Falls(d) PROVE FALSE
  BY <1>2, <1>3, <1>4 DEF Falls, NoAccess
<1>5. ASSUME NEW d \in CacheThreads, NEW e \in {redis, memory}, Fresh(e),
             access[d].pc \in {"primary", "fallback"}, access[d].op = "get",
             AccessTo(d, [access[d] EXCEPT !.pc = "answered", !.value = e.value])
      PROVE  /\ access'[c].value \notin access[c].gone
             /\ access'[c].value \in DOMAIN setEnded =>
                    ticks < setEnded[access'[c].value] + CacheTtl
  <2>1. access[d] \in Access
    BY <1>1, <1>5 DEF NoAccess
  <2>2. c = d /\ access'[c].value = e.value
    BY <1>1, <1>5, <2>1 DEF AccessTo, Access
  <2> QED BY <1>5, <2>2, FreshServed
<1>6. CASE UNCHANGED access
  BY <1>6
<1>7. CASE CacheTick \/ RedisMoves \/ ElsewhereSet \/ ElsewhereDelete \/ UNCHANGED cacheVars
  BY <1>6, <1>7 DEF CacheTick, RedisMoves, ElsewhereSet, ElsewhereDelete, cacheVars
<1>8. ASSUME NEW d \in CacheThreads, Get(d) \/ Set(d) \/ Delete(d) \/ AnswerValue(d) PROVE FALSE
  BY <1>2, <1>8 DEF Get, Set, Delete, AnswerValue, NoAccess
<1>9. ASSUME NEW d \in CacheThreads, Local(d) \/ Gate(d) PROVE FALSE
  <2>1. access[d] \in Access
    BY <1>1, <1>9 DEF Local, Gate, NoAccess
  <2> QED BY <1>3, <1>4, <1>9, <2>1 DEF Local, Gate
<1>10. ASSUME NEW d \in CacheThreads, NEW reached \in BOOLEAN, Fails(d, reached) PROVE FALSE
  <2>1. access[d] \in Access
    BY <1>1, <1>10 DEF Fails, NoAccess
  <2> QED BY <1>4, <1>10, <2>1 DEF Fails
<1>11. ASSUME NEW d \in CacheThreads, Succeeds(d)
       PROVE  /\ access'[c].value \notin access[c].gone
              /\ access'[c].value \in DOMAIN setEnded =>
                     ticks < setEnded[access'[c].value] + CacheTtl
  <2>1. access[d] \in Access /\ access[d].pc = "primary"
    BY <1>1, <1>11 DEF Succeeds, NoAccess
  <2>2. CASE access[d].op = "get" /\ Fresh(redis)
    BY <1>5, <1>11, <2>1, <2>2 DEF Succeeds
  <2>3. CASE ~(access[d].op = "get" /\ Fresh(redis))
    BY <1>4, <1>11, <2>1, <2>3 DEF Succeeds
  <2> QED BY <2>2, <2>3
<1>12. ASSUME NEW d \in CacheThreads, ReadFallback(d)
       PROVE  /\ access'[c].value \notin access[c].gone
              /\ access'[c].value \in DOMAIN setEnded =>
                     ticks < setEnded[access'[c].value] + CacheTtl
  <2>1. access[d].pc = "fallback" /\ access[d].op = "get"
    BY <1>12, AccessIs DEF ReadFallback, AccessKept
  <2>2. CASE Fallback(d)
    BY <1>5, <1>12, <2>1, <2>2 DEF ReadFallback, Fallback
  <2>3. CASE ~Fallback(d)
    BY <1>2, <1>12, <2>3 DEF ReadFallback, NoAccess
  <2> QED BY <2>2, <2>3
<1> QED BY <1>7, <1>8, <1>9, <1>10, <1>11, <1>12 DEF CacheNext

\* What a process answers was not deleted for good before the get began, and is no older
\* than its lifetime: for any number of threads, lifetime and threshold of the breaker,
\* whatever outages come between a set, a delete and a get (ResilientCacheBackend).
THEOREM CacheServesAlive == CacheInit /\ [][CacheNext]_cacheVars => []CacheTypeOK /\ ServedAlive
<1>1. CacheInv /\ [CacheNext]_cacheVars =>
          [\A c \in CacheThreads : access'[c].pc = "answered" /\ access[c].pc # "answered" =>
               LET v == access'[c].value
               IN  /\ v \notin access[c].gone
                   /\ v \in DOMAIN setEnded => ticks < setEnded[v] + CacheTtl]_cacheVars
  BY CacheServes DEF Serves
<1>2. CacheInv => CacheTypeOK
  BY DEF CacheInv
<1> QED BY CacheStarts, CacheKeeps, <1>1, <1>2, PTL DEF ServedAlive

-----------------------------------------------------------------------------
(***************************************************************************)
(* GraphTraversal                                                          *)
(***************************************************************************)
\* The entities within a distance, as the recursion of the reference definition has them.
Rounds(w) ==
    /\ w[0] = {ask.root}
    /\ \A k \in 0..MaxDepth : k > 0 => w[k] = w[k - 1] \cup UNION {Adjacent(n) : n \in w[k - 1]}

RoundsTo(w, m) ==
    /\ w[0] = {ask.root}
    /\ \A k \in 1..m : w[k] = w[k - 1] \cup UNION {Adjacent(n) : n \in w[k - 1]}

\* Numbers that 0 is among and each one's successor are all numbers.
LEMMA AllNumbers ==
    ASSUME NEW S, 0 \in S, \A n \in Nat : n \in S => n + 1 \in S, NEW m \in Nat
    PROVE  m \in S
<1> SUFFICES ASSUME m \notin S PROVE FALSE
  OBVIOUS
<1> PICK T : T = Nat \ S
  OBVIOUS
<1>1. T \in SUBSET Nat /\ m \in T
  OBVIOUS
<1>2. PICK k \in T : \A l \in T : k <= l
  BY <1>1, NatLeast
<1>3. k \in Nat /\ k # 0
  OBVIOUS
<1>4. k - 1 \in Nat /\ (k - 1) + 1 = k /\ ~(k <= k - 1)
  BY <1>3
<1>5. k - 1 \in S
  BY <1>2, <1>4
<1> QED BY <1>4, <1>5

LEMMA SomeRounds ==
    ASSUME NEW m \in Nat
    PROVE  \E w : DOMAIN w = Nat /\ RoundsTo(w, m)
<1> PICK S : S = {k \in Nat : \E w : DOMAIN w = Nat /\ RoundsTo(w, k)}
  OBVIOUS
<1>1. 0 \in S
  <2> PICK w : w = [k \in Nat |-> {ask.root}]
    OBVIOUS
  <2>1. DOMAIN w = Nat /\ RoundsTo(w, 0)
    BY DEF RoundsTo
  <2> QED BY <2>1
<1>2. ASSUME NEW n \in Nat, n \in S PROVE n + 1 \in S
  <2>1. PICK w : DOMAIN w = Nat /\ RoundsTo(w, n)
    BY <1>2
  <2> PICK v : v = w[n] \cup UNION {Adjacent(e) : e \in w[n]}
    OBVIOUS
  <2> PICK x : x = [k \in Nat |-> IF k = n + 1 THEN v ELSE w[k]]
    OBVIOUS
  <2>2. DOMAIN x = Nat /\ \A k \in 0..n : x[k] = w[k]
    OBVIOUS
  <2>3. x[0] = {ask.root}
    BY <2>1, <2>2 DEF RoundsTo
  <2>4. ASSUME NEW k \in 1..n + 1
        PROVE  x[k] = x[k - 1] \cup UNION {Adjacent(e) : e \in x[k - 1]}
    <3>1. CASE k = n + 1
      <4>1. x[k] = v /\ k - 1 = n /\ x[k - 1] = w[n]
        BY <2>2, <3>1
      <4> QED BY <4>1
    <3>2. CASE k # n + 1
      <4>1. k \in 1..n /\ k - 1 \in 0..n /\ k \in 0..n
        BY <3>2
      <4>2. x[k] = w[k] /\ x[k - 1] = w[k - 1]
        BY <2>2, <4>1
      <4>3. w[k] = w[k - 1] \cup UNION {Adjacent(e) : e \in w[k - 1]}
        BY <2>1, <4>1 DEF RoundsTo
      <4> QED BY <4>2, <4>3
    <3> QED BY <3>1, <3>2
  <2>5. RoundsTo(x, n + 1)
    BY <2>3, <2>4 DEF RoundsTo
  <2> QED BY <2>2, <2>5
<1>3. m \in S
  BY <1>1, <1>2, AllNumbers
<1> QED BY <1>3

\* The reference definition defines something: the recursion has a solution.
LEMMA WithinIs == Rounds(Within)
<1> PICK m \in Nat : m = MaxDepth
  BY TraversalAssumption DEF TraversalAssumption
<1>1. PICK w : DOMAIN w = Nat /\ RoundsTo(w, m)
  BY SomeRounds
<1> PICK x : x = [k \in 0..m |-> w[k]]
  OBVIOUS
<1>2. \A k \in 0..m : x[k] = w[k]
  OBVIOUS
<1>3. ASSUME NEW k \in 0..m
      PROVE  x[k] = IF k = 0 THEN {ask.root} ELSE x[k - 1] \cup UNION {Adjacent(n) : n \in x[k - 1]}
  <2>1. CASE k = 0
    BY <1>1, <1>2, <2>1 DEF RoundsTo
  <2>2. CASE k # 0
    <3>1. k \in 1..m /\ k - 1 \in 0..m
      BY <2>2
    <3>2. w[k] = w[k - 1] \cup UNION {Adjacent(n) : n \in w[k - 1]}
      BY <1>1, <3>1 DEF RoundsTo
    <3>3. x[k] = w[k] /\ x[k - 1] = w[k - 1]
      BY <1>2, <3>1
    <3> QED BY <2>2, <3>2, <3>3
  <2> QED BY <2>1, <2>2
<1> DEFINE Solves(f) == f = [k \in 0..MaxDepth |->
             IF k = 0 THEN {ask.root} ELSE f[k - 1] \cup UNION {Adjacent(n) : n \in f[k - 1]}]
<1>4. Solves(x)
  BY <1>3
<1>5. Solves(CHOOSE f : Solves(f))
  <2> HIDE DEF Solves
  <2> QED BY <1>4, Zenon
<1>9. Within = CHOOSE f : Solves(f)
  BY DEF Within
<1>10. Solves(Within)
  <2> HIDE DEF Solves
  <2> QED BY <1>5, <1>9
<1> PICK y : y = Within
  OBVIOUS
<1>6. y = [k \in 0..m |->
             IF k = 0 THEN {ask.root} ELSE y[k - 1] \cup UNION {Adjacent(n) : n \in y[k - 1]}]
  BY <1>10
<1>7. y[0] = {ask.root}
  BY <1>6
<1>8. ASSUME NEW k \in 0..m, k > 0 PROVE y[k] = y[k - 1] \cup UNION {Adjacent(n) : n \in y[k - 1]}
  <2>1. k # 0
    BY <1>8
  <2> QED BY <1>6, <2>1
<1> QED BY <1>7, <1>8 DEF Rounds

\* What is within a distance is within a greater one.
LEMMA WithinGrows ==
    ASSUME NEW j \in 0..MaxDepth, NEW k \in 0..MaxDepth, j <= k
    PROVE  Within[j] \subseteq Within[k]
<1> PICK m \in Nat : m = MaxDepth
  BY TraversalAssumption DEF TraversalAssumption
<1> PICK w : w = Within
  OBVIOUS
<1> PICK S : S = {i \in Nat : j + i \in 0..m => w[j] \subseteq w[j + i]}
  OBVIOUS
<1>1. 0 \in S
  OBVIOUS
<1>2. ASSUME NEW n \in Nat, n \in S PROVE n + 1 \in S
  <2> SUFFICES ASSUME j + (n + 1) \in 0..m PROVE w[j] \subseteq w[j + (n + 1)]
    OBVIOUS
  <2> PICK l \in Nat : l = j + n
    OBVIOUS
  <2>1. l \in 0..m /\ l + 1 \in 0..m /\ j + (n + 1) = l + 1 /\ (l + 1) - 1 = l /\ l + 1 > 0
    OBVIOUS
  <2>2. w[j] \subseteq w[l]
    BY <1>2, <2>1
  <2>3. w[l] \subseteq w[l + 1]
    BY <2>1, WithinIs DEF Rounds
  <2> QED BY <2>1, <2>2, <2>3
<1>3. k - j \in Nat /\ j + (k - j) = k
  OBVIOUS
<1>4. k - j \in S
  BY <1>1, <1>2, <1>3, AllNumbers
<1> QED BY <1>3, <1>4

\* The same relationships, the same distances.
LEMMA WithinStays ==
    ASSUME UNCHANGED <<edges, ask>>, NEW k \in 0..MaxDepth
    PROVE  Within'[k] = Within[k]
<1> PICK m \in Nat : m = MaxDepth
  BY TraversalAssumption DEF TraversalAssumption
<1> PICK w : w = Within
  OBVIOUS
<1> PICK x : x = Within'
  OBVIOUS
<1>1. /\ w[0] = {ask.root}
      /\ \A i \in 0..m : i > 0 => w[i] = w[i - 1] \cup UNION {Adjacent(n) : n \in w[i - 1]}
  BY WithinIs DEF Rounds
<1>2. (Rounds(Within))'
  BY WithinIs, PTL
<1>3. \A n : Adjacent(n)' = Adjacent(n)
  BY DEF Adjacent, Outgoing, Incoming
<1>4. /\ x[0] = {ask.root}
      /\ \A i \in 0..m : i > 0 => x[i] = x[i - 1] \cup UNION {Adjacent(n) : n \in x[i - 1]}
  BY <1>2, <1>3 DEF Rounds
<1> PICK S : S = {i \in Nat : i \in 0..m => x[i] = w[i]}
  OBVIOUS
<1>5. 0 \in S
  BY <1>1, <1>4
<1>6. ASSUME NEW n \in Nat, n \in S PROVE n + 1 \in S
  <2> SUFFICES ASSUME n + 1 \in 0..m PROVE x[n + 1] = w[n + 1]
    OBVIOUS
  <2>1. n \in 0..m /\ (n + 1) - 1 = n /\ n + 1 > 0
    OBVIOUS
  <2>2. x[n] = w[n]
    BY <1>6, <2>1
  <2>3. /\ x[n + 1] = x[n] \cup UNION {Adjacent(e) : e \in x[n]}
        /\ w[n + 1] = w[n] \cup UNION {Adjacent(e) : e \in w[n]}
    BY <1>1, <1>4, <2>1
  <2> QED BY <2>2, <2>3
<1>7. k \in S
  BY <1>5, <1>6, AllNumbers
<1> QED BY <1>7

\* A finite set of entities is put in order, and each of them is in it.
LEMMA ByIdIs ==
    ASSUME NEW S, S \subseteq Nodes
    PROVE  /\ ById(S) \in [1..Cardinality(S) -> S] /\ Cardinality(S) \in Nat
           /\ \A n \in S : \E i \in 1..Cardinality(S) : ById(S)[i] = n
<1> PICK c : c = Cardinality(S)
  OBVIOUS
<1>1. IsFiniteSet(S) /\ c \in Nat /\ S \subseteq Nat
  BY TraversalAssumption, FS_Subset, FS_CardinalityType DEF TraversalAssumption
<1> PICK h : h = [n \in S |-> n]
  OBVIOUS
<1>2. PICK q : Arranges(q, h, S)
  BY <1>1, SortedArrangement
<1>3. /\ q \in [1..c -> S] /\ S = {q[i] : i \in 1..c}
      /\ \A i, j \in 1..c : i < j => h[q[i]] <= h[q[j]]
  BY <1>2 DEF Arranges
<1>4. IsFiniteSet(1..c) /\ Cardinality(1..c) = c
  BY <1>1, FS_Interval
<1>5. \A i, j \in 1..c : q[i] = q[j] => i = j
  <2>1. q \in Surjection(1..c, S)
    BY <1>3 DEF Surjection
  <2>2. q \in Injection(1..c, S)
    BY <1>1, <1>4, <2>1, FS_SurjSameCardinalityImpliesInj
  <2> QED BY <2>2 DEF Injection, IsInjective
<1>6. \A i, j \in 1..c : i < j => q[i] < q[j]
  <2> SUFFICES ASSUME NEW i \in 1..c, NEW j \in 1..c, i < j PROVE q[i] < q[j]
    OBVIOUS
  <2>1. q[i] \in Nat /\ q[j] \in Nat /\ q[i] \in S /\ q[j] \in S
    BY <1>1, <1>3
  <2>2. i # j
    BY <1>1
  <2>3. q[i] # q[j]
    BY <1>5, <2>2
  <2>4. h[q[i]] <= h[q[j]]
    BY <1>3
  <2>5. q[i] <= q[j]
    BY <2>1, <2>4
  <2> QED BY <2>1, <2>3, <2>5
<1> PICK o : o = ById(S)
  OBVIOUS
<1>7. o \in [1..c -> S] /\ \A i, j \in 1..c : i < j => o[i] < o[j]
  BY <1>3, <1>6 DEF ById
<1>8. \A i, j \in 1..c : o[i] = o[j] => i = j
  <2> SUFFICES ASSUME NEW i \in 1..c, NEW j \in 1..c, o[i] = o[j], i # j PROVE FALSE
    OBVIOUS
  <2>1. o[i] \in Nat /\ o[j] \in Nat
    BY <1>1, <1>7
  <2>2. i < j \/ j < i
    OBVIOUS
  <2> QED BY <1>7, <2>1, <2>2
<1> PICK R : R = {o[i] : i \in 1..c}
  OBVIOUS
<1>9. R = S
  <2>1. o \in Bijection(1..c, R)
    BY <1>7, <1>8 DEF Bijection, Injection, Surjection, IsInjective
  <2>2. Cardinality(R) = c
    BY <1>4, <2>1, FS_Bijection DEF ExistsBijection
  <2>3. R \in SUBSET S
    BY <1>7
  <2> QED BY <1>1, <2>2, <2>3, FS_Subset
<1>10. \A n \in S : \E i \in 1..c : o[i] = n
  BY <1>9
<1> QED BY <1>1, <1>7, <1>10

-----------------------------------------------------------------------------
Pending(n) == \E i \in 1..Len(queue) : queue[i] = n

AskedOK ==
    /\ edges \subseteq Relations /\ ask \in Neighbors
    /\ DOMAIN visited \subseteq Nodes /\ ask.root \in DOMAIN visited
    /\ visited \in [DOMAIN visited -> Nat]

\* An entity was found as near as it is.
DistanceOK ==
    \A n \in DOMAIN visited :
        /\ visited[n] <= ask.depth
        /\ n \in Within[visited[n]]
        /\ visited[n] > 0 => n \notin Within[visited[n] - 1]

\* The queue goes outward, and never more than one step further than its head.
QueueOK ==
    /\ queue \in Seq(DOMAIN visited)
    /\ \A i, j \in 1..Len(queue) : i <= j =>
           visited[queue[i]] <= visited[queue[j]] /\ visited[queue[j]] <= visited[queue[i]] + 1

\* Everything no farther than the head was found.
FrontierOK == queue # <<>> => Within[visited[queue[1]]] \subseteq DOMAIN visited

\* What is not to be looked at again was followed; and nothing else.
FollowedOK ==
    \A n \in DOMAIN visited : visited[n] < ask.depth /\ ~Pending(n) =>
        Adjacent(n) \subseteq DOMAIN visited /\ Outgoing(n) \cup Incoming(n) \subseteq traversed
TraversedOK ==
    \A e \in traversed : \E n \in DOMAIN visited :
        visited[n] < ask.depth /\ e \in Outgoing(n) \cup Incoming(n)

TraversalInv == AskedOK /\ DistanceOK /\ QueueOK /\ FrontierOK /\ FollowedOK /\ TraversedOK

LEMMA DepthIs == ASSUME AskedOK PROVE ask.depth \in 1..MaxDepth /\ ask.depth \in Nat /\ MaxDepth \in Nat
  BY TraversalAssumption DEF AskedOK, Neighbors, TraversalAssumption

LEMMA AdjacentIn == ASSUME AskedOK, NEW n PROVE Adjacent(n) \subseteq Nodes
<1>1. \A e \in edges : e[1] \in Nodes /\ e[2] \in Nodes
  BY TraversalAssumption DEF AskedOK, TraversalAssumption
<1> QED BY <1>1 DEF Adjacent, Outgoing, Incoming

\* An entity that is so near has been found so near.
LEMMA NearIsFound ==
    ASSUME AskedOK, DistanceOK, NEW n \in DOMAIN visited, NEW k \in 0..MaxDepth, n \in Within[k]
    PROVE  visited[n] <= k
<1> PICK v \in Nat : v = visited[n]
  BY DEF AskedOK
<1> SUFFICES ASSUME ~(v <= k) PROVE FALSE
  OBVIOUS
<1>1. v <= ask.depth /\ (v > 0 => n \notin Within[v - 1])
  BY DEF DistanceOK
<1>2. v > 0 /\ v - 1 \in 0..MaxDepth /\ k <= v - 1
  BY <1>1, DepthIs
<1>3. Within[k] \subseteq Within[v - 1]
  BY <1>2, WithinGrows
<1> QED BY <1>1, <1>2, <1>3

\* When the head is the first of its distance, everything nearer was followed.
FrontierStep ==
    AskedOK /\ DistanceOK /\ QueueOK /\ FollowedOK /\ queue # <<>> =>
        \A d \in Nat : visited[queue[1]] = d + 1 /\ Within[d] \subseteq DOMAIN visited
                        => Within[d + 1] \subseteq DOMAIN visited

LEMMA FrontierMoves == FrontierStep
<1> SUFFICES ASSUME AskedOK, DistanceOK, QueueOK, FollowedOK, queue # <<>>, NEW d \in Nat,
                    visited[queue[1]] = d + 1, Within[d] \subseteq DOMAIN visited
             PROVE  Within[d + 1] \subseteq DOMAIN visited
  BY DEF FrontierStep
<1>1. Len(queue) \in Nat \ {0} /\ queue[1] \in DOMAIN visited /\ 1 \in 1..Len(queue)
  <2>1. Len(queue) \in Nat \ {0}
    BY EmptySeq DEF QueueOK
  <2> QED BY <2>1, ElementOfSeq DEF QueueOK
<1>2. d + 1 <= ask.depth /\ d + 1 \in 0..MaxDepth /\ d \in 0..MaxDepth /\ d < ask.depth
  <2>1. d + 1 <= ask.depth
    BY <1>1 DEF DistanceOK
  <2> QED BY <2>1, DepthIs
<1>3. ASSUME NEW n \in Within[d] PROVE Adjacent(n) \subseteq DOMAIN visited
  <2>1. n \in DOMAIN visited /\ visited[n] \in Nat
    BY DEF AskedOK
  <2>2. visited[n] <= d
    BY <1>2, <2>1, NearIsFound
  <2>3. ~Pending(n)
    <3> SUFFICES ASSUME NEW i \in 1..Len(queue), queue[i] = n PROVE FALSE
      BY DEF Pending
    <3>1. 1 <= i /\ i \in 1..Len(queue)
      OBVIOUS
    <3>2. visited[queue[1]] <= visited[queue[i]]
      BY <1>1, <3>1 DEF QueueOK
    <3> QED BY <2>1, <2>2, <3>2
  <2>4. visited[n] < ask.depth
    BY <1>2, <2>1, <2>2, DepthIs
  <2> QED BY <2>1, <2>3, <2>4 DEF FollowedOK
<1>4. Within[d + 1] = Within[d] \cup UNION {Adjacent(n) : n \in Within[d]}
  <2>1. (d + 1) - 1 = d /\ d + 1 > 0
    OBVIOUS
  <2> QED BY <1>2, <2>1, WithinIs DEF Rounds
<1> QED BY <1>3, <1>4

\* When nothing is left to look at, all that is within the depth was found.
LEMMA AllFound ==
    ASSUME TraversalInv, queue = <<>>, NEW k \in 0..MaxDepth, k <= ask.depth
    PROVE  Within[k] \subseteq DOMAIN visited
<1> PICK m \in Nat : m = ask.depth /\ m <= MaxDepth
  BY DepthIs DEF TraversalInv
<1> PICK S : S = {i \in Nat : i <= m => Within[i] \subseteq DOMAIN visited}
  OBVIOUS
<1>1. 0 \in S
  BY WithinIs DEF Rounds, TraversalInv, AskedOK
<1>2. ASSUME NEW i \in Nat, i \in S PROVE i + 1 \in S
  <2> SUFFICES ASSUME i + 1 <= m PROVE Within[i + 1] \subseteq DOMAIN visited
    OBVIOUS
  <2>1. Within[i] \subseteq DOMAIN visited
    BY <1>2
  <2>2. ASSUME NEW n \in Within[i] PROVE Adjacent(n) \subseteq DOMAIN visited
    <3>1. n \in DOMAIN visited /\ visited[n] \in Nat /\ i \in 0..MaxDepth
      BY <2>1, DepthIs DEF TraversalInv, AskedOK
    <3>2. visited[n] <= i
      BY <3>1, NearIsFound DEF TraversalInv
    <3>3. visited[n] < ask.depth
      BY <3>1, <3>2
    <3>4. ~Pending(n)
      <4>1. Len(queue) = 0
        BY EmptySeq
      <4> QED BY <4>1 DEF Pending
    <3> QED BY <3>1, <3>3, <3>4 DEF TraversalInv, FollowedOK
  <2>3. Within[i + 1] = Within[i] \cup UNION {Adjacent(n) : n \in Within[i]}
    <3>1. (i + 1) - 1 = i /\ i + 1 > 0 /\ i + 1 \in 0..MaxDepth
      BY DepthIs DEF TraversalInv
    <3> QED BY <3>1, WithinIs DEF Rounds
  <2> QED BY <2>1, <2>2, <2>3
<1>3. k \in S
  BY <1>1, <1>2, AllNumbers
<1> QED BY <1>3

-----------------------------------------------------------------------------
\* What Visit leaves of the queue, and what it puts behind it.
Behind(D, S, q, c, s, z) ==
    q \in Seq(D) /\ q # <<>> /\ c \in Nat /\ s \in [1..c -> S] /\ z = Tail(q) \o s
Then(D, S, q, c, s, z) ==
    /\ z \in Seq(D \cup S) /\ Len(q) \in Nat /\ Len(q) >= 1
    /\ Len(z) = Len(q) - 1 + c
    /\ \A i \in 1..Len(q) - 1 : z[i] = q[i + 1]
    /\ \A i \in 1..c : z[Len(q) - 1 + i] = s[i]
    /\ \A i \in 1..Len(q) - 1 + c : i \in 1..Len(q) - 1 \/ i - (Len(q) - 1) \in 1..c

LEMMA QueueAfter ==
    ASSUME NEW D, NEW S, NEW q, NEW c, NEW s, NEW z, Behind(D, S, q, c, s, z)
    PROVE  Then(D, S, q, c, s, z)
<1>0. q \in Seq(D) /\ q # <<>> /\ c \in Nat /\ s \in [1..c -> S] /\ z = Tail(q) \o s
  BY DEF Behind
<1> PICK t : t = Tail(q)
  OBVIOUS
<1>1. /\ t \in Seq(D) /\ Len(t) = Len(q) - 1 /\ Len(q) \in Nat /\ Len(q) >= 1
      /\ \A i \in 1..Len(t) : t[i] = q[i + 1]
  BY <1>0, EmptySeq, HeadTailProperties
<1>2. t \in Seq(D \cup S) /\ s \in Seq(D \cup S) /\ Len(s) = c
  <2>1. t \in Seq(D \cup S)
    BY <1>1, SeqMonotonic
  <2>2. s \in [1..c -> D \cup S]
    BY <1>0
  <2> QED BY <1>0, <2>1, <2>2
<1>3. /\ z \in Seq(D \cup S) /\ Len(z) = Len(t) + Len(s)
      /\ \A i \in 1..Len(t) + Len(s) : z[i] = IF i <= Len(t) THEN t[i] ELSE s[i - Len(t)]
  BY <1>0, <1>2, ConcatProperties
<1>4. \A i \in 1..Len(q) - 1 : z[i] = q[i + 1]
  BY <1>0, <1>1, <1>2, <1>3
<1>5. ASSUME NEW i \in 1..c PROVE z[Len(q) - 1 + i] = s[i]
  <2>3. Len(q) - 1 \in Nat
    BY <1>1
  <2> PICK k \in Nat : k = Len(q) - 1
    BY <2>3
  <2>1. k + i \in 1..k + c /\ ~(k + i <= k) /\ (k + i) - k = i /\ Len(t) = k
    BY <1>0, <1>1
  <2>2. z[k + i] = s[(k + i) - k]
    BY <1>2, <1>3, <2>1
  <2> QED BY <2>1, <2>2
<1>6. \A i \in 1..Len(q) - 1 + c : i \in 1..Len(q) - 1 \/ i - (Len(q) - 1) \in 1..c
  BY <1>0, <1>1
<1> QED BY <1>1, <1>2, <1>3, <1>4, <1>5, <1>6 DEF Then

\* A round, whether or not it goes further: what was found stays, what is new is one step
\* from the head, and waits.
Round(new, s) ==
    /\ queue # <<>> /\ UNCHANGED <<edges, ask>>
    /\ new \subseteq Nodes /\ new \cap DOMAIN visited = {}
    /\ s \in [1..Cardinality(new) -> new] /\ Cardinality(new) \in Nat
    /\ \A m \in new : \E i \in 1..Cardinality(new) : s[i] = m
    /\ new \subseteq Adjacent(queue[1])
    /\ new # {} => visited[queue[1]] < ask.depth
    /\ DOMAIN visited' = DOMAIN visited \cup new
    /\ \A n \in DOMAIN visited : visited'[n] = visited[n]
    /\ \A n \in new : visited'[n] = visited[queue[1]] + 1
    /\ visited' \in [DOMAIN visited' -> Nat]
    /\ queue' = Tail(queue) \o s

LEMMA HeadIs ==
    ASSUME AskedOK, QueueOK, queue # <<>>
    PROVE  /\ queue[1] \in DOMAIN visited /\ Head(queue) = queue[1] /\ visited[queue[1]] \in Nat
           /\ Len(queue) \in Nat /\ Len(queue) >= 1
           /\ \A i \in 1..Len(queue) : queue[i] \in DOMAIN visited /\ visited[queue[i]] \in Nat
<1>1. Len(queue) \in Nat /\ Len(queue) >= 1 /\ queue \in Seq(DOMAIN visited)
  BY EmptySeq DEF QueueOK
<1>2. \A i \in 1..Len(queue) : queue[i] \in DOMAIN visited /\ visited[queue[i]] \in Nat
  BY <1>1, ElementOfSeq DEF AskedOK
<1>3. 1 \in 1..Len(queue) /\ Head(queue) = queue[1]
  BY <1>1
<1> QED BY <1>1, <1>2, <1>3

\* The adjacent entities and relationships of an entity are the same after a step.
LEMMA AdjacentStays ==
    ASSUME UNCHANGED <<edges, ask>>, NEW n
    PROVE  Adjacent(n)' = Adjacent(n) /\ Outgoing(n)' = Outgoing(n) /\ Incoming(n)' = Incoming(n)
  BY DEF Adjacent, Outgoing, Incoming

LEMMA RoundDistances ==
    ASSUME TraversalInv, NEW new, NEW s, Round(new, s) PROVE DistanceOK'
<1> PICK d \in Nat : d = visited[queue[1]]
  BY HeadIs DEF TraversalInv, Round
<1>1. /\ d <= ask.depth /\ queue[1] \in Within[d] /\ Within[d] \subseteq DOMAIN visited
  BY HeadIs DEF TraversalInv, Round, DistanceOK, FrontierOK
<1>2. /\ ask' = ask /\ DOMAIN visited' = DOMAIN visited \cup new
      /\ \A n \in DOMAIN visited : visited'[n] = visited[n]
      /\ \A n \in new : visited'[n] = d + 1 /\ n \in Adjacent(queue[1]) /\ n \notin DOMAIN visited /\ d < ask.depth
  BY DEF Round
<1>3. \A k \in 0..MaxDepth : Within'[k] = Within[k]
  BY WithinStays DEF Round
<1>4. ASSUME NEW n \in DOMAIN visited
      PROVE  /\ visited'[n] <= ask'.depth /\ n \in Within'[visited'[n]]
             /\ visited'[n] > 0 => n \notin Within'[visited'[n] - 1]
  <2> PICK v \in Nat : v = visited[n]
    BY DEF TraversalInv, AskedOK
  <2>1. v <= ask.depth /\ n \in Within[v] /\ (v > 0 => n \notin Within[v - 1])
    BY DEF TraversalInv, DistanceOK
  <2>2. v \in 0..MaxDepth /\ (v > 0 => v - 1 \in 0..MaxDepth)
    BY <2>1, DepthIs DEF TraversalInv
  <2>3. n \in Within'[v] /\ (v > 0 => n \notin Within'[v - 1])
    BY <1>3, <2>1, <2>2
  <2> QED BY <1>2, <2>1, <2>3
<1>5. ASSUME NEW n \in new
      PROVE  /\ visited'[n] <= ask'.depth /\ n \in Within'[visited'[n]]
             /\ visited'[n] > 0 => n \notin Within'[visited'[n] - 1]
  <2>1. d + 1 <= ask.depth /\ d \in 0..MaxDepth /\ d + 1 \in 0..MaxDepth /\ (d + 1) - 1 = d /\ d + 1 > 0
    BY <1>2, DepthIs DEF TraversalInv
  <2>2. Within[d + 1] = Within[d] \cup UNION {Adjacent(e) : e \in Within[d]}
    BY <2>1, WithinIs DEF Rounds
  <2>3. n \in Within[d + 1] /\ n \notin Within[d]
    BY <1>1, <1>2, <2>2
  <2>4. n \in Within'[d + 1] /\ n \notin Within'[d]
    BY <1>3, <2>1, <2>3
  <2>5. visited'[n] = d + 1
    BY <1>2
  <2> QED BY <1>2, <2>1, <2>4, <2>5
<1> QED BY <1>2, <1>4, <1>5 DEF DistanceOK

\* The queue after a round, by where each of it comes from.
QueueIs(new, s, d, c, l) ==
    /\ d = visited[queue[1]] /\ l = Len(queue) - 1 /\ c = Cardinality(new)
    /\ queue' \in Seq(DOMAIN visited') /\ Len(queue') = l + c
    /\ \A i \in 1..l : queue'[i] = queue[i + 1] /\ i + 1 \in 1..Len(queue)
    /\ \A i \in 1..c : queue'[l + i] = s[i]
    /\ \A i \in 1..l : visited'[queue'[i]] = visited[queue[i + 1]]
    /\ \A i \in 1..l + c : ~(i \in 1..l) => visited'[queue'[i]] = d + 1

LEMMA RoundQueue ==
    ASSUME TraversalInv, NEW new, NEW s, Round(new, s)
    PROVE  \E d, c, l \in Nat : QueueIs(new, s, d, c, l)
<1>1. /\ visited[queue[1]] \in Nat /\ Len(queue) \in Nat /\ Len(queue) >= 1 /\ Cardinality(new) \in Nat
      /\ Len(queue) - 1 \in Nat
  BY HeadIs DEF TraversalInv, Round
<1> PICK d \in Nat : d = visited[queue[1]]
  BY <1>1
<1> PICK c \in Nat : c = Cardinality(new)
  BY <1>1
<1> PICK l \in Nat : l = Len(queue) - 1
  BY <1>1
<1> PICK D : D = DOMAIN visited
  OBVIOUS
<1> PICK z : z = Tail(queue) \o s
  OBVIOUS
<1>2. /\ queue \in Seq(D) /\ queue # <<>> /\ s \in [1..c -> new]
      /\ queue' = z /\ DOMAIN visited' = D \cup new
  BY DEF TraversalInv, QueueOK, Round
<1>3. /\ z \in Seq(D \cup new) /\ Len(z) = Len(queue) - 1 + c
      /\ \A i \in 1..Len(queue) - 1 : z[i] = queue[i + 1]
      /\ \A i \in 1..c : z[Len(queue) - 1 + i] = s[i]
      /\ \A i \in 1..Len(queue) - 1 + c : i \in 1..Len(queue) - 1 \/ i - (Len(queue) - 1) \in 1..c
  <2>1. Behind(D, new, queue, c, s, z)
    BY <1>2 DEF Behind
  <2>2. Then(D, new, queue, c, s, z)
    BY <2>1, QueueAfter
  <2> QED BY <2>2 DEF Then
<1>4. /\ z \in Seq(D \cup new) /\ Len(z) = l + c
      /\ \A i \in 1..l : z[i] = queue[i + 1]
      /\ \A i \in 1..c : z[l + i] = s[i]
      /\ \A i \in 1..l + c : i \in 1..l \/ i - l \in 1..c
  BY <1>3
<1>5. \A i \in 1..l : i + 1 \in 1..Len(queue)
  BY <1>1
<1>6. ASSUME NEW i \in 1..l PROVE visited'[z[i]] = visited[queue[i + 1]]
  <2>1. z[i] = queue[i + 1] /\ i + 1 \in 1..Len(queue)
    BY <1>4, <1>5
  <2>2. queue[i + 1] \in DOMAIN visited
    BY <1>2, <2>1, ElementOfSeq
  <2> QED BY <2>1, <2>2 DEF Round
<1>7. ASSUME NEW i \in 1..l + c, ~(i \in 1..l) PROVE visited'[z[i]] = d + 1
  <2>1. i - l \in 1..c /\ l + (i - l) = i
    BY <1>4, <1>7
  <2>3. PICK k \in 1..c : l + k = i
    BY <2>1
  <2>2. z[i] \in new
    BY <1>2, <1>4, <2>3
  <2> QED BY <2>2 DEF Round
<1>8. QueueIs(new, s, d, c, l)
  BY <1>2, <1>4, <1>5, <1>6, <1>7 DEF QueueIs
<1> QED BY <1>8

LEMMA RoundQueueOK ==
    ASSUME TraversalInv, NEW new, NEW s, Round(new, s) PROVE QueueOK'
<1>1. /\ visited[queue[1]] \in Nat /\ Len(queue) \in Nat /\ Len(queue) >= 1 /\ Cardinality(new) \in Nat
      /\ \A i \in 1..Len(queue) : visited[queue[i]] \in Nat
  BY HeadIs DEF TraversalInv, Round
<1> PICK d \in Nat, c \in Nat, l \in Nat : QueueIs(new, s, d, c, l)
  BY RoundQueue
<1>2. /\ queue' \in Seq(DOMAIN visited') /\ Len(queue') = l + c
      /\ d = visited[queue[1]]
      /\ \A i \in 1..l : queue'[i] = queue[i + 1] /\ i + 1 \in 1..Len(queue)
      /\ \A i \in 1..l : visited'[queue'[i]] = visited[queue[i + 1]]
      /\ \A i \in 1..l + c : ~(i \in 1..l) => visited'[queue'[i]] = d + 1
  BY DEF QueueIs
<1>3. \A i, j \in 1..Len(queue) : i <= j =>
          visited[queue[i]] <= visited[queue[j]] /\ visited[queue[j]] <= visited[queue[i]] + 1
  BY DEF TraversalInv, QueueOK
<1>4. \A i \in 1..Len(queue) : d <= visited[queue[i]] /\ visited[queue[i]] <= d + 1
  <2> SUFFICES ASSUME NEW i \in 1..Len(queue)
               PROVE  d <= visited[queue[i]] /\ visited[queue[i]] <= d + 1
    OBVIOUS
  <2>1. 1 \in 1..Len(queue) /\ 1 <= i
    BY <1>1
  <2> QED BY <1>2, <1>3, <2>1
<1>5. ASSUME NEW i \in 1..l + c, NEW j \in 1..l + c, i <= j
      PROVE  /\ visited'[queue'[i]] <= visited'[queue'[j]]
             /\ visited'[queue'[j]] <= visited'[queue'[i]] + 1
  <2>1. CASE i \in 1..l /\ j \in 1..l
    <3>1. i + 1 \in 1..Len(queue) /\ j + 1 \in 1..Len(queue) /\ i + 1 <= j + 1
      BY <1>2, <1>5, <2>1
    <3> QED BY <1>2, <1>3, <2>1, <3>1
  <2>2. CASE i \in 1..l /\ ~(j \in 1..l)
    <3>1. i + 1 \in 1..Len(queue)
      BY <1>2, <2>2
    <3> PICK v \in Nat : v = visited[queue[i + 1]]
      BY <1>1, <3>1
    <3>2. d <= v /\ v <= d + 1
      BY <1>4, <3>1
    <3>3. visited'[queue'[i]] = v /\ visited'[queue'[j]] = d + 1
      BY <1>2, <2>2
    <3>4. v <= d + 1 /\ d + 1 <= v + 1
      BY <3>2
    <3> QED BY <3>3, <3>4
  <2>3. CASE ~(i \in 1..l)
    <3>1. ~(j \in 1..l)
      BY <1>5, <2>3
    <3>2. visited'[queue'[i]] = d + 1 /\ visited'[queue'[j]] = d + 1
      BY <1>2, <2>3, <3>1
    <3> QED BY <3>2
  <2> QED BY <2>1, <2>2, <2>3
<1> QED BY <1>2, <1>5 DEF QueueOK

\* What waits after a round: all that waited, but for the head, and all that is new.
LEMMA RoundPending ==
    ASSUME TraversalInv, NEW new, NEW s, Round(new, s), NEW n, ~Pending(n)'
    PROVE  n \notin new /\ (Pending(n) => n = queue[1])
<1>1. Len(queue) \in Nat /\ Len(queue) >= 1 /\ Cardinality(new) \in Nat /\ visited[queue[1]] \in Nat
  BY HeadIs DEF TraversalInv, Round
<1> PICK d \in Nat, c \in Nat, l \in Nat : QueueIs(new, s, d, c, l)
  BY RoundQueue
<1>2. /\ Len(queue') = l + c /\ l = Len(queue) - 1 /\ c = Cardinality(new)
      /\ \A i \in 1..l : queue'[i] = queue[i + 1]
      /\ \A i \in 1..c : queue'[l + i] = s[i]
  BY DEF QueueIs
<1>3. \A i \in 1..l + c : queue'[i] # n
  BY <1>2 DEF Pending
<1>4. n \notin new
  <2> SUFFICES ASSUME n \in new PROVE FALSE
    OBVIOUS
  <2>1. PICK i \in 1..c : s[i] = n
    BY <1>2 DEF Round
  <2>2. l + i \in 1..l + c
    OBVIOUS
  <2> QED BY <1>2, <1>3, <2>1, <2>2
<1>5. ASSUME Pending(n), n # queue[1] PROVE FALSE
  <2>1. PICK i \in 1..Len(queue) : queue[i] = n
    BY <1>5 DEF Pending
  <2>2. i - 1 \in 1..l /\ (i - 1) + 1 = i /\ i - 1 \in 1..l + c
    BY <1>1, <1>2, <1>5, <2>1
  <2> QED BY <1>2, <1>3, <2>1, <2>2
<1> QED BY <1>4, <1>5

\* Everything no farther than the new head was found.
LEMMA RoundFrontier ==
    ASSUME TraversalInv, NEW new, NEW s, Round(new, s), AskedOK', DistanceOK', QueueOK', FollowedOK'
    PROVE  FrontierOK'
<1> SUFFICES ASSUME queue' # <<>> PROVE Within'[visited'[queue'[1]]] \subseteq DOMAIN visited'
  BY DEF FrontierOK
<1> PICK d \in Nat, c \in Nat, l \in Nat : QueueIs(new, s, d, c, l)
  BY RoundQueue
<1>1. /\ Len(queue') = l + c /\ d = visited[queue[1]] /\ l = Len(queue) - 1
      /\ queue' \in Seq(DOMAIN visited')
      /\ \A i \in 1..l : visited'[queue'[i]] = visited[queue[i + 1]]
      /\ \A i \in 1..l + c : ~(i \in 1..l) => visited'[queue'[i]] = d + 1
  BY DEF QueueIs
<1>2. 1 \in 1..l + c
  <2>1. Len(queue') \in Nat \ {0}
    BY <1>1, EmptySeq
  <2> QED BY <1>1, <2>1
<1>3. Within[d] \subseteq DOMAIN visited /\ d \in 0..MaxDepth /\ d <= ask.depth
  <2>1. Within[d] \subseteq DOMAIN visited
    BY <1>1 DEF TraversalInv, FrontierOK, Round
  <2>2. d <= ask.depth
    BY <1>1, HeadIs DEF TraversalInv, DistanceOK, Round
  <2> QED BY <2>1, <2>2, DepthIs DEF TraversalInv
<1>4. Within'[d] \subseteq DOMAIN visited'
  BY <1>3, WithinStays DEF Round
<1>5. visited'[queue'[1]] = d \/ visited'[queue'[1]] = d + 1
  <2>1. CASE 1 \in 1..l
    <3>1. 1 \in 1..Len(queue) /\ 2 \in 1..Len(queue) /\ visited'[queue'[1]] = visited[queue[2]]
      BY <1>1, <2>1
    <3>2. visited[queue[1]] <= visited[queue[2]] /\ visited[queue[2]] <= visited[queue[1]] + 1
      BY <3>1 DEF TraversalInv, QueueOK
    <3>3. visited[queue[2]] \in Nat
      BY <3>1, HeadIs DEF TraversalInv, Round
    <3> QED BY <1>1, <3>1, <3>2, <3>3
  <2>2. CASE ~(1 \in 1..l)
    BY <1>1, <1>2, <2>2
  <2> QED BY <2>1, <2>2
<1>6. CASE visited'[queue'[1]] = d
  BY <1>4, <1>6
<1>7. CASE visited'[queue'[1]] = d + 1
  <2>1. FrontierStep'
    BY FrontierMoves, PTL
  <2>2. \A e \in Nat : visited'[queue'[1]] = e + 1 /\ Within'[e] \subseteq DOMAIN visited'
                       => Within'[e + 1] \subseteq DOMAIN visited'
    BY <2>1 DEF FrontierStep
  <2>3. Within'[d + 1] \subseteq DOMAIN visited'
    BY <1>4, <1>7, <2>2
  <2> QED BY <1>7, <2>3
<1> QED BY <1>5, <1>6, <1>7

\* What is not to be looked at again after a round, was followed.
LEMMA RoundFollowed ==
    ASSUME TraversalInv, NEW new, NEW s, Round(new, s),
           visited[queue[1]] < ask.depth =>
               /\ Adjacent(queue[1]) \subseteq DOMAIN visited \cup new
               /\ traversed' = traversed \cup Outgoing(queue[1]) \cup Incoming(queue[1]),
           ~(visited[queue[1]] < ask.depth) => traversed' = traversed
    PROVE  FollowedOK' /\ TraversedOK'
<1> PICK h : h = queue[1]
  OBVIOUS
<1>0. h \in DOMAIN visited /\ DOMAIN visited' = DOMAIN visited \cup new /\ ask' = ask
      /\ \A n \in DOMAIN visited : visited'[n] = visited[n]
  BY HeadIs DEF TraversalInv, Round
<1>1. \A n : Adjacent(n)' = Adjacent(n) /\ Outgoing(n)' = Outgoing(n) /\ Incoming(n)' = Incoming(n)
  BY AdjacentStays DEF Round
<1>2. ASSUME NEW n \in DOMAIN visited', visited'[n] < ask'.depth, ~Pending(n)'
      PROVE  Adjacent(n) \subseteq DOMAIN visited' /\ Outgoing(n) \cup Incoming(n) \subseteq traversed'
  <2>1. n \in DOMAIN visited /\ (Pending(n) => n = h)
    BY <1>0, <1>2, RoundPending
  <2>2. visited[n] < ask.depth
    BY <1>0, <1>2, <2>1
  <2>3. CASE n = h
    BY <1>0, <2>2, <2>3
  <2>4. CASE n # h
    <3>1. Adjacent(n) \subseteq DOMAIN visited /\ Outgoing(n) \cup Incoming(n) \subseteq traversed
      BY <2>1, <2>2, <2>4 DEF TraversalInv, FollowedOK
    <3>2. traversed \subseteq traversed'
      OBVIOUS
    <3> QED BY <1>0, <3>1, <3>2
  <2> QED BY <2>3, <2>4
<1>3. FollowedOK'
  BY <1>1, <1>2 DEF FollowedOK
<1>4. ASSUME NEW e \in traversed'
      PROVE  \E n \in DOMAIN visited' : visited'[n] < ask'.depth /\ e \in Outgoing(n) \cup Incoming(n)
  <2>1. CASE e \in traversed
    <3>1. PICK n \in DOMAIN visited : visited[n] < ask.depth /\ e \in Outgoing(n) \cup Incoming(n)
      BY <2>1 DEF TraversalInv, TraversedOK
    <3> QED BY <1>0, <3>1
  <2>2. CASE e \notin traversed
    <3>1. visited[h] < ask.depth /\ e \in Outgoing(h) \cup Incoming(h)
      BY <1>4, <2>2
    <3> QED BY <1>0, <3>1
  <2> QED BY <2>1, <2>2
<1>5. TraversedOK'
  BY <1>1, <1>4 DEF TraversedOK
<1> QED BY <1>3, <1>5

LEMMA RoundKeeps ==
    ASSUME TraversalInv, NEW new, NEW s, Round(new, s),
           visited[queue[1]] < ask.depth =>
               /\ Adjacent(queue[1]) \subseteq DOMAIN visited \cup new
               /\ traversed' = traversed \cup Outgoing(queue[1]) \cup Incoming(queue[1]),
           ~(visited[queue[1]] < ask.depth) => traversed' = traversed
    PROVE  TraversalInv'
<1>1. AskedOK'
  BY DEF TraversalInv, AskedOK, Round
<1>2. DistanceOK' /\ QueueOK' /\ FollowedOK' /\ TraversedOK'
  BY RoundDistances, RoundQueueOK, RoundFollowed
<1>3. FrontierOK'
  BY <1>1, <1>2, RoundFrontier
<1> QED BY <1>1, <1>2, <1>3 DEF TraversalInv

LEMMA VisitKeeps == ASSUME TraversalInv, Visit PROVE TraversalInv'
<1> PICK h : h = queue[1]
  OBVIOUS
<1>1. /\ queue # <<>> /\ UNCHANGED <<edges, ask>> /\ h = Head(queue) /\ h \in DOMAIN visited
      /\ visited[h] \in Nat /\ visited \in [DOMAIN visited -> Nat]
  BY HeadIs DEF Visit, TraversalInv, AskedOK
<1>2. CASE Expands(h)
  <2> PICK new : new = Adjacent(h) \ DOMAIN visited
    OBVIOUS
  <2> PICK s : s = ById(new)
    OBVIOUS
  <2>1. new \subseteq Nodes /\ visited[h] < ask.depth
    BY <1>2, AdjacentIn DEF TraversalInv, Expands
  <2>2. /\ s \in [1..Cardinality(new) -> new] /\ Cardinality(new) \in Nat
        /\ \A n \in new : \E i \in 1..Cardinality(new) : s[i] = n
    BY SMTT(30), <2>1, ByIdIs
  <2>3. /\ visited' = [m \in DOMAIN visited \cup new |->
                         IF m \in new THEN visited[h] + 1 ELSE visited[m]]
        /\ traversed' = traversed \cup Outgoing(h) \cup Incoming(h)
        /\ queue' = Tail(queue) \o s
    BY <1>1, <1>2 DEF Visit
  <2>4. /\ DOMAIN visited' = DOMAIN visited \cup new
        /\ \A n \in DOMAIN visited : visited'[n] = visited[n]
        /\ \A n \in new : visited'[n] = visited[h] + 1
        /\ visited' \in [DOMAIN visited' -> Nat]
    BY <1>1, <2>3
  <2>5. Round(new, s)
    BY <1>1, <2>1, <2>2, <2>3, <2>4 DEF Round
  <2> QED BY <2>1, <2>3, <2>5, RoundKeeps
<1>3. CASE ~Expands(h)
  <2>1. UNCHANGED <<visited, traversed>> /\ queue' = Tail(queue) /\ ~(visited[h] < ask.depth)
    BY <1>1, <1>3 DEF Visit, Expands
  <2>2. Cardinality({}) = 0 /\ 1..0 = {}
    BY FS_EmptySet
  <2> PICK s : s = <<>>
    OBVIOUS
  <2>3. Tail(queue) \in Seq(DOMAIN visited) /\ Tail(queue) \o s = Tail(queue)
    BY <1>1, HeadTailProperties, ConcatEmptySeq DEF TraversalInv, QueueOK
  <2>4. s \in [1..Cardinality({}) -> {}]
    BY <2>2
  <2>5. Round({}, s)
    BY <1>1, <2>1, <2>2, <2>3, <2>4 DEF Round
  <2> QED BY <2>1, <2>5, RoundKeeps
<1> QED BY <1>2, <1>3

LEMMA TraversalBegins == ASSUME TraversalInit PROVE TraversalInv
<1> PICK r : r = ask.root
  OBVIOUS
<1>1. /\ edges \subseteq Relations /\ ask \in Neighbors /\ r \in Nodes
      /\ queue = <<r>> /\ visited = [n \in {r} |-> 0] /\ traversed = {}
  BY DEF TraversalInit, Neighbors
<1>2. /\ DOMAIN visited = {r} /\ visited[r] = 0 /\ Len(queue) = 1 /\ queue[1] = r /\ queue # <<>>
      /\ queue \in Seq({r})
  BY <1>1
<1>3. AskedOK
  BY <1>1, <1>2 DEF AskedOK
<1>4. ask.depth >= 1 /\ ask.depth \in Nat /\ Within[0] = {r}
  BY <1>3, DepthIs, WithinIs DEF Rounds
<1>5. DistanceOK
  BY <1>2, <1>4 DEF DistanceOK
<1>6. QueueOK
  <2>1. \A i \in 1..Len(queue) : i = 1
    BY <1>2
  <2> QED BY <1>2, <2>1 DEF QueueOK
<1>7. Pending(r)
  BY <1>2 DEF Pending
<1> QED BY <1>1, <1>2, <1>3, <1>4, <1>5, <1>6, <1>7 DEF TraversalInv, FrontierOK, FollowedOK, TraversedOK

LEMMA TraversalInvIs == ASSUME TraversalInv PROVE TraversalTypeOK /\ TraversalExact
<1>1. AskedOK /\ DistanceOK /\ QueueOK /\ FollowedOK /\ TraversedOK
  BY DEF TraversalInv
<1> PICK d \in Nat : d = ask.depth
  BY <1>1, DepthIs
<1>2. d \in 0..MaxDepth /\ d - 1 \in 0..MaxDepth /\ d >= 1
  BY <1>1, DepthIs
<1>3. ASSUME NEW n \in DOMAIN visited
      PROVE  visited[n] \in Nat /\ visited[n] <= d /\ visited[n] \in 0..MaxDepth
  <2>1. visited[n] \in Nat /\ visited[n] <= d
    BY <1>1 DEF AskedOK, DistanceOK
  <2> PICK v \in Nat : v = visited[n]
    BY <2>1
  <2>2. v \in 0..MaxDepth
    BY <1>1, <2>1, DepthIs
  <2> QED BY <2>1, <2>2
<1>4. TraversalTypeOK
  <2>1. traversed \subseteq edges
    BY <1>1 DEF TraversedOK, Outgoing, Incoming
  <2>2. queue \in Seq(Nodes)
    BY <1>1, SeqMonotonic DEF AskedOK, QueueOK
  <2> QED BY <1>1, <1>3, <2>1, <2>2 DEF TraversalTypeOK, AskedOK
<1>5. ASSUME queue = <<>> PROVE DOMAIN visited = Within[d]
  <2>1. Within[d] \subseteq DOMAIN visited
    BY <1>2, <1>5, AllFound
  <2>2. ASSUME NEW n \in DOMAIN visited PROVE n \in Within[d]
    <3>1. n \in Within[visited[n]] /\ Within[visited[n]] \subseteq Within[d]
      BY <1>1, <1>2, <1>3, WithinGrows DEF DistanceOK
    <3> QED BY <3>1
  <2> QED BY <2>1, <2>2
<1>6. ASSUME queue = <<>>
      PROVE  traversed = UNION {Outgoing(n) \cup Incoming(n) : n \in Within[d - 1]}
  <2>1. ASSUME NEW e \in traversed
        PROVE  \E n \in Within[d - 1] : e \in Outgoing(n) \cup Incoming(n)
    <3>1. PICK n \in DOMAIN visited : visited[n] < d /\ e \in Outgoing(n) \cup Incoming(n)
      BY <1>1 DEF TraversedOK
    <3>2. visited[n] <= d - 1
      BY <1>3, <3>1
    <3>3. n \in Within[visited[n]] /\ Within[visited[n]] \subseteq Within[d - 1]
      BY <1>1, <1>2, <1>3, <3>2, WithinGrows DEF DistanceOK
    <3> QED BY <3>1, <3>3
  <2>2. ASSUME NEW n \in Within[d - 1] PROVE Outgoing(n) \cup Incoming(n) \subseteq traversed
    <3>1. n \in DOMAIN visited
      <4>1. Within[d - 1] \subseteq DOMAIN visited
        BY <1>2, <1>6, AllFound
      <4> QED BY <4>1
    <3>2. visited[n] <= d - 1
      BY <1>1, <1>2, <3>1, NearIsFound
    <3>3. visited[n] < ask.depth
      BY <1>3, <3>1, <3>2
    <3>4. ~Pending(n)
      <4>1. Len(queue) = 0
        BY <1>6, EmptySeq
      <4> QED BY <4>1 DEF Pending
    <3> QED BY <1>1, <3>1, <3>3, <3>4 DEF FollowedOK
  <2> QED BY <2>1, <2>2
<1>7. TraversalExact
  BY <1>1, <1>5, <1>6 DEF TraversalExact, DistanceOK
<1> QED BY <1>4, <1>7

\* TraversalExact, GraphSearchEngine.neighbors: whatever the relationships, the direction
\* and the depth, an entity is found at its distance from the root, and at the end all
\* that is within the depth was found and every relationship of a nearer entity followed.
\* The queue goes outward, and what is no farther than its head has been found.
THEOREM TraversalCorrect ==
    TraversalInit /\ [][TraversalNext]_traversalVars => [](TraversalTypeOK /\ TraversalExact)
<1>1. TraversalInit => TraversalInv
  BY TraversalBegins
<1>2. TraversalInv /\ [TraversalNext]_traversalVars => TraversalInv'
  <2> SUFFICES ASSUME TraversalInv, [TraversalNext]_traversalVars PROVE TraversalInv'
    OBVIOUS
  <2>1. CASE Visit
    BY <2>1, VisitKeeps
  <2>2. CASE UNCHANGED traversalVars
    <3>1. UNCHANGED <<edges, ask, queue, visited, traversed>>
      BY <2>2 DEF traversalVars
    <3>2. AskedOK' /\ QueueOK'
      BY <3>1 DEF TraversalInv, AskedOK, QueueOK
    <3>3. \A n : Adjacent(n)' = Adjacent(n) /\ Outgoing(n)' = Outgoing(n) /\ Incoming(n)' = Incoming(n)
      BY <3>1, AdjacentStays
    <3>4. \A n : Pending(n)' = Pending(n)
      BY <3>1 DEF Pending
    <3>5. FollowedOK' /\ TraversedOK'
      BY <3>1, <3>3, <3>4 DEF TraversalInv, FollowedOK, TraversedOK
    <3>6. \A k \in 0..MaxDepth : Within'[k] = Within[k]
      BY <3>1, WithinStays
    <3>7. ASSUME NEW n \in DOMAIN visited
          PROVE  /\ visited[n] <= ask.depth /\ n \in Within'[visited[n]]
                 /\ visited[n] > 0 => n \notin Within'[visited[n] - 1]
      <4> PICK v \in Nat : v = visited[n]
        BY DEF TraversalInv, AskedOK
      <4>1. v <= ask.depth /\ n \in Within[v] /\ (v > 0 => n \notin Within[v - 1])
        BY DEF TraversalInv, DistanceOK
      <4>2. v \in 0..MaxDepth /\ (v > 0 => v - 1 \in 0..MaxDepth)
        BY <4>1, DepthIs DEF TraversalInv
      <4> QED BY <3>6, <4>1, <4>2
    <3>8. DistanceOK'
      BY <3>1, <3>7 DEF DistanceOK
    <3>9. FrontierOK'
      <4> SUFFICES ASSUME queue # <<>> PROVE Within'[visited[queue[1]]] \subseteq DOMAIN visited
        BY <3>1 DEF FrontierOK
      <4>1. visited[queue[1]] \in 0..MaxDepth
        <5>1. visited[queue[1]] \in Nat /\ visited[queue[1]] <= ask.depth
          BY HeadIs DEF TraversalInv, DistanceOK
        <5> QED BY <5>1, DepthIs DEF TraversalInv
      <4> QED BY <3>6, <4>1 DEF TraversalInv, FrontierOK
    <3> QED BY <3>2, <3>5, <3>8, <3>9 DEF TraversalInv
  <2> QED BY <2>1, <2>2 DEF TraversalNext
<1>3. TraversalInv => TraversalTypeOK /\ TraversalExact
  BY TraversalInvIs
<1> QED BY <1>1, <1>2, <1>3, PTL

-----------------------------------------------------------------------------
(***************************************************************************)
(* What is set up, together                                                *)
(***************************************************************************)
LEMMA SetupSteps ==
    ASSUME [SetupNext]_<<focus, workspaceGroup, serviceGroup>>
    PROVE  /\ [WorkspaceNext]_workspaceVars /\ [ProductsNext]_productVars
           /\ [MonitoringNext]_monitoringVars /\ [BaselineNext]_baselineVars
           /\ [RegistryNext]_registryVars /\ [CacheNext]_cacheVars
           /\ [ReadinessNext]_readinessVars /\ [TraversalNext]_traversalVars
<1>1. CASE UNCHANGED <<focus, workspaceGroup, serviceGroup>>
  BY <1>1 DEF workspaceGroup, serviceGroup
<1>2. CASE WorkspaceGroupNext /\ UNCHANGED serviceGroup
  BY <1>2 DEF WorkspaceGroupNext, serviceGroup, WorkspaceMC, ProductsMC, BaselineMC
<1>3. CASE ServiceGroupNext /\ UNCHANGED workspaceGroup
  BY <1>3 DEF ServiceGroupNext, workspaceGroup
<1> QED BY <1>1, <1>2, <1>3 DEF SetupNext

\* MCSetup: where projects, product research, monitors, baselines, the registry, the cache,
\* the readiness of the providers and the graph search are side by side, each in its focus,
\* their rows and records keep their types.
THEOREM SetupTyped == SetupSpec => []SetupTypeOK
<1>1. SetupInit => /\ WorkspaceInit /\ ProductsInit /\ RegistryInit /\ CacheInit /\ MonitoringInit
                   /\ BaselineInit /\ ReadinessInit /\ TraversalInit
  BY DEF SetupInit
<1>2. [SetupNext]_<<focus, workspaceGroup, serviceGroup>> =>
          /\ [WorkspaceNext]_workspaceVars /\ [ProductsNext]_productVars
          /\ [MonitoringNext]_monitoringVars /\ [BaselineNext]_baselineVars
          /\ [RegistryNext]_registryVars /\ [CacheNext]_cacheVars
          /\ [ReadinessNext]_readinessVars /\ [TraversalNext]_traversalVars
  BY SetupSteps
<1>3. (/\ WorkspaceTypeOK /\ ProductsTypeOK /\ RegistryTypeOK /\ CacheTypeOK
       /\ MonitoringTypeOK /\ BaselineTypeOK /\ ReadinessTypeOK /\ TraversalTypeOK) => SetupTypeOK
  BY DEF SetupTypeOK
<1> QED BY <1>1, <1>2, <1>3, WorkspaceCorrect, ReportsAreHonest, RegistryCorrect, CacheServesAlive,
           MonitoringCorrect, BaselineCorrect, ReadinessCorrect, TraversalCorrect, PTL
       DEF SetupSpec, ReadinessSpec

===============================================================================
