-------------------------------- MODULE MCSetup --------------------------------
(***************************************************************************)
(* What a customer sets up and is shown, side by side: projects, product   *)
(* research, monitors, baselines and the graph search, and what the API    *)
(* keeps for them: the model registry, the cache and the readiness of the  *)
(* providers.  No two of these modules change the same thing, so their     *)
(* steps commute: a behaviour exercises one of them, its focus, while the  *)
(* others rest.                                                            *)
(***************************************************************************)
EXTENDS Workspace, ProductReports, ModelRegistry, ResilientCache, ProjectMonitoring, Baseline,
        ProviderReadiness, GraphTraversal, TLC

CONSTANTS r1, r2, h1, h2

VARIABLE focus

\* A project is exercised twice: its bulk runs and its domains, which share the project's
\* row alone.
Focus == {"bulk", "domains", "products", "registry", "cache", "monitoring", "baseline",
          "readiness", "graph"}

MCPayloads == {<<[host |-> h1, primary |-> FALSE], [host |-> h2, primary |-> TRUE]>>}
MCScales == {<<0, 1, 2, 2>>}
\* From the entity 1 the search may reach every other one, by one way or another.
MCRelations == {e \in Nodes \X Nodes : e[1] # e[2] /\ e[2] # 1} \cup {<<1, 1>>, <<2, 1>>}

BulkSteps == {"launch", "enqueue", "record", "items", "states", "answered"}
WorkspaceMC ==
    /\ WorkspaceNext
    /\ focus = "bulk" =>
           /\ UNCHANGED domain
           /\ research'[2] \notin {"FAILED", "ARCHIVED", "deleted"}
           /\ \A q \in WsRequests : wsReq'[q].pc \in BulkSteps \cup {"idle"}
    /\ focus = "domains" =>
           /\ UNCHANGED bulkVars
           /\ \A q \in WsRequests : wsReq'[q].pc \notin BulkSteps

\* Each research has one score it may get, and one of the two a description to patch,
\* which ends it.
ProductsMC ==
    /\ ProductsNext
    /\ \A p \in DOMAIN product' :
           product'[p].score \in {0, p} /\ (product'[p].meta = "patched" /\ product[p].meta # "patched"
                                          => p = 1 /\ product'[p].status # "ACTIVE")

\* What is observed comes before the first snapshot, with one metric the mirror of the
\* other, the lowest 0 since only differences matter; the policy that never installs
\* anything is left out.
BaselineMC ==
    /\ BaselineNext
    /\ observed' # observed => snapshot = <<>>
    /\ \A r \in DOMAIN observed' : observed'[r]["mention"] = 2 - observed'[r]["visibility"]
    /\ Len(observed') = MaxObserved =>
           \E r \in DOMAIN observed' : observed'[r]["visibility"] = 0
    /\ \A q \in BaselineRequests : baseReq'[q].pc = "chosen" => baseReq'[q].policy # "MANUAL"

SetupInit ==
    /\ focus \in Focus
    /\ WorkspaceInit /\ ProductsInit /\ RegistryInit /\ CacheInit /\ MonitoringInit /\ BaselineInit
    /\ ReadinessInit /\ TraversalInit
    /\ ask.root = 1
    /\ focus # "graph" => edges = {} /\ ask.depth = 1 /\ ask.direction = "BOTH"

workspaceGroup == <<workspaceVars, productVars, monitoringVars, baselineVars>>
serviceGroup == <<registryVars, cacheVars, readinessVars, traversalVars>>

WorkspaceGroupNext ==
    \/ /\ focus \in {"bulk", "domains"} /\ WorkspaceMC
       /\ UNCHANGED <<productVars, monitoringVars, baselineVars>>
    \/ /\ focus = "products" /\ ProductsMC
       /\ UNCHANGED <<workspaceVars, monitoringVars, baselineVars>>
    \/ /\ focus = "monitoring" /\ MonitoringNext
       /\ UNCHANGED <<workspaceVars, productVars, baselineVars>>
    \/ /\ focus = "baseline" /\ BaselineMC
       /\ UNCHANGED <<workspaceVars, productVars, monitoringVars>>

ServiceGroupNext ==
    \/ focus = "registry" /\ RegistryNext /\ UNCHANGED <<cacheVars, readinessVars, traversalVars>>
    \/ focus = "cache" /\ CacheNext /\ UNCHANGED <<registryVars, readinessVars, traversalVars>>
    \/ focus = "readiness" /\ ReadinessNext /\ UNCHANGED <<registryVars, cacheVars, traversalVars>>
    \/ focus = "graph" /\ TraversalNext /\ UNCHANGED <<registryVars, cacheVars, readinessVars>>

SetupNext ==
    /\ UNCHANGED focus
    /\ \/ WorkspaceGroupNext /\ UNCHANGED serviceGroup
       \/ ServiceGroupNext /\ UNCHANGED workspaceGroup

SetupSpec == SetupInit /\ [][SetupNext]_<<focus, workspaceGroup, serviceGroup>>

\* The requests of each service are interchangeable.
RequestSymmetry == Permutations({r1, r2})

---------------------------------------------------------------------------------

\* What the columns, rows and records of every module above range over.
SetupTypeOK ==
    /\ WorkspaceTypeOK /\ ProductsTypeOK /\ RegistryTypeOK /\ CacheTypeOK
    /\ MonitoringTypeOK /\ BaselineTypeOK /\ ReadinessTypeOK /\ TraversalTypeOK

=================================================================================
