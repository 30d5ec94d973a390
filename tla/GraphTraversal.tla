----------------------------- MODULE GraphTraversal -----------------------------
(***************************************************************************)
(* GraphSearchEngine.neighbors: the search breadth first of the entities   *)
(* around one, in a snapshot of the knowledge graph that is read once.     *)
(*                                                                         *)
(* The relationships are those the request's filters leave.  Names, types  *)
(* and confidences of entities only choose among what was found, and are   *)
(* left out.                                                               *)
(***************************************************************************)
EXTENDS Naturals, Sequences, FiniteSets

CONSTANTS Nodes,        \* entities, numbers that stand for the order of their ids
          Relations,    \* relationships there may be: pairs of a source and a target
          MaxDepth      \* bound on the depth a request may ask for

ASSUME TraversalAssumption ==
    /\ Nodes \subseteq Nat /\ IsFiniteSet(Nodes)
    /\ Relations \subseteq Nodes \X Nodes /\ MaxDepth \in Nat

VARIABLES edges,        \* the relationships of the snapshot
          ask,          \* the request: root, direction and depth
          queue,        \* entities to look at
          visited,      \* how far the entities that were found are away
          traversed     \* relationships that were followed

traversalVars == <<edges, ask, queue, visited, traversed>>

TraversalDirection == {"OUTGOING", "INCOMING", "BOTH"}
Neighbors == [root : Nodes, direction : TraversalDirection, depth : 1..MaxDepth]

TraversalTypeOK ==
    /\ edges \subseteq Relations
    /\ ask \in Neighbors
    /\ queue \in Seq(Nodes)
    /\ DOMAIN visited \subseteq Nodes /\ \A n \in DOMAIN visited : visited[n] \in 0..MaxDepth
    /\ traversed \subseteq edges

TraversalInit ==
    /\ edges \in SUBSET Relations
    /\ ask \in Neighbors
    /\ queue = <<ask.root>>
    /\ visited = [n \in {ask.root} |-> 0]
    /\ traversed = {}

-----------------------------------------------------------------------------
\* The relationships that may be followed from an entity, and where they lead.
Outgoing(n) == IF ask.direction = "INCOMING" THEN {} ELSE {e \in edges : e[1] = n}
Incoming(n) == IF ask.direction = "OUTGOING" THEN {} ELSE {e \in edges : e[2] = n}
Adjacent(n) == {e[2] : e \in Outgoing(n)} \cup {e[1] : e \in Incoming(n)}

Expands_Inclusive(n) == visited[n] <= ask.depth
Expands(n) == visited[n] < ask.depth

\* The entities in the order of their ids.
ById(S) ==
    CHOOSE q \in [1..Cardinality(S) -> S] : \A i, j \in 1..Cardinality(S) : i < j => q[i] < q[j]

\* One round of the loop: the entities that are new are queued in the order of their ids.
Visit ==
    /\ queue # <<>>
    /\ LET n == Head(queue)
           new == Adjacent(n) \ DOMAIN visited
       IN  IF Expands(n)
           THEN /\ visited' = [m \in DOMAIN visited \cup new |->
                                  IF m \in new THEN visited[n] + 1 ELSE visited[m]]
                /\ traversed' = traversed \cup Outgoing(n) \cup Incoming(n)
                /\ queue' = Tail(queue) \o ById(new)
           ELSE UNCHANGED <<visited, traversed>> /\ queue' = Tail(queue)
    /\ UNCHANGED <<edges, ask>>

TraversalNext == Visit

-----------------------------------------------------------------------------
(***************************************************************************)
(* Properties                                                              *)
(***************************************************************************)
\* The entities at most k steps away from the root: the reference definition.
Within[k \in 0..MaxDepth] ==
    IF k = 0 THEN {ask.root}
    ELSE Within[k - 1] \cup UNION {Adjacent(n) : n \in Within[k - 1]}

\* neighbors: an entity that was found is as far away as it is said to be, at every
\* moment of the search; and when nothing is left to look at, those that were found
\* are all that are within the depth, and the relationships that were followed are
\* all those of the entities nearer than it.
TraversalExact ==
    /\ \A n \in DOMAIN visited :
        /\ visited[n] <= ask.depth
        /\ n \in Within[visited[n]]
        /\ visited[n] > 0 => n \notin Within[visited[n] - 1]
    /\ queue = <<>> =>
        /\ DOMAIN visited = Within[ask.depth]
        /\ traversed = UNION {Outgoing(n) \cup Incoming(n) : n \in Within[ask.depth - 1]}

=================================================================================
