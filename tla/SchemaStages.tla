---------------------------- MODULE SchemaStages ----------------------------
(***************************************************************************)
(* What the revisions are, one at a time and with nobody else at work: the *)
(* schemas an upgrade and a downgrade pass through, as facts that TLC      *)
(* evaluates for each of them.  A database that several migrators work on  *)
(* is SchemaMigration's; that it ends at one of these schemas is proved    *)
(* from these facts.                                                       *)
(***************************************************************************)
EXTENDS SchemaMigration

Versions == 1..HeadVersion
SchemaOf(v) == SchemaAt[v + 1]

\* The revisions are sequences; no upgrade drops a table, and no downgrade creates one.
ASSUME RevisionsAssumption ==
    \A v \in 1..HeadVersion :
        LET up == Revisions[v].up
            down == Revisions[v].down
        IN  /\ Len(up) \in Nat /\ \A i \in 1..Len(up) : up[i].op # "drop"
            /\ Len(down) \in Nat
            /\ \A i \in 1..Len(down) : down[i].op # "create" /\ down[i].table # Stamps

\* The schemas before, between and after the operations.
Stages(schema, operations) ==
    FoldLeft(LAMBDA built, op : Append(built, Applied(Last(built), op)), <<schema>>, operations)
UpStages == [v \in Versions |-> Stages(SchemaOf(v - 1), Revisions[v].up)]
DownStages == [v \in Versions |-> Stages(SchemaOf(v), Revisions[v].down)]

\* From one schema to the other, PostgreSQL refuses nothing.
Leads(stages, operations, before, after) ==
    /\ stages[1] = before
    /\ stages[Len(operations) + 1] = after
    /\ \A i \in 1..Len(operations) :
           /\ Legal(stages[i], operations[i])
           /\ stages[i + 1] = Applied(stages[i], operations[i])

\* Every upgrade leads to the next version and every downgrade back to the one before: the
\* downgrade takes back all its upgrade did, seeded rows included.
ASSUME StagesAssumption ==
    \A v \in Versions :
        /\ Leads(UpStages[v], Revisions[v].up, SchemaOf(v - 1), SchemaOf(v))
        /\ Leads(DownStages[v], Revisions[v].down, SchemaOf(v), SchemaOf(v - 1))

OperationsOf(revision) ==
    {revision.up[i] : i \in 1..Len(revision.up)} \cup {revision.down[i] : i \in 1..Len(revision.down)}
AllOperations == UNION {OperationsOf(Revisions[v]) : v \in Versions}

\* What an operation may be.
Kinds == {"create", "drop", "index", "drop index", "add", "remove", "refer", "unrefer",
          "seed", "purge", "update"}

\* None of them names Alembic's own table.
ASSUME OperationsAssumption == \A op \in AllOperations : op.op \in Kinds /\ Stamps \notin Touched(op)

\* The names the revisions give to indexes of a table; no two tables share one.
NamesFor(table) == {op.index.name : op \in {o \in AllOperations : o.op = "index" /\ o.table = table}}
Tables == {op.table : op \in AllOperations}
ASSUME NamesAssumption == \A t, u \in Tables : t # u => NamesFor(t) \cap NamesFor(u) = {}

\* The first revision creates a table that no version is without.
FirstTable == Revisions[1].up[1].table
ASSUME FirstAssumption ==
    /\ HeadVersion > 0
    /\ Len(Revisions[1].up) > 0 /\ Revisions[1].up[1].op = "create"
    /\ \A v \in Versions : FirstTable \in DOMAIN SchemaOf(v)

\* A version's schema: its tables and their indexes are the revisions', and no later version
\* lacks or asks what an image of this one would miss.
IsTable(table) == DOMAIN table = {"must", "may", "refs", "uniques", "indexes", "rows"}
ASSUME SchemasAssumption ==
    \A v \in 0..HeadVersion :
        /\ SchemaOf(v) = [t \in DOMAIN SchemaOf(v) |-> SchemaOf(v)[t]]
        /\ DOMAIN SchemaOf(v) \subseteq Tables
        /\ \A t \in DOMAIN SchemaOf(v) :
               /\ IsTable(SchemaOf(v)[t])
               /\ \A i \in SchemaOf(v)[t].indexes : i.name \in NamesFor(t)
        /\ \A w \in 0..v : Additive(SchemaOf(w), SchemaOf(v))

\* The newest version has what the models declare.
ASSUME ModelsAssumption ==
    \A model \in Models :
        /\ model.name \in DOMAIN SchemaOf(HeadVersion)
        /\ Served(model, SchemaOf(HeadVersion)[model.name])

=============================================================================
