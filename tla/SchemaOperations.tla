-------------------------- MODULE SchemaOperations --------------------------
(***************************************************************************)
(* The operations an Alembic revision is made of, as records, and what     *)
(* PostgreSQL does with each: when it refuses one, and the schema it       *)
(* leaves.  A schema is a function from table names to tables; a table     *)
(* keeps the columns an INSERT must supply and the others, its foreign     *)
(* keys, unique constraints, indexes and the rows that revisions seed.     *)
(* Check constraints and column types are left out.                        *)
(***************************************************************************)
EXTENDS TLC, FiniteSets, Sequences, Naturals

Create(table, must, may, refs, uniques) ==
    [op |-> "create", table |-> table, must |-> must, may |-> may, refs |-> refs,
     uniques |-> uniques]
DropTable(table) == [op |-> "drop", table |-> table]

OnIndex(name, table, cols, unique, where) ==
    [op |-> "index", table |-> table,
     index |-> [name |-> name, cols |-> cols, unique |-> unique, where |-> where]]
Index(name, table, cols) == OnIndex(name, table, cols, FALSE, "")
Unique(name, table, cols) == OnIndex(name, table, cols, TRUE, "")
UniqueWhere(name, table, cols, where) == OnIndex(name, table, cols, TRUE, where)
DropIndex(name, table) == [op |-> "drop index", table |-> table, name |-> name]

AddColumn(table, column, kind) ==
    [op |-> "add", table |-> table, column |-> column, kind |-> kind]
DropColumn(table, column) == [op |-> "remove", table |-> table, column |-> column]

\* Foreign keys are <<name, column, referenced table, ON DELETE rule>>.
AddReference(name, table, column, to, rule) ==
    [op |-> "refer", table |-> table, ref |-> <<name, column, to, rule>>]
DropReference(name, table) == [op |-> "unrefer", table |-> table, name |-> name]

\* The statements on rows: an INSERT of codes, a DELETE of them, an UPDATE.
Seed(table, cols, codes) == [op |-> "seed", table |-> table, cols |-> cols, codes |-> codes]
Purge(table, codes) == [op |-> "purge", table |-> table, codes |-> codes]
Update(table, cols) == [op |-> "update", table |-> table, cols |-> cols]

-----------------------------------------------------------------------------

Columns(table) == table.must \cup table.may
Referred(op) == CASE op.op = "create" -> {r[3] : r \in op.refs}
                  [] op.op = "refer" -> {op.ref[3]}
                  [] OTHER -> {}

\* The tables an operation locks until its transaction ends.
Touched(op) == {op.table} \cup Referred(op)

IndexNames(schema) == UNION {{i.name : i \in schema[t].indexes} : t \in DOMAIN schema}

\* PostgreSQL accepts op on the schema.
Legal(schema, op) ==
    IF op.op = "create"
      THEN /\ op.table \notin DOMAIN schema
           /\ Referred(op) \subseteq DOMAIN schema \cup {op.table}
      ELSE
        /\ op.table \in DOMAIN schema
        /\ LET table == schema[op.table]
           IN CASE op.op = "drop" ->
                     \A t \in DOMAIN schema \ {op.table} :
                         \A r \in schema[t].refs : r[3] # op.table
                [] op.op = "index" -> /\ op.index.name \notin IndexNames(schema)
                                      /\ op.index.cols \subseteq Columns(table)
                [] op.op = "drop index" -> \E i \in table.indexes : i.name = op.name
                [] op.op = "add" -> op.column \notin Columns(table)
                [] op.op = "remove" -> op.column \in Columns(table)
                [] op.op = "refer" -> /\ op.ref[2] \in Columns(table)
                                      /\ op.ref[3] \in DOMAIN schema
                [] op.op = "unrefer" -> \E r \in table.refs : r[1] = op.name
                [] op.op = "seed" -> /\ op.cols \subseteq Columns(table)
                                     /\ table.must \subseteq op.cols
                                     /\ op.codes \cap table.rows = {}
                [] op.op = "purge" -> TRUE
                [] op.op = "update" -> op.cols \subseteq Columns(table)

\* Dropping a column takes its indexes, constraints and foreign keys with it.
Without(table, column) ==
    [must |-> table.must \ {column}, may |-> table.may \ {column},
     refs |-> {r \in table.refs : r[2] # column},
     uniques |-> {u \in table.uniques : column \notin u},
     indexes |-> {i \in table.indexes : column \notin i.cols},
     rows |-> table.rows]

TableAfter(table, op) ==
    CASE op.op = "index" -> [table EXCEPT !.indexes = @ \cup {op.index}]
      [] op.op = "drop index" -> [table EXCEPT !.indexes = {i \in @ : i.name # op.name}]
      [] op.op = "add" -> IF op.kind = "required"
                            THEN [table EXCEPT !.must = @ \cup {op.column}]
                            ELSE [table EXCEPT !.may = @ \cup {op.column}]
      [] op.op = "remove" -> Without(table, op.column)
      [] op.op = "refer" -> [table EXCEPT !.refs = @ \cup {op.ref}]
      [] op.op = "unrefer" -> [table EXCEPT !.refs = {r \in @ : r[1] # op.name}]
      [] op.op = "seed" -> [table EXCEPT !.rows = @ \cup op.codes]
      [] op.op = "purge" -> [table EXCEPT !.rows = @ \ op.codes]
      [] op.op = "update" -> table

\* The schema a legal operation leaves.
Applied(schema, op) ==
    CASE op.op = "create" ->
           [t \in DOMAIN schema \cup {op.table} |->
               IF t = op.table
                 THEN [must |-> op.must, may |-> op.may, refs |-> op.refs,
                       uniques |-> op.uniques, indexes |-> {}, rows |-> {}]
                 ELSE schema[t]]
      [] op.op = "drop" -> [t \in DOMAIN schema \ {op.table} |-> schema[t]]
      [] OTHER -> [schema EXCEPT ![op.table] = TableAfter(@, op)]

=============================================================================
