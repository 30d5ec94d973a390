-------------------------- MODULE SchemaMigration --------------------------
(***************************************************************************)
(* alembic upgrade and downgrade run against one PostgreSQL database by    *)
(* several migrators at once: entrypoint.sh of every container that has    *)
(* RUN_MIGRATIONS, deploy.sh, the Kubernetes migrate job and a person.     *)
(* A command reads the version, then runs the revisions in between in one  *)
(* transaction, one operation at a time, and stamps the version after each *)
(* revision.  An operation waits for the tables it touches; a command that *)
(* is refused, killed or chosen as deadlock victim rolls back.             *)
(***************************************************************************)
EXTENDS SchemaRevisions, DeclaredModels, SequencesExt

CONSTANTS
    Migrators,  \* the alembic processes
    Commands,   \* the <<version read, target version>> pairs they may be asked for
    MaxBegun    \* bound: commands begun in a behaviour

VARIABLES
    committed,  \* [schema, stamp]: what the database has committed
    live,       \* [schema, stamp]: the same with the changes not yet committed
    holder,     \* the migrator whose transaction holds the lock on a table
    migr,       \* the state of each migrator
    begun       \* commands begun so far

vars == <<committed, live, holder, migr, begun>>

HeadVersion == Len(Revisions)

ASSUME CommandsAssumption == Commands \subseteq (0..HeadVersion) \X (0..HeadVersion)

Stamps == "alembic_version"

Empty == [t \in {} |-> {}]

\* The schema after each prefix of the upgrades; SchemaAt[v + 1] is version v's.
SchemaAt == FoldLeft(LAMBDA built, revision :
                         Append(built, FoldLeft(Applied, Last(built), revision.up)),
                     <<Empty>>, Revisions)

\* get_current_heads: the one row of alembic_version, or none at base.
VersionOf(stamp) == IF stamp = {} THEN 0 ELSE CHOOSE v \in stamp : TRUE

Idle == [pc |-> "idle", at |-> 0, target |-> 0, step |-> 0, overtaken |-> FALSE]

\* The database is found at any version a command starts from.
Init ==
    \E v \in {c[1] : c \in Commands} :
        /\ committed = [schema |-> SchemaAt[v + 1], stamp |-> IF v = 0 THEN {} ELSE {v}]
        /\ live = committed
        /\ holder = Empty
        /\ migr = [m \in Migrators |-> Idle]
        /\ begun = 0

-----------------------------------------------------------------------------
\* The operations of the revision migrator m is in, and the next version.
Rising(m) == migr[m].target > migr[m].at
Operations(m) == IF Rising(m) THEN Revisions[migr[m].at + 1].up ELSE Revisions[migr[m].at].down
NextVersion(m) == IF Rising(m) THEN migr[m].at + 1 ELSE migr[m].at - 1

Underway(m) == migr[m].pc = "running" /\ migr[m].at # migr[m].target
InRevision(m) == Underway(m) /\ migr[m].step < Len(Operations(m))
NextOp(m) == Operations(m)[migr[m].step + 1]
AtStamp(m) == Underway(m) /\ migr[m].step = Len(Operations(m))

Wanted(m) == IF InRevision(m) THEN Touched(NextOp(m)) ELSE {Stamps}
Free(m, names) == \A n \in names \cap DOMAIN holder : holder[n] = m
HeldBy(m) == {n \in DOMAIN holder : holder[n] = m}
Lock(m, names) ==
    holder' = [n \in names \cup DOMAIN holder |-> IF n \in names THEN m ELSE holder[n]]
Unlock(m) == holder' = [n \in DOMAIN holder \ HeldBy(m) |-> holder[n]]

\* base with the tables in names taken from other.
Merged(base, other, names) ==
    [t \in (DOMAIN base \ names) \cup (DOMAIN other \cap names) |->
        IF t \in names THEN other[t] ELSE base[t]]
MergedState(base, other, names) ==
    [schema |-> Merged(base.schema, other.schema, names),
     stamp |-> IF Stamps \in names THEN other.stamp ELSE base.stamp]

Rollback(m, pc) ==
    /\ live' = MergedState(live, committed, HeldBy(m))
    /\ Unlock(m)
    /\ migr' = [migr EXCEPT ![m] = [Idle EXCEPT !.pc = pc, !.overtaken = migr[m].overtaken]]
    /\ UNCHANGED <<committed, begun>>

-----------------------------------------------------------------------------
\* The command starts its transaction and reads the version.
Begin(m, target) ==
    /\ migr[m].pc = "idle"
    /\ begun < MaxBegun
    /\ <<VersionOf(committed.stamp), target>> \in Commands
    /\ migr' = [migr EXCEPT ![m] = [pc |-> "running", at |-> VersionOf(committed.stamp),
                                    target |-> target, step |-> 0, overtaken |-> FALSE]]
    /\ begun' = begun + 1
    /\ UNCHANGED <<committed, live, holder>>

\* Variant: without the transaction of env.py an operation is committed at once.
Operate_Autocommit(m) ==
    /\ InRevision(m)
    /\ Free(m, Wanted(m))
    /\ Legal(live.schema, NextOp(m))
    /\ live' = [live EXCEPT !.schema = Applied(@, NextOp(m))]
    /\ Lock(m, Wanted(m))
    /\ migr' = [migr EXCEPT ![m].step = @ + 1]
    /\ committed' = [committed EXCEPT !.schema = Applied(@, NextOp(m))]
    /\ UNCHANGED begun

Operate(m) ==
    /\ InRevision(m)
    /\ Free(m, Wanted(m))
    /\ Legal(live.schema, NextOp(m))
    /\ live' = [live EXCEPT !.schema = Applied(@, NextOp(m))]
    /\ Lock(m, Wanted(m))
    /\ migr' = [migr EXCEPT ![m].step = @ + 1]
    /\ UNCHANGED <<committed, begun>>

Refused(m) ==
    /\ InRevision(m)
    /\ Free(m, Wanted(m))
    /\ ~Legal(live.schema, NextOp(m))
    /\ Rollback(m, "refused")

\* The row Alembic expects to update, delete or be able to insert is there.
StampMatches(m) ==
    IF migr[m].at = 0 THEN 1 \notin live.stamp ELSE migr[m].at \in live.stamp

\* The revision is done: UPDATE alembic_version, or INSERT and DELETE at base.
Stamp(m) ==
    /\ AtStamp(m)
    /\ Free(m, Wanted(m))
    /\ StampMatches(m)
    /\ live' = [live EXCEPT !.stamp = (@ \ {migr[m].at}) \cup ({NextVersion(m)} \ {0})]
    /\ Lock(m, Wanted(m))
    /\ migr' = [migr EXCEPT ![m].at = NextVersion(m), ![m].step = 0]
    /\ UNCHANGED <<committed, begun>>

\* Alembic raises unless exactly one row matched.
StampRefused(m) ==
    /\ AtStamp(m)
    /\ Free(m, Wanted(m))
    /\ ~StampMatches(m)
    /\ Rollback(m, "refused")

Commit(m) ==
    /\ migr[m].pc = "running"
    /\ migr[m].at = migr[m].target
    /\ committed' = MergedState(committed, live, HeldBy(m))
    /\ Unlock(m)
    /\ migr' = [n \in Migrators |->
                   IF n = m THEN Idle
                   ELSE [migr[n] EXCEPT !.overtaken = @ \/ migr[n].pc = "running"]]
    /\ UNCHANGED <<live, begun>>

\* The process is killed, or the connection is lost, before its commit.
Crash(m) ==
    /\ migr[m].pc = "running"
    /\ Rollback(m, "stopped")

\* m and n wait for each other: PostgreSQL aborts one of them.
DeadlockVictim(m) ==
    /\ Underway(m)
    /\ \E n \in Migrators \ {m} :
           /\ Underway(n)
           /\ Wanted(m) \cap HeldBy(n) # {}
           /\ Wanted(n) \cap HeldBy(m) # {}
    /\ Rollback(m, "stopped")

\* The container restarts, or somebody runs the command again.
Again(m) ==
    /\ migr[m].pc \in {"refused", "stopped"}
    /\ migr' = [migr EXCEPT ![m] = Idle]
    /\ UNCHANGED <<committed, live, holder, begun>>

Next ==
    \E m \in Migrators :
        \/ \E target \in 0..HeadVersion : Begin(m, target)
        \/ Operate(m) \/ Refused(m)
        \/ Stamp(m) \/ StampRefused(m)
        \/ Commit(m) \/ Crash(m) \/ DeadlockVictim(m) \/ Again(m)

Spec == Init /\ [][Next]_vars

-----------------------------------------------------------------------------
\* Every change that is not committed is held by the transaction that made it.
TypeOK ==
    /\ DOMAIN holder \subseteq DOMAIN live.schema \cup DOMAIN committed.schema \cup {Stamps}
    /\ \A t \in DOMAIN live.schema \cup DOMAIN committed.schema :
           t \notin DOMAIN holder =>
               /\ t \in DOMAIN live.schema \cap DOMAIN committed.schema
               /\ live.schema[t] = committed.schema[t]
    /\ \A m \in Migrators : HeldBy(m) # {} => migr[m].pc = "running"

\* The committed schema is the one its version's upgrades build from nothing:
\* every downgrade takes back all its upgrade did, seeded rows included, and
\* neither a crash, a refusal nor a second migrator that read an older version
\* leaves a mixture.
SchemaOfVersion ==
    /\ Cardinality(committed.stamp) <= 1
    /\ committed.schema = SchemaAt[VersionOf(committed.stamp) + 1]

\* PostgreSQL refuses an operation only to a migrator that another one's commit
\* has overtaken: tables are created before what refers to them and dropped
\* after it, and no operation names what another revision removed.
OnlyOvertakenRefused ==
    \A m \in Migrators : migr[m].pc = "refused" => migr[m].overtaken

\* What a model declares, and what the table offers; names left aside.
Served(model, table) ==
    /\ model.must \cup model.may = Columns(table)
    /\ table.must \subseteq model.must
    /\ model.refs = {<<r[2], r[3], r[4]>> : r \in table.refs}
    /\ model.uniques = {<<u, "">> : u \in table.uniques} \cup
                       {<<i.cols, i.where>> : i \in {x \in table.indexes : x.unique}}
    /\ \A cols \in model.indexes :
           \/ \E i \in table.indexes : i.cols = cols
           \/ cols \in table.uniques

\* At head the migrated database offers exactly what the models declare: the
\* tests build their tables from the models, production from the revisions.
ModelsServed ==
    committed.stamp = {HeadVersion} =>
        \A model \in Models :
            /\ model.name \in DOMAIN committed.schema
            /\ Served(model, committed.schema[model.name])

\* rollback.sh starts an older image on the newer schema, so an upgrade must
\* keep every table and column, and require no more of an INSERT nor refuse
\* more rows of an existing table than before.
Additive(before, after) ==
    \A t \in DOMAIN before :
        /\ t \in DOMAIN after
        /\ Columns(before[t]) \subseteq Columns(after[t])
        /\ after[t].must \subseteq before[t].must
        /\ after[t].uniques \subseteq before[t].uniques
        /\ {i \in after[t].indexes : i.unique} \subseteq before[t].indexes
UpgradesAdditive ==
    [][committed'.stamp # committed.stamp /\ VersionOf(committed'.stamp) > VersionOf(committed.stamp)
         => Additive(committed.schema, committed'.schema)]_vars

\* SchemaOfVersion, OnlyOvertakenRefused, ModelsServed and UpgradesAdditive together: the
\* stamp of the database tells its schema, upgrades never fail on their own nor break an
\* image in service, and the newest schema is the one the models declare.
SchemaKept == [](SchemaOfVersion /\ OnlyOvertakenRefused /\ ModelsServed) /\ UpgradesAdditive

=============================================================================
