----------------------------- MODULE Migrations -----------------------------
(***************************************************************************)
(* Opening the store.  Every process that opens atct.db, the daemon and    *)
(* the hooks of the command line alike, first brings its schema up to the  *)
(* migrations embedded in its own build, in transactions of their own      *)
(* while other processes do the same.  A build is the number of migrations *)
(* it knows.                                                               *)
(***************************************************************************)
EXTENDS Integers

CONSTANTS Proc,          \* processes
          Build,         \* builds, each the number of the last migration it embeds
          V7Migration    \* the last migration that adds a column of version 7

ASSUME BuildAssumption ==
  /\ V7Migration \in Nat /\ V7Migration > 4
  /\ Build # {} /\ Build \subseteq {n \in Nat : n >= V7Migration}

VARIABLES build,    \* the build each process runs
          opening,  \* how far each process is with opening the store
          version,  \* PRAGMA user_version
          tables,   \* whether the tables of the product exist
          applied,  \* the rows of schema_migrations
          ran       \* how often the effect of each migration is in the schema

dbVars == <<version, tables, applied, ran>>
storeVars == <<build, opening, dbVars>>

Migration == UNION {1..b : b \in Build}

\* schemaVersion, the version before it, and that of a database from before
\* there were migrations.
Current == 7
Bridged == 6
Historical == 3

\* The migrations the historical bridge takes over from the old schema.
BridgedMigrations == 1..4

Closed == [at |-> "closed", next |-> 1]

Opening == [at : {"closed", "tables", "bridge", "first", "apply", "open", "failed"},
            next : {1, 2} \cup {m + 1 : m \in Migration}]

\* No database, one from before the migrations, one of version 6 whose records
\* begin with the baseline or are still missing, and one that a build of
\* version 7 has brought up to date.
StoreInit ==
  /\ build \in [Proc -> Build]
  /\ opening = [p \in Proc |-> Closed]
  /\ \/ version = 0 /\ tables = FALSE /\ applied = {}
     \/ version = Historical /\ tables = TRUE /\ applied = {}
     \/ /\ version = Bridged /\ tables = TRUE
        /\ applied = {} \/ \E m \in 4..(V7Migration - 1) : applied = 1..m
     \/ version = Current /\ tables = TRUE /\ \E b \in Build : applied = 1..b
  /\ ran = [m \in Migration |->
              IF m \in applied \/ (m = 1 /\ version >= Bridged) THEN 1 ELSE 0]

Goto(p, at, next) == opening' = [opening EXCEPT ![p] = [at |-> at, next |-> next]]

At(p, at) == opening[p].at = at

Fail(p) == Goto(p, "failed", 1) /\ UNCHANGED <<build, dbVars>>

\* validateAppliedMigrations: the build knows every recorded migration and no
\* record skips one.
Valid(p) ==
  /\ applied \subseteq 1..build[p]
  /\ \A m \in applied : 1..m \subseteq applied
-----------------------------------------------------------------------------
\* migrateSchema reads the version outside of any transaction.
ReadVersion(p) ==
  /\ At(p, "closed")
  /\ Goto(p, CASE version = 0 -> "tables"
               [] version \in {Bridged, Current} -> "first"
               [] OTHER -> "bridge", 1)
  /\ UNCHANGED <<build, dbVars>>

\* Version 0 with tables is an old database, or one that another process has
\* created since the version was read.
ReadTables(p) ==
  /\ At(p, "tables")
  /\ Goto(p, IF tables THEN "bridge" ELSE "first", 1)
  /\ UNCHANGED <<build, dbVars>>

\* The bridge rebuilds the goals and the decisions with the columns they have
\* after the migrations it takes over.
BridgeTables ==
  ran' = [m \in Migration |-> IF m \in BridgedMigrations THEN 1 ELSE ran[m]]

\* The historical bridge, one transaction.  The baseline creates what is
\* missing, but the other migrations fail where they ran before: runs cannot
\* be renamed again, nor tasks.description added.
Bridge(p) ==
  /\ At(p, "bridge")
  /\ \/ (\E m \in 2..4 : ran[m] > 0) /\ Fail(p)
     \/ /\ \A m \in 2..4 : ran[m] = 0
        /\ BridgeTables
        /\ applied' = applied \cup BridgedMigrations
        /\ version' = Bridged
        /\ tables' = TRUE
        /\ Goto(p, "first", 1)
        /\ UNCHANGED build

\* validateV6Schema asks for the columns of the baseline and of the recorded
\* migrations.
HasV6Columns == \A m \in applied \cup {1} : ran[m] > 0

\* validateV7Schema asks for all columns of version 7, whatever is recorded.
\* The version is 7 from the first transaction on, so that nobody opens a
\* database whose first opening was cut short.
HasV7Columns == \A m \in 1..V7Migration : ran[m] > 0

HasColumns == IF version = Bridged THEN HasV6Columns ELSE HasV7Columns

\* The SQL of a migration, with the handoff entries one of them fills in.
Run(m) == ran' = [ran EXCEPT ![m] = @ + 1]

\* The first immediate transaction of applyEmbeddedMigrations creates an empty
\* database ...
CreateBaseline(p) ==
  /\ version = 0 /\ tables = FALSE /\ applied = {}
  /\ Run(1)
  /\ applied' = {1}
  /\ version' = Current
  /\ tables' = TRUE
  /\ Goto(p, "apply", 2)
  /\ UNCHANGED build

\* Mutant: a database of version 7 is taken to be up to date.
RecordBaselineOnly(p) ==
  /\ version \in {Bridged, Current} /\ Valid(p) /\ HasColumns
  /\ applied' = applied \cup {1}
  /\ IF version = Current THEN Goto(p, "open", 1) ELSE Goto(p, "apply", 2)
  /\ UNCHANGED <<build, version, tables, ran>>

\* ... or records the baseline of one that has its tables.
RecordBaseline(p) ==
  /\ version \in {Bridged, Current} /\ Valid(p) /\ HasColumns
  /\ applied' = applied \cup {1}
  /\ Goto(p, "apply", 2)
  /\ UNCHANGED <<build, version, tables, ran>>

Baseline(p) ==
  /\ At(p, "first")
  /\ \/ CreateBaseline(p)
     \/ RecordBaseline(p)
     \/ /\ version = 0 => tables \/ applied # {}
        /\ version \in {Bridged, Current} => ~(Valid(p) /\ HasColumns)
        /\ Fail(p)

\* Mutant: which migrations are applied is read once, before the transactions.
ApplyUnread(p) ==
  LET m == opening[p].next IN
  /\ At(p, "apply")
  /\ m <= build[p]
  /\ applied \subseteq 1..build[p]
  /\ Run(m)
  /\ applied' = applied \cup {m}
  /\ version' = Current
  /\ Goto(p, "apply", m + 1)
  /\ UNCHANGED <<build, tables>>

\* Each later migration is a transaction that reads the records again, skips
\* what another process applied since, and records what it runs.
Apply(p) ==
  LET m == opening[p].next IN
  /\ At(p, "apply")
  /\ m <= build[p]
  /\ \/ ~Valid(p) /\ Fail(p)
     \/ /\ Valid(p) /\ m \in applied
        /\ Goto(p, "apply", m + 1)
        /\ UNCHANGED <<build, dbVars>>
     \/ /\ Valid(p) /\ m \notin applied
        /\ 1..(m - 1) \subseteq applied
        /\ version \in {Bridged, Current}
        /\ Run(m)
        /\ applied' = applied \cup {m}
        /\ version' = Current
        /\ Goto(p, "apply", m + 1)
        /\ UNCHANGED <<build, tables>>

\* Every migration of the build is there; the store is open.
Opened(p) ==
  /\ At(p, "apply")
  /\ opening[p].next > build[p]
  /\ Goto(p, "open", 1)
  /\ UNCHANGED <<build, dbVars>>

\* A statement fails or the process dies; its transaction is rolled back.
StepFails(p) ==
  /\ opening[p].at \notin {"closed", "open", "failed"}
  /\ Fail(p)

OpenStep(p) ==
  \/ ReadVersion(p)
  \/ ReadTables(p)
  \/ Bridge(p)
  \/ Baseline(p)
  \/ Apply(p)
  \/ Opened(p)
  \/ StepFails(p)

CloseStore(p) == Goto(p, "closed", 1)
-----------------------------------------------------------------------------
StoreTypeOK ==
  /\ build \in [Proc -> Build]
  /\ opening \in [Proc -> Opening]
  /\ version \in {0, Historical, Bridged, Current}
  /\ tables \in BOOLEAN
  /\ applied \in SUBSET Migration
  /\ ran \in [Migration -> Nat]

\* No migration takes effect twice, whatever processes open the store at the
\* same time or die in between, and the records say which did: none is
\* recorded before those it builds on (migrations.go, applyEmbeddedMigrations
\* and the historical bridge of migrateSchema).
MigrationsRunOnce ==
  /\ \A m \in Migration : ran[m] <= 1 /\ (m \in applied => ran[m] = 1)
  /\ \A m \in applied : 1..m \subseteq applied
  /\ \A m \in Migration : m > 1 /\ ran[m] = 1 => m \in applied

\* A process that gets to use the store has every migration its build was
\* written for, although it skipped those that others ran (store.Open,
\* applyEmbeddedMigrations).
OpenStoreIsComplete ==
  \A p \in Proc : At(p, "open") => \A m \in 1..build[p] : ran[m] = 1
=============================================================================
