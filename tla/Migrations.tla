------------------------------ MODULE Migrations ------------------------------
(***************************************************************************)
(* Opening the database (storage/db.rs open, run_migrations).  Every       *)
(* termnote process does it before anything else, so several processes     *)
(* can bring the same new or old file up to date at once.  There is no     *)
(* transaction around a migration: each CREATE .. IF NOT EXISTS of its SQL *)
(* and the INSERT that records it commit on their own, and the list of     *)
(* applied migrations is read once, before the first of them.              *)
(***************************************************************************)
EXTENDS Integers

CONSTANTS
    Procs,          \* termnote processes (or tries of the same user)
    Migrations,     \* how many MIGRATIONS there are
    Statements,     \* Statements[v]: the statements in the SQL of migration v
    MaxFaults       \* bound on busy databases, I/O errors and kills

ASSUME MigrationsAssumption == Migrations \in Nat
ASSUME StatementsAssumption == Statements \in [1 .. Migrations -> Nat]
ASSUME FaultsAssumption == MaxFaults \in Nat

VARIABLES
    catalog,    \* does the table schema_migrations exist?
    schema,     \* the statements whose table or index exists
    recorded,   \* the versions in schema_migrations
    opener,     \* opener[p]: where process p is in open
    faults      \* how many faults there have been

openVars == <<catalog, schema, recorded, opener, faults>>

Versions == 1 .. Migrations
StatementsOf(v) == {<<v, i>> : i \in 1 .. Statements[v]}
AllStatements == UNION {StatementsOf(v) : v \in Versions}

Fresh == [step |-> "start", applied |-> {}, version |-> 1, done |-> 0]

OpenInit ==
    /\ catalog = FALSE /\ schema = {} /\ recorded = {}
    /\ opener = [p \in Procs |-> Fresh]
    /\ faults = 0

OpenBecomes(p, o) == opener' = [opener EXCEPT ![p] = o]
Opened(p) == opener[p].step = "open"

----------------------------------------------------------------------------
\* CREATE TABLE IF NOT EXISTS schema_migrations, after the pragmas.
CreatesCatalog(p) ==
    /\ opener[p].step = "start"
    /\ catalog' = TRUE
    /\ OpenBecomes(p, [opener[p] EXCEPT !.step = "select"])
    /\ UNCHANGED <<schema, recorded, faults>>

\* Mutant: no row survives filter_map(|r| r.ok()).
ReadsNothing(p) ==
    /\ opener[p].step = "select"
    /\ OpenBecomes(p, [Fresh EXCEPT !.step = "apply"])
    /\ UNCHANGED <<catalog, schema, recorded, faults>>

\* SELECT version FROM schema_migrations: the only look at what is applied.
ReadsApplied(p) ==
    /\ opener[p].step = "select"
    /\ OpenBecomes(p, [Fresh EXCEPT !.step = "apply", !.applied = recorded])
    /\ UNCHANGED <<catalog, schema, recorded, faults>>

\* The loop over MIGRATIONS is at a version it has to apply.
Applying(p) ==
    /\ opener[p].step = "apply"
    /\ opener[p].version \in Versions \ opener[p].applied

SkipsMigration(p) ==
    /\ opener[p].step = "apply"
    /\ opener[p].version \in opener[p].applied
    /\ OpenBecomes(p, [opener[p] EXCEPT !.version = @ + 1])
    /\ UNCHANGED <<catalog, schema, recorded, faults>>

\* Mutant: the SQL lacks one of its statements.
RunsStatementSkipping(p) ==
    /\ Applying(p)
    /\ opener[p].done < Statements[opener[p].version]
    /\ schema' = schema \cup
          ({<<opener[p].version, opener[p].done + 1>>} \ {<<Migrations, 1>>})
    /\ OpenBecomes(p, [opener[p] EXCEPT !.done = @ + 1])
    /\ UNCHANGED <<catalog, recorded, faults>>

\* One statement of execute_batch(sql), committed on its own.
RunsStatement(p) ==
    /\ Applying(p)
    /\ opener[p].done < Statements[opener[p].version]
    /\ schema' = schema \cup {<<opener[p].version, opener[p].done + 1>>}
    /\ OpenBecomes(p, [opener[p] EXCEPT !.done = @ + 1])
    /\ UNCHANGED <<catalog, recorded, faults>>

\* Mutant: the version is recorded before its SQL has run.
RecordsFirst(p) ==
    /\ Applying(p) /\ opener[p].version \notin recorded
    /\ recorded' = recorded \cup {opener[p].version}
    /\ OpenBecomes(p, [opener[p] EXCEPT !.version = @ + 1, !.done = 0])
    /\ UNCHANGED <<catalog, schema, faults>>

\* INSERT INTO schema_migrations: version is the primary key, so of two
\* processes that applied the same migration one fails, and with it `open`.
Records(p) ==
    /\ Applying(p)
    /\ opener[p].done = Statements[opener[p].version]
    /\ IF opener[p].version \in recorded
       THEN /\ OpenBecomes(p, [Fresh EXCEPT !.step = "failed"])
            /\ UNCHANGED recorded
       ELSE /\ OpenBecomes(p, [opener[p] EXCEPT !.version = @ + 1, !.done = 0])
            /\ recorded' = recorded \cup {opener[p].version}
    /\ UNCHANGED <<catalog, schema, faults>>

\* The end of the loop: `open` returns the connection.
Opens(p) ==
    /\ opener[p].step = "apply" /\ opener[p].version = Migrations + 1
    /\ OpenBecomes(p, [Fresh EXCEPT !.step = "open"])
    /\ UNCHANGED <<catalog, schema, recorded, faults>>

\* SQLITE_BUSY after the timeout, a full disk, or a kill, between any two
\* statements: nothing is rolled back, for nothing is in a transaction.
Faults(p) ==
    /\ opener[p].step \in {"start", "select", "apply"}
    /\ faults < MaxFaults       \* bound
    /\ faults' = faults + 1
    /\ OpenBecomes(p, [Fresh EXCEPT !.step = "failed"])
    /\ UNCHANGED <<catalog, schema, recorded>>

\* The user runs the command once more.
Retries(p) ==
    /\ opener[p].step = "failed"
    /\ OpenBecomes(p, Fresh)
    /\ UNCHANGED <<catalog, schema, recorded, faults>>

----------------------------------------------------------------------------
Migrates(p) ==
    \/ CreatesCatalog(p) \/ ReadsApplied(p) \/ SkipsMigration(p)
    \/ RunsStatement(p) \/ Records(p) \/ Opens(p)
OpenNext == \E p \in Procs : Migrates(p) \/ Faults(p) \/ Retries(p)

OpenSpec == OpenInit /\ [][OpenNext]_openVars

----------------------------------------------------------------------------
(* Properties *)

Steps == {"start", "select", "apply", "open", "failed"}
OpenerType == [step : Steps, applied : SUBSET Versions,
               version : 1 .. Migrations + 1, done : Nat]

\* The variables of the database and of those that open it stay in their types
\* (run_migrations).
OpenTypeOK ==
    /\ catalog \in BOOLEAN
    /\ schema \subseteq AllStatements
    /\ recorded \subseteq Versions
    /\ opener \in [Procs -> OpenerType]
    /\ faults \in 0 .. MaxFaults

\* Whoever gets a connection finds the whole schema, recorded as such, also
\* when it raced with others or follows tries that failed half-way
\* (run_migrations; every command relies on it).
OpenFindsSchema ==
    \A p \in Procs : Opened(p) =>
        catalog /\ schema = AllStatements /\ recorded = Versions

\* Whatever the interleaving and wherever a try failed: what is recorded has
\* been applied to the last statement, so skipping it is right; and migrations
\* are applied in order, none before the ones it builds on are complete.
RecordedIsApplied ==
    /\ \A v \in recorded : StatementsOf(v) \subseteq schema
    /\ \A v \in recorded : 1 .. v \subseteq recorded
    /\ \A s \in schema : 1 .. s[1] - 1 \subseteq recorded

\* The loser of a race reports an error, but the race does not repeat: who
\* runs the command again whenever it fails, gets the database open in the end.
InsistingOpens ==
    \A p \in Procs : WF_openVars(Retries(p)) => <>Opened(p)
=============================================================================
