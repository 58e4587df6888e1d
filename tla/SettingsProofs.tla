---------------------------- MODULE SettingsProofs ----------------------------
(***************************************************************************)
(* Theorems about opening the database, and about the settings that a      *)
(* command works with after it.                                            *)
(***************************************************************************)
EXTENDS Settings, TLAPS

----------------------------------------------------------------------------
(***************************************************************************)
(* Proofs about opening the database, for any number of processes,         *)
(* migrations, statements and faults.  The inductive invariant OpenInv     *)
(* adds to the types and to RecordedIsApplied what a process knows of the  *)
(* database at each step of open: it cannot be wrong, though others go on  *)
(* meanwhile, because nothing is ever taken back.                          *)
(***************************************************************************)
USE MigrationsAssumption, StatementsAssumption, FaultsAssumption

\* The loop of run_migrations at version v, with the first `done` of its
\* statements run: the versions before it are recorded.
Knows(o) ==
    /\ o.step \in {"select", "apply", "open"} => catalog
    /\ o.step = "apply" =>
          /\ o.applied \subseteq recorded
          /\ 1 .. o.version - 1 \subseteq recorded
          /\ o.version \in o.applied => o.done = 0
          /\ o.version \in Versions =>
                /\ o.done <= Statements[o.version]
                /\ \A i \in 1 .. o.done : <<o.version, i>> \in schema
    /\ o.step = "open" => Versions \subseteq recorded

OpenInv == OpenTypeOK /\ RecordedIsApplied /\ \A p \in Procs : Knows(opener[p])

----------------------------------------------------------------------------
\* A process that has not begun.
LEMMA FreshType == Fresh \in OpenerType
  BY DEF Fresh, OpenerType, Steps

\* The new file.
LEMMA InitOpenInv == OpenInit => OpenInv
<1> SUFFICES ASSUME OpenInit PROVE OpenInv
  OBVIOUS
<1>1. Fresh \in OpenerType
  BY FreshType
<1>2. OpenTypeOK
  <2>1. opener \in [Procs -> OpenerType]
    BY <1>1 DEF OpenInit
  <2>2. catalog \in BOOLEAN
    BY DEF OpenInit
  <2>3. faults \in 0 .. MaxFaults
    BY DEF OpenInit
  <2> QED
    BY <2>1, <2>2, <2>3 DEF OpenInit, OpenTypeOK
<1>3. RecordedIsApplied
  BY DEF OpenInit, RecordedIsApplied
<1>4. \A p \in Procs : opener[p].step = "start"
  BY DEF OpenInit, Fresh
<1>5. \A p \in Procs : Knows(opener[p])
  BY <1>4 DEF Knows
<1> QED
  BY <1>2, <1>3, <1>5 DEF OpenInv

\* What a process knows stays true while the database only grows.
LEMMA KnowsStays ==
    ASSUME NEW o, Knows(o), catalog => catalog',
           recorded \subseteq recorded', schema \subseteq schema'
    PROVE  Knows(o)'
  BY DEF Knows

\* A step of p to o: it is enough to look at o, and at the database.
LEMMA StepKeeps ==
    ASSUME OpenInv, NEW p \in Procs, NEW o \in OpenerType, OpenBecomes(p, o),
           catalog' \in BOOLEAN, catalog => catalog',
           recorded \subseteq recorded', recorded' \subseteq Versions,
           schema \subseteq schema', schema' \subseteq AllStatements,
           faults' \in 0 .. MaxFaults,
           RecordedIsApplied', Knows(o)'
    PROVE  OpenInv'
<1>1. /\ opener \in [Procs -> OpenerType]
      /\ opener' = [opener EXCEPT ![p] = o]
  BY DEF OpenInv, OpenTypeOK, OpenBecomes
<1>2. opener' \in [Procs -> OpenerType]
  BY <1>1
<1>3. ASSUME NEW q \in Procs PROVE Knows(opener[q])'
  <2>1. CASE q = p
    <3>1. opener'[q] = o
      BY <2>1, <1>1
    <3> QED
      BY <3>1 DEF Knows
  <2>2. CASE q # p
    <3>1. opener'[q] = opener[q] /\ Knows(opener[q])
      BY <2>2, <1>1 DEF OpenInv
    <3> QED
      BY <3>1 DEF Knows
  <2> QED
    BY <2>1, <2>2
<1>4. OpenTypeOK'
  BY <1>2 DEF OpenTypeOK
<1> QED
  BY <1>3, <1>4 DEF OpenInv

\* A step of p that leaves the tables alone.
LEMMA QuietStep ==
    ASSUME OpenInv, NEW p \in Procs, NEW o \in OpenerType, OpenBecomes(p, o),
           UNCHANGED <<catalog, schema, recorded>>, faults' \in 0 .. MaxFaults,
           Knows(o)
    PROVE  OpenInv'
<1>1. RecordedIsApplied'
  BY DEF OpenInv, RecordedIsApplied, StatementsOf
<1>2. Knows(o)'
  BY DEF Knows
<1> QED
  BY <1>1, <1>2, StepKeeps DEF OpenInv, OpenTypeOK

----------------------------------------------------------------------------
\* CREATE TABLE schema_migrations.
LEMMA CreatesCatalogStep ==
    ASSUME OpenInv, NEW p \in Procs, CreatesCatalog(p)
    PROVE  OpenInv'
<1>o. PICK o : o = [opener[p] EXCEPT !.step = "select"]
  OBVIOUS
<1>1. /\ OpenBecomes(p, o) /\ catalog' = TRUE /\ schema' = schema
      /\ recorded' = recorded /\ faults' = faults
  BY <1>o DEF CreatesCatalog
<1>2. o \in OpenerType /\ o.step = "select"
  BY <1>o DEF OpenInv, OpenTypeOK, OpenerType, Steps
<1>3. RecordedIsApplied'
  BY <1>1 DEF OpenInv, RecordedIsApplied, StatementsOf
<1>4. Knows(o)'
  BY <1>1, <1>2 DEF Knows
<1>5. catalog' \in BOOLEAN /\ (catalog => catalog')
  BY <1>1
<1>6. /\ recorded \subseteq recorded' /\ recorded' \subseteq Versions
      /\ schema \subseteq schema' /\ schema' \subseteq AllStatements
      /\ faults' \in 0 .. MaxFaults
  BY <1>1 DEF OpenInv, OpenTypeOK
<1> QED
  BY <1>1, <1>2, <1>3, <1>4, <1>5, <1>6, StepKeeps

\* The SELECT: what is applied is recorded now, and will be.
LEMMA ReadsAppliedStep ==
    ASSUME OpenInv, NEW p \in Procs, ReadsApplied(p)
    PROVE  OpenInv'
<1>o. PICK o : o = [Fresh EXCEPT !.step = "apply", !.applied = recorded]
  OBVIOUS
<1>1. /\ OpenBecomes(p, o) /\ UNCHANGED <<catalog, schema, recorded>>
      /\ faults' = faults /\ opener[p].step = "select"
  BY <1>o DEF ReadsApplied
<1>2. recorded \subseteq Versions
  BY DEF OpenInv, OpenTypeOK
<1>3. /\ o \in OpenerType
      /\ o.step = "apply" /\ o.applied = recorded /\ o.version = 1 /\ o.done = 0
  <2>1. o \in OpenerType
    BY <1>o, <1>2, FreshType DEF OpenerType, Steps
  <2> QED
    BY <1>o, <2>1 DEF Fresh
<1>4. catalog
  BY <1>1 DEF OpenInv, Knows
<1>5. Knows(o)
  BY <1>3, <1>4 DEF Knows, Versions
<1> QED
  BY <1>1, <1>3, <1>5, QuietStep DEF OpenInv, OpenTypeOK

\* A version that is recorded already.
LEMMA SkipsMigrationStep ==
    ASSUME OpenInv, NEW p \in Procs, SkipsMigration(p)
    PROVE  OpenInv'
<1>v. PICK v : v = opener[p].version
  OBVIOUS
<1>o. PICK o : o = [opener[p] EXCEPT !.version = v + 1]
  OBVIOUS
<1>1. /\ OpenBecomes(p, o) /\ UNCHANGED <<catalog, schema, recorded>>
      /\ faults' = faults /\ opener[p].step = "apply" /\ v \in opener[p].applied
  BY <1>o, <1>v DEF SkipsMigration
<1>2. opener[p] \in OpenerType
  BY DEF OpenInv, OpenTypeOK
<1>3. v \in Versions /\ o \in OpenerType
  BY <1>o, <1>v, <1>1, <1>2 DEF OpenerType, Versions
<1>4. /\ o.step = "apply" /\ o.applied = opener[p].applied
      /\ o.version = v + 1 /\ o.done = 0
  <2>1. opener[p].done = 0
    BY <1>v, <1>1 DEF OpenInv, Knows
  <2> QED
    BY <1>o, <1>v, <1>1, <1>2, <2>1 DEF OpenerType
<1>5. Knows(o)
  <2>1. catalog /\ o.applied \subseteq recorded /\ 1 .. v - 1 \subseteq recorded
    BY <1>v, <1>1, <1>4 DEF OpenInv, Knows
  <2>2. v \in recorded
    BY <1>1, <1>4, <2>1
  <2>3. 1 .. o.version - 1 \subseteq recorded
    BY <1>3, <1>4, <2>1, <2>2 DEF Versions
  <2>4. Statements[o.version] \in Nat \/ o.version \notin Versions
    BY DEF Versions
  <2> QED
    BY <1>4, <2>1, <2>3, <2>4 DEF Knows
<1> QED
  BY <1>1, <1>3, <1>5, QuietStep DEF OpenInv, OpenTypeOK

\* A statement of the migration runs: the versions before it are recorded.
LEMMA RunsStatementStep ==
    ASSUME OpenInv, NEW p \in Procs, RunsStatement(p)
    PROVE  OpenInv'
<1>v. PICK v : v = opener[p].version
  OBVIOUS
<1>d. PICK d : d = opener[p].done
  OBVIOUS
<1>o. PICK o : o = [opener[p] EXCEPT !.done = d + 1]
  OBVIOUS
<1>1. /\ OpenBecomes(p, o) /\ catalog' = catalog /\ recorded' = recorded
      /\ faults' = faults /\ schema' = schema \cup {<<v, d + 1>>}
      /\ opener[p].step = "apply" /\ v \in Versions \ opener[p].applied
      /\ d < Statements[v]
  BY <1>o, <1>v, <1>d DEF RunsStatement, Applying
<1>2. opener[p] \in OpenerType
  BY DEF OpenInv, OpenTypeOK
<1>3. /\ o \in OpenerType /\ d \in Nat /\ v \in Nat /\ Statements[v] \in Nat
      /\ o.step = "apply" /\ o.applied = opener[p].applied
      /\ o.version = v /\ o.done = d + 1
  BY <1>o, <1>v, <1>d, <1>1, <1>2 DEF OpenerType, Versions
<1>4. /\ catalog /\ o.applied \subseteq recorded /\ 1 .. v - 1 \subseteq recorded
      /\ \A i \in 1 .. d : <<v, i>> \in schema
  BY <1>v, <1>d, <1>1, <1>3 DEF OpenInv, Knows
<1>5. Knows(o)'
  <2>1. \A i \in 1 .. d + 1 : <<v, i>> \in schema'
    <3> SUFFICES ASSUME NEW i \in 1 .. d + 1 PROVE <<v, i>> \in schema'
      OBVIOUS
    <3>1. i \in 1 .. d \/ i = d + 1
      BY <1>3
    <3> QED
      BY <3>1, <1>1, <1>4
  <2>2. d + 1 <= Statements[v]
    BY <1>1, <1>3
  <2>3. catalog' /\ o.applied \subseteq recorded' /\ 1 .. v - 1 \subseteq recorded'
    BY <1>1, <1>4
  <2> QED
    BY <1>1, <1>3, <2>1, <2>2, <2>3 DEF Knows
<1>6. schema' \subseteq AllStatements
  <2>1. <<v, d + 1>> \in StatementsOf(v)
    BY <1>1, <1>3 DEF StatementsOf
  <2>2. <<v, d + 1>> \in AllStatements
    BY <1>1, <2>1 DEF AllStatements
  <2> QED
    BY <1>1, <2>2 DEF OpenInv, OpenTypeOK
<1>7. RecordedIsApplied'
  <2>1. \A s \in schema : 1 .. s[1] - 1 \subseteq recorded
    BY DEF OpenInv, RecordedIsApplied
  <2>2. <<v, d + 1>>[1] = v
    OBVIOUS
  <2>3. \A s \in schema' : 1 .. s[1] - 1 \subseteq recorded'
    BY <1>1, <1>4, <2>1, <2>2
  <2> QED
    BY <1>1, <2>3 DEF OpenInv, RecordedIsApplied, StatementsOf
<1>8. /\ catalog' \in BOOLEAN /\ (catalog => catalog')
      /\ recorded \subseteq recorded' /\ recorded' \subseteq Versions
      /\ schema \subseteq schema' /\ faults' \in 0 .. MaxFaults
  BY <1>1 DEF OpenInv, OpenTypeOK
<1> QED
  BY <1>1, <1>3, <1>5, <1>6, <1>7, <1>8, StepKeeps

\* The INSERT: the whole migration has run, and the versions before it are
\* recorded.  If it is recorded by now, open fails.
LEMMA RecordsStep ==
    ASSUME OpenInv, NEW p \in Procs, Records(p)
    PROVE  OpenInv'
<1>v. PICK v : v = opener[p].version
  OBVIOUS
<1>1. /\ catalog' = catalog /\ schema' = schema /\ faults' = faults
      /\ opener[p].step = "apply" /\ v \in Versions \ opener[p].applied
      /\ opener[p].done = Statements[v]
  BY <1>v DEF Records, Applying
<1>2. opener[p] \in OpenerType
  BY DEF OpenInv, OpenTypeOK
<1>3. v \in Nat /\ Statements[v] \in Nat
  BY <1>1 DEF Versions
<1>4. /\ catalog /\ opener[p].applied \subseteq recorded
      /\ 1 .. v - 1 \subseteq recorded
      /\ \A i \in 1 .. Statements[v] : <<v, i>> \in schema
  BY <1>v, <1>1, <1>3 DEF OpenInv, Knows
<1>5. CASE v \in recorded
  <2>o. PICK o : o = [Fresh EXCEPT !.step = "failed"]
    OBVIOUS
  <2>1. OpenBecomes(p, o) /\ recorded' = recorded
    BY <1>v, <1>5, <2>o DEF Records
  <2>2. o \in OpenerType /\ Knows(o)
    BY <2>o, FreshType DEF OpenerType, Steps, Knows
  <2> QED
    BY <1>1, <2>1, <2>2, QuietStep DEF OpenInv, OpenTypeOK
<1>6. CASE v \notin recorded
  <2>o. PICK o : o = [opener[p] EXCEPT !.version = v + 1, !.done = 0]
    OBVIOUS
  <2>1. OpenBecomes(p, o) /\ recorded' = recorded \cup {v}
    BY <1>v, <1>6, <2>o DEF Records
  <2>2. /\ o \in OpenerType /\ o.step = "apply"
        /\ o.applied = opener[p].applied /\ o.version = v + 1 /\ o.done = 0
    <3>1. v + 1 \in 1 .. Migrations + 1
      BY <1>1, <1>3 DEF Versions
    <3>2. o \in OpenerType
      BY <2>o, <1>2, <3>1 DEF OpenerType
    <3> QED
      BY <2>o, <1>1, <1>2, <3>2 DEF OpenerType
  <2>3. 1 .. v \subseteq recorded'
    BY <1>3, <1>4, <2>1
  <2>4. Knows(o)'
    <3>1. catalog' /\ o.applied \subseteq recorded'
      BY <1>1, <1>4, <2>1, <2>2
    <3>2. 1 .. o.version - 1 \subseteq recorded'
      BY <1>3, <2>2, <2>3
    <3>3. Statements[o.version] \in Nat \/ o.version \notin Versions
      BY DEF Versions
    <3> QED
      BY <2>2, <3>1, <3>2, <3>3 DEF Knows
  <2>5. RecordedIsApplied'
    <3>1. \A w \in recorded' : StatementsOf(w)' \subseteq schema'
      <4>1. StatementsOf(v) \subseteq schema
        BY <1>4 DEF StatementsOf
      <4> QED
        BY <4>1, <1>1, <2>1 DEF OpenInv, RecordedIsApplied, StatementsOf
    <3>2. \A w \in recorded' : 1 .. w \subseteq recorded'
      BY <2>1, <2>3 DEF OpenInv, RecordedIsApplied
    <3>3. \A s \in schema' : 1 .. s[1] - 1 \subseteq recorded'
      BY <1>1, <2>1 DEF OpenInv, RecordedIsApplied
    <3> QED
      BY <3>1, <3>2, <3>3 DEF RecordedIsApplied
  <2>6. /\ catalog' \in BOOLEAN /\ (catalog => catalog')
        /\ recorded \subseteq recorded' /\ recorded' \subseteq Versions
        /\ schema \subseteq schema' /\ schema' \subseteq AllStatements
        /\ faults' \in 0 .. MaxFaults
    BY <1>1, <2>1 DEF OpenInv, OpenTypeOK
  <2> QED
    BY <2>1, <2>2, <2>4, <2>5, <2>6, StepKeeps
<1> QED
  BY <1>5, <1>6

\* The end of the loop: every version is recorded.
LEMMA OpensStep ==
    ASSUME OpenInv, NEW p \in Procs, Opens(p)
    PROVE  OpenInv'
<1>o. PICK o : o = [Fresh EXCEPT !.step = "open"]
  OBVIOUS
<1>1. /\ OpenBecomes(p, o) /\ UNCHANGED <<catalog, schema, recorded>>
      /\ faults' = faults
      /\ opener[p].step = "apply" /\ opener[p].version = Migrations + 1
  BY <1>o DEF Opens
<1>2. o \in OpenerType /\ o.step = "open"
  BY <1>o, FreshType DEF OpenerType, Steps
<1>3. catalog /\ Versions \subseteq recorded
  BY <1>1 DEF OpenInv, Knows, Versions
<1>4. Knows(o)
  BY <1>2, <1>3 DEF Knows
<1> QED
  BY <1>1, <1>2, <1>4, QuietStep DEF OpenInv, OpenTypeOK

\* A failure, and the next try.
LEMMA FaultsStep ==
    ASSUME OpenInv, NEW p \in Procs, Faults(p) \/ Retries(p)
    PROVE  OpenInv'
<1>1. PICK o \in {Fresh, [Fresh EXCEPT !.step = "failed"]} : OpenBecomes(p, o)
  BY DEF Faults, Retries
<1>2. o \in OpenerType /\ o.step \in {"start", "failed"}
  BY <1>1, FreshType DEF Fresh, OpenerType, Steps
<1>3. Knows(o)
  BY <1>2 DEF Knows
<1>4. UNCHANGED <<catalog, schema, recorded>>
  BY DEF Faults, Retries
<1>5. faults' \in 0 .. MaxFaults
  BY DEF Faults, Retries, OpenInv, OpenTypeOK
<1> QED
  BY <1>1, <1>2, <1>3, <1>4, <1>5, QuietStep

\* OpenInv is inductive.
LEMMA NextOpenInv == OpenInv /\ [OpenNext]_openVars => OpenInv'
<1> SUFFICES ASSUME OpenInv, [OpenNext]_openVars PROVE OpenInv'
  OBVIOUS
<1>1. CASE UNCHANGED openVars
  BY <1>1 DEF openVars, OpenInv, OpenTypeOK, RecordedIsApplied, StatementsOf, Knows
<1>2. CASE OpenNext
  BY <1>2, CreatesCatalogStep, ReadsAppliedStep, SkipsMigrationStep,
     RunsStatementStep, RecordsStep, OpensStep, FaultsStep DEF OpenNext, Migrates
<1> QED
  BY <1>1, <1>2

\* OpenInv holds in every state.
LEMMA OpenInvariant == OpenSpec => []OpenInv
  BY InitOpenInv, NextOpenInv, PTL DEF OpenSpec

\* Whoever has the database open finds every statement executed.
LEMMA SchemaIsComplete == OpenInv => OpenFindsSchema
<1> SUFFICES ASSUME OpenInv, NEW p \in Procs, Opened(p)
             PROVE  catalog /\ schema = AllStatements /\ recorded = Versions
  BY DEF OpenFindsSchema
<1>1. catalog /\ recorded = Versions
  BY DEF Opened, OpenInv, Knows, OpenTypeOK
<1>2. AllStatements \subseteq schema
  BY <1>1 DEF AllStatements, OpenInv, RecordedIsApplied
<1> QED
  BY <1>1, <1>2 DEF OpenInv, OpenTypeOK

----------------------------------------------------------------------------
(* Theorems *)

\* The variables of open keep their types (run_migrations).
THEOREM OpenTypeCorrect == OpenSpec => []OpenTypeOK
<1>1. OpenInv => OpenTypeOK
  BY DEF OpenInv
<1> QED
  BY <1>1, OpenInvariant, PTL

\* However many processes migrate the database at once and wherever they fail,
\* a version that is recorded has been applied, and those before it, too.
THEOREM MigrationsAreApplied == OpenSpec => []RecordedIsApplied
<1>1. OpenInv => RecordedIsApplied
  BY DEF OpenInv
<1> QED
  BY <1>1, OpenInvariant, PTL

\* Whoever gets a connection finds the whole schema (open).
THEOREM OpenIsMigrated == OpenSpec => []OpenFindsSchema
  BY SchemaIsComplete, OpenInvariant, PTL

----------------------------------------------------------------------------
(***************************************************************************)
(* Proofs about the settings, for any keys, values and processes.  The     *)
(* inductive invariant IInv adds to the types and to OpenInv               *)
(*                                                                         *)
(*   JobOK       what a command holds has been set or is a default, and    *)
(*               what it resolved is what its layers say;                  *)
(*   LayersOK    the same of the file and of the session;                  *)
(*   FileExact   as long as sets of the file do not overlap, there is one  *)
(*               of them at a time, and it holds what the file should be;  *)
(*   RowExact    the same of the session.                                  *)
(***************************************************************************)

USE KeyAssumption, UnsetAssumption, EditorAssumption, DefaultsAssumption,
    AssignmentsAssumption, OverridesAssumption

\* The values of a layer that were set for their keys, or are defaults.
SetOrDefault(l) == \A k \in Keys : l[k] # DefaultConfig[k] => <<k, l[k]>> \in Assignments
SetOrUnset(l) == \A k \in Keys : l[k] # Unset => <<k, l[k]>> \in Assignments

\* What MostSpecificLayerWins says of one command.
LoggingResolved(j) ==
    \A k \in LoggingKeys :
        /\ j.result[k] \in {j.cli[k], j.own[k], j.global[k]} \ {Unset}
        /\ j.cli[k] # Unset => j.result[k] = j.cli[k]
        /\ j.cli[k] = Unset /\ j.own[k] # Unset => j.result[k] = j.own[k]
EditorResolved(j) ==
    IsEditorOf(j.result[EditorKey], j.cli[EditorKey], j.own[EditorKey],
               j.global[EditorKey], j.visual, j.editor)
Resolved(j) ==
    j.step = "resolved" =>
        /\ j.kind = "attach" => LoggingResolved(j)
        /\ j.kind = "note" => EditorResolved(j)

JobOK(j) ==
    /\ j.step = "saving" => j.kind = "config set"
    /\ j.step # "resolved" => j.cli = Nothing /\ j.result = Nothing
    /\ j.kind \in {"config set", "attach"} => SetOrDefault(j.global)
    /\ j.kind = "settings set" => SetOrUnset(j.own)
    /\ j.kind \in {"config set", "settings set"} => <<j.key, j.value>> \in Assignments
    /\ Resolved(j)

LayersOK == SetOrDefault(config) /\ SetOrUnset(session)

FileExact ==
    "file" \notin overlapped =>
        /\ \A p, q \in Procs :
              Setting(p, "config set") /\ Setting(q, "config set") => p = q
        /\ \A p \in Procs : Setting(p, "config set") => job[p].global = intended.file
        /\ (\A p \in Procs : job[p].step # "saving") => config = intended.file
RowExact ==
    "row" \notin overlapped =>
        /\ \A p, q \in Procs :
              Setting(p, "settings set") /\ Setting(q, "settings set") => p = q
        /\ \A p \in Procs : Setting(p, "settings set") => job[p].own = intended.row
        /\ session = intended.row

SettingsTypeOK ==
    /\ config \in Layer /\ session \in Layer
    /\ job \in [Procs -> JobType]
    /\ intended \in [file : Layer, row : Layer]
    /\ overlapped \subseteq {"file", "row"}

SettingsInv ==
    /\ SettingsTypeOK /\ LayersOK /\ FileExact /\ RowExact
    /\ \A p \in Procs : JobOK(job[p])
IInv == OpenInv /\ SettingsInv

----------------------------------------------------------------------------
(* Layers *)

\* The defaults and the empty layer.
LEMMA LayerTypes ==
    /\ DefaultConfig \in Layer /\ Nothing \in Layer
    /\ SetOrDefault(DefaultConfig) /\ SetOrUnset(Nothing)
<1>1. DefaultConfig \in Layer /\ Nothing \in Layer
  BY DEF DefaultConfig, Nothing, Layer, Keys, Values
<1> QED
  BY <1>1 DEF SetOrDefault, SetOrUnset, Nothing

\* Setting a key keeps a layer a layer, and changes this key alone.
LEMMA SetKeyType ==
    ASSUME NEW l \in Layer, NEW k, NEW v, <<k, v>> \in Assignments
    PROVE  /\ SetKey(l, k, v) \in Layer
           /\ SetOrDefault(l) => SetOrDefault(SetKey(l, k, v))
           /\ SetOrUnset(l) => SetOrUnset(SetKey(l, k, v))
<1>1. k \in Keys /\ v \in Values
  OBVIOUS
<1>2. SetKey(l, k, v) \in Layer
  BY <1>1 DEF SetKey, Layer
<1>3. \A i \in Keys : SetKey(l, k, v)[i] = IF i = k THEN v ELSE l[i]
  BY DEF SetKey, Layer
<1>4. SetOrDefault(l) => SetOrDefault(SetKey(l, k, v))
  BY <1>3 DEF SetOrDefault
<1>5. SetOrUnset(l) => SetOrUnset(SetKey(l, k, v))
  BY <1>3 DEF SetOrUnset
<1> QED
  BY <1>2, <1>4, <1>5

\* The file has a value for every logging key.
LEMMA FileIsComplete ==
    ASSUME NEW l \in Layer, SetOrDefault(l), NEW k \in LoggingKeys
    PROVE  l[k] \in LoggingValues /\ l[k] # Unset
<1>1. k \in Keys /\ k # EditorKey
  BY DEF Keys
<1>2. CASE l[k] = DefaultConfig[k]
  BY <1>1, <1>2 DEF DefaultConfig, Values
<1>3. CASE l[k] # DefaultConfig[k]
  <2>1. <<k, l[k]>> \in Assignments
    BY <1>1, <1>3 DEF SetOrDefault
  <2>2. <<k, l[k]>> \in {a \in Keys \X Values : a[2] \in ValuesOf(a[1])}
    BY <2>1
  <2>3. l[k] \in ValuesOf(k)
    BY <2>2
  <2> QED
    BY <1>1, <2>3 DEF ValuesOf, Values
<1> QED
  BY <1>2, <1>3

\* A value of the session for a logging key is one of a logging key.
LEMMA OwnIsLogging ==
    ASSUME NEW l \in Layer, SetOrUnset(l), NEW k \in LoggingKeys, l[k] # Unset
    PROVE  l[k] \in LoggingValues
<1>1. k \in Keys /\ k # EditorKey
  BY DEF Keys
<1>2. <<k, l[k]>> \in Assignments
  BY <1>1 DEF SetOrUnset
<1>3. <<k, l[k]>> \in {a \in Keys \X Values : a[2] \in ValuesOf(a[1])}
  BY <1>2
<1> QED
  BY <1>1, <1>3 DEF ValuesOf

\* resolve_logging gives every logging key a value, that of the most specific
\* layer that sets it.
LEMMA ResolveLoggingIs ==
    ASSUME NEW global \in Layer, SetOrDefault(global),
           NEW own \in Layer, SetOrUnset(own), NEW cli \in Overrides
    PROVE  /\ ResolveLogging(global, own, cli) \in [LoggingKeys -> LoggingValues]
           /\ \A k \in LoggingKeys :
                 ResolveLogging(global, own, cli)[k] =
                     IF cli[k] # Unset THEN cli[k]
                     ELSE IF own[k] # Unset THEN own[k] ELSE global[k]
<1>1. \A k \in LoggingKeys :
          ResolveLogging(global, own, cli)[k] =
              IF cli[k] # Unset THEN cli[k]
              ELSE IF own[k] # Unset THEN own[k] ELSE global[k]
  BY DEF ResolveLogging, ApplyOverride
<1>2. \A k \in LoggingKeys : cli[k] \in LoggingValues \cup {Unset}
  OBVIOUS
<1>3. \A k \in LoggingKeys : ResolveLogging(global, own, cli)[k] \in LoggingValues
  BY <1>1, <1>2, FileIsComplete, OwnIsLogging
<1>4. ResolveLogging(global, own, cli) =
          [k \in LoggingKeys |-> ResolveLogging(global, own, cli)[k]]
  BY DEF ResolveLogging, ApplyOverride
<1> QED
  BY <1>1, <1>3, <1>4

\* What a layer has for a key.
Choices == Values \cup {Unset}

\* resolve_editor finds an editor to run, that of the first that is set.
LEMMA ResolveEditorIs ==
    ASSUME NEW cli \in EditorChoices, NEW own \in Choices, NEW global \in Choices,
           NEW visual \in EditorChoices, NEW editor \in EditorChoices,
           NEW e, e = ResolveEditor(cli, own, global, visual, editor)
    PROVE  e \in Values /\ IsEditorOf(e, cli, own, global, visual, editor)
<1> DEFINE choices == <<cli, own, global, visual, editor>>
<1> DEFINE isSet == {i \in 1 .. 5 : choices[i] # Unset /\ (i < 4 \/ choices[i] # Blank)}
<1> DEFINE first == CHOOSE i \in isSet : \A j \in isSet : i <= j
<1> DEFINE chosen == IF isSet = {} THEN Vim ELSE choices[first]
<1>1. e = IF chosen = Blank THEN Vim ELSE chosen
  BY DEF ResolveEditor
<1>2. /\ choices[1] = cli /\ choices[2] = own /\ choices[3] = global
      /\ choices[4] = visual /\ choices[5] = editor
  OBVIOUS
<1>3. \A i \in 1 .. 5 : choices[i] \in Values \cup {Unset}
  BY <1>2 DEF Values, EditorChoices, Choices
<1>4. isSet \subseteq 1 .. 5 /\ \A i \in isSet : choices[i] # Unset
  OBVIOUS
<1>5. /\ 1 \in isSet <=> cli # Unset
      /\ 2 \in isSet <=> own # Unset
      /\ 3 \in isSet <=> global # Unset
      /\ 4 \in isSet <=> visual \notin {Unset, Blank}
      /\ 5 \in isSet <=> editor \notin {Unset, Blank}
  BY <1>2
<1> HIDE DEF choices, isSet
<1>7. isSet # {} => first \in isSet /\ \A j \in isSet : first <= j
  <2> SUFFICES ASSUME isSet # {} PROVE \E i \in isSet : \A j \in isSet : i <= j
    OBVIOUS
  <2>1. CASE 1 \in isSet
    BY <2>1, <1>4
  <2>2. CASE 1 \notin isSet /\ 2 \in isSet
    BY <2>2, <1>4
  <2>3. CASE 1 \notin isSet /\ 2 \notin isSet /\ 3 \in isSet
    BY <2>3, <1>4
  <2>4. CASE 1 \notin isSet /\ 2 \notin isSet /\ 3 \notin isSet /\ 4 \in isSet
    BY <2>4, <1>4
  <2>5. CASE 1 \notin isSet /\ 2 \notin isSet /\ 3 \notin isSet /\ 4 \notin isSet
    <3>1. PICK i \in isSet : TRUE
      OBVIOUS
    <3>2. i = 5 /\ \A j \in isSet : j = 5
      BY <2>5, <3>1, <1>4
    <3> QED
      BY <3>1, <3>2
  <2> QED
    BY <2>1, <2>2, <2>3, <2>4, <2>5
<1> HIDE DEF first
<1>8. ASSUME NEW n \in isSet, \A i \in 1 .. 5 : i < n => i \notin isSet
      PROVE  chosen = choices[n]
  <2>1. first \in 1 .. 5 /\ first <= n /\ first \in isSet /\ n \in 1 .. 5
    BY <1>4, <1>7
  <2>2. first = n
    BY <1>8, <2>1
  <2>3. isSet # {}
    BY <1>8
  <2> QED
    BY <2>2, <2>3
<1>9. isSet = {} => chosen = Vim
  OBVIOUS
<1>10. chosen \in Values
  <2>1. CASE isSet = {}
    BY <2>1 DEF Values
  <2>2. CASE isSet # {}
    BY <2>2, <1>3, <1>4, <1>7
  <2> QED
    BY <2>1, <2>2
<1> HIDE DEF chosen
<1>11. cli # Unset => chosen = cli
  BY <1>2, <1>5, <1>8
<1>12. cli = Unset /\ own # Unset => chosen = own
  BY <1>2, <1>5, <1>8
<1>13. cli = Unset /\ own = Unset /\ global # Unset => chosen = global
  BY <1>2, <1>5, <1>8
<1>14. ASSUME cli = Unset, own = Unset, global = Unset
       PROVE  \/ visual \notin {Unset, Blank} /\ chosen = visual
              \/ /\ visual \in {Unset, Blank} /\ editor \notin {Unset, Blank}
                 /\ chosen = editor
              \/ {visual, editor} \subseteq {Unset, Blank} /\ chosen = Vim
  <2>1. 1 \notin isSet /\ 2 \notin isSet /\ 3 \notin isSet
    BY <1>5, <1>14
  <2>2. CASE 4 \in isSet
    BY <1>2, <1>5, <1>8, <2>1, <2>2
  <2>3. CASE 4 \notin isSet /\ 5 \in isSet
    BY <1>2, <1>5, <1>8, <2>1, <2>3
  <2>4. CASE 4 \notin isSet /\ 5 \notin isSet
    <3>1. isSet = {}
      BY <1>4, <2>1, <2>4
    <3> QED
      BY <1>5, <1>9, <2>4, <3>1
  <2> QED
    BY <2>2, <2>3, <2>4
<1>15. e = RunsFor(chosen)
  BY <1>1 DEF RunsFor
<1>16. e \in Values
  BY <1>10, <1>15 DEF RunsFor, Values
<1>17. Vim # Blank
  OBVIOUS
<1>18. cli = Unset /\ own = Unset /\ global = Unset =>
          \/ visual \notin {Unset, Blank} /\ e = visual
          \/ visual \in {Unset, Blank} /\ editor \notin {Unset, Blank} /\ e = editor
          \/ {visual, editor} \subseteq {Unset, Blank} /\ e = Vim
  BY <1>14, <1>15, <1>17 DEF RunsFor
<1> QED
  BY <1>11, <1>12, <1>13, <1>15, <1>16, <1>18 DEF IsEditorOf

----------------------------------------------------------------------------
(* Steps *)

\* No command.
LEMMA NoJobOK ==
    /\ NoJob \in JobType /\ JobOK(NoJob)
    /\ NoJob.kind = "none" /\ NoJob.step = "idle"
<1>1. /\ EditorKey \in Keys /\ Vim \in Values /\ Nothing \in Layer
      /\ Unset \in EditorChoices
  BY LayerTypes DEF Keys, Values, EditorChoices
<1>2. NoJob \in JobType
  BY <1>1 DEF NoJob, JobType
<1>3. NoJob.kind = "none" /\ NoJob.step = "idle"
      /\ NoJob.cli = Nothing /\ NoJob.result = Nothing
  BY DEF NoJob
<1> QED
  BY <1>2, <1>3 DEF JobOK, Resolved

\* The first settings.
LEMMA InitSettings == SettingsInit => SettingsInv
<1> SUFFICES ASSUME SettingsInit PROVE SettingsInv
  OBVIOUS
<1>1. \A p \in Procs : job[p] = NoJob
  BY DEF SettingsInit
<1>2. SettingsTypeOK
  <2>1. job \in [Procs -> JobType]
    BY NoJobOK DEF SettingsInit
  <2> QED
    BY <2>1, LayerTypes DEF SettingsInit, SettingsTypeOK, NoFile
<1>3. LayersOK
  BY LayerTypes DEF SettingsInit, LayersOK, NoFile
<1>4. FileExact /\ RowExact
  BY <1>1, NoJobOK DEF SettingsInit, FileExact, RowExact, Setting, NoFile
<1> QED
  BY <1>1, <1>2, <1>3, <1>4, NoJobOK DEF SettingsInv

\* A step of p to j: it is enough to look at j and at the layers.
LEMMA JobStep ==
    ASSUME SettingsInv, NEW p \in Procs, NEW j \in JobType, JobOK(j), Becomes(p, j),
           config' \in Layer, session' \in Layer, LayersOK',
           intended' \in [file : Layer, row : Layer],
           overlapped' \subseteq {"file", "row"},
           FileExact', RowExact'
    PROVE  SettingsInv'
<1>1. job \in [Procs -> JobType] /\ job' = [job EXCEPT ![p] = j]
  BY DEF SettingsInv, SettingsTypeOK, Becomes
<1>2. job' \in [Procs -> JobType]
  BY <1>1
<1>3. ASSUME NEW q \in Procs PROVE JobOK(job[q])'
  <2>1. CASE q = p
    <3>1. job'[q] = j
      BY <2>1, <1>1
    <3> QED
      BY <3>1 DEF JobOK
  <2>2. CASE q # p
    <3>1. job'[q] = job[q] /\ JobOK(job[q])
      BY <2>2, <1>1 DEF SettingsInv
    <3> QED
      BY <3>1 DEF JobOK
  <2> QED
    BY <2>1, <2>2
<1>4. SettingsTypeOK'
  BY <1>2 DEF SettingsTypeOK
<1> QED
  BY <1>3, <1>4 DEF SettingsInv

\* The file and the row stay exact when p, that does not save, goes to a j that
\* does neither, or holds what it held.
LEMMA ExactStays ==
    ASSUME SettingsInv, NEW p \in Procs, NEW j \in JobType, Becomes(p, j),
           config' = config, session' = session, intended' = intended,
           overlapped \subseteq overlapped',
           "file" \in overlapped' \/
              (job[p].step # "saving" /\ j.kind # "config set" /\ j.step # "saving"),
           j.kind # "settings set"
    PROVE  FileExact' /\ RowExact'
<1>1. job \in [Procs -> JobType] /\ job' = [job EXCEPT ![p] = j]
  BY DEF SettingsInv, SettingsTypeOK, Becomes
<1>2. job'[p] = j /\ \A q \in Procs \ {p} : job'[q] = job[q]
  BY <1>1
<1>3. FileExact'
  BY <1>2 DEF SettingsInv, FileExact, Setting
<1>4. RowExact'
  BY <1>2 DEF SettingsInv, RowExact, Setting
<1> QED
  BY <1>3, <1>4

\* The types that JobStep asks for, of a step that leaves the layers alone.
LEMMA LayersStay ==
    ASSUME SettingsInv, config' = config, session' = session, intended' = intended
    PROVE  /\ config' \in Layer /\ session' \in Layer /\ LayersOK'
           /\ intended' \in [file : Layer, row : Layer]
  BY DEF SettingsInv, SettingsTypeOK, LayersOK, SetOrDefault, SetOrUnset

\* `config set` reads the file.
LEMMA ConfigSetLoadsStep ==
    ASSUME SettingsInv, NEW p \in Procs, NEW k, NEW v, <<k, v>> \in Assignments,
           ConfigSetLoads(p, k, v)
    PROVE  SettingsInv'
<1>j. PICK j : j = [NoJob EXCEPT !.kind = "config set", !.step = "loaded",
                        !.key = k, !.value = v, !.global = config]
  OBVIOUS
<1>1. /\ job[p] = NoJob /\ Becomes(p, j)
      /\ overlapped' = IF Alone(p, "config set") THEN overlapped
                       ELSE overlapped \cup {"file"}
      /\ config' = config /\ session' = session /\ intended' = intended
  BY <1>j DEF ConfigSetLoads, Free
<1>2. k \in Keys /\ v \in Values /\ config \in Layer /\ SetOrDefault(config)
  BY DEF SettingsInv, SettingsTypeOK, LayersOK
<1>3. /\ j \in JobType /\ j.kind = "config set" /\ j.step = "loaded"
      /\ j.key = k /\ j.value = v /\ j.global = config
      /\ j.cli = Nothing /\ j.result = Nothing
  BY <1>j, <1>2, NoJobOK DEF NoJob, JobType
<1>4. JobOK(j)
  BY <1>2, <1>3 DEF JobOK, Resolved
<1>5. job \in [Procs -> JobType] /\ job' = [job EXCEPT ![p] = j]
  BY <1>1 DEF SettingsInv, SettingsTypeOK, Becomes
<1>6. job'[p] = j /\ \A q \in Procs \ {p} : job'[q] = job[q]
  BY <1>5
<1>7. FileExact'
  <2> SUFFICES ASSUME "file" \notin overlapped'
               PROVE  /\ \A q \in Procs : job'[q].kind = "config set" =>
                             q = p /\ job'[q].global = intended'.file
                      /\ config' = intended'.file
    BY DEF FileExact, Setting
  <2>1. "file" \notin overlapped /\ \A q \in Procs \ {p} : job[q].kind # "config set"
    BY <1>1 DEF Alone, Setting
  <2>2. \A q \in Procs : job[q].step # "saving"
    BY <1>1, <2>1, NoJobOK DEF SettingsInv, JobOK
  <2>3. config = intended.file
    BY <2>1, <2>2 DEF SettingsInv, FileExact
  <2> QED
    BY <1>1, <1>3, <1>6, <2>1, <2>3
<1>8. RowExact'
  <2>1. \A q \in Procs : job'[q].kind = "settings set" => job'[q] = job[q]
    BY <1>3, <1>6
  <2>2. "row" \notin overlapped' => "row" \notin overlapped
    BY <1>1
  <2> QED
    BY <1>1, <2>1, <2>2 DEF SettingsInv, RowExact, Setting
<1>9. overlapped' \subseteq {"file", "row"}
  BY <1>1 DEF SettingsInv, SettingsTypeOK
<1> QED
  BY <1>1, <1>3, <1>4, <1>7, <1>8, <1>9, LayersStay, JobStep

\* `settings set` reads the row.
LEMMA SettingsSetReadsStep ==
    ASSUME SettingsInv, NEW p \in Procs, NEW k, NEW v, <<k, v>> \in Assignments,
           SettingsSetReads(p, k, v)
    PROVE  SettingsInv'
<1>j. PICK j : j = [NoJob EXCEPT !.kind = "settings set", !.step = "loaded",
                        !.key = k, !.value = v, !.own = session]
  OBVIOUS
<1>1. /\ job[p] = NoJob /\ Becomes(p, j)
      /\ overlapped' = IF Alone(p, "settings set") THEN overlapped
                       ELSE overlapped \cup {"row"}
      /\ config' = config /\ session' = session /\ intended' = intended
  BY <1>j DEF SettingsSetReads, Free
<1>2. k \in Keys /\ v \in Values /\ session \in Layer /\ SetOrUnset(session)
  BY DEF SettingsInv, SettingsTypeOK, LayersOK
<1>3. /\ j \in JobType /\ j.kind = "settings set" /\ j.step = "loaded"
      /\ j.key = k /\ j.value = v /\ j.own = session
      /\ j.cli = Nothing /\ j.result = Nothing
  BY <1>j, <1>2, NoJobOK DEF NoJob, JobType
<1>4. JobOK(j)
  BY <1>2, <1>3 DEF JobOK, Resolved
<1>5. job \in [Procs -> JobType] /\ job' = [job EXCEPT ![p] = j]
  BY <1>1 DEF SettingsInv, SettingsTypeOK, Becomes
<1>6. job'[p] = j /\ \A q \in Procs \ {p} : job'[q] = job[q]
  BY <1>5
<1>7. RowExact'
  <2> SUFFICES ASSUME "row" \notin overlapped'
               PROVE  /\ \A q \in Procs : job'[q].kind = "settings set" =>
                             q = p /\ job'[q].own = intended'.row
                      /\ session' = intended'.row
    BY DEF RowExact, Setting
  <2>1. "row" \notin overlapped /\ \A q \in Procs \ {p} : job[q].kind # "settings set"
    BY <1>1 DEF Alone, Setting
  <2>2. session = intended.row
    BY <2>1 DEF SettingsInv, RowExact
  <2> QED
    BY <1>1, <1>3, <1>6, <2>1, <2>2
<1>8. FileExact'
  <2>1. \A q \in Procs : job'[q].kind = "config set" => job'[q] = job[q]
    BY <1>3, <1>6
  <2>2. "file" \notin overlapped' => "file" \notin overlapped
    BY <1>1
  <2>3. \A q \in Procs : job'[q].step # "saving" => job[q].step # "saving"
    BY <1>1, <1>6, NoJobOK
  <2> QED
    BY <1>1, <2>1, <2>2, <2>3 DEF SettingsInv, FileExact, Setting
<1>9. overlapped' \subseteq {"file", "row"}
  BY <1>1 DEF SettingsInv, SettingsTypeOK
<1> QED
  BY <1>1, <1>3, <1>4, <1>7, <1>8, <1>9, LayersStay, JobStep

\* A step of p, with the layers as they are, to a command that sets nothing.
LEMMA ReaderStep ==
    ASSUME SettingsInv, NEW p \in Procs, NEW j \in JobType, JobOK(j), Becomes(p, j),
           UNCHANGED <<config, session, intended>>,
           overlapped \subseteq overlapped', overlapped' \subseteq {"file", "row"},
           "file" \in overlapped' \/ job[p].step # "saving",
           j.kind \in {"none", "attach", "note"}
    PROVE  SettingsInv'
<1>1. j.step # "saving"
  BY DEF JobOK
<1>2. FileExact' /\ RowExact'
  BY <1>1, ExactStays
<1> QED
  BY <1>2, LayersStay, JobStep

\* save truncates the file: from now on it is exact only when it is written.
LEMMA ConfigSetTruncatesStep ==
    ASSUME SettingsInv, NEW p \in Procs, ConfigSetTruncates(p)
    PROVE  SettingsInv'
<1>j. PICK j : j = [job[p] EXCEPT !.step = "saving"]
  OBVIOUS
<1>1. /\ job[p].kind = "config set" /\ job[p].step = "loaded" /\ Becomes(p, j)
      /\ config' = DefaultConfig /\ session' = session /\ intended' = intended
      /\ overlapped' = overlapped
  BY <1>j DEF ConfigSetTruncates, Setting, Truncated
<1>2. job[p] \in JobType /\ JobOK(job[p])
  BY DEF SettingsInv, SettingsTypeOK
<1>3. /\ j \in JobType /\ j.kind = "config set" /\ j.step = "saving"
      /\ j.global = job[p].global /\ j.key = job[p].key /\ j.value = job[p].value
      /\ j.cli = job[p].cli /\ j.result = job[p].result
  BY <1>j, <1>1, <1>2 DEF JobType
<1>4. JobOK(j)
  BY <1>1, <1>2, <1>3 DEF JobOK, Resolved
<1>5. job'[p] = j /\ \A q \in Procs \ {p} : job'[q] = job[q]
  BY <1>1 DEF SettingsInv, SettingsTypeOK, Becomes
<1>6. FileExact'
  <2>1. \A q \in Procs : /\ job'[q].kind = job[q].kind
                         /\ job'[q].global = job[q].global
    BY <1>1, <1>3, <1>5
  <2>2. job'[p].step = "saving"
    BY <1>3, <1>5
  <2> QED
    BY <1>1, <2>1, <2>2 DEF SettingsInv, FileExact, Setting
<1>7. RowExact'
  <2>1. \A q \in Procs : job'[q].kind = "settings set" => job'[q] = job[q]
    BY <1>3, <1>5
  <2>2. \A q \in Procs : job'[q].kind = job[q].kind
    BY <1>1, <1>3, <1>5
  <2> QED
    BY <1>1, <2>1, <2>2 DEF SettingsInv, RowExact, Setting
<1>8. config' \in Layer /\ SetOrDefault(config)'
  BY <1>1, LayerTypes
<1>9. /\ session' \in Layer /\ SetOrUnset(session)'
      /\ intended' \in [file : Layer, row : Layer]
      /\ overlapped' \subseteq {"file", "row"}
  BY <1>1 DEF SettingsInv, SettingsTypeOK, LayersOK
<1> QED
  BY <1>1, <1>3, <1>4, <1>6, <1>7, <1>8, <1>9, JobStep DEF LayersOK

\* save writes the file: alone, it writes what the file should be.
LEMMA ConfigSetWritesStep ==
    ASSUME SettingsInv, NEW p \in Procs, ConfigSetWrites(p)
    PROVE  SettingsInv'
<1>k. PICK k : k = job[p].key
  OBVIOUS
<1>v. PICK v : v = job[p].value
  OBVIOUS
<1>1. /\ job[p].kind = "config set" /\ job[p].step = "saving"
      /\ config' = SetKey(job[p].global, k, v)
      /\ intended' = [intended EXCEPT !.file[k] = v]
      /\ Becomes(p, NoJob) /\ session' = session /\ overlapped' = overlapped
  BY <1>k, <1>v DEF ConfigSetWrites, Setting
<1>2. /\ job[p].global \in Layer /\ SetOrDefault(job[p].global)
      /\ <<k, v>> \in Assignments
  BY <1>k, <1>v, <1>1 DEF SettingsInv, SettingsTypeOK, JobType, JobOK
<1>3. intended.file \in Layer /\ intended.row \in Layer
  BY DEF SettingsInv, SettingsTypeOK
<1>4. /\ intended'.file = SetKey(intended.file, k, v)
      /\ intended'.row = intended.row
      /\ intended' \in [file : Layer, row : Layer]
  <2>1. SetKey(intended.file, k, v) \in Layer
    BY <1>2, <1>3, SetKeyType
  <2>2. intended' = [file |-> SetKey(intended.file, k, v), row |-> intended.row]
    BY <1>1 DEF SettingsInv, SettingsTypeOK, SetKey
  <2> QED
    BY <1>3, <2>1, <2>2
<1>5. config' \in Layer /\ SetOrDefault(config)'
  <2>1. config' \in Layer /\ SetOrDefault(SetKey(job[p].global, k, v))
    BY <1>1, <1>2, SetKeyType
  <2> QED
    BY <1>1, <2>1 DEF SetOrDefault
<1>6. job'[p] = NoJob /\ \A q \in Procs \ {p} : job'[q] = job[q]
  BY <1>1 DEF SettingsInv, SettingsTypeOK, Becomes
<1>7. FileExact'
  <2> SUFFICES ASSUME "file" \notin overlapped'
               PROVE  /\ \A q \in Procs : job'[q].kind # "config set"
                      /\ config' = intended'.file
    BY DEF FileExact, Setting
  <2>1. /\ \A q \in Procs : job[q].kind = "config set" => q = p
        /\ job[p].global = intended.file
    BY <1>1 DEF SettingsInv, FileExact, Setting
  <2> QED
    BY <1>1, <1>4, <1>6, <2>1, NoJobOK
<1>8. RowExact'
  <2>1. \A q \in Procs : job'[q].kind = "settings set" => job'[q] = job[q]
    BY <1>6, NoJobOK
  <2> QED
    BY <1>1, <1>4, <2>1 DEF SettingsInv, RowExact, Setting
<1>9. /\ session' \in Layer /\ SetOrUnset(session)'
      /\ overlapped' \subseteq {"file", "row"}
  BY <1>1 DEF SettingsInv, SettingsTypeOK, LayersOK
<1> QED
  BY <1>1, <1>4, <1>5, <1>7, <1>8, <1>9, NoJobOK, JobStep DEF LayersOK

\* save_settings writes the row.
LEMMA SettingsSetSavesStep ==
    ASSUME SettingsInv, NEW p \in Procs, SettingsSetSaves(p)
    PROVE  SettingsInv'
<1>k. PICK k : k = job[p].key
  OBVIOUS
<1>v. PICK v : v = job[p].value
  OBVIOUS
<1>1. /\ job[p].kind = "settings set"
      /\ session' = SetKey(job[p].own, k, v)
      /\ intended' = [intended EXCEPT !.row[k] = v]
      /\ Becomes(p, NoJob) /\ config' = config /\ overlapped' = overlapped
  BY <1>k, <1>v DEF SettingsSetSaves, Setting
<1>2. /\ job[p].own \in Layer /\ SetOrUnset(job[p].own)
      /\ <<k, v>> \in Assignments /\ job[p].step # "saving"
  BY <1>k, <1>v, <1>1 DEF SettingsInv, SettingsTypeOK, JobType, JobOK
<1>3. intended.file \in Layer /\ intended.row \in Layer
  BY DEF SettingsInv, SettingsTypeOK
<1>4. /\ intended'.row = SetKey(intended.row, k, v)
      /\ intended'.file = intended.file
      /\ intended' \in [file : Layer, row : Layer]
  <2>1. SetKey(intended.row, k, v) \in Layer
    BY <1>2, <1>3, SetKeyType
  <2>2. intended' = [file |-> intended.file, row |-> SetKey(intended.row, k, v)]
    BY <1>1 DEF SettingsInv, SettingsTypeOK, SetKey
  <2> QED
    BY <1>3, <2>1, <2>2
<1>5. session' \in Layer /\ SetOrUnset(session)'
  <2>1. session' \in Layer /\ SetOrUnset(SetKey(job[p].own, k, v))
    BY <1>1, <1>2, SetKeyType
  <2> QED
    BY <1>1, <2>1 DEF SetOrUnset
<1>6. job'[p] = NoJob /\ \A q \in Procs \ {p} : job'[q] = job[q]
  BY <1>1 DEF SettingsInv, SettingsTypeOK, Becomes
<1>7. RowExact'
  <2> SUFFICES ASSUME "row" \notin overlapped'
               PROVE  /\ \A q \in Procs : job'[q].kind # "settings set"
                      /\ session' = intended'.row
    BY DEF RowExact, Setting
  <2>1. /\ \A q \in Procs : job[q].kind = "settings set" => q = p
        /\ job[p].own = intended.row
    BY <1>1 DEF SettingsInv, RowExact, Setting
  <2> QED
    BY <1>1, <1>4, <1>6, <2>1, NoJobOK
<1>8. FileExact'
  <2>1. \A q \in Procs : job'[q].kind = "config set" => job'[q] = job[q]
    BY <1>6, NoJobOK
  <2>2. \A q \in Procs : job'[q].step # "saving" => job[q].step # "saving"
    BY <1>2, <1>6
  <2> QED
    BY <1>1, <1>4, <2>1, <2>2 DEF SettingsInv, FileExact, Setting
<1>9. /\ config' \in Layer /\ SetOrDefault(config)'
      /\ overlapped' \subseteq {"file", "row"}
  BY <1>1 DEF SettingsInv, SettingsTypeOK, LayersOK
<1> QED
  BY <1>1, <1>4, <1>5, <1>7, <1>8, <1>9, NoJobOK, JobStep DEF LayersOK

\* `attach` and `note` read their first layer, and end.
LEMMA ReadsStep ==
    ASSUME SettingsInv, NEW p \in Procs, AttachLoads(p) \/ NoteReads(p) \/ Ends(p)
    PROVE  SettingsInv'
<1>1. /\ UNCHANGED <<config, session, intended>> /\ overlapped' = overlapped
      /\ overlapped \subseteq {"file", "row"}
  BY DEF AttachLoads, NoteReads, Ends, SettingsInv, SettingsTypeOK
<1>2. /\ config \in Layer /\ session \in Layer /\ SetOrDefault(config)
  BY DEF SettingsInv, SettingsTypeOK, LayersOK
<1>3. job[p].step # "saving"
  BY NoJobOK DEF AttachLoads, NoteReads, Ends, MayRead, Free
<1>4. CASE AttachLoads(p)
  <2>j. PICK j : j = [NoJob EXCEPT !.kind = "attach", !.step = "loaded", !.global = config]
    OBVIOUS
  <2>1. Becomes(p, j)
    BY <1>4, <2>j DEF AttachLoads
  <2>2. /\ j \in JobType /\ j.kind = "attach" /\ j.step = "loaded"
        /\ j.global = config /\ j.cli = Nothing /\ j.result = Nothing
    BY <2>j, <1>2, NoJobOK DEF NoJob, JobType
  <2>3. JobOK(j)
    BY <1>2, <2>2 DEF JobOK, Resolved
  <2> QED
    BY <1>1, <1>3, <2>1, <2>2, <2>3, ReaderStep
<1>5. CASE NoteReads(p)
  <2>j. PICK j : j = [NoJob EXCEPT !.kind = "note", !.step = "loaded", !.own = session]
    OBVIOUS
  <2>1. Becomes(p, j)
    BY <1>5, <2>j DEF NoteReads
  <2>2. /\ j \in JobType /\ j.kind = "note" /\ j.step = "loaded"
        /\ j.own = session /\ j.cli = Nothing /\ j.result = Nothing
    BY <2>j, <1>2, NoJobOK DEF NoJob, JobType
  <2>3. JobOK(j)
    BY <1>2, <2>2 DEF JobOK, Resolved
  <2> QED
    BY <1>1, <1>3, <2>1, <2>2, <2>3, ReaderStep
<1>6. CASE Ends(p)
  <2>1. Becomes(p, NoJob)
    BY <1>6 DEF Ends
  <2> QED
    BY <1>1, <1>3, <2>1, NoJobOK, ReaderStep
<1> QED
  BY <1>4, <1>5, <1>6

\* `attach` reads the row and resolves the logging settings.
LEMMA AttachResolvesStep ==
    ASSUME SettingsInv, NEW p \in Procs, NEW cli \in Overrides, AttachResolves(p, cli)
    PROVE  SettingsInv'
<1>r. PICK r : r = ResolveLogging(job[p].global, session, cli)
  OBVIOUS
<1>j. PICK j : j = [job[p] EXCEPT !.step = "resolved", !.own = session,
                        !.cli = cli, !.result = r]
  OBVIOUS
<1>1. /\ Becomes(p, j) /\ job[p].kind = "attach" /\ job[p].step = "loaded"
      /\ UNCHANGED <<config, session, intended>> /\ overlapped' = overlapped
  BY <1>r, <1>j DEF AttachResolves, Setting
<1>2. /\ session \in Layer /\ SetOrUnset(session)
      /\ job[p] \in JobType /\ SetOrDefault(job[p].global)
      /\ overlapped \subseteq {"file", "row"}
  BY <1>1 DEF SettingsInv, SettingsTypeOK, LayersOK, JobOK
<1>3. job[p].global \in Layer
  BY <1>2 DEF JobType
<1>4. /\ r \in [LoggingKeys -> LoggingValues]
      /\ \A k \in LoggingKeys :
            r[k] = IF cli[k] # Unset THEN cli[k]
                   ELSE IF session[k] # Unset THEN session[k] ELSE job[p].global[k]
  BY <1>r, <1>2, <1>3, ResolveLoggingIs
<1>5. /\ j \in JobType /\ j.kind = "attach" /\ j.step = "resolved"
      /\ j.own = session /\ j.cli = cli /\ j.result = r /\ j.global = job[p].global
  BY <1>j, <1>1, <1>2, <1>4 DEF JobType
<1>6. LoggingResolved(j)
  <2> SUFFICES ASSUME NEW k \in LoggingKeys
               PROVE  /\ r[k] \in {cli[k], session[k], job[p].global[k]} \ {Unset}
                      /\ cli[k] # Unset => r[k] = cli[k]
                      /\ cli[k] = Unset /\ session[k] # Unset => r[k] = session[k]
    BY <1>5 DEF LoggingResolved
  <2>1. job[p].global[k] # Unset
    BY <1>2, <1>3, FileIsComplete
  <2> QED
    BY <1>4, <2>1
<1>7. JobOK(j)
  BY <1>2, <1>5, <1>6 DEF JobOK, Resolved
<1> QED
  BY <1>1, <1>2, <1>5, <1>7, ReaderStep

\* `note` reads the file and resolves the editor.
LEMMA NoteResolvesStep ==
    ASSUME SettingsInv, NEW p \in Procs, NEW cli \in EditorChoices,
           NEW visual \in EditorChoices, NEW editor \in EditorChoices,
           NoteResolves(p, cli, visual, editor)
    PROVE  SettingsInv'
<1>o. PICK own : own = job[p].own[EditorKey]
  OBVIOUS
<1>g. PICK global : global = config[EditorKey]
  OBVIOUS
<1>e. PICK e : e = ResolveEditor(cli, own, global, visual, editor)
  OBVIOUS
<1>j. PICK j : j = [job[p] EXCEPT !.step = "resolved", !.global = config,
                        !.cli[EditorKey] = cli, !.visual = visual, !.editor = editor,
                        !.result[EditorKey] = e]
  OBVIOUS
<1>1. /\ Becomes(p, j) /\ job[p].kind = "note" /\ job[p].step = "loaded"
      /\ UNCHANGED <<config, session, intended>> /\ overlapped' = overlapped
  BY <1>o, <1>g, <1>e, <1>j DEF NoteResolves, Setting
<1>2. /\ config \in Layer /\ job[p] \in JobType
      /\ job[p].cli = Nothing /\ job[p].result = Nothing
      /\ overlapped \subseteq {"file", "row"}
  BY <1>1 DEF SettingsInv, SettingsTypeOK, JobOK
<1>3. /\ EditorKey \in Keys /\ job[p].own \in Layer
  BY <1>2 DEF JobType, Keys
<1>4. own \in Choices /\ global \in Choices
  BY <1>o, <1>g, <1>2, <1>3 DEF Layer, Choices
<1>5. e \in Values /\ IsEditorOf(e, cli, own, global, visual, editor)
  BY <1>e, <1>4, ResolveEditorIs
<1>6. /\ [Nothing EXCEPT ![EditorKey] = cli] \in Layer
      /\ [Nothing EXCEPT ![EditorKey] = cli][EditorKey] = cli
      /\ [Nothing EXCEPT ![EditorKey] = e] \in Layer
      /\ [Nothing EXCEPT ![EditorKey] = e][EditorKey] = e
  BY <1>3, <1>5, LayerTypes DEF Layer, Values, EditorChoices
<1>7. /\ j \in JobType /\ j.kind = "note" /\ j.step = "resolved"
      /\ j.own = job[p].own /\ j.global = config
      /\ j.visual = visual /\ j.editor = editor
      /\ j.cli = [Nothing EXCEPT ![EditorKey] = cli]
      /\ j.result = [Nothing EXCEPT ![EditorKey] = e]
  BY <1>j, <1>1, <1>2, <1>6 DEF JobType
<1>8. EditorResolved(j)
  BY <1>o, <1>g, <1>5, <1>6, <1>7 DEF EditorResolved
<1>9. JobOK(j)
  BY <1>7, <1>8 DEF JobOK, Resolved
<1> QED
  BY <1>1, <1>2, <1>7, <1>9, ReaderStep

\* A command is killed: what it holds is lost, and the file is as it left it.
LEMMA DiesStep ==
    ASSUME SettingsInv, NEW p \in Procs, Dies(p)
    PROVE  SettingsInv'
<1>1. /\ UNCHANGED <<config, session, intended>> /\ Becomes(p, NoJob)
      /\ overlapped' = IF job[p].step = "saving" THEN overlapped \cup {"file"}
                       ELSE overlapped
  BY DEF Dies
<1>2. /\ overlapped \subseteq overlapped' /\ overlapped' \subseteq {"file", "row"}
      /\ "file" \in overlapped' \/ job[p].step # "saving"
  BY <1>1 DEF SettingsInv, SettingsTypeOK
<1> QED
  BY <1>1, <1>2, NoJobOK, ReaderStep

----------------------------------------------------------------------------
(* The inductive invariant *)

LEMMA InitIInv == Init => IInv
  BY InitOpenInv, InitSettings DEF Init, IInv

\* IInv is inductive: opening and the commands do not meet, but for the faults
\* that they count together.
LEMMA NextIInv == IInv /\ [Next]_vars => IInv'
<1> SUFFICES ASSUME IInv, [Next]_vars PROVE IInv'
  OBVIOUS
<1>1. ASSUME UNCHANGED settingsVars PROVE SettingsInv'
  <2>1. UNCHANGED <<config, session, job, intended, overlapped>>
    BY <1>1 DEF settingsVars
  <2> QED
    BY <2>1 DEF IInv, SettingsInv, SettingsTypeOK, LayersOK, FileExact, RowExact,
       Setting, JobOK, Resolved, LoggingResolved, EditorResolved, SetOrDefault, SetOrUnset
<1>2. ASSUME UNCHANGED openVars PROVE OpenInv'
  BY <1>2, NextOpenInv DEF IInv
<1>3. CASE UNCHANGED vars
  BY <1>1, <1>2, <1>3 DEF vars, IInv
<1>4. CASE OpenNext /\ UNCHANGED settingsVars
  BY <1>1, <1>4, NextOpenInv DEF IInv
<1>5. ASSUME NEW p \in Procs, Runs(p), UNCHANGED openVars PROVE IInv'
  <2>1. SettingsInv'
    <3>1. \A c \in NoteCalls : c[1] \in EditorChoices /\ c[2] \in EditorChoices
                               /\ c[3] \in EditorChoices
      BY NoteCallsAssumption
    <3>2. ASSUME NEW c \in NoteCalls, NoteResolves(p, c[1], c[2], c[3]) PROVE SettingsInv'
      BY <3>1, <3>2, NoteResolvesStep DEF IInv
    <3> QED
      BY <1>5, <3>2, ConfigSetLoadsStep, SettingsSetReadsStep, ConfigSetTruncatesStep,
         ConfigSetWritesStep, SettingsSetSavesStep, ReadsStep, AttachResolvesStep
         DEF Runs, IInv
  <2> QED
    BY <1>2, <1>5, <2>1 DEF IInv
<1>6. ASSUME NEW p \in Procs, Dies(p) PROVE IInv'
  <2>1. SettingsInv'
    BY <1>6, DiesStep DEF IInv
  <2>a. UNCHANGED <<catalog, schema, recorded, opener>> /\ faults < MaxFaults
        /\ faults' = faults + 1
    BY <1>6 DEF Dies
  <2>b. faults \in 0 .. MaxFaults
    BY DEF IInv, OpenInv, OpenTypeOK
  <2>2. faults' \in 0 .. MaxFaults
    BY <2>a, <2>b, FaultsAssumption
  <2>3. OpenInv'
    BY <2>a, <2>2 DEF IInv, OpenInv, OpenTypeOK, RecordedIsApplied, StatementsOf, Knows
  <2> QED
    BY <2>1, <2>3 DEF IInv
<1> QED
  BY <1>3, <1>4, <1>5, <1>6 DEF Next

\* IInv holds in every state.
LEMMA Invariant == Spec => []IInv
  BY InitIInv, NextIInv, PTL DEF Spec

----------------------------------------------------------------------------
(* Theorems *)

\* Every variable keeps its type; the open of every process does, too.
THEOREM TypeCorrect == Spec => []TypeOK
<1>1. IInv => TypeOK
  BY DEF IInv, OpenInv, SettingsInv, SettingsTypeOK, TypeOK
<1> QED
  BY <1>1, Invariant, PTL

\* Sets that do not overlap lose nothing (cmd_config, cmd_settings).
THEOREM SerialSetsHold == Spec => []SerialSetsAreExact
<1>1. IInv => SerialSetsAreExact
  BY DEF IInv, SettingsInv, FileExact, RowExact, SerialSetsAreExact
<1> QED
  BY <1>1, Invariant, PTL

\* Sets that do overlap bring back old values, but make up none.
THEOREM NothingIsMadeUp == Spec => []OnlySetValuesAppear
<1>1. IInv => OnlySetValuesAppear
  BY DEF IInv, SettingsInv, LayersOK, SetOrDefault, SetOrUnset, OnlySetValuesAppear
<1> QED
  BY <1>1, Invariant, PTL

\* Whatever is set meanwhile, commands work with the layers they read, the most
\* specific first (resolve_logging, resolve_editor).
THEOREM MostSpecificWins == Spec => []MostSpecificLayerWins
<1>1. IInv => MostSpecificLayerWins
  BY DEF IInv, SettingsInv, JobOK, Resolved, LoggingResolved, EditorResolved,
     MostSpecificLayerWins
<1> QED
  BY <1>1, Invariant, PTL

\* Every command has the schema it relies on, and the database records only
\* migrations that ran, also while commands run and fail.
THEOREM CommandsFindSchema == Spec => []OpenFindsSchema /\ []RecordedIsApplied
<1>1. IInv => OpenFindsSchema /\ RecordedIsApplied
  BY SchemaIsComplete DEF IInv, OpenInv
<1> QED
  BY <1>1, Invariant, PTL
=============================================================================
