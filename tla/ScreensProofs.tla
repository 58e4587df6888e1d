--------------------------- MODULE ScreensProofs ----------------------------
(***************************************************************************)
(* Proofs about the screens, for any number of sessions, any timelines and *)
(* any terminals beside them.  ManagerInv says what the list shows and     *)
(* where error messages come from; TableInv, which needs it, what the      *)
(* table is and what the screen knows of it at each of its awaits (the     *)
(* line it toggles, the row it asks about); ReadInv, which needs TableInv, *)
(* what the timeline browser shows.  Together they give the types and      *)
(* every safety property of the screens; ExportProofs has those of the     *)
(* exports.                                                                *)
(***************************************************************************)
EXTENDS Screens, SequenceLemmas, FiniteSetTheorems, TLAPS

\* The session that the screen asks about exists, or somebody changed the table.
AsksAboutSomething ==
    mode = "confirm" /\ "preview" \notin stale => Has(target.name)

\* Between the two statements of a toggle the copy is as current as it was.
TogglingUnchanged == mode = "toggling" /\ "cache" \notin stale => cache = rows

ManagerInv ==
    /\ CacheIsCurrent /\ MissingMeansInterference
    /\ AsksAboutSomething /\ TogglingUnchanged

----------------------------------------------------------------------------
\* The screen does not run.
LEMMA ClosedIsFine == mode = "closed" => ManagerInv
  BY DEF ManagerInv, CacheIsCurrent, MissingMeansInterference, AsksAboutSomething,
     TogglingUnchanged, Messages

\* The same, after a step.
LEMMA ClosesIsFine == mode' = "closed" => ManagerInv'
  BY DEF ManagerInv, CacheIsCurrent, MissingMeansInterference, AsksAboutSomething,
     TogglingUnchanged, Messages

\* Nothing happens to the session manager.
LEMMA StutterKeeps == ManagerInv /\ UNCHANGED managerVars => ManagerInv'
  BY DEF managerVars, ManagerInv, CacheIsCurrent, MissingMeansInterference,
         AsksAboutSomething, TogglingUnchanged, Messages, Has

\* While the copy is current, the selected line is a session of the table.
LEMMA SelectedExists ==
    ASSUME ManagerInv, mode = "list", Selected, "cache" \notin stale
    PROVE  Has(cache[index].name)
  BY DEF ManagerInv, CacheIsCurrent, Selected, Has

\* The keys of the user.
LEMMA KeysKeep ==
    ASSUME ManagerInv, ManagerKeys
    PROVE  ManagerInv'
<1> USE DEF ModeBecomes, Rest
<1>1. CASE Moves \/ Prompts \/ \E n \in Names : Submits(n)
  BY <1>1 DEF Moves, Prompts, Submits, ManagerInv, CacheIsCurrent,
     MissingMeansInterference, AsksAboutSomething, TogglingUnchanged, Messages
<1>2. CASE Attaches
  <2>1. mode' = "attach" /\ target' = cache[index] /\ UNCHANGED <<rows, stale>>
    BY <1>2 DEF Attaches
  <2>2. "cache" \notin stale => Has(cache[index].name)
    BY <1>2, SelectedExists DEF Attaches
  <2> QED
    BY <2>1, <2>2 DEF ManagerInv, CacheIsCurrent, MissingMeansInterference,
       AsksAboutSomething, TogglingUnchanged, Messages, Has
<1>3. CASE TogglesReads
  <2>1. CASE Has(cache[index].name)
    <3>1. mode = "list" /\ mode' = "toggling" /\ UNCHANGED <<rows, cache, stale>>
      BY <1>3, <2>1 DEF TogglesReads
    <3> QED
      BY <3>1 DEF ManagerInv, CacheIsCurrent, MissingMeansInterference,
         AsksAboutSomething, TogglingUnchanged, Messages
  <2>2. CASE ~Has(cache[index].name)
    <3>1. mode' = "notFound" /\ UNCHANGED <<rows, cache, stale>> /\ mode = "list"
      BY <1>3, <2>2 DEF TogglesReads
    <3>2. "cache" \in stale
      BY <1>3, <2>2, SelectedExists DEF TogglesReads
    <3> QED
      BY <3>1, <3>2 DEF ManagerInv, CacheIsCurrent, MissingMeansInterference,
         AsksAboutSomething, TogglingUnchanged, Messages
  <2> QED
    BY <2>1, <2>2
<1>4. CASE AsksToDelete
  <2>1. /\ mode = "list" /\ mode' = "confirm" /\ Has(cache[index].name)
        /\ target' = Row(cache[index].name) /\ stale' = stale \ {"preview"}
        /\ UNCHANGED <<rows, cache>>
    BY <1>4 DEF AsksToDelete
  <2>2. Row(cache[index].name).name = cache[index].name
    BY <2>1 DEF Has, Row
  <2>3. Has(target'.name)
    BY <2>1, <2>2
  <2> QED
    BY <2>1, <2>3 DEF ManagerInv, CacheIsCurrent, MissingMeansInterference,
       AsksAboutSomething, TogglingUnchanged, Messages, Has
<1>5. CASE Deletes
  <2>1. CASE Has(target.name)
    <3>1. mode' = "deleted"
      BY <1>5, <2>1 DEF Deletes
    <3> QED
      BY <3>1 DEF ManagerInv, CacheIsCurrent, MissingMeansInterference,
         AsksAboutSomething, TogglingUnchanged, Messages
  <2>2. CASE ~Has(target.name)
    <3>1. /\ mode = "confirm" /\ mode' = "notFound"
          /\ UNCHANGED <<rows, cache, stale>>
      BY <1>5, <2>2 DEF Deletes
    <3>2. "preview" \in stale
      BY <2>2, <3>1 DEF ManagerInv, AsksAboutSomething
    <3> QED
      BY <3>1, <3>2 DEF ManagerInv, CacheIsCurrent, MissingMeansInterference,
         AsksAboutSomething, TogglingUnchanged, Messages
  <2> QED
    BY <2>1, <2>2
<1>6. CASE KeyFails
  BY <1>6 DEF KeyFails, ChangeFails, ManagerInv, CacheIsCurrent, MissingMeansInterference,
     AsksAboutSomething, TogglingUnchanged, Messages
<1> QED
  BY <1>1, <1>2, <1>3, <1>4, <1>5, <1>6 DEF ManagerKeys

\* What the process does without a key: a list makes the copy current.
LEMMA ContinuesKeeps ==
    ASSUME ManagerInv, Continues \/ Starts
    PROVE  ManagerInv'
<1> USE DEF ModeBecomes, Rest
<1>1. CASE RunsAttach \/ RunsNew \/ ListFails
  BY <1>1, ClosesIsFine DEF RunsAttach, RunsNew, ListFails, Closes
<1>2. CASE TogglesWrites
  <2>1. mode' = "listing"
    BY <1>2 DEF TogglesWrites
  <2> QED
    BY <2>1 DEF ManagerInv, CacheIsCurrent, MissingMeansInterference,
       AsksAboutSomething, TogglingUnchanged, Messages
<1>3. CASE ListsAfterToggle \/ ListsAfterDelete \/ Starts
  <2>1. mode' = "list" /\ cache' = rows /\ rows' = rows
    BY <1>3 DEF ListsAfterToggle, ListsAfterDelete, Starts
  <2> QED
    BY <2>1 DEF ManagerInv, CacheIsCurrent, MissingMeansInterference,
       AsksAboutSomething, TogglingUnchanged, Messages
<1>4. CASE WriteFails
  BY <1>4 DEF WriteFails, ChangeFails, ManagerInv, CacheIsCurrent,
     MissingMeansInterference, AsksAboutSomething, TogglingUnchanged, Messages
<1> QED
  BY <1>1, <1>2, <1>3, <1>4 DEF Continues

\* Esc goes back to the list as it is shown, or closes the screen.
LEMMA EscapeKeeps ==
    ASSUME ManagerInv, Escape
    PROVE  ManagerInv'
<1> USE DEF ModeBecomes, Rest
<1>1. CASE mode = "list"
  BY <1>1, ClosesIsFine DEF Escape, Closes
<1>2. CASE mode # "list"
  <2>1. /\ mode \in {"prompt", "confirm"} \cup Messages /\ mode' = "list"
        /\ UNCHANGED <<rows, cache, stale>>
    BY <1>2 DEF Escape
  <2> QED
    BY <2>1 DEF ManagerInv, CacheIsCurrent, MissingMeansInterference,
       AsksAboutSomething, TogglingUnchanged, Messages
<1> QED
  BY <1>1, <1>2

\* A change of another terminal makes every copy of the screen stale.
LEMMA OthersAreNoticed ==
    ASSUME OtherTerminals
    PROVE  \/ rows' = rows /\ stale \ {"asked"} \subseteq stale'
           \/ ScreenCopies \subseteq stale'
<1>1. ASSUME NEW r, OtherChanges(r) PROVE ScreenCopies \subseteq stale'
  BY <1>1 DEF OtherChanges
<1>2. CASE \E n \in Names : OtherAsks(n)
  BY <1>2 DEF OtherAsks
<1>3. CASE OtherDeclines
  BY <1>3 DEF OtherDeclines
<1>4. CASE OtherDeletes
  BY <1>4 DEF OtherDeletes, ScreenCopies
<1>5. CASE OtherUpdates \/ \E n \in Names : OtherCreates(n) \/ OtherRenames(n)
  BY <1>1, <1>5 DEF OtherUpdates, OtherCreates, OtherRenames
<1> QED
  BY <1>2, <1>3, <1>4, <1>5 DEF OtherTerminals

\* So the copies that are not stale are still what the table has.
LEMMA OthersKeep ==
    ASSUME ManagerInv, OtherTerminals
    PROVE  ManagerInv'
<1>1. UNCHANGED screenVars
  BY DEF OtherTerminals, OtherCreates, OtherRenames, OtherUpdates, OtherAsks,
     OtherDeletes, OtherDeclines, OtherChanges
<1>2. CASE rows' = rows /\ stale \ {"asked"} \subseteq stale'
  BY <1>1, <1>2 DEF screenVars, ManagerInv, CacheIsCurrent, MissingMeansInterference,
     AsksAboutSomething, TogglingUnchanged, Messages, Has
<1>3. CASE ScreenCopies \subseteq stale'
  BY <1>1, <1>3 DEF screenVars, ScreenCopies, ManagerInv, CacheIsCurrent,
     MissingMeansInterference, AsksAboutSomething, TogglingUnchanged, Messages
<1> QED
  BY <1>2, <1>3, OthersAreNoticed

\* ManagerInv is inductive.
LEMMA NextManagerInv == ManagerInv /\ [Next]_vars => ManagerInv'
<1> SUFFICES ASSUME ManagerInv, [Next]_vars PROVE ManagerInv'
  OBVIOUS
<1>1. CASE Manages
  BY <1>1, KeysKeep, ContinuesKeeps DEF Manages
<1>2. CASE Escape \/ OthersAct
  BY <1>2, EscapeKeeps, OthersKeep DEF OthersAct
<1>3. CASE UNCHANGED managerVars
  BY <1>3, StutterKeeps
<1>4. CASE Commands
  <2>1. UNCHANGED managerVars
    BY <1>4 DEF Commands, Requires, ReadsForScreen, ReadsForExport, Ends
  <2> QED
    BY <2>1, <1>3
<1>5. CASE UNCHANGED vars
  BY <1>3, <1>5 DEF vars
<1> QED
  BY <1>1, <1>2, <1>3, <1>4, <1>5 DEF Next

\* ManagerInv holds in every state.
LEMMA Invariant == Spec => []ManagerInv
<1>1. Init => ManagerInv
  BY ClosedIsFine DEF Init, ManagerInit
<1> QED
  BY <1>1, NextManagerInv, PTL DEF Spec

----------------------------------------------------------------------------
(* The table of the sessions *)

\* The table has keys: a session is known by its id and by its name.
Distinct(s) ==
    \A i, j \in DOMAIN s : s[i].id = s[j].id \/ s[i].name = s[j].name => i = j

\* A table after n sessions were created.
IsTable(s, n) ==
    /\ s \in Seq(Rows) /\ Distinct(s)
    /\ Len(s) <= n /\ \A i \in DOMAIN s : s[i].id <= n

\* Rows of a table are a table.
LEMMA SelectIsTable ==
    ASSUME NEW s, NEW n \in Nat, IsTable(s, n), NEW T
    PROVE  IsTable(Select(s, T), n)
<1> DEFINE r == Select(s, T)
<1>1. s \in Seq(Rows) /\ Distinct(s) /\ Len(s) <= n /\ \A i \in 1 .. Len(s) : s[i].id <= n
  BY DEF IsTable
<1>2. r \in Seq(Rows) /\ Len(r) <= Len(s)
  BY <1>1, SelectType, SelectLength
<1>3. /\ \A k \in 1 .. Len(r) : \E i \in 1 .. Len(s) : r[k] = s[i]
      /\ \A k, l \in 1 .. Len(r) : k < l =>
            \E i, j \in 1 .. Len(s) : i < j /\ r[k] = s[i] /\ r[l] = s[j]
  <2>1. HoldsSelection(s, T, r)
    BY <1>1, SelectElements
  <2> HIDE DEF r
  <2> QED
    BY <2>1 DEF HoldsSelection
<1> HIDE DEF r
<1>4. \A k \in DOMAIN r : r[k].id <= n
  <2>1. DOMAIN r = 1 .. Len(r)
    BY <1>2
  <2>2. \A k \in 1 .. Len(r) : r[k].id <= n
    BY <1>1, <1>3, Zenon
  <2> QED
    BY <2>1, <2>2
<1>5. Distinct(r)
  <2>1. ASSUME NEW k \in 1 .. Len(r), NEW l \in 1 .. Len(r), k < l
        PROVE  r[k].id # r[l].id /\ r[k].name # r[l].name
    <3>1. PICK i, j \in 1 .. Len(s) : i < j /\ r[k] = s[i] /\ r[l] = s[j]
      BY <1>3, <2>1
    <3>2. i # j /\ i \in DOMAIN s /\ j \in DOMAIN s
      BY <1>1, <3>1
    <3> QED
      BY <1>1, <3>1, <3>2 DEF Distinct
  <2>2. \A k, l \in DOMAIN r : k \in 1 .. Len(r) /\ l \in 1 .. Len(r) /\ (k < l \/ l < k \/ k = l)
    BY <1>2
  <2> QED
    BY <2>1, <2>2 DEF Distinct
<1>6. Len(r) <= n
  BY <1>1, <1>2
<1> QED
  BY <1>2, <1>4, <1>5, <1>6 DEF IsTable, r

\* A row with an id and a name of its own may come first.
LEMMA FirstIsTable ==
    ASSUME NEW s, NEW n \in Nat, IsTable(s, n), Len(s) < n,
           NEW r \in Rows, r.id <= n,
           \A i \in DOMAIN s : s[i].id # r.id /\ s[i].name # r.name
    PROVE  /\ IsTable(<<r>> \o s, n)
           /\ DOMAIN (<<r>> \o s) = 1 .. Len(s) + 1
           /\ (<<r>> \o s)[1] = r
           /\ \A i \in DOMAIN s : (<<r>> \o s)[i + 1] = s[i]
<1> DEFINE u == <<r>> \o s
<1>1. s \in Seq(Rows) /\ Distinct(s) /\ \A i \in 1 .. Len(s) : s[i].id <= n
  BY DEF IsTable
<1>2. /\ u \in Seq(Rows) /\ Len(u) = Len(s) + 1 /\ u[1] = r
      /\ \A k \in 2 .. Len(s) + 1 : u[k] = s[k - 1]
  BY <1>1
<1> HIDE DEF u
<1>3. \A k \in DOMAIN u : k = 1 \/ (k \in 2 .. Len(s) + 1 /\ k - 1 \in DOMAIN s)
  BY <1>1, <1>2
<1>4. Len(u) <= n
  BY <1>1, <1>2
<1>5. \A k \in DOMAIN u : u[k].id <= n
  BY <1>1, <1>2, <1>3
<1>6. Distinct(u)
  <2>1. SUFFICES ASSUME NEW k \in DOMAIN u, NEW l \in DOMAIN u,
                        u[k].id = u[l].id \/ u[k].name = u[l].name
                 PROVE  k = l
    BY DEF Distinct
  <2>2. CASE k = 1 \/ l = 1
    BY <2>1, <2>2, <1>2, <1>3
  <2>3. CASE k # 1 /\ l # 1
    <3>1. k - 1 = l - 1
      BY <2>1, <2>3, <1>1, <1>2, <1>3 DEF Distinct
    <3> QED
      BY <3>1, <2>3, <1>3
  <2> QED
    BY <2>2, <2>3
<1>7. DOMAIN u = 1 .. Len(s) + 1 /\ \A i \in DOMAIN s : u[i + 1] = s[i]
  BY <1>1, <1>2
<1> QED
  BY <1>2, <1>4, <1>5, <1>6, <1>7 DEF IsTable, u

\* An UPDATE of a row, by its id, puts it first and leaves the others.
LEMMA UpdatedIsTable ==
    ASSUME NEW n \in Nat, IsTable(rows, n), NEW r \in Rows,
           NEW i \in DOMAIN rows, rows[i].id = r.id,
           \A j \in DOMAIN rows : j # i => rows[j].name # r.name
    PROVE  /\ IsTable(Updated(r), n)
           /\ \A k \in DOMAIN Updated(r) :
                 \/ Updated(r)[k] = r
                 \/ \E j \in DOMAIN rows : j # i /\ Updated(r)[k] = rows[j]
           /\ \A j \in DOMAIN rows : \E k \in DOMAIN Updated(r) :
                 Updated(r)[k] = IF j = i THEN r ELSE rows[j]
<1> DEFINE T == {q \in Rows : q.id # r.id}
           others == Select(rows, T)
           u == <<r>> \o others
<1>1. /\ rows \in Seq(Rows) /\ Distinct(rows) /\ Len(rows) <= n
      /\ \A j \in DOMAIN rows : rows[j].id <= n /\ rows[j] \in Rows
  BY DEF IsTable
<1>2. Updated(r) = u
  BY DEF Updated, Ids
<1>3. IsTable(others, n)
  BY SelectIsTable
<1>4. others \in Seq(Rows) /\ DOMAIN rows = 1 .. Len(rows) /\ DOMAIN others = 1 .. Len(others)
  BY <1>1, <1>3 DEF IsTable
<1>5. Len(others) < n
  <2>1. rows[i] \notin T
    OBVIOUS
  <2>2. Len(others) < Len(rows)
    BY <2>1, <1>1, <1>4, SelectLength
  <2>3. Len(others) \in Nat /\ Len(rows) \in Nat
    BY <1>1, <1>4
  <2> HIDE DEF others
  <2> QED
    BY <1>1, <2>2, <2>3
<1>7. HoldsSelection(rows, T, others)
  <2> HIDE DEF T
  <2> QED
    BY <1>1, SelectElements
<1>6. /\ \A k \in DOMAIN others : \E j \in DOMAIN rows : others[k] = rows[j] /\ rows[j] \in T
      /\ \A j \in DOMAIN rows : rows[j] \in T => \E k \in DOMAIN others : others[k] = rows[j]
  <2> HIDE DEF T, others
  <2> QED
    BY <1>4, <1>7 DEF HoldsSelection
<1>8. \A j \in DOMAIN rows : rows[j] \in T <=> j # i
  BY <1>1 DEF Distinct
<1>9. \A k \in DOMAIN others : others[k].id # r.id /\ others[k].name # r.name
  <2> HIDE DEF others
  <2>1. \A k \in DOMAIN others : \E j \in DOMAIN rows : j # i /\ others[k] = rows[j] /\ rows[j] \in T
    BY <1>6, <1>8
  <2> QED
    BY <2>1
<1>10. r.id <= n
  BY <1>1
<1> HIDE DEF others, T
<1>11. /\ IsTable(u, n)
       /\ DOMAIN u = 1 .. Len(others) + 1
       /\ u[1] = r
       /\ \A k \in DOMAIN others : u[k + 1] = others[k]
  BY <1>3, <1>5, <1>9, <1>10, FirstIsTable
<1> HIDE DEF u
<1>12. ASSUME NEW k \in DOMAIN u
       PROVE  u[k] = r \/ \E j \in DOMAIN rows : j # i /\ u[k] = rows[j]
  <2>1. k = 1 \/ (k - 1 \in DOMAIN others /\ k - 1 + 1 = k)
    BY <1>4, <1>11
  <2> QED
    BY <2>1, <1>6, <1>8, <1>11
<1>13. ASSUME NEW j \in DOMAIN rows
       PROVE  \E k \in DOMAIN u : u[k] = IF j = i THEN r ELSE rows[j]
  <2>1. CASE j = i
    <3>1. 1 \in DOMAIN u
      BY <1>4, <1>11
    <3> QED
      BY <3>1, <2>1, <1>11
  <2>2. CASE j # i
    <3>1. PICK k \in DOMAIN others : others[k] = rows[j]
      BY <2>2, <1>6, <1>8
    <3>2. k + 1 \in DOMAIN u /\ u[k + 1] = rows[j]
      BY <3>1, <1>4, <1>11
    <3> QED
      BY <3>2, <2>2
  <2> QED
    BY <2>1, <2>2
<1> QED
  BY <1>2, <1>11, <1>12, <1>13

\* A DELETE by name leaves the rows of the other names.
LEMMA WithoutIsTable ==
    ASSUME NEW n \in Nat, IsTable(rows, n), NEW m
    PROVE  /\ IsTable(Without(m), n)
           /\ \A k \in DOMAIN Without(m) :
                 \E j \in DOMAIN rows : Without(m)[k] = rows[j] /\ rows[j].name # m
           /\ \A j \in DOMAIN rows :
                 rows[j].name # m => \E k \in DOMAIN Without(m) : Without(m)[k] = rows[j]
<1> DEFINE T == {q \in Rows : q.name # m}
           others == Select(rows, T)
<1>1. /\ rows \in Seq(Rows) /\ DOMAIN rows = 1 .. Len(rows)
      /\ \A j \in DOMAIN rows : rows[j] \in Rows
  BY DEF IsTable
<1>2. \A j \in DOMAIN rows : rows[j] \in T <=> rows[j].name # m
  BY <1>1
<1>3. Without(m) = others
  BY DEF Without
<1> HIDE DEF T
<1>4. IsTable(others, n) /\ HoldsSelection(rows, T, others)
  BY <1>1, SelectIsTable, SelectElements
<1> HIDE DEF others
<1>5. DOMAIN others = 1 .. Len(others)
  BY <1>4 DEF IsTable
<1>6. /\ \A k \in DOMAIN others : \E j \in DOMAIN rows : others[k] = rows[j] /\ rows[j] \in T
      /\ \A j \in DOMAIN rows : rows[j] \in T => \E k \in DOMAIN others : others[k] = rows[j]
  BY <1>1, <1>4, <1>5 DEF HoldsSelection
<1>7. \A k \in DOMAIN others : \E j \in DOMAIN rows : others[k] = rows[j] /\ rows[j].name # m
  BY <1>2, <1>6
<1> QED
  BY <1>2, <1>3, <1>4, <1>6, <1>7

\* An INSERT puts a row with a new id and a new name first.
LEMMA InsertedIsTable ==
    ASSUME created \in Nat, IsTable(rows, created), created < MaxSessions,
           NEW m \in Names, ~Has(m)
    PROVE  /\ IsTable(Inserted(m), created + 1)
           /\ \A j \in DOMAIN rows : \E k \in DOMAIN Inserted(m) : Inserted(m)[k] = rows[j]
<1> DEFINE r == [id |-> created + 1, name |-> m, archived |-> FALSE]
           n == created + 1
           u == <<r>> \o rows
<1>1. r \in Rows /\ r.id = n /\ r.name = m /\ n \in Nat
  BY MaxSessionsAssumption DEF Rows
<1>2. rows \in Seq(Rows) /\ Len(rows) <= created /\ \A i \in DOMAIN rows : rows[i].id <= created
      /\ Distinct(rows) /\ \A k \in DOMAIN rows : rows[k] \in Rows
  BY DEF IsTable
<1>3. \A i \in DOMAIN rows : rows[i].id \in Nat
  BY <1>2, MaxSessionsAssumption DEF Rows
<1>4. IsTable(rows, n) /\ Len(rows) < n /\ \A i \in DOMAIN rows : rows[i].id # n
  BY <1>2, <1>3 DEF IsTable
<1>5. \A i \in DOMAIN rows : rows[i].name # m
  BY DEF Has
<1>6. Inserted(m) = u
  BY DEF Inserted
<1>9. Len(rows) \in Nat /\ DOMAIN rows = 1 .. Len(rows)
  BY <1>2
<1> HIDE DEF r, n
<1>7. /\ IsTable(u, n) /\ DOMAIN u = 1 .. Len(rows) + 1
      /\ \A i \in DOMAIN rows : u[i + 1] = rows[i]
  <2>1. r.id <= n
    BY <1>1
  <2> QED
    BY <1>1, <1>4, <1>5, <2>1, FirstIsTable
<1> HIDE DEF u
<1>8. ASSUME NEW j \in DOMAIN rows PROVE \E k \in DOMAIN u : u[k] = rows[j]
  <2>1. j + 1 \in DOMAIN u /\ u[j + 1] = rows[j]
    BY <1>7, <1>9
  <2> QED
    BY <2>1
<1> QED
  BY <1>6, <1>7, <1>8 DEF n

\* What find_by_name returns is a row of the table.
LEMMA RowIsThere ==
    ASSUME NEW n, Has(n), rows \in Seq(Rows)
    PROVE  \E i \in DOMAIN rows : Row(n) = rows[i] /\ Row(n).name = n /\ Row(n) \in Rows
<1> DEFINE c == CHOOSE j \in DOMAIN rows : rows[j].name = n
<1>1. c \in DOMAIN rows /\ rows[c].name = n
  BY DEF Has
<1>2. Row(n) = rows[c]
  BY DEF Row
<1> HIDE DEF c
<1>3. rows[c] \in Rows
  BY <1>1
<1> QED
  BY <1>1, <1>2, <1>3

\* The row of an update by id: it keeps its id, and a name nobody else has.
LEMMA UpdateKeeps ==
    ASSUME created \in Nat, IsTable(rows, created), NEW i \in DOMAIN rows,
           NEW r \in Rows, r.id = rows[i].id,
           \A j \in DOMAIN rows : j # i => rows[j].name # r.name
    PROVE  /\ IsTable(Updated(r), created)
           /\ \A j \in DOMAIN rows : \E k \in DOMAIN Updated(r) : Updated(r)[k].id = rows[j].id
           /\ r.name = rows[i].name =>
                 \A j \in DOMAIN rows : \E k \in DOMAIN Updated(r) :
                    Updated(r)[k].id = rows[j].id /\ Updated(r)[k].name = rows[j].name
<1>1. IsTable(Updated(r), created)
  BY UpdatedIsTable
<1>2. \A j \in DOMAIN rows : \E k \in DOMAIN Updated(r) :
         Updated(r)[k] = IF j = i THEN r ELSE rows[j]
  BY UpdatedIsTable
<1> HIDE DEF Updated
<1> QED
  BY <1>1, <1>2

\* The table u has the sessions that are in the table now, under any name.
KeepsIds(u) == \A j \in DOMAIN rows : \E k \in DOMAIN u : u[k].id = rows[j].id

\* It has them under the names that they have now.
KeepsRows(u) ==
    \A j \in DOMAIN rows : \E k \in DOMAIN u :
        u[k].id = rows[j].id /\ u[k].name = rows[j].name

\* What keeps the rows keeps the ids.
LEMMA KeepsLess == ASSUME NEW u, KeepsRows(u) PROVE KeepsIds(u)
  BY DEF KeepsRows, KeepsIds

\* An UPDATE of a status keeps every session and its name.
LEMMA UpdateStatus ==
    ASSUME created \in Nat, IsTable(rows, created), NEW i \in DOMAIN rows,
           NEW a \in BOOLEAN
    PROVE  LET u == Updated([rows[i] EXCEPT !.archived = a])
           IN IsTable(u, created) /\ KeepsRows(u)
<1> DEFINE r == [rows[i] EXCEPT !.archived = a]
<1>1. rows[i] \in Rows /\ Distinct(rows)
  BY DEF IsTable
<1>2. r \in Rows /\ r.id = rows[i].id /\ r.name = rows[i].name
  BY <1>1 DEF Rows
<1>3. \A j \in DOMAIN rows : j # i => rows[j].name # r.name
  BY <1>1, <1>2 DEF Distinct
<1> HIDE DEF r
<1>4. IsTable(Updated(r), created) /\ KeepsRows(Updated(r))
  BY <1>2, <1>3, UpdateKeeps DEF KeepsRows
<1> QED
  BY <1>4 DEF r

\* So does one that writes a row as it is (attach stores the time alone).
LEMMA UpdateSame ==
    ASSUME created \in Nat, IsTable(rows, created), NEW i \in DOMAIN rows
    PROVE  IsTable(Updated(rows[i]), created) /\ KeepsRows(Updated(rows[i]))
<1> DEFINE r == rows[i]
<1>1. r \in Rows /\ Distinct(rows) /\ r.id = rows[i].id /\ r.name = rows[i].name
  BY DEF IsTable
<1>3. \A j \in DOMAIN rows : j # i => rows[j].name # r.name
  BY <1>1 DEF Distinct
<1> HIDE DEF r
<1>4. IsTable(Updated(r), created) /\ KeepsRows(Updated(r))
  BY <1>1, <1>3, UpdateKeeps DEF KeepsRows
<1> QED
  BY <1>4 DEF r

\* A rename keeps every session.
LEMMA UpdateName ==
    ASSUME created \in Nat, IsTable(rows, created), NEW i \in DOMAIN rows,
           NEW n \in Names, ~Has(n)
    PROVE  LET u == Updated([rows[i] EXCEPT !.name = n])
           IN IsTable(u, created) /\ KeepsIds(u)
<1> DEFINE r == [rows[i] EXCEPT !.name = n]
<1>1. rows[i] \in Rows
  BY DEF IsTable
<1>2. r \in Rows /\ r.id = rows[i].id /\ r.name = n
  BY <1>1 DEF Rows
<1>3. \A j \in DOMAIN rows : j # i => rows[j].name # r.name
  BY <1>2 DEF Has
<1> HIDE DEF r
<1>4. IsTable(Updated(r), created) /\ KeepsIds(Updated(r))
  BY <1>2, <1>3, UpdateKeeps DEF KeepsIds
<1> QED
  BY <1>4 DEF r

----------------------------------------------------------------------------
(* The invariant of the session manager *)

\* A session of the table, by its id and name.
IsRow(r) == \E i \in DOMAIN rows : rows[i].id = r.id /\ rows[i].name = r.name

\* What the screen has in hand is a row that it read or a name that was typed.
TargetKnown ==
    /\ mode \in {"attach", "toggling", "confirm"} => target \in Rows
    /\ mode = "new" => target \in [id : {0}, name : Names, archived : {FALSE}]

\* Between the SELECT and the UPDATE of `r`: unless the list is stale, it is the
\* table, and the row in hand is the selected line with its status flipped.
TogglingKnows ==
    mode = "toggling" /\ "cache" \notin stale =>
        /\ cache = rows /\ index \in DOMAIN cache
        /\ target = [cache[index] EXCEPT !.archived = ~cache[index].archived]

\* Between the UPDATE and the list_all behind it: unless the list is stale, the
\* table differs from it in the status of the selected session, and in no other.
ToggledOne ==
    mode = "listing" /\ "cache" \notin stale =>
        \A i \in DOMAIN cache, j \in DOMAIN rows :
            cache[i].id = rows[j].id =>
                (cache[i].archived # rows[j].archived <=> i = index)

\* The row of a confirmation is in the table, or the preview is stale.
PreviewKnows == mode = "confirm" /\ "preview" \notin stale => IsRow(target)

\* So is that of `termnote delete` in another terminal.
AskedKnows == asked # NoRow /\ "asked" \notin stale => IsRow(asked)

\* The table after n sessions were created.
TableOK(s, n) == n \in 0 .. MaxSessions /\ IsTable(s, n)

\* The types of the screen's variables, the copies it holds included.
ScreenOK ==
    /\ cache \in Seq(Rows) /\ Len(cache) <= MaxSessions
    /\ mode \in Modes
    /\ index \in 0 .. MaxSessions
    /\ target \in Rows \cup {NoRow} \cup [id : {0}, name : Names, archived : {FALSE}]
    /\ asked \in Rows \cup {NoRow}
    /\ stale \subseteq {"cache", "preview", "asked"}
    /\ TargetKnown

\* The inductive invariant of the session manager: what the table and the screen
\* know of each other at every await between the screen's steps.
TableInv ==
    /\ TableOK(rows, created) /\ ScreenOK
    /\ TogglingKnows /\ ToggledOne /\ PreviewKnows /\ AskedKnows

\* What a step of the process does to the table: it loses a session only by
\* the deletion that was confirmed.
LEMMA ProcessRows ==
    ASSUME TableOK(rows, created), TargetKnown,
           Starts \/ ManagerKeys \/ Continues \/ Escape
    PROVE  /\ TableOK(rows', created')
           /\ ~Deletes => KeepsRows(rows')
<1> USE DEF Rest, ModeBecomes
<1>1. created \in Nat /\ rows \in Seq(Rows) /\ IsTable(rows, created)
      /\ created \in 0 .. MaxSessions
  BY MaxSessionsAssumption DEF TableOK, IsTable
<1>2. KeepsRows(rows)
  BY DEF KeepsRows
<1>3. CASE rows' = rows /\ created' = created
  BY <1>1, <1>2, <1>3 DEF TableOK, KeepsRows
<1>4. CASE RunsAttach
  <2>1. CASE rows' # rows
    <3>1. Has(target.name) /\ rows' = Updated(Row(target.name)) /\ created' = created
      BY <1>4, <2>1 DEF RunsAttach
    <3>2. PICK i \in DOMAIN rows : Row(target.name) = rows[i]
      BY <1>1, <3>1, RowIsThere
    <3>3. IsTable(rows', created) /\ KeepsRows(rows')
      BY <1>1, <3>1, <3>2, UpdateSame
    <3> QED
      BY <1>1, <3>1, <3>3 DEF TableOK
  <2>2. created' = created
    BY <1>4 DEF RunsAttach
  <2> QED
    BY <2>1, <2>2, <1>3
<1>5. CASE RunsNew
  <2>1. CASE ~UNCHANGED <<rows, created>>
    <3>1. /\ rows' = Inserted(target.name) /\ created' = created + 1
          /\ ~Has(target.name) /\ created < MaxSessions /\ mode = "new"
      BY <1>5, <2>1 DEF RunsNew
    <3>2. target.name \in Names
      BY <3>1 DEF TargetKnown
    <3>3. IsTable(rows', created + 1)
          /\ \A j \in DOMAIN rows : \E k \in DOMAIN rows' : rows'[k] = rows[j]
      BY <1>1, <3>1, <3>2, InsertedIsTable
    <3>4. KeepsRows(rows')
      BY <3>3 DEF KeepsRows
    <3>5. created' \in 0 .. MaxSessions
      BY <1>1, <3>1, MaxSessionsAssumption
    <3> QED
      BY <3>1, <3>3, <3>4, <3>5 DEF TableOK
  <2>2. CASE UNCHANGED <<rows, created>>
    BY <1>3, <2>2
  <2> QED
    BY <2>1, <2>2
<1>6. CASE TogglesWrites
  <2>1. created' = created
    BY <1>6 DEF TogglesWrites
  <2>2. CASE target.id \in Ids(rows)
    <3> DEFINE i == CHOOSE i \in DOMAIN rows : rows[i].id = target.id
    <3>1. i \in DOMAIN rows
      BY <2>2 DEF Ids
    <3>2. rows' = Updated([rows[i] EXCEPT !.archived = target.archived])
      BY <1>6, <2>2 DEF TogglesWrites
    <3> HIDE DEF i
    <3>3. target.archived \in BOOLEAN
      BY <1>6 DEF TogglesWrites, TargetKnown, Rows
    <3>4. IsTable(rows', created) /\ KeepsRows(rows')
      BY <1>1, <3>1, <3>2, <3>3, UpdateStatus
    <3> QED
      BY <1>1, <2>1, <3>4 DEF TableOK
  <2>3. CASE target.id \notin Ids(rows)
    BY <1>3, <1>6, <2>1, <2>3 DEF TogglesWrites
  <2> QED
    BY <2>2, <2>3
<1>7. CASE Deletes
  <2>1. created' = created
    BY <1>7 DEF Deletes
  <2>2. CASE Has(target.name)
    <3>1. rows' = Without(target.name)
      BY <1>7, <2>2 DEF Deletes
    <3>2. IsTable(rows', created)
      BY <1>1, <3>1, WithoutIsTable
    <3> QED
      BY <1>1, <1>7, <2>1, <3>2 DEF TableOK
  <2>3. CASE ~Has(target.name)
    BY <1>3, <1>7, <2>1, <2>3 DEF Deletes
  <2> QED
    BY <2>2, <2>3
<1>8. CASE Starts \/ Moves \/ Attaches \/ Prompts \/ TogglesReads \/ AsksToDelete
           \/ ListsAfterToggle \/ ListsAfterDelete \/ Escape \/ ListFails
           \/ KeyFails \/ WriteFails \/ \E n \in Names : Submits(n)
  <2>1. rows' = rows /\ created' = created
    BY <1>8 DEF Starts, Moves, Attaches, Prompts, TogglesReads, AsksToDelete,
       ListsAfterToggle, ListsAfterDelete, Escape, ListFails, Submits, KeyFails,
       WriteFails, ChangeFails
  <2> QED
    BY <2>1, <1>3
<1> QED
  BY <1>4, <1>5, <1>6, <1>7, <1>8 DEF ManagerKeys, Continues

\* What another terminal does to it: it loses a session only by `termnote delete`.
LEMMA OtherRowsKeep ==
    ASSUME TableOK(rows, created), OtherTerminals
    PROVE  /\ TableOK(rows', created')
           /\ ~OtherDeletes => KeepsIds(rows')
<1>1. created \in Nat /\ rows \in Seq(Rows) /\ IsTable(rows, created)
      /\ created \in 0 .. MaxSessions
  BY MaxSessionsAssumption DEF TableOK, IsTable
<1>2. CASE OtherDeclines \/ \E n \in Names : OtherAsks(n)
  <2>1. rows' = rows /\ created' = created
    BY <1>2 DEF OtherDeclines, OtherAsks
  <2> QED
    BY <2>1, <1>1 DEF TableOK, KeepsIds
<1>3. CASE OtherDeletes
  <2>1. rows' = Without(asked.name) /\ created' = created
    BY <1>3 DEF OtherDeletes
  <2>2. IsTable(rows', created)
    BY <1>1, <2>1, WithoutIsTable
  <2> QED
    BY <1>1, <1>3, <2>1, <2>2 DEF TableOK
<1>4. CASE OtherUpdates
  <2>1. PICK i \in DOMAIN rows, a \in BOOLEAN :
           rows' = Updated([rows[i] EXCEPT !.archived = a]) /\ created' = created
    BY <1>4 DEF OtherUpdates, OtherChanges
  <2>2. IsTable(rows', created) /\ KeepsRows(rows')
    BY <1>1, <2>1, UpdateStatus
  <2> QED
    BY <1>1, <2>1, <2>2, KeepsLess DEF TableOK
<1>5. ASSUME NEW n \in Names, OtherCreates(n)
      PROVE  TableOK(rows', created') /\ KeepsIds(rows')
  <2>1. rows' = Inserted(n) /\ created' = created + 1 /\ ~Has(n) /\ created < MaxSessions
    BY <1>5 DEF OtherCreates, OtherChanges
  <2>2. IsTable(rows', created + 1)
        /\ \A j \in DOMAIN rows : \E k \in DOMAIN rows' : rows'[k] = rows[j]
    BY <1>1, <2>1, InsertedIsTable
  <2>3. created' \in 0 .. MaxSessions
    BY <1>1, <2>1, MaxSessionsAssumption
  <2> QED
    BY <2>1, <2>2, <2>3 DEF TableOK, KeepsIds
<1>6. ASSUME NEW n \in Names, OtherRenames(n)
      PROVE  TableOK(rows', created') /\ KeepsIds(rows')
  <2>1. PICK i \in DOMAIN rows :
           rows' = Updated([rows[i] EXCEPT !.name = n]) /\ created' = created /\ ~Has(n)
    BY <1>6 DEF OtherRenames, OtherChanges
  <2>2. IsTable(rows', created) /\ KeepsIds(rows')
    BY <1>1, <2>1, UpdateName
  <2> QED
    BY <1>1, <2>1, <2>2 DEF TableOK
<1> QED
  BY <1>2, <1>3, <1>4, <1>5, <1>6 DEF OtherTerminals

\* The invariant has the type invariant in it.
LEMMA TableInvTypes == TableInv => ManagerTypeOK
  BY DEF TableInv, TableOK, IsTable, ScreenOK, ManagerTypeOK

\* The selection wraps around: it is on a line after Up or Down.
LEMMA MoveSelectionInRange ==
    ASSUME NEW len \in Nat, len > 0, index \in Nat, NEW delta \in {-1, 1}
    PROVE  MoveSelection(len, delta) \in 1 .. len
<1> DEFINE current == IF index = 0 THEN 0 ELSE index - 1
<1>1. current + delta \in Int
  OBVIOUS
<1>2. (current + delta) % len \in 0 .. len - 1
  <2> HIDE DEF current
  <2> QED
    BY <1>1
<1> QED
  BY <1>2 DEF MoveSelection

\* The types of the screen after a key, when it starts and when it ends.
LEMMA KeysKeepScreen ==
    ASSUME TableOK(rows, created), ScreenOK,
           ManagerKeys \/ Starts \/ Escape
    PROVE  ScreenOK'
<1> USE MaxSessionsAssumption DEF Rest, ModeBecomes, Modes, Messages
<1>1. rows \in Seq(Rows) /\ Len(rows) <= MaxSessions /\ Len(rows) \in Nat
  BY DEF TableOK, IsTable
<1>2. CASE Starts
  <2>1. cache' \in Seq(Rows) /\ Len(cache') <= MaxSessions /\ index' = 1 /\ mode' = "list"
        /\ UNCHANGED <<target, asked, stale>>
    BY <1>1, <1>2 DEF Starts
  <2>2. 1 \in 0 .. MaxSessions
    OBVIOUS
  <2> QED
    BY <2>1, <2>2 DEF ScreenOK, TargetKnown
<1>3. CASE Moves
  <2>1. PICK delta \in {-1, 1} : index' = MoveSelection(Len(cache), delta)
    BY <1>3 DEF Moves
  <2>2. Len(cache) \in Nat /\ Len(cache) > 0 /\ index \in Nat
    BY <1>3 DEF Moves, ScreenOK
  <2>3. index' \in 1 .. Len(cache)
    BY <2>1, <2>2, MoveSelectionInRange
  <2>4. index' \in 0 .. MaxSessions
    BY <2>2, <2>3 DEF ScreenOK
  <2> QED
    BY <1>3, <2>4 DEF Moves, ScreenOK, TargetKnown
<1>4. CASE Attaches
  <2>1. target' \in Rows
    BY <1>4 DEF Attaches, Selected, ScreenOK
  <2> QED
    BY <1>4, <2>1 DEF Attaches, ScreenOK, TargetKnown
<1>5. CASE Prompts
  BY <1>5 DEF Prompts, ScreenOK, TargetKnown
<1>6. ASSUME NEW n \in Names, Submits(n) PROVE ScreenOK'
  <2>1. target' \in [id : {0}, name : Names, archived : {FALSE}] /\ mode' = "new"
    BY <1>6 DEF Submits
  <2> QED
    BY <1>6, <2>1 DEF Submits, ScreenOK, TargetKnown
<1>7. CASE TogglesReads
  <2>1. CASE Has(cache[index].name)
    <3>1. Row(cache[index].name) \in Rows
      BY <1>1, <2>1, RowIsThere
    <3>2. cache[index] \in Rows
      BY <1>7 DEF TogglesReads, Selected, ScreenOK
    <3>3. target' \in Rows /\ mode' = "toggling"
      BY <1>7, <2>1, <3>1, <3>2 DEF TogglesReads, Rows
    <3> QED
      BY <1>7, <3>3 DEF TogglesReads, ScreenOK, TargetKnown
  <2>2. CASE ~Has(cache[index].name)
    BY <1>7, <2>2 DEF TogglesReads, ScreenOK, TargetKnown
  <2> QED
    BY <2>1, <2>2
<1>8. CASE AsksToDelete
  <2>1. target' \in Rows
    BY <1>1, <1>8, RowIsThere DEF AsksToDelete
  <2> QED
    BY <1>8, <2>1 DEF AsksToDelete, ScreenOK, TargetKnown
<1>9. CASE Deletes
  <2>1. mode' \in {"deleted", "notFound"} /\ stale' \subseteq {"cache", "preview", "asked"}
    BY <1>9 DEF Deletes, ScreenOK, OtherCopy
  <2> QED
    BY <1>9, <2>1 DEF Deletes, ScreenOK, TargetKnown
<1>10. CASE Escape
  <2>1. \/ UNCHANGED <<cache, index>>
        \/ cache' = <<>> /\ index' = 0
    BY <1>10 DEF Escape, Closes
  <2>2. cache' \in Seq(Rows) /\ Len(cache') <= MaxSessions /\ index' \in 0 .. MaxSessions
    <3>1. CASE cache' = <<>> /\ index' = 0
      <4>1. 0 \in 0 .. MaxSessions
        OBVIOUS
      <4>2. Len(cache') = 0 /\ cache' \in Seq(Rows)
        BY <3>1
      <4> QED
        BY <3>1, <4>1, <4>2
    <3>2. CASE UNCHANGED <<cache, index>>
      BY <3>2 DEF ScreenOK
    <3> QED
      BY <2>1, <3>1, <3>2
  <2>3. /\ mode' \in {"closed", "list"} /\ target' = NoRow /\ asked' = asked
        /\ stale' \in {stale, stale \cap {"asked"}}
    BY <1>10 DEF Escape, Closes
  <2> QED
    BY <2>2, <2>3 DEF ScreenOK, TargetKnown
<1>11. CASE KeyFails
  BY <1>11 DEF KeyFails, ChangeFails, Messages, ScreenOK, TargetKnown
<1> QED
  BY <1>2, <1>3, <1>4, <1>5, <1>6, <1>7, <1>8, <1>9, <1>10, <1>11
     DEF ManagerKeys

\* The types of the screen after what the process does on its own, and after a
\* step of another terminal.
LEMMA OthersKeepScreen ==
    ASSUME TableOK(rows, created), ScreenOK,
           Continues \/ OtherTerminals \/ UNCHANGED managerVars
    PROVE  ScreenOK'
<1> USE MaxSessionsAssumption DEF Rest, ModeBecomes, Modes, Messages
<1>1. rows \in Seq(Rows) /\ Len(rows) <= MaxSessions /\ Len(rows) \in Nat
  BY DEF TableOK, IsTable
<1>2. CASE RunsAttach \/ RunsNew \/ ListFails
  <2>1. /\ mode' = "closed" /\ cache' = <<>> /\ index' = 0 /\ target' = NoRow
        /\ stale' = stale \cap {"asked"} /\ asked' = asked
    BY <1>2 DEF RunsAttach, RunsNew, ListFails, Closes
  <2>2. cache' \in Seq(Rows) /\ Len(cache') <= MaxSessions
    BY <2>1
  <2> QED
    BY <2>1, <2>2 DEF ScreenOK, TargetKnown
<1>3. CASE TogglesWrites
  BY <1>3 DEF TogglesWrites, OtherCopy, ScreenOK, TargetKnown
<1>4. CASE ListsAfterToggle \/ ListsAfterDelete
  <2>1. /\ mode' = "list" /\ cache' = rows /\ target' = NoRow /\ stale' = stale \ {"cache"}
        /\ asked' = asked /\ index' \in {index, 0, 1}
    BY <1>4 DEF ListsAfterToggle, ListsAfterDelete
  <2>2. cache' \in Seq(Rows) /\ Len(cache') <= MaxSessions
    BY <1>1, <2>1
  <2>3. index' \in 0 .. MaxSessions
    BY <2>1 DEF ScreenOK
  <2> QED
    BY <2>1, <2>2, <2>3 DEF ScreenOK, TargetKnown
<1>5. CASE OtherTerminals
  <2>1. ASSUME NEW n \in Names, OtherAsks(n) PROVE ScreenOK'
    <3>1. Row(n) \in Rows
      BY <1>1, <2>1, RowIsThere DEF OtherAsks
    <3> QED
      BY <2>1, <3>1 DEF OtherAsks, screenVars, ScreenOK, TargetKnown
  <2>2. ASSUME NEW u, OtherChanges(u), asked' = asked PROVE ScreenOK'
    BY <2>2 DEF OtherChanges, ScreenCopies, OtherCopy, screenVars, ScreenOK, TargetKnown
  <2>3. CASE OtherUpdates \/ \E n \in Names : OtherCreates(n) \/ OtherRenames(n)
    <3>1. \E u : OtherChanges(u) /\ asked' = asked
      BY <2>3 DEF OtherUpdates, OtherCreates, OtherRenames
    <3> QED
      BY <2>2, <3>1
  <2>4. CASE OtherDeletes \/ OtherDeclines
    BY <2>4 DEF OtherDeletes, OtherDeclines, ScreenCopies, screenVars, ScreenOK,
       TargetKnown
  <2> QED
    BY <1>5, <2>1, <2>3, <2>4 DEF OtherTerminals
<1>6. CASE UNCHANGED managerVars
  BY <1>6 DEF managerVars, ScreenOK, TargetKnown
<1>7. CASE WriteFails
  BY <1>7 DEF WriteFails, ChangeFails, Messages, ScreenOK, TargetKnown
<1> QED
  BY <1>2, <1>3, <1>4, <1>5, <1>6, <1>7 DEF Continues

\* `r` saw the line it toggles, and the row it toggles is the only one to change.
LEMMA TogglingKeeps ==
    ASSUME TableInv, ManagerInv, ManagerKeys \/ Starts \/ Escape \/ Continues
    PROVE  TogglingKnows' /\ ToggledOne'
<1> USE DEF Rest, ModeBecomes
<1>1. rows \in Seq(Rows) /\ Distinct(rows) /\ IsTable(rows, created) /\ created \in Nat
  BY MaxSessionsAssumption DEF TableInv, TableOK, IsTable
<1>2. CASE mode' \notin {"toggling", "listing"}
  BY <1>2 DEF TogglingKnows, ToggledOne
<1>3. CASE mode' = "toggling"
  <2>1. TogglesReads
    BY <1>3 DEF ManagerKeys, Starts, Escape, Continues, ListFails,
       ChangeFails, KeyFails, WriteFails, Moves, Attaches,
       Prompts, AsksToDelete, Deletes, Submits, RunsAttach, RunsNew, TogglesWrites,
       ListsAfterToggle, ListsAfterDelete, Closes
  <2>2. /\ mode = "list" /\ Selected /\ Has(cache[index].name)
        /\ target' = [Row(cache[index].name) EXCEPT !.archived = ~cache[index].archived]
        /\ UNCHANGED <<rows, cache, index, stale>>
    BY <1>3, <2>1 DEF TogglesReads
  <2>3. ASSUME "cache" \notin stale PROVE Row(cache[index].name) = cache[index]
    <3>1. cache = rows
      BY <2>2, <2>3 DEF ManagerInv, CacheIsCurrent
    <3>2. PICK i \in DOMAIN rows : Row(cache[index].name) = rows[i]
                                   /\ rows[i].name = cache[index].name
      BY <1>1, <2>2, RowIsThere
    <3>3. i = index
      BY <1>1, <2>2, <3>1, <3>2 DEF Distinct, Selected
    <3> QED
      BY <3>1, <3>2, <3>3
  <2> QED
    BY <1>3, <2>2, <2>3 DEF TogglingKnows, ToggledOne, Selected, ManagerInv,
       CacheIsCurrent
<1>4. CASE mode' = "listing"
  <2>1. TogglesWrites
    BY <1>4 DEF ManagerKeys, Starts, Escape, Continues, ListFails,
       ChangeFails, KeyFails, WriteFails, Moves, Attaches,
       Prompts, AsksToDelete, Deletes, Submits, RunsAttach, RunsNew, TogglesReads,
       ListsAfterToggle, ListsAfterDelete, Closes
  <2>2. TogglingKnows'
    BY <1>4 DEF TogglingKnows
  <2>3. SUFFICES ASSUME "cache" \notin stale'
                 PROVE  \A i \in DOMAIN cache', j \in DOMAIN rows' :
                           cache'[i].id = rows'[j].id =>
                              (cache'[i].archived # rows'[j].archived <=> i = index')
    BY <2>2 DEF ToggledOne
  <2>4. /\ mode = "toggling" /\ "cache" \notin stale
        /\ cache' = cache /\ index' = index
    BY <2>1, <2>3 DEF TogglesWrites
  <2>5. /\ cache = rows /\ index \in DOMAIN rows
        /\ target = [rows[index] EXCEPT !.archived = ~rows[index].archived]
    BY <2>4 DEF TableInv, TogglingKnows
  <2>6. rows[index] \in Rows
    BY <1>1, <2>5
  <2> DEFINE r == [rows[index] EXCEPT !.archived = target.archived]
  <2>7. /\ r \in Rows /\ r.id = rows[index].id /\ r.name = rows[index].name
        /\ r.archived # rows[index].archived
    BY <2>5, <2>6 DEF Rows
  <2>8. rows' = Updated(r)
    <3> DEFINE i == CHOOSE i \in DOMAIN rows : rows[i].id = target.id
    <3>1. target.id = rows[index].id
      BY <2>5, <2>6 DEF Rows
    <3>2. i \in DOMAIN rows /\ rows[i].id = rows[index].id
      BY <2>5, <3>1
    <3>3. target.id \in Ids(rows)
      BY <2>5, <3>1 DEF Ids
    <3>4. rows' = Updated([rows[i] EXCEPT !.archived = target.archived])
      BY <2>1, <3>3 DEF TogglesWrites
    <3> HIDE DEF i
    <3>5. i = index
      BY <1>1, <2>5, <3>2 DEF Distinct
    <3> QED
      BY <3>4, <3>5
  <2> HIDE DEF r
  <2>9. \A j \in DOMAIN rows : j # index => rows[j].name # r.name
    BY <1>1, <2>5, <2>7 DEF Distinct
  <2>10. \A k \in DOMAIN rows' :
            \/ rows'[k] = r
            \/ \E j \in DOMAIN rows : j # index /\ rows'[k] = rows[j]
    BY <1>1, <2>5, <2>7, <2>8, <2>9, UpdatedIsTable
  <2>11. ASSUME NEW i \in DOMAIN rows, NEW k \in DOMAIN rows', rows[i].id = rows'[k].id
         PROVE  rows[i].archived # rows'[k].archived <=> i = index
    <3>1. CASE rows'[k] = r
      <4>1. i = index
        BY <1>1, <2>5, <2>7, <2>11, <3>1 DEF Distinct
      <4> QED
        BY <2>7, <3>1, <4>1
    <3>2. ASSUME NEW j \in DOMAIN rows, j # index, rows'[k] = rows[j]
          PROVE  rows[i].archived # rows'[k].archived <=> i = index
      <4>1. i = j
        BY <1>1, <2>11, <3>2 DEF Distinct
      <4> QED
        BY <3>2, <4>1
    <3> QED
      BY <2>10, <3>1, <3>2
  <2> QED
    BY <2>4, <2>5, <2>11
<1> QED
  BY <1>2, <1>3, <1>4

\* So what the screen knows is still true of copies that are not stale.
LEMMA OthersKeepKnowledge ==
    ASSUME TableInv, OtherTerminals
    PROVE  TogglingKnows' /\ ToggledOne' /\ PreviewKnows'
<1>1. UNCHANGED screenVars
  BY DEF OtherTerminals, OtherCreates, OtherRenames, OtherUpdates, OtherAsks,
     OtherDeletes, OtherDeclines, OtherChanges
<1>2. CASE rows' = rows /\ stale \ {"asked"} \subseteq stale'
  BY <1>1, <1>2 DEF screenVars, TableInv, TogglingKnows, ToggledOne, PreviewKnows, IsRow
<1>3. CASE ScreenCopies \subseteq stale'
  BY <1>1, <1>3 DEF screenVars, ScreenCopies, TogglingKnows, ToggledOne, PreviewKnows
<1> QED
  BY <1>2, <1>3, OthersAreNoticed

\* PreviewKnows after a step of the screen itself.
LEMMA PreviewKeeps ==
    ASSUME TableInv, ManagerKeys \/ Starts \/ Escape \/ Continues
    PROVE  PreviewKnows'
<1> USE DEF Rest, ModeBecomes
<1>1. rows \in Seq(Rows)
  BY DEF TableInv, TableOK, IsTable
<1>2. CASE mode' # "confirm"
  BY <1>2 DEF PreviewKnows
<1>3. CASE mode' = "confirm"
  <2>1. AsksToDelete
    BY <1>3 DEF ManagerKeys, Starts, Escape, Continues, ListFails,
       ChangeFails, KeyFails, WriteFails, Moves, Attaches,
       Prompts, TogglesReads, Deletes, Submits, RunsAttach, RunsNew, TogglesWrites,
       ListsAfterToggle, ListsAfterDelete, Closes
  <2>2. Has(cache[index].name) /\ target' = Row(cache[index].name) /\ rows' = rows
    BY <2>1 DEF AsksToDelete
  <2>3. \E i \in DOMAIN rows : target' = rows[i]
    BY <1>1, <2>2, RowIsThere
  <2> QED
    BY <2>2, <2>3 DEF PreviewKnows, IsRow
<1> QED
  BY <1>2, <1>3

\* AskedKnows after any step: what the screen does is a change for the other
\* terminal.
LEMMA AskedKeeps ==
    ASSUME TableInv,
           ManagerKeys \/ Starts \/ Escape \/ Continues \/ OtherTerminals
    PROVE  AskedKnows'
<1> USE DEF Rest, ModeBecomes
<1>1. rows \in Seq(Rows) /\ TableOK(rows, created) /\ TargetKnown
  BY DEF TableInv, TableOK, IsTable, ScreenOK
<1>2. CASE asked' = asked /\ (asked # NoRow => "asked" \in stale')
  BY <1>2 DEF AskedKnows
<1>3. CASE asked' = asked /\ KeepsRows(rows') /\ ("asked" \in stale => "asked" \in stale')
  <2>1. SUFFICES ASSUME asked # NoRow, "asked" \notin stale PROVE IsRow(asked)'
    BY <1>3 DEF AskedKnows
  <2>2. PICK i \in DOMAIN rows : rows[i].id = asked.id /\ rows[i].name = asked.name
    BY <2>1 DEF TableInv, AskedKnows, IsRow
  <2>3. PICK k \in DOMAIN rows' : rows'[k].id = rows[i].id /\ rows'[k].name = rows[i].name
    BY <1>3 DEF KeepsRows
  <2> QED
    BY <1>3, <2>2, <2>3 DEF IsRow
<1>4. CASE Deletes
  <2>1. CASE Has(target.name)
    <3>1. stale' = stale \cup OtherCopy /\ asked' = asked
      BY <1>4, <2>1 DEF Deletes
    <3> QED
      BY <1>2, <3>1 DEF OtherCopy
  <2>2. CASE ~Has(target.name)
    BY <1>4, <2>2 DEF Deletes, TableInv, AskedKnows, IsRow
  <2> QED
    BY <2>1, <2>2
<1>5. CASE ManagerKeys \/ Starts \/ Escape \/ Continues
  <2>1. asked' = asked /\ ("asked" \in stale => "asked" \in stale')
    BY <1>5 DEF ManagerKeys, Starts, Escape, Continues, ListFails,
       ChangeFails, KeyFails, WriteFails, Moves, Attaches,
       Prompts, AsksToDelete, TogglesReads, Deletes, Submits, RunsAttach, RunsNew,
       TogglesWrites, ListsAfterToggle, ListsAfterDelete, Closes
  <2>2. ~Deletes => KeepsRows(rows')
    BY <1>1, <1>5, ProcessRows
  <2> QED
    BY <1>3, <1>4, <2>1, <2>2
<1>6. CASE OtherTerminals
  <2>1. ASSUME NEW n \in Names, OtherAsks(n) PROVE AskedKnows'
    <3>1. asked' = Row(n) /\ rows' = rows /\ Has(n)
      BY <2>1 DEF OtherAsks
    <3>2. \E i \in DOMAIN rows : asked' = rows[i]
      BY <1>1, <3>1, RowIsThere
    <3> QED
      BY <3>1, <3>2 DEF AskedKnows, IsRow
  <2>2. CASE OtherDeletes \/ OtherDeclines
    BY <2>2 DEF OtherDeletes, OtherDeclines, AskedKnows
  <2>3. CASE OtherUpdates \/ \E n \in Names : OtherCreates(n) \/ OtherRenames(n)
    <3>1. asked' = asked /\ stale' = stale \cup ScreenCopies \cup OtherCopy
      BY <2>3 DEF OtherUpdates, OtherCreates, OtherRenames, OtherChanges
    <3> QED
      BY <1>2, <3>1 DEF OtherCopy
  <2> QED
    BY <1>6, <2>1, <2>2, <2>3 DEF OtherTerminals
<1> QED
  BY <1>5, <1>6

\* TableInv is inductive, given ManagerInv.
LEMMA NextTableInv == TableInv /\ ManagerInv /\ [Next]_vars => TableInv'
<1> SUFFICES ASSUME TableInv, ManagerInv, [Next]_vars PROVE TableInv'
  OBVIOUS
<1>1. TableOK(rows, created) /\ ScreenOK /\ TargetKnown
  BY DEF TableInv, ScreenOK
<1>2. CASE Starts \/ ManagerKeys \/ Continues \/ Escape
  <2>1. TableOK(rows', created')
    BY <1>1, <1>2, ProcessRows
  <2>2. ScreenOK'
    BY <1>1, <1>2, KeysKeepScreen, OthersKeepScreen
  <2> QED
    BY <1>2, <2>1, <2>2, TogglingKeeps, PreviewKeeps, AskedKeeps DEF TableInv
<1>3. CASE OtherTerminals
  <2>1. TableOK(rows', created') /\ ScreenOK'
    BY <1>1, <1>3, OtherRowsKeep, OthersKeepScreen
  <2> QED
    BY <1>3, <2>1, OthersKeepKnowledge, AskedKeeps DEF TableInv
<1>4. CASE UNCHANGED managerVars
  BY <1>1, <1>4, OthersKeepScreen DEF managerVars, TableInv, TogglingKnows, ToggledOne,
     PreviewKnows, AskedKnows, IsRow
<1>5. CASE Commands
  <2>1. UNCHANGED managerVars
    BY <1>5 DEF Commands, Requires, ReadsForScreen, ReadsForExport, Ends
  <2> QED
    BY <2>1, <1>4
<1>6. CASE UNCHANGED vars
  BY <1>4, <1>6 DEF vars
<1> QED
  BY <1>2, <1>3, <1>4, <1>5, <1>6 DEF Next, Manages, OthersAct

\* TableInv holds in every state.
LEMMA TableInvariant == Spec => []TableInv
<1>1. Init => TableInv
  BY MaxSessionsAssumption DEF Init, ManagerInit, TableInv, TableOK, IsTable, Distinct,
     ScreenOK, Modes, TargetKnown, TogglingKnows, ToggledOne, PreviewKnows, AskedKnows
<1> QED
  BY <1>1, NextTableInv, Invariant, PTL DEF Spec

----------------------------------------------------------------------------
(* Steps that toggle and delete *)

\* The sessions that a step takes from the table.
Lost == Ids(rows) \ Ids(rows')

\* A deletion by name loses one session, the one that has the name.
LEMMA WithoutLoses ==
    ASSUME TableOK(rows, created), NEW m, rows' = Without(m)
    PROVE  /\ Has(m) => Lost = {Row(m).id}
           /\ ~Has(m) => Lost = {}
<1>1. IsTable(rows, created) /\ created \in Nat /\ rows \in Seq(Rows) /\ Distinct(rows)
  BY MaxSessionsAssumption DEF TableOK, IsTable
<1>2. /\ \A k \in DOMAIN rows' : \E j \in DOMAIN rows : rows'[k] = rows[j] /\ rows[j].name # m
      /\ \A j \in DOMAIN rows : rows[j].name # m => \E k \in DOMAIN rows' : rows'[k] = rows[j]
  BY <1>1, WithoutIsTable
<1>3. Ids(rows) = {rows[j].id : j \in DOMAIN rows}
      /\ Ids(rows') = {rows'[j].id : j \in DOMAIN rows'}
  BY DEF Ids
<1>4. CASE ~Has(m)
  <2>1. \A j \in DOMAIN rows : rows[j].name # m
    BY <1>4 DEF Has
  <2>2. \A j \in DOMAIN rows : rows[j].id \in Ids(rows')
    BY <1>2, <1>3, <2>1
  <2> QED
    BY <1>3, <1>4, <2>2 DEF Lost
<1>5. CASE Has(m)
  <2>1. PICK i \in DOMAIN rows : Row(m) = rows[i] /\ rows[i].name = m
    BY <1>1, <1>5, RowIsThere
  <2>2. \A j \in DOMAIN rows : j # i => rows[j].name # m
    BY <1>1, <2>1 DEF Distinct
  <2>3. \A j \in DOMAIN rows : j # i => rows[j].id \in Ids(rows')
    BY <1>2, <1>3, <2>2
  <2>4. rows[i].id \notin Ids(rows')
    <3>1. \A k \in DOMAIN rows' : rows'[k].id # rows[i].id
      <4>1. SUFFICES ASSUME NEW k \in DOMAIN rows' PROVE rows'[k].id # rows[i].id
        OBVIOUS
      <4>2. PICK j \in DOMAIN rows : rows'[k] = rows[j] /\ rows[j].name # m
        BY <1>2
      <4>3. j # i
        BY <2>1, <4>2
      <4> QED
        BY <1>1, <4>2, <4>3 DEF Distinct
    <3> QED
      BY <1>3, <3>1
  <2>5. Lost = {rows[i].id}
    BY <1>3, <2>3, <2>4 DEF Lost
  <2> QED
    BY <1>5, <2>1, <2>5
<1> QED
  BY <1>4, <1>5

\* What keeps the ids loses nothing.
LEMMA KeepsNothingLost == KeepsIds(rows') => Lost = {}
  BY DEF KeepsIds, Lost, Ids

\* The name that was asked about is that of the row that was shown.
LEMMA SameRow ==
    ASSUME TableOK(rows, created), NEW r, IsRow(r)
    PROVE  Has(r.name) /\ Row(r.name).id = r.id
<1>1. rows \in Seq(Rows) /\ Distinct(rows)
  BY DEF TableOK, IsTable
<1>2. PICK i \in DOMAIN rows : rows[i].id = r.id /\ rows[i].name = r.name
  BY DEF IsRow
<1>3. Has(r.name)
  BY <1>2 DEF Has
<1>4. PICK j \in DOMAIN rows : Row(r.name) = rows[j] /\ rows[j].name = r.name
  BY <1>1, <1>3, RowIsThere
<1>5. i = j
  BY <1>1, <1>2, <1>4 DEF Distinct
<1> QED
  BY <1>2, <1>3, <1>4, <1>5

\* The formula of DeletesWhatWasPreviewed.
DeletesPreviewed ==
    LET deleted == Ids(rows) \ Ids(rows') IN
       /\ mode = "confirm" /\ mode' = "deleted" =>
             deleted = {target.id} \/ ("preview" \in stale /\ Cardinality(deleted) = 1)
       /\ asked # NoRow /\ asked' = NoRow =>
             deleted \in {{asked.id}, {}} \/ ("asked" \in stale /\ Cardinality(deleted) = 1)
       /\ mode # "confirm" /\ asked = NoRow => deleted = {}

\* Every step satisfies it.
LEMMA StepDeletesPreviewed == TableInv /\ [Next]_vars => DeletesPreviewed
<1> SUFFICES ASSUME TableInv, [Next]_vars PROVE DeletesPreviewed
  OBVIOUS
<1> USE DEF Rest, ModeBecomes
<1>1. TableOK(rows, created) /\ TargetKnown
  BY DEF TableInv, ScreenOK
<1>2. DeletesPreviewed <=>
         /\ mode = "confirm" /\ mode' = "deleted" =>
               Lost = {target.id} \/ ("preview" \in stale /\ Cardinality(Lost) = 1)
         /\ asked # NoRow /\ asked' = NoRow =>
               Lost \in {{asked.id}, {}} \/ ("asked" \in stale /\ Cardinality(Lost) = 1)
         /\ mode # "confirm" /\ asked = NoRow => Lost = {}
  BY DEF DeletesPreviewed, Lost
<1>3. CASE Starts \/ ManagerKeys \/ Continues \/ Escape
  <2>1. asked' = asked
    BY <1>3 DEF ManagerKeys, Starts, Escape, Continues, ListFails,
       ChangeFails, KeyFails, WriteFails, Moves, Attaches,
       Prompts, AsksToDelete, TogglesReads, Deletes, Submits, RunsAttach, RunsNew,
       TogglesWrites, ListsAfterToggle, ListsAfterDelete, Closes
  <2>2. CASE Deletes
    <3>1. mode = "confirm" /\ (mode' = "deleted" => Has(target.name)
                                                    /\ rows' = Without(target.name))
      BY <2>2 DEF Deletes
    <3>2. SUFFICES ASSUME mode' = "deleted"
                   PROVE  Lost = {target.id} \/ ("preview" \in stale /\ Cardinality(Lost) = 1)
      BY <1>2, <2>1, <3>1
    <3>3. Lost = {Row(target.name).id}
      BY <1>1, <3>1, <3>2, WithoutLoses
    <3>4. Cardinality(Lost) = 1
      BY <3>3, FS_Singleton
    <3>5. "preview" \notin stale => Row(target.name).id = target.id
      BY <1>1, <3>1, SameRow DEF TableInv, PreviewKnows
    <3> QED
      BY <3>3, <3>4, <3>5
  <2>3. CASE ~Deletes
    <3>1. KeepsRows(rows')
      BY <1>1, <1>3, <2>3, ProcessRows
    <3>2. Lost = {}
      BY <3>1, KeepsLess, KeepsNothingLost
    <3>3. ~(mode = "confirm" /\ mode' = "deleted")
      BY <1>3, <2>3 DEF ManagerKeys, Starts, Escape, Continues, ListFails,
       ChangeFails, KeyFails, WriteFails, Moves,
         Attaches,
         Prompts, AsksToDelete, TogglesReads, Submits, RunsAttach, RunsNew,
         TogglesWrites, ListsAfterToggle, ListsAfterDelete, Closes
    <3> QED
      BY <1>2, <2>1, <3>2, <3>3
  <2> QED
    BY <2>2, <2>3
<1>4. CASE OtherTerminals
  <2>1. mode' = mode
    BY <1>4 DEF OtherTerminals, OtherCreates, OtherRenames, OtherUpdates, OtherAsks,
       OtherDeletes, OtherDeclines, OtherChanges, screenVars
  <2>2. CASE OtherDeletes
    <3>1. asked # NoRow /\ rows' = Without(asked.name)
      BY <2>2 DEF OtherDeletes
    <3>2. /\ Has(asked.name) => Lost = {Row(asked.name).id}
          /\ ~Has(asked.name) => Lost = {}
      BY <1>1, <3>1, WithoutLoses
    <3>3. "asked" \notin stale => Has(asked.name) /\ Row(asked.name).id = asked.id
      BY <1>1, <3>1, SameRow DEF TableInv, AskedKnows
    <3>4. Has(asked.name) => Cardinality(Lost) = 1
      BY <3>2, FS_Singleton
    <3> QED
      BY <1>2, <2>1, <3>1, <3>2, <3>3, <3>4
  <2>3. CASE ~OtherDeletes
    <3>1. KeepsIds(rows')
      BY <1>1, <1>4, <2>3, OtherRowsKeep
    <3>2. Lost = {}
      BY <3>1, KeepsNothingLost
    <3> QED
      BY <1>2, <2>1, <3>2
  <2> QED
    BY <2>2, <2>3
<1>5. CASE UNCHANGED managerVars \/ Commands
  <2>1. UNCHANGED managerVars
    BY <1>5 DEF Commands, Requires, ReadsForScreen, ReadsForExport, Ends
  <2>2. Lost = {} /\ asked' = asked /\ mode' = mode
    BY <2>1 DEF managerVars, Lost
  <2> QED
    BY <1>2, <2>2
<1> QED
  BY <1>3, <1>4, <1>5 DEF Next, Manages, OthersAct, vars

\* The formula of TogglesSelectedOnly.
TogglesOne ==
    mode = "listing" /\ mode' = "list" /\ "cache" \notin stale =>
          \A i \in DOMAIN cache, j \in DOMAIN cache' :
             cache[i].id = cache'[j].id =>
                (cache[i].archived # cache'[j].archived <=> i = index)

\* Every step satisfies it.
LEMMA StepTogglesOne == TableInv /\ [Next]_vars => TogglesOne
<1> SUFFICES ASSUME TableInv, [Next]_vars, mode = "listing", mode' = "list",
                    "cache" \notin stale
             PROVE  TogglesOne
  BY DEF TogglesOne
<1> USE DEF Rest, ModeBecomes
<1>1. CASE Starts \/ ManagerKeys \/ Continues \/ Escape
  <2>1. ListsAfterToggle
    <3>1. ~Starts /\ ~ManagerKeys /\ ~Escape
      BY DEF Starts, ManagerKeys, Escape, ChangeFails, KeyFails, Moves, Attaches, Prompts,
         AsksToDelete, TogglesReads, Deletes, Submits, Messages
    <3> QED
      BY <1>1, <3>1 DEF Continues, ListFails, ChangeFails, WriteFails, RunsAttach, RunsNew,
         TogglesWrites, ListsAfterDelete, Closes
  <2>2. cache' = rows
    BY <2>1 DEF ListsAfterToggle
  <2> QED
    BY <2>2 DEF TableInv, ToggledOne, TogglesOne
<1>2. CASE OtherTerminals \/ Commands \/ UNCHANGED managerVars
  <2>1. mode' = mode
    BY <1>2 DEF OtherTerminals, OtherCreates, OtherRenames, OtherUpdates, OtherAsks,
       OtherDeletes, OtherDeclines, OtherChanges, screenVars, managerVars,
       Commands, Requires, ReadsForScreen, ReadsForExport, Ends
  <2> QED
    BY <2>1
<1> QED
  BY <1>1, <1>2 DEF Next, Manages, OthersAct, vars

----------------------------------------------------------------------------
(* The timeline browser and the commands *)

\* The places of the lines ls, all of them,
AllOf(ls) == [i \in DOMAIN ls |-> i]

\* and those of the lines that match q.
FilterOf(ls, q) == Select(AllOf(ls), {i \in DOMAIN ls : Matches(ls[i], q)})

\* These are the filters of TimelineScreen, and of the state after a step.
LEMMA FilterIsFilterOf ==
    /\ AllLines = AllOf(lines) /\ Filter(query) = FilterOf(lines, query)
    /\ (AllLines = AllOf(lines) /\ Filter(query) = FilterOf(lines, query))'
    /\ \A q : Filter(q) = FilterOf(lines, q)
  BY DEF AllLines, AllOf, Filter, FilterOf

\* A filter has places of lines, not more than there are lines.
LEMMA FilterType ==
    ASSUME NEW S, NEW ls \in Seq(S), NEW q
    PROVE  /\ AllOf(ls) \in Seq(DOMAIN ls) /\ Len(AllOf(ls)) = Len(ls)
           /\ FilterOf(ls, q) \in Seq(DOMAIN ls) /\ Len(FilterOf(ls, q)) <= Len(ls)
<1> DEFINE D == DOMAIN ls
           T == {i \in D : Matches(ls[i], q)}
           all == AllOf(ls)
<1>1. all \in Seq(D) /\ Len(all) = Len(ls)
  BY DEF AllOf
<1>2. FilterOf(ls, q) = Select(all, T)
  BY DEF FilterOf
<1> HIDE DEF D, T, all
<1>3. Select(all, T) \in Seq(D) /\ Len(Select(all, T)) <= Len(all)
  BY <1>1, SelectType, SelectLength
<1> QED
  BY <1>1, <1>2, <1>3 DEF all, D

\* The empty query finds every line.
LEMMA NoQueryFindsAll ==
    ASSUME NEW S, NEW ls \in Seq(S)
    PROVE  FilterOf(ls, NoQuery) = AllOf(ls)
<1> DEFINE D == DOMAIN ls
           T == {i \in D : Matches(ls[i], NoQuery)}
           all == AllOf(ls)
<1>1. all \in Seq(D)
  BY DEF AllOf
<1>2. D \subseteq T
  BY DEF Matches
<1>3. FilterOf(ls, NoQuery) = Select(all, T)
  BY DEF FilterOf
<1> HIDE DEF D, T, all
<1>4. Select(all, T) = all
  BY <1>1, <1>2, SelectAll
<1> QED
  BY <1>3, <1>4 DEF all

\* The events of a timeline.
Events == [type : EventTypes, text : Seq(Chars), command : Nat]

\* The browser's lines are texts.
LEMMA SummariesType ==
    ASSUME NEW t, IsTimeline(t)
    PROVE  Summaries(t) \in Seq(Seq(Chars))
<1> DEFINE T == {e \in Range(t) : HasLine(e)}
           shown == Select(t, T)
<1>1. t \in Seq(Events)
  BY DEF IsTimeline, Events
<1> HIDE DEF T
<1>2. shown \in Seq(Events)
  BY <1>1, SelectType
<1> USE DEF T
<1>3. Summaries(t) = [i \in DOMAIN shown |-> shown[i].text]
  BY DEF Summaries
<1> HIDE DEF shown
<1>4. Len(shown) \in Nat /\ DOMAIN shown = 1 .. Len(shown)
      /\ \A i \in DOMAIN shown : shown[i].text \in Seq(Chars)
  <2>1. Len(shown) \in Nat /\ DOMAIN shown = 1 .. Len(shown)
        /\ \A i \in DOMAIN shown : shown[i] \in Events
    BY <1>2
  <2>2. \A e \in Events : e.text \in Seq(Chars)
    BY DEF Events
  <2> QED
    BY <2>1, <2>2
<1> DEFINE texts == Seq(Chars)
           f == [i \in DOMAIN shown |-> shown[i].text]
<1>5. f \in [1 .. Len(shown) -> texts] /\ Len(shown) \in Nat
  BY <1>4
<1> HIDE DEF texts, f
<1>6. f \in Seq(texts)
  BY <1>5
<1> QED
  BY <1>3, <1>6 DEF texts, f

\* What is left of a deleted session is a timeline.
LEMMA EmptyIsTimeline == IsTimeline(<<>>)
  BY DEF IsTimeline

\* The browser's invariant: it shows the lines that match the query, or all of
\* them if none does, and has one of those it shows selected.
ViewOK ==
    /\ viewing \in {"closed", "browse", "search"}
    /\ lines \in Seq(Seq(Chars))
    /\ query \in Queries \cup {NoQuery}
    /\ at \in 0 .. Len(lines)
    /\ visible # <<>> => at \in DOMAIN visible
    /\ \/ visible = FilterOf(lines, query)
       \/ FilterOf(lines, query) = <<>> /\ visible = AllOf(lines)

\* What the commands have read are timelines of the storage.
CommandOK ==
    /\ opening.by \in {"nobody", "timeline", "export"}
    /\ opening.id \in 0 .. MaxSessions
    /\ IsTimeline(opening.timeline)
    /\ exported # NoExport => IsTimeline(exported)

\* What is shown are places of lines.
LEMMA VisibleType ==
    ASSUME ViewOK
    PROVE  visible \in Seq(DOMAIN lines) /\ Len(visible) <= Len(lines)
<1>1. lines \in Seq(Seq(Chars)) /\ Len(lines) \in Nat
  BY DEF ViewOK
<1> DEFINE S == Seq(Chars)
<1> HIDE DEF S
<1>2. lines \in Seq(S)
  BY <1>1 DEF S
<1>3. /\ AllOf(lines) \in Seq(DOMAIN lines) /\ Len(AllOf(lines)) = Len(lines)
      /\ FilterOf(lines, query) \in Seq(DOMAIN lines)
      /\ Len(FilterOf(lines, query)) <= Len(lines)
  BY <1>2, FilterType
<1>4. visible \in {FilterOf(lines, query), AllOf(lines)}
  BY DEF ViewOK
<1> QED
  BY <1>1, <1>3, <1>4

\* The browser's invariant has its type invariant and HighlightIsOnAMatch in it.
LEMMA ViewMeans == ViewOK => TimelineTypeOK /\ HighlightIsOnAMatch
<1> SUFFICES ASSUME ViewOK PROVE TimelineTypeOK /\ HighlightIsOnAMatch
  OBVIOUS
<1>1. visible \in Seq(DOMAIN lines)
  BY VisibleType
<1>2. TimelineTypeOK
  BY <1>1 DEF ViewOK, TimelineTypeOK
<1>3. HighlightIsOnAMatch
  BY FilterIsFilterOf DEF ViewOK, HighlightIsOnAMatch
<1> QED
  BY <1>2, <1>3

\* A browser that opens or closes shows all its lines, the first one selected.
LEMMA FreshView ==
    ASSUME lines' \in Seq(Seq(Chars)), visible' = AllOf(lines'), query' = NoQuery,
           at' = IF lines' = <<>> THEN 0 ELSE 1, viewing' \in {"closed", "browse"}
    PROVE  ViewOK'
<1> DEFINE S == Seq(Chars)
<1> HIDE DEF S
<1>1. lines' \in Seq(S)
  BY DEF S
<1>2. FilterOf(lines', NoQuery) = AllOf(lines')
      /\ AllOf(lines') \in Seq(DOMAIN lines') /\ Len(AllOf(lines')) = Len(lines')
  BY <1>1, NoQueryFindsAll, FilterType
<1>3. /\ Len(lines') \in Nat /\ (lines' = <<>> <=> Len(lines') = 0)
      /\ (visible' = <<>> <=> Len(visible') = 0) /\ DOMAIN visible' = 1 .. Len(visible')
  BY <1>1, <1>2
<1>4. at' \in 0 .. Len(lines') /\ (visible' # <<>> => at' \in DOMAIN visible')
  BY <1>2, <1>3
<1> QED
  BY <1>2, <1>4 DEF ViewOK

\* The selection wraps around among the lines that are shown.
LEMMA MoveVisibleInRange ==
    ASSUME NEW len \in Nat, len > 0, at \in Nat, NEW delta \in {-1, 1}
    PROVE  MoveVisible(len, delta) \in 1 .. len
<1> DEFINE current == IF at = 0 THEN 0 ELSE at - 1
<1>1. current + delta \in Int
  OBVIOUS
<1>2. (current + delta) % len \in 0 .. len - 1
  <2> HIDE DEF current
  <2> QED
    BY <1>1
<1> QED
  BY <1>2 DEF MoveVisible

\* The browser's keys keep its invariant.
LEMMA ViewKeys ==
    ASSUME ViewOK, TimelineKeys \/ LeavesView
    PROVE  ViewOK'
<1>1. /\ visible \in Seq(DOMAIN lines) /\ Len(visible) <= Len(lines)
      /\ Len(visible) \in Nat /\ Len(lines) \in Nat /\ DOMAIN visible = 1 .. Len(visible)
      /\ (visible = <<>> <=> Len(visible) = 0)
  BY VisibleType DEF ViewOK
<1>2. CASE MovesLine
  <2>1. Len(visible) > 0 /\ at \in Nat
    BY <1>1, <1>2 DEF MovesLine, ViewOK
  <2>2. at' \in 1 .. Len(visible)
    <3>1. MoveVisible(Len(visible), -1) \in 1 .. Len(visible)
          /\ MoveVisible(Len(visible), 1) \in 1 .. Len(visible)
      BY <1>1, <2>1, MoveVisibleInRange
    <3> QED
      BY <1>1, <1>2, <2>1, <3>1 DEF MovesLine
  <2>3. at' \in 0 .. Len(lines) /\ at' \in DOMAIN visible
    BY <1>1, <2>2
  <2> QED
    BY <1>2, <2>3 DEF MovesLine, ViewOK
<1>3. CASE StartsSearch
  BY <1>3 DEF StartsSearch, ViewOK
<1> DEFINE S == Seq(Chars)
<1> HIDE DEF S
<1>4. lines \in Seq(S)
  BY DEF ViewOK, S
<1>5. ASSUME NEW q, visible' \in {FilterOf(lines, q), AllOf(lines)}
      PROVE  /\ Len(visible') \in Nat /\ Len(visible') <= Len(lines)
             /\ DOMAIN visible' = 1 .. Len(visible')
             /\ (visible' = <<>> <=> Len(visible') = 0)
  <2>1. visible' \in Seq(DOMAIN lines) /\ Len(visible') <= Len(lines)
    <3>1. /\ AllOf(lines) \in Seq(DOMAIN lines) /\ Len(AllOf(lines)) = Len(lines)
          /\ FilterOf(lines, q) \in Seq(DOMAIN lines)
          /\ Len(FilterOf(lines, q)) <= Len(lines)
      BY <1>4, FilterType
    <3> QED
      BY <1>1, <1>5, <3>1
  <2> QED
    BY <2>1
<1>6. ASSUME NEW q \in Queries \cup {NoQuery}, Searches(q) PROVE ViewOK'
  <2>1. /\ viewing' = "browse" /\ query' = q /\ lines' = lines
        /\ visible' = IF FilterOf(lines, q) = <<>> THEN AllOf(lines) ELSE FilterOf(lines, q)
        /\ at' = IF visible' = <<>> THEN 0 ELSE 1
    BY <1>6, FilterIsFilterOf DEF Searches
  <2>2. at' \in 0 .. Len(lines) /\ (visible' # <<>> => at' \in DOMAIN visible')
    BY <1>1, <1>5, <2>1
  <2> QED
    BY <2>1, <2>2 DEF ViewOK
<1>7. CASE Repeats
  <2>1. /\ viewing' = viewing /\ query' = query /\ lines' = lines
        /\ visible' = FilterOf(lines, query)
        /\ at' = IF visible' = <<>> THEN at ELSE 1
    BY <1>7, FilterIsFilterOf DEF Repeats
  <2>2. at' \in 0 .. Len(lines) /\ (visible' # <<>> => at' \in DOMAIN visible')
    BY <1>1, <1>5, <2>1 DEF ViewOK
  <2> QED
    BY <2>1, <2>2 DEF ViewOK
<1>8. CASE LeavesView
  <2>1. CASE viewing = "search"
    BY <1>8, <2>1 DEF LeavesView, ViewOK
  <2>2. CASE viewing # "search"
    <3>1. viewing' = "closed" /\ lines' = <<>> /\ visible' = <<>> /\ at' = 0
          /\ query' = NoQuery
      BY <1>8, <2>2 DEF LeavesView
    <3>2. AllOf(lines') = <<>> /\ lines' \in Seq(Seq(Chars))
      BY <3>1 DEF AllOf
    <3> QED
      BY <3>1, <3>2, FreshView
  <2> QED
    BY <2>1, <2>2
<1> QED
  BY <1>2, <1>3, <1>6, <1>7, <1>8 DEF TimelineKeys

\* The inductive invariant of the commands that read a timeline.
ReadInv == ViewOK /\ CommandOK

\* ReadInv is inductive, given TableInv.
LEMMA NextReadInv == ReadInv /\ TableInv /\ [Next]_vars => ReadInv'
<1> SUFFICES ASSUME ReadInv, TableInv, [Next]_vars PROVE ReadInv'
  OBVIOUS
<1>1. CASE UNCHANGED <<viewVars, commandVars>>
  BY <1>1 DEF viewVars, commandVars, ReadInv, ViewOK, CommandOK
<1>2. CASE (TimelineKeys \/ LeavesView) /\ UNCHANGED commandVars
  <2>1. ViewOK'
    BY <1>2, ViewKeys DEF ReadInv
  <2> QED
    BY <1>2, <2>1 DEF commandVars, ReadInv, CommandOK
<1>3. ASSUME NEW n \in Names, NEW t \in Viewed \cup Exported, NEW what \in {"timeline", "export"},
             Requires(what, n, t)
      PROVE  ReadInv'
  <2>1. rows \in Seq(Rows)
    BY DEF TableInv, TableOK, IsTable
  <2>2. Row(n) \in Rows
    BY <1>3, <2>1, RowIsThere DEF Requires
  <2>3. Row(n).id \in 0 .. MaxSessions
    BY <2>2, MaxSessionsAssumption DEF Rows
  <2>4. IsTimeline(t)
    BY TimelinesAssumption
  <2>5. /\ opening' = [by |-> what, id |-> Row(n).id, timeline |-> t]
        /\ UNCHANGED <<viewVars, exported>>
    BY <1>3 DEF Requires
  <2>6. ViewOK'
    BY <2>5 DEF viewVars, ReadInv, ViewOK
  <2>7. CommandOK'
    BY <2>3, <2>4, <2>5 DEF ReadInv, CommandOK
  <2> QED
    BY <2>6, <2>7 DEF ReadInv
<1>4. IsTimeline(Recorded)
  BY EmptyIsTimeline DEF Recorded, ReadInv, CommandOK
<1>5. opening' = NoSession => /\ opening'.by \in {"nobody", "timeline", "export"}
                              /\ opening'.id \in 0 .. MaxSessions
                              /\ IsTimeline(opening'.timeline)
  BY EmptyIsTimeline, MaxSessionsAssumption DEF NoSession
<1>6. CASE ReadsForScreen
  <2>1. lines' = Summaries(Recorded) /\ lines' \in Seq(Seq(Chars))
    BY <1>4, <1>6, SummariesType DEF ReadsForScreen, Shows
  <2>2. visible' = AllOf(lines')
    BY <1>6 DEF ReadsForScreen, Shows, AllOf
  <2>3. ViewOK'
    BY <1>6, <2>1, <2>2, FreshView DEF ReadsForScreen, Shows
  <2> QED
    BY <1>5, <1>6, <2>3 DEF ReadsForScreen, ReadInv, CommandOK
<1>7. CASE ReadsForExport
  BY <1>4, <1>5, <1>7 DEF ReadsForExport, viewVars, ReadInv, ViewOK, CommandOK
<1>8. CASE Ends
  BY <1>8 DEF Ends, viewVars, ReadInv, ViewOK, CommandOK
<1> QED
  BY <1>1, <1>2, <1>3, <1>6, <1>7, <1>8 DEF Next, Commands, vars

\* ReadInv holds in every state.
LEMMA ReadInvariant == Spec => []ReadInv
<1>1. Init => ReadInv
  <2>1. SUFFICES ASSUME Init PROVE ReadInv
    OBVIOUS
  <2>2. lines = <<>> /\ visible = <<>> /\ at = 0 /\ query = NoQuery /\ viewing = "closed"
        /\ opening = NoSession /\ exported = NoExport
    BY <2>1 DEF Init, TimelineInit
  <2>3. lines \in Seq(Seq(Chars)) /\ AllOf(lines) = <<>> /\ Len(lines) = 0
    BY <2>2 DEF AllOf
  <2>4. FilterOf(lines, query) = <<>>
    BY <2>2, <2>3, SelectEmpty DEF FilterOf
  <2>5. ViewOK
    BY <2>2, <2>3, <2>4 DEF ViewOK
  <2> QED
    BY <2>2, <2>5, EmptyIsTimeline, MaxSessionsAssumption DEF ReadInv, CommandOK,
       NoSession
<1> QED
  BY <1>1, NextReadInv, TableInvariant, PTL DEF Spec

----------------------------------------------------------------------------
(* Theorems *)

\* Between its keys the screen shows the table as it is, until another terminal
\* changes it (event_loop).
THEOREM ScreenIsCurrent == Spec => []CacheIsCurrent
<1>1. ManagerInv => CacheIsCurrent
  BY DEF ManagerInv
<1> QED
  BY <1>1, Invariant, PTL

\* Whichever statements fail, a user who is alone is never told that a session does
\* not exist, and attaches to what is there (event_loop, cmd_attach).
THEOREM AloneFindsSessions == Spec => []MissingMeansInterference
<1>1. ManagerInv => MissingMeansInterference
  BY DEF ManagerInv
<1> QED
  BY <1>1, Invariant, PTL

\* Every variable of the screens stays in its type: every index is on a line that
\* there is, a selected row is a row, and what is read is a timeline.
THEOREM TypeCorrect == Spec => []TypeOK
<1>1. TableInv /\ ReadInv => TypeOK
  BY TableInvTypes, ViewMeans DEF ReadInv, CommandOK, TypeOK
<1> QED
  BY <1>1, TableInvariant, ReadInvariant, PTL

\* `r` flips the archived status of the selected session and of no other, as the
\* screen shows it before and after, unless another terminal changed a session in
\* between (toggle_archived, which reads, writes and lists with awaits in between).
THEOREM ScreenToggles == Spec => TogglesSelectedOnly
<1>1. TableInv /\ [Next]_vars => [TogglesOne]_managerVars
  BY StepTogglesOne
<1>2. TogglesSelectedOnly <=> [][TogglesOne]_managerVars
  BY DEF TogglesSelectedOnly, TogglesOne
<1> QED
  BY <1>1, <1>2, TableInvariant, PTL DEF Spec

\* A confirmed deletion takes one session from the table, the one whose preview
\* was shown (delete_session_by_name, which looks the name up again), and nothing
\* else takes any; so does `termnote delete` in another terminal.
THEOREM ScreenDeletes == Spec => DeletesWhatWasPreviewed
<1>1. TableInv /\ [Next]_vars => [DeletesPreviewed]_managerVars
  BY StepDeletesPreviewed
<1>2. DeletesWhatWasPreviewed <=> [][DeletesPreviewed]_managerVars
  BY DEF DeletesWhatWasPreviewed, DeletesPreviewed
<1> QED
  BY <1>1, <1>2, TableInvariant, PTL DEF Spec

\* What the timeline browser highlights as found matches the query
\* (timeline.rs, the filter and the places of its lines).
THEOREM HighlightMatches == Spec => []HighlightIsOnAMatch
<1>1. ReadInv => HighlightIsOnAMatch
  BY ViewMeans DEF ReadInv
<1> QED
  BY <1>1, ReadInvariant, PTL
=============================================================================
