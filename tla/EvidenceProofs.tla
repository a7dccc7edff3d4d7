--------------------------- MODULE EvidenceProofs ---------------------------
(***************************************************************************)
(* The evidence file is keyed by identity at every moment, stored records  *)
(* keep their payload and a refused ingest leaves the file alone; a        *)
(* campaign leaves what its tables give, and what is exported can be       *)
(* ingested and exported again.  What is decided from the bags of records  *)
(* is what they say, in whatever order they came, and a relation is        *)
(* applied only on the strength of a measured row.  For all tables,        *)
(* records, logs and orders of commands, and wherever one stops.           *)
(***************************************************************************)
EXTENDS EvidenceDB, DecisionBags, FiniteInduction

-----------------------------------------------------------------------------
\* What an export by a record's own names and revision needs.
Named(rec) == rec.profile # "" /\ rec.workload # "" /\ rec.revision # ""

\* A list of records, each identity once.
Keyed(rows) ==
  /\ rows \in Seq(ToSet(rows)) /\ CheckDb(rows)
  /\ \A i \in DOMAIN rows : Named(rows[i])

\* The first of two lists is how the second begins.
Begins(rows, more) ==
  Len(rows) <= Len(more) /\ \A i \in DOMAIN rows : rows[i] = more[i]

(***************************************************************************)
(* Memory begins with the file that was loaded, and while it is written    *)
(* the file is what memory begins with.  What was stored is in the file,   *)
(* or, while it is written, in memory.  A command on one table has not     *)
(* touched the file before it writes, and leaves it with code 0 or -1.     *)
(***************************************************************************)
StoreInv ==
  /\ pc \in {"idle", "next", "merge", "write"}
  /\ file = [there |-> file.there, rows |-> file.rows, torn |-> file.torn]
  /\ task = [all |-> task.all, revision |-> task.revision, at |-> task.at, rest |-> task.rest]
  /\ todo \in Seq(TableRows) /\ task.rest \in Seq(Sources)
  /\ \A i \in DOMAIN task.rest : NamedAs[task.rest[i]] # ""
  /\ pc = "next" => task.rest # <<>>
  /\ Keyed(file.rows)
  /\ pc \in {"merge", "write"} => Keyed(db) /\ task.revision # "" /\ Begins(file.rows, db)
  /\ kept \subseteq IF pc = "write" THEN ToSet(db) ELSE ToSet(file.rows)

LEMMA EmptyKeyed == Keyed(<<>>)
  BY DEF Keyed, CheckDb, ToSet

LEMMA StoreInvInit == Init => StoreInv
<1>. SUFFICES ASSUME Init PROVE StoreInv
  OBVIOUS
<1>1. /\ file.rows = <<>> /\ task.rest = <<>> /\ todo = <<>>
      /\ file = [there |-> file.there, rows |-> file.rows, torn |-> file.torn]
      /\ task = [all |-> task.all, revision |-> task.revision, at |-> task.at,
                 rest |-> task.rest]
  BY DEF Init, Absent, NoTask
<1>2. Keyed(file.rows)
  BY <1>1, EmptyKeyed
<1>3. \A i \in DOMAIN task.rest : NamedAs[task.rest[i]] # ""
  <2>1. DOMAIN task.rest = {}
    BY <1>1
  <2>. QED  BY <2>1
<1>. QED  BY <1>1, <1>2, <1>3 DEF Init, StoreInv

\* A record of a new identity may be appended.
LEMMA AppendKeyed ==
  ASSUME NEW rows, Keyed(rows), NEW rec, Named(rec), SameId(rows, rec) = {}
  PROVE  Keyed(Append(rows, rec)) /\ \A row \in ToSet(rows) : row \in ToSet(Append(rows, rec))
<1>. DEFINE more == Append(rows, rec)
<1>1. Len(rows) \in Nat /\ DOMAIN rows = 1..Len(rows)
  BY DEF Keyed
<1>2. /\ DOMAIN more = 1..(Len(rows) + 1)
      /\ \A i \in DOMAIN rows : i \in DOMAIN more /\ more[i] = rows[i]
      /\ more[Len(rows) + 1] = rec /\ Len(more) = Len(rows) + 1
  BY <1>1 DEF Keyed
<1>3. more \in Seq(ToSet(more))
  BY <1>1, <1>2 DEF ToSet, Keyed
<1>. HIDE DEF more
<1>4. CheckDb(more)
  BY <1>1, <1>2 DEF Keyed, CheckDb, SameId
<1>5. \A i \in DOMAIN more : Named(more[i])
  BY <1>1, <1>2 DEF Keyed
<1>6. \A row \in ToSet(rows) : row \in ToSet(more)
  BY <1>1, <1>2 DEF ToSet
<1>. QED  BY <1>3, <1>4, <1>5, <1>6 DEF Keyed, more

\* A row of a table becomes a record with names.
LEMMA NormalizedNamed ==
  ASSUME NEW row \in TableRows, NEW revision, revision # "", NEW at
  PROVE  Named(Normalize(row, revision, at))
  BY RowsAreNamed DEF Named, Normalize

\* What the last row brings to memory.
LEMMA UpsertKeyed ==
  ASSUME NEW rows, Keyed(rows), NEW rec, Named(rec), ~Collides(rows, rec)
  PROVE  /\ Keyed(Upsert(rows, rec))
         /\ \A old : Begins(old, rows) /\ Keyed(old) => Begins(old, Upsert(rows, rec))
<1>1. CASE IsNoop(rows, rec)
  BY <1>1 DEF Upsert
<1>2. CASE ~IsNoop(rows, rec)
  <2>1. SameId(rows, rec) = {} /\ Upsert(rows, rec) = Append(rows, rec)
    BY <1>2 DEF Collides, Upsert
  <2>2. ASSUME NEW old, Begins(old, rows), Keyed(old)
        PROVE  Begins(old, Append(rows, rec))
    <3>1. /\ Len(rows) \in Nat /\ Len(Append(rows, rec)) = Len(rows) + 1
          /\ \A i \in 1..Len(rows) : Append(rows, rec)[i] = rows[i]
      BY DEF Keyed
    <3>2. Len(old) \in Nat /\ DOMAIN old = 1..Len(old)
      BY <2>2 DEF Keyed
    <3>. QED  BY <2>2, <3>1, <3>2 DEF Begins
  <2>. QED  BY <2>1, <2>2, AppendKeyed
<1>. QED  BY <1>1, <1>2

-----------------------------------------------------------------------------
LEMMA KeyedPositions ==
  ASSUME NEW rows, Keyed(rows)
  PROVE  Len(rows) \in Nat /\ DOMAIN rows = 1..Len(rows)
  BY DEF Keyed

\* What a list begins with is part of it, and all of it if it is as long.
LEMMA BeginningIsPart ==
  ASSUME NEW rows, NEW more, Keyed(rows), Keyed(more), Begins(rows, more)
  PROVE  /\ ToSet(rows) \subseteq ToSet(more)
         /\ Len(rows) = Len(more) => ToSet(more) \subseteq ToSet(rows)
  BY KeyedPositions DEF Begins, ToSet

\* A list begins with itself and with nothing.
LEMMA BeginsTrivially ==
  ASSUME NEW rows, Keyed(rows)
  PROVE  Begins(rows, rows) /\ Begins(<<>>, rows)
  BY DEF Begins, Keyed

\* The head of a list is its first element, the tail the others.
LEMMA ListTail ==
  ASSUME NEW S, NEW s \in Seq(S) \ {<<>>}
  PROVE  /\ 1 \in DOMAIN s /\ Head(s) = s[1] /\ Head(s) \in S
         /\ Tail(s) \in Seq(S)
         /\ \A i \in DOMAIN Tail(s) : i + 1 \in DOMAIN s /\ Tail(s)[i] = s[i + 1]
<1>1. Len(s) \in Nat \ {0} /\ DOMAIN s = 1..Len(s)
  OBVIOUS
<1>. QED  BY <1>1

\* Nothing is left to be read, of a task or of a table.
LEMMA NothingLeft ==
  ASSUME NEW f, f = <<>>
  PROVE  /\ f \in Seq(Sources) /\ f \in Seq(TableRows)
         /\ \A i \in DOMAIN f : NamedAs[f[i]] # ""
<1>1. DOMAIN f = {}
  OBVIOUS
<1>2. f \in Seq(Sources) /\ f \in Seq(TableRows)
  OBVIOUS
<1>. QED  BY <1>1, <1>2

\* One step per action of the store.
LEMMA StoreInvStep == StoreInv /\ [Next]_vars => StoreInv'
<1>. SUFFICES ASSUME StoreInv, [Next]_vars PROVE StoreInv'
  OBVIOUS
<1>1. ASSUME NEW s \in Sources, NEW given \in Revisions, Ingest(s, given) PROVE StoreInv'
  <2>1. /\ file' = file /\ kept' = kept /\ task'.rest = <<>> /\ pc = "idle"
        /\ task' = [all |-> task'.all, revision |-> task'.revision, at |-> task'.at,
                    rest |-> task'.rest]
    BY <1>1 DEF Ingest
  <2>2. Keyed(file.rows) /\ kept \subseteq ToSet(file.rows)
    BY <2>1 DEF StoreInv
  <2>3. CASE pc' = "idle" /\ todo' = <<>>
    BY <2>1, <2>2, <2>3, NothingLeft DEF StoreInv
  <2>4. CASE pc' = "merge" /\ todo' = Rows[s] /\ db' = file.rows /\ task'.revision # ""
    BY <2>1, <2>2, <2>4, NothingLeft, TablesAreLists, BeginsTrivially DEF StoreInv
  <2>. QED  BY <1>1, <2>3, <2>4 DEF Ingest, End, Start
<1>2. ASSUME IngestAllFrozen PROVE StoreInv'
  <2>1. /\ file'.rows = <<>> /\ task'.rest = Frozen
        /\ pc' = "next" /\ todo' = todo /\ kept' = {}
        /\ file' = [there |-> file'.there, rows |-> file'.rows, torn |-> file'.torn]
        /\ task' = [all |-> task'.all, revision |-> task'.revision, at |-> task'.at,
                    rest |-> task'.rest]
    BY <1>2 DEF IngestAllFrozen, Absent, FrozenTask
  <2>2. Keyed(file'.rows)
    BY <2>1, EmptyKeyed
  <2>. QED  BY <2>1, <2>2, CampaignIsNamed DEF StoreInv
<1>3. ASSUME NextTable PROVE StoreInv'
  <2>. DEFINE rest == task.rest
  <2>1. /\ pc = "next" /\ pc' = "merge" /\ file' = file /\ kept' = kept
        /\ db' = file.rows /\ todo' = Rows[Head(rest)]
    BY <1>3 DEF NextTable, Start
  <2>2. /\ task'.rest = Tail(rest) /\ task'.revision = NamedAs[Head(rest)]
        /\ task' = [all |-> task'.all, revision |-> task'.revision, at |-> task'.at,
                    rest |-> task'.rest]
    BY <1>3 DEF NextTable, StoreInv
  <2>3. /\ rest \in Seq(Sources) /\ rest # <<>>
        /\ \A i \in DOMAIN rest : NamedAs[rest[i]] # ""
    BY <2>1 DEF StoreInv
  <2>. HIDE DEF rest
  <2>4. /\ Head(rest) \in Sources /\ NamedAs[Head(rest)] # ""
        /\ Tail(rest) \in Seq(Sources)
        /\ \A i \in DOMAIN Tail(rest) : NamedAs[Tail(rest)[i]] # ""
    <3>1. rest \in Seq(Sources) \ {<<>>}
      BY <2>3
    <3>2. Head(rest) = rest[1] /\ 1 \in DOMAIN rest /\ Head(rest) \in Sources
      BY <3>1, ListTail
    <3>3. /\ Tail(rest) \in Seq(Sources)
          /\ \A i \in DOMAIN Tail(rest) : i + 1 \in DOMAIN rest /\ Tail(rest)[i] = rest[i + 1]
      BY <3>1, ListTail
    <3>. QED  BY <2>3, <3>2, <3>3
  <2>5. Keyed(file.rows) /\ kept \subseteq ToSet(file.rows)
    BY <2>1 DEF StoreInv
  <2>. QED  BY <2>1, <2>2, <2>4, <2>5, TablesAreLists, BeginsTrivially DEF StoreInv
<1>4. ASSUME TableMissing PROVE StoreInv'
  <2>1. /\ pc = "next" /\ pc' = "idle" /\ todo' = <<>>
        /\ UNCHANGED <<file, task, kept>>
    BY <1>4 DEF TableMissing, End
  <2>. QED  BY <2>1, NothingLeft DEF StoreInv
<1>5. ASSUME AddCollision PROVE StoreInv'
  <2>1. /\ pc = "merge" /\ pc' = "idle" /\ todo' = <<>>
        /\ UNCHANGED <<file, task, kept>>
    BY <1>5 DEF AddCollision, End
  <2>. QED  BY <2>1, NothingLeft DEF StoreInv
<1>6. ASSUME AddRow PROVE StoreInv'
  <2>. DEFINE rec == Normalize(Head(todo), task.revision, task.at)
  <2>1. /\ db' = Upsert(db, rec) /\ todo' = Tail(todo) /\ pc = "merge"
        /\ todo # <<>> /\ ~Collides(db, rec)
        /\ UNCHANGED <<file, pc, task, kept>>
    BY <1>6 DEF AddRow
  <2>2. Head(todo) \in TableRows /\ Tail(todo) \in Seq(TableRows)
    <3>1. todo \in Seq(TableRows)
      BY DEF StoreInv
    <3>. QED  BY <2>1, <3>1
  <2>3. Named(rec)
    BY <2>1, <2>2, NormalizedNamed DEF StoreInv
  <2>. HIDE DEF rec
  <2>4. Keyed(Upsert(db, rec)) /\ Begins(file.rows, Upsert(db, rec))
    BY <2>1, <2>3, UpsertKeyed DEF StoreInv
  <2>. QED  BY <2>1, <2>2, <2>4 DEF StoreInv
<1>7. ASSUME SkipRow PROVE StoreInv'
  <2>1. /\ todo # <<>> /\ todo' = Tail(todo)
        /\ UNCHANGED <<file, pc, db, task, kept>>
    BY <1>7 DEF SkipRow
  <2>2. Tail(todo) \in Seq(TableRows)
    <3>1. todo \in Seq(TableRows)
      BY DEF StoreInv
    <3>. QED  BY <2>1, <3>1
  <2>. QED  BY <2>1, <2>2 DEF StoreInv
<1>8. ASSUME Open PROVE StoreInv'
  <2>1. /\ pc = "merge" /\ pc' = "write" /\ file'.rows = <<>>
        /\ file' = [there |-> file'.there, rows |-> file'.rows, torn |-> file'.torn]
        /\ UNCHANGED <<db, todo, task, kept>>
    BY <1>8 DEF Open, Holding
  <2>2. Keyed(file'.rows) /\ Begins(file'.rows, db)
    BY <2>1, EmptyKeyed, BeginsTrivially DEF StoreInv
  <2>3. kept \subseteq ToSet(db)
    <3>1. Keyed(db) /\ Keyed(file.rows) /\ Begins(file.rows, db) /\ kept \subseteq ToSet(file.rows)
      BY <2>1 DEF StoreInv
    <3>. QED  BY <3>1, BeginningIsPart
  <2>. QED  BY <2>1, <2>2, <2>3 DEF StoreInv
<1>9. ASSUME WriteRow PROVE StoreInv'
  <2>. DEFINE n == Len(file.rows)
              rec == db[n + 1]
  <2>1. /\ pc = "write" /\ n < Len(db)
        /\ file'.rows = Append(file.rows, rec)
        /\ file' = [there |-> file'.there, rows |-> file'.rows, torn |-> file'.torn]
        /\ UNCHANGED <<pc, db, todo, task, kept>>
    BY <1>9 DEF WriteRow, Holding
  <2>2. /\ Keyed(db) /\ Keyed(file.rows) /\ Begins(file.rows, db)
        /\ n \in Nat /\ DOMAIN file.rows = 1..n
        /\ Len(db) \in Nat /\ DOMAIN db = 1..Len(db) /\ n + 1 \in DOMAIN db
    <3>1. Keyed(db) /\ Keyed(file.rows) /\ Begins(file.rows, db)
      BY <2>1 DEF StoreInv
    <3>. QED  BY <2>1, <3>1, KeyedPositions
  <2>3. Named(rec) /\ SameId(file.rows, rec) = {}
    BY <2>2 DEF Keyed, CheckDb, SameId, Begins
  <2>4. Keyed(file'.rows)
    BY <2>1, <2>2, <2>3, AppendKeyed
  <2>5. Begins(file'.rows, db)
    <3>1. /\ Len(Append(file.rows, rec)) = n + 1
          /\ DOMAIN Append(file.rows, rec) = 1..(n + 1)
          /\ \A i \in 1..n : Append(file.rows, rec)[i] = file.rows[i]
          /\ Append(file.rows, rec)[n + 1] = rec
      BY <2>2 DEF Keyed
    <3>. QED  BY <2>1, <2>2, <3>1 DEF Begins
  <2>. QED  BY <2>1, <2>4, <2>5 DEF StoreInv
<1>10. ASSUME Close PROVE StoreInv'
  <2>1. /\ pc = "write" /\ Len(file.rows) = Len(db) /\ file' = file /\ task' = task
        /\ kept' = kept \cup ToSet(db)
        /\ pc' \in {"idle", "next"} /\ (pc' = "next" => task.rest # <<>>)
        /\ todo' = <<>>
    BY <1>10 DEF Close, End
  <2>2. kept \subseteq ToSet(db) /\ ToSet(db) \subseteq ToSet(file.rows)
    <3>1. Keyed(db) /\ Keyed(file.rows) /\ Begins(file.rows, db) /\ kept \subseteq ToSet(db)
      BY <2>1 DEF StoreInv
    <3>. QED  BY <2>1, <3>1, BeginningIsPart
  <2>. QED  BY <2>1, <2>2, NothingLeft DEF StoreInv
<1>11. ASSUME Crash PROVE StoreInv'
  <2>1. /\ pc' = "idle" /\ todo' = <<>> /\ file'.rows = file.rows /\ task' = task
        /\ kept' = IF pc = "write" THEN ToSet(file.rows) ELSE kept
        /\ file' = [there |-> file'.there, rows |-> file'.rows, torn |-> file'.torn]
    BY <1>11 DEF Crash, End, StoreInv
  <2>. QED  BY <2>1, NothingLeft DEF StoreInv
<1>12. CASE UNCHANGED vars
  BY <1>12 DEF vars, StoreInv
<1>. QED
  BY <1>1, <1>2, <1>3, <1>4, <1>5, <1>6, <1>7, <1>8, <1>9, <1>10, <1>11, <1>12 DEF Next

-----------------------------------------------------------------------------
\* An export by a record's own names and revision is never refused.
LEMMA OwnExportIsAnswered ==
  ASSUME NEW rows, Keyed(rows), NEW rec \in ToSet(rows)
  PROVE  Export(rows, rec.profile, rec.workload, rec.revision).code = 0
<1>1. Named(rec)
  BY DEF Keyed, ToSet
<1>2. ~Ambiguous(rows, rec.profile, rec.workload, rec.revision)
  <2>. SUFFICES ASSUME NEW i \in DOMAIN rows, NEW j \in 1..(i - 1),
                       rows[j].candidate = rows[i].candidate,
                       InSlice(rows[i], rec.profile, rec.workload, rec.revision),
                       InSlice(rows[j], rec.profile, rec.workload, rec.revision)
                PROVE  FALSE
    BY DEF Ambiguous
  <2>1. j \in DOMAIN rows /\ j # i
    BY KeyedPositions
  <2>2. EvidenceId(rows[i]) = EvidenceId(rows[j])
    BY <1>1 DEF InSlice, Matches, Named, EvidenceId
  <2>. QED  BY <2>1, <2>2 DEF Keyed, CheckDb
<1>. QED  BY <1>1, <1>2 DEF Export, Named

\* Whoever reads the file at any moment finds each identity once, and exports
\* each revision.
THEOREM StoreAlwaysKeyed == Spec => []StoreIsKeyed
<1>1. StoreInv => StoreIsKeyed
  BY OwnExportIsAnswered DEF StoreInv, StoreIsKeyed, Keyed
<1>. QED  BY <1>1, StoreInvInit, StoreInvStep, PTL DEF Spec

\* What was stored keeps its payload for as long as it is stored.
THEOREM SlicesStayImmutable == Spec => []SlicesAreImmutable
<1>1. StoreInv => SlicesAreImmutable
  <2>. SUFFICES ASSUME StoreInv, NEW rec \in ToSet(file.rows), NEW old \in kept,
                       EvidenceId(rec) = EvidenceId(old)
                PROVE  rec = old
    BY DEF SlicesAreImmutable
  <2>1. CASE pc # "write"
    BY <2>1 DEF StoreInv, Keyed, CheckDb, ToSet
  <2>2. CASE pc = "write"
    <3>1. Keyed(db) /\ Keyed(file.rows) /\ Begins(file.rows, db) /\ kept \subseteq ToSet(db)
      BY <2>2 DEF StoreInv
    <3>2. rec \in ToSet(db) /\ old \in ToSet(db)
      BY <3>1, BeginningIsPart
    <3>. QED  BY <3>1, <3>2 DEF Keyed, CheckDb, ToSet
  <2>. QED  BY <2>1, <2>2
<1>. QED  BY <1>1, StoreInvInit, StoreInvStep, PTL DEF Spec

\* A command on one table has a single table to read, and touches the file only
\* when nothing can refuse it any more.
RefusalInv ==
  /\ pc \in {"idle", "next", "merge", "write"}
  /\ ~task.all => task.rest = <<>> /\ pc # "next"
  /\ ~task.all /\ pc = "merge" => file = before
  /\ RefusalLeavesFile

LEMMA RefusalInvStep == StoreInv /\ RefusalInv /\ [Next]_vars => RefusalInv'
<1>. SUFFICES ASSUME StoreInv, RefusalInv, [Next]_vars PROVE RefusalInv'
  OBVIOUS
<1>0. task = [all |-> task.all, revision |-> task.revision, at |-> task.at, rest |-> task.rest]
  BY DEF StoreInv
<1>. USE DEF RefusalInv, RefusalLeavesFile, End, Start
<1>1. ASSUME NEW s \in Sources, NEW given \in Revisions, Ingest(s, given) PROVE RefusalInv'
  BY <1>1 DEF Ingest
<1>2. ASSUME IngestAllFrozen \/ NextTable \/ TableMissing PROVE RefusalInv'
  <2>1. CASE IngestAllFrozen
    <3>1. task'.all = TRUE /\ pc' = "next"
      BY <2>1 DEF IngestAllFrozen, FrozenTask
    <3>. QED  BY <3>1
  <2>2. CASE NextTable
    <3>1. task'.all = task.all /\ pc = "next" /\ pc' = "merge"
      BY <1>0, <2>2 DEF NextTable
    <3>. QED  BY <3>1
  <2>3. CASE TableMissing
    <3>1. UNCHANGED task /\ pc = "next" /\ pc' = "idle"
      BY <2>3 DEF TableMissing
    <3>. QED  BY <3>1
  <2>. QED  BY <1>2, <2>1, <2>2, <2>3
<1>3. ASSUME AddCollision \/ AddRow \/ SkipRow PROVE RefusalInv'
  BY <1>3 DEF AddCollision, AddRow, SkipRow
<1>4. ASSUME Open \/ WriteRow PROVE RefusalInv'
  BY <1>4 DEF Open, WriteRow
<1>5. ASSUME Close PROVE RefusalInv'
  <2>1. /\ pc = "write" /\ UNCHANGED <<file, task, before>>
        /\ \/ pc' = "idle" /\ code' = 0
           \/ pc' = "next" /\ task.rest # <<>>
    BY <1>5 DEF Close
  <2>. QED  BY <2>1
<1>6. ASSUME Crash PROVE RefusalInv'
  <2>1. pc' = "idle" /\ code' = -1 /\ UNCHANGED <<task, before>>
    BY <1>6 DEF Crash
  <2>. QED  BY <2>1
<1>7. CASE UNCHANGED vars
  BY <1>7 DEF vars
<1>. QED  BY <1>1, <1>2, <1>3, <1>4, <1>5, <1>6, <1>7 DEF Next

\* A single ingest that is refused leaves the file as it was.
THEOREM RefusalKeepsFile == Spec => []RefusalLeavesFile
<1>1. Init => RefusalInv
  <2>. SUFFICES ASSUME Init PROVE RefusalInv
    OBVIOUS
  <2>1. task.rest = <<>>
    BY DEF Init, NoTask
  <2>2. pc = "idle" /\ code = 0
    BY DEF Init
  <2>. QED  BY <2>1, <2>2 DEF RefusalInv, RefusalLeavesFile
<1>2. RefusalInv => RefusalLeavesFile
  BY DEF RefusalInv
<1>. QED  BY <1>1, <1>2, StoreInvInit, StoreInvStep, RefusalInvStep, PTL DEF Spec
-----------------------------------------------------------------------------
(***************************************************************************)
(* The recursive functions of the module, by the equations they solve.     *)
(***************************************************************************)
\* A row of a table, added to memory.
LEMMA UpsertIsList ==
  ASSUME NEW R, NEW rows \in Seq(R), NEW rec \in R
  PROVE  Upsert(rows, rec) \in Seq(R)
BY DEF Upsert

\* Memory after each of the first rows of a table.
Adds(memory, n, rows, table, revision, at) ==
  /\ memory[0] = rows
  /\ \A i \in 1..n :
       memory[i] = IF Skipped(table[i]) THEN memory[i - 1]
                   ELSE Upsert(memory[i - 1], Normalize(table[i], revision, at))

LEMMA AddingUnfolds ==
  ASSUME NEW R, NEW rows \in Seq(R), NEW table, NEW n \in Nat, n = Len(table),
         NEW revision, NEW at, \A i \in 1..n : Normalize(table[i], revision, at) \in R
  PROVE  /\ Adding(rows, table, revision, at) \in [0..n -> Seq(R)]
         /\ Adds(Adding(rows, table, revision, at), n, rows, table, revision, at)
<1>. DEFINE Step(i, v) ==
              IF Skipped(table[i]) THEN v ELSE Upsert(v, Normalize(table[i], revision, at))
            E(g) == g = [i \in 0..n |-> IF i = 0 THEN rows
                           ELSE IF Skipped(table[i]) THEN g[i - 1]
                           ELSE Upsert(g[i - 1], Normalize(table[i], revision, at))]
            it == CHOOSE g : E(g)
            F == [i \in 1..n |-> [v \in Seq(R) |-> Step(i, v)]]
<1>1. Adding(rows, table, revision, at) = it
  BY DEF Adding
<1>2. \A i \in 1..n : i - 1 \in 0..n /\ i # 0 /\ i \in 0..n
  OBVIOUS
<1>3. \A i \in 1..n, v \in Seq(R) : Step(i, v) \in Seq(R)
  BY UpsertIsList
<1>4. PICK h : Iteration(h, Seq(R), rows, n, F)
  <2>1. F \in StepsOf(Seq(R), n)
    <3>. HIDE DEF Step
    <3>. QED  BY <1>3 DEF StepsOf
  <2>. HIDE DEF F
  <2>. QED  BY <2>1, IterationExists, Zenon
<1>5. /\ h \in [0..n -> Seq(R)] /\ h[0] = rows
      /\ \A i \in 1..n : h[i] = Step(i, h[i - 1])
  <2>. HIDE DEF Step
  <2>1. h \in [0..n -> Seq(R)] /\ h[0] = rows /\ \A i \in 1..n : h[i] = F[i][h[i - 1]]
    BY <1>4 DEF Iteration
  <2>2. \A i \in 1..n : h[i - 1] \in Seq(R)
    BY <1>2, <2>1
  <2>. QED  BY <2>1, <2>2
<1>6. E(h)
  <2>1. \A i \in 0..n : h[i] = IF i = 0 THEN rows
                           ELSE IF Skipped(table[i]) THEN h[i - 1]
                           ELSE Upsert(h[i - 1], Normalize(table[i], revision, at))
    <3>1. \A i \in 0..n : i = 0 \/ i \in 1..n
      OBVIOUS
    <3>. QED  BY <1>2, <1>5, <3>1
  <2>. QED  BY <1>5, <2>1, Zenon
<1>7. E(it)
  <2>. HIDE DEF E
  <2>. QED  BY <1>6
<1>8. /\ it[0] = rows /\ it = [i \in 0..n |-> it[i]]
      /\ \A i \in 1..n : it[i] = Step(i, it[i - 1])
  <2>1. 0 \in 0..n
    OBVIOUS
  <2>. DEFINE e == [i \in 0..n |-> IF i = 0 THEN rows
                           ELSE IF Skipped(table[i]) THEN it[i - 1]
                           ELSE Upsert(it[i - 1], Normalize(table[i], revision, at))]
  <2>2. it = e
    BY <1>7
  <2>. HIDE DEF it
  <2>3. e[0] = rows /\ e = [i \in 0..n |-> e[i]]
    BY <2>1
  <2>4. \A i \in 1..n : e[i] = Step(i, it[i - 1])
    BY <1>2
  <2>. HIDE DEF e, Step
  <2>. QED  BY <2>2, <2>3, <2>4
<1>9. it \in [0..n -> Seq(R)]
  <2>. HIDE DEF it, Step
  <2>. DEFINE T == {i \in 0..n : it[i] \in Seq(R)}
  <2>1. 0 \in T /\ \A i \in 1..n : i - 1 \in T => i \in T
    <3>1. 0 \in T
      BY <1>8
    <3>2. ASSUME NEW i \in 1..n, it[i - 1] \in Seq(R)
          PROVE  it[i] \in Seq(R)
      <4>1. it[i] = Step(i, it[i - 1])
        BY <1>8
      <4>2. Step(i, it[i - 1]) \in Seq(R)
        BY <1>3, <3>2
      <4>. QED  BY <4>1, <4>2
    <3>. QED  BY <1>2, <3>1, <3>2
  <2>2. 0..n \subseteq T
    <3>. HIDE DEF T
    <3>. QED  BY <2>1, StepsReach
  <2>. QED  BY <1>8, <2>2
<1>10. Adds(it, n, rows, table, revision, at)
  BY <1>8 DEF Adds
<1>. HIDE DEF it
<1>. QED  BY <1>1, <1>9, <1>10

\* The records that rows of the tables become.
RecordsOf(revision, at) == {Normalize(row, revision, at) : row \in TableRows}
CampaignRecords == UNION {RecordsOf(NamedAs[s], "campaign-frozen") : s \in Sources}

LEMMA AddedIsList ==
  ASSUME NEW s \in Sources, NEW rows \in Seq(CampaignRecords)
  PROVE  /\ \A i \in 1..Len(Rows[s]) :
              Normalize(Rows[s][i], NamedAs[s], "campaign-frozen") \in CampaignRecords
         /\ Added(rows, Rows[s], NamedAs[s], "campaign-frozen") \in Seq(CampaignRecords)
<1>. DEFINE n == Len(Rows[s])
<1>1. Rows[s] \in Seq(TableRows)
  BY TablesAreLists
<1>2. n \in Nat /\ \A i \in 1..n : Rows[s][i] \in TableRows
  BY <1>1
<1>3. \A i \in 1..n : Normalize(Rows[s][i], NamedAs[s], "campaign-frozen") \in CampaignRecords
  BY <1>2 DEF CampaignRecords, RecordsOf
<1>. HIDE DEF n
<1>4. Adding(rows, Rows[s], NamedAs[s], "campaign-frozen") \in [0..n -> Seq(CampaignRecords)]
  BY <1>2, <1>3, AddingUnfolds DEF n
<1>. QED  BY <1>2, <1>3, <1>4 DEF Added, n

LEMMA CampaignUnfolds ==
  /\ Campaign \in [0..Len(Frozen) -> Seq(CampaignRecords)] /\ Campaign[0] = <<>>
  /\ \A k \in 1..Len(Frozen) :
       Campaign[k] = Added(Campaign[k - 1], Rows[Frozen[k]], NamedAs[Frozen[k]], "campaign-frozen")
<1>. DEFINE n == Len(Frozen)
            R == CampaignRecords
            Step(k, v) == Added(v, Rows[Frozen[k]], NamedAs[Frozen[k]], "campaign-frozen")
            E(g) == g = [k \in 0..n |-> IF k = 0 THEN <<>>
                           ELSE Added(g[k - 1], Rows[Frozen[k]], NamedAs[Frozen[k]],
                                      "campaign-frozen")]
            it == CHOOSE g : E(g)
            F == [k \in 1..n |-> [v \in Seq(R) |-> Step(k, v)]]
<1>1. Campaign = it
  BY DEF Campaign
<1>2. /\ n \in Nat /\ \A k \in 1..n : Frozen[k] \in Sources
      /\ \A k \in 1..n : k - 1 \in 0..n /\ k # 0 /\ k \in 0..n
  <2>1. Frozen \in Seq(Sources)
    BY CampaignIsNamed
  <2>. QED  BY <2>1
<1>. HIDE DEF n
<1>3. \A k \in 1..n, v \in Seq(R) : Step(k, v) \in Seq(R)
  BY <1>2, AddedIsList
<1>4. PICK h : Iteration(h, Seq(R), <<>>, n, F)
  <2>1. F \in StepsOf(Seq(R), n) /\ <<>> \in Seq(R)
    <3>. HIDE DEF Step
    <3>. QED  BY <1>3 DEF StepsOf
  <2>. HIDE DEF F
  <2>. QED  BY <1>2, <2>1, IterationExists, Zenon
<1>5. /\ h \in [0..n -> Seq(R)] /\ h[0] = <<>>
      /\ \A k \in 1..n : h[k] = Step(k, h[k - 1])
  <2>. HIDE DEF Step
  <2>1. h \in [0..n -> Seq(R)] /\ h[0] = <<>> /\ \A k \in 1..n : h[k] = F[k][h[k - 1]]
    BY <1>4 DEF Iteration
  <2>2. \A k \in 1..n : h[k - 1] \in Seq(R)
    BY <1>2, <2>1
  <2>. QED  BY <2>1, <2>2
<1>6. E(h)
  <2>1. \A k \in 0..n : h[k] = IF k = 0 THEN <<>>
                           ELSE Added(h[k - 1], Rows[Frozen[k]], NamedAs[Frozen[k]],
                                      "campaign-frozen")
    <3>1. \A k \in 0..n : k = 0 \/ k \in 1..n
      BY <1>2
    <3>. QED  BY <1>2, <1>5, <3>1
  <2>. QED  BY <1>5, <2>1, Zenon
<1>7. E(it)
  <2>. HIDE DEF E
  <2>. QED  BY <1>6
<1>8. /\ it[0] = <<>> /\ it = [k \in 0..n |-> it[k]]
      /\ \A k \in 1..n : it[k] = Step(k, it[k - 1])
  <2>1. 0 \in 0..n
    BY <1>2
  <2>. DEFINE e == [k \in 0..n |-> IF k = 0 THEN <<>>
                           ELSE Added(it[k - 1], Rows[Frozen[k]], NamedAs[Frozen[k]],
                                      "campaign-frozen")]
  <2>2. it = e
    BY <1>7
  <2>. HIDE DEF it
  <2>3. e[0] = <<>> /\ e = [k \in 0..n |-> e[k]]
    BY <2>1
  <2>4. \A k \in 1..n : e[k] = Step(k, it[k - 1])
    BY <1>2
  <2>. HIDE DEF e, Step
  <2>. QED  BY <2>2, <2>3, <2>4
<1>9. it \in [0..n -> Seq(R)]
  <2>. HIDE DEF it, Step
  <2>. DEFINE T == {k \in 0..n : it[k] \in Seq(R)}
  <2>1. 0 \in T /\ \A k \in 1..n : k - 1 \in T => k \in T
    BY <1>2, <1>3, <1>8
  <2>2. 0..n \subseteq T
    <3>. HIDE DEF T
    <3>. QED  BY <1>2, <2>1, StepsReach
  <2>. QED  BY <1>8, <2>2
<1>. HIDE DEF it
<1>. QED  BY <1>1, <1>8, <1>9 DEF n

-----------------------------------------------------------------------------
(***************************************************************************)
(* The campaign.  At any point of it the file or memory is what the        *)
(* campaign gives up to there: `Taken` tables, of the last of them `Done`  *)
(* rows.                                                                   *)
(***************************************************************************)
Taken == Len(Frozen) - Len(task.rest)
TakenRows == Rows[Frozen[Taken]]
Done == Len(TakenRows) - Len(todo)
CampaignMemory(k) ==
  Adding(Campaign[k - 1], Rows[Frozen[k]], NamedAs[Frozen[k]], "campaign-frozen")

CampaignInv ==
  task.all =>
    /\ Taken \in 0..Len(Frozen) /\ task.at = "campaign-frozen"
    /\ \A i \in DOMAIN task.rest : task.rest[i] = Frozen[Taken + i]
    /\ pc = "next" => file.rows = Campaign[Taken]
    /\ pc = "merge" =>
         /\ Taken > 0 /\ task.revision = NamedAs[Frozen[Taken]]
         /\ Done \in 0..Len(TakenRows)
         /\ \A i \in DOMAIN todo : todo[i] = TakenRows[Done + i]
         /\ db = CampaignMemory(Taken)[Done]
    /\ pc = "write" => Taken > 0 /\ db = Campaign[Taken] /\ file = Holding(file.rows)
    /\ FrozenIsReproducible

LEMMA CampaignSteps ==
  ASSUME NEW k \in 1..Len(Frozen), NEW table, table = Rows[Frozen[k]]
  PROVE  /\ CampaignMemory(k)[0] = Campaign[k - 1]
         /\ \A i \in 1..Len(table) :
              CampaignMemory(k)[i] =
                IF Skipped(table[i]) THEN CampaignMemory(k)[i - 1]
                ELSE Upsert(CampaignMemory(k)[i - 1],
                            Normalize(table[i], NamedAs[Frozen[k]], "campaign-frozen"))
         /\ CampaignMemory(k)[Len(table)] = Campaign[k]
<1>1. Len(Frozen) \in Nat /\ Frozen[k] \in Sources
  <2>1. Frozen \in Seq(Sources)
    BY CampaignIsNamed
  <2>. QED  BY <2>1
<1>2. Campaign[k - 1] \in Seq(CampaignRecords)
  BY <1>1, CampaignUnfolds
<1>3. Len(table) \in Nat
  BY <1>1, TablesAreLists
<1>4. \A i \in 1..Len(table) :
        Normalize(table[i], NamedAs[Frozen[k]], "campaign-frozen") \in CampaignRecords
  BY <1>1, <1>2, AddedIsList
<1>. DEFINE G == CampaignMemory(k)
<1>5. /\ G[0] = Campaign[k - 1]
      /\ \A i \in 1..Len(table) :
           G[i] = IF Skipped(table[i]) THEN G[i - 1]
                  ELSE Upsert(G[i - 1], Normalize(table[i], NamedAs[Frozen[k]], "campaign-frozen"))
  <2>. DEFINE m == Len(table)
  <2>1. m = Len(table)
    OBVIOUS
  <2>2. G = Adding(Campaign[k - 1], table, NamedAs[Frozen[k]], "campaign-frozen")
    BY DEF CampaignMemory
  <2>. DEFINE b == Campaign[k - 1]
              revision == NamedAs[Frozen[k]]
              at == "campaign-frozen"
              R == CampaignRecords
  <2>3. m \in Nat /\ b \in Seq(R) /\ \A i \in 1..m : Normalize(table[i], revision, at) \in R
    BY <1>2, <1>3, <1>4
  <2>4. G = Adding(b, table, revision, at)
    BY <2>2
  <2>5. G[0] = b /\ \A i \in 1..m :
          G[i] = IF Skipped(table[i]) THEN G[i - 1]
                 ELSE Upsert(G[i - 1], Normalize(table[i], revision, at))
    <3>. HIDE DEF m, G, b, revision, at, R
    <3>1. Adds(Adding(b, table, revision, at), m, b, table, revision, at)
      BY <2>1, <2>3, AddingUnfolds, Zenon
    <3>. QED  BY <2>4, <3>1 DEF Adds
  <2>. QED  BY <2>1, <2>5
<1>6. G[Len(table)] = Campaign[k]
  BY CampaignUnfolds DEF Added, CampaignMemory
<1>. QED  BY <1>5, <1>6

LEMMA CampaignInvStep == StoreInv /\ CampaignInv /\ [Next]_vars => CampaignInv'
<1>. SUFFICES ASSUME StoreInv, CampaignInv, [Next]_vars, task'.all  PROVE  CampaignInv'
  BY DEF CampaignInv
<1>0. /\ task = [all |-> task.all, revision |-> task.revision, at |-> task.at, rest |-> task.rest]
      /\ task.rest \in Seq(Sources) /\ todo \in Seq(TableRows)
  BY DEF StoreInv
<1>. DEFINE n == Len(Frozen)
<1>00. n \in Nat /\ Frozen \in Seq(Sources)
  <2>1. Frozen \in Seq(Sources)
    BY CampaignIsNamed
  <2>. QED  BY <2>1
<1>1. ASSUME NEW s \in Sources, NEW given \in Revisions, Ingest(s, given) PROVE CampaignInv'
  <2>1. task'.all = FALSE
    BY <1>1 DEF Ingest
  <2>. QED  BY <2>1
<1>2. CASE IngestAllFrozen
  <2>1. /\ pc' = "next" /\ task'.rest = Frozen /\ file'.rows = <<>>
        /\ task'.at = "campaign-frozen"
    BY <1>2 DEF IngestAllFrozen, FrozenTask, Absent
  <2>2. Taken' = 0
    BY <1>00, <2>1 DEF Taken
  <2>3. \A i \in DOMAIN Frozen : Frozen[i] = Frozen[0 + i]
    BY <1>00
  <2>. QED  BY <1>00, <2>1, <2>2, <2>3, CampaignUnfolds DEF CampaignInv, FrozenIsReproducible
<1>3. CASE NextTable
  <2>. DEFINE rest == task.rest
  <2>1. /\ pc = "next" /\ pc' = "merge" /\ db' = file.rows /\ todo' = Rows[Head(rest)]
        /\ task'.rest = Tail(rest) /\ task'.revision = NamedAs[Head(rest)]
        /\ task'.at = task.at /\ task'.all = task.all
    BY <1>0, <1>3 DEF NextTable, Start
  <2>2. rest \in Seq(Sources) \ {<<>>}
    BY <1>0, <2>1 DEF StoreInv
  <2>3. /\ Taken \in 0..n /\ \A i \in DOMAIN rest : rest[i] = Frozen[Taken + i]
        /\ file.rows = Campaign[Taken]
    BY <2>1 DEF CampaignInv
  <2>. HIDE DEF rest
  <2>4. /\ Head(rest) = rest[1] /\ 1 \in DOMAIN rest /\ Tail(rest) \in Seq(Sources)
        /\ \A i \in DOMAIN Tail(rest) : i + 1 \in DOMAIN rest /\ Tail(rest)[i] = rest[i + 1]
        /\ Len(Tail(rest)) = Len(rest) - 1 /\ Len(rest) \in Nat /\ Len(rest) >= 1
        /\ DOMAIN Tail(rest) = 1..Len(Tail(rest))
    BY <2>2
  <2>5. Taken' = Taken + 1 /\ Taken = n - Len(rest) /\ Taken' \in 1..n
    <3>1. Taken = n - Len(rest)
      BY DEF Taken, rest
    <3>2. Taken' = n - Len(Tail(rest))
      BY <2>1 DEF Taken
    <3>3. Len(Tail(rest)) = Len(rest) - 1 /\ Len(rest) \in Nat /\ Len(rest) >= 1 /\ n \in Nat
      BY <1>00, <2>4
    <3>. HIDE DEF n
    <3>4. Taken' = Taken + 1
      <4>. DEFINE a == Len(rest)  b == Len(Tail(rest))
      <4>1. Taken = n - a /\ Taken' = n - b /\ b = a - 1 /\ a \in Nat /\ n \in Nat
        BY <3>1, <3>2, <3>3
      <4>. HIDE DEF a, b
      <4>. QED  BY <4>1
    <3>5. Taken + 1 <= n /\ Taken \in Nat
      BY <2>3, <3>1, <3>3
    <3>. QED  BY <3>1, <3>3, <3>4, <3>5
  <2>6. Head(rest) = Frozen[Taken']
    BY <2>3, <2>4, <2>5
  <2>7. \A i \in DOMAIN Tail(rest) : Tail(rest)[i] = Frozen[Taken' + i]
    <3>. SUFFICES ASSUME NEW i \in DOMAIN Tail(rest)  PROVE Tail(rest)[i] = Frozen[Taken' + i]
      OBVIOUS
    <3>1. i + 1 \in DOMAIN rest /\ Tail(rest)[i] = rest[i + 1] /\ i \in Nat
      BY <2>4
    <3>2. Taken + (i + 1) = Taken' + i
      BY <2>3, <2>5, <3>1
    <3>. QED  BY <2>3, <3>1, <3>2
  <2>. QED
    <3>. DEFINE t == Rows[Frozen[Taken']]
    <3>1. Frozen[Taken'] \in Sources
      BY <1>00, <2>5
    <3>2. t \in Seq(TableRows)
      BY <3>1, TablesAreLists
    <3>3. TakenRows' = t /\ todo' = t
      BY <2>1, <2>6 DEF TakenRows
    <3>4. Done' = 0 /\ Len(t) \in Nat
      BY <3>2, <3>3 DEF Done
    <3>5. \A i \in DOMAIN t : t[i] = t[0 + i]
      BY <3>2
    <3>6. db' = CampaignMemory(Taken)'[0]
      <4>1. CampaignMemory(Taken)' = CampaignMemory(Taken')
        BY DEF CampaignMemory, Campaign, Adding
      <4>2. CampaignMemory(Taken')[0] = Campaign[Taken' - 1] /\ Taken' - 1 = Taken
        BY <2>3, <2>5, CampaignSteps
      <4>. QED  BY <2>1, <2>3, <4>1, <4>2
    <3>7. task.at = "campaign-frozen"
      BY <2>1 DEF CampaignInv
    <3>. QED  BY <2>1, <2>5, <2>6, <2>7, <3>3, <3>4, <3>5, <3>6, <3>7 DEF CampaignInv, FrozenIsReproducible
<1>4. CASE TableMissing \/ AddCollision \/ Crash
  <2>1. pc' = "idle" /\ code' # 0 /\ task' = task
    BY <1>4 DEF TableMissing, AddCollision, Crash, End
  <2>. QED  BY <2>1 DEF CampaignInv, FrozenIsReproducible, Taken
<1>. DEFINE k == Taken
            t == TakenRows
            d == Done
            next == Normalize(Head(todo), task.revision, task.at)
<1>5. ASSUME pc = "merge", task.all
      PROVE  /\ k \in 1..n /\ t = Rows[Frozen[k]] /\ t \in Seq(TableRows) /\ Len(t) \in Nat
             /\ Len(todo) \in Nat /\ DOMAIN todo = 1..Len(todo)
             /\ d = Len(t) - Len(todo) /\ d \in 0..Len(t)
             /\ \A i \in DOMAIN todo : todo[i] = t[d + i]
             /\ db = CampaignMemory(k)[d] /\ task.revision = NamedAs[Frozen[k]]
             /\ task.at = "campaign-frozen"
  <2>1. k \in 1..n /\ t = Rows[Frozen[k]] /\ task.revision = NamedAs[Frozen[k]]
    BY <1>00, <1>5 DEF CampaignInv, TakenRows
  <2>2. t \in Seq(TableRows)
    BY <1>00, <2>1, TablesAreLists
  <2>3. Len(t) \in Nat /\ Len(todo) \in Nat /\ DOMAIN todo = 1..Len(todo)
    BY <1>0, <2>2
  <2>. QED  BY <1>5, <2>1, <2>2, <2>3 DEF CampaignInv, Done
<1>6. CASE AddRow \/ SkipRow
  <2>1. /\ pc = "merge" /\ pc' = "merge" /\ task' = task /\ todo # <<>> /\ todo' = Tail(todo)
        /\ db' = IF Skipped(Head(todo)) THEN db ELSE Upsert(db, next)
    BY <1>6 DEF AddRow, SkipRow
  <2>2. /\ k \in 1..n /\ t = Rows[Frozen[k]] /\ Len(t) \in Nat /\ Len(todo) \in Nat
        /\ d = Len(t) - Len(todo) /\ d \in 0..Len(t)
        /\ \A i \in DOMAIN todo : todo[i] = t[d + i]
        /\ db = CampaignMemory(k)[d] /\ task.revision = NamedAs[Frozen[k]]
        /\ task.at = "campaign-frozen"
    BY <1>5, <2>1
  <2>3. k' = k /\ t' = t /\ CampaignMemory(k)' = CampaignMemory(k)
    BY <2>1 DEF Taken, TakenRows, CampaignMemory, Campaign, Adding
  <2>4. /\ Head(todo) = todo[1] /\ 1 \in DOMAIN todo /\ Len(todo) >= 1
        /\ Len(Tail(todo)) = Len(todo) - 1
        /\ \A i \in DOMAIN Tail(todo) : i \in Nat /\ i + 1 \in DOMAIN todo /\ Tail(todo)[i] = todo[i + 1]
    BY <1>0, <2>1
  <2>5. d' = d + 1 /\ d + 1 \in 1..Len(t) /\ (d + 1) - 1 = d
    <3>1. d' = Len(t) - (Len(todo) - 1)
      BY <2>1, <2>3, <2>4 DEF Done
    <3>. HIDE DEF d, t
    <3>. QED  BY <2>2, <2>4, <3>1
  <2>6. Head(todo) = t[d + 1]
    BY <2>2, <2>4
  <2>7. \A i \in DOMAIN Tail(todo) : Tail(todo)[i] = t[(d + 1) + i]
    <3>. SUFFICES ASSUME NEW i \in DOMAIN Tail(todo)  PROVE Tail(todo)[i] = t[(d + 1) + i]
      OBVIOUS
    <3>. HIDE DEF d, t
    <3>1. i \in Nat /\ i + 1 \in DOMAIN todo /\ Tail(todo)[i] = todo[i + 1]
      BY <2>4
    <3>2. d \in Nat
      BY <2>2
    <3>3. d + (i + 1) = (d + 1) + i
      BY <3>1, <3>2
    <3>4. todo[i + 1] = t[d + (i + 1)]
      BY <2>2, <3>1
    <3>. QED  BY <3>1, <3>3, <3>4
  <2>8. db' = CampaignMemory(k)[d + 1]
    <3>1. CampaignMemory(k)[d + 1] =
            IF Skipped(t[d + 1]) THEN CampaignMemory(k)[d]
            ELSE Upsert(CampaignMemory(k)[d], Normalize(t[d + 1], NamedAs[Frozen[k]], "campaign-frozen"))
      <4>1. \A i \in 1..Len(t) :
              CampaignMemory(k)[i] =
                IF Skipped(t[i]) THEN CampaignMemory(k)[i - 1]
                ELSE Upsert(CampaignMemory(k)[i - 1],
                            Normalize(t[i], NamedAs[Frozen[k]], "campaign-frozen"))
        <5>1. k \in 1..Len(Frozen) /\ t = Rows[Frozen[k]]
          BY <2>2
        <5>. HIDE DEF k, t
        <5>. QED  BY <5>1, CampaignSteps
      <4>. HIDE DEF k, t, d
      <4>. QED  BY <2>5, <4>1
    <3>. QED  BY <2>1, <2>2, <2>6, <3>1
  <2>. QED
    <3>1. /\ Taken' \in 0..n /\ Taken' > 0
          /\ \A i \in DOMAIN task'.rest : task'.rest[i] = Frozen[Taken' + i]
      BY <2>1, <2>2, <2>3 DEF CampaignInv
    <3>2. Done' \in 0..Len(TakenRows')
      BY <2>2, <2>3, <2>5
    <3>. QED  BY <2>1, <2>2, <2>3, <2>5, <2>7, <2>8, <3>1, <3>2 DEF CampaignInv, FrozenIsReproducible
<1>7. CASE Open
  <2>1. pc = "merge" /\ pc' = "write" /\ db' = db /\ task' = task /\ todo = <<>> /\ file' = Holding(<<>>)
    BY <1>7 DEF Open
  <2>2. d = Len(t)
    BY <1>5, <2>1
  <2>3. db = Campaign[k]
    BY <1>5, <2>1, <2>2, CampaignSteps
  <2>4. file' = Holding(file'.rows)
    BY <2>1 DEF Holding
  <2>. QED  BY <1>5, <2>1, <2>3, <2>4 DEF CampaignInv, FrozenIsReproducible, Taken
<1>8. CASE WriteRow
  <2>1. pc = "write" /\ pc' = "write" /\ UNCHANGED <<db, task>> /\ file' = Holding(file'.rows)
    BY <1>8 DEF WriteRow, Holding
  <2>. QED  BY <2>1 DEF CampaignInv, FrozenIsReproducible, Taken
<1>9. CASE Close
  <2>1. /\ pc = "write" /\ Len(file.rows) = Len(db) /\ UNCHANGED <<file, task>>
        /\ \/ pc' = "idle" /\ task.rest = <<>>
           \/ pc' = "next"
    BY <1>9 DEF Close, End
  <2>2. /\ k > 0 /\ k \in 0..n /\ db = Campaign[k] /\ file = Holding(file.rows)
        /\ \A i \in DOMAIN task.rest : task.rest[i] = Frozen[k + i]
        /\ task.at = "campaign-frozen"
    BY <2>1 DEF CampaignInv
  <2>3. file.rows = db
    <3>1. Keyed(db) /\ Keyed(file.rows) /\ Begins(file.rows, db)
      BY <2>1 DEF StoreInv
    <3>. QED  BY <2>1, <3>1, KeyedPositions DEF Keyed, Begins
  <2>4. task.rest = <<>> => k = n
    BY <1>00 DEF Taken
  <2>. QED  BY <2>1, <2>2, <2>3, <2>4 DEF CampaignInv, FrozenIsReproducible, CampaignRows, Taken
<1>10. CASE UNCHANGED vars
  <2>1. UNCHANGED <<file, pc, db, todo, task, code>>
    BY <1>10 DEF vars
  <2>2. Taken' = Taken /\ TakenRows' = TakenRows /\ Done' = Done
        /\ CampaignMemory(Taken)' = CampaignMemory(Taken)
    BY <2>1 DEF Taken, TakenRows, Done, CampaignMemory, Campaign, Adding
  <2>. QED  BY <2>1, <2>2 DEF CampaignInv, FrozenIsReproducible
<1>. QED  BY <1>1, <1>2, <1>3, <1>4, <1>6, <1>7, <1>8, <1>9, <1>10 DEF Next

\* The campaign, once ingested, is what its tables give and nothing else: what
\* the file held before, and commands that stopped short, leave no trace.
THEOREM FrozenStaysReproducible == Spec => []FrozenIsReproducible
<1>1. Init => CampaignInv
  <2>. SUFFICES ASSUME Init, task.all PROVE FALSE
    BY DEF CampaignInv
  <2>1. task = NoTask
    BY DEF Init
  <2>2. NoTask.all = FALSE
    BY DEF NoTask
  <2>. QED  BY <2>1, <2>2
<1>2. CampaignInv => FrozenIsReproducible
  BY DEF CampaignInv, FrozenIsReproducible
<1>. QED  BY <1>1, <1>2, StoreInvInit, StoreInvStep, CampaignInvStep, PTL DEF Spec

-----------------------------------------------------------------------------
(***************************************************************************)
(* Export and query.                                                       *)
(***************************************************************************)

(***************************************************************************)
(* Rows of new identities are all added, in their order.                   *)
(***************************************************************************)
AllNew(rows, records, n) ==
  /\ \A i \in 1..n, k \in DOMAIN rows : EvidenceId(rows[k]) # EvidenceId(records[i])
  /\ \A i, j \in 1..n : i # j => EvidenceId(records[i]) # EvidenceId(records[j])

Extends(more, rows, records, L, n) ==
  /\ Len(more) = L + n
  /\ \A k \in 1..L : more[k] = rows[k]
  /\ \A i \in 1..n : more[L + i] = records[i]

\* One row of a new identity.
LEMMA ExtendsByOne ==
  ASSUME NEW R, NEW rows \in Seq(R), NEW L \in Nat, L = Len(rows), NEW n \in Nat \ {0},
         NEW records, AllNew(rows, records, n), records[n] \in R, NEW memory \in Seq(R),
         Extends(memory, rows, records, L, n - 1)
  PROVE  Extends(Upsert(memory, records[n]), rows, records, L, n)
<1>. DEFINE rec == records[n]
            l == L + (n - 1)
            more == Append(memory, rec)
<1>1. /\ l \in Nat /\ L + n = l + 1 /\ DOMAIN rows = 1..L /\ DOMAIN memory = 1..l
      /\ Len(memory) = l
  BY DEF Extends
<1>2. \A k \in 1..l : k \in 1..L \/ (k - L \in 1..(n - 1) /\ k = L + (k - L))
  BY <1>1
<1>3. \A k \in 1..l : EvidenceId(memory[k]) # EvidenceId(rec)
  <2>. SUFFICES ASSUME NEW k \in 1..l  PROVE EvidenceId(memory[k]) # EvidenceId(rec)
    OBVIOUS
  <2>1. CASE k \in 1..L
    <3>1. memory[k] = rows[k] /\ k \in DOMAIN rows /\ n \in 1..n
      BY <1>1, <2>1 DEF Extends
    <3>. QED  BY <3>1 DEF AllNew
  <2>2. CASE k \notin 1..L
    <3>. DEFINE i == k - L
    <3>1. i \in 1..(n - 1) /\ k = L + i
      BY <1>2, <2>2
    <3>. HIDE DEF i
    <3>2. i \in 1..n /\ n \in 1..n /\ i # n
      BY <3>1
    <3>3. memory[k] = records[i]
      BY <3>1 DEF Extends
    <3>. QED  BY <3>2, <3>3 DEF AllNew
  <2>. QED  BY <2>1, <2>2
<1>4. Upsert(memory, rec) = more
  BY <1>1, <1>3 DEF Upsert, IsNoop, SameId
<1>. HIDE DEF l
<1>5. /\ Len(more) = l + 1 /\ more[l + 1] = rec
      /\ \A k \in 1..l : more[k] = memory[k]
  BY <1>1
<1>. HIDE DEF more
<1>6. \A k \in 1..L : k \in 1..l
  BY <1>1 DEF l
<1>7. \A i \in 1..n : (i \in 1..(n - 1) /\ L + i \in 1..l) \/ i = n
  BY <1>1 DEF l
<1>8. \A i \in 1..n : more[L + i] = records[i]
  BY <1>1, <1>5, <1>7 DEF Extends
<1>9. \A k \in 1..L : more[k] = rows[k]
  BY <1>5, <1>6 DEF Extends
<1>. QED  BY <1>1, <1>4, <1>5, <1>8, <1>9 DEF Extends

LEMMA AddedFresh ==
  ASSUME NEW R, NEW rows \in Seq(R), NEW L \in Nat, L = Len(rows),
         NEW table, NEW n \in Nat, n = Len(table), NEW revision, NEW at, NEW records,
         \A i \in 1..n : /\ ~Skipped(table[i]) /\ records[i] \in R
                         /\ records[i] = Normalize(table[i], revision, at),
         AllNew(rows, records, n)
  PROVE  /\ Added(rows, table, revision, at) \in Seq(R)
         /\ Extends(Added(rows, table, revision, at), rows, records, L, n)
<1>. DEFINE memory == Adding(rows, table, revision, at)
<1>1. memory \in [0..n -> Seq(R)] /\ Adds(memory, n, rows, table, revision, at)
  <2>1. \A i \in 1..n : Normalize(table[i], revision, at) \in R
    OBVIOUS
  <2>. QED  BY <2>1, AddingUnfolds, Zenon
<1>2. Added(rows, table, revision, at) = memory[n]
  BY DEF Added
<1>. HIDE DEF memory
<1>3. /\ memory[0] = rows
      /\ \A i \in 1..n : memory[i] = Upsert(memory[i - 1], records[i])
  BY <1>1 DEF Adds
<1>. DEFINE T == {k \in 0..n : Extends(memory[k], rows, records, L, k)}
<1>4. 0 \in T
  BY <1>3 DEF Extends
<1>5. ASSUME NEW k \in 1..n, k - 1 \in T  PROVE k \in T
  <2>1. k \in 0..n /\ k - 1 \in 0..n /\ k \in Nat \ {0} /\ records[k] \in R
    OBVIOUS
  <2>2. memory[k - 1] \in Seq(R) /\ Extends(memory[k - 1], rows, records, L, k - 1)
    BY <1>1, <1>5, <2>1
  <2>3. AllNew(rows, records, k)
    <3>1. 1..k \subseteq 1..n
      OBVIOUS
    <3>. QED  BY <3>1 DEF AllNew
  <2>4. Extends(Upsert(memory[k - 1], records[k]), rows, records, L, k)
    BY <2>1, <2>2, <2>3, ExtendsByOne
  <2>. QED  BY <1>3, <2>1, <2>4
<1>6. 0..n \subseteq T
  <2>. HIDE DEF T
  <2>. QED  BY <1>4, <1>5, StepsReach
<1>7. n \in 0..n /\ n \in T
  BY <1>6
<1>. QED  BY <1>1, <1>2, <1>7

(***************************************************************************)
(* What is exported comes back.                                            *)
(***************************************************************************)
WellSourced(rec) == rec.candidate # "" /\ (RankingEligible(rec) => rec.source = "device-log")
Reingested(rec, new) == Normalize(Project(rec), new, "normalized-v1")

LEMMA NormalizedSound ==
  ASSUME NEW row, ~Skipped(row), NEW revision, NEW at
  PROVE  WellSourced(Normalize(row, revision, at))
<1>. DEFINE rec == Normalize(row, revision, at)
<1>1. rec.candidate = row.sig /\ row.sig # ""
  BY DEF Normalize, Skipped
<1>2. ASSUME RankingEligible(rec)  PROVE rec.source = "device-log"
  <2>1. rec.status = "measured"
    BY <1>2 DEF RankingEligible
  <2>2. StatusOf(row.measured, row.source) = "measured"
    BY <2>1 DEF Normalize
  <2>3. row.source = "device-log"
    BY <2>2 DEF StatusOf
  <2>. QED  BY <2>3 DEF Normalize
<1>. QED  BY <1>1, <1>2 DEF WellSourced

LEMMA ComesBack ==
  ASSUME NEW rec, RankingEligible(rec), WellSourced(rec), NEW new
  PROVE  /\ ~Skipped(Project(rec)) /\ RankingEligible(Reingested(rec, new))
         /\ Reingested(rec, new).profile = rec.profile
         /\ Reingested(rec, new).workload = rec.workload
         /\ Reingested(rec, new).candidate = rec.candidate
         /\ Reingested(rec, new).revision = new
         /\ Project(Reingested(rec, new)) = Project(rec)
<1>. DEFINE row == Project(rec)
            back == Reingested(rec, new)
<1>1. /\ row.schema = V1_SCHEMA /\ row.profile = rec.profile /\ row.workload = rec.workload
      /\ row.sig = rec.candidate /\ row.measured = "yes" /\ row.source = "device-log"
      /\ row.cost = <<rec.us>> /\ row.correctness = <<rec.correctness>>
      /\ row.note = "Projected" /\ rec.candidate # ""
      /\ row = [schema |-> V1_SCHEMA, profile |-> rec.profile, workload |-> rec.workload,
                sig |-> rec.candidate, measured |-> "yes", source |-> "device-log",
                cost |-> <<rec.us>>, correctness |-> <<rec.correctness>>, note |-> "Projected"]
  BY DEF Project, WellSourced
<1>2. rec.correctness = 1
  BY DEF RankingEligible
<1>. HIDE DEF row
<1>3. StatusOf("yes", "device-log") = "measured"
  BY DEF StatusOf
<1>4. NumberOr0(row.cost) = rec.us /\ NumberOr0(row.correctness) = 1
      /\ row.cost # <<>> /\ row.correctness # <<>>
  <2>1. \A v : <<v>> # <<>> /\ <<v>>[1] = v
    <3>. TAKE v
    <3>1. Len(<<v>>) = 1 /\ Len(<<>>) = 0
      OBVIOUS
    <3>. QED  BY <3>1
  <2>2. \A v : NumberOr0(<<v>>) = v
    BY <2>1 DEF NumberOr0
  <2>. HIDE DEF NumberOr0
  <2>. QED  BY <1>1, <1>2, <2>1, <2>2, Zenon
<1>5. /\ back.profile = rec.profile /\ back.workload = rec.workload
      /\ back.candidate = rec.candidate /\ back.revision = new
      /\ back.status = "measured" /\ back.correctness = 1 /\ back.us = rec.us
      /\ back.source = "device-log"
  <2>1. back = Normalize(row, new, "normalized-v1")
    BY DEF Reingested, row
  <2>. HIDE DEF back
  <2>. QED  BY <1>1, <1>3, <1>4, <2>1 DEF Normalize
<1>. HIDE DEF back
<1>6. RankingEligible(back)
  BY <1>5 DEF RankingEligible
<1>7. Project(back) = row
  BY <1>1, <1>2, <1>5, <1>6 DEF Project
<1>8. ~Skipped(row)
  BY <1>1 DEF Skipped
<1>. QED  BY <1>5, <1>6, <1>7, <1>8 DEF row, back

\* The slice of a revision, as an export has it.
Slice(rows, profile, workload, revision) ==
  Picked(rows, {i \in DOMAIN rows : InSlice(rows[i], profile, workload, revision)})

Answer(slice) == [code |-> 0, rows |-> [i \in DOMAIN slice |-> Project(slice[i])]]

LEMMA ExportUnfolds ==
  ASSUME NEW rows, NEW profile, NEW workload, NEW revision
  PROVE  /\ revision = "" => Export(rows, profile, workload, revision).code = 2
         /\ revision # "" /\ Ambiguous(rows, profile, workload, revision)
              => Export(rows, profile, workload, revision).code = 4
         /\ revision # "" /\ ~Ambiguous(rows, profile, workload, revision)
              => Export(rows, profile, workload, revision)
                   = Answer(Slice(rows, profile, workload, revision))
<1>. DEFINE export == Export(rows, profile, workload, revision)
            slice == Slice(rows, profile, workload, revision)
<1>1. export = IF revision = "" THEN [code |-> 2, rows |-> <<>>]
               ELSE IF Ambiguous(rows, profile, workload, revision)
                    THEN [code |-> 4, rows |-> <<>>]
               ELSE Answer(slice)
  BY Zenon DEF Export, Slice, Answer
<1>2. [code |-> 2, rows |-> <<>>].code = 2 /\ [code |-> 4, rows |-> <<>>].code = 4
  OBVIOUS
<1>. HIDE DEF export, slice
<1>3. revision = "" => export.code = 2
  BY <1>1, <1>2, Zenon
<1>4. revision # "" /\ Ambiguous(rows, profile, workload, revision) => export.code = 4
  BY <1>1, <1>2, Zenon
<1>5. revision # "" /\ ~Ambiguous(rows, profile, workload, revision) => export = Answer(slice)
  BY <1>1, Zenon
<1>. QED  BY <1>3, <1>4, <1>5, Zenon DEF export, slice

\* The slice has the records it should have, of each candidate one.
Sliced(slice, rows, profile, workload, revision) ==
  /\ slice \in Seq(ToSet(rows))
  /\ \A j \in 1..Len(slice) :
       InSlice(slice[j], profile, workload, revision) /\ slice[j] \in ToSet(rows)
  /\ \A i, j \in 1..Len(slice) : i # j => slice[i].candidate # slice[j].candidate
  /\ \A rec \in ToSet(rows) : InSlice(rec, profile, workload, revision) =>
       \E j \in 1..Len(slice) : slice[j] = rec

LEMMA SliceIsSelection ==
  ASSUME NEW rows, Keyed(rows), NEW profile, profile # "", NEW workload, workload # "",
         NEW revision, NEW slice, slice = Slice(rows, profile, workload, revision)
  PROVE  Sliced(slice, rows, profile, workload, revision)
<1>. DEFINE S == {i \in DOMAIN rows : InSlice(rows[i], profile, workload, revision)}
            R == ToSet(rows)
            n == Len(slice)
<1>1. slice = Picked(rows, S) /\ S \in SUBSET DOMAIN rows /\ rows \in Seq(R)
  BY DEF Slice, Keyed
<1>2. /\ \A i \in S : i \in DOMAIN rows /\ InSlice(rows[i], profile, workload, revision)
      /\ \A i \in DOMAIN rows : InSlice(rows[i], profile, workload, revision) => i \in S
      /\ \A i \in DOMAIN rows : rows[i] \in R
      /\ \A rec \in R : \E i \in DOMAIN rows : rows[i] = rec
  BY DEF ToSet
<1>. HIDE DEF S, R
<1>3. slice \in Seq(R) /\ \E pos : Selects(slice, pos, rows, S)
  <2>1. Picked(rows, S) \in Seq(R) /\ \E pos : Selects(Picked(rows, S), pos, rows, S)
    BY <1>1, PickedSelects
  <2>. QED  BY <1>1, <2>1
<1>4. PICK pos : Selects(slice, pos, rows, S)
  BY <1>3
<1>5. /\ \A j \in 1..n : pos[j] \in S /\ slice[j] = rows[pos[j]]
      /\ \A i, j \in 1..n : i # j => pos[i] # pos[j]
      /\ \A i \in S : \E j \in 1..n : pos[j] = i
  BY <1>4 DEF Selects
<1>. HIDE DEF n
<1>6. \A j \in 1..n : InSlice(slice[j], profile, workload, revision) /\ slice[j] \in R
  BY <1>2, <1>5
<1>7. ASSUME NEW i \in 1..n, NEW j \in 1..n, i # j, slice[i].candidate = slice[j].candidate
      PROVE  FALSE
  <2>1. EvidenceId(slice[i]) = EvidenceId(slice[j])
    BY <1>6, <1>7 DEF InSlice, Matches, EvidenceId
  <2>2. pos[i] = pos[j]
    <3>1. \A k, h \in DOMAIN rows : EvidenceId(rows[k]) = EvidenceId(rows[h]) => k = h
      BY DEF Keyed, CheckDb
    <3>2. pos[i] \in DOMAIN rows /\ pos[j] \in DOMAIN rows
      BY <1>2, <1>5
    <3>3. slice[i] = rows[pos[i]] /\ slice[j] = rows[pos[j]]
      BY <1>5
    <3>. QED  BY <2>1, <3>1, <3>2, <3>3
  <2>. QED  BY <1>5, <1>7, <2>2
<1>8. ASSUME NEW rec \in R, InSlice(rec, profile, workload, revision)
      PROVE  \E j \in 1..n : slice[j] = rec
  <2>1. PICK i \in DOMAIN rows : rows[i] = rec
    BY <1>2
  <2>2. i \in S
    BY <1>2, <1>8, <2>1
  <2>3. PICK j \in 1..n : pos[j] = i
    BY <1>5, <2>2
  <2>. QED  BY <1>5, <2>1, <2>3
<1>. QED  BY <1>3, <1>6, <1>7, <1>8 DEF n, R, Sliced

\* The slice of a revision that only the rows at the end have.
LEMMA SliceAtTheEnd ==
  ASSUME NEW R, NEW rows, NEW L \in Nat, NEW n \in Nat, NEW records, NEW again \in Seq(R),
         Extends(again, rows, records, L, n), NEW profile, NEW workload, NEW new,
         \A k \in 1..L : ~InSlice(rows[k], profile, workload, new),
         \A j \in 1..n : InSlice(records[j], profile, workload, new),
         \A i, j \in 1..n : i # j => records[i].candidate # records[j].candidate
  PROVE  /\ ~Ambiguous(again, profile, workload, new)
         /\ Slice(again, profile, workload, new) \in Seq(R)
         /\ Len(Slice(again, profile, workload, new)) = n
         /\ \A j \in 1..n : Slice(again, profile, workload, new)[j] = records[j]
<1>. DEFINE In(rec) == InSlice(rec, profile, workload, new)
            S == {k \in DOMAIN again : In(again[k])}
            N == Len(again)
<1>1. N = L + n /\ N \in Nat /\ DOMAIN again = 1..N /\ N = Len(again)
  BY DEF Extends
<1>. HIDE DEF N
<1>2. /\ \A k \in 1..L : again[k] = rows[k]
      /\ \A j \in 1..n : again[L + j] = records[j]
  BY DEF Extends
<1>3. /\ \A k \in 1..L : ~In(rows[k])
      /\ \A j \in 1..n : In(records[j])
      /\ \A i, j \in 1..n : i # j => records[i].candidate # records[j].candidate
  OBVIOUS
<1>4. \A k \in 1..N : k \in 1..L \/ (k - L \in 1..n /\ k = L + (k - L))
  BY <1>1
<1>5. Slice(again, profile, workload, new) = Picked(again, S)
  BY DEF Slice
<1>6. ASSUME NEW k \in DOMAIN again, NEW h \in 1..(k - 1), In(again[k]), In(again[h]),
             again[h].candidate = again[k].candidate
      PROVE  FALSE
  <2>1. k \in 1..N /\ h \in 1..N /\ h # k
    BY ONLY <1>1, k \in DOMAIN again, h \in 1..(k - 1)
  <2>. HIDE DEF In
  <2>2. k \notin 1..L /\ h \notin 1..L
    BY <1>2, <1>3, <1>6
  <2>. DEFINE i == k - L  j == h - L
  <2>3. i \in 1..n /\ j \in 1..n /\ k = L + i /\ h = L + j
    BY <1>4, <2>1, <2>2
  <2>. HIDE DEF i, j
  <2>4. i # j
    BY <2>1, <2>3
  <2>5. records[i].candidate = records[j].candidate
    BY <1>2, <1>6, <2>3
  <2>. QED  BY <1>3, <2>3, <2>4, <2>5
<1>7. ~Ambiguous(again, profile, workload, new)
  BY <1>6 DEF Ambiguous
<1>8. S = (L + 1)..N
  <2>. HIDE DEF In
  <2>1. \A k \in 1..N : In(again[k]) <=> k \notin 1..L
    <3>. SUFFICES ASSUME NEW k \in 1..N  PROVE In(again[k]) <=> k \notin 1..L
      OBVIOUS
    <3>1. CASE k \in 1..L
      BY <1>2, <1>3, <3>1
    <3>2. CASE k \notin 1..L
      <4>1. \E j \in 1..n : k = L + j
        BY <1>4, <3>2
      <4>. QED  BY <1>2, <1>3, <3>2, <4>1
    <3>. QED  BY <3>1, <3>2
  <2>2. \A k : k \in (L + 1)..N <=> k \in 1..N /\ k \notin 1..L
    BY <1>1
  <2>3. S = {k \in 1..N : In(again[k])}
    BY <1>1
  <2>. QED  BY <2>1, <2>2, <2>3
<1>. HIDE DEF S
<1>9. L \in 0..N /\ N - L = n
  BY <1>1
<1>10. /\ Picked(again, S) \in Seq(R) /\ Len(Picked(again, S)) = N - L
       /\ \A j \in 1..(N - L) : Picked(again, S)[j] = again[L + j]
  <2>1. L \in 0..Len(again) /\ S = (L + 1)..Len(again)
    BY <1>1, <1>8, <1>9
  <2>2. IsRest(Picked(again, S), R, again, L)
    BY <2>1, PickedFromOn
  <2>. QED  BY <1>1, <2>2 DEF IsRest
<1>. QED  BY <1>2, <1>5, <1>7, <1>9, <1>10

\* An export that is answered, and a revision that the store does not have.
Exported(export, rows, profile, workload, revision, new) ==
  /\ Keyed(rows) /\ \A rec \in ToSet(rows) : WellSourced(rec)
  /\ profile # "" /\ workload # "" /\ new # ""
  /\ \A rec \in ToSet(rows) : rec.revision # new
  /\ export = Export(rows, profile, workload, revision) /\ export.code = 0

LEMMA ExportComesBack ==
  ASSUME NEW rows, NEW profile, NEW workload, NEW revision, NEW new, NEW export,
         Exported(export, rows, profile, workload, revision, new)
  PROVE  Export(Added(rows, export.rows, new, "normalized-v1"), profile, workload, new) = export
<1>. DEFINE L == Len(rows)
            slice == Slice(rows, profile, workload, revision)
            n == Len(slice)
            exported == [j \in 1..n |-> Project(slice[j])]
            records == [j \in 1..n |-> Reingested(slice[j], new)]
            R == ToSet(rows) \cup {records[j] : j \in 1..n}
            again == Added(rows, exported, new, "normalized-v1")
<1>1. slice = Slice(rows, profile, workload, revision)
  OBVIOUS
<1>. HIDE DEF slice
<1>0. Keyed(rows) /\ profile # "" /\ workload # ""
  BY DEF Exported
<1>2. /\ slice \in Seq(ToSet(rows))
      /\ \A j \in 1..n :
           InSlice(slice[j], profile, workload, revision) /\ slice[j] \in ToSet(rows)
      /\ \A i, j \in 1..n : i # j => slice[i].candidate # slice[j].candidate
  <2>1. Sliced(slice, rows, profile, workload, revision)
    BY <1>0, <1>1, SliceIsSelection, Zenon
  <2>. QED  BY ONLY <2>1 DEF Sliced
<1>3. L \in Nat /\ L = Len(rows) /\ DOMAIN rows = 1..L /\ rows \in Seq(ToSet(rows))
  BY <1>0, KeyedPositions, Zenon DEF Keyed, L
<1>4. n \in Nat /\ DOMAIN slice = 1..n
  BY <1>2
<1>. HIDE DEF L, n
<1>5. export = [code |-> 0, rows |-> exported]
  <2>1. export = Export(rows, profile, workload, revision) /\ export.code = 0
    BY DEF Exported
  <2>2. exported = [i \in DOMAIN slice |-> Project(slice[i])]
    BY <1>4
  <2>3. revision # "" /\ ~Ambiguous(rows, profile, workload, revision)
    <3>1. 0 # 2 /\ 0 # 4
      OBVIOUS
    <3>. QED  BY <2>1, <3>1, ExportUnfolds, Zenon
  <2>4. export = Answer(slice)
    BY <1>1, <2>1, <2>3, ExportUnfolds, Zenon
  <2>. QED  BY <2>2, <2>4 DEF Answer
<1>6. \A j \in 1..n :
        /\ RankingEligible(slice[j]) /\ WellSourced(slice[j])
        /\ slice[j].profile = profile /\ slice[j].workload = workload
  BY <1>2 DEF InSlice, Matches, Exported
<1>7. /\ Len(exported) = n /\ exported = [j \in 1..n |-> exported[j]]
      /\ \A j \in 1..n : exported[j] = Project(slice[j]) /\ records[j] = Reingested(slice[j], new)
  BY <1>4
<1>. HIDE DEF exported, records
<1>8. \A j \in 1..n :
        /\ ~Skipped(exported[j]) /\ records[j] = Normalize(exported[j], new, "normalized-v1")
        /\ RankingEligible(records[j]) /\ records[j].revision = new
        /\ records[j].profile = profile /\ records[j].workload = workload
        /\ records[j].candidate = slice[j].candidate
        /\ Project(records[j]) = exported[j]
  <2>. SUFFICES ASSUME NEW j \in 1..n
                PROVE  /\ ~Skipped(exported[j])
                       /\ records[j] = Normalize(exported[j], new, "normalized-v1")
                       /\ RankingEligible(records[j]) /\ records[j].revision = new
                       /\ records[j].profile = profile /\ records[j].workload = workload
                       /\ records[j].candidate = slice[j].candidate
                       /\ Project(records[j]) = exported[j]
    OBVIOUS
  <2>1. /\ ~Skipped(Project(slice[j])) /\ RankingEligible(Reingested(slice[j], new))
        /\ Reingested(slice[j], new).profile = slice[j].profile
        /\ Reingested(slice[j], new).workload = slice[j].workload
        /\ Reingested(slice[j], new).candidate = slice[j].candidate
        /\ Reingested(slice[j], new).revision = new
        /\ Project(Reingested(slice[j], new)) = Project(slice[j])
    BY <1>6, ComesBack
  <2>2. records[j] = Normalize(exported[j], new, "normalized-v1")
    BY <1>7 DEF Reingested
  <2>. QED  BY <1>6, <1>7, <2>1, <2>2
<1>9. AllNew(rows, records, n)
  <2>1. \A i \in 1..n, k \in DOMAIN rows : EvidenceId(rows[k]) # EvidenceId(records[i])
    <3>1. \A k \in DOMAIN rows : rows[k].revision # new
      BY DEF ToSet, Exported
    <3>. QED  BY <1>8, <3>1 DEF EvidenceId
  <2>2. \A i, j \in 1..n : i # j => EvidenceId(records[i]) # EvidenceId(records[j])
    BY <1>2, <1>8 DEF EvidenceId
  <2>. QED  BY <2>1, <2>2 DEF AllNew
<1>10. again \in Seq(R) /\ Extends(again, rows, records, L, n)
  <2>1. rows \in Seq(R) /\ \A j \in 1..n : records[j] \in R
    BY <1>3
  <2>2. \A j \in 1..n : /\ ~Skipped(exported[j]) /\ records[j] \in R
                        /\ records[j] = Normalize(exported[j], new, "normalized-v1")
    BY <1>8, <2>1
  <2>. DEFINE at == "normalized-v1"
  <2>. HIDE DEF R, at
  <2>3. \A j \in 1..n : /\ ~Skipped(exported[j]) /\ records[j] \in R
                        /\ records[j] = Normalize(exported[j], new, at)
    BY <2>2 DEF at
  <2>4. /\ Added(rows, exported, new, at) \in Seq(R)
        /\ Extends(Added(rows, exported, new, at), rows, records, L, n)
    BY <1>3, <1>4, <1>7, <1>9, <2>1, <2>3, AddedFresh
  <2>. QED  BY <2>4 DEF at
<1>. HIDE DEF R, again
<1>11. /\ \A k \in 1..L : ~InSlice(rows[k], profile, workload, new)
       /\ \A j \in 1..n : InSlice(records[j], profile, workload, new)
       /\ \A i, j \in 1..n : i # j => records[i].candidate # records[j].candidate
  <2>1. \A k \in 1..L : rows[k].revision # new
    BY <1>3 DEF ToSet, Exported
  <2>2. \A k \in 1..L : ~InSlice(rows[k], profile, workload, new)
    BY <2>1 DEF InSlice
  <2>3. \A j \in 1..n : InSlice(records[j], profile, workload, new)
    BY <1>8 DEF InSlice, Matches
  <2>4. \A i, j \in 1..n : i # j => records[i].candidate # records[j].candidate
    <3>1. \A j \in 1..n : records[j].candidate = slice[j].candidate
      BY <1>8
    <3>. QED  BY <1>2, <3>1
  <2>. QED  BY <2>2, <2>3, <2>4
<1>. DEFINE slice2 == Slice(again, profile, workload, new)
<1>12. /\ ~Ambiguous(again, profile, workload, new)
       /\ slice2 \in Seq(R) /\ Len(slice2) = n /\ \A j \in 1..n : slice2[j] = records[j]
  <2>1. again \in Seq(R) /\ Extends(again, rows, records, L, n)
    BY <1>10
  <2>. HIDE DEF R
  <2>. QED  BY <1>3, <1>4, <1>11, <2>1, SliceAtTheEnd
<1>13. Export(again, profile, workload, new) = Answer(slice2)
  <2>1. slice2 = Slice(again, profile, workload, new) /\ new # ""
    BY DEF Exported
  <2>. HIDE DEF slice2
  <2>2. ~Ambiguous(again, profile, workload, new)
    BY <1>12
  <2>. QED  BY <2>1, <2>2, ExportUnfolds, Zenon
<1>. HIDE DEF slice2
<1>14. [j \in DOMAIN slice2 |-> Project(slice2[j])] = exported
  <2>1. DOMAIN slice2 = 1..n
    BY <1>4, <1>12
  <2>2. \A j \in 1..n : Project(slice2[j]) = exported[j]
    BY <1>8, <1>12
  <2>. QED  BY <1>7, <2>1, <2>2
<1>15. Export(again, profile, workload, new) = export
  BY <1>5, <1>13, <1>14 DEF Answer
<1>. QED
  <2>1. export.rows = exported
    BY <1>5
  <2>. QED  BY <1>15, <2>1 DEF again

\* A query of one identity says "yes" when the file has a record of it that ranks.
LEMMA QueryFinds ==
  ASSUME NEW rows, Keyed(rows), NEW profile, NEW workload, NEW candidate, NEW revision
  PROVE  Query(rows, profile, workload, candidate, revision)[1] = "yes" <=>
           \E row \in ToSet(rows) :
             /\ Matches(profile, row.profile) /\ Matches(workload, row.workload)
             /\ Matches(candidate, row.candidate) /\ Matches(revision, row.revision)
             /\ RankingEligible(row)
<1>. DEFINE Hit(row) == /\ Matches(profile, row.profile) /\ Matches(workload, row.workload)
                        /\ Matches(candidate, row.candidate) /\ Matches(revision, row.revision)
            H == {i \in DOMAIN rows : Hit(rows[i])}
            hits == Hits(rows, profile, workload, candidate, revision)
            E == {i \in DOMAIN hits : RankingEligible(hits[i])}
            eligible == Picked(hits, E)
            R == ToSet(rows)
<1>1. rows \in Seq(R) /\ hits = Picked(rows, H) /\ H \in SUBSET DOMAIN rows
  BY DEF Keyed, Hits
<1>2. /\ \A i \in H : i \in DOMAIN rows /\ Hit(rows[i])
      /\ \A i \in DOMAIN rows : Hit(rows[i]) => i \in H
      /\ \A i \in DOMAIN rows : rows[i] \in R
      /\ \A row \in R : \E i \in DOMAIN rows : rows[i] = row
  BY DEF ToSet
<1>3. Query(rows, profile, workload, candidate, revision) =
        IF eligible # <<>> THEN <<"yes", Last(eligible).status>>
        ELSE IF hits # <<>> THEN <<"no", Last(hits).status>> ELSE <<"no", "absent">>
  BY Zenon DEF Query
<1>. HIDE DEF hits, H, R
<1>4. hits \in Seq(R) /\ \E pos : Selects(hits, pos, rows, H)
  <2>1. Picked(rows, H) \in Seq(R) /\ \E pos : Selects(Picked(rows, H), pos, rows, H)
    BY <1>1, PickedSelects
  <2>. QED  BY <1>1, <2>1
<1>5. E \in SUBSET DOMAIN hits /\ \A i \in DOMAIN hits : RankingEligible(hits[i]) <=> i \in E
  OBVIOUS
<1>. HIDE DEF E
<1>6. eligible \in Seq(R) /\ \E pos : Selects(eligible, pos, hits, E)
  BY <1>4, <1>5, PickedSelects
<1>. HIDE DEF eligible
<1>7. eligible # <<>> <=> E # {}
  <2>1. PICK pos : Selects(eligible, pos, hits, E)
    BY <1>6
  <2>. DEFINE n == Len(eligible)
  <2>2. n \in Nat /\ (eligible # <<>> <=> n # 0)
    BY <1>6
  <2>3. \A j \in 1..n : pos[j] \in E
    BY <2>1 DEF Selects
  <2>4. \A i \in E : \E j \in 1..n : pos[j] = i
    BY <2>1 DEF Selects
  <2>. HIDE DEF n
  <2>5. n # 0 => 1 \in 1..n
    BY <2>2
  <2>6. n = 0 => 1..n = {}
    OBVIOUS
  <2>. QED  BY <2>2, <2>3, <2>4, <2>5, <2>6
<1>8. E # {} <=> \E row \in R : Hit(row) /\ RankingEligible(row)
  <2>1. PICK pos : Selects(hits, pos, rows, H)
    BY <1>4
  <2>2. /\ DOMAIN hits = 1..Len(hits)
        /\ \A j \in 1..Len(hits) : pos[j] \in H /\ hits[j] = rows[pos[j]]
        /\ \A i \in H : \E j \in 1..Len(hits) : pos[j] = i
    BY <1>4, <2>1 DEF Selects
  <2>. HIDE DEF Hit
  <2>3. ASSUME NEW j \in E  PROVE \E row \in R : Hit(row) /\ RankingEligible(row)
    BY <1>2, <1>5, <2>2
  <2>4. ASSUME NEW row \in R, Hit(row), RankingEligible(row)  PROVE E # {}
    <3>1. PICK i \in DOMAIN rows : rows[i] = row
      BY <1>2
    <3>2. i \in H
      BY <1>2, <2>4, <3>1
    <3>3. PICK j \in 1..Len(hits) : pos[j] = i
      BY <2>2, <3>2
    <3>4. j \in DOMAIN hits /\ hits[j] = row
      BY <2>2, <3>1, <3>3
    <3>. QED  BY <1>5, <2>4, <3>4
  <2>. QED  BY <2>3, <2>4
<1>9. \A v : <<"yes", v>>[1] = "yes" /\ <<"no", v>>[1] = "no"
  OBVIOUS
<1>10. Query(rows, profile, workload, candidate, revision)[1] = "yes" <=> eligible # <<>>
  <2>1. "yes" # "no"
    OBVIOUS
  <2>2. CASE eligible # <<>>
    BY <1>3, <1>9, <2>2, Zenon
  <2>3. CASE eligible = <<>>
    <3>1. Query(rows, profile, workload, candidate, revision)[1] = "no"
      BY <1>3, <1>9, <2>3, Zenon
    <3>. QED  BY <2>1, <2>3, <3>1
  <2>. QED  BY <2>2, <2>3
<1>. QED  BY <1>7, <1>8, <1>10 DEF R

\* The query agrees with the export.
LEMMA QueryAgrees ==
  ASSUME NEW rows, Keyed(rows), NEW rec \in ToSet(rows), WellSourced(rec),
         NEW export, export = Export(rows, rec.profile, rec.workload, rec.revision)
  PROVE  Query(rows, rec.profile, rec.workload, rec.candidate, rec.revision)[1] = "yes"
           <=> \E i \in DOMAIN export.rows : export.rows[i].sig = rec.candidate
<1>. DEFINE p == rec.profile  w == rec.workload  c == rec.candidate  r == rec.revision
            slice == Slice(rows, p, w, r)
            rowsOut == [i \in DOMAIN slice |-> Project(slice[i])]
<1>1. p # "" /\ w # "" /\ c # "" /\ r # ""
  BY DEF Keyed, ToSet, Named, WellSourced
<1>2. export.code = 0
  BY OwnExportIsAnswered
<1>. HIDE DEF p, w, c, r
<1>3. Export(rows, p, w, r) = Answer(slice)
  <2>1. Export(rows, p, w, r).code = 0
    BY <1>2 DEF p, w, r
  <2>2. 0 # 4
    OBVIOUS
  <2>. QED  BY <1>1, <2>1, <2>2, ExportUnfolds, Zenon
<1>4. Sliced(slice, rows, p, w, r)
  BY <1>1, SliceIsSelection, Zenon
<1>. HIDE DEF slice
<1>5. export.rows = rowsOut
  BY <1>3 DEF Answer, p, w, r
<1>6. DOMAIN slice = 1..Len(slice)
  BY ONLY <1>4 DEF Sliced
<1>7. \A i \in DOMAIN slice : rowsOut[i].sig = slice[i].candidate
  BY DEF Project
<1>. HIDE DEF rowsOut
<1>8. DOMAIN rowsOut = DOMAIN slice
  BY DEF rowsOut
<1>9. Query(rows, p, w, c, r)[1] = "yes" <=>
        \E row \in ToSet(rows) : InSlice(row, p, w, r) /\ row.candidate = c
  <2>1. Query(rows, p, w, c, r)[1] = "yes" <=>
          \E row \in ToSet(rows) :
            /\ Matches(p, row.profile) /\ Matches(w, row.workload)
            /\ Matches(c, row.candidate) /\ Matches(r, row.revision)
            /\ RankingEligible(row)
    BY QueryFinds
  <2>2. \A row : (/\ Matches(p, row.profile) /\ Matches(w, row.workload)
                  /\ Matches(c, row.candidate) /\ Matches(r, row.revision)
                  /\ RankingEligible(row))
                 <=> InSlice(row, p, w, r) /\ row.candidate = c
    BY <1>1 DEF InSlice, Matches
  <2>. QED  BY <2>1, <2>2
<1>10. (\E row \in ToSet(rows) : InSlice(row, p, w, r) /\ row.candidate = c)
         <=> \E i \in DOMAIN slice : slice[i].candidate = c
  BY ONLY <1>4, <1>6 DEF Sliced
<1>. QED
  <2>1. Query(rows, p, w, c, r)[1] = "yes" <=> \E i \in DOMAIN rowsOut : rowsOut[i].sig = c
    BY <1>7, <1>8, <1>9, <1>10
  <2>. QED  BY <1>5, <2>1 DEF p, w, c, r

\* What the file and memory hold was made of rows that were not skipped.
SoundInv ==
  /\ \A rec \in ToSet(file.rows) : WellSourced(rec)
  /\ pc \in {"merge", "write"} => \A rec \in ToSet(db) : WellSourced(rec)

LEMMA AppendSound ==
  ASSUME NEW rows, Keyed(rows), \A row \in ToSet(rows) : WellSourced(row), NEW rec, WellSourced(rec)
  PROVE  \A row \in ToSet(Append(rows, rec)) : WellSourced(row)
<1>1. rows \in Seq(ToSet(rows)) /\ Len(rows) \in Nat /\ DOMAIN rows = 1..Len(rows)
  BY DEF Keyed
<1>2. /\ DOMAIN Append(rows, rec) = 1..(Len(rows) + 1)
      /\ Append(rows, rec)[Len(rows) + 1] = rec
      /\ \A i \in 1..Len(rows) : Append(rows, rec)[i] = rows[i]
  BY <1>1
<1>3. \A i \in 1..Len(rows) : WellSourced(rows[i])
  BY <1>1 DEF ToSet
<1>4. \A i \in 1..(Len(rows) + 1) : i \in 1..Len(rows) \/ i = Len(rows) + 1
  BY <1>1
<1>. QED  BY <1>2, <1>3, <1>4 DEF ToSet

LEMMA SoundInvStep == StoreInv /\ SoundInv /\ [Next]_vars => SoundInv'
<1>. SUFFICES ASSUME StoreInv, SoundInv, [Next]_vars  PROVE SoundInv'
  OBVIOUS
<1>0. ToSet(<<>>) = {}
  BY DEF ToSet
<1>1. ASSUME NEW s \in Sources, NEW given \in Revisions, Ingest(s, given) PROVE SoundInv'
  BY <1>1 DEF Ingest, SoundInv, Start, End
<1>2. CASE IngestAllFrozen
  <2>1. file'.rows = <<>> /\ pc' = "next"
    BY <1>2 DEF IngestAllFrozen, Absent
  <2>. QED  BY <1>0, <2>1 DEF SoundInv
<1>3. CASE NextTable
  BY <1>3 DEF NextTable, SoundInv, Start
<1>4. CASE TableMissing \/ AddCollision
  BY <1>4 DEF TableMissing, AddCollision, SoundInv, End
<1>5. CASE AddRow
  <2>. DEFINE rec == Normalize(Head(todo), task.revision, task.at)
  <2>1. /\ pc = "merge" /\ ~Skipped(Head(todo)) /\ db' = Upsert(db, rec)
        /\ UNCHANGED <<file, pc>>
    BY <1>5 DEF AddRow
  <2>2. WellSourced(rec)
    BY <2>1, NormalizedSound
  <2>. HIDE DEF rec
  <2>3. Keyed(db) /\ \A row \in ToSet(db) : WellSourced(row)
    BY <2>1 DEF StoreInv, SoundInv
  <2>4. db' = db \/ db' = Append(db, rec)
    BY <2>1 DEF Upsert
  <2>5. \A row \in ToSet(db') : WellSourced(row)
    BY <2>2, <2>3, <2>4, AppendSound
  <2>. QED  BY <2>1, <2>5 DEF SoundInv
<1>6. CASE SkipRow
  BY <1>6 DEF SkipRow, SoundInv
<1>7. CASE Open
  <2>1. pc = "merge" /\ pc' = "write" /\ file'.rows = <<>> /\ db' = db
    BY <1>7 DEF Open, Holding
  <2>. QED  BY <1>0, <2>1 DEF SoundInv
<1>8. CASE WriteRow
  <2>. DEFINE rec == db[Len(file.rows) + 1]
  <2>1. /\ pc = "write" /\ UNCHANGED <<pc, db>> /\ file'.rows = Append(file.rows, rec)
        /\ Len(file.rows) < Len(db)
    BY <1>8 DEF WriteRow, Holding
  <2>2. Keyed(db) /\ Keyed(file.rows)
    BY <2>1 DEF StoreInv
  <2>3. rec \in ToSet(db)
    <3>1. Len(file.rows) + 1 \in DOMAIN db
      BY <2>1, <2>2, KeyedPositions
    <3>. QED  BY <3>1 DEF ToSet
  <2>. HIDE DEF rec
  <2>4. \A row \in ToSet(file'.rows) : WellSourced(row)
    BY <2>1, <2>2, <2>3, AppendSound DEF SoundInv
  <2>. QED  BY <2>1, <2>4 DEF SoundInv
<1>9. CASE Close
  BY <1>9 DEF Close, SoundInv, End
<1>10. CASE Crash
  <2>1. pc' = "idle" /\ file'.rows = file.rows
    BY <1>10 DEF Crash, End, StoreInv
  <2>. QED  BY <2>1 DEF SoundInv
<1>11. CASE UNCHANGED vars
  BY <1>11 DEF vars, SoundInv
<1>. QED
  BY <1>1, <1>2, <1>3, <1>4, <1>5, <1>6, <1>7, <1>8, <1>9, <1>10, <1>11 DEF Next

\* What is exported comes back as it was from a revision that the file does not
\* have, and the query of one identity agrees with the export: for every table,
\* and also of a file that a stopped command left behind.
THEOREM ExportStaysFaithful == Spec => []ExportIsFaithful
<1>1. Init => SoundInv
  <2>. SUFFICES ASSUME Init PROVE SoundInv
    OBVIOUS
  <2>1. file.rows = <<>> /\ pc = "idle"
    BY DEF Init, Absent
  <2>. QED  BY <2>1 DEF SoundInv, ToSet
<1>2. StoreInv /\ SoundInv => ExportIsFaithful
  <2>. SUFFICES ASSUME StoreInv, SoundInv, NEW rec \in ToSet(file.rows), NEW export,
                       export = Export(file.rows, rec.profile, rec.workload, rec.revision)
                PROVE  /\ \A new \in NewRevisions :
                            Export(Added(file.rows, export.rows, new, "normalized-v1"),
                                   rec.profile, rec.workload, new) = export
                       /\ Query(file.rows, rec.profile, rec.workload, rec.candidate,
                                rec.revision)[1] = "yes"
                            <=> \E i \in DOMAIN export.rows : export.rows[i].sig = rec.candidate
    BY Zenon DEF ExportIsFaithful
  <2>. DEFINE rows == file.rows
  <2>1. Keyed(rows) /\ \A row \in ToSet(rows) : WellSourced(row)
    BY DEF StoreInv, SoundInv
  <2>2. export.code = 0 /\ rec.profile # "" /\ rec.workload # ""
    <3>1. export.code = 0
      BY <2>1, OwnExportIsAnswered
    <3>. QED  BY <2>1, <3>1 DEF Keyed, ToSet, Named
  <2>3. ASSUME NEW new \in NewRevisions
        PROVE  Export(Added(rows, export.rows, new, "normalized-v1"),
                      rec.profile, rec.workload, new) = export
    <3>1. new # "" /\ \A row \in ToSet(rows) : row.revision # new
      BY DEF NewRevisions
    <3>2. Exported(export, rows, rec.profile, rec.workload, rec.revision, new)
      BY <2>1, <2>2, <3>1 DEF Exported
    <3>. DEFINE profile == rec.profile  workload == rec.workload  revision == rec.revision
    <3>3. Exported(export, rows, profile, workload, revision, new)
      BY <3>2
    <3>4. Export(Added(rows, export.rows, new, "normalized-v1"), profile, workload, new)
            = export
      <4>. HIDE DEF profile, workload, revision, rows
      <4>. QED  BY <3>3, ExportComesBack, Zenon
    <3>. QED  BY <3>4
  <2>4. Query(rows, rec.profile, rec.workload, rec.candidate, rec.revision)[1] = "yes"
          <=> \E i \in DOMAIN export.rows : export.rows[i].sig = rec.candidate
    BY <2>1, QueryAgrees
  <2>. QED  BY <2>3, <2>4
<1>. QED  BY <1>1, <1>2, StoreInvInit, StoreInvStep, SoundInvStep, PTL DEF Spec

-----------------------------------------------------------------------------
(***************************************************************************)
(* The bags hold what was put in them, and the catalog begins with what    *)
(* the campaign gave.                                                      *)
(***************************************************************************)
KnownRows == CatalogRows \cup UNION {ToSet(Catalog!ProjectPairs(log)) : log \in Campaigns}
BagsInv ==
  /\ occupancy \in Seq(OccupancyRecords) /\ capability \in Seq(CapabilityRecords)
  /\ campaign \in Campaigns /\ catalog \in Seq(KnownRows)
  /\ \A i \in DOMAIN Catalog!ProjectPairs(campaign) :
       i \in DOMAIN catalog /\ catalog[i] = Catalog!ProjectPairs(campaign)[i]

LEMMA ProjectionIsList ==
  ASSUME NEW log
  PROVE  Catalog!ProjectPairs(log) \in Seq(ToSet(Catalog!ProjectPairs(log)))
<1>. DEFINE rows == Catalog!ParsePairLog(log)
            row(k) == Catalog!ProjectedRow(Catalog!Group(rows, Catalog!PAIRS[k]), Catalog!PAIRS[k])
            all == [k \in DOMAIN Catalog!PAIRS |-> row(k)]
<1>1. DOMAIN Catalog!PAIRS = 1..3
  BY DEF Catalog!PAIRS
<1>2. <<>> \in Seq(ToSet(<<>>))
  OBVIOUS
<1>3. all \in Seq(ToSet(all))
  <2>. HIDE DEF row
  <2>1. \A k \in 1..3 : row(k) \in ToSet(all)
    BY <1>1 DEF ToSet
  <2>2. [k \in 1..3 |-> row(k)] \in Seq(ToSet(all))
    <3>. HIDE DEF all
    <3>. QED  BY <2>1
  <2>. QED  BY <1>1, <2>2, Zenon
<1>4. Catalog!ProjectPairs(log) \in {<<>>, all}
  BY Zenon DEF Catalog!ProjectPairs
<1>. HIDE DEF all
<1>. QED  BY <1>2, <1>3, <1>4, Zenon

LEMMA BagsInvInit == BagsInit => BagsInv
<1>. SUFFICES ASSUME BagsInit PROVE BagsInv
  OBVIOUS
<1>1. /\ occupancy = <<>> /\ capability = <<>> /\ campaign \in Campaigns
      /\ catalog = Catalog!ProjectPairs(campaign)
  BY DEF BagsInit
<1>2. catalog \in Seq(ToSet(catalog)) /\ ToSet(catalog) \subseteq KnownRows
  BY <1>1, ProjectionIsList DEF KnownRows
<1>3. catalog \in Seq(KnownRows)
  BY <1>2
<1>. QED  BY <1>1, <1>3 DEF BagsInv

LEMMA BagsInvStep == BagsInv /\ [BagsNext]_bagVars => BagsInv'
<1>. SUFFICES ASSUME BagsInv, [BagsNext]_bagVars PROVE BagsInv'
  OBVIOUS
<1>. USE DEF BagsInv
<1>1. ASSUME NEW rec \in OccupancyRecords, AddOccupancy(rec) PROVE BagsInv'
  BY <1>1 DEF AddOccupancy
<1>2. ASSUME NEW rec \in CapabilityRecords, AddCapability(rec) PROVE BagsInv'
  BY <1>2 DEF AddCapability
<1>3. ASSUME NEW row \in CatalogRows, AddCatalog(row) PROVE BagsInv'
  <2>1. /\ catalog' = Append(catalog, row) /\ UNCHANGED <<occupancy, capability, campaign>>
        /\ row \in KnownRows
    BY <1>3 DEF AddCatalog, KnownRows
  <2>2. /\ catalog' \in Seq(KnownRows)
        /\ \A i \in DOMAIN catalog : i \in DOMAIN catalog' /\ catalog'[i] = catalog[i]
    BY <2>1
  <2>. QED  BY <2>1, <2>2
<1>4. CASE UNCHANGED bagVars
  BY <1>4 DEF bagVars
<1>. QED  BY <1>1, <1>2, <1>3, <1>4 DEF BagsNext

LEMMA LeastOfNats ==
  ASSUME NEW S \in SUBSET Nat, S # {}
  PROVE  Min(S) \in S /\ \A x \in S : Min(S) <= x
BY LeastNat DEF Min

LEMMA ListOfTwo ==
  ASSUME NEW R, NEW f \in [1..2 -> R]
  PROVE  f \in Seq(R)
<1>. DEFINE g == [i \in 1..2 |-> f[i]]
<1>1. g \in Seq(R)
  OBVIOUS
<1>2. f = g
  OBVIOUS
<1>. QED  BY <1>1, <1>2, Zenon

-----------------------------------------------------------------------------
(***************************************************************************)
(* The occupancy of a scope, for any list of records.                      *)
(***************************************************************************)
Scoped(bag) == {i \in DOMAIN bag : bag[i].of[1] = SELECTED_S0 /\ bag[i].of[2] = OBJECT_2}
Contradicts(bag) ==
  \E i, j \in Scoped(bag) :
    IF i = j THEN bag[i].of # <<SELECTED_S0, bag[i].object, bag[i].kind>>
    ELSE bag[i].kind = bag[j].kind
Derived(bag) == DeriveUsable(bag, SELECTED_S0, OBJECT_2)
RefusalReasons == {<<"decision.identity-mismatch">>, <<"decision.duplicate-identity">>}

LEMMA RefusalsAreContradictions ==
  ASSUME NEW bag \in Seq(OccupancyRecords)
  PROVE  Refusals(bag, Scoped(bag)) # {} <=> Contradicts(bag)
<1>1. \A i \in DOMAIN bag : /\ bag[i] \in OccupancyRecords
                            /\ bag[i].of = <<bag[i].of[1], bag[i].of[2], bag[i].of[3]>>
                            /\ i \in Nat
  BY OccupancyIsPrinted
<1>2. \A i \in Scoped(bag) :
        Disagrees(bag[i]) <=> bag[i].of # <<SELECTED_S0, bag[i].object, bag[i].kind>>
  BY <1>1 DEF Scoped, Disagrees
<1>3. Scoped(bag) \subseteq Nat
  BY <1>1 DEF Scoped
<1>4. ASSUME Contradicts(bag) PROVE Refusals(bag, Scoped(bag)) # {}
  <2>1. PICK i, j \in Scoped(bag) :
          IF i = j THEN bag[i].of # <<SELECTED_S0, bag[i].object, bag[i].kind>>
          ELSE bag[i].kind = bag[j].kind
    BY <1>4 DEF Contradicts
  <2>2. CASE i = j
    BY <1>2, <2>1, <2>2 DEF Refusals
  <2>3. CASE i < j
    BY <1>3, <2>1, <2>3 DEF Refusals, RepeatsKind
  <2>4. CASE j < i
    BY <1>3, <2>1, <2>4 DEF Refusals, RepeatsKind
  <2>. QED  BY <1>3, <2>2, <2>3, <2>4
<1>5. ASSUME Refusals(bag, Scoped(bag)) # {} PROVE Contradicts(bag)
  <2>1. PICK i \in Scoped(bag) : Disagrees(bag[i]) \/ RepeatsKind(bag, Scoped(bag), i)
    BY <1>5 DEF Refusals
  <2>2. CASE Disagrees(bag[i])
    BY <1>2, <2>1, <2>2 DEF Contradicts
  <2>3. CASE RepeatsKind(bag, Scoped(bag), i)
    BY <1>3, <2>1, <2>3 DEF Contradicts, RepeatsKind
  <2>. QED  BY <2>1, <2>2, <2>3
<1>. QED  BY <1>4, <1>5

\* What contradicts is refused.
LEMMA ContradictionIsRefused ==
  ASSUME NEW bag \in Seq(OccupancyRecords), Contradicts(bag)
  PROVE  Derived(bag).result = "no" /\ Derived(bag).reasons \in RefusalReasons
<1>1. InScope(bag, SELECTED_S0, OBJECT_2) = Scoped(bag)
  BY DEF InScope, Concerns, Scoped
<1>2. Refusals(bag, Scoped(bag)) # {}
  BY RefusalsAreContradictions
<1>3. Derived(bag) = No(Refusal(bag, Scoped(bag)))
  BY <1>1, <1>2 DEF Derived, DeriveUsable
<1>. QED  BY <1>3 DEF RefusalReasons, No, Decision, Refusal

LEMMA ReasonsAreOfEvidence ==
  ASSUME NEW display \in Displays
  PROVE  Canonical(display) \notin {"decision.identity-mismatch", "decision.duplicate-identity"}
BY DEF Displays, Canonical

\* Where nothing contradicts, the two records are read, and each says yes or not.
Says(bag, answer) ==
  \A kind \in {"source-data", "restore-ordering"} :
    \E i \in Scoped(bag) : bag[i].kind = kind /\ bag[i].applicability = answer
LEMMA TheKindsAreRead ==
  ASSUME NEW bag \in Seq(OccupancyRecords), ~Contradicts(bag)
  PROVE  /\ Derived(bag).result = "yes" <=> Says(bag, "yes")
         /\ Derived(bag).result = "n/a" <=> Says(bag, "n/a")
         /\ Derived(bag).reasons \notin RefusalReasons
<1>. DEFINE scope == Scoped(bag)
            pos(k) == Min(OfKind(bag, scope, USABLE_KINDS[k]))
            read == [k \in DOMAIN USABLE_KINDS |-> bag[pos(k)]]
<1>1. InScope(bag, SELECTED_S0, OBJECT_2) = scope /\ Refusals(bag, scope) = {}
  BY RefusalsAreContradictions DEF InScope, Concerns, Scoped
<1>2. Derived(bag) = IF Missing(bag, scope) THEN No("predicate.missing-input") ELSE Predicate(read)
  BY <1>1 DEF Derived, DeriveUsable
<1>3. /\ DOMAIN USABLE_KINDS = {1, 2} /\ USABLE_KINDS[1] = "source-data"
      /\ USABLE_KINDS[2] = "restore-ordering"
      /\ ToSet(USABLE_KINDS) = {"source-data", "restore-ordering"}
  BY DEF USABLE_KINDS, ToSet
<1>4. CASE Missing(bag, scope)
  <2>1. PICK kind \in {"source-data", "restore-ordering"} : OfKind(bag, scope, kind) = {}
    BY <1>3, <1>4 DEF Missing
  <2>2. \A i \in scope : bag[i].kind # kind
    BY <2>1 DEF OfKind
  <2>3. ~Says(bag, "yes") /\ ~Says(bag, "n/a")
    BY <2>2 DEF Says
  <2>4. Derived(bag) = Decision("no", <<"predicate.missing-input">>)
    BY <1>2, <1>4 DEF No
  <2>. QED  BY <2>3, <2>4 DEF Decision, RefusalReasons
<1>5. CASE ~Missing(bag, scope)
  <2>1. \A k \in {1, 2} : /\ pos(k) \in scope /\ bag[pos(k)].kind = USABLE_KINDS[k]
                          /\ bag[pos(k)].display \in Displays
    <3>. SUFFICES ASSUME NEW k \in {1, 2}
                  PROVE  /\ pos(k) \in scope /\ bag[pos(k)].kind = USABLE_KINDS[k]
                         /\ bag[pos(k)].display \in Displays
      OBVIOUS
    <3>1. OfKind(bag, scope, USABLE_KINDS[k]) # {}
      BY <1>3, <1>5 DEF Missing
    <3>2. OfKind(bag, scope, USABLE_KINDS[k]) \subseteq Nat
      BY DEF OfKind, Scoped
    <3>3. pos(k) \in OfKind(bag, scope, USABLE_KINDS[k])
      BY <3>1, <3>2, LeastOfNats
    <3>4. pos(k) \in scope /\ bag[pos(k)].kind = USABLE_KINDS[k]
      BY <3>3 DEF OfKind
    <3>5. bag[pos(k)] \in OccupancyRecords
      BY <3>4 DEF Scoped
    <3>. QED  BY <3>4, <3>5, OccupancyIsPrinted
  <2>2. \A k \in {1, 2}, i \in scope : bag[i].kind = USABLE_KINDS[k] => i = pos(k)
    <3>1. \A i, j \in scope : bag[i].kind = bag[j].kind => i = j
      BY DEF Contradicts
    <3>. QED  BY <2>1, <3>1
  <2>3. DOMAIN read = {1, 2} /\ \A k \in {1, 2} : read[k] = bag[pos(k)]
    BY <1>3
  <2>. HIDE DEF pos, read
  <2>4. ASSUME NEW answer
        PROVE  Says(bag, answer) <=> \A k \in DOMAIN read : read[k].applicability = answer
    <3>1. Says(bag, answer) <=>
            \A k \in {1, 2} : \E i \in scope : bag[i].kind = USABLE_KINDS[k]
                                               /\ bag[i].applicability = answer
      BY <1>3 DEF Says
    <3>2. \A k \in {1, 2} :
            (\E i \in scope : bag[i].kind = USABLE_KINDS[k] /\ bag[i].applicability = answer)
              <=> bag[pos(k)].applicability = answer
      BY <2>1, <2>2
    <3>. QED  BY <2>3, <3>1, <3>2
  <2>. DEFINE short == Picked(read, {k \in DOMAIN read : read[k].applicability # "yes"})
  <2>5. /\ Says(bag, "n/a") => Derived(bag) = Decision("n/a", <<>>)
        /\ ~Says(bag, "n/a") /\ Says(bag, "yes") =>
             Derived(bag) = Decision("yes", <<"predicate.source-data-present",
                                              "predicate.restore-ordering-present">>)
        /\ ~Says(bag, "n/a") /\ ~Says(bag, "yes") =>
             Derived(bag) = Decision("no", [k \in DOMAIN short |-> Canonical(short[k].display)])
    BY <1>2, <1>5, <2>4, Zenon DEF Predicate
  <2>6. ~(Says(bag, "n/a") /\ Says(bag, "yes"))
    BY <2>3, <2>4
  <2>7. \A k \in DOMAIN short : short[k].display \in Displays
    <3>1. read \in [1..2 -> OccupancyRecords]
      <4>1. \A k \in {1, 2} : bag[pos(k)] \in OccupancyRecords
        BY <2>1 DEF Scoped
      <4>. QED  BY <2>3, <4>1 DEF read
    <3>. HIDE DEF read, scope
    <3>2. read \in Seq(OccupancyRecords)
      BY <3>1, ListOfTwo
    <3>3. short \in Seq(OccupancyRecords)
      BY <3>2, PickedSelects, Zenon
    <3>4. \A k \in DOMAIN short : short[k] \in OccupancyRecords
      BY <3>3
    <3>. QED  BY <3>4, OccupancyIsPrinted
  <2>. HIDE DEF short
  <2>8. \A k \in DOMAIN short : Canonical(short[k].display) \notin
          {"decision.identity-mismatch", "decision.duplicate-identity"}
    BY <2>7, ReasonsAreOfEvidence
  <2>9. CASE ~Says(bag, "n/a") /\ ~Says(bag, "yes")
    <3>. DEFINE told == [k \in DOMAIN short |-> Canonical(short[k].display)]
    <3>1. Derived(bag) = Decision("no", told)
      BY <2>5, <2>9
    <3>2. \A k \in DOMAIN told : told[k] \notin
            {"decision.identity-mismatch", "decision.duplicate-identity"}
      BY <2>8
    <3>3. told \notin {<<"decision.identity-mismatch">>, <<"decision.duplicate-identity">>}
      BY <3>2
    <3>. HIDE DEF told
    <3>. QED  BY <2>9, <3>1, <3>3 DEF Decision, RefusalReasons
  <2>10. CASE Says(bag, "n/a")
    <3>1. Derived(bag).result = "n/a" /\ Derived(bag).reasons = <<>>
      BY <2>5, <2>10 DEF Decision
    <3>2. <<>> \notin RefusalReasons
      BY DEF RefusalReasons
    <3>. QED  BY <2>6, <2>10, <3>1, <3>2
  <2>11. CASE ~Says(bag, "n/a") /\ Says(bag, "yes")
    <3>. DEFINE both == <<"predicate.source-data-present", "predicate.restore-ordering-present">>
    <3>1. Derived(bag).result = "yes" /\ Derived(bag).reasons = both
      BY <2>5, <2>11 DEF Decision
    <3>2. both \notin RefusalReasons
      BY DEF RefusalReasons
    <3>. QED  BY <2>11, <3>1, <3>2
  <2>. QED  BY <2>9, <2>10, <2>11
<1>. QED  BY <1>4, <1>5

\* Occupancy is usable just when the two kinds are each said once, both yes, and
\* no record of the scope contradicts: in every order of the records, and
\* whatever is said of other scopes.
THEOREM UsableStaysClosed == BagsSpec => []UsableIsClosed
<1>1. BagsInv => UsableIsClosed
  <2>. SUFFICES ASSUME BagsInv PROVE UsableIsClosed
    OBVIOUS
  <2>1. occupancy \in Seq(OccupancyRecords)
    BY DEF BagsInv
  <2>2. /\ UsableNow = Derived(occupancy) /\ (Contradiction <=> Contradicts(occupancy))
        /\ \A answer : BothSay(answer) <=> Says(occupancy, answer)
    BY DEF UsableNow, Derived, Contradiction, Contradicts, BothSay, Says, About2, Scoped
  <2>3. CASE Contradicts(occupancy)
    <3>1. Derived(occupancy).result = "no" /\ Derived(occupancy).reasons \in RefusalReasons
      BY <2>1, <2>3, ContradictionIsRefused
    <3>. QED  BY <2>2, <2>3, <3>1 DEF UsableIsClosed, RefusalReasons
  <2>4. CASE ~Contradicts(occupancy)
    <3>1. /\ Derived(occupancy).result = "yes" <=> Says(occupancy, "yes")
          /\ Derived(occupancy).result = "n/a" <=> Says(occupancy, "n/a")
          /\ Derived(occupancy).reasons \notin RefusalReasons
      BY <2>1, <2>4, TheKindsAreRead
    <3>. QED  BY <2>2, <2>4, <3>1 DEF UsableIsClosed, RefusalReasons
  <2>. QED  BY <2>3, <2>4
<1>. QED  BY <1>1, BagsInvInit, BagsInvStep, PTL DEF BagsSpec

-----------------------------------------------------------------------------
(***************************************************************************)
(* What a claim is told of a kind, through the profile and the legality.   *)
(***************************************************************************)
LEMMA NoneFails ==
  ASSUME NEW tests, \A k \in DOMAIN tests : ~tests[k][1]
  PROVE  FirstOf(tests) = "none"
<1>1. {k \in DOMAIN tests : tests[k][1]} = {}
  OBVIOUS
<1>. QED  BY <1>1 DEF FirstOf

LEMMA OneFails ==
  ASSUME NEW tests, DOMAIN tests \subseteq Nat, NEW k \in DOMAIN tests, tests[k][1]
  PROVE  \E j \in DOMAIN tests : FirstOf(tests) = tests[j][2]
<1>. DEFINE failed == {j \in DOMAIN tests : tests[j][1]}
<1>1. k \in failed /\ failed \in SUBSET Nat
  OBVIOUS
<1>2. FirstOf(tests) = tests[Min(failed)][2]
  BY <1>1 DEF FirstOf
<1>3. Min(failed) \in failed
  <2>. HIDE DEF failed
  <2>. QED  BY <1>1, LeastOfNats
<1>. QED  BY <1>2, <1>3

\* A record that passes the eight tests.
Clean(rec) ==
  /\ rec.schema = RECORD_SCHEMA
  /\ rec.of = <<rec.target, rec.device, rec.kind>> /\ "missing" \notin ToSet(rec.of)
  /\ rec.target \in TARGETS /\ rec.kind \in Kinds
  /\ rec.applicability \in APPLICABILITY /\ rec.usable \in APPLICABILITY
  /\ rec.provenance \in PROVENANCE /\ rec.canonical \in CAPABILITY_TOKENS

LEMMA ErrorsOfRecords ==
  ASSUME NEW rec
  PROVE  /\ Clean(rec) <=> RawError(rec) = "none"
         /\ RawError(rec) # "capability.not-applicable"
<1>. DEFINE tests == <<
    <<rec.schema # RECORD_SCHEMA, "decision.unknown-reason">>,
    <<rec.of # <<rec.target, rec.device, rec.kind>> \/ "missing" \in ToSet(rec.of),
      "decision.identity-mismatch">>,
    <<rec.target \notin TARGETS, "capability.unknown-target">>,
    <<rec.kind \notin Kinds, "capability.unknown-kind">>,
    <<rec.applicability \notin APPLICABILITY, "decision.unknown-reason">>,
    <<rec.usable \notin APPLICABILITY, "decision.unknown-reason">>,
    <<rec.provenance \notin PROVENANCE, "capability.missing-evidence">>,
    <<rec.canonical \notin CAPABILITY_TOKENS, "decision.unknown-reason">>>>
<1>1. RawError(rec) = FirstOf(tests)
  BY DEF RawError
<1>2. DOMAIN tests = 1..8 /\ DOMAIN tests \subseteq Nat
  OBVIOUS
<1>3. \A k \in DOMAIN tests :
        tests[k][2] \in {"decision.unknown-reason", "decision.identity-mismatch",
          "capability.unknown-target", "capability.unknown-kind", "capability.missing-evidence"}
  OBVIOUS
<1>4. Clean(rec) <=> \A k \in DOMAIN tests : ~tests[k][1]
  <2>1. /\ tests[1][1] <=> rec.schema # RECORD_SCHEMA
        /\ tests[2][1] <=> \/ rec.of # <<rec.target, rec.device, rec.kind>>
                           \/ "missing" \in ToSet(rec.of)
        /\ tests[3][1] <=> rec.target \notin TARGETS
        /\ tests[4][1] <=> rec.kind \notin Kinds
        /\ tests[5][1] <=> rec.applicability \notin APPLICABILITY
        /\ tests[6][1] <=> rec.usable \notin APPLICABILITY
        /\ tests[7][1] <=> rec.provenance \notin PROVENANCE
        /\ tests[8][1] <=> rec.canonical \notin CAPABILITY_TOKENS
    OBVIOUS
  <2>2. \A k : k \in DOMAIN tests <=> k \in {1, 2, 3, 4, 5, 6, 7, 8}
    BY <1>2
  <2>. HIDE DEF tests
  <2>. QED  BY <2>1, <2>2 DEF Clean
<1>. HIDE DEF tests
<1>5. CASE Clean(rec)
  BY <1>1, <1>4, <1>5, NoneFails
<1>6. CASE ~Clean(rec)
  <2>1. PICK k \in DOMAIN tests : tests[k][1]
    BY <1>4, <1>6
  <2>2. PICK j \in DOMAIN tests : FirstOf(tests) = tests[j][2]
    BY <1>2, <2>1, OneFails
  <2>. QED  BY <1>1, <1>3, <1>6, <2>2
<1>. QED  BY <1>5, <1>6

\* What the records of a kind amount to.
Theirs(bag, kind) == {i \in DOMAIN bag : bag[i].of = <<"cuda", DEVICE_4090, kind>>}
ConstraintOf(bag, kind) ==
  Constraint(DeriveApplicable(KindBag(bag, "cuda", DEVICE_4090, kind), "cuda", DEVICE_4090, kind))

LEMMA RefusedIsUnproven ==
  ASSUME NEW reason, reason # "capability.not-applicable"
  PROVE  Constraint(No(reason)) = "unproven"
<1>1. ToSet(<<reason>>) = {reason}
  BY DEF ToSet
<1>. QED  BY <1>1 DEF Constraint, No, Decision

LEMMA DeniedIsForbidden == Constraint(No("capability.not-applicable")) = "forbidden"
<1>1. "capability.not-applicable" \in ToSet(<<"capability.not-applicable">>)
  BY DEF ToSet
<1>. QED  BY <1>1 DEF Constraint, No, Decision

LEMMA KindBagSelects ==
  ASSUME NEW bag \in Seq(CapabilityRecords), NEW kind \in Kinds
  PROVE  LET picked == KindBag(bag, "cuda", DEVICE_4090, kind)
         IN  /\ picked \in Seq(CapabilityRecords)
             /\ \E pos : Selects(picked, pos, bag, Theirs(bag, kind))
             /\ \A j \in DOMAIN picked : picked[j].of = <<"cuda", DEVICE_4090, kind>>
<1>. DEFINE picked == KindBag(bag, "cuda", DEVICE_4090, kind)
<1>1. picked = Picked(bag, Theirs(bag, kind))
  BY DEF KindBag, Theirs
<1>2. Theirs(bag, kind) \in SUBSET DOMAIN bag
  BY DEF Theirs
<1>. HIDE DEF picked
<1>3. picked \in Seq(CapabilityRecords) /\ \E pos : Selects(picked, pos, bag, Theirs(bag, kind))
  BY <1>1, <1>2, PickedSelects
<1>4. PICK pos : Selects(picked, pos, bag, Theirs(bag, kind))
  BY <1>3
<1>5. \A j \in 1..Len(picked) : picked[j] = bag[pos[j]] /\ pos[j] \in Theirs(bag, kind)
  BY <1>4 DEF Selects
<1>6. \A j \in DOMAIN picked : picked[j].of = <<"cuda", DEVICE_4090, kind>>
  BY <1>3, <1>5 DEF Theirs
<1>. QED  BY <1>3, <1>6 DEF picked

LEMMA ApplicableOfKind ==
  ASSUME NEW bag, NEW kind \in Kinds,
         \A j \in DOMAIN bag : bag[j].of = <<"cuda", DEVICE_4090, kind>>, DOMAIN bag \subseteq Nat
  PROVE  LET bad == {j \in DOMAIN bag : ~Clean(bag[j])}
             decision == DeriveApplicable(bag, "cuda", DEVICE_4090, kind)
         IN  /\ bad # {} \/ DOMAIN bag = {} \/ (\E i, j \in DOMAIN bag : i # j) =>
                  Constraint(decision) = "unproven"
             /\ DOMAIN bag = {1} /\ bad = {} =>
                  decision = IF bag[1].provenance = "unknown" THEN No("capability.missing-evidence")
                             ELSE IF bag[1].applicability = "n/a" THEN Decision("n/a", <<>>)
                             ELSE IF bag[1].applicability = "yes"
                             THEN Decision("yes", <<"capability.present">>)
                             ELSE No(bag[1].canonical)
<1>. DEFINE bad == {j \in DOMAIN bag : ~Clean(bag[j])}
            decision == DeriveApplicable(bag, "cuda", DEVICE_4090, kind)
            first == Min({j \in DOMAIN bag : bag[j].of = <<"cuda", DEVICE_4090, kind>>})
            dup == \E i, j \in DOMAIN bag : i # j
<1>1. {j \in DOMAIN bag : OnDevice(bag[j], "cuda", DEVICE_4090)} = DOMAIN bag
  <2>. DEFINE of == <<"cuda", DEVICE_4090, kind>>
  <2>1. of # <<>> /\ of[1] = "cuda" /\ of[2] = DEVICE_4090
    <3>1. 1 \in DOMAIN of /\ DOMAIN <<>> = {}
      OBVIOUS
    <3>. QED  BY <3>1
  <2>. HIDE DEF of
  <2>2. \A j \in DOMAIN bag : OnDevice(bag[j], "cuda", DEVICE_4090)
    BY <2>1 DEF OnDevice, of
  <2>. QED  BY <2>2
<1>2. {j \in DOMAIN bag : RawError(bag[j]) # "none"} = bad
  BY ErrorsOfRecords
<1>3. {j \in DOMAIN bag : bag[j].of = <<"cuda", DEVICE_4090, kind>>} = DOMAIN bag
  OBVIOUS
<1>4. (\E i, j \in DOMAIN bag : i # j /\ bag[i].of = bag[j].of) <=> dup
  OBVIOUS
<1>5. "cuda" \in TARGETS
  BY DEF TARGETS
<1>6. decision =
        IF bad # {} THEN No(RawError(bag[Min(bad)]))
        ELSE IF dup THEN No("decision.duplicate-identity")
        ELSE IF DOMAIN bag = {} \/ bag[first].provenance = "unknown"
        THEN No("capability.missing-evidence")
        ELSE CASE bag[first].applicability = "n/a" -> Decision("n/a", <<>>)
               [] bag[first].applicability = "yes" -> Decision("yes", <<"capability.present">>)
               [] OTHER -> No(bag[first].canonical)
  <2>. HIDE DEF bad, dup
  <2>. QED  BY <1>1, <1>2, <1>3, <1>4, <1>5, Zenon DEF DeriveApplicable
<1>. HIDE DEF decision
<1>7. ASSUME bad # {} PROVE Constraint(decision) = "unproven"
  BY <1>6, <1>7, ErrorsOfRecords, RefusedIsUnproven
<1>8. ASSUME bad = {}, DOMAIN bag = {} \/ dup PROVE Constraint(decision) = "unproven"
  <2>1. decision \in {No("decision.duplicate-identity"), No("capability.missing-evidence")}
    <3>. HIDE DEF bad, dup
    <3>. QED  BY <1>6, <1>8
  <2>. QED  BY <2>1, RefusedIsUnproven
<1>9. ASSUME DOMAIN bag = {1}, bad = {}
      PROVE  decision = IF bag[1].provenance = "unknown" THEN No("capability.missing-evidence")
                        ELSE IF bag[1].applicability = "n/a" THEN Decision("n/a", <<>>)
                        ELSE IF bag[1].applicability = "yes"
                        THEN Decision("yes", <<"capability.present">>)
                        ELSE No(bag[1].canonical)
  <2>1. ~dup /\ DOMAIN bag # {}
    BY <1>9
  <2>2. first = 1
    <3>1. {1} \in SUBSET Nat /\ {1} # {}
      OBVIOUS
    <3>2. Min({1}) \in {1}
      BY <3>1, LeastOfNats
    <3>. QED  BY <1>3, <1>9, <3>2
  <2>. HIDE DEF bad, dup, first
  <2>. QED  BY <1>6, <1>9, <2>1, <2>2
<1>. QED  BY <1>7, <1>8, <1>9 DEF decision

OneOf(bag, kind, Says0(_)) == \E i \in Theirs(bag, kind) :
  Theirs(bag, kind) = {i} /\ Sound(bag[i]) /\ Says0(bag[i])
Does(rec) == rec.applicability = "yes"
DoesNot(rec) ==
  \/ rec.applicability = "n/a"
  \/ rec.applicability = "no" /\ rec.canonical = "capability.not-applicable"

LEMMA SoundIsClean ==
  ASSUME NEW rec, NEW kind \in Kinds, rec.of = <<"cuda", DEVICE_4090, kind>>
  PROVE  Sound(rec) <=> Clean(rec) /\ rec.provenance # "unknown"
<1>1. PROVENANCE = {"catalog", "occupancy-query"} \cup {"unknown"} /\ "cuda" \in TARGETS
  BY DEF PROVENANCE, TARGETS
<1>2. "missing" \notin ToSet(<<"cuda", DEVICE_4090, kind>>)
  BY DEF ToSet, Kinds, KINDS, DEVICE_4090
<1>3. rec.of = <<rec.target, rec.device, rec.kind>> => rec.target = "cuda" /\ rec.kind = kind
  OBVIOUS
<1>4. "unknown" \notin {"catalog", "occupancy-query"}
  OBVIOUS
<1>. QED  BY <1>1, <1>2, <1>3, <1>4 DEF Sound, Clean

LEMMA ConstraintIsExact ==
  ASSUME NEW bag \in Seq(CapabilityRecords), NEW kind \in Kinds
  PROVE  /\ ConstraintOf(bag, kind) \in CONSTRAINTS
         /\ ConstraintOf(bag, kind) = "allowed" <=>
              OneOf(bag, kind, Does)
         /\ ConstraintOf(bag, kind) \in {"forbidden", "not-applicable"} <=>
              OneOf(bag, kind, DoesNot)
<1>. DEFINE picked == KindBag(bag, "cuda", DEVICE_4090, kind)
            theirs == Theirs(bag, kind)
            bad == {j \in DOMAIN picked : ~Clean(picked[j])}
            decision == DeriveApplicable(picked, "cuda", DEVICE_4090, kind)
<1>1. picked \in Seq(CapabilityRecords) /\ \A j \in DOMAIN picked :
        picked[j].of = <<"cuda", DEVICE_4090, kind>>
  BY KindBagSelects
<1>2. PICK pos : Selects(picked, pos, bag, theirs)
  BY KindBagSelects
<1>. HIDE DEF picked, theirs
<1>3. DOMAIN picked = 1..Len(picked) /\ Len(picked) \in Nat /\ DOMAIN picked \subseteq Nat
  BY <1>1
<1>4. /\ \A j \in DOMAIN picked : pos[j] \in theirs /\ picked[j] = bag[pos[j]]
      /\ \A i, j \in DOMAIN picked : i # j => pos[i] # pos[j]
      /\ \A i \in theirs : \E j \in DOMAIN picked : pos[j] = i
  BY <1>2, <1>3 DEF Selects
<1>5. ConstraintOf(bag, kind) = Constraint(decision)
  BY DEF ConstraintOf, picked
<1>6. /\ bad # {} \/ DOMAIN picked = {} \/ (\E i, j \in DOMAIN picked : i # j) =>
           Constraint(decision) = "unproven"
      /\ DOMAIN picked = {1} /\ bad = {} =>
           decision = IF picked[1].provenance = "unknown" THEN No("capability.missing-evidence")
                      ELSE IF picked[1].applicability = "n/a" THEN Decision("n/a", <<>>)
                      ELSE IF picked[1].applicability = "yes"
                      THEN Decision("yes", <<"capability.present">>)
                      ELSE No(picked[1].canonical)
  BY <1>1, <1>3, ApplicableOfKind
<1>. HIDE DEF decision
<1>7. CASE DOMAIN picked = {} \/ (\E i, j \in DOMAIN picked : i # j)
  <2>1. ~ \E i \in theirs : theirs = {i}
    BY <1>4, <1>7
  <2>2. Constraint(decision) = "unproven"
    BY <1>6, <1>7
  <2>. QED  BY <1>5, <2>1, <2>2 DEF OneOf, CONSTRAINTS, theirs
<1>8. CASE DOMAIN picked = {1}
  <2>. DEFINE rec == picked[1]
              i == pos[1]
  <2>1. theirs = {i} /\ rec = bag[i] /\ rec.of = <<"cuda", DEVICE_4090, kind>>
    BY <1>1, <1>4, <1>8
  <2>. HIDE DEF i
  <2>2. /\ OneOf(bag, kind, Does) <=>
             Sound(rec) /\ Does(rec)
        /\ OneOf(bag, kind, DoesNot) <=> Sound(rec) /\ DoesNot(rec)
    BY <2>1 DEF OneOf, theirs
  <2>3. Sound(rec) <=> Clean(rec) /\ rec.provenance # "unknown"
    BY <2>1, SoundIsClean
  <2>4. CASE bad # {}
    <3>1. ~Clean(rec)
      BY <1>8, <2>4
    <3>2. Constraint(decision) = "unproven"
      BY <1>6, <2>4
    <3>. QED  BY <1>5, <2>2, <2>3, <3>1, <3>2 DEF CONSTRAINTS
  <2>5. CASE bad = {}
    <3>1. Clean(rec)
      BY <1>8, <2>5
    <3>2. decision = IF rec.provenance = "unknown" THEN No("capability.missing-evidence")
                     ELSE IF rec.applicability = "n/a" THEN Decision("n/a", <<>>)
                     ELSE IF rec.applicability = "yes"
                     THEN Decision("yes", <<"capability.present">>)
                     ELSE No(rec.canonical)
      BY <1>6, <1>8, <2>5
    <3>. HIDE DEF rec
    <3>3. CASE rec.provenance = "unknown"
      <4>1. Constraint(decision) = "unproven"
        BY <3>2, <3>3, RefusedIsUnproven
      <4>. QED  BY <1>5, <2>2, <2>3, <3>3, <4>1 DEF CONSTRAINTS
    <3>4. CASE rec.provenance # "unknown" /\ rec.applicability = "n/a"
      <4>1. decision.result = "n/a"
        BY <3>2, <3>4 DEF Decision
      <4>2. Constraint(decision) = "not-applicable"
        BY <4>1 DEF Constraint
      <4>. QED  BY <1>5, <2>2, <2>3, <3>1, <3>4, <4>2 DEF CONSTRAINTS, Does, DoesNot
    <3>5. CASE rec.provenance # "unknown" /\ rec.applicability = "yes"
      <4>1. decision.result = "yes"
        BY <3>2, <3>5 DEF Decision
      <4>2. Constraint(decision) = "allowed"
        BY <4>1, Zenon DEF Constraint
      <4>. QED  BY <1>5, <2>2, <2>3, <3>1, <3>5, <4>2 DEF CONSTRAINTS, Does, DoesNot
    <3>6. CASE rec.provenance # "unknown" /\ rec.applicability \notin {"yes", "n/a"}
      <4>1. rec.applicability = "no"
        BY <3>1, <3>6 DEF Clean, APPLICABILITY
      <4>2. decision = No(rec.canonical)
        BY <3>2, <3>6
      <4>3. CASE rec.canonical = "capability.not-applicable"
        <5>1. Constraint(decision) = "forbidden"
          BY <4>2, <4>3, DeniedIsForbidden
        <5>. QED  BY <1>5, <2>2, <2>3, <3>1, <3>6, <4>1, <4>3, <5>1 DEF CONSTRAINTS, Does, DoesNot
      <4>4. CASE rec.canonical # "capability.not-applicable"
        <5>1. Constraint(decision) = "unproven"
          BY <4>2, <4>4, RefusedIsUnproven
        <5>. QED  BY <1>5, <2>2, <2>3, <3>1, <3>6, <4>1, <4>4, <5>1 DEF CONSTRAINTS, Does, DoesNot
      <4>. QED  BY <4>3, <4>4
    <3>. QED  BY <3>3, <3>4, <3>5, <3>6
  <2>. QED  BY <2>4, <2>5
<1>9. \/ DOMAIN picked = {} \/ DOMAIN picked = {1}
      \/ \E i, j \in DOMAIN picked : i # j
  <2>1. CASE Len(picked) = 0
    BY <1>3, <2>1
  <2>2. CASE Len(picked) = 1
    BY <1>3, <2>2
  <2>3. CASE Len(picked) > 1
    <3>1. 1 \in DOMAIN picked /\ 2 \in DOMAIN picked
      BY <1>3, <2>3
    <3>. QED  BY <3>1
  <2>. QED  BY <1>3, <2>1, <2>2, <2>3
<1>. QED  BY <1>7, <1>8, <1>9

\* The chain hands the constraint of the kind on, and to a claim of that kind.
LEMMA LegalityHandsOn ==
  ASSUME NEW bag \in Seq(CapabilityRecords)
  PROVE  LET L == Legality(Profile(bag, "cuda", DEVICE_4090))
         IN  /\ L.schema = LEGALITY_SCHEMA /\ L.of = <<"cuda", DEVICE_4090>>
             /\ L.facts \in [1..3 -> ToSet(L.facts)] /\ L.facts \in Seq(ToSet(L.facts))
             /\ \A k \in 1..3 :
                  /\ L.facts[k].schema = LEGALITY_SCHEMA /\ ~L.facts[k].named
                  /\ L.facts[k].of = <<"cuda", DEVICE_4090, KINDS[k]>>
                  /\ L.facts[k].constraint = ConstraintOf(bag, KINDS[k])
<1>. DEFINE profile == Profile(bag, "cuda", DEVICE_4090)
            L == Legality(profile)
            kindBag(kind) == KindBag(bag, "cuda", DEVICE_4090, kind)
            decision(kind) == DeriveApplicable(kindBag(kind), "cuda", DEVICE_4090, kind)
            entry(kind) ==
              [kind |-> kind, decision |-> decision(kind), reasons |-> decision(kind).reasons,
               provenance |-> EntryProvenance(kindBag(kind), decision(kind)),
               constraint |-> Constraint(decision(kind))]
<1>1. KINDS = <<"concurrent-pair", "named-nonblocking", "staged-dma">>
  BY DEF KINDS
<1>2. /\ profile.schema = PROFILE_SCHEMA
      /\ profile.target = "cuda" /\ profile.device = DEVICE_4090
      /\ profile.capabilities = <<entry(KINDS[1]), entry(KINDS[2]), entry(KINDS[3])>>
  BY DEF Profile
<1>3. \A k \in 1..3 : KINDS[k] \in Kinds
  BY <1>1 DEF Kinds, ToSet
<1>4. \A k \in 1..3 : /\ profile.capabilities[k].kind = KINDS[k]
                       /\ profile.capabilities[k].constraint = ConstraintOf(bag, KINDS[k])
  <2>1. \A kind : /\ entry(kind).kind = kind
                  /\ entry(kind).constraint = ConstraintOf(bag, kind)
    BY DEF ConstraintOf
  <2>. HIDE DEF entry
  <2>. QED  BY <1>2, <2>1
<1>5. DOMAIN profile.capabilities = 1..3
  <2>. HIDE DEF entry
  <2>. QED  BY <1>2
<1>. HIDE DEF profile
<1>6. \A k \in 1..3 : FactOf(profile, KINDS[k]).constraint = ConstraintOf(bag, KINDS[k])
  <2>. SUFFICES ASSUME NEW k \in 1..3
                PROVE  FactOf(profile, KINDS[k]).constraint = ConstraintOf(bag, KINDS[k])
    OBVIOUS
  <2>. DEFINE entries == {j \in DOMAIN profile.capabilities :
                            profile.capabilities[j].kind = KINDS[k]}
  <2>1. entries = {k}
    BY <1>1, <1>4, <1>5
  <2>2. Max({k}) = k
    BY DEF Max
  <2>3. profile.capabilities[k].constraint \in CONSTRAINTS
    BY <1>3, <1>4, ConstraintIsExact
  <2>4. FactOf(profile, KINDS[k]) =
          [constraint |-> profile.capabilities[k].constraint,
           reasons |-> profile.capabilities[k].reasons]
    BY <1>2, <2>1, <2>2, <2>3, Zenon DEF FactOf
  <2>. QED  BY <1>4, <2>4
<1>. DEFINE fact(kind) ==
        [schema |-> LEGALITY_SCHEMA, of |-> <<"cuda", DEVICE_4090, kind>>,
         named |-> FALSE, constraint |-> FactOf(profile, kind).constraint,
         reasons |-> FactOf(profile, kind).reasons]
<1>7. /\ L.schema = LEGALITY_SCHEMA /\ L.of = <<"cuda", DEVICE_4090>>
      /\ L.facts = <<fact(KINDS[1]), fact(KINDS[2]), fact(KINDS[3])>>
  BY <1>2 DEF Legality
<1>8. \A k \in 1..3 : L.facts[k] = fact(KINDS[k])
  <2>. HIDE DEF fact, L
  <2>. QED  BY <1>7
<1>9. \A k \in 1..3 :
        /\ L.facts[k].schema = LEGALITY_SCHEMA /\ ~L.facts[k].named
        /\ L.facts[k].of = <<"cuda", DEVICE_4090, KINDS[k]>>
        /\ L.facts[k].constraint = ConstraintOf(bag, KINDS[k])
  <2>. HIDE DEF L
  <2>. QED  BY <1>6, <1>8
<1>. HIDE DEF fact, L
<1>10. L.facts \in [1..3 -> ToSet(L.facts)] /\ L.facts \in Seq(ToSet(L.facts))
  BY <1>7 DEF ToSet
<1>. QED  BY <1>7, <1>9, <1>10 DEF L, profile

LEMMA ClaimIsAnswered ==
  ASSUME NEW bag \in Seq(CapabilityRecords), NEW kind \in Kinds
  PROVE  LET told == ToldBy(bag, kind)
         IN  /\ told.status = "ok" /\ Len(told.findings) = 1
             /\ told.findings[1].result = ResultFor(ConstraintOf(bag, kind))
<1>. DEFINE L == Legality(Profile(bag, "cuda", DEVICE_4090))
            claim == Claim("cuda", DEVICE_4090, <<kind>>)
            told == ToldBy(bag, kind)
<1>1. /\ L.schema = LEGALITY_SCHEMA /\ L.of = <<"cuda", DEVICE_4090>>
      /\ L.facts \in [1..3 -> ToSet(L.facts)] /\ L.facts \in Seq(ToSet(L.facts))
      /\ \A k \in 1..3 :
           /\ L.facts[k].schema = LEGALITY_SCHEMA /\ ~L.facts[k].named
           /\ L.facts[k].of = <<"cuda", DEVICE_4090, KINDS[k]>>
           /\ L.facts[k].constraint = ConstraintOf(bag, KINDS[k])
  BY LegalityHandsOn
<1>. HIDE DEF L
<1>2. /\ claim.schema = CLAIM_SCHEMA /\ claim.of = <<"cuda", DEVICE_4090>>
      /\ claim.kinds = <<<<kind>>>>
  BY DEF Claim
<1>3. claim.kinds # <<>> /\ claim.kinds[1] = <<kind>> /\ ToSet(claim.kinds[1]) = {kind}
  BY <1>2 DEF ToSet
<1>4. told = Check(claim, L)
  BY DEF ToldBy, RunXid, L
<1>. HIDE DEF claim
<1>5. DOMAIN KINDS = 1..3 /\ DOMAIN L.facts = 1..3 /\ \A k \in 1..3 : KINDS[k] \in Kinds
  BY <1>1 DEF KINDS, Kinds, ToSet
<1>6. LegalityClosed(L)
  <2>1. Len(L.of) = 2
    BY <1>1
  <2>2. [k \in DOMAIN L.facts |-> L.facts[k].of] = [k \in DOMAIN KINDS |-> L.of \o <<KINDS[k]>>]
    <3>1. \A k \in 1..3 : L.facts[k].of = L.of \o <<KINDS[k]>>
      BY <1>1
    <3>. QED  BY <1>5, <3>1
  <2>3. \A fact \in ToSet(L.facts) :
          fact.schema = LEGALITY_SCHEMA /\ ~fact.named /\ fact.constraint \in CONSTRAINTS
    <3>1. \A k \in 1..3 : L.facts[k].constraint \in CONSTRAINTS
      BY <1>1, <1>5, ConstraintIsExact
    <3>. QED  BY <1>1, <1>5, <3>1 DEF ToSet
  <2>. QED  BY <2>1, <2>2, <2>3 DEF LegalityClosed
<1>7. ClaimError(claim, L) = "none"
  <2>. DEFINE tests == <<
    <<L.schema # LEGALITY_SCHEMA \/ claim.schema # CLAIM_SCHEMA \/ claim.kinds = <<>>,
      "invalid-schema">>,
    <<~LegalityClosed(L), "malformed-legality">>,
    <<claim.kinds # <<>> /\ ~(ToSet(claim.kinds[1]) \subseteq Kinds), "unknown-kind">>,
    <<claim.of # L.of, "identity-mismatch">>>>
  <2>1. /\ tests[1][1] <=> L.schema # LEGALITY_SCHEMA \/ claim.schema # CLAIM_SCHEMA
                             \/ claim.kinds = <<>>
        /\ tests[2][1] <=> ~LegalityClosed(L)
        /\ tests[3][1] <=> claim.kinds # <<>> /\ ~(ToSet(claim.kinds[1]) \subseteq Kinds)
        /\ tests[4][1] <=> claim.of # L.of
    OBVIOUS
  <2>2. DOMAIN tests = 1..4 /\ \A k \in 1..4 : k \in {1, 2, 3, 4}
    OBVIOUS
  <2>3. ClaimError(claim, L) = FirstOf(tests)
    BY DEF ClaimError
  <2>. HIDE DEF tests
  <2>4. \A k \in DOMAIN tests : ~tests[k][1]
    BY <1>1, <1>2, <1>3, <1>6, <2>1, <2>2
  <2>. QED  BY <2>3, <2>4, NoneFails
<1>8. told.status = "ok" /\ told.findings = Findings(claim, L)
  BY <1>4, <1>7 DEF Check
<1>9. PICK k \in 1..3 : KINDS[k] = kind
  BY <1>5 DEF Kinds, ToSet
<1>. DEFINE S == {j \in DOMAIN L.facts : L.facts[j].of[3] \in ToSet(claim.kinds[1])}
            claimed == Picked(L.facts, S)
<1>10. S = {k}
  <2>1. \A j \in 1..3 : KINDS[j] = KINDS[k] => j = k
    BY DEF KINDS
  <2>. QED  BY <1>1, <1>3, <1>5, <1>9, <2>1
<1>11. PICK pos : claimed \in Seq(ToSet(L.facts)) /\ Selects(claimed, pos, L.facts, {k})
  <2>. HIDE DEF S
  <2>. QED  BY <1>1, <1>5, <1>10, PickedSelects
<1>12. told.findings = [j \in DOMAIN claimed |->
         [kind |-> claimed[j].of[3], result |-> ResultFor(claimed[j].constraint),
          constraint |-> claimed[j].constraint]]
  BY <1>8, Zenon DEF Findings
<1>. HIDE DEF claimed, S, told
<1>13. Len(claimed) = 1 /\ DOMAIN claimed = 1..1 /\ claimed[1] = L.facts[k]
  <2>1. /\ Len(claimed) \in Nat /\ DOMAIN claimed = 1..Len(claimed)
        /\ \A j \in 1..Len(claimed) : pos[j] = k /\ claimed[j] = L.facts[pos[j]]
        /\ \A i, j \in 1..Len(claimed) : i # j => pos[i] # pos[j]
        /\ \E j \in 1..Len(claimed) : pos[j] = k
    BY <1>11 DEF Selects
  <2>2. ~(Len(claimed) > 1)
    <3>1. SUFFICES ASSUME 1 \in 1..Len(claimed), 2 \in 1..Len(claimed) PROVE FALSE
      BY <2>1
    <3>. QED  BY <2>1, <3>1
  <2>. QED  BY <2>1, <2>2
<1>14. Len(told.findings) = 1 /\ told.findings[1].result = ResultFor(claimed[1].constraint)
  BY <1>12, <1>13
<1>. QED  BY <1>1, <1>8, <1>9, <1>13, <1>14 DEF told

\* A claimed kind is satisfied by exactly one sound record that says yes,
\* violated by exactly one that says no or that it does not apply, and unproven
\* in every other case.
THEOREM FindingsStayExact == BagsSpec => []FindingsAreExact
<1>1. BagsInv => FindingsAreExact
  <2>. SUFFICES ASSUME BagsInv, NEW kind \in Kinds
                PROVE  LET told == ToldBy(capability, kind)
                           result == told.findings[1].result
                       IN  /\ told.status = "ok" /\ Len(told.findings) = 1
                           /\ result = "satisfy" <=>
                                OneSound(kind, LAMBDA r : r.applicability = "yes")
                           /\ result = "violate" <=>
                                OneSound(kind, LAMBDA r :
                                  \/ r.applicability = "n/a"
                                  \/ r.applicability = "no"
                                     /\ r.canonical = "capability.not-applicable")
    BY DEF FindingsAreExact
  <2>1. capability \in Seq(CapabilityRecords)
    BY DEF BagsInv
  <2>2. /\ OneSound(kind, LAMBDA r : r.applicability = "yes") <=> OneOf(capability, kind, Does)
        /\ OneSound(kind, LAMBDA r :
             \/ r.applicability = "n/a"
             \/ r.applicability = "no" /\ r.canonical = "capability.not-applicable")
             <=> OneOf(capability, kind, DoesNot)
    BY DEF OneSound, OneOf, TheRecords, Theirs, Does, DoesNot
  <2>. DEFINE c == ConstraintOf(capability, kind)
  <2>3. /\ c \in CONSTRAINTS /\ (c = "allowed" <=> OneOf(capability, kind, Does))
        /\ c \in {"forbidden", "not-applicable"} <=> OneOf(capability, kind, DoesNot)
    BY <2>1, ConstraintIsExact
  <2>. HIDE DEF c
  <2>4. /\ ResultFor(c) = "satisfy" <=> c = "allowed"
        /\ ResultFor(c) = "violate" <=> c \in {"forbidden", "not-applicable"}
    BY <2>3 DEF ResultFor, CONSTRAINTS
  <2>5. LET told == ToldBy(capability, kind)
        IN  /\ told.status = "ok" /\ Len(told.findings) = 1
            /\ told.findings[1].result = ResultFor(c)
    BY <2>1, ClaimIsAnswered DEF c
  <2>. QED  BY <2>2, <2>3, <2>4, <2>5
<1>. QED  BY <1>1, BagsInvInit, BagsInvStep, PTL DEF BagsSpec

LEMMA BagsGrow ==
  ASSUME BagsInv, [BagsNext]_bagVars
  PROVE  /\ \A i \in DOMAIN occupancy : i \in DOMAIN occupancy' /\ occupancy'[i] = occupancy[i]
         /\ \A i \in DOMAIN capability : i \in DOMAIN capability' /\ capability'[i] = capability[i]
<1>. USE DEF BagsInv
<1>1. ASSUME NEW rec \in OccupancyRecords, AddOccupancy(rec)
      PROVE  /\ \A i \in DOMAIN occupancy : i \in DOMAIN occupancy' /\ occupancy'[i] = occupancy[i]
             /\ UNCHANGED capability
  BY <1>1 DEF AddOccupancy
<1>2. ASSUME NEW rec \in CapabilityRecords, AddCapability(rec)
      PROVE  /\ \A i \in DOMAIN capability : i \in DOMAIN capability' /\ capability'[i] = capability[i]
             /\ UNCHANGED occupancy
  BY <1>2 DEF AddCapability
<1>3. ASSUME NEW row \in CatalogRows, AddCatalog(row) PROVE UNCHANGED <<occupancy, capability>>
  BY <1>3 DEF AddCatalog
<1>4. CASE UNCHANGED bagVars
  BY <1>4 DEF bagVars
<1>. QED  BY <1>1, <1>2, <1>3, <1>4 DEF BagsNext

LEMMA ManyAreTwo ==
  ASSUME NEW S, IsFiniteSet(S), Cardinality(S) > 1
  PROVE  \E i, j \in S : i # j
<1>1. SUFFICES ASSUME \A i, j \in S : i = j PROVE FALSE
  OBVIOUS
<1>2. CASE S = {}
  BY <1>2, FS_EmptySet
<1>3. ASSUME NEW i \in S PROVE FALSE
  <2>1. S = {i}
    BY <1>1
  <2>. QED  BY <2>1, FS_Singleton
<1>. QED  BY <1>2, <1>3

\* What was contradicted stays so, whatever arrives later.
THEOREM ConflictsStay == BagsSpec => ConflictStays
<1>1. ASSUME BagsInv, BagsInv', [BagsNext]_bagVars, Contradiction
      PROVE  DeriveUsable(occupancy', SELECTED_S0, OBJECT_2).result = "no"
  <2>1. PICK i, j \in About2 :
          IF i = j THEN occupancy[i].of # <<SELECTED_S0, occupancy[i].object, occupancy[i].kind>>
          ELSE occupancy[i].kind = occupancy[j].kind
    BY <1>1 DEF Contradiction
  <2>2. /\ i \in DOMAIN occupancy' /\ occupancy'[i] = occupancy[i]
        /\ j \in DOMAIN occupancy' /\ occupancy'[j] = occupancy[j]
    BY <1>1, BagsGrow DEF About2
  <2>3. Contradicts(occupancy')
    BY <2>1, <2>2 DEF Contradicts, Scoped, About2
  <2>4. occupancy' \in Seq(OccupancyRecords)
    BY <1>1 DEF BagsInv
  <2>5. Derived(occupancy').result = "no"
    BY <2>3, <2>4, ContradictionIsRefused
  <2>. QED  BY <2>5 DEF Derived
<1>2. ASSUME BagsInv, BagsInv', [BagsNext]_bagVars, NEW kind \in Kinds,
             Cardinality(TheRecords(kind)) > 1
      PROVE  ToldBy(capability', kind).findings[1].result = "unproven"
  <2>1. capability \in Seq(CapabilityRecords) /\ capability' \in Seq(CapabilityRecords)
    BY <1>2 DEF BagsInv
  <2>2. IsFiniteSet(TheRecords(kind))
    <3>1. TheRecords(kind) \subseteq 1..Len(capability) /\ Len(capability) \in Nat
      BY <2>1 DEF TheRecords
    <3>2. 1 \in Int /\ Len(capability) \in Int
      BY <3>1
    <3>3. IsFiniteSet(1..Len(capability))
      BY <3>2, FS_Interval
    <3>. QED  BY <3>1, <3>3, FS_Subset
  <2>3. PICK i, j \in TheRecords(kind) : i # j
    BY <1>2, <2>2, ManyAreTwo
  <2>4. i \in Theirs(capability', kind) /\ j \in Theirs(capability', kind)
    BY <1>2, <2>3, BagsGrow DEF TheRecords, Theirs
  <2>. DEFINE c == ConstraintOf(capability', kind)
  <2>5. /\ c \in CONSTRAINTS /\ (c = "allowed" <=> OneOf(capability', kind, Does))
        /\ c \in {"forbidden", "not-applicable"} <=> OneOf(capability', kind, DoesNot)
    BY <2>1, ConstraintIsExact
  <2>6. ~OneOf(capability', kind, Does) /\ ~OneOf(capability', kind, DoesNot)
    BY <2>3, <2>4 DEF OneOf
  <2>7. ToldBy(capability', kind).findings[1].result = ResultFor(c)
    BY <2>1, ClaimIsAnswered
  <2>. HIDE DEF c
  <2>8. ResultFor(c) = "unproven"
    BY <2>5, <2>6 DEF ResultFor, CONSTRAINTS
  <2>. QED  BY <2>7, <2>8
<1>3. BagsInv /\ BagsInv' /\ [BagsNext]_bagVars =>
        [/\ Contradiction => DeriveUsable(occupancy', SELECTED_S0, OBJECT_2).result = "no"
         /\ \A kind \in Kinds :
              Cardinality(TheRecords(kind)) > 1 =>
                ToldBy(capability', kind).findings[1].result = "unproven"]_bagVars
  BY <1>1, <1>2
<1>. QED  BY <1>3, BagsInvInit, BagsInvStep, PTL DEF BagsSpec, ConflictStays

-----------------------------------------------------------------------------
(***************************************************************************)
(* The reading of a campaign's log, by the equations it solves.            *)
(***************************************************************************)
Pairs == ToSet(Catalog!PAIRS)
MadeRows(log) == [
  verdict : {<<>>} \cup {<<line>> : line \in ToSet(log)},
  pair : Pairs, n : Int,
  json : {<<>>} \cup {<<line.row>> : line \in {x \in ToSet(log) : x.tag = "json"}}]
Reads(log) == [made : Seq(MadeRows(log)), pending : [Pairs -> Nat], rows : Seq(Nat)]

LEMMA Replaced ==
  ASSUME NEW M, NEW s \in Seq(M), NEW at, NEW e, at \in DOMAIN s => e \in M
  PROVE  LET t == [s EXCEPT ![at] = e]
         IN  /\ t \in Seq(M) /\ Len(t) = Len(s)
             /\ \A i \in DOMAIN s : t[i] = IF i = at THEN e ELSE s[i]
<1>. DEFINE t == [i \in DOMAIN s |-> IF i = at THEN e ELSE s[i]]
<1>1. DOMAIN s = 1..Len(s) /\ Len(s) \in Nat /\ \A i \in 1..Len(s) : s[i] \in M
  OBVIOUS
<1>2. [s EXCEPT ![at] = e] = t
  OBVIOUS
<1>3. t \in Seq(M)
  <2>1. \A i \in 1..Len(s) : (IF i = at THEN e ELSE s[i]) \in M
    BY <1>1
  <2>2. [i \in 1..Len(s) |-> IF i = at THEN e ELSE s[i]] \in Seq(M)
    BY <1>1, <2>1
  <2>. QED  BY <1>1, <2>2, Zenon
<1>4. Len(t) = Len(s) /\ \A i \in DOMAIN s : t[i] = IF i = at THEN e ELSE s[i]
  BY <1>1
<1>. HIDE DEF t
<1>. QED  BY <1>2, <1>3, <1>4, Zenon

LEMMA RowsOfM ==
  ASSUME NEW log, NEW m \in MadeRows(log)
  PROVE  /\ \A n \in Int : LET t == [m EXCEPT !.n = n] IN
              /\ t \in MadeRows(log) /\ t.n = n
              /\ t.verdict = m.verdict /\ t.pair = m.pair
         /\ \A x \in {y \in ToSet(log) : y.tag = "json"} : LET t == [m EXCEPT !.json = <<x.row>>] IN
              /\ t \in MadeRows(log) /\ t.n = m.n
              /\ t.verdict = m.verdict /\ t.pair = m.pair
BY DEF MadeRows

(***************************************************************************)
(* What a line changes: a verdict makes a row and is pending, a timing     *)
(* lists the pending row or one without a verdict, and a json line changes *)
(* nothing else of the rows.                                               *)
(***************************************************************************)
Alike(read, next, n) == \A x \in 1..n :
  next.made[x].verdict = read.made[x].verdict /\ next.made[x].pair = read.made[x].pair
Effect(log, read, line, next) ==
  LET n == Len(read.made)
      r == Len(read.rows)
      known == read.pending[line.pair]
  IN  /\ next \in Reads(log) /\ Alike(read, next, n)
      /\ \A i \in 1..r : next.rows[i] = read.rows[i]
      /\ line.tag = "verdict" =>
           /\ Len(next.made) = n + 1 /\ Len(next.rows) = r
           /\ next.made[n + 1].verdict = <<line>> /\ next.made[n + 1].pair = line.pair
           /\ next.pending = [read.pending EXCEPT ![line.pair] = n + 1]
           /\ \A x \in 1..n : next.made[x].n = read.made[x].n
      /\ line.tag = "timing" =>
           /\ next.pending = read.pending /\ Len(next.rows) = r + 1
           /\ \A x \in 1..n : next.made[x].n \in {read.made[x].n, line.n}
           /\ known # 0 => /\ Len(next.made) = n /\ next.rows[r + 1] = known
                           /\ known \in 1..n => next.made[known].n = line.n
           /\ known = 0 =>
                /\ Len(next.made) = n + 1 /\ next.rows[r + 1] = n + 1
                /\ next.made[n + 1].verdict = <<>> /\ next.made[n + 1].n = line.n
                /\ next.made[n + 1].pair = line.pair
      /\ line.tag = "json" =>
           /\ next.pending = read.pending /\ Len(next.rows) = r /\ Len(next.made) = n
           /\ \A x \in 1..n : next.made[x].n = read.made[x].n

LEMMA ReadLineEffect ==
  ASSUME NEW log, NEW read \in Reads(log), NEW line \in ToSet(log), IsLine(line)
  PROVE  Effect(log, read, line, Catalog!ReadLine(read, line))
<1>. DEFINE M == MadeRows(log)
            n == Len(read.made)
            r == Len(read.rows)
            known == read.pending[line.pair]
            next == Catalog!ReadLine(read, line)
<1>1. /\ read.made \in Seq(M) /\ read.pending \in [Pairs -> Nat] /\ read.rows \in Seq(Nat)
      /\ read = [made |-> read.made, pending |-> read.pending, rows |-> read.rows]
  BY DEF Reads
<1>2. line.pair \in Pairs /\ line.tag \in {"verdict", "timing", "json"}
  BY DEF IsLine, Pairs
<1>3. /\ n \in Nat /\ n + 1 \in Nat /\ r \in Nat /\ known \in Nat /\ DOMAIN read.made = 1..n
      /\ \A x \in 1..n : read.made[x] \in M
  BY <1>1, <1>2
<1>. HIDE DEF M, n, r, known
<1>4. CASE line.tag = "verdict"
  <2>. DEFINE new == [verdict |-> <<line>>, pair |-> line.pair, n |-> -1, json |-> <<>>]
  <2>1. new \in M /\ new.verdict = <<line>> /\ new.pair = line.pair
    BY <1>2 DEF M, MadeRows
  <2>. HIDE DEF new
  <2>2. /\ Append(read.made, new) \in Seq(M) /\ Len(Append(read.made, new)) = n + 1
        /\ Append(read.made, new)[n + 1] = new
        /\ \A x \in 1..n : Append(read.made, new)[x] = read.made[x]
    BY <1>1, <2>1 DEF n
  <2>3. [read.pending EXCEPT ![line.pair] = n + 1] \in [Pairs -> Nat]
    BY <1>1, <1>2, <1>3
  <2>4. next = [made |-> Append(read.made, new),
                pending |-> [read.pending EXCEPT ![line.pair] = n + 1], rows |-> read.rows]
    BY <1>1, <1>4 DEF Catalog!ReadLine, Catalog!VerdictLine, Catalog!NoSize, new, n
  <2>. HIDE DEF next
  <2>5. next \in Reads(log)
    BY <1>1, <2>2, <2>3, <2>4 DEF Reads, M
  <2>. QED  BY <1>4, <2>1, <2>2, <2>4, <2>5 DEF Effect, Alike, n, r, next
<1>5. CASE line.tag = "timing"
  <2>. DEFINE new == [verdict |-> <<>>, pair |-> line.pair, n |-> line.n, json |-> <<>>]
  <2>0. line.n \in Int
    BY <1>5 DEF IsLine
  <2>1. /\ new \in M /\ new.verdict = <<>> /\ new.pair = line.pair /\ new.n = line.n
    BY <1>2, <2>0 DEF M, MadeRows
  <2>2. next = Catalog!TimingLine(read, line)
    BY <1>5, Zenon DEF Catalog!ReadLine
  <2>. HIDE DEF new, next
  <2>3. CASE known # 0
    <3>. DEFINE e == [read.made[known] EXCEPT !.n = line.n]
                t == [read.made EXCEPT ![known] = e]
    <3>1. next = [made |-> t, pending |-> read.pending, rows |-> Append(read.rows, known)]
      BY <1>1, <2>2, <2>3 DEF Catalog!TimingLine, Catalog!NoRow, known
    <3>2. known \in DOMAIN read.made =>
            /\ e \in M /\ e.n = line.n /\ e.verdict = read.made[known].verdict
            /\ e.pair = read.made[known].pair
      BY <1>3, <2>0, RowsOfM DEF M
    <3>. HIDE DEF e
    <3>3. /\ t \in Seq(M) /\ Len(t) = n
          /\ \A x \in DOMAIN read.made : t[x] = IF x = known THEN e ELSE read.made[x]
      BY <1>1, <3>2, Replaced DEF n
    <3>. HIDE DEF t
    <3>4. /\ Append(read.rows, known) \in Seq(Nat) /\ Len(Append(read.rows, known)) = r + 1
          /\ Append(read.rows, known)[r + 1] = known
          /\ \A i \in 1..r : Append(read.rows, known)[i] = read.rows[i]
      BY <1>1, <1>3 DEF r
    <3>5. next \in Reads(log)
      BY <1>1, <3>1, <3>3, <3>4 DEF Reads, M
    <3>6. \A x \in 1..n : /\ t[x].verdict = read.made[x].verdict /\ t[x].pair = read.made[x].pair
                          /\ t[x].n \in {read.made[x].n, line.n}
                          /\ x = known => t[x].n = line.n
      BY <1>3, <3>2, <3>3
    <3>7. /\ next.made = t /\ next.pending = read.pending /\ next.rows = Append(read.rows, known)
      BY <3>1
    <3>. QED  BY <1>5, <2>3, <3>3, <3>4, <3>5, <3>6, <3>7 DEF Effect, Alike, n, r, known, next
  <2>4. CASE known = 0
    <3>1. next = [made |-> Append(read.made, new), pending |-> read.pending,
                  rows |-> Append(read.rows, n + 1)]
      BY <1>1, <2>2, <2>4 DEF Catalog!TimingLine, Catalog!NoRow, new, known, n
    <3>2. /\ Append(read.made, new) \in Seq(M) /\ Len(Append(read.made, new)) = n + 1
          /\ Append(read.made, new)[n + 1] = new
          /\ \A x \in 1..n : Append(read.made, new)[x] = read.made[x]
      BY <1>1, <2>1 DEF n
    <3>3. /\ Append(read.rows, n + 1) \in Seq(Nat) /\ Len(Append(read.rows, n + 1)) = r + 1
          /\ Append(read.rows, n + 1)[r + 1] = n + 1
          /\ \A i \in 1..r : Append(read.rows, n + 1)[i] = read.rows[i]
      BY <1>1, <1>3 DEF r
    <3>4. next \in Reads(log)
      BY <1>1, <3>1, <3>2, <3>3 DEF Reads, M
    <3>. QED  BY <1>5, <2>1, <2>4, <3>1, <3>2, <3>3, <3>4 DEF Effect, Alike, n, r, known, next
  <2>. QED  BY <2>3, <2>4
<1>6. CASE line.tag = "json"
  <2>1. next = Catalog!JsonLine(read, line)
    BY <1>6, Zenon DEF Catalog!ReadLine
  <2>. HIDE DEF next
  <2>2. PICK at : next \in {read, [read EXCEPT !.made[at].json = <<line.row>>]}
    BY <2>1, Zenon DEF Catalog!JsonLine
  <2>3. CASE next = read
    BY <1>1, <1>6, <2>3 DEF Effect, Alike, next
  <2>4. CASE next = [read EXCEPT !.made[at].json = <<line.row>>]
    <3>. DEFINE e == [read.made[at] EXCEPT !.json = <<line.row>>]
                t == [read.made EXCEPT ![at] = e]
    <3>1. next = [read EXCEPT !.made = t]
      BY <2>4, Zenon
    <3>2. at \in DOMAIN read.made =>
            /\ e \in M /\ e.n = read.made[at].n /\ e.verdict = read.made[at].verdict
            /\ e.pair = read.made[at].pair
      BY <1>3, <1>6, RowsOfM DEF M
    <3>. HIDE DEF e
    <3>3. /\ t \in Seq(M) /\ Len(t) = n
          /\ \A x \in DOMAIN read.made : t[x] = IF x = at THEN e ELSE read.made[x]
      BY <1>1, <3>2, Replaced DEF n
    <3>. HIDE DEF t
    <3>4. next.made = t /\ next.pending = read.pending /\ next.rows = read.rows
          /\ next = [made |-> t, pending |-> read.pending, rows |-> read.rows]
      BY <1>1, <3>1
    <3>5. next \in Reads(log)
      BY <1>1, <3>3, <3>4 DEF Reads, M
    <3>6. \A x \in 1..n : /\ t[x].verdict = read.made[x].verdict /\ t[x].pair = read.made[x].pair
                          /\ t[x].n = read.made[x].n
      BY <1>3, <3>2, <3>3
    <3>. QED  BY <1>6, <3>3, <3>4, <3>5, <3>6 DEF Effect, Alike, n, r, next
  <2>. QED  BY <2>2, <2>3, <2>4
<1>. QED  BY <1>2, <1>4, <1>5, <1>6

LEMMA ReadingUnfolds ==
  ASSUME NEW log \in Campaigns
  PROVE  LET R == Catalog!Reading(log)
         IN  /\ Len(log) \in Nat /\ R[0] = Catalog!EmptyLog /\ R[0] \in Reads(log)
             /\ \A l \in 1..Len(log) :
                  /\ IsLine(log[l]) /\ log[l] \in ToSet(log)
                  /\ R[l - 1] \in Reads(log) /\ R[l] = Catalog!ReadLine(R[l - 1], log[l])
<1>. DEFINE n == Len(log)
            X == Reads(log)
            E(g) == g = [i \in 0..n |-> IF i = 0 THEN Catalog!EmptyLog
                                        ELSE Catalog!ReadLine(g[i - 1], log[i])]
            it == CHOOSE g : E(g)
            F == [i \in 1..n |-> [v \in X |-> Catalog!ReadLine(v, log[i])]]
<1>1. Catalog!Reading(log) = it
  BY DEF Catalog!Reading
<1>2. /\ n \in Nat /\ DOMAIN log = 1..n
      /\ \A i \in 1..n : IsLine(log[i]) /\ log[i] \in ToSet(log)
  <2>1. log \in Seq(ToSet(log)) /\ \A i \in DOMAIN log : IsLine(log[i])
    BY CampaignsAreLogs
  <2>. QED  BY <2>1
<1>. HIDE DEF n
<1>3. Catalog!EmptyLog \in X
  <2>1. Catalog!ToSet(Catalog!PAIRS) = Pairs
    BY DEF Catalog!ToSet, ToSet, Pairs
  <2>2. [pair \in Pairs |-> 0] \in [Pairs -> Nat] /\ <<>> \in Seq(MadeRows(log)) /\ <<>> \in Seq(Nat)
    OBVIOUS
  <2>3. Catalog!EmptyLog = [made |-> <<>>, pending |-> [pair \in Pairs |-> 0], rows |-> <<>>]
    BY <2>1 DEF Catalog!EmptyLog, Catalog!NoRow
  <2>. QED  BY <2>2, <2>3 DEF Reads
<1>4. \A i \in 1..n, v \in X : Catalog!ReadLine(v, log[i]) \in X
  BY <1>2, ReadLineEffect DEF Effect
<1>5. F \in StepsOf(X, n)
  <2>. HIDE DEF X
  <2>. QED  BY <1>4 DEF StepsOf
<1>6. PICK h : Iteration(h, X, Catalog!EmptyLog, n, F)
  <2>. HIDE DEF F, X
  <2>. QED  BY <1>2, <1>3, <1>5, IterationExists, Zenon
<1>. HIDE DEF X
<1>7. /\ h \in [0..n -> X] /\ h[0] = Catalog!EmptyLog
      /\ \A i \in 1..n : h[i] = Catalog!ReadLine(h[i - 1], log[i])
  <2>1. h \in [0..n -> X] /\ h[0] = Catalog!EmptyLog /\ \A i \in 1..n : h[i] = F[i][h[i - 1]]
    BY <1>6 DEF Iteration
  <2>2. \A i \in 1..n : i - 1 \in 0..n
    BY <1>2
  <2>3. \A i \in 1..n : h[i - 1] \in X
    BY <2>1, <2>2
  <2>. QED  BY <2>1, <2>3
<1>8. E(h)
  <2>1. \A i \in 0..n : i = 0 \/ (i \in 1..n /\ i # 0)
    BY <1>2
  <2>2. \A i \in 0..n : h[i] = IF i = 0 THEN Catalog!EmptyLog
                                ELSE Catalog!ReadLine(h[i - 1], log[i])
    BY <1>7, <2>1
  <2>3. h = [i \in 0..n |-> h[i]]
    BY <1>7
  <2>. QED  BY <2>2, <2>3, Zenon
<1>9. E(it)
  <2>. HIDE DEF E
  <2>. QED  BY <1>8
<1>10. /\ it[0] = Catalog!EmptyLog
       /\ \A i \in 1..n : it[i] = Catalog!ReadLine(it[i - 1], log[i])
  <2>. DEFINE e == [i \in 0..n |-> IF i = 0 THEN Catalog!EmptyLog
                                   ELSE Catalog!ReadLine(it[i - 1], log[i])]
  <2>1. it = e
    BY <1>9
  <2>. HIDE DEF it
  <2>2. 0 \in 0..n /\ \A i \in 1..n : i \in 0..n /\ i # 0
    BY <1>2
  <2>3. e[0] = Catalog!EmptyLog /\ \A i \in 1..n : e[i] = Catalog!ReadLine(it[i - 1], log[i])
    BY <2>2
  <2>. HIDE DEF e
  <2>. QED  BY <2>1, <2>3
<1>. HIDE DEF it, E
<1>. DEFINE T == {i \in 0..n : it[i] \in X}
<1>11. 0 \in T /\ \A i \in 1..n : i - 1 \in T => i \in T
  <2>1. 0 \in 0..n /\ \A i \in 1..n : i \in 0..n
    BY <1>2
  <2>. QED  BY <1>3, <1>4, <1>10, <2>1
<1>12. 0..n \subseteq T
  <2>. HIDE DEF T
  <2>. QED  BY <1>2, <1>11, StepsReach
<1>13. \A i \in 1..n : i - 1 \in 0..n
  BY <1>2
<1>. QED  BY <1>1, <1>2, <1>3, <1>10, <1>12, <1>13 DEF n, X

(***************************************************************************)
(* Up to a line, the rows listed for a pair have the verdicts that a       *)
(* timing followed, and what is pending is the last verdict.               *)
(***************************************************************************)
VerdictAt(log, i, pair) == log[i].tag = "verdict" /\ log[i].pair = pair
TimingAt(log, j, pair) == log[j].tag = "timing" /\ log[j].pair = pair
\* Line i is the last verdict of the pair before line j.
LastVerdict(log, i, j, pair) ==
  VerdictAt(log, i, pair) /\ \A k \in (i + 1)..(j - 1) : ~VerdictAt(log, k, pair)
TimedUpTo(log, l, pair) ==
  {log[i].relation : i \in {i \in 1..l :
     \E j \in (i + 1)..l : TimingAt(log, j, pair) /\ LastVerdict(log, i, j, pair)}}
Counted(read, pair) ==
  {i \in 1..Len(read.rows) :
     /\ read.made[read.rows[i]].pair = pair
     /\ read.made[read.rows[i]].verdict # <<>>}
MeasuredIn(read, pair) ==
  {read.made[read.rows[i]].verdict[1].relation : i \in Counted(read, pair)}
PendingInv(log, l, read) ==
  \A pair \in Pairs :
    /\ read.pending[pair] \in 0..Len(read.made)
    /\ read.pending[pair] = 0 => \A i \in 1..l : ~VerdictAt(log, i, pair)
    /\ read.pending[pair] # 0 => \E i \in 1..l :
         /\ LastVerdict(log, i, l + 1, pair)
         /\ read.made[read.pending[pair]].verdict = <<log[i]>>
         /\ read.made[read.pending[pair]].pair = pair
RowsInv(read) ==
  \A i \in 1..Len(read.rows) :
    read.rows[i] \in 1..Len(read.made) /\ read.made[read.rows[i]].n \in Nat
ReadInv(log, l, read) ==
  /\ PendingInv(log, l, read) /\ RowsInv(read)
  /\ \A pair \in Pairs : MeasuredIn(read, pair) = TimedUpTo(log, l, pair)

LEMMA EmptyIsRead ==
  ASSUME NEW log
  PROVE  ReadInv(log, 0, Catalog!EmptyLog)
<1>. DEFINE read == Catalog!EmptyLog
<1>1. Catalog!ToSet(Catalog!PAIRS) = Pairs
  BY DEF Catalog!ToSet, ToSet, Pairs
<1>2. /\ read.made = <<>> /\ read.rows = <<>> /\ \A pair \in Pairs : read.pending[pair] = 0
  BY <1>1 DEF Catalog!EmptyLog, Catalog!NoRow
<1>. HIDE DEF read
<1>3. Len(read.made) = 0 /\ Len(read.rows) = 0 /\ 1..0 = {}
  BY <1>2
<1>4. PendingInv(log, 0, read) /\ RowsInv(read)
  BY <1>2, <1>3 DEF PendingInv, RowsInv
<1>5. \A pair \in Pairs : MeasuredIn(read, pair) = {} /\ TimedUpTo(log, 0, pair) = {}
  BY <1>3 DEF MeasuredIn, Counted, TimedUpTo
<1>. QED  BY <1>4, <1>5 DEF ReadInv, read

\* A line of another kind times no verdict.
LEMMA TimingsTime ==
  ASSUME NEW log, NEW l \in Nat \ {0}, NEW pair
  PROVE  LET now == {i \in 1..(l - 1) : LastVerdict(log, i, l, pair)}
         IN  TimedUpTo(log, l, pair) = TimedUpTo(log, l - 1, pair) \cup
               IF TimingAt(log, l, pair) THEN {log[i].relation : i \in now} ELSE {}
<1>. DEFINE Timed0(m) == {i \in 1..m :
              \E j \in (i + 1)..m : TimingAt(log, j, pair) /\ LastVerdict(log, i, j, pair)}
            now == {i \in 1..(l - 1) : LastVerdict(log, i, l, pair)}
<1>1. \A i \in 1..l : \A j : j \in (i + 1)..l <=>
        (i \in 1..(l - 1) /\ j \in (i + 1)..(l - 1)) \/ (i \in 1..(l - 1) /\ j = l)
  OBVIOUS
<1>2. \A i \in 1..(l - 1) : i \in 1..l
  OBVIOUS
<1>3. Timed0(l) = Timed0(l - 1) \cup IF TimingAt(log, l, pair) THEN now ELSE {}
  BY <1>1, <1>2
<1>. QED  BY <1>3 DEF TimedUpTo

LEMMA NothingTimed ==
  ASSUME NEW log, NEW l \in Nat \ {0}, NEW pair, ~TimingAt(log, l, pair)
  PROVE  TimedUpTo(log, l, pair) = TimedUpTo(log, l - 1, pair)
<1>. DEFINE now == {i \in 1..(l - 1) : LastVerdict(log, i, l, pair)}
<1>1. TimedUpTo(log, l, pair) = TimedUpTo(log, l - 1, pair) \cup
        IF TimingAt(log, l, pair) THEN {log[i].relation : i \in now} ELSE {}
  BY TimingsTime
<1>. QED  BY <1>1

LEMMA ReadInvStep ==
  ASSUME NEW log \in Campaigns, NEW l \in 1..Len(log), NEW read \in Reads(log),
         NEW next, Effect(log, read, log[l], next), ReadInv(log, l - 1, read)
  PROVE  ReadInv(log, l, next)
<1>. DEFINE line == log[l]
            n == Len(read.made)
            r == Len(read.rows)
            known == read.pending[line.pair]
<1>1. IsLine(line) /\ l \in Nat \ {0} /\ line.pair \in Pairs
      /\ line.tag \in {"verdict", "timing", "json"}
  <2>1. log \in Seq(ToSet(log)) /\ \A i \in DOMAIN log : IsLine(log[i])
    BY CampaignsAreLogs
  <2>. QED  BY <2>1 DEF IsLine, Pairs
<1>2. /\ n \in Nat /\ r \in Nat /\ next \in Reads(log) /\ read.pending \in [Pairs -> Nat]
      /\ Alike(read, next, n) /\ \A i \in 1..r : next.rows[i] = read.rows[i]
      /\ Len(next.made) \in Nat
  BY DEF Effect, Reads
<1>3. /\ PendingInv(log, l - 1, read) /\ RowsInv(read)
      /\ \A pair \in Pairs : MeasuredIn(read, pair) = TimedUpTo(log, l - 1, pair)
  BY DEF ReadInv
<1>. HIDE DEF n, r, known, line
<1>4. \A i \in 1..r : /\ read.rows[i] \in 1..n /\ next.rows[i] = read.rows[i]
                       /\ next.made[read.rows[i]].verdict = read.made[read.rows[i]].verdict
                       /\ next.made[read.rows[i]].pair = read.made[read.rows[i]].pair
  BY <1>2, <1>3 DEF RowsInv, Alike, n, r
<1>5. ASSUME Len(next.rows) = r
      PROVE  \A pair \in Pairs : MeasuredIn(next, pair) = MeasuredIn(read, pair)
  <2>. SUFFICES ASSUME NEW pair \in Pairs PROVE MeasuredIn(next, pair) = MeasuredIn(read, pair)
    OBVIOUS
  <2>1. Counted(next, pair) = Counted(read, pair)
    BY <1>4, <1>5 DEF Counted, r
  <2>2. \A i \in Counted(read, pair) : i \in 1..r
    BY DEF Counted, r
  <2>. DEFINE old(i) == read.made[read.rows[i]].verdict[1].relation
              new(i) == next.made[next.rows[i]].verdict[1].relation
  <2>3. \A i \in Counted(read, pair) : new(i) = old(i)
    BY <1>4, <2>2
  <2>4. MeasuredIn(next, pair) = {new(i) : i \in Counted(read, pair)}
    BY <2>1 DEF MeasuredIn
  <2>5. MeasuredIn(read, pair) = {old(i) : i \in Counted(read, pair)}
    BY DEF MeasuredIn
  <2>. HIDE DEF old, new
  <2>. QED  BY <2>3, <2>4, <2>5
\* What is pending stays so over a line that is no verdict of the pair.
<1>6. ASSUME NEW pair \in Pairs, ~VerdictAt(log, l, pair), next.pending[pair] = read.pending[pair],
             Len(next.made) >= n
      PROVE  /\ next.pending[pair] \in 0..Len(next.made)
             /\ next.pending[pair] = 0 => \A i \in 1..l : ~VerdictAt(log, i, pair)
             /\ next.pending[pair] # 0 => \E i \in 1..l :
                  /\ LastVerdict(log, i, l + 1, pair)
                  /\ next.made[next.pending[pair]].verdict = <<log[i]>>
                  /\ next.made[next.pending[pair]].pair = pair
  <2>1. next.pending[pair] \in 0..n /\ next.pending[pair] \in 0..Len(next.made)
    <3>1. Len(next.made) \in Nat
      BY <1>2 DEF Reads
    <3>2. read.pending[pair] \in 0..n
      BY <1>3, <1>6 DEF PendingInv, n
    <3>. QED  BY <1>2, <1>6, <3>1, <3>2
  <2>2. \A i \in 1..l : i \in 1..(l - 1) \/ i = l
    BY <1>1
  <2>3. ASSUME next.pending[pair] = 0 PROVE \A i \in 1..l : ~VerdictAt(log, i, pair)
    <3>1. \A i \in 1..(l - 1) : ~VerdictAt(log, i, pair)
      BY <1>3, <1>6, <2>3 DEF PendingInv
    <3>. QED  BY <1>6, <2>2, <3>1
  <2>4. ASSUME next.pending[pair] # 0
        PROVE  \E i \in 1..l :
                  /\ LastVerdict(log, i, l + 1, pair)
                  /\ next.made[next.pending[pair]].verdict = <<log[i]>>
                  /\ next.made[next.pending[pair]].pair = pair
    <3>1. PICK i \in 1..(l - 1) :
                  /\ LastVerdict(log, i, l, pair)
                  /\ read.made[read.pending[pair]].verdict = <<log[i]>>
                  /\ read.made[read.pending[pair]].pair = pair
      <4>1. l - 1 + 1 = l
        BY <1>1
      <4>. QED  BY <1>3, <1>6, <2>4, <4>1 DEF PendingInv
    <3>2. next.pending[pair] \in 1..n
      BY <1>2, <2>1, <2>4
    <3>3. \A k \in (i + 1)..(l + 1 - 1) : k \in (i + 1)..(l - 1) \/ k = l
      BY <1>1
    <3>4. LastVerdict(log, i, l + 1, pair)
      BY <1>6, <3>1, <3>3 DEF LastVerdict
    <3>5. i \in 1..l
      BY <1>1
    <3>. QED  BY <1>2, <1>6, <3>1, <3>2, <3>4, <3>5 DEF Alike
  <2>. QED  BY <2>1, <2>3, <2>4
<1>7. ASSUME Len(next.made) >= n,
              \A x \in 1..n : next.made[x].n \in {read.made[x].n} \/ next.made[x].n \in Nat
       PROVE  \A i \in 1..r : /\ next.rows[i] \in 1..Len(next.made)
                              /\ next.made[next.rows[i]].n \in Nat
  <2>1. \A i \in 1..r : read.made[read.rows[i]].n \in Nat
    BY <1>3 DEF RowsInv, r
  <2>2. \A x \in 1..n : x \in 1..Len(next.made)
    BY <1>2, <1>7
  <2>. QED  BY <1>4, <1>7, <2>1, <2>2
<1>8. CASE line.tag = "verdict"
  <2>1. /\ Len(next.made) = n + 1 /\ Len(next.rows) = r
        /\ next.made[n + 1].verdict = <<line>> /\ next.made[n + 1].pair = line.pair
        /\ next.pending = [read.pending EXCEPT ![line.pair] = n + 1]
        /\ \A x \in 1..n : next.made[x].n = read.made[x].n
    BY <1>8 DEF Effect, n, r, line
  <2>2. \A pair \in Pairs : VerdictAt(log, l, pair) <=> pair = line.pair
    BY <1>8 DEF VerdictAt, line
  <2>3. PendingInv(log, l, next)
    <3>. SUFFICES ASSUME NEW pair \in Pairs
                  PROVE  /\ next.pending[pair] \in 0..Len(next.made)
                         /\ next.pending[pair] = 0 => \A i \in 1..l : ~VerdictAt(log, i, pair)
                         /\ next.pending[pair] # 0 => \E i \in 1..l :
                              /\ LastVerdict(log, i, l + 1, pair)
                              /\ next.made[next.pending[pair]].verdict = <<log[i]>>
                              /\ next.made[next.pending[pair]].pair = pair
      BY DEF PendingInv
    <3>1. CASE pair # line.pair
      <4>1. next.pending[pair] = read.pending[pair] /\ ~VerdictAt(log, l, pair)
        BY <1>2, <2>1, <2>2, <3>1
      <4>2. Len(next.made) >= n
        BY <1>2, <2>1
      <4>. QED  BY <1>6, <4>1, <4>2
    <3>2. CASE pair = line.pair
      <4>1. next.pending[pair] = n + 1 /\ n + 1 # 0 /\ n + 1 \in 0..(n + 1)
        BY <1>2, <2>1, <3>2
      <4>2. LastVerdict(log, l, l + 1, pair)
        BY <1>1, <2>2, <3>2 DEF LastVerdict
      <4>3. l \in 1..l
        BY <1>1
      <4>. QED  BY <2>1, <3>2, <4>1, <4>2, <4>3 DEF line
    <3>. QED  BY <3>1, <3>2
  <2>4. RowsInv(next)
    BY <1>2, <1>7, <2>1 DEF RowsInv
  <2>5. \A pair \in Pairs : TimedUpTo(log, l, pair) = TimedUpTo(log, l - 1, pair)
    <3>1. \A pair \in Pairs : ~TimingAt(log, l, pair)
      BY <1>8 DEF TimingAt, line
    <3>. QED  BY <1>1, <3>1, NothingTimed
  <2>. QED  BY <1>3, <1>5, <2>1, <2>3, <2>4, <2>5 DEF ReadInv
<1>9. CASE line.tag = "timing"
  <2>1. /\ next.pending = read.pending /\ Len(next.rows) = r + 1
        /\ \A x \in 1..n : next.made[x].n \in {read.made[x].n, line.n}
        /\ known # 0 => /\ Len(next.made) = n /\ next.rows[r + 1] = known
                        /\ known \in 1..n => next.made[known].n = line.n
        /\ known = 0 => /\ Len(next.made) = n + 1 /\ next.rows[r + 1] = n + 1
                        /\ next.made[n + 1].verdict = <<>> /\ next.made[n + 1].n = line.n
                        /\ next.made[n + 1].pair = line.pair
    BY <1>9 DEF Effect, n, r, known, line
  <2>2. \A pair \in Pairs : /\ ~VerdictAt(log, l, pair)
                            /\ TimingAt(log, l, pair) <=> pair = line.pair
    BY <1>9 DEF VerdictAt, TimingAt, line
  <2>3. known \in 0..n /\ Len(next.made) >= n /\ line.n \in Nat
    BY <1>1, <1>2, <1>3, <1>9, <2>1 DEF PendingInv, IsLine, known, n
  <2>4. PendingInv(log, l, next)
    BY <1>6, <2>1, <2>2, <2>3 DEF PendingInv
  <2>5. RowsInv(next)
    <3>1. \A i \in 1..(r + 1) : i \in 1..r \/ i = r + 1
      BY <1>2
    <3>2. \A i \in 1..r : next.rows[i] \in 1..Len(next.made) /\ next.made[next.rows[i]].n \in Nat
      BY <1>7, <2>1, <2>3
    <3>3. /\ next.rows[r + 1] \in 1..Len(next.made)
          /\ next.made[next.rows[r + 1]].n \in Nat
      <4>1. CASE known = 0
        <5>1. Len(next.made) = n + 1 /\ next.rows[r + 1] = n + 1 /\ next.made[n + 1].n = line.n
          BY <2>1, <4>1
        <5>2. n + 1 \in 1..(n + 1)
          BY <1>2
        <5>. QED  BY <2>3, <5>1, <5>2
      <4>2. CASE known # 0
        <5>1. known \in 1..n
          BY <1>2, <2>3, <4>2
        <5>2. Len(next.made) = n /\ next.rows[r + 1] = known /\ next.made[known].n = line.n
          BY <2>1, <4>2, <5>1
        <5>. QED  BY <2>3, <5>1, <5>2
      <4>. QED  BY <4>1, <4>2
    <3>. QED  BY <2>1, <3>1, <3>2, <3>3 DEF RowsInv
  <2>6. ASSUME NEW pair \in Pairs
        PROVE  MeasuredIn(next, pair) = TimedUpTo(log, l, pair)
    <3>. DEFINE old(i) == read.made[read.rows[i]].verdict[1].relation
                new(i) == next.made[next.rows[i]].verdict[1].relation
                now == {i \in 1..(l - 1) : LastVerdict(log, i, l, pair)}
                counts == /\ next.made[next.rows[r + 1]].pair = pair
                          /\ next.made[next.rows[r + 1]].verdict # <<>>
    <3>1. \A i \in 1..(r + 1) : i \in 1..r \/ i = r + 1
      BY <1>2
    <3>2. \A i \in 1..r : i \in 1..(r + 1) /\ i # r + 1
      BY <1>2
    <3>3. Counted(next, pair) = Counted(read, pair) \cup IF counts THEN {r + 1} ELSE {}
      <4>1. Counted(next, pair) =
              {i \in 1..(r + 1) : /\ next.made[next.rows[i]].pair = pair
                                  /\ next.made[next.rows[i]].verdict # <<>>}
        BY <2>1 DEF Counted
      <4>2. Counted(read, pair) =
              {i \in 1..r : /\ next.made[next.rows[i]].pair = pair
                            /\ next.made[next.rows[i]].verdict # <<>>}
        BY <1>4 DEF Counted, r
      <4>3. r + 1 \in 1..(r + 1)
        BY <1>2
      <4>. QED  BY <3>1, <3>2, <4>1, <4>2, <4>3
    <3>4. \A i \in Counted(read, pair) : new(i) = old(i)
      BY <1>4 DEF Counted, r
    <3>5. MeasuredIn(next, pair) = {new(i) : i \in Counted(next, pair)}
      BY DEF MeasuredIn
    <3>6. MeasuredIn(read, pair) = {old(i) : i \in Counted(read, pair)}
      BY DEF MeasuredIn
    <3>7. MeasuredIn(next, pair) = MeasuredIn(read, pair) \cup IF counts THEN {new(r + 1)} ELSE {}
      <4>. HIDE DEF old, new, counts
      <4>. QED  BY <3>3, <3>4, <3>5, <3>6
    <3>8. TimedUpTo(log, l, pair) = TimedUpTo(log, l - 1, pair) \cup
            IF TimingAt(log, l, pair) THEN {log[i].relation : i \in now} ELSE {}
      BY <1>1, TimingsTime
    <3>9. (IF counts THEN {new(r + 1)} ELSE {}) =
            IF TimingAt(log, l, pair) THEN {log[i].relation : i \in now} ELSE {}
      <4>1. CASE known = 0
        <5>1. ~counts
          BY <2>1, <4>1
        <5>2. pair = line.pair => now = {}
          <6>1. pair = line.pair => \A i \in 1..(l - 1) : ~VerdictAt(log, i, pair)
            BY <1>1, <1>3, <4>1 DEF PendingInv, known
          <6>. QED  BY <6>1 DEF LastVerdict
        <5>. QED  BY <2>2, <5>1, <5>2
      <4>2. CASE known # 0
        <5>1. PICK v \in 1..(l - 1) :
                 /\ LastVerdict(log, v, l, line.pair)
                 /\ read.made[known].verdict = <<log[v]>> /\ read.made[known].pair = line.pair
          <6>1. l - 1 + 1 = l
            BY <1>1
          <6>. QED  BY <1>1, <1>3, <4>2, <6>1 DEF PendingInv, known
        <5>2. /\ next.rows[r + 1] = known
              /\ next.made[known].verdict = <<log[v]>> /\ next.made[known].pair = line.pair
          BY <1>2, <2>1, <2>3, <4>2, <5>1 DEF Alike
        <5>3. counts <=> pair = line.pair
          <6>1. <<log[v]>> # <<>>
            OBVIOUS
          <6>. QED  BY <5>2, <6>1
        <5>4. new(r + 1) = log[v].relation
          BY <5>2
        <5>5. pair = line.pair => now = {v}
          <6>1. ASSUME pair = line.pair, NEW i \in now PROVE i = v
            <7>1. LastVerdict(log, i, l, pair) /\ LastVerdict(log, v, l, pair) /\ i \in 1..(l - 1)
              BY <5>1, <6>1
            <7>2. ~(i < v) /\ ~(v < i)
              BY <1>1, <7>1 DEF LastVerdict
            <7>. QED  BY <1>1, <7>1, <7>2
          <6>. QED  BY <5>1, <6>1
        <5>. HIDE DEF counts, new, now
        <5>. QED  BY <2>2, <5>3, <5>4, <5>5
      <4>. QED  BY <4>1, <4>2
    <3>. HIDE DEF counts, new, now
    <3>. QED  BY <1>3, <3>7, <3>8, <3>9
  <2>. QED  BY <2>4, <2>5, <2>6 DEF ReadInv
<1>10. CASE line.tag = "json"
  <2>1. /\ next.pending = read.pending /\ Len(next.rows) = r /\ Len(next.made) = n
        /\ \A x \in 1..n : next.made[x].n = read.made[x].n
    BY <1>10 DEF Effect, n, r, line
  <2>2. \A pair \in Pairs : ~VerdictAt(log, l, pair) /\ ~TimingAt(log, l, pair)
    BY <1>10 DEF VerdictAt, TimingAt, line
  <2>3. PendingInv(log, l, next)
    BY <1>2, <1>6, <2>1, <2>2 DEF PendingInv
  <2>4. RowsInv(next)
    BY <1>2, <1>7, <2>1 DEF RowsInv
  <2>5. \A pair \in Pairs : TimedUpTo(log, l, pair) = TimedUpTo(log, l - 1, pair)
    BY <1>1, <2>2, NothingTimed
  <2>. QED  BY <1>3, <1>5, <2>1, <2>3, <2>4, <2>5 DEF ReadInv
<1>. QED  BY <1>1, <1>8, <1>9, <1>10

LEMMA ReadingIsSound ==
  ASSUME NEW log \in Campaigns
  PROVE  LET read == Catalog!Reading(log)[Len(log)]
         IN  read \in Reads(log) /\ ReadInv(log, Len(log), read)
<1>. DEFINE R == Catalog!Reading(log)
            n == Len(log)
            T == {l \in 0..n : R[l] \in Reads(log) /\ ReadInv(log, l, R[l])}
<1>1. /\ n \in Nat /\ R[0] = Catalog!EmptyLog /\ R[0] \in Reads(log)
      /\ \A l \in 1..n : /\ IsLine(log[l]) /\ log[l] \in ToSet(log)
                         /\ R[l - 1] \in Reads(log) /\ R[l] = Catalog!ReadLine(R[l - 1], log[l])
  BY ReadingUnfolds
<1>. HIDE DEF R
<1>2. 0 \in T
  <2>1. 0 \in 0..n
    BY <1>1
  <2>2. ReadInv(log, 0, R[0])
    BY <1>1, EmptyIsRead
  <2>. QED  BY <1>1, <2>1, <2>2
<1>3. ASSUME NEW l \in 1..n, l - 1 \in T PROVE l \in T
  <2>1. Effect(log, R[l - 1], log[l], R[l])
    BY <1>1, ReadLineEffect
  <2>2. ReadInv(log, l - 1, R[l - 1])
    BY <1>3
  <2>3. ReadInv(log, l, R[l])
    <3>. HIDE DEF T
    <3>. QED  BY <1>1, <2>1, <2>2, ReadInvStep
  <2>4. R[l] \in Reads(log)
    BY <2>1 DEF Effect
  <2>5. l \in 0..n
    BY <1>1
  <2>. QED  BY <2>3, <2>4, <2>5
<1>4. 0..n \subseteq T
  <2>. HIDE DEF T, n
  <2>. QED  BY <1>1, <1>2, <1>3, StepsReach
<1>5. n \in T
  <2>1. n \in 0..n
    BY <1>1
  <2>. QED  BY <1>4, <2>1
<1>. QED  BY <1>5 DEF R

(***************************************************************************)
(* The rows of a log, grouped by pair.                                     *)
(***************************************************************************)
VerdictsOf(rows, pair) ==
  {rows[i].verdict[1].relation : i \in {i \in DOMAIN rows :
     rows[i].pair = pair /\ rows[i].verdict # <<>>}}

LEMMA ParsedRows ==
  ASSUME NEW log \in Campaigns
  PROVE  LET rows == Catalog!ParsePairLog(log)
         IN  /\ rows \in Seq(MadeRows(log))
             /\ \A i \in DOMAIN rows : rows[i].n \in Nat
             /\ \A pair \in Pairs : VerdictsOf(rows, pair) = TimedUpTo(log, Len(log), pair)
<1>. DEFINE read == Catalog!Reading(log)[Len(log)]
            rows == Catalog!ParsePairLog(log)
            r == Len(read.rows)
<1>1. read \in Reads(log) /\ ReadInv(log, Len(log), read)
  BY ReadingIsSound
<1>2. rows = [i \in DOMAIN read.rows |-> read.made[read.rows[i]]]
  BY DEF Catalog!ParsePairLog
<1>. HIDE DEF rows, read
<1>3. /\ read.made \in Seq(MadeRows(log)) /\ read.rows \in Seq(Nat) /\ r \in Nat
      /\ DOMAIN read.rows = 1..r
  BY <1>1 DEF Reads
<1>4. \A i \in 1..r : /\ read.rows[i] \in 1..Len(read.made)
                       /\ read.made[read.rows[i]] \in MadeRows(log)
                       /\ read.made[read.rows[i]].n \in Nat
  BY <1>1, <1>3 DEF ReadInv, RowsInv
<1>. HIDE DEF r
<1>5. rows \in Seq(MadeRows(log)) /\ DOMAIN rows = 1..r
  <2>1. [i \in 1..r |-> read.made[read.rows[i]]] \in Seq(MadeRows(log))
    BY <1>3, <1>4
  <2>. QED  BY <1>2, <1>3, <2>1
<1>6. \A i \in 1..r : rows[i] = read.made[read.rows[i]]
  BY <1>2, <1>3
<1>7. ASSUME NEW pair \in Pairs PROVE VerdictsOf(rows, pair) = MeasuredIn(read, pair)
  <2>. DEFINE C == {i \in DOMAIN rows : rows[i].pair = pair /\ rows[i].verdict # <<>>}
              one(i) == rows[i].verdict[1].relation
              other(i) == read.made[read.rows[i]].verdict[1].relation
  <2>1. C = Counted(read, pair)
    BY <1>5, <1>6 DEF Counted, r
  <2>2. \A i \in C : one(i) = other(i)
    BY <1>5, <1>6
  <2>3. VerdictsOf(rows, pair) = {one(i) : i \in C}
    BY DEF VerdictsOf
  <2>4. MeasuredIn(read, pair) = {other(i) : i \in Counted(read, pair)}
    BY DEF MeasuredIn
  <2>. HIDE DEF C, one, other
  <2>. QED  BY <2>1, <2>2, <2>3, <2>4
<1>8. \A pair \in Pairs : VerdictsOf(rows, pair) = TimedUpTo(log, Len(log), pair)
  BY <1>1, <1>7 DEF ReadInv
<1>. QED  BY <1>4, <1>5, <1>6, <1>8 DEF rows

LEMMA GroupOfPair ==
  ASSUME NEW M, NEW rows \in Seq(M), NEW pair
  PROVE  LET group == Catalog!Group(rows, pair)
         IN  /\ group \in Seq(M)
             /\ \A j \in DOMAIN group : \E i \in DOMAIN rows :
                  rows[i].pair = pair /\ group[j] = rows[i]
             /\ \A i \in DOMAIN rows : rows[i].pair = pair =>
                  \E j \in DOMAIN group : group[j] = rows[i]
<1>. DEFINE S == {i \in DOMAIN rows : rows[i].pair = pair}
            group == Catalog!Group(rows, pair)
<1>1. group = Picked(rows, S)
  BY DEF Catalog!Group, Catalog!Picked, Picked
<1>2. S \in SUBSET DOMAIN rows
  OBVIOUS
<1>. HIDE DEF group, S
<1>3. group \in Seq(M) /\ \E pos : Selects(group, pos, rows, S)
  BY <1>1, <1>2, PickedSelects
<1>4. PICK pos : Selects(group, pos, rows, S)
  BY <1>3
<1>5. DOMAIN group = 1..Len(group)
  BY <1>3
<1>6. /\ \A j \in DOMAIN group : pos[j] \in S /\ group[j] = rows[pos[j]]
      /\ \A i \in S : \E j \in DOMAIN group : pos[j] = i
  BY <1>4, <1>5 DEF Selects
<1>. QED  BY <1>3, <1>6 DEF S, group

\* Every nonempty finite set of numbers has its bounds among them.
LEMMA BoundsOf ==
  ASSUME NEW S \in SUBSET Int, S # {}, IsFiniteSet(S)
  PROVE  /\ Catalog!Min(S) \in S /\ \A x \in S : Catalog!Min(S) <= x
         /\ Catalog!Max(S) \in S /\ \A x \in S : x <= Catalog!Max(S)
<1>1. \E n \in S : \A m \in S : n <= m
  BY LeastInt
<1>2. \E n \in S : \A m \in S : n >= m
  BY GreatestInt
<1>3. Catalog!Min(S) \in S /\ \A x \in S : Catalog!Min(S) <= x
  BY <1>1 DEF Catalog!Min
<1>4. Catalog!Max(S) \in S /\ \A x \in S : Catalog!Max(S) >= x
  BY <1>2 DEF Catalog!Max
<1>. QED  BY <1>3, <1>4

LEMMA IndicesAreFinite ==
  ASSUME NEW M, NEW s \in Seq(M)
  PROVE  /\ IsFiniteSet(DOMAIN s)
         /\ \A S \in SUBSET DOMAIN s : IsFiniteSet(S) /\ S \in SUBSET Int
<1>1. DOMAIN s = 1..Len(s) /\ Len(s) \in Int
  OBVIOUS
<1>2. IsFiniteSet(DOMAIN s)
  BY <1>1, FS_Interval
<1>. QED  BY <1>1, <1>2, FS_Subset

LEMMA ImageIsFinite ==
  ASSUME NEW f, IsFiniteSet(DOMAIN f)
  PROVE  IsFiniteSet({f[x] : x \in DOMAIN f})
<1>. DEFINE T == {f[x] : x \in DOMAIN f}
            g == [x \in DOMAIN f |-> f[x]]
<1>1. g \in [DOMAIN f -> T] /\ \A y \in T : \E x \in DOMAIN f : g[x] = y
  OBVIOUS
<1>2. g \in Surjection(DOMAIN f, T)
  BY <1>1 DEF Surjection
<1>. QED  BY <1>2, FS_Surjection

\* A size is the one rounded size of the group, or the least and the greatest.
LEMMA SizesAreWritten ==
  ASSUME NEW M, NEW group \in Seq(M), group # <<>>, \A j \in DOMAIN group : group[j].n \in Nat
  PROVE  Catalog!SizeText(group) \in Seq(Nat) /\ Len(Catalog!SizeText(group)) \in 0..2
<1>. DEFINE size(j) == Catalog!MiB(group[j].n)
            sizes == {size(j) : j \in DOMAIN group}
<1>1. 1 \in DOMAIN group /\ IsFiniteSet(DOMAIN group)
  BY IndicesAreFinite
<1>2. \A j \in DOMAIN group : size(j) \in Nat
  <2>1. \A n \in Nat : n - (n % 2) \in Nat
    OBVIOUS
  <2>. QED  BY <2>1 DEF Catalog!MiB
<1>3. Catalog!SizeText(group) =
        IF Catalog!Cardinality(sizes) = 1 THEN <<Catalog!Min(sizes)>>
        ELSE <<Catalog!Min(sizes), Catalog!Max(sizes)>>
  BY DEF Catalog!SizeText
<1>. HIDE DEF size
<1>4. IsFiniteSet(sizes)
  <2>. DEFINE f == [j \in DOMAIN group |-> size(j)]
  <2>1. DOMAIN f = DOMAIN group /\ \A j \in DOMAIN group : f[j] = size(j)
    OBVIOUS
  <2>. HIDE DEF f
  <2>2. sizes = {f[j] : j \in DOMAIN f}
    BY <2>1
  <2>. QED  BY <1>1, <2>1, <2>2, ImageIsFinite
<1>5. sizes \in SUBSET Int /\ sizes # {} /\ sizes \subseteq Nat
  BY <1>1, <1>2
<1>. HIDE DEF sizes
<1>6. Catalog!Min(sizes) \in Nat /\ Catalog!Max(sizes) \in Nat
  BY <1>4, <1>5, BoundsOf
<1>. QED  BY <1>3, <1>6

LEMMA LastOfGroup ==
  ASSUME NEW M, NEW group \in Seq(M), group # <<>>
  PROVE  Len(group) \in DOMAIN group /\ Catalog!Last(group) = group[Len(group)]
BY DEF Catalog!Last

(***************************************************************************)
(* What is projected for a pair: a size, the pair, and the verdict that    *)
(* the timings agree on.                                                   *)
(***************************************************************************)
LEMMA ProjectedFields ==
  ASSUME NEW log \in Campaigns, NEW pair \in Pairs,
         Catalog!Group(Catalog!ParsePairLog(log), pair) # <<>>,
         \A i \in DOMAIN Catalog!Group(Catalog!ParsePairLog(log), pair) :
           Catalog!Group(Catalog!ParsePairLog(log), pair)[i].verdict # <<>>
  PROVE  LET row == Catalog!ProjectedRow(Catalog!Group(Catalog!ParsePairLog(log), pair), pair)
         IN  /\ IsRow(row) /\ row.pair = pair
             /\ row.relation # "underdetermined" =>
                  TimedUpTo(log, Len(log), pair) = {row.relation}
<1>. DEFINE rows == Catalog!ParsePairLog(log)
            group == Catalog!Group(rows, pair)
            row == Catalog!ProjectedRow(group, pair)
            last == Catalog!Last(group)
            t == Catalog!Template(last, pair)
            one == Catalog!Cardinality(Catalog!Verdicts(group)) = 1
            relation == IF one THEN last.verdict[1].relation ELSE "underdetermined"
            constraint == IF one THEN last.verdict[1].constraint ELSE "none"
            verdict(j) == group[j].verdict[1].relation
<1>1. /\ rows \in Seq(MadeRows(log)) /\ \A i \in DOMAIN rows : rows[i].n \in Nat
      /\ VerdictsOf(rows, pair) = TimedUpTo(log, Len(log), pair)
  BY ParsedRows
<1>2. group # <<>> /\ \A i \in DOMAIN group : group[i].verdict # <<>>
  OBVIOUS
<1>. HIDE DEF rows
<1>3. /\ group \in Seq(MadeRows(log))
      /\ \A j \in DOMAIN group : \E i \in DOMAIN rows : rows[i].pair = pair /\ group[j] = rows[i]
      /\ \A i \in DOMAIN rows : rows[i].pair = pair => \E j \in DOMAIN group : group[j] = rows[i]
  BY <1>1, GroupOfPair
<1>4. row = [t EXCEPT
        !.hardware = "ascend910b:ascend", !.pair = pair, !.confidence = "measured",
        !.size = Catalog!SizeText(group), !.licence = "unset",
        !.relation = relation, !.constraint = constraint]
  BY DEF Catalog!ProjectedRow
<1>. HIDE DEF group
<1>5. Len(group) \in DOMAIN group /\ last = group[Len(group)]
  BY <1>2, <1>3, LastOfGroup
<1>6. last \in MadeRows(log)
  BY <1>3, <1>5
<1>7. DOMAIN t = DOMAIN Catalog!Blank("C||C")
  <2>1. \A p : DOMAIN Catalog!Blank(p) = DOMAIN Catalog!Blank("C||C")
    BY DEF Catalog!Blank
  <2>2. CASE last.json = <<>>
    BY <2>1, <2>2 DEF Catalog!Template
  <2>3. CASE last.json # <<>>
    <3>1. PICK line \in {x \in ToSet(log) : x.tag = "json"} : last.json = <<line.row>>
      <4>. HIDE DEF last
      <4>. QED  BY <1>6, <2>3 DEF MadeRows
    <3>2. t = line.row
      BY <2>3, <3>1 DEF Catalog!Template
    <3>3. IsLine(line)
      BY CampaignsAreLogs DEF ToSet
    <3>4. DOMAIN line.row = DOMAIN Catalog!Blank("C||C")
      BY <3>3 DEF IsLine
    <3>. QED  BY <2>1, <3>2, <3>4
  <2>. QED  BY <2>2, <2>3
<1>. HIDE DEF t, relation, constraint, row
<1>8. /\ row.size = Catalog!SizeText(group) /\ row.pair = pair /\ row.relation = relation
      /\ DOMAIN row = DOMAIN Catalog!Blank("C||C")
  <2>1. {"pair", "size", "relation"} \subseteq DOMAIN t
    BY <1>7 DEF Catalog!Blank
  <2>. QED  BY <1>4, <1>7, <2>1
<1>9. \A j \in DOMAIN group : group[j].n \in Nat
  BY <1>1, <1>3
<1>10. IsRow(row)
  BY <1>2, <1>3, <1>8, <1>9, SizesAreWritten DEF IsRow
<1>11. Catalog!Verdicts(group) = {verdict(j) : j \in DOMAIN group}
  BY DEF Catalog!Verdicts
<1>12. Catalog!Verdicts(group) = VerdictsOf(rows, pair)
  BY <1>2, <1>3, <1>11 DEF VerdictsOf
<1>13. ASSUME relation # "underdetermined"
       PROVE  TimedUpTo(log, Len(log), pair) = {relation}
  <2>1. one /\ relation = verdict(Len(group))
    BY <1>5, <1>13 DEF relation
  <2>2. IsFiniteSet(Catalog!Verdicts(group))
    <3>1. IsFiniteSet(DOMAIN group)
      BY <1>3, IndicesAreFinite
    <3>. DEFINE f == [j \in DOMAIN group |-> verdict(j)]
    <3>2. DOMAIN f = DOMAIN group /\ \A j \in DOMAIN group : f[j] = verdict(j)
      OBVIOUS
    <3>. HIDE DEF f, verdict
    <3>3. Catalog!Verdicts(group) = {f[j] : j \in DOMAIN f}
      BY <1>11, <3>2
    <3>. QED  BY <3>1, <3>2, <3>3, ImageIsFinite
  <2>3. PICK v : Catalog!Verdicts(group) = {v}
    <3>1. Cardinality(Catalog!Verdicts(group)) = 1
      BY <2>1 DEF Catalog!Cardinality, Cardinality
    <3>. QED  BY <2>2, <3>1, FS_Singleton
  <2>4. relation \in Catalog!Verdicts(group)
    BY <1>5, <1>11, <2>1
  <2>. QED  BY <1>1, <1>12, <2>3, <2>4
<1>. QED  BY <1>8, <1>10, <1>13 DEF row, group, rows

LEMMA ProjectedRows ==
  ASSUME NEW log \in Campaigns, NEW k \in DOMAIN Catalog!ProjectPairs(log)
  PROVE  LET row == Catalog!ProjectPairs(log)[k]
         IN  /\ IsRow(row)
             /\ row.relation # "underdetermined" =>
                  TimedUpTo(log, Len(log), row.pair) = {row.relation}
<1>. DEFINE rows == Catalog!ParsePairLog(log)
            row(pair) == Catalog!ProjectedRow(Catalog!Group(rows, pair), pair)
            all == [i \in DOMAIN Catalog!PAIRS |-> row(Catalog!PAIRS[i])]
<1>1. Catalog!ProjectPairs(log) = IF Catalog!Projects(rows) THEN all ELSE <<>>
  BY DEF Catalog!ProjectPairs
<1>2. Catalog!Projects(rows) /\ k \in DOMAIN Catalog!PAIRS
  BY <1>1
<1>3. Catalog!ProjectPairs(log)[k] = row(Catalog!PAIRS[k]) /\ Catalog!PAIRS[k] \in Pairs
  BY <1>1, <1>2 DEF Pairs, ToSet
<1>4. /\ Catalog!Group(rows, Catalog!PAIRS[k]) # <<>>
      /\ \A i \in DOMAIN Catalog!Group(rows, Catalog!PAIRS[k]) :
           Catalog!Group(rows, Catalog!PAIRS[k])[i].verdict # <<>>
  BY <1>2 DEF Catalog!Projects
<1>. QED  BY <1>3, <1>4, ProjectedFields

LEMMA KnownRowsAreRows == \A row \in KnownRows : IsRow(row)
<1>1. ASSUME NEW log \in Campaigns, NEW row \in ToSet(Catalog!ProjectPairs(log))
      PROVE  IsRow(row)
  BY ProjectedRows DEF ToSet
<1>. QED  BY <1>1, RowsAreOfTheSchema DEF KnownRows

\* The statement of the campaign's verdicts is the one the reading keeps.
LEMMA TimedIsTimed ==
  ASSUME BagsInv
  PROVE  \A pair : TimedVerdicts(pair) = TimedUpTo(campaign, Len(campaign), pair)
<1>1. campaign \in Seq(ToSet(campaign))
  BY CampaignsAreLogs DEF BagsInv
<1>2. DOMAIN campaign = 1..Len(campaign) /\ Len(campaign) \in Nat
  BY <1>1
<1>3. \A i, j \in 1..Len(campaign) : j > i <=> j \in (i + 1)..Len(campaign)
  BY <1>2
<1>4. ASSUME NEW pair PROVE TimedVerdicts(pair) = TimedUpTo(campaign, Len(campaign), pair)
  <2>. DEFINE A == {i \in DOMAIN campaign :
                 /\ campaign[i].tag = "verdict" /\ campaign[i].pair = pair
                 /\ \E j \in DOMAIN campaign :
                      /\ j > i /\ campaign[j].tag = "timing" /\ campaign[j].pair = pair
                      /\ \A k \in (i + 1)..(j - 1) :
                           campaign[k].tag = "verdict" => campaign[k].pair # pair}
              B == {i \in 1..Len(campaign) : \E j \in (i + 1)..Len(campaign) :
                      TimingAt(campaign, j, pair) /\ LastVerdict(campaign, i, j, pair)}
  <2>1. \A i \in 1..Len(campaign) : \A j \in (i + 1)..Len(campaign) : j \in DOMAIN campaign /\ j > i
    BY <1>2
  <2>2. A = B
    BY <1>2, <1>3, <2>1 DEF TimingAt, LastVerdict, VerdictAt
  <2>3. TimedVerdicts(pair) = {campaign[i].relation : i \in A}
    BY Zenon DEF TimedVerdicts
  <2>4. TimedUpTo(campaign, Len(campaign), pair) = {campaign[i].relation : i \in B}
    BY Zenon DEF TimedUpTo
  <2>. QED  BY <2>2, <2>3, <2>4, Zenon
<1>. QED  BY <1>4

LEMMA CampaignIsProjected ==
  ASSUME BagsInv
  PROVE  Projected
<1>. SUFFICES ASSUME NEW i \in DOMAIN Catalog!ProjectPairs(campaign),
                     catalog[i].relation # "underdetermined"
              PROVE  TimedVerdicts(catalog[i].pair) = {catalog[i].relation}
  BY DEF Projected
<1>1. campaign \in Campaigns /\ catalog[i] = Catalog!ProjectPairs(campaign)[i]
  BY DEF BagsInv
<1>2. TimedUpTo(campaign, Len(campaign), catalog[i].pair) = {catalog[i].relation}
  BY <1>1, ProjectedRows
<1>. QED  BY <1>2, TimedIsTimed

LEMMA BothAgreeWhereARowApplies ==
  ASSUME NEW row, IsRow(row), NEW size \in Int, NEW sync
  PROVE  Catalog!CapApplicability(row, size, sync) = Catalog!IsApplicable(row, size, sync)
<1>1. Len(row.size) \in 0..2 /\ (row.size = <<>> <=> Len(row.size) = 0)
  BY DEF IsRow
<1>. QED  BY <1>1 DEF Catalog!CapApplicability, Catalog!IsApplicable,
                      Catalog!IsUnconstrained, Catalog!IsRange

(***************************************************************************)
(* The compiler's pass over the cells, by the equation it solves.          *)
(***************************************************************************)
Pass(cells, covers, i, held) ==
  IF i \in covers /\ (held = 0 \/ Catalog!Better(cells[i], cells[held])) THEN i ELSE held
Passes(cells, covers, B) ==
  /\ B \in [0..Len(cells) -> 0..Len(cells)]
  /\ Catalog!Best(cells, covers) = B[Len(cells)] /\ B[0] = 0
  /\ \A l \in 1..Len(cells) : B[l] = Pass(cells, covers, l, B[l - 1])

LEMMA BestUnfolds ==
  ASSUME NEW cells, Len(cells) \in Nat, NEW covers
  PROVE  \E B : Passes(cells, covers, B)
<1>. DEFINE n == Len(cells)
            X == 0..n
            E(g) == g = [i \in 0..n |->
              IF i = 0 THEN 0
              ELSE IF i \in covers /\ (g[i - 1] = 0 \/ Catalog!Better(cells[i], cells[g[i - 1]]))
              THEN i ELSE g[i - 1]]
            it == CHOOSE g : E(g)
            F == [i \in 1..n |-> [v \in X |-> Pass(cells, covers, i, v)]]
<1>1. Catalog!Best(cells, covers) = it[n]
  BY DEF Catalog!Best
<1>2. n \in Nat
  OBVIOUS
<1>. HIDE DEF n
<1>3. \A i \in 1..n, v \in X : Pass(cells, covers, i, v) \in X
  <2>1. \A i \in 1..n : i \in X
    BY <1>2
  <2>. QED  BY <2>1 DEF Pass
<1>4. F \in StepsOf(X, n) /\ 0 \in X
  <2>1. 0 \in X
    BY <1>2
  <2>. HIDE DEF X
  <2>. QED  BY <1>3, <2>1 DEF StepsOf
<1>5. PICK h : Iteration(h, X, 0, n, F)
  <2>. HIDE DEF F, X
  <2>. QED  BY <1>2, <1>4, IterationExists, Zenon
<1>6. h \in [0..n -> X] /\ h[0] = 0 /\ \A i \in 1..n : h[i] = Pass(cells, covers, i, h[i - 1])
  <2>1. h \in [0..n -> X] /\ h[0] = 0 /\ \A i \in 1..n : h[i] = F[i][h[i - 1]]
    BY <1>5 DEF Iteration
  <2>2. \A i \in 1..n : i - 1 \in 0..n
    BY <1>2
  <2>3. \A i \in 1..n : h[i - 1] \in X
    BY <2>1, <2>2
  <2>. QED  BY <2>1, <2>3
<1>7. E(h)
  <2>1. \A i \in 0..n : i = 0 \/ (i \in 1..n /\ i # 0)
    BY <1>2
  <2>2. \A i \in 0..n : h[i] =
          IF i = 0 THEN 0
          ELSE IF i \in covers /\ (h[i - 1] = 0 \/ Catalog!Better(cells[i], cells[h[i - 1]]))
          THEN i ELSE h[i - 1]
    BY <1>6, <2>1 DEF Pass
  <2>3. h = [i \in 0..n |-> h[i]]
    BY <1>6
  <2>. QED  BY <2>2, <2>3, Zenon
<1>8. E(it)
  <2>. HIDE DEF E
  <2>. QED  BY <1>7
<1>9. it[0] = 0 /\ \A i \in 1..n : it[i] = Pass(cells, covers, i, it[i - 1])
  <2>. DEFINE e == [i \in 0..n |->
         IF i = 0 THEN 0
         ELSE IF i \in covers /\ (it[i - 1] = 0 \/ Catalog!Better(cells[i], cells[it[i - 1]]))
         THEN i ELSE it[i - 1]]
  <2>1. it = e
    BY <1>8
  <2>. HIDE DEF it
  <2>2. 0 \in 0..n /\ \A i \in 1..n : i \in 0..n /\ i # 0
    BY <1>2
  <2>3. e[0] = 0 /\ \A i \in 1..n : e[i] = Pass(cells, covers, i, it[i - 1])
    BY <2>2 DEF Pass
  <2>. HIDE DEF e
  <2>. QED  BY <2>1, <2>3
<1>. DEFINE T == {i \in 0..n : it[i] \in X}
<1>. HIDE DEF X
<1>10. 0..n \subseteq T
  <2>. HIDE DEF it, E
  <2>1. 0 \in 0..n /\ \A i \in 1..n : i \in 0..n
    BY <1>2
  <2>2. 0 \in T /\ \A i \in 1..n : i - 1 \in T => i \in T
    BY <1>3, <1>4, <1>9, <2>1
  <2>. HIDE DEF T
  <2>. QED  BY <1>2, <2>2, StepsReach
<1>11. it \in [0..n -> X]
  <2>. DEFINE e == [i \in 0..n |->
         IF i = 0 THEN 0
         ELSE IF i \in covers /\ (it[i - 1] = 0 \/ Catalog!Better(cells[i], cells[it[i - 1]]))
         THEN i ELSE it[i - 1]]
  <2>1. it = e
    BY <1>8
  <2>2. e = [i \in 0..n |-> e[i]]
    OBVIOUS
  <2>. HIDE DEF e, it, E
  <2>3. it = [i \in 0..n |-> it[i]]
    BY <2>1, <2>2
  <2>. QED  BY <1>10, <2>3
<1>. HIDE DEF it, E
<1>. QED  BY <1>1, <1>9, <1>11 DEF n, X, Passes

(***************************************************************************)
(* Of the covering cells passed, a range is kept before a cell for all     *)
(* sizes, a narrow one before a wide one, and the first of equals.         *)
(***************************************************************************)
Kept(cells, covers, i, b) ==
  LET Ranges(j) == j \in covers /\ Catalog!IsRange(cells[j])
  IN  /\ b = 0 => \A j \in 1..i : j \notin covers
      /\ b # 0 => b \in covers /\ b \in 1..i
      /\ b = 0 \/ ~Ranges(b) => \A j \in 1..i : ~Ranges(j)
      /\ b # 0 /\ Ranges(b) => \A j \in 1..i : Ranges(j) =>
           /\ Catalog!Span(cells[b]) <= Catalog!Span(cells[j])
           /\ j < b => Catalog!Span(cells[b]) < Catalog!Span(cells[j])

LEMMA PassKeeps ==
  ASSUME NEW cells, Len(cells) \in Nat, NEW covers \in SUBSET (1..Len(cells)),
         \A j \in covers : /\ Catalog!IsUnconstrained(cells[j]) \/ Catalog!IsRange(cells[j])
                           /\ ~(Catalog!IsUnconstrained(cells[j]) /\ Catalog!IsRange(cells[j]))
                           /\ Catalog!Span(cells[j]) \in Int,
         NEW i \in 1..Len(cells), NEW b \in 0..Len(cells), Kept(cells, covers, i - 1, b)
  PROVE  Kept(cells, covers, i, Pass(cells, covers, i, b))
<1>. DEFINE Free(j) == Catalog!IsUnconstrained(cells[j])
            Banded(j) == Catalog!IsRange(cells[j])
            span(j) == Catalog!Span(cells[j])
<1>1. /\ b = 0 => \A j \in 1..(i - 1) : j \notin covers
      /\ b # 0 => b \in covers /\ b \in 1..(i - 1)
      /\ b = 0 \/ ~(b \in covers /\ Banded(b)) =>
           \A j \in 1..(i - 1) : ~(j \in covers /\ Banded(j))
      /\ b # 0 /\ b \in covers /\ Banded(b) => \A j \in 1..(i - 1) : j \in covers /\ Banded(j) =>
           span(b) <= span(j) /\ (j < b => span(b) < span(j))
  BY DEF Kept
<1>2. \A j \in covers : (Free(j) \/ Banded(j)) /\ ~(Free(j) /\ Banded(j)) /\ span(j) \in Int
  OBVIOUS
<1>3. Pass(cells, covers, i, b) =
        IF i \in covers /\ (b = 0 \/ (Free(b) /\ ~Free(i)) \/ (Banded(b) /\ Banded(i) /\ span(i) < span(b)))
        THEN i ELSE b
  BY DEF Pass, Catalog!Better
<1>. DEFINE best == Pass(cells, covers, i, b)
<1>. SUFFICES
       /\ best = 0 => \A j \in 1..i : j \notin covers
       /\ best # 0 => best \in covers /\ best \in 1..i
       /\ best = 0 \/ ~(best \in covers /\ Banded(best)) =>
            \A j \in 1..i : ~(j \in covers /\ Banded(j))
       /\ best # 0 /\ best \in covers /\ Banded(best) => \A j \in 1..i : j \in covers /\ Banded(j) =>
            span(best) <= span(j) /\ (j < best => span(best) < span(j))
  BY DEF Kept
<1>. HIDE DEF Free, Banded, span, best
<1>4. /\ \A j \in 1..i : j \in 1..(i - 1) \/ j = i
      /\ \A j \in 1..(i - 1) : j \in 1..i /\ j < i /\ ~(i < j)
      /\ i # 0 /\ i \in 1..i /\ ~(i < i)
  OBVIOUS
<1>5. CASE i \notin covers
  <2>1. best = b
    BY <1>3, <1>5 DEF best
  <2>. QED  BY <1>1, <1>4, <1>5, <2>1
<1>6. CASE i \in covers /\ b = 0
  <2>1. best = i
    BY <1>3, <1>6 DEF best
  <2>. QED  BY <1>1, <1>2, <1>4, <1>6, <2>1
<1>7. CASE i \in covers /\ b # 0 /\ ~Banded(b)
  <2>1. b \in covers /\ Free(b) /\ b \in 1..(i - 1)
    BY <1>1, <1>2, <1>7
  <2>2. best = IF Free(i) THEN b ELSE i
    BY <1>3, <1>7, <2>1 DEF best
  <2>. QED  BY <1>1, <1>2, <1>4, <1>7, <2>1, <2>2
<1>8. CASE i \in covers /\ b # 0 /\ Banded(b)
  <2>1. b \in covers /\ ~Free(b) /\ b \in 1..(i - 1)
    BY <1>1, <1>2, <1>8
  <2>2. CASE Banded(i) /\ span(i) < span(b)
    <3>1. best = i
      BY <1>3, <1>8, <2>2 DEF best
    <3>2. \A j \in 1..(i - 1) : j \in covers /\ Banded(j) => span(i) < span(j)
      BY <1>1, <1>2, <1>8, <2>1, <2>2
    <3>. QED  BY <1>2, <1>4, <1>8, <2>2, <3>1, <3>2
  <2>3. CASE ~(Banded(i) /\ span(i) < span(b))
    <3>1. best = b
      BY <1>3, <1>8, <2>1, <2>3 DEF best
    <3>2. Banded(i) => span(b) <= span(i)
      BY <1>2, <1>8, <2>1, <2>3
    <3>. QED  BY <1>1, <1>2, <1>4, <1>8, <2>1, <3>1, <3>2
  <2>. QED  BY <2>2, <2>3
<1>. QED  BY <1>5, <1>6, <1>7, <1>8

LEMMA BestIsKept ==
  ASSUME NEW cells, Len(cells) \in Nat, NEW covers \in SUBSET (1..Len(cells)),
         \A j \in covers : /\ Catalog!IsUnconstrained(cells[j]) \/ Catalog!IsRange(cells[j])
                           /\ ~(Catalog!IsUnconstrained(cells[j]) /\ Catalog!IsRange(cells[j]))
                           /\ Catalog!Span(cells[j]) \in Int
  PROVE  Kept(cells, covers, Len(cells), Catalog!Best(cells, covers))
<1>. DEFINE n == Len(cells)
<1>1. n \in Nat
  OBVIOUS
<1>2. PICK B : Passes(cells, covers, B)
  BY BestUnfolds
<1>3. /\ B \in [0..n -> 0..n] /\ Catalog!Best(cells, covers) = B[n] /\ B[0] = 0
      /\ \A l \in 1..n : B[l] = Pass(cells, covers, l, B[l - 1])
  BY <1>2 DEF Passes
<1>. DEFINE T == {i \in 0..n : Kept(cells, covers, i, B[i])}
<1>4. 0 \in T
  BY <1>1, <1>3 DEF Kept
<1>5. ASSUME NEW i \in 1..n, i - 1 \in T PROVE i \in T
  <2>1. i \in 0..n /\ i - 1 \in 0..n /\ B[i - 1] \in 0..n
    BY <1>1, <1>3
  <2>2. Kept(cells, covers, i, Pass(cells, covers, i, B[i - 1]))
    BY <1>5, <2>1, PassKeeps
  <2>. QED  BY <1>3, <2>1, <2>2
<1>6. 0..n \subseteq T
  <2>. HIDE DEF T, n
  <2>. QED  BY <1>1, <1>4, <1>5, StepsReach
<1>7. n \in 0..n
  BY <1>1
<1>. QED  BY <1>3, <1>6, <1>7

Covering(hits, size) == {row \in ToSet(hits) : Catalog!InRange(row, size)}
\* The row that was selected is a hit, and the lookup finds it.
Agreed(hits, size, row, cell) ==
  /\ row \in ToSet(hits) /\ cell = row
  /\ IF Covering(hits, size) = {}
     THEN Catalog!IsUnconstrained(row) \/ Len(hits) = 1
     ELSE /\ row \in Covering(hits, size)
          /\ \A other \in Covering(hits, size) : Catalog!Span(row) <= Catalog!Span(other)
\* No row was selected, and the lookup finds none.
Undetermined(hits, size, row, cell) ==
  /\ Covering(hits, size) = {} /\ row.relation = "underdetermined"
  /\ cell.relation = row.relation /\ cell.confidence = row.confidence /\ cell.size = row.size
Found(hits, size, pair) ==
  LET row == Catalog!SelectPairRecord(hits, size, pair)
      cell == Catalog!LookupPair(hits, size, pair)
  IN  Agreed(hits, size, row, cell) \/ Undetermined(hits, size, row, cell)

LEMMA Singletons ==
  ASSUME NEW S, IsFiniteSet(S)
  PROVE  /\ Catalog!Cardinality(S) \in Nat
         /\ Catalog!Cardinality(S) = 0 <=> S = {}
         /\ Catalog!Cardinality(S) = 1 <=> \E x : S = {x}
<1>1. Catalog!Cardinality(S) = Cardinality(S)
  BY DEF Catalog!Cardinality, Cardinality
<1>. QED  BY <1>1, FS_CardinalityType, FS_EmptySet, FS_Singleton

LEMMA SpansOfRows ==
  ASSUME NEW row, IsRow(row)
  PROVE  /\ Catalog!Span(row) \in Int
         /\ Catalog!IsUnconstrained(row) => ~Catalog!IsRange(row)
         /\ \A size \in Int : Catalog!InRange(row, size) => Catalog!IsRange(row) /\ size >= 0
<1>1. row.size \in Seq(Nat)
  BY DEF IsRow
<1>2. Catalog!IsRange(row) => row.size[1] \in Nat /\ row.size[2] \in Nat /\ Len(row.size) = 2
  BY <1>1 DEF Catalog!IsRange
<1>3. Catalog!Span(row) \in Int
  BY <1>2 DEF Catalog!Span
<1>4. Catalog!IsUnconstrained(row) => ~Catalog!IsRange(row)
  BY DEF Catalog!IsUnconstrained, Catalog!IsRange
<1>5. \A size \in Int : Catalog!InRange(row, size) => Catalog!IsRange(row) /\ size >= 0
  BY <1>2 DEF Catalog!InRange
<1>. QED  BY <1>3, <1>4, <1>5

LEMMA FieldsOfNoRow ==
  /\ \A pair : /\ Catalog!Unknown(pair).relation = "underdetermined"
               /\ Catalog!Unknown(pair).confidence = Catalog!Blank(pair).confidence
               /\ Catalog!Unknown(pair).relation = Catalog!Blank(pair).relation
               /\ Catalog!Unknown(pair).size = Catalog!Blank(pair).size
BY DEF Catalog!Unknown, Catalog!Blank

LEMMA AmbiguousIsUndetermined ==
  ASSUME NEW hits, IsRow(hits[1])
  PROVE  Catalog!Ambiguous(hits).relation = "underdetermined"
<1>1. "relation" \in DOMAIN hits[1]
  BY DEF IsRow, Catalog!Blank
<1>. QED  BY <1>1 DEF Catalog!Ambiguous

\* Asked without a payload.
LEMMA FoundWithoutSize ==
  ASSUME NEW R, \A r \in R : IsRow(r), NEW hits \in Seq(R), Len(hits) # 0, Len(hits) # 1,
         NEW size, size = Catalog!NoSize, NEW pair
  PROVE  Found(hits, size, pair)
<1>0. hits # <<>> /\ Len(hits) # 1
  <2>1. Len(<<>>) = 0
    OBVIOUS
  <2>. QED  BY <2>1
<1>. DEFINE free == Catalog!Indices(hits, Catalog!IsUnconstrained)
            row == Catalog!SelectPairRecord(hits, size, pair)
            cell == Catalog!LookupPair(hits, size, pair)
<1>. SUFFICES Agreed(hits, size, row, cell) \/ Undetermined(hits, size, row, cell)
  BY DEF Found
<1>1. /\ DOMAIN hits = 1..Len(hits) /\ Len(hits) \in Nat
      /\ \A i \in 1..Len(hits) : hits[i] \in ToSet(hits) /\ IsRow(hits[i])
  BY DEF ToSet
<1>2. size = -1 /\ hits # <<>> /\ Len(hits) # 1
  BY <1>0 DEF Catalog!NoSize
<1>3. Covering(hits, size) = {}
  BY <1>1, <1>2, SpansOfRows DEF Covering, ToSet
<1>4. free \in SUBSET DOMAIN hits /\ \A i \in free : Catalog!IsUnconstrained(hits[i])
  BY DEF Catalog!Indices
<1>5. /\ row = IF Catalog!Cardinality(free) = 1 THEN hits[Catalog!Min(free)]
               ELSE Catalog!Ambiguous(hits)
      /\ cell = row
  BY <1>2 DEF Catalog!SelectPairRecord, Catalog!WithoutSize, Catalog!LookupPair
<1>. HIDE DEF free, row, cell
<1>6. IsFiniteSet(free) /\ free \in SUBSET Int
  BY <1>4, IndicesAreFinite
<1>7. CASE Catalog!Cardinality(free) = 1
  <2>1. free # {}
    BY <1>6, <1>7, Singletons
  <2>2. Catalog!Min(free) \in free
    BY <1>6, <2>1, BoundsOf
  <2>3. row = hits[Catalog!Min(free)]
    BY <1>5, <1>7
  <2>. QED  BY <1>1, <1>3, <1>4, <1>5, <2>2, <2>3 DEF Agreed
<1>8. CASE Catalog!Cardinality(free) # 1
  <2>1. row.relation = "underdetermined"
    BY <1>1, <1>5, <1>8, AmbiguousIsUndetermined
  <2>. QED  BY <1>3, <1>5, <2>1 DEF Undetermined
<1>. QED  BY <1>7, <1>8

\* Of several rows, asked with a payload.
LEMMA FoundWithSize ==
  ASSUME NEW R, \A r \in R : IsRow(r), NEW hits \in Seq(R), Len(hits) # 0, Len(hits) # 1,
         NEW size \in Int, size # Catalog!NoSize, NEW pair
  PROVE  Found(hits, size, pair)
<1>0. hits # <<>> /\ Len(hits) # 1
  <2>1. Len(<<>>) = 0
    OBVIOUS
  <2>. QED  BY <2>1
<1>. DEFINE free == Catalog!Indices(hits, Catalog!IsUnconstrained)
            ranges == {i \in DOMAIN hits : Catalog!InRange(hits[i], size)}
            narrow == {i \in ranges : \A j \in ranges : Catalog!Span(hits[i]) <= Catalog!Span(hits[j])}
            covers == free \cup ranges
            best == Catalog!Best(hits, covers)
            row == Catalog!SelectPairRecord(hits, size, pair)
            cell == Catalog!LookupPair(hits, size, pair)
<1>. SUFFICES Agreed(hits, size, row, cell) \/ Undetermined(hits, size, row, cell)
  BY DEF Found
<1>1. /\ DOMAIN hits = 1..Len(hits) /\ Len(hits) \in Nat
      /\ \A i \in 1..Len(hits) : hits[i] \in ToSet(hits) /\ IsRow(hits[i])
  BY DEF ToSet
<1>2. hits # <<>> /\ Len(hits) # 1
  BY <1>0
<1>3. free = {i \in DOMAIN hits : Catalog!IsUnconstrained(hits[i])}
  BY DEF Catalog!Indices
<1>4. row = IF ranges # {} THEN hits[Catalog!Min(narrow)]
            ELSE IF Catalog!Cardinality(free) > 1 THEN Catalog!Ambiguous(hits)
            ELSE IF free # {} THEN hits[Catalog!Min(free)] ELSE Catalog!Unknown(pair)
  BY <1>2 DEF Catalog!SelectPairRecord, Catalog!WithSize, Catalog!Indices
<1>5. cell = IF covers = {} THEN Catalog!Blank(pair)
             ELSE IF covers = free /\ Catalog!Cardinality(free) > 1 THEN Catalog!Ambiguous(hits)
             ELSE hits[best]
  BY <1>2 DEF Catalog!LookupPair, Catalog!Indices
<1>6. Covering(hits, size) = {hits[i] : i \in ranges}
  BY DEF Covering, ToSet
<1>. HIDE DEF free, best, row, cell
<1>7. /\ \A j \in covers : /\ Catalog!IsUnconstrained(hits[j]) \/ Catalog!IsRange(hits[j])
                           /\ ~(Catalog!IsUnconstrained(hits[j]) /\ Catalog!IsRange(hits[j]))
                           /\ Catalog!Span(hits[j]) \in Int
      /\ \A j \in ranges : Catalog!IsRange(hits[j])
  BY <1>1, <1>3, SpansOfRows
<1>8. covers \in SUBSET (1..Len(hits)) /\ ranges \in SUBSET (1..Len(hits))
  BY <1>1, <1>3
<1>. HIDE DEF ranges
<1>9. /\ IsFiniteSet(free) /\ free \in SUBSET Int /\ IsFiniteSet(narrow) /\ narrow \in SUBSET Int
      /\ free \in SUBSET DOMAIN hits
  <2>1. free \in SUBSET DOMAIN hits /\ narrow \in SUBSET DOMAIN hits
    BY <1>1, <1>3, <1>8
  <2>. QED  BY <2>1, IndicesAreFinite
<1>10. Kept(hits, covers, Len(hits), best)
  <2>. HIDE DEF covers
  <2>. QED  BY <1>1, <1>7, <1>8, BestIsKept DEF best
<1>11. CASE ranges # {}
  <2>1. PICK r \in ranges : TRUE
    BY <1>11
  <2>2. best # 0 /\ best \in ranges
    BY <1>3, <1>7, <1>8, <1>10, <2>1 DEF Kept
  <2>3. \A j \in ranges : /\ Catalog!Span(hits[best]) <= Catalog!Span(hits[j])
                          /\ j < best => Catalog!Span(hits[best]) < Catalog!Span(hits[j])
    BY <1>7, <1>8, <1>10, <2>2 DEF Kept
  <2>4. best \in narrow
    BY <2>2, <2>3
  <2>5. Catalog!Min(narrow) \in narrow /\ Catalog!Min(narrow) <= best
    <3>. HIDE DEF narrow
    <3>. QED  BY <1>9, <2>4, BoundsOf
  <2>6. Catalog!Min(narrow) = best
    <3>1. ~(Catalog!Min(narrow) < best)
      BY <1>7, <1>8, <2>2, <2>3, <2>5
    <3>2. Catalog!Min(narrow) \in Int /\ best \in Int
      BY <1>8, <2>2, <2>5
    <3>. QED  BY <2>5, <3>1, <3>2
  <2>7. row = hits[best]
    BY <1>4, <1>11, <2>6
  <2>8. cell = hits[best]
    <3>1. covers # free
      BY <1>3, <1>7, <2>1
    <3>2. covers # {}
      BY <2>1
    <3>. QED  BY <1>5, <3>1, <3>2
  <2>9. Covering(hits, size) # {} /\ row \in Covering(hits, size) /\ row \in ToSet(hits)
    BY <1>1, <1>6, <1>8, <2>2, <2>7
  <2>10. \A other \in Covering(hits, size) : Catalog!Span(row) <= Catalog!Span(other)
    BY <1>6, <2>3, <2>7
  <2>. QED  BY <2>7, <2>8, <2>9, <2>10 DEF Agreed
<1>12. CASE ranges = {}
  <2>1. Covering(hits, size) = {} /\ covers = free
    BY <1>6, <1>12
  <2>2. CASE free = {}
    <3>1. row = Catalog!Unknown(pair)
      <4>1. ~(Catalog!Cardinality(free) > 1)
        BY <1>9, <2>2, Singletons
      <4>. QED  BY <1>4, <1>12, <2>2, <4>1
    <3>2. cell = Catalog!Blank(pair)
      BY <1>5, <2>1, <2>2
    <3>. QED  BY <2>1, <3>1, <3>2, FieldsOfNoRow DEF Undetermined
  <2>3. CASE Catalog!Cardinality(free) > 1
    <3>1. free # {}
      BY <1>9, <2>3, Singletons
    <3>2. row = Catalog!Ambiguous(hits) /\ cell = Catalog!Ambiguous(hits)
      BY <1>4, <1>5, <1>12, <2>1, <2>3, <3>1
    <3>3. row.relation = "underdetermined"
      BY <1>1, <3>2, AmbiguousIsUndetermined
    <3>. QED  BY <2>1, <3>2, <3>3 DEF Undetermined
  <2>4. CASE free # {} /\ ~(Catalog!Cardinality(free) > 1)
    <3>1. Catalog!Cardinality(free) = 1
      BY <1>9, <2>4, Singletons
    <3>2. PICK i : free = {i}
      BY <1>9, <3>1, Singletons
    <3>3. Catalog!Min(free) = i
      BY <1>9, <2>4, <3>2, BoundsOf
    <3>4. best = i
      <4>1. \E j \in 1..Len(hits) : j \in covers
        BY <1>8, <2>1, <3>2
      <4>2. best # 0
        BY <1>10, <4>1 DEF Kept
      <4>3. best \in covers
        BY <1>10, <4>2 DEF Kept
      <4>. QED  BY <2>1, <3>2, <4>3
    <3>5. row = hits[i] /\ cell = hits[i]
      BY <1>4, <1>5, <1>12, <2>1, <2>4, <3>3, <3>4
    <3>6. Catalog!IsUnconstrained(hits[i]) /\ hits[i] \in ToSet(hits)
      BY <1>1, <1>3, <3>2
    <3>. QED  BY <2>1, <3>5, <3>6 DEF Agreed
  <2>. QED  BY <2>2, <2>3, <2>4
<1>. QED  BY <1>11, <1>12

LEMMA LookupAgrees ==
  ASSUME NEW R, \A r \in R : IsRow(r), NEW hits \in Seq(R), NEW size \in Int, NEW pair
  PROVE  Found(hits, size, pair)
<1>. DEFINE row == Catalog!SelectPairRecord(hits, size, pair)
            cell == Catalog!LookupPair(hits, size, pair)
<1>. SUFFICES Agreed(hits, size, row, cell) \/ Undetermined(hits, size, row, cell)
  BY DEF Found
<1>1. Len(hits) \in Nat /\ (Len(hits) = 0 <=> hits = <<>>) /\ DOMAIN hits = 1..Len(hits)
  OBVIOUS
<1>2. CASE hits = <<>>
  <2>1. row = Catalog!Unknown(pair) /\ cell = Catalog!Blank(pair)
    BY <1>2 DEF Catalog!SelectPairRecord, Catalog!LookupPair
  <2>2. Covering(hits, size) = {}
    BY <1>2 DEF Covering, ToSet
  <2>. QED  BY <2>1, <2>2, FieldsOfNoRow DEF Undetermined
<1>3. CASE Len(hits) = 1
  <2>. DEFINE free == Catalog!Indices(hits, Catalog!IsUnconstrained)
              ranges == Catalog!Indices(hits, LAMBDA r : Catalog!InRange(r, size))
              narrow == {i \in ranges : \A j \in ranges : Catalog!Span(hits[i]) <= Catalog!Span(hits[j])}
  <2>1. ToSet(hits) = {hits[1]} /\ DOMAIN hits = {1} /\ IsRow(hits[1]) /\ hits # <<>>
    BY <1>1, <1>3 DEF ToSet
  <2>2. cell = hits[1]
    BY <1>3, <2>1 DEF Catalog!LookupPair
  <2>3. \A S : S \in SUBSET {1} /\ S # {} => Catalog!Min(S) = 1
    <3>1. IsFiniteSet({1})
      BY FS_Singleton
    <3>2. ASSUME NEW S, S \in SUBSET {1}, S # {} PROVE Catalog!Min(S) = 1
      <4>1. S = {1}
        BY <3>2
      <4>. QED  BY <3>1, <4>1, BoundsOf
    <3>. QED  BY <3>2
  <2>4. row = hits[1]
    <3>1. CASE size = Catalog!NoSize
      BY <1>3, <2>1, <3>1 DEF Catalog!SelectPairRecord, Catalog!WithoutSize
    <3>2. CASE size # Catalog!NoSize
      <4>1. row = IF ranges # {} THEN hits[Catalog!Min(narrow)]
                  ELSE IF Catalog!Cardinality(free) > 1 THEN Catalog!Ambiguous(hits)
                  ELSE IF free # {} THEN hits[Catalog!Min(free)] ELSE hits[1]
        BY <1>3, <2>1, <3>2 DEF Catalog!SelectPairRecord, Catalog!WithSize
      <4>2. free \in SUBSET {1} /\ ranges \in SUBSET {1}
        BY <2>1 DEF Catalog!Indices
      <4>. HIDE DEF free, ranges, row
      <4>3. ranges # {} => narrow = {1}
        <5>1. Catalog!Span(hits[1]) \in Int
          BY <2>1, SpansOfRows
        <5>2. SUFFICES ASSUME ranges # {} PROVE narrow = {1}
          OBVIOUS
        <5>3. ranges = {1}
          BY <4>2, <5>2
        <5>. QED  BY <5>1, <5>3
      <4>4. ~(Catalog!Cardinality(free) > 1)
        <5>1. IsFiniteSet({1})
          BY FS_Singleton
        <5>2. IsFiniteSet(free)
          BY <4>2, <5>1, FS_Subset
        <5>3. free = {} \/ free = {1}
          BY <4>2
        <5>4. CASE free = {}
          BY <5>2, <5>4, Singletons
        <5>5. CASE free = {1}
          <6>1. Catalog!Cardinality(free) = 1
            BY <5>2, <5>5, Singletons
          <6>. QED  BY <6>1
        <5>. QED  BY <5>3, <5>4, <5>5
      <4>. QED  BY <2>3, <4>1, <4>2, <4>3, <4>4
    <3>. QED  BY <3>1, <3>2
  <2>5. Covering(hits, size) \subseteq {row}
    BY <2>1, <2>4 DEF Covering
  <2>6. Catalog!Span(row) \in Int
    BY <2>1, <2>4, SpansOfRows
  <2>. HIDE DEF row, cell
  <2>. QED  BY <1>3, <2>1, <2>2, <2>4, <2>5, <2>6 DEF Agreed
<1>4. CASE Len(hits) # 0 /\ Len(hits) # 1
  <2>1. CASE size = Catalog!NoSize
    BY <1>4, <2>1, FoundWithoutSize DEF Found
  <2>2. CASE size # Catalog!NoSize
    BY <1>4, <2>2, FoundWithSize DEF Found
  <2>. QED  BY <2>1, <2>2
<1>. QED  BY <1>1, <1>2, <1>3, <1>4

LEMMA QueriesAreAsked ==
  ASSUME BagsInv, NEW q \in Queries
  PROVE  q[1] \in Pairs /\ q[2] \in Int
<1>1. q[1] \in {"C||C", "C||HtoD"} /\ q[2] \in Payloads
  BY DEF Queries
<1>2. q[1] \in Pairs
  <2>1. Catalog!PAIRS[1] = "C||HtoD" /\ Catalog!PAIRS[2] = "C||C" /\ 1 \in DOMAIN Catalog!PAIRS
        /\ 2 \in DOMAIN Catalog!PAIRS
    BY DEF Catalog!PAIRS
  <2>. QED  BY <1>1, <2>1 DEF Pairs, ToSet
<1>3. ASSUME NEW i \in DOMAIN catalog, NEW b \in ToSet(catalog[i].size)
      PROVE  b \in Nat
  <2>1. catalog[i] \in KnownRows
    BY DEF BagsInv
  <2>2. catalog[i].size \in Seq(Nat)
    BY <2>1, KnownRowsAreRows DEF IsRow
  <2>. QED  BY <2>2 DEF ToSet
<1>4. q[2] = -1 \/ \E i \in DOMAIN catalog : \E b \in ToSet(catalog[i].size) :
                     q[2] \in {b - 1, b, b + 1}
  BY <1>1 DEF Payloads, Catalog!NoSize
<1>5. q[2] \in Int
  <2>1. CASE q[2] = -1
    BY <2>1
  <2>2. ASSUME NEW i \in DOMAIN catalog, NEW b \in ToSet(catalog[i].size),
               q[2] \in {b - 1, b, b + 1}
        PROVE  q[2] \in Int
    BY <1>3, <2>2
  <2>. QED  BY <1>4, <2>1, <2>2
<1>. QED  BY <1>2, <1>5

LEMMA HitsAreRows ==
  ASSUME BagsInv, NEW pair
  PROVE  Catalog!Hits(catalog, pair, "910b") \in Seq(KnownRows)
<1>. DEFINE S == {i \in DOMAIN catalog :
                   /\ catalog[i].kind = "pair" /\ catalog[i].pair = pair
                   /\ "910b" \in {"any", Catalog!Hardware[catalog[i].hardware]}}
<1>1. Catalog!Hits(catalog, pair, "910b") = Picked(catalog, S)
  BY DEF Catalog!Hits, Catalog!Picked, Picked
<1>2. S \in SUBSET DOMAIN catalog /\ catalog \in Seq(KnownRows)
  BY DEF BagsInv
<1>. HIDE DEF S
<1>. QED  BY <1>1, <1>2, PickedSelects

\* What is applied is measured, and what is serialised is applied.
LEMMA AppliedIsMeasured ==
  ASSUME NEW cell, NEW size, NEW sync, Catalog!ShouldSerialize(cell, size, sync)
  PROVE  /\ cell.confidence = "measured" /\ cell.relation = "serial"
         /\ cell.licence # "no"
<1>1. Catalog!IsApplicable(cell, size, sync) = "yes" /\ cell.relation = "serial"
      /\ cell.licence \in {"unset", "yes"}
  BY DEF Catalog!ShouldSerialize
<1>2. cell.confidence = "measured"
  BY <1>1 DEF Catalog!IsApplicable
<1>. QED  BY <1>1, <1>2

LEMMA AnswerFields ==
  \A row, applicable, licensed :
    LET told == [status |-> 0, row |-> row, applicable |-> applicable, licensed |-> licensed]
    IN  told.row = row /\ told.applicable = applicable /\ told.licensed = licensed
OBVIOUS

LEMMA AnswerOfQuery ==
  ASSUME BagsInv, NEW q \in Queries
  PROVE  LET row == Catalog!SelectPairRecord(Catalog!Hits(catalog, q[1], "910b"), q[2], q[1])
         IN  /\ Refused => Told(q).status = 4
             /\ ~Refused =>
                  /\ Told(q).row = row
                  /\ Told(q).applicable <=>
                       row.confidence = "measured" /\ row.relation \in {"serial", "parallel", "mixed"}
                  /\ Told(q).licensed <=> row.licence # "no"
<1>. DEFINE row == Catalog!SelectPairRecord(Catalog!Hits(catalog, q[1], "910b"), q[2], q[1])
            applicable == row.confidence = "measured" /\ row.relation \in Catalog!Determined
            licensed == Catalog!RewriteLicensed(row)
<1>1. q[1] \in Catalog!ToSet(Catalog!PAIRS)
  BY QueriesAreAsked DEF Pairs, Catalog!ToSet, ToSet
<1>2. Told(q) = IF Refused THEN [status |-> 4]
                ELSE [status |-> 0, row |-> row, applicable |-> applicable, licensed |-> licensed]
  BY <1>1, Zenon DEF Told, Refused, Catalog!QueryCap
<1>3. applicable <=> row.confidence = "measured" /\ row.relation \in {"serial", "parallel", "mixed"}
  BY DEF Catalog!Determined
<1>4. licensed <=> row.licence # "no"
  BY DEF Catalog!RewriteLicensed
<1>. HIDE DEF row, applicable, licensed
<1>5. Refused => Told(q).status = 4
  BY <1>2
<1>6. ~Refused => /\ Told(q).row = row /\ Told(q).applicable = applicable
                  /\ Told(q).licensed = licensed
  <2>. DEFINE answer == [status |-> 0, row |-> row, applicable |-> applicable, licensed |-> licensed]
  <2>1. answer.row = row /\ answer.applicable = applicable /\ answer.licensed = licensed
    BY AnswerFields, Zenon
  <2>2. ~Refused => Told(q) = answer
    BY <1>2, Zenon
  <2>. HIDE DEF answer
  <2>. QED  BY <2>1, <2>2, Zenon
<1>. QED  BY <1>3, <1>4, <1>5, <1>6, Zenon DEF row

\* What applies does so inside the range of the row.
LEMMA AppliesWithin ==
  ASSUME NEW row, NEW size, Applies(row, size)
  PROVE  Within(row, size) /\ row.confidence = "measured"
<1>1. row.confidence = "measured"
  BY DEF Applies, Catalog!IsApplicable
<1>2. Catalog!IsUnconstrained(row) \/ Catalog!InRange(row, size)
  BY DEF Applies, Catalog!IsApplicable
<1>. QED  BY <1>1, <1>2 DEF Within

LEMMA QueryIsSupported ==
  ASSUME BagsInv, NEW q \in Queries, ~Refused
  PROVE  Supported(q)
<1>. DEFINE hits == Catalog!Hits(catalog, q[1], "910b")
            covering == {r \in ToSet(hits) : Catalog!InRange(r, q[2])}
            told == Told(q)
            row == Catalog!SelectPairRecord(hits, q[2], q[1])
            cell == Catalog!LookupPair(hits, q[2], q[1])
            Serialized == Catalog!ShouldSerialize(cell, q[2], "named-nonblocking")
            AppliesThere == Applies(cell, q[2])
            Free == Catalog!IsUnconstrained(told.row)
            WithinRange == Within(told.row, q[2])
<1>. SUFFICES
       /\ told.applicable =>
            /\ told.row \in ToSet(hits) /\ told.row.confidence = "measured"
            /\ \/ told.row \in covering
               \/ Free /\ covering = {}
               \/ Len(hits) = 1 /\ ~AppliesThere
       /\ covering # {} =>
            /\ told.row \in covering
            /\ \A r \in covering : Catalog!Span(told.row) <= Catalog!Span(r)
       /\ <<cell.relation, cell.confidence, cell.size>> =
            <<told.row.relation, told.row.confidence, told.row.size>>
       /\ AppliesThere /\ cell.relation \in Catalog!Determined => told.applicable
       /\ Serialized => told.applicable /\ told.licensed /\ WithinRange
  BY Zenon DEF Supported
<1>1. covering = Covering(hits, q[2])
  BY DEF Covering
<1>2. /\ told.row = row
      /\ told.applicable <=>
           row.confidence = "measured" /\ row.relation \in {"serial", "parallel", "mixed"}
      /\ told.licensed <=> row.licence # "no"
  BY AnswerOfQuery
<1>3. Agreed(hits, q[2], row, cell) \/ Undetermined(hits, q[2], row, cell)
  <2>1. hits \in Seq(KnownRows) /\ q[2] \in Int
    BY HitsAreRows, QueriesAreAsked
  <2>. HIDE DEF hits
  <2>. QED  BY <2>1, KnownRowsAreRows, LookupAgrees DEF Found
<1>4. Serialized =>
        cell.confidence = "measured" /\ cell.relation = "serial" /\ cell.licence # "no"
  BY AppliedIsMeasured
<1>5. Serialized => AppliesThere
  BY Zenon DEF Catalog!ShouldSerialize, Applies
<1>6. AppliesThere => Within(cell, q[2]) /\ cell.confidence = "measured"
  BY AppliesWithin
<1>7. Within(row, q[2]) => Catalog!IsUnconstrained(row) \/ Catalog!InRange(row, q[2])
  BY DEF Within
<1>8. row \in ToSet(hits) /\ Catalog!InRange(row, q[2]) => row \in covering
  OBVIOUS
<1>9. (Free <=> Catalog!IsUnconstrained(row)) /\ (WithinRange <=> Within(row, q[2]))
  BY <1>2
<1>10. Catalog!Determined = {"serial", "parallel", "mixed"}
  BY DEF Catalog!Determined
<1>. HIDE DEF hits, covering, told, row, cell, Serialized, AppliesThere, Free, WithinRange
<1>11. CASE Agreed(hits, q[2], row, cell)
  BY <1>1, <1>2, <1>4, <1>5, <1>6, <1>7, <1>8, <1>9, <1>10, <1>11 DEF Agreed
<1>12. CASE Undetermined(hits, q[2], row, cell)
  BY <1>1, <1>2, <1>4, <1>10, <1>12 DEF Undetermined
<1>. QED  BY <1>3, <1>11, <1>12

\* A relation is answered only on the strength of a measured row for the pair,
\* the narrowest that covers the payload, and never guessed among several; the
\* compiler finds the same row, and flattens nothing outside its range; the CUDA
\* recorder applies a row where the compiler does, and the Ascend recorder also
\* the only row of a pair outside its range; a file with a bad row answers
\* nothing; and what was projected from a campaign is what it measured.
THEOREM AnswersStaySupported == BagsSpec => []AnswerIsSupported
<1>1. BagsInv => AnswerIsSupported
  <2>. SUFFICES ASSUME BagsInv PROVE AnswerIsSupported
    OBVIOUS
  <2>1. IF Refused THEN \A q \in Queries : Told(q).status = 4
        ELSE \A q \in Queries : Supported(q)
    <3>1. ASSUME Refused PROVE \A q \in Queries : Told(q).status = 4
      BY <3>1, AnswerOfQuery
    <3>2. ASSUME ~Refused PROVE \A q \in Queries : Supported(q)
      BY <3>2, QueryIsSupported
    <3>. QED  BY <3>1, <3>2, Zenon
  <2>2. ASSUME NEW i \in DOMAIN catalog, NEW q \in Queries
        PROVE  Catalog!CapApplicability(catalog[i], q[2], "named-nonblocking") =
                 Catalog!IsApplicable(catalog[i], q[2], "named-nonblocking")
    <3>1. catalog[i] \in KnownRows
      BY DEF BagsInv
    <3>2. IsRow(catalog[i]) /\ q[2] \in Int
      BY <3>1, KnownRowsAreRows, QueriesAreAsked
    <3>. QED  BY <3>2, BothAgreeWhereARowApplies
  <2>3. Projected
    BY CampaignIsProjected
  <2>. QED  BY <2>1, <2>2, <2>3, Zenon DEF AnswerIsSupported
<1>2. BagsInit => BagsInv
  BY BagsInvInit
<1>3. BagsInv /\ [BagsNext]_bagVars => BagsInv'
  BY BagsInvStep
<1>. QED  BY <1>1, <1>2, <1>3, PTL DEF BagsSpec
=============================================================================
