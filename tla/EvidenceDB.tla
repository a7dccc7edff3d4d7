----------------------------- MODULE EvidenceDB -----------------------------
(***************************************************************************)
(* runtime/record_evidence.py: the file of measured evidence.  A command   *)
(* loads the whole file, adds the rows of one v1 table in memory and       *)
(* writes the file anew; it may stop at any point, and the file is read at *)
(* any point, by query, export and check.  One command writes at a time.   *)
(*   row     of a v1 table: [schema, profile, workload, sig, measured,     *)
(*           source, cost, correctness, note]; a cost or a correctness that *)
(*           is no number is <<>>, else <<n>>; a missing text is ""        *)
(*   record  [profile, workload, candidate, revision, status, correctness, *)
(*           us, source, at, note]                                         *)
(***************************************************************************)
EXTENDS Integers, FiniteSets, SequencesExt, Selections

CONSTANTS
  Sources,      \* the v1 tables
  Rows,         \* Rows[s]: the rows of a table
  NamedAs,      \* NamedAs[s]: the revision its file name stands for, or ""
  Frozen,       \* the tables of the frozen campaign, in order
  Revisions     \* the revisions a user may give, "" when none is given

TableRows == UNION {ToSet(Rows[s]) : s \in Sources}

\* Tables are lists of rows that name their profile and workload: an empty name
\* is no filter, and an export by it would be of all profiles.  The names of the
\* campaign's tables stand for a revision.
ASSUME TablesAreLists == \A s \in Sources : Rows[s] \in Seq(TableRows)
ASSUME RowsAreNamed == \A row \in TableRows : row.profile # "" /\ row.workload # ""
ASSUME CampaignIsNamed ==
  Frozen \in Seq(Sources) \ {<<>>} /\ \A i \in DOMAIN Frozen : NamedAs[Frozen[i]] # ""

VARIABLES
  file,     \* [there, rows, torn]; torn: it ends in the middle of a row
  pc,       \* "idle", "next", "merge" or "write"
  db,       \* the rows in memory
  todo,     \* the rows of the table still to be added
  task,     \* [all, revision, at, rest]: the command
  code,     \* how the last command ended: 0, 2, 4, or -1 when it stopped short
  before,   \* history: the file when the command started
  kept      \* history: the records stored since the file was last lost

vars == <<file, pc, db, todo, task, code, before, kept>>

V1_SCHEMA == "s2c2.measured_storage_cost.v1"
Absent == [there |-> FALSE, rows |-> <<>>, torn |-> FALSE]
Holding(rows) == [there |-> TRUE, rows |-> rows, torn |-> FALSE]

-----------------------------------------------------------------------------
EvidenceId(rec) == <<rec.profile, rec.workload, rec.candidate, rec.revision>>
RankingEligible(rec) == rec.status = "measured" /\ rec.correctness = 1

\* map_v1_status
StatusOf(measured, source) ==
  CASE measured = "yes" /\ source = "device-log" -> "measured"
    [] measured = "pending" -> "pending"
    [] measured # "pending" /\ (source = "fixture-table" \/ measured = "no") -> "fixture"
    [] measured = "inferred" /\ source # "fixture-table" -> "inferred"
    [] OTHER -> "invalid"
NumberOr0(field) == IF field = <<>> THEN 0 ELSE field[1]

\* normalize_v1_row
Normalize(row, revision, at) ==
  [profile |-> row.profile, workload |-> row.workload, candidate |-> row.sig,
   revision |-> revision,
   status |-> IF row.cost = <<>> \/ row.correctness = <<>> THEN "invalid"
              ELSE StatusOf(row.measured, row.source),
   correctness |-> NumberOr0(row.correctness), us |-> NumberOr0(row.cost),
   source |-> IF row.source = "" THEN "unknown" ELSE row.source, at |-> at,
   note |-> IF row.note = "" THEN "Normalized" ELSE row.note]
Skipped(row) == row.schema # V1_SCHEMA \/ row.sig = ""

\* upsert
SameId(rows, rec) == {i \in DOMAIN rows : EvidenceId(rows[i]) = EvidenceId(rec)}
\* The first record of that identity decides.
IsNoop(rows, rec) ==
  \E i \in SameId(rows, rec) : rows[i] = rec /\ \A j \in SameId(rows, rec) : i <= j
\* Faulty variant: only a record that ranks is protected.
CollidesIfRanked(rows, rec) ==
  SameId(rows, rec) # {} /\ ~IsNoop(rows, rec) /\ RankingEligible(rec)
Collides(rows, rec) == SameId(rows, rec) # {} /\ ~IsNoop(rows, rec)
Upsert(rows, rec) == IF IsNoop(rows, rec) THEN rows ELSE Append(rows, rec)

-----------------------------------------------------------------------------
\* export_measured_v1 of one revision, and project_v1; an empty filter is none.
Matches(filter, value) == filter = "" \/ filter = value
InSlice(rec, profile, workload, revision) ==
  /\ Matches(profile, rec.profile) /\ Matches(workload, rec.workload)
  /\ rec.revision = revision /\ RankingEligible(rec)
\* Two records of the slice are of one candidate.
Ambiguous(rows, profile, workload, revision) ==
  \E i \in DOMAIN rows :
    /\ InSlice(rows[i], profile, workload, revision)
    /\ \E j \in 1..(i - 1) : /\ rows[j].candidate = rows[i].candidate
                            /\ InSlice(rows[j], profile, workload, revision)
\* Faulty variant: the projection names the store as its source.
ProjectRenamed(rec) ==
  [schema |-> V1_SCHEMA, profile |-> rec.profile, workload |-> rec.workload,
   sig |-> rec.candidate, measured |-> "yes", source |-> "evidence-db", cost |-> <<rec.us>>,
   correctness |-> <<rec.correctness>>, note |-> "Projected"]
Project(rec) ==
  [schema |-> V1_SCHEMA, profile |-> rec.profile, workload |-> rec.workload,
   sig |-> rec.candidate, measured |-> IF RankingEligible(rec) THEN "yes" ELSE "no",
   source |-> IF rec.source = "" THEN "evidence-db" ELSE rec.source,
   cost |-> <<rec.us>>, correctness |-> <<rec.correctness>>, note |-> "Projected"]
Export(rows, profile, workload, revision) ==
  LET slice == Picked(rows, {i \in DOMAIN rows : InSlice(rows[i], profile, workload, revision)})
  IN  IF revision = "" THEN [code |-> 2, rows |-> <<>>]
      ELSE IF Ambiguous(rows, profile, workload, revision) THEN [code |-> 4, rows |-> <<>>]
      ELSE [code |-> 0, rows |-> [i \in DOMAIN slice |-> Project(slice[i])]]

\* query_evidence: the last ranking-eligible hit, or else the last hit.
Hits(rows, profile, workload, candidate, revision) ==
  Picked(rows, {i \in DOMAIN rows :
    /\ Matches(profile, rows[i].profile) /\ Matches(workload, rows[i].workload)
    /\ Matches(candidate, rows[i].candidate) /\ Matches(revision, rows[i].revision)})
Query(rows, profile, workload, candidate, revision) ==
  LET hits == Hits(rows, profile, workload, candidate, revision)
      eligible == Picked(hits, {i \in DOMAIN hits : RankingEligible(hits[i])})
  IN  IF eligible # <<>> THEN <<"yes", Last(eligible).status>>
      ELSE IF hits # <<>> THEN <<"no", Last(hits).status>> ELSE <<"no", "absent">>

\* check_db, of records that normalize_v1_row made.
CheckDb(rows) == \A i, j \in DOMAIN rows : EvidenceId(rows[i]) = EvidenceId(rows[j]) => i = j

-----------------------------------------------------------------------------
NoTask == [all |-> FALSE, revision |-> "", at |-> "", rest |-> <<>>]
Init ==
  /\ file = Absent /\ pc = "idle" /\ db = <<>> /\ todo = <<>> /\ task = NoTask
  /\ code = 0 /\ before = Absent /\ kept = {}

End(c) ==
  pc' = "idle" /\ code' = c /\ db' = <<>> /\ todo' = <<>>

\* load_jsonl fails on a row that is cut off, and so does the command.
Start(s) == pc' = "merge" /\ todo' = Rows[s] /\ db' = file.rows

\* ingest_measured_v1
Ingest(s, given) ==
  LET revision == IF given # "" THEN given ELSE NamedAs[s]
  IN  /\ pc = "idle" /\ before' = file /\ UNCHANGED <<file, kept>>
      /\ task' = [all |-> FALSE, revision |-> revision, at |-> "normalized-v1", rest |-> <<>>]
      /\ IF revision = "" THEN End(4)
         ELSE IF file.torn THEN End(-1)
         ELSE Start(s) /\ UNCHANGED code

\* ingest_all_frozen: the file is removed first.
FrozenTask == [all |-> TRUE, revision |-> "", at |-> "campaign-frozen", rest |-> Frozen]
\* Faulty variant: the tables are added to the file that is there.
IngestAllFrozenKeeping ==
  /\ pc = "idle" /\ ~file.torn /\ before' = file
  /\ pc' = "next" /\ task' = FrozenTask
  /\ UNCHANGED <<file, db, todo, code, kept>>
IngestAllFrozen ==
  /\ pc = "idle" /\ before' = file
  /\ file' = Absent /\ kept' = {}
  /\ pc' = "next" /\ task' = FrozenTask
  /\ UNCHANGED <<db, todo, code>>
NextTable ==
  /\ pc = "next" /\ Start(Head(task.rest))
  /\ task' = [task EXCEPT !.revision = NamedAs[Head(task.rest)], !.rest = Tail(@)]
  /\ UNCHANGED <<file, code, before, kept>>
\* A table of the campaign is not there.
TableMissing ==
  /\ pc = "next" /\ End(4) /\ UNCHANGED <<file, task, before, kept>>

\* Faulty variant: what was added so far is stored when a row collides.
AddCollisionStoring ==
  LET rec == Normalize(Head(todo), task.revision, task.at)
  IN  /\ pc = "merge" /\ todo # <<>> /\ ~Skipped(Head(todo)) /\ Collides(db, rec)
      /\ file' = Holding(db) /\ End(4) /\ UNCHANGED <<task, before, kept>>
\* A row of the same identity and another payload ends the command; nothing is
\* written, and what ingest_all_frozen removed stays removed.
AddCollision ==
  LET rec == Normalize(Head(todo), task.revision, task.at)
  IN  /\ pc = "merge" /\ todo # <<>> /\ ~Skipped(Head(todo)) /\ Collides(db, rec)
      /\ End(4) /\ UNCHANGED <<file, task, before, kept>>
AddRow ==
  LET rec == Normalize(Head(todo), task.revision, task.at)
  IN  /\ pc = "merge" /\ todo # <<>> /\ ~Skipped(Head(todo)) /\ ~Collides(db, rec)
      /\ db' = Upsert(db, rec) /\ todo' = Tail(todo)
      /\ UNCHANGED <<file, pc, task, code, before, kept>>
SkipRow ==
  /\ pc = "merge" /\ todo # <<>> /\ Skipped(Head(todo))
  /\ todo' = Tail(todo) /\ UNCHANGED <<file, pc, db, task, code, before, kept>>

\* write_jsonl: opening the file empties it.
Open ==
  /\ pc = "merge" /\ todo = <<>>
  /\ file' = Holding(<<>>) /\ pc' = "write"
  /\ UNCHANGED <<db, todo, task, code, before, kept>>
WriteRow ==
  /\ pc = "write" /\ Len(file.rows) < Len(db)
  /\ file' = Holding(Append(file.rows, db[Len(file.rows) + 1]))
  /\ UNCHANGED <<pc, db, todo, task, code, before, kept>>
Close ==
  /\ pc = "write" /\ Len(file.rows) = Len(db)
  /\ kept' = kept \cup ToSet(db)
  /\ UNCHANGED <<file, task, before>>
  /\ IF task.rest = <<>> THEN End(0)
     ELSE pc' = "next" /\ db' = <<>> /\ todo' = <<>> /\ UNCHANGED code

\* The command stops; the file ends where the writing was, perhaps in a row.
Crash ==
  /\ pc # "idle" /\ End(-1)
  /\ \E torn \in BOOLEAN :
       /\ torn => pc = "write" /\ Len(file.rows) < Len(db)
       /\ file' = [file EXCEPT !.torn = torn]
  /\ kept' = IF pc = "write" THEN ToSet(file.rows) ELSE kept
  /\ UNCHANGED <<task, before>>

Next ==
  \/ \E s \in Sources, given \in Revisions : Ingest(s, given)
  \/ IngestAllFrozen \/ NextTable \/ TableMissing
  \/ AddCollision \/ AddRow \/ SkipRow
  \/ Open \/ WriteRow \/ Close \/ Crash
Spec == Init /\ [][Next]_vars

-----------------------------------------------------------------------------
\* Whoever reads the file, while it is written or after a command stopped short
\* too, finds each identity once; so an export of one profile, workload and
\* revision is never ambiguous.
StoreIsKeyed ==
  /\ CheckDb(file.rows)
  /\ \A rec \in ToSet(file.rows) :
       Export(file.rows, rec.profile, rec.workload, rec.revision).code = 0

\* "Revision slices are immutable": a record that was stored keeps its payload,
\* until the file is lost, removed or cut by a command that stopped.
SlicesAreImmutable ==
  \A rec \in ToSet(file.rows), old \in kept : EvidenceId(rec) = EvidenceId(old) => rec = old

\* A single ingest that is refused leaves the file as it was.
RefusalLeavesFile == pc = "idle" /\ code = 4 /\ ~task.all => file = before

\* Memory as the rows of a table that collides with nothing come to it.
Adding(rows, table, revision, at) ==
  LET memory[i \in 0..Len(table)] ==
        IF i = 0 THEN rows
        ELSE IF Skipped(table[i]) THEN memory[i - 1]
        ELSE Upsert(memory[i - 1], Normalize(table[i], revision, at))
  IN  memory
Added(rows, table, revision, at) == Adding(rows, table, revision, at)[Len(table)]
\* What a file that was removed first holds after each table of the campaign.
Campaign ==
  LET stored[k \in 0..Len(Frozen)] ==
        IF k = 0 THEN <<>>
        ELSE Added(stored[k - 1], Rows[Frozen[k]], NamedAs[Frozen[k]], "campaign-frozen")
  IN  stored
CampaignRows == Campaign[Len(Frozen)]

\* The campaign, once ingested, is the same whatever the file held before and
\* however often a command stopped.
FrozenIsReproducible == pc = "idle" /\ code = 0 /\ task.all => file = Holding(CampaignRows)

\* What is exported can be ingested under a revision the file does not have, and
\* is exported from there as it was; and a query of one identity agrees with the
\* export.
NewRevisions ==
  {new \in Revisions \cup {"again"} :
     new # "" /\ \A rec \in ToSet(file.rows) : rec.revision # new}
ExportIsFaithful ==
  \A rec \in ToSet(file.rows) :
    LET export == Export(file.rows, rec.profile, rec.workload, rec.revision)
    IN  /\ \A new \in NewRevisions :
             LET again == Added(file.rows, export.rows, new, "normalized-v1")
             IN  Export(again, rec.profile, rec.workload, new) = export
        /\ Query(file.rows, rec.profile, rec.workload, rec.candidate, rec.revision)[1] = "yes"
             <=> \E i \in DOMAIN export.rows : export.rows[i].sig = rec.candidate
=============================================================================
