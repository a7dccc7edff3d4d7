------------------------- MODULE CapabilityCatalog -------------------------
(***************************************************************************)
(* runtime/ascend/record_ascend.py and runtime/cuda/record_v3.py: the      *)
(* schema v1 catalog of which pairs of operations overlap.  A campaign log *)
(* is projected to one row per pair; rows of narrower size bands are added *)
(* by hand; a query selects one row for a pair and a payload.  The same    *)
(* selection is written again in lib/Analysis/S2C2Capability, where it     *)
(* decides whether a concurrent region is flattened.                       *)
(*   row   [flaw, hardware, kind, pair, relation, constraint, confidence,  *)
(*         size, sync, licence]; size is <<>> (n/a), <<lo, hi>>, or <<n>>  *)
(*         for a text that is no range ("16MiB", "multiple")               *)
(*   line  [tag, ...], tag "verdict", "timing" or "json"                   *)
(* Payloads count half mebibytes, so that rounding down to MiB shows.      *)
(***************************************************************************)
EXTENDS Integers, SequencesExt, FiniteSetsExt, Selections

PAIRS == <<"C||HtoD", "C||C", "HtoD||DtoH">>
Determined == {"serial", "parallel", "mixed"}
Vocabulary == [
  kind |-> {"pair", "depth", "memory", "sync"},
  relation |-> Determined \cup {"underdetermined"},
  constraint |-> {"none", "legacy_default", "resource_contention",
                  "allocator_sync", "copy_engine_contention"},
  confidence |-> {"measured", "inferred", "arm_specific", "unknown"}]

Hardware == [hid \in {"ascend910b:ascend", "sm89:rtx4090", "unfilled"} |->
  CASE hid = "ascend910b:ascend" -> "910b"
    [] hid = "sm89:rtx4090" -> "4090"
    [] OTHER -> "none"]
IsForeign(hid) == Hardware[hid] = "4090"
AcceptHardware(hid) == IF IsForeign(hid) THEN 1 ELSE 0

\* What one line gets wrong beyond its vocabulary is its flaw.
SchemaErrors(row) ==
  {field \in DOMAIN Vocabulary : row[field] \notin Vocabulary[field]}
    \cup ({row.flaw} \cap {"missing", "v3", "password"})
CudaErrors(row) == SchemaErrors(row)
AscendErrors(row) ==
  SchemaErrors(row) \cup ({row.flaw} \cap {"extra", "vendor-word"})
    \cup (IF IsForeign(row.hardware) THEN {"foreign-hardware"} ELSE {})

\* analyze_records and analyze_cap_schema: every row, or none.
Analyzed(rows, Errors(_)) ==
  rows # <<>> /\ \A i \in DOMAIN rows : Errors(rows[i]) = {}

\* project_cap_schema_v1: the catalog is copied if all of it is valid.
ProjectCapSchema(rows) == IF Analyzed(rows, CudaErrors) THEN rows ELSE <<>>

Blank(pair) == [
  flaw |-> "none", hardware |-> "unfilled", kind |-> "pair", pair |-> pair,
  relation |-> "underdetermined", constraint |-> "none",
  confidence |-> "unknown", size |-> <<>>, sync |-> "named-nonblocking",
  licence |-> "unset"]

-----------------------------------------------------------------------------
\* classify, in integers: at least 0.90 of the sum is serial; at most 1.15 of
\* the longer and 0.75 of the sum is parallel.
Classify(a, b, par) ==
  IF a + b > 0 /\ 10 * par >= 9 * (a + b) THEN "serial"
  ELSE IF /\ Max({a, b}) > 0 => 20 * par <= 23 * Max({a, b})
          /\ a + b > 0 => 4 * par <= 3 * (a + b)
       THEN "parallel"
  ELSE "mixed"
InferConstraint(pair, relation) ==
  IF relation # "serial" THEN "none"
  ELSE IF pair = "C||C" THEN "resource_contention" ELSE "copy_engine_contention"

\* parse_pair_log.  A timing line completes the verdict pending for its pair,
\* in place: a second timing after one verdict makes the row appear twice,
\* both with the later size.  A json line goes to the last row without one.
NoRow == 0
NoSize == -1
EmptyLog == [made |-> <<>>, pending |-> [pair \in ToSet(PAIRS) |-> NoRow], rows |-> <<>>]
VerdictLine(read, line) == [read EXCEPT
  !.made = Append(@, [verdict |-> <<line>>, pair |-> line.pair, n |-> NoSize, json |-> <<>>]),
  !.pending[line.pair] = Len(read.made) + 1]
TimingLine(read, line) ==
  LET known == read.pending[line.pair]
      row == [verdict |-> <<>>, pair |-> line.pair, n |-> line.n, json |-> <<>>]
  IN  IF known # NoRow
      THEN [read EXCEPT !.made[known].n = line.n, !.rows = Append(@, known)]
      ELSE [read EXCEPT !.made = Append(@, row), !.rows = Append(@, Len(read.made) + 1)]
JsonLine(read, line) ==
  LET open == {i \in DOMAIN read.rows :
                 /\ read.made[read.rows[i]].pair = line.pair
                 /\ read.made[read.rows[i]].json = <<>>}
  IN  IF open = {} THEN read
      ELSE [read EXCEPT !.made[read.rows[Max(open)]].json = <<line.row>>]
ReadLine(read, line) ==
  CASE line.tag = "verdict" -> VerdictLine(read, line)
    [] line.tag = "timing" -> TimingLine(read, line)
    [] line.tag = "json" -> JsonLine(read, line)
\* What was read after each line.
Reading(log) ==
  LET read[i \in 0..Len(log)] ==
        IF i = 0 THEN EmptyLog ELSE ReadLine(read[i - 1], log[i])
  IN  read
ParsePairLog(log) ==
  LET read == Reading(log)[Len(log)]
  IN  [i \in DOMAIN read.rows |-> read.made[read.rows[i]]]

\* project_pairs: one row per pair; sizes that disagree leave it undetermined.
Group(rows, pair) == Picked(rows, {i \in DOMAIN rows : rows[i].pair = pair})
Verdicts(group) == {group[i].verdict[1].relation : i \in DOMAIN group}
MiB(n) == n - (n % 2)
SizeText(group) ==
  LET sizes == {MiB(group[i].n) : i \in DOMAIN group}
  IN  IF Cardinality(sizes) = 1 THEN <<Min(sizes)>> ELSE <<Min(sizes), Max(sizes)>>
Template(row, pair) == IF row.json = <<>> THEN Blank(pair) ELSE row.json[1]
ProjectedRow(group, pair) == [Template(Last(group), pair) EXCEPT
  !.hardware = "ascend910b:ascend", !.pair = pair, !.confidence = "measured",
  !.size = SizeText(group), !.licence = "unset",
  !.relation = IF Cardinality(Verdicts(group)) = 1
               THEN Last(group).verdict[1].relation ELSE "underdetermined",
  !.constraint = IF Cardinality(Verdicts(group)) = 1
                 THEN Last(group).verdict[1].constraint ELSE "none"]
\* A timing without any verdict stops the program before the catalog is opened.
Projects(rows) ==
  \A k \in DOMAIN PAIRS :
    LET group == Group(rows, PAIRS[k]) IN
    /\ group # <<>>
    /\ \A i \in DOMAIN group : group[i].verdict # <<>>
    /\ AscendErrors(ProjectedRow(group, PAIRS[k])) = {}
ProjectPairs(log) ==
  LET rows == ParsePairLog(log)
  IN  IF Projects(rows)
      THEN [k \in DOMAIN PAIRS |-> ProjectedRow(Group(rows, PAIRS[k]), PAIRS[k])]
      ELSE <<>>

-----------------------------------------------------------------------------
\* analyze_cc_size: slices near ratio one, the last of each size; where mixed
\* turns to serial, if it turns once.
SizeTransition(slices) ==
  LET near == SelectSeq(slices, LAMBDA s : s.near)
      used == IF near = <<>> THEN slices ELSE near
      last == [n \in {used[i].n : i \in DOMAIN used} |->
                 used[Max({i \in DOMAIN used : used[i].n = n})].relation]
      Of(relation) == {n \in DOMAIN last : last[n] = relation}
      back == \E n \in Of("serial"), m \in DOMAIN last : m > n /\ last[m] # "serial"
  IN  CASE back -> <<"underdetermined">>
        [] ~back /\ Of("mixed") # {} /\ Of("serial") # {} ->
             <<"mixed-to-serial", Max(Of("mixed")), Min(Of("serial"))>>
        [] Of("mixed") = DOMAIN last -> <<"none-all-mixed">>
        [] Of("serial") = DOMAIN last -> <<"none-all-serial">>
        [] OTHER -> <<"underdetermined">>

\* analyze_cc_rewrite: a slice counts once its timing follows; the licence is
\* for a campaign where every slice is serial and, run in sequence, at most
\* 1.05 times as slow (the ratio is in percent).
SEQ_SLACK == 105
ReadSlice(read, line) ==
  IF line.tag = "slice" THEN [read EXCEPT !.pending = <<line.relation>>]
  ELSE IF read.pending = <<>> THEN read
  ELSE [pending |-> <<>>,
        slices |-> Append(read.slices, <<read.pending[1], line.ratio>>)]
RewriteSlices(log) == FoldLeft(ReadSlice, [pending |-> <<>>, slices |-> <<>>], log).slices
RewriteLicence(log) ==
  LET slices == RewriteSlices(log)
  IN  IF slices = <<>> THEN "refused"
      ELSE IF \A i \in DOMAIN slices :
                slices[i][1] = "serial" /\ 0 < slices[i][2] /\ slices[i][2] <= SEQ_SLACK
           THEN "yes" ELSE "no"

\* emit_storage_measured_from_*: one row per signature of the family, or none.
EmitMeasured(log, measured, legal, Enough(_)) ==
  IF /\ measured
     /\ \A i \in DOMAIN log : log[i].signature \in legal
     /\ IsInjective([i \in DOMAIN log |-> log[i].signature])
     /\ Enough(Len(log))
  THEN log ELSE <<>>
EmitFromHierarchy(log, measured, legal) == EmitMeasured(log, measured, legal, LAMBDA n : n >= 3)
EmitFromNtile(log, measured, legal) == EmitMeasured(log, measured, legal, LAMBDA n : n = 4)
EmitFromLoop(log, measured, legal) == EmitMeasured(log, measured, legal, LAMBDA n : n = 4)
EmitFromPipeline(measured, correct, timing) ==
  IF measured /\ correct /\ timing # <<>>
  THEN <<[signature |-> "PREFETCH", time |-> timing.evi],
         [signature |-> "PRESERVE", time |-> timing.seq]>>
  ELSE <<>>

-----------------------------------------------------------------------------
IsUnconstrained(row) == row.size = <<>>
IsRange(row) == Len(row.size) = 2
InRange(row, size) == IsRange(row) /\ row.size[1] <= size /\ size <= row.size[2]
Span(row) == IF IsRange(row) THEN row.size[2] - row.size[1] ELSE 0
RewriteLicensed(row) == row.licence # "no"

\* A row that names several, and a row that names none.
Ambiguous(hits) == [hits[1] EXCEPT
  !.relation = "underdetermined", !.constraint = "none", !.confidence = "measured",
  !.size = <<0>>, !.licence = "no"]
Unknown(pair) == [Blank(pair) EXCEPT !.licence = "no"]

Indices(hits, Holds(_)) == {i \in DOMAIN hits : Holds(hits[i])}
WithoutSize(hits) ==
  LET free == Indices(hits, IsUnconstrained)
  IN  IF Len(hits) = 1 THEN hits[1]
      ELSE IF Cardinality(free) = 1 THEN hits[Min(free)] ELSE Ambiguous(hits)

\* Faulty variant: the first covering range, without sorting by span.
WithSizeFirst(hits, size, pair) ==
  LET ranges == Indices(hits, LAMBDA row : InRange(row, size))
      free == Indices(hits, IsUnconstrained)
  IN  IF ranges # {} THEN hits[Min(ranges)]
      ELSE IF Cardinality(free) > 1 THEN Ambiguous(hits)
      ELSE IF free # {} THEN hits[Min(free)]
      ELSE IF Len(hits) = 1 THEN hits[1] ELSE Unknown(pair)

\* A closed band before a row for all sizes, a narrow one before a wide one;
\* the sort is stable.  One row alone is the answer even where it does not cover.
WithSize(hits, size, pair) ==
  LET ranges == Indices(hits, LAMBDA row : InRange(row, size))
      narrow == {i \in ranges : \A j \in ranges : Span(hits[i]) <= Span(hits[j])}
      free == Indices(hits, IsUnconstrained)
  IN  IF ranges # {} THEN hits[Min(narrow)]
      ELSE IF Cardinality(free) > 1 THEN Ambiguous(hits)
      ELSE IF free # {} THEN hits[Min(free)]
      ELSE IF Len(hits) = 1 THEN hits[1] ELSE Unknown(pair)

SelectPairRecord(hits, size, pair) ==
  IF hits = <<>> THEN Unknown(pair)
  ELSE IF size = NoSize THEN WithoutSize(hits) ELSE WithSize(hits, size, pair)

Hits(rows, pair, device) ==
  Picked(rows, {i \in DOMAIN rows :
    /\ rows[i].kind = "pair" /\ rows[i].pair = pair
    /\ device \in {"any", Hardware[rows[i].hardware]}})

\* query_cap reads the whole file first: one bad row and nothing is answered.
QueryCap(rows, pair, device, size) ==
  LET row == SelectPairRecord(Hits(rows, pair, device), size, pair)
  IN  IF pair \notin ToSet(PAIRS) THEN [status |-> 2]
      ELSE IF \E i \in DOMAIN rows : AscendErrors(rows[i]) # {} THEN [status |-> 4]
      ELSE [status |-> 0, row |-> row,
            applicable |-> row.confidence = "measured" /\ row.relation \in Determined,
            licensed |-> RewriteLicensed(row)]

\* The CUDA recorder answers the first row, and says whether it applies.
Matches(recorded, asked) == recorded \in {"n/a", asked}
CapApplicability(row, size, sync) ==
  IF row.confidence # "measured" \/ ~Matches(row.sync, sync) THEN "no"
  ELSE IF IsUnconstrained(row) THEN "yes"
  ELSE IF ~IsRange(row) \/ size = NoSize THEN "unknown"
  ELSE IF InRange(row, size) THEN "yes" ELSE "no"
QueryCapSchema(rows, pair, device) ==
  LET hits == Hits(rows, pair, device)
      row == IF hits = <<>> THEN Unknown(pair) ELSE hits[1]
  IN  IF \E i \in DOMAIN rows : CudaErrors(rows[i]) # {} THEN [status |-> 4]
      ELSE [status |-> 0, row |-> row,
            applicable |-> CapApplicability(row, NoSize, "named-nonblocking")]

-----------------------------------------------------------------------------
\* The compiler's own lookup: one pass over the cells that keeps the best.
Better(cell, best) ==
  \/ IsUnconstrained(best) /\ ~IsUnconstrained(cell)
  \/ IsRange(best) /\ IsRange(cell) /\ Span(cell) < Span(best)
Best(cells, covers) ==
  LET best[i \in 0..Len(cells)] ==
        IF i = 0 THEN 0
        ELSE IF i \in covers /\ (best[i - 1] = 0 \/ Better(cells[i], cells[best[i - 1]]))
        THEN i ELSE best[i - 1]
  IN  best[Len(cells)]
LookupPair(cells, size, pair) ==
  LET free == Indices(cells, IsUnconstrained)
      covers == free \cup Indices(cells, LAMBDA cell : InRange(cell, size))
  IN  IF cells = <<>> THEN Blank(pair)
      ELSE IF Len(cells) = 1 THEN cells[1]
      ELSE IF size = NoSize
      THEN IF Cardinality(free) = 1 THEN cells[Min(free)] ELSE Ambiguous(cells)
      ELSE IF covers = {} THEN Blank(pair)
      ELSE IF covers = free /\ Cardinality(free) > 1 THEN Ambiguous(cells)
      ELSE cells[Best(cells, covers)]

IsApplicable(cell, size, sync) ==
  IF cell.confidence # "measured" THEN "no"
  ELSE IF ~Matches(cell.sync, sync) THEN "no"
  ELSE IF IsUnconstrained(cell) THEN "yes"
  ELSE IF Len(cell.size) = 1 \/ size = NoSize THEN "unknown"
  ELSE IF InRange(cell, size) THEN "yes" ELSE "no"
ShouldSerialize(cell, size, sync) ==
  /\ IsApplicable(cell, size, sync) = "yes"
  /\ cell.relation = "serial"
  /\ cell.licence \in {"unset", "yes"}
=============================================================================
