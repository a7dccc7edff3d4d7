---------------------------- MODULE DecisionBags ----------------------------
(***************************************************************************)
(* Evidence arrives record by record, in any order, from printers that     *)
(* know nothing of each other; after each record the evaluators may be     *)
(* asked.  The catalog of pairs is a third bag, which a campaign may have  *)
(* filled first.  The module adds the bags, and what their answers amount  *)
(* to.                                                                     *)
(***************************************************************************)
EXTENDS CapabilityChain
Catalog == INSTANCE CapabilityCatalog

CONSTANTS
  OccupancyRecords, CapabilityRecords, CatalogRows,
  Campaigns,    \* logs of pair timings; <<>> where no campaign was run
  MaxRecords
ASSUME MaxRecordsIsNat == MaxRecords \in Nat

\* What the programs can have written: an identity names three things and the
\* reason shown is one they print; a row has the fields of the schema, and its
\* size is n/a, a text or a range; a campaign has the lines its parser knows, and
\* counts elements.
IsRow(row) ==
  /\ DOMAIN row = DOMAIN Catalog!Blank("C||C")
  /\ row.size \in Seq(Nat) /\ Len(row.size) \in 0..2
IsLine(line) ==
  /\ line.tag \in {"verdict", "timing", "json"} /\ line.pair \in ToSet(Catalog!PAIRS)
  /\ line.tag = "timing" => line.n \in Nat
  /\ line.tag = "json" => DOMAIN line.row = DOMAIN Catalog!Blank("C||C")
ASSUME OccupancyIsPrinted ==
  \A rec \in OccupancyRecords :
    /\ rec.of = <<rec.of[1], rec.of[2], rec.of[3]>>
    /\ rec.display \in Displays
ASSUME RowsAreOfTheSchema == \A row \in CatalogRows : IsRow(row)
ASSUME CampaignsAreLogs ==
  \A log \in Campaigns : log \in Seq(ToSet(log)) /\ \A i \in DOMAIN log : IsLine(log[i])

VARIABLES occupancy, capability, campaign, catalog
bagVars == <<occupancy, capability, campaign, catalog>>

BagsInit ==
  /\ occupancy = <<>> /\ capability = <<>>
  /\ campaign \in Campaigns
  /\ catalog = Catalog!ProjectPairs(campaign)

Room == Len(occupancy) + Len(capability) + Len(catalog) < MaxRecords
AddOccupancy(rec) ==
  Room /\ occupancy' = Append(occupancy, rec) /\ UNCHANGED <<capability, campaign, catalog>>
AddCapability(rec) ==
  Room /\ capability' = Append(capability, rec) /\ UNCHANGED <<occupancy, campaign, catalog>>
AddCatalog(row) ==
  Room /\ catalog' = Append(catalog, row) /\ UNCHANGED <<occupancy, capability, campaign>>

BagsNext ==
  \/ \E rec \in OccupancyRecords : AddOccupancy(rec)
  \/ \E rec \in CapabilityRecords : AddCapability(rec)
  \/ \E row \in CatalogRows : AddCatalog(row)
BagsSpec == BagsInit /\ [][BagsNext]_bagVars

-----------------------------------------------------------------------------
UsableNow == DeriveUsable(occupancy, SELECTED_S0, OBJECT_2)
About2 == {i \in DOMAIN occupancy : occupancy[i].of[1] = SELECTED_S0 /\ occupancy[i].of[2] = OBJECT_2}

\* Two records of the scope contradict each other, or one contradicts itself.
Contradiction ==
  \E i, j \in About2 :
    IF i = j THEN occupancy[i].of # <<SELECTED_S0, occupancy[i].object, occupancy[i].kind>>
    ELSE occupancy[i].kind = occupancy[j].kind
BothSay(answer) ==
  \A kind \in {"source-data", "restore-ordering"} :
    \E i \in About2 : occupancy[i].kind = kind /\ occupancy[i].applicability = answer

\* Occupancy is usable when the two kinds are each said once, both yes, and no
\* record of the scope contradicts: in whatever order the records came, and
\* whatever is said of other scopes.
UsableIsClosed ==
  /\ UsableNow.result = "yes" <=> ~Contradiction /\ BothSay("yes")
  /\ UsableNow.result = "n/a" <=> ~Contradiction /\ BothSay("n/a")
  /\ Contradiction <=>
       UsableNow.reasons \in {<<"decision.identity-mismatch">>, <<"decision.duplicate-identity">>}

\* What a claim about the 4090 is told of one kind, through all four programs.
ToldBy(bag, kind) == RunXid(bag, "cuda", DEVICE_4090, Claim("cuda", DEVICE_4090, <<kind>>))
TheRecords(kind) == {i \in DOMAIN capability : capability[i].of = <<"cuda", DEVICE_4090, kind>>}
Sound(rec) ==
  /\ <<rec.target, rec.device, rec.kind>> = rec.of
  /\ rec.schema = RECORD_SCHEMA
  /\ {rec.applicability, rec.usable} \subseteq APPLICABILITY
  /\ rec.provenance \in {"catalog", "occupancy-query"}
  /\ rec.canonical \in CAPABILITY_TOKENS
OneSound(kind, Says(_)) ==
  \E i \in TheRecords(kind) :
    TheRecords(kind) = {i} /\ Sound(capability[i]) /\ Says(capability[i])

\* A claimed kind is satisfied by exactly one sound record that says yes,
\* violated by exactly one that says no or that it does not apply, and unproven
\* in every other case: a claim is told neither by default.
FindingsAreExact ==
  \A kind \in Kinds :
    LET told == ToldBy(capability, kind)
        result == told.findings[1].result
    IN  /\ told.status = "ok" /\ Len(told.findings) = 1
        /\ result = "satisfy" <=> OneSound(kind, LAMBDA r : r.applicability = "yes")
        /\ result = "violate" <=>
             OneSound(kind, LAMBDA r :
               \/ r.applicability = "n/a"
               \/ r.applicability = "no" /\ r.canonical = "capability.not-applicable")

\* What a query of the catalog may be asked: every pair, no payload or one at,
\* between or beside the bounds of the rows.
Payloads == {Catalog!NoSize} \cup
  UNION {UNION {{b - 1, b, b + 1} : b \in ToSet(catalog[i].size)} : i \in DOMAIN catalog}
Queries == {"C||C", "C||HtoD"} \X Payloads
Told(q) == Catalog!QueryCap(catalog, q[1], "910b", q[2])
Refused == \E i \in DOMAIN catalog : Catalog!AscendErrors(catalog[i]) # {}

\* Where a row applies: its range covers the payload, or it has none.  The
\* compiler asks for its synchronization too.
Within(row, size) == Catalog!IsUnconstrained(row) \/ Catalog!InRange(row, size)
Applies(row, size) == Catalog!IsApplicable(row, size, "named-nonblocking") = "yes"

\* The row told is the narrowest measured band around the payload or the one row
\* for all payloads, and the compiler's lookup finds the same row.  What applies
\* for the compiler is applicable for the recorder; the recorder says so of the
\* only row of a pair outside its range too, but there it does not apply for the
\* compiler.  What is flattened is applicable and licensed, inside the range.
Supported(q) ==
  LET hits == Catalog!Hits(catalog, q[1], "910b")
      covering == {row \in ToSet(hits) : Catalog!InRange(row, q[2])}
      told == Told(q)
      cell == Catalog!LookupPair(hits, q[2], q[1])
  IN  /\ told.applicable =>
           /\ told.row \in ToSet(hits) /\ told.row.confidence = "measured"
           /\ \/ told.row \in covering
              \/ Catalog!IsUnconstrained(told.row) /\ covering = {}
              \/ Len(hits) = 1 /\ ~Applies(cell, q[2])
      /\ covering # {} =>
           /\ told.row \in covering
           /\ \A row \in covering : Catalog!Span(told.row) <= Catalog!Span(row)
      /\ <<cell.relation, cell.confidence, cell.size>> =
           <<told.row.relation, told.row.confidence, told.row.size>>
      /\ Applies(cell, q[2]) /\ cell.relation \in Catalog!Determined => told.applicable
      /\ Catalog!ShouldSerialize(cell, q[2], "named-nonblocking") =>
           told.applicable /\ told.licensed /\ Within(told.row, q[2])

\* The verdicts of the campaign that a timing followed, as its lines stand.
TimedVerdicts(pair) ==
  {campaign[i].relation : i \in {i \in DOMAIN campaign :
     /\ campaign[i].tag = "verdict" /\ campaign[i].pair = pair
     /\ \E j \in DOMAIN campaign :
          /\ j > i /\ campaign[j].tag = "timing" /\ campaign[j].pair = pair
          /\ \A k \in (i + 1)..(j - 1) :
               campaign[k].tag = "verdict" => campaign[k].pair # pair}}

\* A campaign that timed two verdicts for a pair determines none.
Projected ==
  \A i \in DOMAIN Catalog!ProjectPairs(campaign) :
    catalog[i].relation # "underdetermined" =>
      TimedVerdicts(catalog[i].pair) = {catalog[i].relation}

\* A relation is answered only on the strength of a measured row for the pair and
\* is never guessed among several, unless the file holds a bad row, and then
\* nothing is answered; nothing is flattened outside the range of that row.  The
\* CUDA recorder and the compiler agree on where a row applies; the Ascend
\* recorder's flag asks neither for the size nor for the synchronization, and
\* says yes wherever the compiler does.  What was projected from a campaign is
\* what it measured.
AnswerIsSupported ==
  /\ IF Refused THEN \A q \in Queries : Told(q).status = 4
     ELSE \A q \in Queries : Supported(q)
  /\ \A i \in DOMAIN catalog, q \in Queries :
       Catalog!CapApplicability(catalog[i], q[2], "named-nonblocking") =
         Catalog!IsApplicable(catalog[i], q[2], "named-nonblocking")
  /\ Projected

\* "Applicability (evidence covers this query)": whoever asks for a payload and
\* is told that a row is applicable is told so of a row that covers it.  The
\* Ascend recorder answers the only row of a pair for every payload.
ApplicableIsCovered ==
  ~Refused =>
    \A q \in Queries :
      q[2] # Catalog!NoSize /\ Told(q).applicable => Within(Told(q).row, q[2])

\* What was contradicted stays so: no later record brings back the occupancy or
\* the kind, as the last one would if it won.
ConflictStays ==
  [][/\ Contradiction => DeriveUsable(occupancy', SELECTED_S0, OBJECT_2).result = "no"
     /\ \A kind \in Kinds :
          Cardinality(TheRecords(kind)) > 1 =>
            ToldBy(capability', kind).findings[1].result = "unproven"]_bagVars
=============================================================================
