---------------------------- MODULE CaseMatrices ----------------------------
(***************************************************************************)
(* The _validate functions of the record modules, each a matrix of cases   *)
(* with the outcome it demands: the evaluators as modelled give the same.  *)
(* An assumption here is a closed formula, which TLC evaluates at the      *)
(* start of a run of a module that extends this one.                       *)
(***************************************************************************)
EXTENDS Naturals, Sequences

Chain == INSTANCE CompilerSpine
Caps == INSTANCE CapabilityChain
Catalog == INSTANCE CapabilityCatalog

\* The chain of records: 28 and more cases each, from claims to a rewriting.
ASSUME SufficiencyAgrees ==
  \A c \in Chain!SufficiencyCases : Chain!SufficiencyValid(c[1], c[2])
ASSUME AuthorizationAgrees ==
  \A c \in Chain!AuthorizationCases : Chain!AuthorizationValid(c[1], c[2])
ASSUME RewriteAgrees ==
  /\ \A c \in Chain!RewriteCases : Chain!RewriteValid(c[1], c[2], c[3])
  /\ Chain!BindingValid
ASSUME ApplyAgrees ==
  (\A c \in Chain!ApplyCases : Chain!ApplyValid(c)) /\ Chain!FixturesValid
ASSUME OptimumAgrees ==
  /\ \A c \in Chain!OptimumCases : Chain!OptimumValid(c[1], c[2])
  /\ Chain!CapacityOptimumValid

\* Text, and the corpus of scenes: read, refused, replayed.
ASSUME CarrierAgrees ==
  /\ \A c \in Chain!RefusalCases : Chain!Extract(c[1]).refusal = c[2]
  /\ \A c \in Chain!ApplyCases : Chain!ReplayValid(c)
  /\ \A c \in Chain!HostCases : Chain!HostValid(c)
ASSUME ScenesAgree ==
  Chain!ScenesValid /\ Chain!CorpusValid /\ Chain!CapacityCorpusValid
ASSUME SpineAgrees ==
  /\ Chain!CallerSuppliedValid /\ Chain!ReplayMatrixValid
  /\ Chain!ReplayCorpusValid /\ Chain!SpineValid

\* The capability records and the usable decision.
ASSUME AlgebraAgrees == Caps!VocabularyValid /\ Caps!AlgebraValid
ASSUME ApplicabilityAgrees == Caps!ApplicabilityValid /\ Caps!ProfileValid
ASSUME RealizationAgrees == Caps!LegalityValid /\ Caps!CheckingValid
ASSUME JoinAgrees == Caps!XidValid /\ Caps!E2eValid /\ Caps!ReportValid

\* test/Pilot/s2c2-ascend-size-app.mlir: the bands of the 910B, asked without
\* a payload and at 16, 64 and 128 MiB.
Band(relation, lo, hi, licence) ==
  [Catalog!Blank("C||C") EXCEPT
    !.hardware = "ascend910b:ascend", !.confidence = "measured",
    !.relation = relation, !.size = <<lo, hi>>, !.licence = licence]
Bands == <<Band("mixed", 32, 96, "no"), Band("underdetermined", 128, 254, "no"),
           Band("serial", 256, 1024, "yes")>>
SizeAnswer(size) ==
  LET told == Catalog!QueryCap(Bands, "C||C", "any", size)
  IN  <<told.row.relation, told.applicable, told.licensed>>
ASSUME SizeBandsAgree ==
  /\ Catalog!Analyzed(Bands, Catalog!AscendErrors)
  /\ Catalog!ProjectCapSchema(Bands) = Bands
  /\ Catalog!ProjectCapSchema(Append(Bands, [Bands[1] EXCEPT !.flaw = "password"])) = <<>>
  /\ SizeAnswer(Catalog!NoSize) = <<"underdetermined", FALSE, FALSE>>
  /\ SizeAnswer(32) = <<"mixed", TRUE, FALSE>>
  /\ SizeAnswer(128) = <<"underdetermined", FALSE, FALSE>>
  /\ SizeAnswer(256) = <<"serial", TRUE, TRUE>>
  /\ Catalog!AcceptHardware("ascend910b:ascend") = 0
  /\ Catalog!AcceptHardware("sm89:rtx4090") = 1
  /\ Catalog!QueryCapSchema(<<Bands[3]>>, "C||C", "any").applicable = "unknown"

\* The fixtures of the C||C campaigns: where mixed turns to serial, and whether
\* the comparison with a sequence licenses a rewrite.
SizeSlice(n, relation) == [near |-> TRUE, n |-> n, relation |-> relation]
Compared(ratio) == <<[tag |-> "slice", relation |-> "serial"], [tag |-> "timing", ratio |-> ratio]>>
ASSUME CampaignsAgree ==
  /\ Catalog!SizeTransition(<<SizeSlice(4, "mixed"), SizeSlice(8, "mixed"), SizeSlice(16, "serial")>>)
       = <<"mixed-to-serial", 8, 16>>
  /\ Catalog!RewriteLicence(Compared(99) \o Compared(98) \o Compared(101)) = "yes"
  /\ Catalog!RewriteLicence(Compared(122) \o Compared(117)) = "no"
  /\ Catalog!RewriteLicence(<<>>) = "refused"

\* Over all short campaigns: a measured table holds each signature at most once,
\* none outside the family, and every campaign that does is printed unchanged.
Arms == {[signature |-> s, time |-> t] : s \in {"S0", "S1", "S2", "S3", "foreign"}, t \in {1, 2}}
ASSUME MeasuredTablesAgree ==
  \A length \in 0..4 : \A log \in [1..length -> Arms] :
    LET sigs == {log[i].signature : i \in 1..length}
        clean == sigs \subseteq {"S0", "S1", "S2", "S3"} /\ \A i, j \in 1..length :
                   log[i].signature = log[j].signature => i = j
        family == {"S0", "S1", "S2", "S3"}
    IN  /\ Catalog!EmitFromHierarchy(log, TRUE, family) = (IF clean /\ length >= 3 THEN log ELSE <<>>)
        /\ Catalog!EmitFromNtile(log, TRUE, family) = (IF clean /\ length = 4 THEN log ELSE <<>>)
        /\ Catalog!EmitFromLoop(log, FALSE, family) = <<>>
ASSUME PipelineAgrees ==
  /\ Catalog!EmitFromPipeline(TRUE, TRUE, <<>>) = <<>>
  /\ Catalog!EmitFromPipeline(TRUE, TRUE, [seq |-> 3, evi |-> 2])
       = <<[signature |-> "PREFETCH", time |-> 2], [signature |-> "PRESERVE", time |-> 3]>>

\* classify against the ratios it is written with, over small times.
ASSUME ClassifyAgrees ==
  \A a, b \in 1..12, par \in 1..24 :
    LET longer == IF a < b THEN b ELSE a
        relation == Catalog!Classify(a, b, par)
    IN  /\ par >= a + b => relation = "serial"
        /\ relation = "parallel" => par * 100 <= 115 * longer /\ 100 * par <= 75 * (a + b)
        /\ par <= longer /\ 100 * par <= 75 * (a + b) => relation = "parallel"
=============================================================================
