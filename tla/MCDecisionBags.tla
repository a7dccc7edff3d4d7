--------------------------- MODULE MCDecisionBags ---------------------------
(* Records that agree, contradict, belong elsewhere or are malformed; four  *)
(* fit a contradiction, both kinds and one record of another scope.  The    *)
(* catalog's rows are the three bands of the 910B and their rivals; a        *)
(* campaign times three pairs at two sizes, and may lose one of its lines.   *)
EXTENDS DecisionBags

NotApplicable(kind) ==
  Evidence(SELECTED_S0, OBJECT_2, kind, "n/a", "no-source-replica")
MCOccupancy == {
  SourceYes, OrderYes, DropNo, SourceNo("unknown-scope"), Mismatched,
  NotApplicable("source-data"), NotApplicable("restore-ordering"),
  Elsewhere(OrderYes, SELECTED_S1, OBJECT_2)}
MCCapability == {
  Cuda(Pair, "yes"), Cuda(Pair, "no"), Cuda(Nonblocking, "yes"), Cuda(Dma, "n/a"),
  UnknownPair, On("cuda", OTHER_DEVICE, Pair, "yes"),
  [Cuda(Pair, "yes") EXCEPT !.of[3] = Nonblocking],
  [Cuda(Dma, "yes") EXCEPT !.schema = "s2c2.evidence_record.v1"],
  [Cuda(Dma, "no") EXCEPT !.canonical = "capability.missing-evidence"],
  [Cuda(Nonblocking, "yes") EXCEPT !.provenance = "invented"]}

\* Bounds in half mebibytes: 16..48 MiB mixed, 64..127 transition, 128..512 serial.
Band(relation, constraint, size, licence) ==
  [Catalog!Blank("C||C") EXCEPT
    !.hardware = "ascend910b:ascend", !.confidence = "measured",
    !.relation = relation, !.constraint = constraint, !.size = size, !.licence = licence]
Mixed == Band("mixed", "none", <<32, 96>>, "no")
Transition == Band("underdetermined", "none", <<128, 254>>, "no")
Serial == Band("serial", "resource_contention", <<256, 1024>>, "yes")
MCCatalog == {
  Mixed, Transition, Serial,
  [Serial EXCEPT !.size = <<32, 1024>>, !.licence = "unset", !.sync = "legacy-default"],
  [Serial EXCEPT !.size = <<>>, !.licence = "other"],
  [Mixed EXCEPT !.size = <<>>, !.confidence = "inferred"],
  [Serial EXCEPT !.size = <<64>>],
  [Serial EXCEPT !.hardware = "sm89:rtx4090", !.sync = "legacy-default"],
  [Serial EXCEPT !.hardware = "unfilled", !.pair = "C||HtoD"]}

Timed(pair, relation, n) == <<
  [tag |-> "verdict", pair |-> pair, relation |-> relation,
   constraint |-> Catalog!InferConstraint(pair, relation)],
  [tag |-> "timing", pair |-> pair, n |-> n],
  [tag |-> "json", pair |-> pair, row |-> Catalog!Blank(pair)]>>
Run(n, first, second, third) ==
  Timed("C||HtoD", first, n) \o Timed("C||C", second, n) \o Timed("HtoD||DtoH", third, n)
Agreeing == Run(32, "parallel", "serial", "mixed") \o Run(257, "parallel", "serial", "mixed")
Disagreeing == Run(32, "mixed", "mixed", "mixed") \o Run(128, "parallel", "serial", "mixed")
MCCampaigns ==
  {<<>>, Agreeing, Run(32, "parallel", "serial", "mixed")}
    \cup {RemoveAt(Disagreeing, i) : i \in (4..17) \ {7}}
=============================================================================
