--------------------------- MODULE CompilerSpine ---------------------------
(***************************************************************************)
(* runtime/record_compiler_spine.py: carrier text is read and its program  *)
(* handed to the host with an envelope and a witness; and the scenes of    *)
(* record_apply_scenario.py and record_scenario_corpus.py, which the spine *)
(* replays.  An argument the caller does not give is <<>>; one that is     *)
(* given, a missing witness too, is passed on as it is.                    *)
(***************************************************************************)
EXTENDS MlirCarrier

DEVICE == "D0"
RealPlan == EvaluateRewrite(<<Licensed("yes")>>, LICENSED_V01)

Refused(code) == [refusal |-> code, bag |-> <<>>]
Answered(bag) == [refusal |-> "none", bag |-> <<bag>>]

\* project: options of the compiler are refused before the text is looked at.
Project(text, opt) ==
  IF opt THEN [refusal |-> "opt-bypass", program |-> <<>>] ELSE Extract(text)
GivenOr(argument, default) == IF argument = <<>> THEN default ELSE argument[1]

\* The host is reached with a program that has exactly one region.
Reached(text, opt) ==
  LET read == Project(text, opt)
  IN  IF read.refusal # "none" THEN read.refusal
      ELSE IF ~OneRegion(read.program[1]) THEN "no-region" ELSE "none"

Integrate(text, opt, envelope, witness) ==
  IF Reached(text, opt) # "none" THEN Refused(Reached(text, opt))
  ELSE LET program == Extract(text).program[1] IN
       Answered(EvaluateApply(<<GivenOr(envelope, RealPlan)>>, program, DEVICE,
                  GivenOr(witness, BoundWitness(program, DEVICE, "yes"))))

HandoffCapacity(text, opt, candidates, costs, witness) ==
  IF Reached(text, opt) # "none" THEN Refused(Reached(text, opt))
  ELSE Answered(ApplyCapacity(candidates, costs, Extract(text).program[1], DEVICE, witness))

-----------------------------------------------------------------------------
\* record_apply_scenario
Scene(name, program, mode, match, applied, reasons) ==
  [name |-> name, program |-> program, mode |-> mode, envelope |-> RealPlan,
   match |-> match, applied |-> applied, reasons |-> reasons]
SceneWitness(program, mode) ==
  CASE mode = "missing" -> NoWitness
    [] mode = "wrong-device" -> BoundWitness(program, "D2", "yes")
    [] mode = "bound" -> BoundWitness(program, DEVICE, "yes")
Keep10 == Program(<<Stores(<<"1", "0", "2">>, "id")>>)
TwoRegions == Program(<<Stores(<<"0", "1", "2">>, "a"), Stores(<<"0", "1", "2">>, "b")>>)
CrossBlock == Program(<<Stores(<<"0", "1">>, "id"), Stores(<<"2">>, "id")>>)

Scenes == {
  Scene("success", Happy, "bound", "yes", "yes", <<>>),
  Scene("identity-mismatch", Keep10, "bound", "no", "no", <<"rewrite.identity-mismatch">>),
  Scene("multiple-region", TwoRegions, "bound", "no", "no", <<>>),
  Scene("hb-mismatch", Sparse, "bound", "yes", "no", <<>>),
  Scene("witness-missing", Happy, "missing", "yes", "no", <<>>),
  Scene("wrong-device", Happy, "wrong-device", "yes", "no", <<>>),
  Scene("opid-collision", Collision("evict"), "bound", "yes", "no", <<>>)}

\* observe
Observe(scene, witness) == EvaluateApply(<<scene.envelope>>, scene.program, DEVICE, witness)
\* _expect_failure and _check_row: the outcome, and an unapplied program as it was.
AsExpected(scene, bag) ==
  /\ <<bag.match, bag.applied, bag.reasons>> = <<scene.match, scene.applied, scene.reasons>>
  /\ bag.applied = "no" => ProgramsEqual(bag.program, scene.program)
CANONICAL_P_PRIME ==
  [blocks |-> <<<<Op("store", "0", <<"id0">>), Op("store", "1", <<"id1">>),
                  Op("evict", "2", <<"id2", "evict">>),
                  Op("transfer", "2", <<"id2", "transfer">>),
                  Op("restore", "2", <<"id2", "restore">>)>>>>,
   capacity |-> 2, working |-> 3,
   hb |-> {<<<<"id0">>, <<"id1">>>>, <<<<"id1">>, <<"id2", "evict">>>>,
           <<<<"id2", "evict">>, <<"id2", "transfer">>>>,
           <<<<"id2", "transfer">>, <<"id2", "restore">>>>}]
ScenesValid ==
  /\ \A s \in Scenes : AsExpected(s, Observe(s, SceneWitness(s.program, s.mode)))
  /\ RealPlan.plan = Decision("yes", <<"rewrite.plan-closed">>)
  /\ RealPlan.scope = LICENSED_V01 /\ RealPlan.sequence = Plain(SEQUENCE_V01)
  /\ BoundWitness(Happy, DEVICE, "yes").candidate = <<CANONICAL_P_PRIME>>

-----------------------------------------------------------------------------
\* record_scenario_corpus: S01 to S09; a program without a single region has no
\* witness.
CorpusWitness(program, mode) ==
  IF mode = "bound" /\ ~OneRegion(program) THEN NoWitness ELSE SceneWitness(program, mode)
Corpus == {
  Scene("S01", Happy, "bound", "yes", "yes", <<>>),
  Scene("S02", Keep10, "bound", "no", "no", <<"rewrite.identity-mismatch">>),
  Scene("S03", TwoRegions, "bound", "no", "no", <<>>),
  Scene("S04", CrossBlock, "bound", "no", "no", <<>>),
  Scene("S05", Sparse, "bound", "yes", "no", <<>>),
  Scene("S06", Happy, "missing", "yes", "no", <<>>),
  Scene("S07", Happy, "wrong-device", "yes", "no", <<>>),
  Scene("S08", Collision("evict"), "bound", "yes", "no", <<>>),
  [Scene("S09", Happy, "bound", "no", "no", <<"decision.unknown-reason">>)
     EXCEPT !.envelope.transformation = "something-else"]}
CorpusBag(s) == Observe(s, CorpusWitness(s.program, s.mode))
CorpusValid ==
  \A s \in Corpus :
    /\ AsExpected(s, CorpusBag(s))
    /\ s.name = "S01" => Canonical(CorpusBag(s).program) = CANONICAL_P_PRIME

-----------------------------------------------------------------------------
\* check_capacity_corpus: the corpus through the capacity handoff, which reads
\* neither the induced order nor the envelope of a scene.
CapacityCorpusValid ==
  LET costs == TileCosts(12401, 18881, 17771)
      text(s) == Render(s.program)
      bag(s) == HandoffCapacity(text(s), FALSE, FourTilePlan(TRUE, TRUE), costs,
                                CorpusWitness(Extract(text(s)).program[1], s.mode))
      named(names) == {s \in Corpus : s.name \in names}
  IN  /\ \A s \in named({"S03", "S04"}) : bag(s) = Refused("no-region")
      /\ \A s \in named({"S01", "S05", "S09"}) : bag(s).bag[1].applied = "yes"
      /\ \A s \in named({"S02", "S06", "S07", "S08"}) : bag(s).bag[1].applied = "no"
      /\ \A s \in named({"S06", "S07", "S08"}) : bag(s).bag[1].match = "yes"

\* check_caller_supplied: what the caller gives is not replaced.
CallerSuppliedValid ==
  LET text == Render(Happy)
      closed == [RealPlan EXCEPT !.plan = No("rewrite.license-no")]
      outcome(envelope, witness) ==
        LET bag == Integrate(text, FALSE, envelope, witness).bag[1]
        IN  <<bag.match, bag.applied, bag.program>>
  IN  /\ \A w \in {NoWitness, BoundWitness(Happy, DEVICE, "no"), BoundWitness(Happy, "D2", "yes")} :
           outcome(<<>>, <<w>>) = <<"yes", "no", Happy>>
      /\ outcome(<<closed>>, <<>>) = <<"no", "no", Happy>>

\* replay_matrix: the cases through text; the one with an induced order too.
ReplayMatrixValid ==
  \A c \in ApplyCases :
    LET via == EvaluateApply(c.envelopes, Extract(Render(c.program)).program[1], "D0", c.witness)
        direct == EvaluateApply(c.envelopes, c.program, "D0", c.witness)
    IN  /\ <<via.match, via.applied, via.reasons>>
             = <<direct.match, direct.applied, direct.reasons>>
        /\ ProgramsEqual(via.program, direct.program)
\* replay_corpus: S05 is refused as a fixture and applied as text.
ReplayCorpusValid ==
  \A s \in Corpus :
    LET plain == [s EXCEPT !.program = Extract(Render(s.program)).program[1]]
    IN  IF s.program.induced # {}
        THEN CorpusBag(s).applied = "no" /\ CorpusBag(plain).applied = "yes"
        ELSE CorpusBag(plain) = CorpusBag(s)

\* _validate: <<text, options given, refusal>>, and what is answered.
SpineRefusals == {
  <<Render(Happy), TRUE, "opt-bypass">>,
  <<[AcceptanceText EXCEPT !.head = FALSE], TRUE, "opt-bypass">>,
  <<[AcceptanceText EXCEPT !.items[1].body[3].attrs =
       Append(Drop(@, "op_id"), <<"op", Str("store")>>)], FALSE, "syntax">>,
  <<Render([Happy EXCEPT !.capacity = 1]), FALSE, "no-region">>,
  <<Render([Happy EXCEPT !.working = 2]), FALSE, "no-region">>,
  <<Render(Program(<<Stores(<<"0", "1", "2", "3">>, "id")>>)), FALSE, "no-region">>,
  <<Render(Program(<<Stores(<<"0", "1">>, "id")>>)), FALSE, "no-region">>}
SpineValid ==
  LET costs == TileCosts(12401, 18881, 17771)
      renamed == [Happy EXCEPT !.blocks[1][1].name = "9"]
      handed(plan, w) == HandoffCapacity(Render(Happy), FALSE, plan, costs, w).bag[1].applied
      witness == BoundWitness(Happy, DEVICE, "yes")
  IN  /\ \A r \in SpineRefusals : Integrate(r[1], r[2], <<>>, <<>>) = Refused(r[3])
      /\ Canonical(Integrate(Render(Happy), FALSE, <<>>, <<>>).bag[1].program) = CANONICAL_P_PRIME
      /\ Integrate(Render(renamed), FALSE, <<>>, <<>>).bag[1]
           = Reject(<<"rewrite.identity-mismatch">>, renamed)
      /\ HandoffCapacity(Render(Happy), TRUE, FourTilePlan(TRUE, TRUE), costs, witness)
           = Refused("opt-bypass")
      /\ handed(FourTilePlan(TRUE, TRUE), witness) = "yes"
      /\ handed(FourTilePlan(TRUE, TRUE), NoWitness) = "no"
      /\ handed(FourTilePlan(FALSE, FALSE), witness) = "no"
=============================================================================
