---------------------------- MODULE StorageApply ----------------------------
(***************************************************************************)
(* runtime/record_storage_apply.py: a bound or unbound rewrite plan is     *)
(* applied to a program.  The program is given back unchanged unless the   *)
(* plan says yes, names the one region the program has, and a witness for  *)
(* the rewritten program and device agrees with its happens-before.        *)
(*   op       [op, name, id]; an id is a path, <<"id2">>, to which the     *)
(*            rewrite appends "evict", "transfer" or "restore"             *)
(*   program  [blocks, capacity, working, hb, induced]; hb is <<>> when    *)
(*            the text gives none, else <<set of pairs>>                   *)
(***************************************************************************)
EXTENDS StorageRewrite

Machinery == {"evict", "transfer"}
AllowedBetween == {"store", "compute", "load"}

OpsOf(program) == FlattenSeq(program.blocks)
Ids(program) == {op.id : op \in ToSet(OpsOf(program))}
\* _semantic_ids: the events the programmer wrote, and their restores.
SemanticIds(program) == {op.id : op \in {o \in ToSet(OpsOf(program)) : o.op \notin Machinery}}
\* As the code counts them, an op-id that occurs twice is not unique.
OpIdsUnique(program) == Cardinality(Ids(program)) = Len(OpsOf(program))

\* The order the text gives, or else that of each block.
DirectEdges(program) ==
  IF program.hb # <<>> THEN program.hb[1]
  ELSE UNION {{<<program.blocks[b][i].id, program.blocks[b][i + 1].id>> :
                 i \in 1..(Len(program.blocks[b]) - 1)} : b \in DOMAIN program.blocks}

\* canonical_program forgets the induced order and how the order was given.
Canonical(program) ==
  [blocks |-> program.blocks, capacity |-> program.capacity,
   working |-> program.working, hb |-> DirectEdges(program)]
ProgramsEqual(p, q) == Canonical(p) = Canonical(q)

-----------------------------------------------------------------------------
\* A window: three stores of one block with nothing foreign between them.
StoreAt(ops) == {i \in DOMAIN ops : ops[i].op = "store"}
\* Faulty variant: a restore counts as a store, and anything may lie between.
WindowLoose(ops, i, m, j) ==
  {i, m, j} \subseteq {k \in DOMAIN ops : ops[k].op \in {"store", "restore"}} /\ i < m /\ m < j
Window(ops, i, m, j) ==
  /\ {i, m, j} \subseteq StoreAt(ops) /\ i < m /\ m < j
  /\ StoreAt(ops) \cap (i..j) = {i, m, j}
  /\ \A k \in i..j : ops[k].op \in AllowedBetween
Region(program, b, i, m, j) ==
  LET ops == program.blocks[b]
  IN  [block |-> b, i |-> i, j |-> j, k1 |-> ops[i].name, k2 |-> ops[m].name,
       e |-> ops[j].name, id |-> ops[j].id]
Windows(ops) == {w \in (DOMAIN ops) \X (DOMAIN ops) \X (DOMAIN ops) :
                   Window(ops, w[1], w[2], w[3])}
FindRegions(program) ==
  IF program.capacity # 2 \/ program.working <= 2 THEN {}
  ELSE UNION {{Region(program, b, w[1], w[2], w[3]) : w \in Windows(program.blocks[b])} :
                b \in DOMAIN program.blocks}
TheRegion(program) == CHOOSE r \in FindRegions(program) : TRUE
OneRegion(program) == Cardinality(FindRegions(program)) = 1

\* realization_identity: the object is always "2", whatever is evicted.
RealizationIdentity(r) ==
  <<Selection(<<r.k1, r.k2>>, <<r.e>>, <<>>), OBJECT_2, ACTION_V01, LICENSE_KIND_V01>>

SequenceMatches(sequence, r) ==
  IF sequence.bound
  THEN sequence = BoundSequence(Selection(<<r.k1, r.k2>>, <<r.e>>, <<>>))
  ELSE sequence.steps = SEQUENCE_V01

-----------------------------------------------------------------------------
EvictId(r) == Append(r.id, "evict")
TransferId(r) == Append(r.id, "transfer")
RestoreId(r) == Append(r.id, "restore")
MapStore(id, r) == IF id = r.id THEN RestoreId(r) ELSE id

\* transform_edges: into the store is into the evict, out of it out of the
\* restore; an edge from the store to itself is dropped.
TransformEdges(edges, r, induced) ==
  {<<IF e[1] = r.id THEN RestoreId(r) ELSE e[1],
     IF e[2] = r.id THEN EvictId(r) ELSE e[2]>> :
       e \in {d \in edges : d # <<r.id, r.id>>}}
  \cup {<<EvictId(r), TransferId(r)>>, <<TransferId(r), RestoreId(r)>>}
  \cup {<<MapStore(e[1], r), MapStore(e[2], r)>> : e \in induced}

Expanded(op, r) ==
  IF op.id # r.id THEN <<op>>
  ELSE <<[op |-> "evict", name |-> r.e, id |-> EvictId(r)],
         [op |-> "transfer", name |-> r.e, id |-> TransferId(r)],
         [op |-> "restore", name |-> r.e, id |-> RestoreId(r)]>>
ConstructCandidate(program, r) ==
  LET rewritten(ops) == FlattenSeq([i \in DOMAIN ops |-> Expanded(ops[i], r)])
  IN  [program EXCEPT
        !.blocks = [b \in DOMAIN @ |-> IF b = r.block THEN rewritten(@[b]) ELSE @[b]],
        !.hb = <<TransformEdges(DirectEdges(program), r, program.induced)>>,
        !.induced = {}]

(***************************************************************************)
(* _reach: the pairs joined by at least one edge; self edges and edges to  *)
(* unknown ids do not count, a node on a cycle reaches itself.             *)
(***************************************************************************)
Reach(nodes, edges) ==
  LET step == {e \in edges : {e[1], e[2]} \subseteq nodes /\ e[1] # e[2]}
      stay == {<<n, n>> : n \in nodes}
      hop[k \in 0..Cardinality(nodes)] ==
        IF k = 0 THEN step
        ELSE {<<p[1][1], p[2][2]>> :
                p \in {q \in hop[k - 1] \X (step \cup stay) : q[1][2] = q[2][1]}}
  IN  hop[Cardinality(nodes)]
SemanticHB(program) ==
  {p \in Reach(Ids(program), DirectEdges(program)) :
     {p[1], p[2]} \subseteq SemanticIds(program)}

PiMap(program, r) == [id \in SemanticIds(program) |-> MapStore(id, r)]
ProjectionHolds(source, candidate, r) ==
  LET pi == PiMap(source, r)
      image == {pi[id] : id \in DOMAIN pi}
  IN  /\ Cardinality(DOMAIN pi) = Cardinality(image)
      /\ image = SemanticIds(candidate)
      /\ {<<pi[p[1]], pi[p[2]]>> : p \in SemanticHB(source)} = SemanticHB(candidate)

\* A witness; NoWitness has no device.
NoWitness == [candidate |-> <<>>, device |-> "none", legal |-> "no", hb |-> {}]
BoundWitness(program, device, legal) ==
  LET candidate == ConstructCandidate(program, TheRegion(program))
  IN  [candidate |-> <<Canonical(candidate)>>, device |-> device, legal |-> legal,
       hb |-> SemanticHB(candidate)]
WitnessBound(witness, candidate, device) ==
  /\ witness.candidate = <<Canonical(candidate)>>
  /\ witness.device = device
  /\ witness.legal = "yes"
  /\ witness.hb = SemanticHB(candidate)

-----------------------------------------------------------------------------
ApplyResult(match, applied, reasons, program) ==
  [match |-> match, applied |-> applied, reasons |-> reasons, program |-> program]
Reject(reasons, program) == ApplyResult("no", "no", reasons, program)

MalformedPlan(bag) ==
  bag.schema # "storage_rewrite" \/ bag.source # "authorization" \/ ~bag.wellFormed
\* Faulty variant: the witness alone is believed about the order.
ApplicableUnprojected(program, candidate, r, device, witness) ==
  OpIdsUnique(candidate) /\ WitnessBound(witness, candidate, device)
Applicable(program, candidate, r, device, witness) ==
  /\ OpIdsUnique(candidate)
  /\ ~ProgramsEqual(candidate, program)
  /\ ProjectionHolds(program, candidate, r)
  /\ WitnessBound(witness, candidate, device)

\* evaluate_apply
EvaluateApply(envelopes, program, device, witness) ==
  IF envelopes = <<>> THEN Reject(<<"decision.unknown-reason">>, program)
  ELSE IF Len(envelopes) > 1 THEN Reject(<<"rewrite.duplicate-envelope">>, program)
  ELSE IF MalformedPlan(envelopes[1]) THEN Reject(<<"decision.unknown-reason">>, program)
  ELSE IF envelopes[1].plan.result # "yes"
  THEN Reject(envelopes[1].plan.reasons, program)
  ELSE IF envelopes[1].transformation # TRANSFORMATION_V01
  THEN Reject(<<"decision.unknown-reason">>, program)
  ELSE IF ~OneRegion(program) THEN Reject(<<>>, program)
  ELSE IF envelopes[1].scope # RealizationIdentity(TheRegion(program))
  THEN Reject(<<"rewrite.identity-mismatch">>, program)
  ELSE IF ~SequenceMatches(envelopes[1].sequence, TheRegion(program))
  THEN Reject(<<"rewrite.sequence-mismatch">>, program)
  ELSE LET candidate == ConstructCandidate(program, TheRegion(program)) IN
       IF Applicable(program, candidate, TheRegion(program), device, witness)
       THEN ApplyResult("yes", "yes", <<>>, candidate)
       ELSE ApplyResult("yes", "no", <<>>, program)

-----------------------------------------------------------------------------
(***************************************************************************)
(* The fixtures and the case matrix: programs of stores, plans with one    *)
(* field changed, witnesses, and the outcome _validate demands of each.    *)
(***************************************************************************)
Op(kind, name, id) == [op |-> kind, name |-> name, id |-> id]
Stores(names, prefix) ==
  [i \in DOMAIN names |-> Op("store", names[i], <<prefix \o names[i]>>)]
Program(blocks) ==
  [blocks |-> blocks, capacity |-> 2, working |-> 3, hb |-> <<>>, induced |-> {}]
Happy == Program(<<Stores(<<"0", "1", "2">>, "id")>>)
\* An order that lacks edges, and an induced edge that adds one.
Sparse == [Happy EXCEPT !.hb = <<{<<<<"id0">>, <<"id1">>>>}>>,
                        !.induced = {<<<<"id0">>, <<"id2">>>>}]
\* A second block holds an operation with an id the rewrite will make.
Collision(suffix) ==
  Program(<<Stores(<<"0", "1", "2">>, "id"),
            <<Op(IF suffix = "restore" THEN "evict" ELSE suffix, "old", <<"id2", suffix>>)>>>>)
Prefetching ==
  Program(<<<<Op("store", "0", <<"id0">>), Op("prefetch", "p", <<"idp">>),
              Op("store", "1", <<"id1">>), Op("store", "2", <<"id2">>)>>>>)

PlanYes == RewriteEnvelope(LICENSED_V01, <<>>, Decision("yes", <<"rewrite.plan-closed">>))
PlanNo == RewriteEnvelope(LICENSED_V01, <<>>, No("rewrite.license-no"))
PlanFor(i, other) == [PlanYes EXCEPT !.scope[i] = other]
PlanSteps(steps) == [PlanYes EXCEPT !.sequence = Plain(steps)]

Case(name, envelopes, program, witness) ==
  [name |-> name, envelopes |-> envelopes, program |-> program, witness |-> witness]
ApplyCases ==
  LET good == BoundWitness(Happy, "D0", "yes")
      one(name, plan) == Case(name, <<plan>>, Happy, good)
      on(name, program) == Case(name, <<PlanYes>>, program, NoWitness)
      seen(name, witness) == Case(name, <<PlanYes>>, Happy, witness)
      hit(name, suffix) == Case(name, <<PlanYes>>, Collision(suffix),
                                BoundWitness(Collision(suffix), "D0", "yes"))
  IN {
  Case("plan-missing", <<>>, Happy, NoWitness),
  one("plan-no", PlanNo),
  one("apply-yes", PlanYes),
  one("identity-selected", PlanFor(1, SELECTED_S1)),
  one("identity-object", PlanFor(2, OBJECT_3)),
  one("identity-prose-o2", PlanFor(2, "O2")),
  one("identity-action", PlanFor(3, "schedule-rewrite")),
  one("identity-kind", PlanFor(4, "other-kind")),
  one("sequence-reorder", PlanSteps(<<"KEEP", "RESTORE", "EVICT", "TRANSFER">>)),
  one("sequence-prefetch", PlanSteps(<<"PREFETCH", "KEEP", "EVICT", "RESTORE">>)),
  on("ir-extra-store", Program(<<Stores(<<"0", "1", "2", "3">>, "id")>>)),
  on("ir-missing-store", Program(<<Stores(<<"0", "1">>, "id")>>)),
  on("ir-unknown-op", Prefetching),
  Case("duplicate-envelope", <<PlanYes, PlanYes>>, Happy, NoWitness),
  one("malformed-plan", [PlanYes EXCEPT !.wellFormed = FALSE]),
  one("source-schema-mismatch", [PlanYes EXCEPT !.source = "nope"]),
  one("transformation-mismatch", [PlanYes EXCEPT !.transformation = "something-else"]),
  Case("postcondition-hb", <<PlanYes>>, Sparse, BoundWitness(Sparse, "D0", "yes")),
  seen("postcondition-legal", BoundWitness(Happy, "D0", "no")),
  seen("witness-missing", NoWitness),
  seen("witness-wrong-id", [good EXCEPT !.candidate = <<Canonical(Happy)>>]),
  seen("witness-wrong-device", BoundWitness(Happy, "D2", "yes")),
  on("multi-region", Program(<<Stores(<<"0", "1", "2">>, "a"), Stores(<<"0", "1", "2">>, "b")>>)),
  on("capacity-other", [Happy EXCEPT !.capacity = 4, !.working = 5]),
  on("cross-block", Program(<<Stores(<<"0", "1">>, "id"), Stores(<<"2">>, "id")>>)),
  on("keep-order", Program(<<Stores(<<"1", "0", "2">>, "id")>>)),
  hit("collide-evict", "evict"),
  hit("collide-transfer", "transfer"),
  hit("collide-restore", "restore")}

\* _validate: <<cases, match, reasons>>; only apply-yes is applied.
ApplyOutcomes == {
  <<{"plan-missing", "malformed-plan", "source-schema-mismatch",
     "transformation-mismatch"}, "no", <<"decision.unknown-reason">>>>,
  <<{"plan-no"}, "no", <<"rewrite.license-no">>>>,
  <<{"duplicate-envelope"}, "no", <<"rewrite.duplicate-envelope">>>>,
  <<{"identity-selected", "identity-object", "identity-prose-o2", "identity-action",
     "identity-kind", "keep-order"}, "no", <<"rewrite.identity-mismatch">>>>,
  <<{"sequence-reorder", "sequence-prefetch"}, "no", <<"rewrite.sequence-mismatch">>>>,
  <<{"ir-extra-store", "ir-missing-store", "ir-unknown-op", "multi-region",
     "capacity-other", "cross-block"}, "no", <<>>>>,
  <<{"apply-yes", "postcondition-hb", "postcondition-legal", "witness-missing",
     "witness-wrong-id", "witness-wrong-device", "collide-evict",
     "collide-transfer", "collide-restore"}, "yes", <<>>>>}

ApplyValid(c) ==
  LET bag == EvaluateApply(c.envelopes, c.program, "D0", c.witness) IN
  /\ \A o \in ApplyOutcomes : c.name \in o[1] => bag.match = o[2] /\ bag.reasons = o[3]
  /\ bag.applied = IF c.name = "apply-yes" THEN "yes" ELSE "no"
  /\ (bag.applied = "no") <=> ProgramsEqual(bag.program, c.program)
  /\ c.name = "apply-yes" =>
       [i \in 1..5 |-> OpsOf(bag.program)[i].op] =
         <<"store", "store", "evict", "transfer", "restore">>

\* The rest of _validate: what the helpers say of the fixtures.
FixturesValid ==
  LET r == TheRegion(Happy)
      again == ConstructCandidate(Happy, r)
      extra == [again EXCEPT !.blocks[1] = Append(@, Op("compute", "z", <<"extra">>))]
  IN  /\ RealizationIdentity(r) = LICENSED_V01
      /\ ~ProgramsEqual(Happy, again)
      /\ ProjectionHolds(Happy, again, r) /\ OpIdsUnique(again)
      /\ ~ProjectionHolds(Happy, extra, r)
      /\ \A suffix \in {"evict", "transfer", "restore"} :
           LET p == Collision(suffix)
               q == ConstructCandidate(p, TheRegion(p))
           IN  OneRegion(p) /\ ~OpIdsUnique(q) /\ ProjectionHolds(p, q, TheRegion(p))
=============================================================================
