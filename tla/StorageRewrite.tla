--------------------------- MODULE StorageRewrite ---------------------------
(***************************************************************************)
(* runtime/record_storage_rewrite.py: one authorization envelope whose     *)
(* licence is yes for the expected scope becomes a rewrite plan, and the   *)
(* plan is bound to the names of the selection.  A bag may also hold a     *)
(* claimed sequence and records of other subjects.                         *)
(***************************************************************************)
EXTENDS Authorization

SequenceSubject == "rewrite-sequence"
SEQUENCE_V01 == <<"KEEP", "EVICT", "TRANSFER", "RESTORE">>
TRANSFORMATION_V01 == "keep-evict-transfer-restore"

\* The steps of a plan: plain ones, or <<step, name>> once bound.
Plain(steps) == [bound |-> FALSE, steps |-> steps]
Bound(steps) == [bound |-> TRUE, steps |-> steps]
NoSteps == Plain(<<>>)

IsEnvelope(rec) == "schema" \in DOMAIN rec /\ rec.schema = "authorization"
SubjectOf(rec) == IF "subject" \in DOMAIN rec THEN rec.subject ELSE NoSubject
Nameless(rec) == ~IsEnvelope(rec) /\ SubjectOf(rec) = NoSubject

\* The scan stops at a record that is no envelope and has no subject.
ScannedRewrite(inputs) ==
  LET stops == {i \in DOMAIN inputs : Nameless(inputs[i])}
  IN  IF stops = {} THEN inputs
      ELSE SubSeq(inputs, 1, (CHOOSE i \in stops : \A j \in stops : i <= j) - 1)
ClaimsSequence(rec) == ~IsEnvelope(rec) /\ SubjectOf(rec) = SequenceSubject
Envelopes(inputs) == {i \in DOMAIN inputs : IsEnvelope(inputs[i])}
Sequences(inputs) == {i \in DOMAIN inputs : ClaimsSequence(inputs[i])}
One(inputs, S) == inputs[CHOOSE i \in S : TRUE]
RewriteInputs(inputs) ==
  LET bag == ScannedRewrite(inputs)
      others == SelectSeq(bag, LAMBDA r :
                  ~IsEnvelope(r) /\ SubjectOf(r) # SequenceSubject)
  IN  [k \in 1..Cardinality(Envelopes(bag)) |-> <<"authorization", "present">>]
      \o Shown(SelectSeq(bag, ClaimsSequence) \o FirstSeen(others))

\* Malformed: not an envelope v0.1 could have issued.
Malformed(bag) ==
  \/ bag.source # "decision"
  \/ ~bag.wellFormed
  \/ bag.license.result = "yes" /\ bag.authorized.result # "yes"

\* The identity inside the licence decision, when there is one.
OwnIncomplete(bag) == bag.own # <<>> /\ Len(bag.own[1]) # 4
OwnDiffers(bag, expect) == bag.own # <<>> /\ bag.own[1] # expect

LicensedFor(bag, expect) ==
  /\ ~Malformed(bag)
  /\ bag.scope = SubSeq(expect, 1, 3)
  /\ bag.license.result = "yes"
  /\ bag.licenseScope = expect
  /\ ~OwnDiffers(bag, expect)

\* What is wrong with the envelope, in the order the code looks.
EnvelopeRefusal(bag, expect) ==
  IF Malformed(bag) THEN "decision.unknown-reason"
  ELSE IF bag.scope # SubSeq(expect, 1, 3) THEN "rewrite.identity-mismatch"
  ELSE IF bag.license.result # "yes" THEN "rewrite.license-no"
  ELSE IF bag.licenseScope # expect THEN "rewrite.identity-mismatch"
  ELSE IF OwnIncomplete(bag) THEN "decision.unknown-reason"
  ELSE "rewrite.identity-mismatch"

RewriteDecision(inputs, expect) ==
  IF \E i \in DOMAIN inputs : Nameless(inputs[i]) THEN No("decision.unknown-reason")
  ELSE IF Envelopes(inputs) = {} THEN No("predicate.missing-input")
  ELSE IF Cardinality(Envelopes(inputs)) > 1 THEN No("rewrite.duplicate-envelope")
  ELSE IF Cardinality(Sequences(inputs)) > 1 THEN No("rewrite.duplicate-sequence")
  ELSE IF ~LicensedFor(One(inputs, Envelopes(inputs)), expect)
  THEN No(EnvelopeRefusal(One(inputs, Envelopes(inputs)), expect))
  ELSE IF \E i \in Sequences(inputs) : inputs[i].claim # SEQUENCE_V01
  THEN No("rewrite.sequence-mismatch")
  ELSE Decision("yes", <<"rewrite.plan-closed">>)

RewriteEnvelope(scope, shown, plan) ==
  [schema |-> "storage_rewrite", source |-> "authorization", scope |-> scope,
   inputs |-> shown, plan |-> plan, wellFormed |-> TRUE,
   sequence |-> IF plan.result = "yes" THEN Plain(SEQUENCE_V01) ELSE NoSteps,
   transformation |-> IF plan.result = "yes" THEN TRANSFORMATION_V01 ELSE "n/a"]

EvaluateRewrite(inputs, expect) ==
  RewriteEnvelope(expect, RewriteInputs(inputs), RewriteDecision(inputs, expect))

\* parse_selected refuses a text with an empty name in one of its lists.
Parsed(selected) ==
  "" \notin ToSet(selected.keep \o selected.evict \o selected.remat)

\* bound_sequence: two kept, one evicted, all three different.
Bindable(selected) ==
  /\ Parsed(selected)
  /\ selected.remat = <<>>
  /\ Len(selected.keep) = 2 /\ Len(selected.evict) = 1
  /\ Cardinality(ToSet(selected.keep \o selected.evict)) = 3
BoundSequence(selected) ==
  Bound(<<<<"KEEP", selected.keep[1]>>, <<"KEEP", selected.keep[2]>>,
          <<"EVICT", selected.evict[1]>>, <<"TRANSFER", selected.evict[1]>>,
          <<"RESTORE", selected.evict[1]>>>>)

BindRewritePlan(bag) ==
  IF bag.plan.result # "yes" THEN bag
  ELSE IF ~Bindable(bag.scope[1])
  THEN [bag EXCEPT !.plan = No("rewrite.sequence-mismatch"),
                   !.sequence = NoSteps, !.transformation = "n/a"]
  ELSE [bag EXCEPT !.sequence = BoundSequence(bag.scope[1])]

-----------------------------------------------------------------------------
LICENSED_V01 == LicenseScope(SCOPE_V01)
Licensed(result) ==
  EvaluateAuthorization(Append(AllClaims, LicenceOf(result, LICENSE_KIND_V01)), SCOPE_V01)
AuthorizedNo ==
  EvaluateAuthorization(Append(Instead(Sufficient("no")),
                               LicenceOf("yes", LICENSE_KIND_V01)), SCOPE_V01)
ClaimedSequence(steps) == Record(SequenceSubject, "yes", <<>>, steps)
ExpectOther(i, other) == [LICENSED_V01 EXCEPT ![i] = other]

\* <<name, bag, expected scope>>
RewriteCases ==
  LET yes == Licensed("yes")
      same == ClaimedSequence(SEQUENCE_V01)
  IN {
  <<"license-missing", <<EvaluateAuthorization(AllClaims, SCOPE_V01)>>, LICENSED_V01>>,
  <<"license-no", <<Licensed("no")>>, LICENSED_V01>>,
  <<"authorized-no", <<AuthorizedNo>>, LICENSED_V01>>,
  <<"rewrite-plan-yes", <<yes>>, LICENSED_V01>>,
  <<"matching-sequence", <<yes, same>>, LICENSED_V01>>,
  <<"selected-mismatch", <<yes>>, ExpectOther(1, SELECTED_S1)>>,
  <<"object-mismatch", <<yes>>, ExpectOther(2, OBJECT_3)>>,
  <<"action-mismatch", <<yes>>, ExpectOther(3, "schedule-rewrite")>>,
  <<"license-kind-mismatch", <<yes>>, ExpectOther(4, "other-kind")>>,
  <<"wrong-sequence", <<yes, ClaimedSequence(<<"PREFETCH", "PRESERVE">>)>>, LICENSED_V01>>,
  <<"duplicate-sequence", <<yes, same, same>>, LICENSED_V01>>,
  <<"duplicate-envelope", <<yes, yes>>, LICENSED_V01>>,
  <<"unknown-schema", <<[schema |-> "nope"]>>, LICENSED_V01>>,
  <<"extras-ignored", <<yes, Record("cost-rank", "yes", <<>>, "")>>, LICENSED_V01>>,
  <<"malformed-authorized", <<[yes EXCEPT !.authorized.result = "no"]>>, LICENSED_V01>>,
  <<"malformed-rewrite-license", <<[yes EXCEPT !.wellFormed = FALSE]>>, LICENSED_V01>>,
  <<"source-schema-mismatch", <<[yes EXCEPT !.source = "nope"]>>, LICENSED_V01>>,
  <<"license-identity-drift",
    <<[yes EXCEPT !.own = <<ExpectOther(1, SELECTED_S1)>>]>>, LICENSED_V01>>}

RewriteReasons == {
  <<{"license-missing", "license-no", "authorized-no"}, "rewrite.license-no">>,
  <<{"rewrite-plan-yes", "matching-sequence", "extras-ignored"}, "rewrite.plan-closed">>,
  <<{"selected-mismatch", "object-mismatch", "action-mismatch",
     "license-kind-mismatch", "license-identity-drift"}, "rewrite.identity-mismatch">>,
  <<{"wrong-sequence"}, "rewrite.sequence-mismatch">>,
  <<{"duplicate-sequence"}, "rewrite.duplicate-sequence">>,
  <<{"duplicate-envelope"}, "rewrite.duplicate-envelope">>,
  <<{"unknown-schema", "malformed-authorized", "malformed-rewrite-license",
     "source-schema-mismatch"}, "decision.unknown-reason">>}

RewriteValid(name, inputs, expect) ==
  LET bag == EvaluateRewrite(inputs, expect)
      count(subject) == Cardinality({k \in DOMAIN bag.inputs : bag.inputs[k][1] = subject})
  IN  /\ bag.scope = expect
      /\ \A e \in RewriteReasons : name \in e[1] => bag.plan.reasons = <<e[2]>>
      /\ bag.plan.result = "yes" <=> bag.plan.reasons = <<"rewrite.plan-closed">>
      /\ bag.sequence = IF bag.plan.result = "yes" THEN Plain(SEQUENCE_V01) ELSE NoSteps
      /\ (bag.transformation = TRANSFORMATION_V01) <=> bag.plan.result = "yes"
      /\ name = "extras-ignored" =>
           bag.inputs = <<<<"authorization", "present">>, <<"cost-rank", "yes">>>>
      /\ count(SequenceSubject) =
           IF name = "duplicate-sequence" THEN 2
           ELSE IF name \in {"matching-sequence", "wrong-sequence"} THEN 1 ELSE 0

\* _validate_binding
BindingValid ==
  LET yes == EvaluateRewrite(<<Licensed("yes")>>, LICENSED_V01)
      remat == [yes EXCEPT !.scope[1].remat = <<"9">>]
      placed == EvaluateRewrite(<<Licensed("yes")>>, ExpectOther(3, "device-placement"))
  IN  /\ BindRewritePlan(yes).plan = yes.plan
      /\ BindRewritePlan(yes).sequence.steps =
           <<<<"KEEP", "0">>, <<"KEEP", "1">>, <<"EVICT", "2">>,
             <<"TRANSFER", "2">>, <<"RESTORE", "2">>>>
      /\ BindRewritePlan(yes).transformation = TRANSFORMATION_V01
      /\ BindRewritePlan(remat).plan = No("rewrite.sequence-mismatch")
      /\ placed.plan = No("rewrite.identity-mismatch")
      /\ placed.sequence = NoSteps /\ placed.transformation = "n/a"
=============================================================================
