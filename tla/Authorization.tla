--------------------------- MODULE Authorization ---------------------------
(***************************************************************************)
(* Two evaluators of claims, the second fed by the first.                  *)
(* runtime/record_sufficiency.py: a decision about one (selected, object)  *)
(* is sufficient when the four required predicates are each claimed once,  *)
(* for that scope, with yes.                                               *)
(* runtime/record_authorization.py: an action on one (selected, object) is *)
(* authorized when sufficiency, policy, provenance and the action are each *)
(* claimed once, for that scope, with what v0.1 wants.  The rewrite licence *)
(* is a fifth record, of its own scope, that matters only then.            *)
(***************************************************************************)
EXTENDS DecisionRecords

RequiredPredicates ==
  <<"usable", "restore-ordering", "dest-invalidation", "capacity-legal">>
Predicates == ToSet(RequiredPredicates)

\* canonical inputs: the required ones in their order, then the extras.
PredicateInputs(inputs) ==
  LET bag == Scanned(inputs, Predicates)
  IN  Shown(InOrder(bag, RequiredPredicates) \o
            FirstSeen(SelectSeq(bag, LAMBDA r : r.subject \notin Predicates)))

PredicateReason(inputs, s) ==
  IF ~Given(inputs, s) \/ The(inputs, s).result = "yes" THEN <<>>
  ELSE IF The(inputs, s).result \in {"no", "n/a"}
       THEN <<"predicate." \o s \o "-" \o The(inputs, s).result>>
       ELSE <<"decision.unknown-reason">>

PredicatesHold(inputs) ==
  \A s \in Predicates : Given(inputs, s) /\ The(inputs, s).result = "yes"

SufficiencyDecision(inputs, scope) ==
  IF Stops(inputs, Predicates) # {} THEN No(StopReason(inputs, Predicates))
  ELSE IF \E s \in Predicates :
            Given(inputs, s) /\ ScopeOf(The(inputs, s), 2) # scope
  THEN No("decision.identity-mismatch")
  ELSE IF PredicatesHold(inputs) THEN Decision("yes", <<"decision.sufficient-closed">>)
  ELSE Decision("no",
         FlattenSeq([k \in 1..4 |-> PredicateReason(inputs, RequiredPredicates[k])])
         \o IF \A s \in Predicates : Given(inputs, s) THEN <<>>
            ELSE <<"predicate.missing-input">>)

\* evaluate_sufficiency; the envelope never licenses anything.
EvaluateSufficiency(inputs, scope) ==
  [scope |-> scope, inputs |-> PredicateInputs(inputs),
   decision |-> SufficiencyDecision(inputs, scope), license |-> "no"]

-----------------------------------------------------------------------------
\* The recorded cases: one claim per predicate, with variations.
Claimed(s, result) == Record(s, result, <<SELECTED_S0, OBJECT_2>>, "")
Unscoped(s, result) == Record(s, result, <<>>, "")
AllYes == [k \in 1..4 |-> Claimed(RequiredPredicates[k], "yes")]
Without(bag, s) == SelectSeq(bag, LAMBDA r : r.subject # s)
Says(s, result) == <<Claimed(s, result)>> \o Without(AllYes, s)

SufficiencyCases == {
  <<"all-required-yes", Reverse(AllYes)>>,
  <<"dest-inv-historic", Without(AllYes, "capacity-legal")>>,
  <<"usable-and-applicable-ne-sufficient",
    <<Claimed("usable", "yes"), Unscoped("applicable", "yes")>>>>,
  <<"usable-no", Says("usable", "no")>>,
  <<"restore-ordering-no", Says("restore-ordering", "no")>>,
  <<"dest-invalidation-no", Says("dest-invalidation", "no")>>,
  <<"capacity-legal-no", Says("capacity-legal", "no")>>,
  <<"dest-invalidation-n/a", Says("dest-invalidation", "n/a")>>,
  <<"missing-usable", Without(AllYes, "usable")>>,
  <<"ignore-applicable-extra", Append(AllYes, Unscoped("applicable", "no"))>>,
  <<"duplicate-usable", <<Claimed("usable", "yes")>> \o Says("usable", "no")>>,
  <<"ignore-authorized-extra", Append(AllYes, Unscoped("authorized", "yes"))>>,
  <<"ignore-duplicate-applicable-extra",
    AllYes \o <<Unscoped("applicable", "yes"), Unscoped("applicable", "no")>>>>,
  <<"ignore-duplicate-authorized-extra",
    AllYes \o <<Unscoped("authorized", "yes"), Unscoped("authorized", "no")>>>>,
  <<"cross-scope", Append(Without(AllYes, "dest-invalidation"),
    Record("dest-invalidation", "yes", <<SELECTED_S1, OBJECT_2>>, ""))>>,
  <<"unknown-capacity-legal", Says("capacity-legal", "unknown")>>}

\* _validate_canonical: required first and in order, no extra twice.
PredicatesCanonical(shown) ==
  LET given == {shown[k][1] : k \in DOMAIN shown} IN
  /\ SubSeq([k \in DOMAIN shown |-> shown[k][1]], 1, Cardinality(given \cap Predicates))
       = SelectSeq(RequiredPredicates, LAMBDA s : s \in given)
  /\ Len(shown) = Cardinality(given)

\* _validate: the reasons each case has to give.
SufficiencyReasons == {
  <<{"all-required-yes", "ignore-applicable-extra", "ignore-authorized-extra",
     "ignore-duplicate-applicable-extra", "ignore-duplicate-authorized-extra"},
    "decision.sufficient-closed">>,
  <<{"dest-inv-historic", "usable-and-applicable-ne-sufficient", "missing-usable"},
    "predicate.missing-input">>,
  <<{"usable-no"}, "predicate.usable-no">>,
  <<{"restore-ordering-no"}, "predicate.restore-ordering-no">>,
  <<{"dest-invalidation-no"}, "predicate.dest-invalidation-no">>,
  <<{"capacity-legal-no"}, "predicate.capacity-legal-no">>,
  <<{"dest-invalidation-n/a"}, "predicate.dest-invalidation-n/a">>,
  <<{"duplicate-usable"}, "decision.duplicate-identity">>,
  <<{"cross-scope"}, "decision.identity-mismatch">>,
  <<{"unknown-capacity-legal"}, "decision.unknown-reason">>}

SufficiencyValid(name, inputs) ==
  LET bag == EvaluateSufficiency(inputs, <<SELECTED_S0, OBJECT_2>>)
      extras == SelectSeq(bag.inputs, LAMBDA r : r[1] \notin Predicates)
  IN  /\ PredicatesCanonical(bag.inputs)
      /\ bag.decision.result \in {"yes", "no"}
      /\ \A e \in SufficiencyReasons : name \in e[1] => bag.decision.reasons = <<e[2]>>
      /\ bag.decision.result = "yes" <=>
           name \in (CHOOSE e \in SufficiencyReasons : "all-required-yes" \in e[1])[1]
      /\ name = "ignore-duplicate-applicable-extra" => extras = <<<<"applicable", "yes">>>>
      /\ name = "ignore-duplicate-authorized-extra" => extras = <<<<"authorized", "yes">>>>
      /\ bag.license = "no"

-----------------------------------------------------------------------------
(***************************************************************************)
(* Authorization and the rewrite licence.                                  *)
(***************************************************************************)
RequiredClaims == <<"sufficient", "policy-match", "provenance", "action-match">>
Claims == ToSet(RequiredClaims)
Licence == "rewrite-license"
POLICY_V01 == "authorization-policy-v0.1"
ACTION_V01 == "storage-rewrite"
LICENSE_KIND_V01 == "storage-capacity-rewrite"

\* canonical inputs: required, then every licence, then the extras.
ClaimInputs(inputs) ==
  LET bag == Scanned(inputs, Claims)
  IN  Shown(InOrder(bag, RequiredClaims) \o About(bag, {Licence}) \o
            FirstSeen(SelectSeq(bag, LAMBDA r : r.subject \notin Claims \cup {Licence})))

\* The scope of sufficiency has no action; the other claims name it.
ClaimScope(s, scope) == IF s = "sufficient" THEN SubSeq(scope, 1, 2) ELSE scope
ClaimHolds(rec, action) ==
  /\ rec.result = "yes"
  /\ rec.subject = "policy-match" => rec.claim = POLICY_V01
  /\ rec.subject = "provenance" => rec.claim = "known"
  /\ rec.subject = "action-match" => rec.claim = action

Foreign(rec) == rec.result \notin {"yes", "no", "n/a"}
ClaimRefusal(rec) ==
  CASE rec.subject = "sufficient" ->
         IF rec.result \in {"no", "n/a"} THEN "authorization.sufficient-no"
         ELSE "decision.unknown-reason"
    [] rec.subject = "policy-match" ->
         IF Foreign(rec) THEN "authorization.policy-unknown"
         ELSE "authorization.policy-mismatch"
    [] rec.subject = "provenance" ->
         IF Foreign(rec) /\ rec.claim # "unknown" THEN "decision.unknown-reason"
         ELSE "authorization.provenance-unknown"
    [] rec.subject = "action-match" ->
         IF Foreign(rec) THEN "decision.unknown-reason"
         ELSE "authorization.action-mismatch"
ClaimReason(inputs, s, action) ==
  IF ~Given(inputs, s) \/ ClaimHolds(The(inputs, s), action) THEN <<>>
  ELSE <<ClaimRefusal(The(inputs, s))>>

ClaimsHold(inputs, action) ==
  \A s \in Claims : Given(inputs, s) /\ ClaimHolds(The(inputs, s), action)
\* Faulty variant: the object and the action are compared, not the selection.
ClaimsForeignObject(inputs, scope) ==
  \E s \in Claims : Given(inputs, s) /\ The(inputs, s).scope[2] # scope[2]
ClaimsForeign(inputs, scope) ==
  \E s \in Claims :
    Given(inputs, s) /\ ScopeOf(The(inputs, s), IF s = "sufficient" THEN 2 ELSE 3)
                        # ClaimScope(s, scope)

\* An early return leaves the licence unread.
ClaimsReturnEarly(inputs, scope) ==
  Stops(inputs, Claims) # {} \/ ClaimsForeign(inputs, scope)

AuthorizedDecision(inputs, scope) ==
  IF Stops(inputs, Claims) # {} THEN No(StopReason(inputs, Claims))
  ELSE IF ClaimsForeign(inputs, scope) THEN No("authorization.identity-mismatch")
  ELSE IF ClaimsHold(inputs, scope[3])
  THEN Decision("yes", <<"authorization.authorized-closed">>)
  ELSE Decision("no",
         FlattenSeq([k \in 1..4 |-> ClaimReason(inputs, RequiredClaims[k], scope[3])])
         \o IF \A s \in Claims : Given(inputs, s) THEN <<>>
            ELSE <<"predicate.missing-input">>)

Licences(inputs) == {i \in DOMAIN inputs : inputs[i].subject = Licence}
LicenseScope(scope) == Append(scope, LICENSE_KIND_V01)

\* The licence is for this very scope and kind, and there is only one.
LicenceRead(inputs, scope) ==
  /\ AuthorizedDecision(inputs, scope).result = "yes"
  /\ Cardinality(Licences(inputs)) = 1
  /\ ScopeOf(The(inputs, Licence), 4) = LicenseScope(scope)

LicenseDecision(inputs, scope) ==
  IF ClaimsReturnEarly(inputs, scope) THEN No("authorization.authorized-no")
  ELSE IF Cardinality(Licences(inputs)) > 1 THEN No("authorization.duplicate-license")
  ELSE IF AuthorizedDecision(inputs, scope).result # "yes"
  THEN No("authorization.authorized-no")
  ELSE IF Licences(inputs) = {} THEN No("authorization.rewrite-license-missing")
  ELSE IF ~LicenceRead(inputs, scope) THEN No("authorization.identity-mismatch")
  ELSE IF The(inputs, Licence).result = "yes"
  THEN Decision("yes", <<"authorization.rewrite-license-closed">>)
  ELSE IF The(inputs, Licence).result = "no" THEN No("authorization.rewrite-license-no")
  ELSE No("decision.unknown-reason")

(***************************************************************************)
(* The envelope.  schema, source, wellFormed and own are what a reader can *)
(* find wrong with an altered one: its schemas, the shape of its two       *)
(* decisions, and an identity inside the licence decision (<<>>: none).    *)
(***************************************************************************)
AuthorizationEnvelope(scope, shown, authorized, license, licenseScope) ==
  [schema |-> "authorization", source |-> "decision", scope |-> scope,
   inputs |-> shown, authorized |-> authorized, license |-> license,
   licenseScope |-> licenseScope, wellFormed |-> TRUE, own |-> <<>>]

EvaluateAuthorization(inputs, scope) ==
  AuthorizationEnvelope(scope, ClaimInputs(inputs),
    AuthorizedDecision(inputs, scope), LicenseDecision(inputs, scope),
    IF LicenceRead(inputs, scope) THEN LicenseScope(scope) ELSE <<>>)

-----------------------------------------------------------------------------
SCOPE_V01 == <<SELECTED_S0, OBJECT_2, ACTION_V01>>
Sufficient(result) == Record("sufficient", result, <<SELECTED_S0, OBJECT_2>>, "")
Policy(result, policy) == Record("policy-match", result, SCOPE_V01, policy)
Provenance(result, known) == Record("provenance", result, SCOPE_V01, known)
ActionClaim(result, action) == Record("action-match", result, SCOPE_V01, action)
LicenceOf(result, kind) == Record(Licence, result, Append(SCOPE_V01, kind), "")

AllClaims == <<Sufficient("yes"), Policy("yes", POLICY_V01),
               Provenance("yes", "known"), ActionClaim("yes", ACTION_V01)>>
\* _from_6cm: sufficiency as its evaluator answered, the rest claimed.
FromSufficiency ==
  LET bag == EvaluateSufficiency(Reverse(AllYes), <<SELECTED_S0, OBJECT_2>>)
  IN  <<Record("sufficient", bag.decision.result, bag.scope, "")>> \o Tail(AllClaims)
Instead(rec) ==
  [k \in 1..4 |-> IF AllClaims[k].subject = rec.subject THEN rec ELSE AllClaims[k]]

AuthorizationCases == {
  <<"sufficient-no", Instead(Sufficient("no"))>>,
  <<"sufficient-yes-policy-missing", Without(AllClaims, "policy-match")>>,
  <<"wrong-policy", Instead(Policy("yes", "other-policy"))>>,
  <<"unknown-policy", Instead(Policy("unknown", POLICY_V01))>>,
  <<"action-mismatch", Instead(ActionClaim("no", "schedule-rewrite"))>>,
  <<"device-placement", Instead(ActionClaim("no", "device-placement"))>>,
  <<"selected-mismatch",
    Instead(Record("sufficient", "yes", <<SELECTED_S1, OBJECT_2>>, ""))>>,
  <<"object-mismatch",
    Instead(Record("sufficient", "yes", <<SELECTED_S0, OBJECT_3>>, ""))>>,
  <<"provenance-missing", Without(AllClaims, "provenance")>>,
  <<"provenance-unknown", Instead(Provenance("no", "unknown"))>>,
  <<"duplicate-identity", <<Sufficient("yes")>> \o Instead(Sufficient("no"))>>,
  <<"authorized-yes-license-missing", AllClaims>>,
  <<"rewrite-license-no", Append(AllClaims, LicenceOf("no", LICENSE_KIND_V01))>>,
  <<"rewrite-license-yes", Append(AllClaims, LicenceOf("yes", LICENSE_KIND_V01))>>,
  <<"rewrite-license-kind-mismatch", Append(AllClaims, LicenceOf("yes", "other-kind"))>>,
  <<"duplicate-license", AllClaims \o
    <<LicenceOf("yes", "other-kind"), LicenceOf("yes", LICENSE_KIND_V01)>>>>,
  <<"missing-action-match", Without(AllClaims, "action-match")>>,
  <<"sufficient-n/a", Instead(Sufficient("n/a"))>>,
  <<"shuffled-required", Reverse(AllClaims)>>,
  <<"consume-6c-m-yes", FromSufficiency>>,
  <<"license-yes-but-not-authorized",
    Append(Instead(Sufficient("no")), LicenceOf("yes", LICENSE_KIND_V01))>>}

\* _validate: <<cases, reason of authorized, reason of the licence>>.
AuthorizationReasons == {
  <<{"sufficient-no", "sufficient-n/a", "license-yes-but-not-authorized"},
    "authorization.sufficient-no", "authorization.authorized-no">>,
  <<{"sufficient-yes-policy-missing", "provenance-missing", "missing-action-match"},
    "predicate.missing-input", "authorization.authorized-no">>,
  <<{"wrong-policy"}, "authorization.policy-mismatch", "authorization.authorized-no">>,
  <<{"unknown-policy"}, "authorization.policy-unknown", "authorization.authorized-no">>,
  <<{"action-mismatch", "device-placement"},
    "authorization.action-mismatch", "authorization.authorized-no">>,
  <<{"selected-mismatch", "object-mismatch"},
    "authorization.identity-mismatch", "authorization.authorized-no">>,
  <<{"provenance-unknown"},
    "authorization.provenance-unknown", "authorization.authorized-no">>,
  <<{"duplicate-identity"},
    "decision.duplicate-identity", "authorization.authorized-no">>,
  <<{"authorized-yes-license-missing", "shuffled-required", "consume-6c-m-yes"},
    "authorization.authorized-closed", "authorization.rewrite-license-missing">>,
  <<{"rewrite-license-no"},
    "authorization.authorized-closed", "authorization.rewrite-license-no">>,
  <<{"rewrite-license-yes"},
    "authorization.authorized-closed", "authorization.rewrite-license-closed">>,
  <<{"rewrite-license-kind-mismatch"},
    "authorization.authorized-closed", "authorization.identity-mismatch">>,
  <<{"duplicate-license"},
    "authorization.authorized-closed", "authorization.duplicate-license">>}

\* _validate_canonical: required first and in order.
ClaimsCanonical(shown) ==
  LET subjects == [k \in DOMAIN shown |-> shown[k][1]]
      given == ToSet(subjects) \cap Claims
  IN  SubSeq(subjects, 1, Cardinality(given)) =
        SelectSeq(RequiredClaims, LAMBDA s : s \in given)

AuthorizationValid(name, inputs) ==
  LET bag == EvaluateAuthorization(inputs, SCOPE_V01) IN
  /\ ClaimsCanonical(bag.inputs)
  /\ bag.scope = SCOPE_V01
  /\ {bag.authorized.result, bag.license.result} \subseteq {"yes", "no"}
  /\ bag.license.result = "yes" => bag.authorized.result = "yes"
  /\ \A e \in AuthorizationReasons : name \in e[1] =>
       bag.authorized.reasons = <<e[2]>> /\ bag.license.reasons = <<e[3]>>
  /\ name = "duplicate-license" =>
       Cardinality({k \in DOMAIN bag.inputs : bag.inputs[k][1] = Licence}) = 2
  /\ name = "rewrite-license-yes" =>
       bag.license.result = "yes" /\ bag.licenseScope = LicenseScope(SCOPE_V01)
=============================================================================
