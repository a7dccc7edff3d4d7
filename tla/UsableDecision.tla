--------------------------- MODULE UsableDecision ---------------------------
(***************************************************************************)
(* runtime/record_decision.py: is the evidence about one (selected,        *)
(* object) enough to call its occupancy usable?  An evidence record is     *)
(*   of             its identity, <<selected, object, kind>>               *)
(*   kind, object   the payload, which may disagree with the identity      *)
(*   applicability  "yes", "no" or "n/a"                                   *)
(*   display        what the printers say; the canonical reason is another *)
(*                  token, and the family of three of them is a third      *)
(***************************************************************************)
EXTENDS DecisionRecords, Selections

Displays == {
  "unknown-witness", "unknown-scope", "replica-scope-mismatch", "destination-scope-mismatch",
  "no-source-replica", "no-validity-witness", "no-ordering-witness", "no-invalidation-witness",
  "interval-does-not-cover", "not-before-consumer", "witnessed-unmutated-cover",
  "witnessed-before-consumer", "witnessed-drop-stale"}
\* CANONICAL_FROM_DISPLAY
Canonical(display) ==
  CASE display = "unknown-witness" -> "evidence.unknown-witness"
    [] display = "unknown-scope" -> "evidence.unknown-scope"
    [] display = "replica-scope-mismatch" -> "evidence.replica-scope-mismatch"
    [] display = "destination-scope-mismatch" -> "evidence.destination-scope-mismatch"
    [] display = "no-source-replica" -> "evidence.no-source-replica"
    [] display = "no-validity-witness" -> "evidence.no-validity-witness"
    [] display = "no-ordering-witness" -> "evidence.no-ordering-witness"
    [] display = "no-invalidation-witness" -> "evidence.no-invalidation-witness"
    [] display = "interval-does-not-cover" -> "evidence.interval-does-not-cover"
    [] display = "not-before-consumer" -> "evidence.not-before-consumer"
    [] display = "witnessed-unmutated-cover" -> "evidence.witnessed-unmutated-cover"
    [] display = "witnessed-before-consumer" -> "evidence.witnessed-before-consumer"
    [] display = "witnessed-drop-stale" -> "evidence.witnessed-drop-stale"
ScopeFamily == "evidence.scope-mismatch"
ScopeDisplays == {"unknown-scope", "replica-scope-mismatch", "destination-scope-mismatch"}
Family(display) == IF display \in ScopeDisplays THEN ScopeFamily ELSE "n/a"

\* The vocabulary names the family and not its three members.
EvidenceTokens == {Canonical(d) : d \in Displays \ ScopeDisplays} \cup {ScopeFamily}
PredicateTokens ==
  {"predicate.missing-input", "predicate.source-data-present",
   "predicate.restore-ordering-present"}
DecisionTokens ==
  {"decision.subject-required", "decision.unknown-subject", "decision.unknown-reason",
   "decision.duplicate-identity", "decision.identity-mismatch"}
PrinterMap == [d \in Displays |-> IF d \in ScopeDisplays THEN Family(d) ELSE Canonical(d)]
VocabularyValid ==
  /\ Cardinality(EvidenceTokens \cup PredicateTokens \cup DecisionTokens) = 11 + 3 + 5
  /\ \A d \in Displays : PrinterMap[d] \in EvidenceTokens

Evidence(selected, object, kind, applicability, display) ==
  [of |-> <<selected, object, kind>>, kind |-> kind, object |-> object,
   applicability |-> applicability, display |-> display]

-----------------------------------------------------------------------------
Concerns(rec, selected, object) == rec.of[1] = selected /\ rec.of[2] = object
\* The places of the records of a scope in a bag.
InScope(records, selected, object) ==
  {i \in DOMAIN records : Concerns(records[i], selected, object)}

\* The first record that disagrees with itself or repeats a kind is the answer;
\* a kind that the predicate does not read counts too.
Disagrees(rec) == rec.of[3] # rec.kind \/ rec.of[2] # rec.object
RepeatsKind(records, scope, i) ==
  \E j \in scope : j < i /\ records[j].kind = records[i].kind
Refusals(records, scope) ==
  {i \in scope : Disagrees(records[i]) \/ RepeatsKind(records, scope, i)}
Refusal(records, scope) ==
  IF Disagrees(records[Min(Refusals(records, scope))])
  THEN "decision.identity-mismatch" ELSE "decision.duplicate-identity"

USABLE_KINDS == <<"source-data", "restore-ordering">>
OfKind(records, scope, kind) == {i \in scope : records[i].kind = kind}
Missing(records, scope) == \E kind \in ToSet(USABLE_KINDS) : OfKind(records, scope, kind) = {}
\* The predicate, of the two records it reads.
Predicate(read) ==
  LET says(answer) == \A k \in DOMAIN read : read[k].applicability = answer
      short == Picked(read, {k \in DOMAIN read : read[k].applicability # "yes"})
  IN  IF says("n/a") THEN Decision("n/a", <<>>)
      ELSE IF says("yes")
      THEN Decision("yes", <<"predicate.source-data-present",
                             "predicate.restore-ordering-present">>)
      ELSE Decision("no", [k \in DOMAIN short |-> Canonical(short[k].display)])

\* Faulty variant: the last record of a kind wins.
DeriveUsableLastWins(records, selected, object) ==
  LET scope == InScope(records, selected, object)
  IN  IF Missing(records, scope) THEN No("predicate.missing-input")
      ELSE Predicate([k \in DOMAIN USABLE_KINDS |->
                        records[Max(OfKind(records, scope, USABLE_KINDS[k]))]])

\* derive_usable_decision
DeriveUsable(records, selected, object) ==
  LET scope == InScope(records, selected, object)
  IN  IF Refusals(records, scope) # {} THEN No(Refusal(records, scope))
      ELSE IF Missing(records, scope) THEN No("predicate.missing-input")
      ELSE Predicate([k \in DOMAIN USABLE_KINDS |->
                        records[Min(OfKind(records, scope, USABLE_KINDS[k]))]])

-----------------------------------------------------------------------------
SourceYes == Evidence(SELECTED_S0, OBJECT_2, "source-data", "yes", "witnessed-unmutated-cover")
OrderYes == Evidence(SELECTED_S0, OBJECT_2, "restore-ordering", "yes", "witnessed-before-consumer")
DropYes == Evidence(SELECTED_S0, OBJECT_2, "dest-invalidation", "yes", "witnessed-drop-stale")
SourceNo(display) == Evidence(SELECTED_S0, OBJECT_2, "source-data", "no", display)
OrderNo == Evidence(SELECTED_S0, OBJECT_2, "restore-ordering", "no", "no-ordering-witness")
DropNo ==
  Evidence(SELECTED_S0, OBJECT_2, "dest-invalidation", "no", "destination-scope-mismatch")
NotAsked(kind) == Evidence("n/a", "n/a", kind, "n/a", "no-source-replica")
Elsewhere(rec, selected, object) ==
  [rec EXCEPT !.of[1] = selected, !.of[2] = object, !.object = object]
Mismatched == [SourceYes EXCEPT !.of[3] = "restore-ordering"]

\* <<name, records, selected, object, decision>>
UsableYes ==
  Decision("yes", <<"predicate.source-data-present", "predicate.restore-ordering-present">>)
AlgebraCases == {
  <<"dest-inv-yes-usable-yes", <<SourceYes, OrderYes, DropYes>>, SELECTED_S0, OBJECT_2, UsableYes>>,
  <<"source-unknown-scope", <<SourceNo("unknown-scope"), OrderNo>>, SELECTED_S0, OBJECT_2,
    Decision("no", <<"evidence.unknown-scope", "evidence.no-ordering-witness">>)>>,
  <<"replica-scope-mismatch", <<SourceNo("replica-scope-mismatch"), OrderNo>>,
    SELECTED_S0, OBJECT_2,
    Decision("no", <<"evidence.replica-scope-mismatch", "evidence.no-ordering-witness">>)>>,
  <<"dest-scope-mismatch-usable-yes", <<SourceYes, OrderYes, DropNo>>, SELECTED_S0, OBJECT_2,
    UsableYes>>,
  <<"missing-ordering", <<SourceYes>>, SELECTED_S0, OBJECT_2, No("predicate.missing-input")>>,
  <<"unknown-witness", <<SourceNo("unknown-witness"), OrderNo>>, SELECTED_S0, OBJECT_2,
    Decision("no", <<"evidence.unknown-witness", "evidence.no-ordering-witness">>)>>,
  <<"both-n/a", <<NotAsked("source-data"), NotAsked("restore-ordering")>>, "n/a", "n/a",
    Decision("n/a", <<>>)>>,
  <<"ignore-other-selected",
    <<SourceYes, Elsewhere(SourceYes, SELECTED_S1, OBJECT_2),
      Elsewhere(OrderYes, SELECTED_S1, OBJECT_2)>>,
    SELECTED_S0, OBJECT_2, No("predicate.missing-input")>>,
  <<"ignore-other-object",
    <<SourceYes, Elsewhere(SourceYes, SELECTED_S0, OBJECT_3),
      Elsewhere(OrderYes, SELECTED_S0, OBJECT_3)>>,
    SELECTED_S0, OBJECT_2, No("predicate.missing-input")>>,
  <<"duplicate-identity", <<SourceNo("unknown-scope"), SourceYes, OrderYes>>,
    SELECTED_S0, OBJECT_2, No("decision.duplicate-identity")>>,
  <<"identity-kind-mismatch", <<Mismatched, OrderYes>>, SELECTED_S0, OBJECT_2,
    No("decision.identity-mismatch")>>}

\* _validate_algebra: a family is never a reason, and what is said of the
\* destination is not either.
AlgebraValid ==
  /\ VocabularyValid
  /\ \A d \in Displays : Canonical(d) # d /\ Canonical(d) # ScopeFamily
  /\ \A c \in AlgebraCases :
       LET decision == DeriveUsable(c[2], c[3], c[4])
           reasons == ToSet(decision.reasons)
       IN  /\ decision = c[5]
           /\ ScopeFamily \notin reasons
           /\ \A r \in ToSet(c[2]) :
                r.kind = "dest-invalidation" /\ Concerns(r, c[3], c[4]) =>
                  Canonical(r.display) \notin reasons
=============================================================================
