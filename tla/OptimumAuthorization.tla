------------------------ MODULE OptimumAuthorization ------------------------
(***************************************************************************)
(* runtime/record_optimum_authorization.py: the second way to a licence.   *)
(* Among legal strategies the one of unique minimum cost is authorized,    *)
(* without any claim; the strategies may be the candidates of a capacity   *)
(* plan (module CapacityPlan), legal when sufficiency says so.             *)
(*   strategy  [id, legal, cost, scope]; cost is {cost}, or {} for none    *)
(*             and for one that is no integer; scope is <<selected,        *)
(*             object, action>>, or <<>> when one of them is missing       *)
(*   candidate [keep, evict, restores], sets, as CapacityPlan makes them   *)
(***************************************************************************)
EXTENDS StorageApply

\* Faulty variant: a legal row without a cost is not refused.
RowErrorUnpriced(rows, i) ==
  IF rows[i].legal \notin {"yes", "no"} THEN "optimum.malformed"
  ELSE IF \E j \in 1..(i - 1) : rows[j].id = rows[i].id THEN "optimum.duplicate-id"
  ELSE "none"

\* _parse reads the rows in order; the first bad one names the refusal.
RowError(rows, i) ==
  IF rows[i].legal \notin {"yes", "no"} THEN "optimum.malformed"
  ELSE IF \E j \in 1..(i - 1) : rows[j].id = rows[i].id THEN "optimum.duplicate-id"
  ELSE IF rows[i].legal = "yes" /\ rows[i].cost = {} THEN "optimum.cost-missing"
  ELSE "none"
BadRows(rows) == {i \in DOMAIN rows : RowError(rows, i) # "none"}

LegalRows(rows) == {row \in ToSet(rows) : row.legal = "yes"}
Cheapest(rows) ==
  {row \in LegalRows(rows) : \A other \in LegalRows(rows) :
     \A c \in row.cost, d \in other.cost : c <= d}

\* _authorization writes a yes envelope; evaluate_authorization is not asked.
OptimumEnvelope(row) ==
  AuthorizationEnvelope(row.scope, <<<<"optimum", "yes">>>>,
    Decision("yes", <<"authorization.authorized-closed">>),
    Decision("yes", <<"authorization.rewrite-license-closed">>),
    LicenseScope(row.scope))
OptimumPlan(row) ==
  BindRewritePlan(EvaluateRewrite(<<OptimumEnvelope(row)>>, LicenseScope(row.scope)))

Choice(result, reason, row, plan) ==
  [result |-> result, reason |-> reason, row |-> row, plan |-> plan]
Refuse(reason) == Choice("no", reason, <<>>, <<>>)

AuthorizeOptimum(rows) ==
  IF rows = <<>> THEN Refuse("optimum.empty")
  ELSE IF BadRows(rows) # {} THEN Refuse(RowError(rows, Min(BadRows(rows))))
  ELSE IF LegalRows(rows) = {} THEN Refuse("optimum.no-legal")
  ELSE IF Cardinality(Cheapest(rows)) # 1 THEN Refuse("optimum.tie")
  ELSE LET row == CHOOSE r \in Cheapest(rows) : TRUE IN
       IF Len(row.scope) # 3 THEN Refuse("optimum.identity-missing")
       ELSE IF OptimumPlan(row).plan.result # "yes" THEN Refuse("optimum.unbound")
       ELSE Choice("yes", "optimum.selected", <<row>>, <<OptimumPlan(row)>>)

ApplyChoice(choice, program, device, witness) ==
  IF choice.result # "yes" THEN Reject(<<choice.reason>>, program)
  ELSE EvaluateApply(choice.plan, program, device, witness)
ApplyOptimum(rows, program, device, witness) ==
  ApplyChoice(AuthorizeOptimum(rows), program, device, witness)

-----------------------------------------------------------------------------
\* An object of a capacity plan is a number, its name the text of it.
Nth(S, k) == CHOOSE o \in S : Cardinality({p \in S : p < o}) = k - 1
Names(S) == [k \in 1..Cardinality(S) |-> ToString(Nth(S, k))]
SelectionOf(c) == Selection(Names(c.keep), Names(c.evict), <<>>)

\* _capacity_sufficiency asks the evaluator; it does not join the claims itself.
Shaped(c) == Cardinality(c.restores) = Cardinality(c.evict)
Shows(r, s) ==
  CASE s = "usable" -> r.usable
    [] s = "restore-ordering" -> r.restoreOrdering
    [] s = "dest-invalidation" -> r.destInvalidation
CapacityClaim(c, s) ==
  IF s = "capacity-legal" THEN "yes"
  ELSE IF ~Shaped(c) THEN "no"
  ELSE IF c.evict = {} THEN "n/a"
  ELSE IF \A r \in c.restores : Shows(r, s) THEN "yes" ELSE "no"
CapacitySufficiency(c) ==
  LET scope == <<SelectionOf(c), OBJECT_2>>
      claim(s) == Record(s, CapacityClaim(c, s), scope, "")
  IN  EvaluateSufficiency([k \in 1..4 |-> claim(RequiredPredicates[k])], scope)

Eligible(c) == CapacitySufficiency(c).decision.result = "yes"
CostOf(c, costs) ==
  IF Eligible(c) /\ SelectionOf(c) \in DOMAIN costs THEN {costs[SelectionOf(c)]} ELSE {}
StrategiesFromCapacity(candidates, costs) ==
  [k \in DOMAIN candidates |->
     [id |-> SelectionOf(candidates[k]),
      legal |-> IF Eligible(candidates[k]) THEN "yes" ELSE "no",
      cost |-> CostOf(candidates[k], costs),
      scope |-> <<SelectionOf(candidates[k]), OBJECT_2, ACTION_V01>>]]

\* A truncated plan has no candidates (CapacityPlan).
AuthorizeCapacity(candidates, costs) ==
  LET rows == StrategiesFromCapacity(candidates, costs)
  IN  IF rows = <<>> THEN Refuse("optimum.no-legal") ELSE AuthorizeOptimum(rows)
ApplyCapacity(candidates, costs, program, device, witness) ==
  ApplyChoice(AuthorizeCapacity(candidates, costs), program, device, witness)

\* Measured rows of one profile and workload (scope "this"): identity to time.
CostRows(table) == {row \in ToSet(table) : row.scope = "this" /\ row.good}
CostsFromMeasured(table) ==
  [id \in {SelectionOf(row) : row \in CostRows(table)} |->
     (CHOOSE row \in CostRows(table) : SelectionOf(row) = id).time]

\* A program of the three stores a selection speaks of.
ProgramForSelection(selected) ==
  Program(<<Stores(<<selected.keep[1], selected.keep[2], selected.evict[1]>>, "id")>>)

-----------------------------------------------------------------------------
Strategy(id, legal, cost, selected) ==
  [id |-> id, legal |-> legal, cost |-> {cost},
   scope |-> <<selected, OBJECT_2, ACTION_V01>>]
AcceptanceStrategies ==
  <<Strategy("illegal-cheaper", "no", 1, SELECTED_S1),
    Strategy("capacity-optimum", "yes", 4, SELECTED_S0),
    Strategy("legal-costlier", "yes", 9, SELECTED_S1)>>
TieStrategies == [AcceptanceStrategies EXCEPT ![3].cost = {4}, ![3].id = "legal-tie"]

\* _validate: <<strategies, reason>>.
OptimumCases == LET rows == AcceptanceStrategies IN {
  <<rows, "optimum.selected">>,
  <<[rows EXCEPT ![2].cost = {1},
                 ![2].scope[1] = Selection(<<"0">>, <<"1", "2">>, <<>>)], "optimum.unbound">>,
  <<TieStrategies, "optimum.tie">>,
  <<SubSeq(rows, 1, 1), "optimum.no-legal">>,
  <<<<>>, "optimum.empty">>,
  <<[rows EXCEPT ![2].cost = {}], "optimum.cost-missing">>,
  <<[rows EXCEPT ![3].id = rows[2].id], "optimum.duplicate-id">>,
  <<[rows EXCEPT ![1].legal = "nope"], "optimum.malformed">>,
  <<[rows EXCEPT ![2].scope = <<>>], "optimum.identity-missing">>}
OptimumValid(rows, reason) ==
  LET chosen == AuthorizeOptimum(rows)
      applied == ApplyOptimum(rows, Happy, "D0", BoundWitness(Happy, "D0", "yes"))
  IN  /\ chosen.reason = reason
      /\ (chosen.result = "yes") <=> (applied.applied = "yes")
      /\ chosen.result = "yes" =>
           /\ chosen.row[1].id = "capacity-optimum" /\ chosen.row[1].cost = {4}
           /\ chosen.plan[1].sequence = BoundSequence(SELECTED_S0)
           /\ ApplyOptimum(rows, Happy, "D0", NoWitness) = ApplyResult("yes", "no", <<>>, Happy)

(***************************************************************************)
(* _validate_capacity: the plans of the four tiles, with no restore, with  *)
(* ordered restores, and with restores whose destination is dropped too.   *)
(***************************************************************************)
TileRestore(o, valid, dropped) ==
  [object |-> o, valid |-> valid, sourceData |-> valid, restoreOrdering |-> valid,
   usable |-> valid, destInvalidation |-> dropped]
Tile(keep, o, valid, dropped) ==
  [keep |-> keep, evict |-> {o}, restores |-> {TileRestore(o, valid, dropped)}]
FourTilePlan(valid, dropped) ==
  <<Tile({0, 1}, 2, valid, dropped), Tile({1, 2}, 0, valid, dropped),
    Tile({0, 2}, 1, valid, dropped)>>
FitPlan == <<[keep |-> {0, 1}, evict |-> {}, restores |-> {}]>>
TileCosts(a, b, c) ==
  [id \in {SelectionOf(FourTilePlan(TRUE, TRUE)[k]) : k \in 1..3} |->
     IF id = SELECTED_S0 THEN a ELSE IF id = SELECTED_S1 THEN b ELSE c]
CapacityOptimumValid ==
  LET costs == TileCosts(12401, 18881, 17771)
      dest == FourTilePlan(TRUE, TRUE)
      reason(plan, priced) == AuthorizeCapacity(plan, priced).reason
      program == ProgramForSelection(SELECTED_S0)
      fits == [id \in {SelectionOf(FitPlan[1])} |-> 1]
      one == [id \in {SELECTED_S0} |-> 12401]
      blocked == [dest EXCEPT ![1] = Tile({0, 1}, 2, TRUE, FALSE)]
      applied(w) == ApplyCapacity(dest, costs, program, "D0", w)
  IN  /\ reason(FourTilePlan(FALSE, FALSE), costs) = "optimum.no-legal"
      /\ reason(FitPlan, fits) = "optimum.no-legal"
      /\ "predicate.usable-n/a" \in ToSet(CapacitySufficiency(FitPlan[1]).decision.reasons)
      /\ reason(FourTilePlan(TRUE, FALSE), costs) = "optimum.no-legal"
      /\ AuthorizeCapacity(dest, costs).row[1].id = SELECTED_S0
      /\ reason(dest, TileCosts(5, 5, 5)) = "optimum.tie"
      /\ reason(dest, one) = "optimum.cost-missing"
      /\ AuthorizeCapacity(blocked, costs).row[1].id = SelectionOf(dest[3])
      /\ applied(NoWitness).applied = "no"
      /\ applied(BoundWitness(program, "D0", "yes")) =
           ApplyResult("yes", "yes", <<>>, ConstructCandidate(Happy, TheRegion(Happy)))
=============================================================================
