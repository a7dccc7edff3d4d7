-------------------------- MODULE CapacityHandoff --------------------------
(***************************************************************************)
(* What becomes of a capacity plan: the gates a query prints about the     *)
(* selected candidate (runtime/record_capacity.py), none of which licenses *)
(* a rewrite, and the way to a licence through the optimum of the measured *)
(* costs (runtime/record_optimum_authorization.py).                        *)
(***************************************************************************)
EXTENDS CapacityPlan, OptimumAuthorization

\* The gates take <<>> or <<candidate>>.  All restores show it, or n/a.
Complete(c) == c.restores # {} /\ Cardinality(c.restores) = Cardinality(c.evict)
Status(sel, Holds(_)) ==
  IF sel = <<>> \/ sel[1].evict = {} THEN "n/a"
  ELSE IF Complete(sel[1]) /\ \A r \in sel[1].restores : Holds(r) THEN "yes" ELSE "no"

EvictClosed(sel) == Status(sel, LAMBDA r : r.valid)
SourceDataStatus(sel) == Status(sel, LAMBDA r : r.sourceData)
RestoreOrderingStatus(sel) == Status(sel, LAMBDA r : r.restoreOrdering)
UsableStatus(sel) == Status(sel, LAMBDA r : r.usable)
DestInvalidationStatus(sel) == Status(sel, LAMBDA r : r.destInvalidation)
ReplicaExistsStatus(sel) ==
  IF EvictClosed(sel) # "no" THEN EvictClosed(sel)
  ELSE IF \E r \in sel[1].restores : r.valid THEN "mixed" ELSE "no"

LicenseRestore(sel) ==
  IF sel = <<>> THEN <<"n/a", "n/a">>
  ELSE IF sel[1].evict = {} THEN <<"unused", "n/a">> ELSE <<"unspecified", "no">>
Necessary(sel) ==
  IF sel # <<>> /\ sel[1].evict = {} THEN "n/a"
  ELSE IF sel # <<>> /\ ~truncated /\ EvictClosed(sel) = "yes" THEN "yes" ELSE "no"

\* authorize_capacity(load_capacity_plan(...), costs_from_measured(...)).
Authorized == AuthorizeCapacity(plan, CostsFromMeasured(q.table))

\* What an input names: the objects of the spec and of the measured rows.  Each
\* has a name, and its own.
Named(i) ==
  Objects(i.rs) \cup UNION {i.table[m].keep \cup i.table[m].evict : m \in DOMAIN i.table}
ASSUME ObjectsAreNamed ==
  \A i \in Inputs :
    /\ \A m \in DOMAIN i.table : IsFiniteSet(i.table[m].keep) /\ IsFiniteSet(i.table[m].evict)
    /\ Named(i) \subseteq Int
    /\ \A o, p \in Named(i) : ToString(o) # "" /\ (ToString(o) = ToString(p) => o = p)

-----------------------------------------------------------------------------
Sel(n) == <<plan[n]>>
EligibleSet == {n \in DOMAIN plan : Eligible(plan[n])}
Strictly(n) == \A m \in EligibleSet \ {n} : Min(Measured(n)) < Min(Measured(m))

\* The candidates the gates speak for: those whose every restore is usable and
\* whose stale copy is dropped.
Spoken(n) ==
  /\ Necessary(Sel(n)) = "yes" /\ ReplicaExistsStatus(Sel(n)) = "yes"
  /\ SourceDataStatus(Sel(n)) = "yes" /\ RestoreOrderingStatus(Sel(n)) = "yes"
  /\ DestInvalidationStatus(Sel(n)) = "yes" /\ UsableStatus(Sel(n)) = "yes"

\* The binding needs two residencies kept and one evicted.
CanBeBound(n) == Cardinality(plan[n].keep) = 2 /\ Cardinality(plan[n].evict) = 1

\* The optimum of a capacity plan is authorized exactly if the gates speak for
\* some candidate, each of those has a measured cost and one of them has the
\* least, alone, and can be bound.  Ranking is another matter: it takes the
\* earliest of a tie, does with two records, and asks no gate; where all of
\* them are spoken for and authorized, both name the same candidate.  No gate
\* says more of a candidate than its witnesses.
HandoffIsExact ==
  /\ pc \in {"select", "done"} /\ TableOK(q.table) =>
       /\ EligibleSet = {n \in DOMAIN plan : Spoken(n)}
       /\ \A n \in EligibleSet : \E k \in star :
            /\ plan[n].evict = {q.rs[k].object} /\ Fits(k)
            /\ q.data[q.rs[k].object].end >= q.order[q.rs[k].object].before
            /\ q.drop[q.rs[k].object].destination = q.space
       /\ Authorized.result = "yes" <=>
            /\ EligibleSet \subseteq Ranked
            /\ \E n \in EligibleSet : Strictly(n) /\ CanBeBound(n)
       /\ Authorized.result = "yes" =>
            \E n \in EligibleSet :
              /\ Strictly(n) /\ Authorized.row[1].id = SelectionOf(plan[n])
              /\ pc = "done" /\ q.policy = "measured" =>
                   \/ selected = n
                   \/ selected \notin EligibleSet
  /\ pc = "done" /\ selected # 0 => LicenseRestore(Sel(selected))[2] # "yes"
=============================================================================
