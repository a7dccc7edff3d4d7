----------------------------- MODULE FamilyWalk -----------------------------
(***************************************************************************)
(* The -s2c2-walk pass on one function: a walk over the legal members of   *)
(* the family F_0, a member being <<sched, map, device>>.  From the        *)
(* current member it goes to the best neighbour not accepted yet, where a  *)
(* neighbour differs on one axis; with no such neighbour it either stops   *)
(* or goes on from the first legal member not accepted.                    *)
(***************************************************************************)
EXTENDS Integers, FiniteSets

CONSTANTS
  FamilyScheds, FamilyMaps, FamilyDevices,  \* the axes of F_0, in order
  Scores                                    \* [criticalPath, contention, capacity]

ASSUME ScoresAreNat ==
  \A s \in Scores : s.criticalPath \in Nat /\ s.contention \in Nat /\ s.capacity \in Nat

VARIABLES
  schedF, mapF, devF,   \* the axes of this run, the options of the pass
  restart, nxt,         \* its other options
  score,                \* Score3 of the function on each device
  current,              \* the member the walk is at
  generated, checked, legalChecked, scored, accepted,
  outcome               \* "start", "walk", "stopped", "localstop" or "complete"

options == <<schedF, mapF, devF, restart, nxt, score>>
state == <<current, generated, checked, legalChecked, scored, accepted>>
vars == <<options, state, outcome>>

Elems(axis) == {axis[k] : k \in DOMAIN axis}
Members == Elems(FamilyScheds) \X Elems(FamilyMaps) \X Elems(FamilyDevices)
Devices == Elems(FamilyDevices)

ASSUME FamilyIsFinite == IsFiniteSet(Members)

\* Each axis is an array that lists its values once.
ASSUME AxesListOnce ==
  \A axis \in {FamilyScheds, FamilyMaps, FamilyDevices} :
    /\ DOMAIN axis \subseteq Int
    /\ \A i, j \in DOMAIN axis : axis[i] = axis[j] => i = j

\* isLegalRealization: the capability table.
IsLegal(t) ==
  \/ t[1] = "cpu-seq" /\ t[3] \in {"cpu", "cim"}
  \/ t[1] = "gpu-async" /\ t[3] = "gpu"
  \/ t[1] = "npu-staged-dma" /\ t[3] = "npu"

\* The legal members on the axes of the run.
Family == schedF \X mapF \X devF
X == {t \in Family : IsLegal(t)}

\* Declaration order of two values of an axis, product order of two members.
Precedes(axis, a, b) ==
  \E i, j \in DOMAIN axis : axis[i] = a /\ axis[j] = b /\ i < j

Earlier(t, u) ==
  \/ Precedes(FamilyScheds, t[1], u[1])
  \/ t[1] = u[1] /\ Precedes(FamilyMaps, t[2], u[2])
  \/ t[1] = u[1] /\ t[2] = u[2] /\ Precedes(FamilyDevices, t[3], u[3])

IsFirst(t, S) == t \in S /\ \A u \in S \ {t} : Earlier(t, u)

Total(t) == score[t[3]].criticalPath + score[t[3]].contention + score[t[3]].capacity

StrictlyDominates(a, b) ==
  LET s == score[a[3]]
      r == score[b[3]]
  IN /\ s.criticalPath <= r.criticalPath /\ s.contention <= r.contention /\ s.capacity <= r.capacity
     /\ s.criticalPath < r.criticalPath \/ s.contention < r.contention \/ s.capacity < r.capacity

\* Faulty variant: the comparison of two totals the other way round.
Worst(S) == {t \in S : \A u \in S : Total(t) >= Total(u)}

Best(S) == {t \in S : \A u \in S : Total(t) <= Total(u)}
Pareto(S) == {t \in S : \A u \in S : ~StrictlyDominates(u, t)}

\* N_1: the members that differ from t on one axis, legal or not.
Neighbours(t) ==
  {u \in Family : \/ u[1] # t[1] /\ u[2] = t[2] /\ u[3] = t[3]
                  \/ u[1] = t[1] /\ u[2] # t[2] /\ u[3] = t[3]
                  \/ u[1] = t[1] /\ u[2] = t[2] /\ u[3] # t[3]}

-----------------------------------------------------------------------------
Init ==
  /\ schedF \in SUBSET Elems(FamilyScheds) \ {{}}
  /\ mapF \in SUBSET Elems(FamilyMaps) \ {{}}
  /\ devF \in SUBSET Devices \ {{}}
  /\ restart \in BOOLEAN /\ nxt \in {"scalar", "pareto"}
  /\ score \in [Devices -> Scores]
  /\ current = <<>>
  /\ generated = {} /\ checked = {} /\ legalChecked = {} /\ scored = {} /\ accepted = {}
  /\ outcome = "start"

\* `accepted.size() < x.size()`
Unfinished(acc) == Cardinality(acc) < Cardinality(X)

\* The member t is taken as it is: StartFirst and StartUnused.
Install(t) ==
  /\ current' = t
  /\ generated' = generated \cup {t}
  /\ checked' = checked \cup {t}
  /\ legalChecked' = legalChecked \cup {t}
  /\ scored' = scored \cup {t}
  /\ accepted' = accepted \cup {t}
  /\ outcome' = IF Unfinished(accepted \cup {t}) THEN "walk" ELSE "complete"

StartFirst ==
  /\ outcome = "start"
  /\ \E t \in X : IsFirst(t, X) /\ Install(t)
  /\ UNCHANGED options

NothingLegal ==
  /\ outcome = "start" /\ X = {}
  /\ outcome' = "complete"
  /\ UNCHANGED <<options, state>>

\* Faulty variant: every new neighbour counts as legal.
LegalNowUnchecked == legalChecked \cup (Neighbours(current) \ checked)

\* generateValidate: a member is checked for legality once.
LegalNow == legalChecked \cup {n \in Neighbours(current) \ checked : IsLegal(n)}

\* Faulty variants: only neighbours that were not checked before, and the
\* accepted ones again.
FrontierOfNew == {n \in Neighbours(current) \ checked : IsLegal(n)}
FrontierBack == Neighbours(current) \cap LegalNow

Frontier == (Neighbours(current) \cap LegalNow) \ accepted

GenerateScore ==
  /\ generated' = generated \cup Neighbours(current)
  /\ checked' = checked \cup Neighbours(current)
  /\ legalChecked' = LegalNow
  /\ scored' = scored \cup Frontier

\* The members the next one is the first of.
Preferred == IF nxt = "pareto" THEN Pareto(Frontier) ELSE Best(Frontier)

Step ==
  /\ outcome = "walk" /\ Frontier # {}
  /\ GenerateScore
  /\ \E n \in Preferred :
       /\ IsFirst(n, Preferred)
       /\ current' = n
       /\ accepted' = accepted \cup {n}
  /\ UNCHANGED <<options, outcome>>

\* Nxt is bottom: the segment ends here, unless every member is accepted.
NoNext ==
  /\ outcome = "walk" /\ Frontier = {}
  /\ GenerateScore
  /\ outcome' = IF Unfinished(accepted) THEN "stopped" ELSE "complete"
  /\ UNCHANGED <<options, current, accepted>>

StartUnused ==
  /\ outcome = "stopped" /\ restart
  /\ \E t \in X \ accepted : IsFirst(t, X \ accepted) /\ Install(t)
  /\ UNCHANGED options

LocalStop ==
  /\ outcome = "stopped" /\ ~restart
  /\ outcome' = "localstop"
  /\ UNCHANGED <<options, state>>

Next == StartFirst \/ NothingLegal \/ Step \/ NoNext \/ StartUnused \/ LocalStop

Spec == Init /\ [][Next]_vars /\ WF_vars(Next)

-----------------------------------------------------------------------------
Finished == outcome \in {"localstop", "complete"}

\* What `verify` asserts of the state at each step: the walk stays on legal
\* members, and accepts nothing that was not generated, checked and scored.
StateInv ==
  /\ outcome \in {"start", "walk", "stopped", "localstop", "complete"}
  /\ accepted # {} => current \in accepted
  /\ outcome = "start" => accepted = {} /\ scored = {} /\ checked = {}
  /\ accepted \subseteq scored /\ scored \subseteq legalChecked
  /\ legalChecked = checked \cap X
  /\ checked \subseteq generated

\* Complete means all of X: the size of `accepted` stands for its contents.
CompleteIsX == outcome = "complete" => accepted = X

\* "LocalStop output is ArgMin(Accepted)": in scalar mode that is no worse than
\* anything the walk has scored, though it accepted one neighbour at a time and
\* never went back to the others.
NoScoredIsBetter ==
  nxt = "scalar" =>
    \A u \in scored : \E t \in accepted : Total(t) <= Total(u)

\* A segment ends only when it has left no legal neighbour behind: with the
\* legality table as it is, a walk that never turns back covers its component.
SegmentCovers ==
  outcome = "stopped" => \A t \in accepted : Neighbours(t) \cap X \subseteq accepted

\* Every walk ends, with restarts at all of X.
WalkEnds == <>(Finished /\ (restart => accepted = X))
=============================================================================
