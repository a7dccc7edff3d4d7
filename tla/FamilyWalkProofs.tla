-------------------------- MODULE FamilyWalkProofs --------------------------
(***************************************************************************)
(* The walk is right about what it reports, for every family, choice of    *)
(* axes and score: the state invariants of its `verify` option,            *)
(* completeness, the quality of what it accepts, and that a segment leaves *)
(* no legal neighbour behind.  Only the last depends on the legality table.*)
(***************************************************************************)
EXTENDS FamilyWalk, FiniteSetTheorems, TLAPS

\* The options are what the pass may be given.
OptionsOK ==
  /\ schedF \subseteq Elems(FamilyScheds)
  /\ mapF \subseteq Elems(FamilyMaps)
  /\ devF \subseteq Devices
  /\ score \in [Devices -> Scores]

WalkInv == OptionsOK /\ StateInv

\* The legal members are finitely many and have an integer score.
LEMMA XIsFinite ==
  ASSUME OptionsOK
  PROVE  IsFiniteSet(X) /\ \A t \in X : Total(t) \in Nat
<1>1. Family \subseteq Members
  BY DEF OptionsOK, Family, Members, Devices
<1>2. IsFiniteSet(X)
  BY <1>1, FamilyIsFinite, FS_Subset DEF X
<1>3. ASSUME NEW t \in X
      PROVE  Total(t) \in Nat
  <2>1. t[3] \in Devices
    BY <1>1 DEF X, Family, OptionsOK
  <2>2. score[t[3]] \in Scores
    BY <2>1 DEF OptionsOK
  <2>. QED  BY <2>2, ScoresAreNat DEF Total
<1>. QED  BY <1>2, <1>3

\* What the walk accepts, scores and puts on a frontier is legal, and a
\* neighbour is on the frontier if it is legal and not accepted.
LEMMA FrontierIsLegal ==
  ASSUME WalkInv
  PROVE  /\ accepted \subseteq X /\ scored \subseteq X
         /\ LegalNow = (checked \cup Neighbours(current)) \cap X
         /\ Frontier = (Neighbours(current) \cap X) \ accepted
<1>1. Neighbours(current) \subseteq Family
  BY DEF Neighbours
<1>2. legalChecked = checked \cap X
  BY DEF WalkInv, StateInv
<1>3. LegalNow = (checked \cup Neighbours(current)) \cap X
  BY <1>1, <1>2 DEF LegalNow, X
<1>. QED  BY <1>2, <1>3 DEF WalkInv, StateInv, Frontier

\* Installing a legal member and taking a step to a frontier member keep what
\* `verify` asserts.
LEMMA InstallPreserves ==
  ASSUME WalkInv, NEW t \in X, Install(t), UNCHANGED options
  PROVE  WalkInv'
<1>1. OptionsOK' /\ X' = X
  BY DEF WalkInv, OptionsOK, options, X, Family
<1>2. StateInv'
  BY <1>1 DEF WalkInv, StateInv, Install
<1>. QED  BY <1>1, <1>2 DEF WalkInv

LEMMA GeneratePreserves ==
  ASSUME WalkInv, GenerateScore, UNCHANGED options
  PROVE  /\ OptionsOK' /\ X' = X
         /\ accepted \subseteq scored' /\ scored' \subseteq legalChecked'
         /\ legalChecked' = (checked \cap X)'
         /\ checked' \subseteq generated'
         /\ Frontier \subseteq scored'
<1>1. OptionsOK' /\ X' = X
  BY DEF WalkInv, OptionsOK, options, X, Family
<1>2. Frontier \subseteq LegalNow
  BY DEF Frontier
<1>3. scored \subseteq LegalNow
  BY DEF LegalNow, WalkInv, StateInv
<1>. QED  BY <1>1, <1>2, <1>3, FrontierIsLegal DEF GenerateScore, WalkInv, StateInv

LEMMA WalkStep ==
  ASSUME WalkInv, [Next]_vars
  PROVE  WalkInv'
<1>1. CASE StartFirst
  BY <1>1, InstallPreserves DEF StartFirst
<1>2. CASE StartUnused
  BY <1>2, InstallPreserves DEF StartUnused
<1>3. CASE NothingLegal
  BY <1>3 DEF NothingLegal, WalkInv, OptionsOK, StateInv, options, state, X, Family
<1>4. CASE LocalStop
  BY <1>4 DEF LocalStop, WalkInv, OptionsOK, StateInv, options, state, X, Family
<1>5. CASE Step
  <2>1. PICK n \in Preferred : current' = n /\ accepted' = accepted \cup {n}
    BY <1>5 DEF Step
  <2>2. n \in Frontier
    BY <2>1 DEF Preferred, Best, Pareto
  <2>3. UNCHANGED <<options, outcome>> /\ GenerateScore /\ outcome = "walk"
    BY <1>5 DEF Step
  <2>. QED  BY <2>1, <2>2, <2>3, GeneratePreserves DEF WalkInv, StateInv
<1>6. CASE NoNext
  <2>1. GenerateScore /\ UNCHANGED <<options, current, accepted>> /\ outcome' \in {"stopped", "complete"}
    BY <1>6 DEF NoNext
  <2>. QED  BY <2>1, GeneratePreserves DEF WalkInv, StateInv
<1>7. CASE UNCHANGED vars
  BY <1>7 DEF vars, options, state, WalkInv, OptionsOK, StateInv, X, Family
<1>. QED  BY <1>1, <1>2, <1>3, <1>4, <1>5, <1>6, <1>7 DEF Next

LEMMA WalkInit ==
  ASSUME Init
  PROVE  WalkInv /\ CompleteIsX /\ NoScoredIsBetter
<1>1. OptionsOK
  BY DEF Init, OptionsOK
<1>. QED  BY <1>1 DEF Init, WalkInv, StateInv, CompleteIsX, NoScoredIsBetter

-----------------------------------------------------------------------------
\* What the `verify` option asserts at each step never fails, whatever the
\* legality table and the scores (lines 227-276).
THEOREM WalkStateInv == Spec => []StateInv
<1>1. Init => WalkInv
  BY WalkInit
<1>2. WalkInv /\ [Next]_vars => WalkInv'
  BY WalkStep
<1>3. WalkInv => StateInv
  BY DEF WalkInv
<1>. QED  BY <1>1, <1>2, <1>3, PTL DEF Spec

\* The walk says "complete" only when every legal member is accepted: the
\* comparison of sizes at lines 140 and 167 decides it (line 203).
THEOREM WalkCompletesFamily == Spec => []CompleteIsX
<1>1. ASSUME WalkInv, NEW acc, acc \subseteq X, ~Unfinished(acc)
      PROVE  acc = X
  <2>1. IsFiniteSet(X)
    BY <1>1, XIsFinite DEF WalkInv
  <2>2. IsFiniteSet(acc) /\ Cardinality(acc) <= Cardinality(X)
    BY <1>1, <2>1, FS_Subset
  <2>3. Cardinality(acc) = Cardinality(X)
    BY <1>1, <2>1, <2>2, FS_CardinalityType DEF Unfinished
  <2>. QED  BY <1>1, <2>1, <2>3, FS_Subset
<1>2. ASSUME WalkInv, CompleteIsX, [Next]_vars
      PROVE  CompleteIsX'
  <2>1. X' = X
    BY <1>2 DEF Next, vars, StartFirst, StartUnused, NothingLegal, LocalStop, Step, NoNext, options, X, Family
  <2>2. CASE StartFirst \/ StartUnused
    <3>1. PICK t \in X : Install(t)
      BY <2>2 DEF StartFirst, StartUnused
    <3>2. accepted \cup {t} \subseteq X
      BY <1>2, FrontierIsLegal
    <3>. QED  BY <1>1, <1>2, <2>1, <3>1, <3>2 DEF Install, CompleteIsX
  <2>3. CASE NothingLegal
    <3>1. accepted' = accepted /\ X = {}
      BY <2>3 DEF NothingLegal, state
    <3>2. accepted \subseteq X
      BY <1>2, FrontierIsLegal
    <3>. QED  BY <2>1, <3>1, <3>2 DEF CompleteIsX
  <2>4. CASE NoNext
    <3>1. accepted \subseteq X
      BY <1>2, FrontierIsLegal
    <3>. QED  BY <1>1, <1>2, <2>1, <2>4, <3>1 DEF NoNext, CompleteIsX
  <2>5. CASE Step \/ LocalStop
    BY <2>5 DEF Step, LocalStop, CompleteIsX
  <2>6. CASE UNCHANGED vars
    BY <1>2, <2>1, <2>6 DEF vars, state, CompleteIsX
  <2>. QED  BY <1>2, <2>2, <2>3, <2>4, <2>5, <2>6 DEF Next
<1>3. WalkInv /\ [Next]_vars => WalkInv'
  BY WalkStep
<1>4. Init => WalkInv /\ CompleteIsX
  BY WalkInit
<1>. QED  BY <1>2, <1>3, <1>4, PTL DEF Spec

\* A local stop in scalar mode reports the best of everything the walk scored:
\* taking the best neighbour and leaving the others is enough (lines 186-188).
THEOREM WalkKeepsBest == Spec => []NoScoredIsBetter
<1>1. ASSUME WalkInv, NoScoredIsBetter, [Next]_vars
      PROVE  NoScoredIsBetter'
  <2>1. /\ score' = score /\ nxt' = nxt
        /\ \A t : Total(t)' = Total(t)
    BY <1>1 DEF Next, vars, StartFirst, StartUnused, NothingLegal, LocalStop, Step, NoNext, options, Total
  <2>2. SUFFICES ASSUME nxt = "scalar", NEW u \in scored'
                 PROVE  \E t \in accepted' : Total(t) <= Total(u)
    BY <2>1 DEF NoScoredIsBetter
  <2>3. CASE u \in scored
    <3>1. accepted \subseteq accepted'
      BY <1>1 DEF Next, vars, StartFirst, StartUnused, NothingLegal, LocalStop, Step, NoNext, Install, state
    <3>. QED  BY <1>1, <2>2, <2>3, <3>1 DEF NoScoredIsBetter
  <2>4. CASE StartFirst \/ StartUnused
    <3>1. PICK t \in X : Install(t)
      BY <2>4 DEF StartFirst, StartUnused
    <3>2. Total(t) <= Total(t)
      BY <1>1, XIsFinite DEF WalkInv
    <3>. QED  BY <1>1, <2>2, <2>3, <3>1, <3>2 DEF Install
  <2>5. CASE Step
    <3>1. PICK n \in Preferred : accepted' = accepted \cup {n}
      BY <2>5 DEF Step
    <3>2. \A v \in Frontier : Total(n) <= Total(v)
      BY <2>2, <3>1 DEF Preferred, Best
    <3>. QED  BY <2>2, <2>3, <2>5, <3>1, <3>2 DEF Step, GenerateScore
  <2>6. CASE NoNext
    BY <2>2, <2>3, <2>6 DEF NoNext, GenerateScore
  <2>7. CASE NothingLegal \/ LocalStop \/ UNCHANGED vars
    BY <2>2, <2>3, <2>7 DEF NothingLegal, LocalStop, vars, state
  <2>. QED  BY <1>1, <2>4, <2>5, <2>6, <2>7 DEF Next
<1>2. WalkInv /\ [Next]_vars => WalkInv'
  BY WalkStep
<1>3. Init => WalkInv /\ NoScoredIsBetter
  BY WalkInit
<1>. QED  BY <1>1, <1>2, <1>3, PTL DEF Spec

-----------------------------------------------------------------------------
(***************************************************************************)
(* A segment covers its component.  A device is legal under one sched      *)
(* only, so a walk stays with the sched it starts from, on a grid of maps  *)
(* and at most two devices.  If the score prefers neither of the two the   *)
(* walk finishes map after map; if it prefers one, the walk goes to that   *)
(* one at once, takes all its maps, and then all maps of the other.        *)
(***************************************************************************)
AptDevices(s) == {d \in devF : \E m \in mapF : IsLegal(<<s, m, d>>)}
Component(s) == {t \in X : t[1] = s}
At(m, d) == <<current[1], m, d>>

\* The comparison of the walk, which sees the devices of two members only.
Beats(d, e) ==
  LET s == score[d]
      r == score[e]
  IN  IF nxt = "pareto"
      THEN /\ s.criticalPath <= r.criticalPath /\ s.contention <= r.contention
           /\ s.capacity <= r.capacity
           /\ s.criticalPath < r.criticalPath \/ s.contention < r.contention
                \/ s.capacity < r.capacity
      ELSE s.criticalPath + s.contention + s.capacity
             < r.criticalPath + r.contention + r.capacity

\* No device is preferred: the maps are finished in their order.
Level ==
  LET D == AptDevices(current[1]) IN
  /\ \A d, e \in D : ~Beats(d, e)
  /\ \A m \in mapF, d \in D :
       /\ Precedes(FamilyMaps, m, current[2]) => At(m, d) \in accepted
       /\ At(m, d) \in accepted => m = current[2] \/ Precedes(FamilyMaps, m, current[2])

\* Device a is preferred to b.  The walk has started on b; it is on a, and
\* has taken no map of b but the one it may have started on; it is on b again.
OnlyStarted(b) ==
  /\ current[3] = b
  /\ \A m \in mapF, d \in devF : At(m, d) \in accepted => m = current[2] /\ d = b
OnPreferred(a, b) ==
  /\ current[3] = a
  /\ \A m \in mapF : At(m, b) \in accepted => At(m, a) \in accepted
  /\ At(current[2], b) \in accepted =>
       \A m \in mapF, d \in devF : At(m, d) \in accepted => m = current[2]
OnOther(a, b) ==
  /\ current[3] = b
  /\ \A m \in mapF : At(m, a) \in accepted
Sloped ==
  \E a, b \in AptDevices(current[1]) :
    Beats(a, b) /\ (OnlyStarted(b) \/ OnPreferred(a, b) \/ OnOther(a, b))

\* What was left is covered; of the present component, as much as was said.
SegmentInv ==
  /\ outcome = "stopped" => \A t \in accepted : Component(t[1]) \subseteq accepted
  /\ outcome = "walk" =>
       /\ current \in accepted
       /\ \A t \in accepted : t[1] # current[1] => Component(t[1]) \subseteq accepted
       /\ Level \/ Sloped

LEMMA AxisOrder ==
  ASSUME NEW axis \in {FamilyScheds, FamilyMaps, FamilyDevices}
  PROVE  /\ \A a : ~Precedes(axis, a, a)
         /\ \A a, b : ~(Precedes(axis, a, b) /\ Precedes(axis, b, a))
         /\ \A a, b, c : Precedes(axis, a, b) /\ Precedes(axis, b, c) => Precedes(axis, a, c)
         /\ \A a, b \in Elems(axis) : a = b \/ Precedes(axis, a, b) \/ Precedes(axis, b, a)
<1>1. /\ \A i \in DOMAIN axis : i \in Int
      /\ \A i, j \in DOMAIN axis : axis[i] = axis[j] => i = j
  BY AxesListOnce
<1>2. \A a : ~Precedes(axis, a, a)
  BY <1>1 DEF Precedes
<1>3. \A a, b : ~(Precedes(axis, a, b) /\ Precedes(axis, b, a))
  BY <1>1 DEF Precedes
<1>4. \A a, b, c : Precedes(axis, a, b) /\ Precedes(axis, b, c) => Precedes(axis, a, c)
  <2>. SUFFICES ASSUME NEW a, NEW b, NEW c, Precedes(axis, a, b), Precedes(axis, b, c)
                PROVE  Precedes(axis, a, c)
    OBVIOUS
  <2>1. PICK i, j \in DOMAIN axis : axis[i] = a /\ axis[j] = b /\ i < j
    BY DEF Precedes
  <2>2. PICK k, l \in DOMAIN axis : axis[k] = b /\ axis[l] = c /\ k < l
    BY DEF Precedes
  <2>3. j = k /\ i \in Int /\ j \in Int /\ l \in Int
    BY <1>1, <2>1, <2>2
  <2>4. i < l
    BY <2>1, <2>2, <2>3
  <2>. QED  BY <2>1, <2>2, <2>4 DEF Precedes
<1>5. \A a, b \in Elems(axis) : a = b \/ Precedes(axis, a, b) \/ Precedes(axis, b, a)
  BY <1>1 DEF Precedes, Elems
<1>. QED  BY <1>2, <1>3, <1>4, <1>5

\* The table: a device determines the sched, a sched at most two devices, and
\* the map does not matter.
LEMMA LegalTable ==
  /\ \A s, r, m, n, d : IsLegal(<<s, m, d>>) /\ IsLegal(<<r, n, d>>) => s = r
  /\ \A s, m, n, d : IsLegal(<<s, m, d>>) => IsLegal(<<s, n, d>>)
  /\ \A s, m, d, e, f :
       IsLegal(<<s, m, d>>) /\ IsLegal(<<s, m, e>>) /\ IsLegal(<<s, m, f>>)
         => d = e \/ d = f \/ e = f
BY DEF IsLegal

LEMMA ComponentIsGrid ==
  /\ \A t \in X : t = <<t[1], t[2], t[3]>> /\ t[2] \in mapF /\ t[3] \in AptDevices(t[1])
  /\ \A t \in X : \A m \in mapF, d \in AptDevices(t[1]) : <<t[1], m, d>> \in X
  /\ \A s : \A a, b, d \in AptDevices(s) : a # b => d = a \/ d = b
<1>1. ASSUME NEW t \in X
      PROVE  t = <<t[1], t[2], t[3]>> /\ t[2] \in mapF /\ t[3] \in AptDevices(t[1])
  <2>1. /\ t = <<t[1], t[2], t[3]>> /\ t[1] \in schedF /\ t[2] \in mapF /\ t[3] \in devF
        /\ IsLegal(t)
    BY DEF X, Family
  <2>2. IsLegal(<<t[1], t[2], t[3]>>)
    BY <2>1
  <2>. QED  BY <2>1, <2>2 DEF AptDevices
<1>2. ASSUME NEW t \in X, NEW m \in mapF, NEW d \in AptDevices(t[1])
      PROVE  <<t[1], m, d>> \in X
  <2>1. t[1] \in schedF /\ d \in devF
    BY DEF X, Family, AptDevices
  <2>2. IsLegal(<<t[1], m, d>>)
    BY LegalTable DEF AptDevices
  <2>. QED  BY <2>1, <2>2 DEF X, Family
<1>3. ASSUME NEW s, NEW a \in AptDevices(s), NEW b \in AptDevices(s), NEW d \in AptDevices(s), a # b
      PROVE  d = a \/ d = b
  <2>1. PICK m \in mapF : IsLegal(<<s, m, a>>)
    BY DEF AptDevices
  <2>2. IsLegal(<<s, m, b>>) /\ IsLegal(<<s, m, d>>)
    BY LegalTable DEF AptDevices
  <2>. QED  BY <1>3, <2>1, <2>2, LegalTable
<1>. QED  BY <1>1, <1>2, <1>3

\* The frontier is on the grid: the map or the device of the present member.
LEMMA GridFrontier ==
  ASSUME WalkInv, current \in X
  PROVE  /\ \A m \in mapF, d \in AptDevices(current[1]) :
              At(m, d) \in Frontier <=>
                At(m, d) \notin accepted /\ At(m, d) # current /\ (m = current[2] \/ d = current[3])
         /\ \A n \in Frontier :
              /\ n \in X /\ n \notin accepted /\ n[1] = current[1] /\ n = At(n[2], n[3])
              /\ n[2] \in mapF /\ n[3] \in AptDevices(current[1])
              /\ n[2] = current[2] \/ n[3] = current[3]
<1>1. Frontier = (Neighbours(current) \cap X) \ accepted
  BY FrontierIsLegal
<1>2. current = <<current[1], current[2], current[3]>>
  BY ComponentIsGrid
<1>3. ASSUME NEW m \in mapF, NEW d \in AptDevices(current[1])
      PROVE  At(m, d) \in Frontier <=>
                At(m, d) \notin accepted /\ At(m, d) # current /\ (m = current[2] \/ d = current[3])
  <2>1. At(m, d) \in X /\ At(m, d) \in Family
    BY ComponentIsGrid DEF At, X
  <2>2. At(m, d)[1] = current[1] /\ At(m, d)[2] = m /\ At(m, d)[3] = d
    BY DEF At
  <2>3. At(m, d) \in Neighbours(current) <=>
          At(m, d) # current /\ (m = current[2] \/ d = current[3])
    <3>1. At(m, d) = current <=> m = current[2] /\ d = current[3]
      BY <1>2, <2>2 DEF At
    <3>. QED  BY <2>1, <2>2, <3>1 DEF Neighbours
  <2>. QED  BY <1>1, <2>1, <2>3
<1>4. ASSUME NEW n \in Frontier
      PROVE  /\ n \in X /\ n \notin accepted /\ n[1] = current[1] /\ n = At(n[2], n[3])
             /\ n[2] \in mapF /\ n[3] \in AptDevices(current[1])
             /\ n[2] = current[2] \/ n[3] = current[3]
  <2>1. n \in X /\ n \in Neighbours(current) /\ n \notin accepted
    BY <1>1
  <2>2. n = <<n[1], n[2], n[3]>> /\ n[2] \in mapF /\ n[3] \in AptDevices(n[1])
    BY <2>1, ComponentIsGrid
  <2>3. n[1] = current[1]
    <3>1. n[1] # current[1] => n[2] = current[2] /\ n[3] = current[3]
      BY <2>1 DEF Neighbours
    <3>2. IsLegal(<<n[1], n[2], n[3]>>) /\ IsLegal(<<current[1], current[2], current[3]>>)
      BY <1>2, <2>1, <2>2 DEF X
    <3>. QED  BY <3>1, <3>2, LegalTable
  <2>4. n[2] = current[2] \/ n[3] = current[3]
    BY <2>1, <2>3 DEF Neighbours
  <2>. QED  BY <2>1, <2>2, <2>3, <2>4 DEF At
<1>. QED  BY <1>3, <1>4

LEMMA PreferredBeats ==
  ASSUME WalkInv, current \in X
  PROVE  \A t : t \in Preferred <=> t \in Frontier /\ \A u \in Frontier : ~Beats(u[3], t[3])
<1>1. \A u \in Frontier : Total(u) \in Nat
  BY XIsFinite, GridFrontier DEF WalkInv
<1>2. CASE nxt = "pareto"
  BY <1>2 DEF Preferred, Pareto, StrictlyDominates, Beats
<1>3. CASE nxt # "pareto"
  <2>1. \A t, u : Beats(u[3], t[3]) <=> Total(u) < Total(t)
    BY <1>3 DEF Beats, Total
  <2>2. \A t, u \in Frontier : ~(Total(u) < Total(t)) <=> Total(t) <= Total(u)
    BY <1>1
  <2>. QED  BY <1>3, <2>1, <2>2 DEF Preferred, Best
<1>. QED  BY <1>2, <1>3

LEMMA BeatsIsStrict ==
  ASSUME OptionsOK, NEW d \in devF, NEW e \in devF, Beats(d, e)
  PROVE  d # e /\ ~Beats(e, d)
<1>1. score[d] \in Scores /\ score[e] \in Scores
  BY DEF OptionsOK
<1>. DEFINE s == score[d]  r == score[e]
<1>2. /\ s.criticalPath \in Nat /\ s.contention \in Nat /\ s.capacity \in Nat
      /\ r.criticalPath \in Nat /\ r.contention \in Nat /\ r.capacity \in Nat
  BY <1>1, ScoresAreNat
<1>3. ~Beats(e, d)
  <2>1. CASE nxt = "pareto"
    <3>1. /\ s.criticalPath <= r.criticalPath /\ s.contention <= r.contention
          /\ s.capacity <= r.capacity
          /\ s.criticalPath < r.criticalPath \/ s.contention < r.contention
                \/ s.capacity < r.capacity
      BY <2>1 DEF Beats
    <3>2. ~(r.criticalPath <= s.criticalPath /\ r.contention <= s.contention
            /\ r.capacity <= s.capacity)
      BY <1>2, <3>1
    <3>. QED  BY <2>1, <3>2 DEF Beats
  <2>2. CASE nxt # "pareto"
    <3>1. s.criticalPath + s.contention + s.capacity < r.criticalPath + r.contention + r.capacity
      BY <2>2 DEF Beats
    <3>2. ~(r.criticalPath + r.contention + r.capacity < s.criticalPath + s.contention + s.capacity)
      BY <1>2, <3>1
    <3>. QED  BY <2>2, <3>2 DEF Beats
  <2>. QED  BY <2>1, <2>2
<1>. QED  BY <1>3

\* A segment starts on the first member of a component nothing is accepted of.
LEMMA StartOfSegment ==
  ASSUME WalkInv, NEW t \in X \ accepted, IsFirst(t, X \ accepted), Install(t),
         UNCHANGED options,
         \A u \in accepted : Component(u[1]) \subseteq accepted
  PROVE  SegmentInv'
<1>1. /\ accepted' = accepted \cup {t} /\ current' = t /\ outcome' \in {"walk", "complete"}
      /\ mapF' = mapF /\ devF' = devF /\ X' = X
      /\ \A s : AptDevices(s)' = AptDevices(s) /\ Component(s)' = Component(s)
      /\ \A d, e : Beats(d, e)' = Beats(d, e)
  BY DEF Install, options, AptDevices, Component, X, Family, Beats
<1>2. \A u \in accepted : u[1] # t[1]
  BY DEF Component
<1>3. \A u \in accepted' : u[1] # current'[1] => (Component(u[1]) \subseteq accepted)'
  BY <1>1
<1>4. t = <<t[1], t[2], t[3]>> /\ t[2] \in mapF /\ t[3] \in AptDevices(t[1])
  BY ComponentIsGrid
<1>5. \A m, d : At(m, d)' \in accepted' => m = t[2] /\ d = t[3]
  <2>. SUFFICES ASSUME NEW m, NEW d, <<t[1], m, d>> \in accepted'
                PROVE  m = t[2] /\ d = t[3]
    BY <1>1 DEF At
  <2>1. <<t[1], m, d>>[1] = t[1]
    OBVIOUS
  <2>2. <<t[1], m, d>> = t
    BY <1>1, <1>2, <2>1
  <2>. QED  BY <1>4, <2>2
<1>6. CASE \A d, e \in AptDevices(t[1]) : ~Beats(d, e)
  <2>1. \A m \in mapF : ~Precedes(FamilyMaps, m, t[2])
    <3>. SUFFICES ASSUME NEW m \in mapF, Precedes(FamilyMaps, m, t[2])
                  PROVE  FALSE
      OBVIOUS
    <3>. DEFINE u == <<t[1], m, t[3]>>
    <3>1. u \in X
      BY <1>4, ComponentIsGrid
    <3>2. u \notin accepted
      BY <1>2
    <3>3. m # t[2]
      BY AxisOrder
    <3>4. Earlier(t, u)
      BY <3>1, <3>2, <3>3, <1>4 DEF IsFirst
    <3>5. Precedes(FamilyMaps, t[2], m)
      BY <3>3, <3>4, AxisOrder DEF Earlier
    <3>. QED  BY <3>5, AxisOrder
  <2>2. Level'
    BY <1>1, <1>5, <1>6, <2>1 DEF Level
  <2>. QED  BY <1>1, <1>3, <2>2 DEF SegmentInv
<1>7. CASE \E d, e \in AptDevices(t[1]) : Beats(d, e)
  <2>1. PICK a, b \in AptDevices(t[1]) : Beats(a, b)
    BY <1>7
  <2>2. a # b /\ (t[3] = a \/ t[3] = b)
    <3>1. a \in devF /\ b \in devF
      BY DEF AptDevices
    <3>2. a # b
      BY <2>1, <3>1, BeatsIsStrict DEF WalkInv
    <3>. QED  BY <1>4, <3>2, ComponentIsGrid
  <2>3. CASE t[3] = b
    <3>1. OnlyStarted(b)'
      BY <1>1, <1>5, <2>3 DEF OnlyStarted
    <3>2. Sloped'
      BY <1>1, <2>1, <3>1 DEF Sloped
    <3>. QED  BY <1>1, <1>3, <3>2 DEF SegmentInv
  <2>4. CASE t[3] = a
    <3>1. OnPreferred(a, b)'
      BY <1>1, <1>5, <2>2, <2>4 DEF OnPreferred
    <3>2. Sloped'
      BY <1>1, <2>1, <3>1 DEF Sloped
    <3>. QED  BY <1>1, <1>3, <3>2 DEF SegmentInv
  <2>. QED  BY <2>2, <2>3, <2>4
<1>. QED  BY <1>6, <1>7

\* Where no device is preferred, the next member has the first map not finished.
LEMMA LevelStep ==
  ASSUME WalkInv, current \in X, current \in accepted, Level,
         NEW n \in Preferred, IsFirst(n, Preferred)
  PROVE  /\ \A m \in mapF, d \in AptDevices(current[1]) :
              Precedes(FamilyMaps, m, n[2]) => At(m, d) \in accepted
         /\ n[2] = current[2] \/ Precedes(FamilyMaps, current[2], n[2])
<1>. DEFINE D == AptDevices(current[1])
<1>1. Preferred = Frontier
  BY PreferredBeats, GridFrontier DEF Level
<1>2. /\ n = At(n[2], n[3]) /\ n[2] \in mapF /\ n[3] \in D /\ n \notin accepted
      /\ n[2] = current[2] \/ n[3] = current[3]
  BY <1>1, GridFrontier
<1>3. n[2] = current[2] \/ Precedes(FamilyMaps, current[2], n[2])
  <2>1. ~Precedes(FamilyMaps, n[2], current[2])
    BY <1>2 DEF Level
  <2>2. current[2] \in mapF
    BY ComponentIsGrid
  <2>. QED  BY <1>2, <2>1, <2>2, AxisOrder DEF WalkInv, OptionsOK
<1>4. ASSUME NEW m \in mapF, NEW d \in D, Precedes(FamilyMaps, m, n[2]), At(m, d) \notin accepted
      PROVE  FALSE
  <2>1. n[2] # current[2]
    BY <1>4 DEF Level
  <2>2. n[3] = current[3]
    BY <1>2, <2>1
  <2>3. ~Precedes(FamilyMaps, m, current[2])
    BY <1>4 DEF Level
  <2>4. ASSUME NEW e \in D, At(m, e) \in Frontier
        PROVE  FALSE
    <3>1. At(m, e)[1] = current[1] /\ At(m, e)[2] = m /\ n[1] = current[1]
      BY <1>2 DEF At
    <3>2. m # n[2]
      BY <1>4, AxisOrder
    <3>3. Earlier(n, At(m, e))
      BY <1>1, <2>4, <3>1, <3>2 DEF IsFirst
    <3>4. Precedes(FamilyMaps, n[2], m)
      BY <3>1, <3>2, <3>3, AxisOrder DEF Earlier
    <3>. QED  BY <1>4, <3>4, AxisOrder
  <2>5. CASE m = current[2]
    <3>1. At(m, d) \in Frontier
      BY <1>4, <2>5, GridFrontier
    <3>. QED  BY <2>4, <3>1
  <2>6. CASE m # current[2]
    <3>1. At(m, current[3]) \notin accepted /\ current[3] \in D
      BY <2>3, <2>6, <1>2, <2>2 DEF Level
    <3>2. At(m, current[3]) \in Frontier
      BY <2>6, <3>1, GridFrontier
    <3>. QED  BY <2>4, <3>1, <3>2
  <2>. QED  BY <2>5, <2>6
<1>. QED  BY <1>3, <1>4

\* A preferred device on the frontier is taken.
LEMMA SlopedStep ==
  ASSUME WalkInv, current \in X, current \in accepted,
         NEW a \in AptDevices(current[1]), NEW b \in AptDevices(current[1]), Beats(a, b),
         OnlyStarted(b) \/ OnPreferred(a, b) \/ OnOther(a, b),
         NEW n \in Preferred
  PROVE  \/ n[3] = a /\ n[2] = current[2] /\ OnlyStarted(b)
         \/ n[3] = a /\ OnPreferred(a, b)
         \/ n[3] = b /\ \A m \in mapF : At(m, a) \in accepted
<1>1. a # b /\ \A d \in AptDevices(current[1]) : d = a \/ d = b
  BY ComponentIsGrid, BeatsIsStrict DEF WalkInv, AptDevices
<1>2. /\ n \in Frontier /\ n = At(n[2], n[3]) /\ n[2] \in mapF
      /\ n[3] \in AptDevices(current[1]) /\ n \notin accepted
      /\ n[2] = current[2] \/ n[3] = current[3]
  BY PreferredBeats, GridFrontier
<1>3. ASSUME NEW m \in mapF, At(m, a) \in Frontier
      PROVE  n[3] = a
  <2>1. At(m, a)[3] = a
    BY DEF At
  <2>2. ~Beats(a, n[3])
    BY <1>3, <2>1, PreferredBeats
  <2>. QED  BY <1>1, <1>2, <2>2
<1>4. CASE OnlyStarted(b)
  <2>1. current[2] \in mapF /\ a \in devF
    BY ComponentIsGrid DEF AptDevices
  <2>2. At(current[2], a) \notin accepted
    BY <1>1, <1>4, <2>1 DEF OnlyStarted
  <2>3. At(current[2], a) # current
    BY <2>2
  <2>4. n[3] = a
    BY <1>3, <2>1, <2>2, <2>3, GridFrontier
  <2>. QED  BY <1>1, <1>2, <1>4, <2>4 DEF OnlyStarted
<1>5. CASE OnPreferred(a, b)
  <2>1. ASSUME n[3] # a, NEW m \in mapF
        PROVE  At(m, a) \in accepted
    BY <1>3, <1>5, <2>1, GridFrontier DEF OnPreferred
  <2>. QED  BY <1>1, <1>2, <1>5, <2>1
<1>6. CASE OnOther(a, b)
  BY <1>1, <1>2, <1>6 DEF OnOther
<1>. QED  BY <1>4, <1>5, <1>6

\* A step within the segment.
LEMMA StepInSegment ==
  ASSUME WalkInv, SegmentInv, Step
  PROVE  SegmentInv'
<1>1. PICK n \in Preferred :
        /\ IsFirst(n, Preferred) /\ current' = n /\ accepted' = accepted \cup {n}
  BY DEF Step
<1>2. /\ outcome = "walk" /\ outcome' = "walk"
      /\ mapF' = mapF /\ devF' = devF /\ X' = X
      /\ \A s : AptDevices(s)' = AptDevices(s) /\ Component(s)' = Component(s)
      /\ \A d, e : Beats(d, e)' = Beats(d, e)
  BY DEF Step, options, AptDevices, Component, X, Family, Beats
<1>3. current \in accepted /\ current \in X
  BY <1>2, FrontierIsLegal DEF SegmentInv
<1>4. n \in Frontier
  BY <1>3, PreferredBeats
<1>5. /\ n[1] = current[1] /\ n = At(n[2], n[3]) /\ n[2] \in mapF
      /\ n[3] \in AptDevices(current[1]) /\ n \notin accepted
      /\ n[2] = current[2] \/ n[3] = current[3]
  BY <1>3, <1>4, GridFrontier
<1>6. \A m, d : /\ At(m, d)' = At(m, d)
                /\ At(m, d)' \in accepted' <=> At(m, d) \in accepted \/ (m = n[2] /\ d = n[3])
  BY <1>1, <1>5 DEF At
<1>7. \A t \in accepted' : t[1] # current'[1] => (Component(t[1]) \subseteq accepted)'
  BY <1>1, <1>2, <1>5 DEF SegmentInv
<1>8. CASE Level
  <2>1. /\ \A m \in mapF, d \in AptDevices(current[1]) :
              Precedes(FamilyMaps, m, n[2]) => At(m, d) \in accepted
        /\ n[2] = current[2] \/ Precedes(FamilyMaps, current[2], n[2])
    BY <1>1, <1>3, <1>8, LevelStep
  <2>2. \A m \in mapF, d \in AptDevices(current[1]) :
          At(m, d)' \in accepted' => m = n[2] \/ Precedes(FamilyMaps, m, n[2])
    <3>. SUFFICES ASSUME NEW m \in mapF, NEW d \in AptDevices(current[1]), At(m, d) \in accepted
                  PROVE  m = n[2] \/ Precedes(FamilyMaps, m, n[2])
      BY <1>6
    <3>1. m = current[2] \/ Precedes(FamilyMaps, m, current[2])
      BY <1>8 DEF Level
    <3>. QED  BY <2>1, <3>1, AxisOrder
  <2>3. Level'
    BY <1>1, <1>2, <1>5, <1>6, <1>8, <2>1, <2>2 DEF Level
  <2>. QED  BY <1>1, <1>2, <1>7, <2>3 DEF SegmentInv
<1>9. CASE Sloped
  <2>1. PICK a \in AptDevices(current[1]) : \E b \in AptDevices(current[1]) :
          Beats(a, b) /\ (OnlyStarted(b) \/ OnPreferred(a, b) \/ OnOther(a, b))
    BY <1>9 DEF Sloped
  <2>2. PICK b \in AptDevices(current[1]) :
          Beats(a, b) /\ (OnlyStarted(b) \/ OnPreferred(a, b) \/ OnOther(a, b))
    BY <2>1
  <2>3. a # b /\ a \in devF /\ b \in devF
    BY <2>2, BeatsIsStrict DEF WalkInv, AptDevices
  <2>4. OnPreferred(a, b)' \/ OnOther(a, b)'
    <3>1. CASE n[3] = a /\ n[2] = current[2] /\ OnlyStarted(b)
      <4>1. \A m \in mapF, d \in devF : At(m, d)' \in accepted' => m = n[2]
        BY <1>6, <3>1 DEF OnlyStarted
      <4>2. At(n[2], a)' \in accepted'
        BY <1>6, <3>1
      <4>. QED  BY <1>1, <1>2, <2>3, <3>1, <4>1, <4>2 DEF OnPreferred
    <3>2. CASE n[3] = a /\ OnPreferred(a, b)
      <4>1. \A m \in mapF : At(m, b)' \in accepted' => At(m, b) \in accepted
        BY <1>6, <2>3, <3>2
      <4>2. At(n[2], b)' \notin accepted'
        BY <1>5, <3>2, <4>1 DEF OnPreferred
      <4>3. \A m \in mapF : At(m, b)' \in accepted' => At(m, a)' \in accepted'
        BY <1>6, <3>2, <4>1 DEF OnPreferred
      <4>. QED  BY <1>1, <1>2, <3>2, <4>2, <4>3 DEF OnPreferred
    <3>3. CASE n[3] = b /\ \A m \in mapF : At(m, a) \in accepted
      BY <1>1, <1>2, <1>6, <3>3 DEF OnOther
    <3>. QED  BY <1>1, <1>3, <2>2, <3>1, <3>2, <3>3, SlopedStep
  <2>5. Sloped'
    BY <1>1, <1>2, <1>5, <2>2, <2>4 DEF Sloped
  <2>. QED  BY <1>1, <1>2, <1>7, <2>5 DEF SegmentInv
<1>. QED  BY <1>2, <1>8, <1>9 DEF SegmentInv

\* With nothing on the frontier the component is covered.
LEMMA StuckIsCovered ==
  ASSUME WalkInv, SegmentInv, outcome = "walk", Frontier = {}
  PROVE  \A t \in accepted : Component(t[1]) \subseteq accepted
<1>1. current \in accepted /\ current \in X
  BY FrontierIsLegal DEF SegmentInv
<1>. DEFINE D == AptDevices(current[1])
<1>2. current[2] \in mapF /\ current[3] \in D
  BY <1>1, ComponentIsGrid
<1>3. \A m \in mapF, d \in D : m = current[2] \/ d = current[3] => At(m, d) \in accepted
  BY <1>1, GridFrontier
<1>4. \A m \in mapF, d \in D : At(m, d) \in accepted
  <2>1. CASE Level
    <3>. SUFFICES ASSUME NEW m \in mapF, NEW d \in D  PROVE  At(m, d) \in accepted
      OBVIOUS
    <3>1. At(m, current[3]) \in accepted
      BY <1>2, <1>3
    <3>2. m = current[2] \/ Precedes(FamilyMaps, m, current[2])
      BY <1>2, <2>1, <3>1 DEF Level
    <3>. QED  BY <1>3, <2>1, <3>2 DEF Level
  <2>2. CASE Sloped
    <3>1. PICK a \in D : \E b \in D :
            Beats(a, b) /\ (OnlyStarted(b) \/ OnPreferred(a, b) \/ OnOther(a, b))
      BY <2>2 DEF Sloped
    <3>2. PICK b \in D :
            Beats(a, b) /\ (OnlyStarted(b) \/ OnPreferred(a, b) \/ OnOther(a, b))
      BY <3>1
    <3>3. a # b /\ a \in devF /\ b \in devF
      BY <3>2, BeatsIsStrict DEF WalkInv, AptDevices
    <3>4. \A d \in D : d = a \/ d = b
      BY <3>3, ComponentIsGrid
    <3>5. CASE OnlyStarted(b)
      BY <1>2, <1>3, <3>3, <3>5 DEF OnlyStarted
    <3>6. CASE OnPreferred(a, b)
      <4>1. \A m \in mapF : At(m, a) \in accepted
        BY <1>3, <3>6 DEF OnPreferred
      <4>2. At(current[2], b) \in accepted
        BY <1>2, <1>3
      <4>3. \A m \in mapF : m = current[2]
        BY <3>3, <3>6, <4>1, <4>2 DEF OnPreferred
      <4>. QED  BY <3>4, <4>1, <4>2, <4>3
    <3>7. CASE OnOther(a, b)
      BY <1>3, <3>4, <3>7 DEF OnOther
    <3>. QED  BY <3>2, <3>5, <3>6, <3>7
  <2>. QED  BY <2>1, <2>2 DEF SegmentInv
<1>5. Component(current[1]) \subseteq accepted
  <2>. SUFFICES ASSUME NEW t \in X, t[1] = current[1]
                PROVE  t \in accepted
    BY DEF Component
  <2>1. t = At(t[2], t[3]) /\ t[2] \in mapF /\ t[3] \in D
    BY ComponentIsGrid DEF At
  <2>. QED  BY <1>4, <2>1
<1>. QED  BY <1>5 DEF SegmentInv

\* A segment that stops has accepted all that its members could reach, whatever
\* the maps, the axes and the scores (lines 143-199).
THEOREM WalkCoversSegment == Spec => []SegmentCovers
<1>1. ASSUME WalkInv, SegmentInv, [Next]_vars
      PROVE  SegmentInv'
  <2>1. CASE StartFirst
    <3>1. PICK t \in X : IsFirst(t, X) /\ Install(t)
      BY <2>1 DEF StartFirst
    <3>2. accepted = {} /\ X \ accepted = X
      BY <1>1, <2>1 DEF StartFirst, WalkInv, StateInv
    <3>. QED  BY <1>1, <2>1, <3>1, <3>2, StartOfSegment DEF StartFirst
  <2>2. CASE StartUnused
    BY <1>1, <2>2, StartOfSegment DEF StartUnused, SegmentInv
  <2>3. CASE Step
    BY <1>1, <2>3, StepInSegment
  <2>4. CASE NoNext
    <3>1. \A s : Component(s)' = Component(s)
      BY <2>4 DEF NoNext, options, Component, X, Family
    <3>2. \A t \in accepted : Component(t[1]) \subseteq accepted
      BY <1>1, <2>4, StuckIsCovered DEF NoNext
    <3>. QED  BY <2>4, <3>1, <3>2 DEF NoNext, SegmentInv
  <2>5. CASE NothingLegal \/ LocalStop
    BY <2>5 DEF NothingLegal, LocalStop, SegmentInv
  <2>6. CASE UNCHANGED vars
    <3>1. /\ accepted' = accepted /\ outcome' = outcome /\ current' = current /\ mapF' = mapF
          /\ devF' = devF /\ schedF' = schedF /\ score' = score /\ nxt' = nxt
      BY <2>6 DEF vars, options, state
    <3>2. /\ \A s : AptDevices(s)' = AptDevices(s) /\ Component(s)' = Component(s)
          /\ \A m, d : At(m, d)' = At(m, d)
          /\ \A d, e : Beats(d, e)' = Beats(d, e)
      BY <3>1 DEF AptDevices, Component, X, Family, At, Beats
    <3>3. /\ \A b : OnlyStarted(b)' = OnlyStarted(b)
          /\ \A a, b : OnPreferred(a, b)' = OnPreferred(a, b) /\ OnOther(a, b)' = OnOther(a, b)
      BY <3>1, <3>2 DEF OnlyStarted, OnPreferred, OnOther
    <3>4. Level' = Level /\ Sloped' = Sloped
      BY <3>1, <3>2, <3>3 DEF Level, Sloped
    <3>. QED  BY <1>1, <3>1, <3>2, <3>4 DEF SegmentInv
  <2>. QED  BY <1>1, <2>1, <2>2, <2>3, <2>4, <2>5, <2>6 DEF Next
<1>2. ASSUME WalkInv, SegmentInv
      PROVE  SegmentCovers
  <2>. SUFFICES ASSUME outcome = "stopped", NEW t \in accepted, NEW u \in Neighbours(t) \cap X
                PROVE  u \in accepted
    BY DEF SegmentCovers
  <2>1. t \in X
    BY <1>2, FrontierIsLegal
  <2>2. /\ t = <<t[1], t[2], t[3]>> /\ u = <<u[1], u[2], u[3]>>
        /\ IsLegal(t) /\ IsLegal(u)
    BY <2>1, ComponentIsGrid DEF X
  <2>3. u[1] # t[1] => u[3] = t[3]
    BY DEF Neighbours
  <2>4. IsLegal(<<t[1], t[2], t[3]>>) /\ IsLegal(<<u[1], u[2], u[3]>>)
    BY <2>2
  <2>5. u[1] = t[1]
    BY <2>3, <2>4, LegalTable
  <2>. QED  BY <1>2, <2>5 DEF SegmentInv, Component
<1>3. WalkInv /\ [Next]_vars => WalkInv'
  BY WalkStep
<1>4. Init => WalkInv /\ SegmentInv
  BY WalkInit DEF Init, SegmentInv
<1>. QED  BY <1>1, <1>2, <1>3, <1>4, PTL DEF Spec

=============================================================================
