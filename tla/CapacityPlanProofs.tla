-------------------------- MODULE CapacityPlanProofs --------------------------
(***************************************************************************)
(* Theorems of CapacityPlan, for every set of inputs: the scan of the      *)
(* starts finds the peak and the first conflict of all instants, what is   *)
(* enumerated and checked is F_capacity, a usable restore covers the       *)
(* residency it is for, the measured selection is the earliest of the      *)
(* fastest, and the program fails exactly on what it refuses.  And of      *)
(* CapacityHandoff: the optimum of the measured costs is licensed exactly  *)
(* if the gates speak for it.                                              *)
(***************************************************************************)
EXTENDS CapacityHandoff, FiniteInduction, SequenceTheorems

-----------------------------------------------------------------------------
(* What LiveSum adds up: the recursion of the community modules' fold, read *)
(* as the number of units of size.                                         *)

\* One point for each unit of size of each residency of S.
Units(rs, S) == UNION {{k} \X (1..rs[k].size) : k \in S}

\* A residency adds as many units as its size.
LEMMA UnitsOfOneMore ==
  ASSUME NEW rs, NEW S, NEW x \in S, rs[x].size \in Nat, IsFiniteSet(Units(rs, S \ {x}))
  PROVE  /\ IsFiniteSet(Units(rs, S))
         /\ Cardinality(Units(rs, S)) = rs[x].size + Cardinality(Units(rs, S \ {x}))
<1>. DEFINE A == {x} \X (1..rs[x].size)
            B == Units(rs, S \ {x})
<1>1. Units(rs, S) = A \cup B
  BY DEF Units
<1>2. A \cap B = {}
  BY DEF Units
<1>3. IsFiniteSet(A) /\ Cardinality(A) = rs[x].size
  <2>1. IsFiniteSet({x}) /\ Cardinality({x}) = 1
    BY FS_Singleton
  <2>2. IsFiniteSet(1..rs[x].size) /\ Cardinality(1..rs[x].size) = rs[x].size
    <3>1. \A n \in Nat : IsFiniteSet(1..n) /\ Cardinality(1..n) = IF 1 > n THEN 0 ELSE n - 1 + 1
      BY FS_Interval
    <3>2. \A n \in Nat : (IF 1 > n THEN 0 ELSE n - 1 + 1) = n
      OBVIOUS
    <3>. QED  BY <3>1, <3>2
  <2>3. IsFiniteSet(A) /\ Cardinality(A) = 1 * rs[x].size
    <3>1. \A P, Q : IsFiniteSet(P) /\ IsFiniteSet(Q) =>
            IsFiniteSet(P \X Q) /\ Cardinality(P \X Q) = Cardinality(P) * Cardinality(Q)
      BY FS_Product, Zenon
    <3>2. IsFiniteSet(A) /\ Cardinality(A) = Cardinality({x}) * Cardinality(1..rs[x].size)
      BY <2>1, <2>2, <3>1, Zenon
    <3>. QED  BY <2>1, <2>2, <3>2
  <2>. QED  BY <2>3
<1>4. IsFiniteSet(A \cup B) /\ Cardinality(A \cup B) = Cardinality(A) + Cardinality(B) - Cardinality(A \cap B)
  <2>. HIDE DEF A, B
  <2>1. IsFiniteSet(B)
    BY DEF B
  <2>. QED BY <1>3, <2>1, FS_Union
<1>5. Cardinality(A \cap B) = 0 /\ Cardinality(B) \in Nat
  BY <1>2, FS_EmptySet, FS_CardinalityType
<1>. HIDE DEF A
<1>. QED BY <1>1, <1>3, <1>4, <1>5

\* By least counterexample: finitely many residencies have finitely many units.
LEMMA UnitsAreFinite ==
  ASSUME NEW rs, NEW S, IsFiniteSet(S), \A k \in S : rs[k].size \in Nat
  PROVE  IsFiniteSet(Units(rs, S))
<1>. DEFINE C == {T \in SUBSET S : ~ IsFiniteSet(Units(rs, T))}
<1>1. SUFFICES ASSUME C # {} PROVE FALSE
  OBVIOUS
<1>2. PICK T \in C : \A U \in C : U \subseteq T => U = T
  <2>1. \A T \in C : IsFiniteSet(T)
    BY FS_Subset
  <2>. HIDE DEF C
  <2>. QED  BY <1>1, <2>1, MinimalSet
<1>3. T # {}
  <2>1. Units(rs, {}) = {}
    BY DEF Units
  <2>. QED  BY <2>1, FS_EmptySet
<1>4. PICK x \in T : TRUE
  BY <1>3
<1>5. IsFiniteSet(Units(rs, T \ {x}))
  BY <1>2, <1>4
<1>. QED  BY <1>4, <1>5, UnitsOfOneMore

\* The fold takes its elements in an order of its own; whatever the order, it
\* counts the units.  They solve its recursion, and the solution is unique.
LEMMA SumIsUnits ==
  ASSUME NEW rs, NEW S, IsFiniteSet(S), \A k \in S : rs[k].size \in Nat
  PROVE  LiveSum(rs, S) = Cardinality(Units(rs, S))
<1>. DEFINE E(g) == g = [s \in SUBSET S |-> IF s = {} THEN 0
                    ELSE rs[CHOOSE x \in s : TRUE].size + g[s \ {CHOOSE x \in s : TRUE}]]
            it == CHOOSE g : E(g)
            w == [s \in SUBSET S |-> Cardinality(Units(rs, s))]
<1>1. LiveSum(rs, S) = it[S]
  BY DEF LiveSum, MapThenSumSet, MapThenFoldSet
<1>2. \A s \in SUBSET S : IsFiniteSet(s) /\ IsFiniteSet(Units(rs, s))
  BY FS_Subset, UnitsAreFinite
<1>3. w[{}] = 0
  <2>1. Units(rs, {}) = {}
    BY DEF Units
  <2>. QED  BY <2>1, FS_EmptySet
<1>4. ASSUME NEW s \in SUBSET S, NEW x \in s  PROVE w[s] = rs[x].size + w[s \ {x}]
  <2>1. rs[x].size \in Nat /\ s \ {x} \in SUBSET S
    OBVIOUS
  <2>2. Cardinality(Units(rs, s)) = rs[x].size + Cardinality(Units(rs, s \ {x}))
    BY <2>1, <1>2, UnitsOfOneMore
  <2>. QED  BY <2>1, <2>2
<1>5. E(w)
  <2>. DEFINE e == [s \in SUBSET S |-> IF s = {} THEN 0
                    ELSE rs[CHOOSE x \in s : TRUE].size + w[s \ {CHOOSE x \in s : TRUE}]]
  <2>1. ASSUME NEW s \in SUBSET S PROVE w[s] = e[s]
    <3>1. CASE s = {}
      BY <3>1, <1>3
    <3>2. CASE s # {}
      <4>1. (CHOOSE x \in s : TRUE) \in s
        BY <3>2
      <4>. HIDE DEF w
      <4>. QED BY <4>1, <3>2, <1>4
    <3>. QED BY <3>1, <3>2
  <2>. QED BY <2>1, Zenon
<1>6. E(it)
  <2>. HIDE DEF w, E
  <2>. QED BY <1>5
<1>7. ASSUME NEW s \in SUBSET S PROVE it[s] = w[s]
  <2>. DEFINE C == {T \in SUBSET S : it[T] # w[T]}
  <2>1. SUFFICES ASSUME C # {} PROVE FALSE
    OBVIOUS
  <2>2. PICK T \in C : \A U \in C : U \subseteq T => U = T
    <3>1. \A T \in C : IsFiniteSet(T)
      BY <1>2
    <3>. HIDE DEF C
    <3>. QED  BY <2>1, <3>1, MinimalSet
  <2>. DEFINE x == CHOOSE x \in T : TRUE
  <2>3. T # {}
    <3>. HIDE DEF it, w
    <3>. QED BY <1>3, <1>6
  <2>4. x \in T
    BY <2>3
  <2>5. it[T \ {x}] = w[T \ {x}]
    <3>1. T \in SUBSET S /\ T \ {x} \in SUBSET S /\ T \ {x} # T
      BY <2>4
    <3>. HIDE DEF it, w, x
    <3>. QED BY <3>1, <2>2
  <2>6. it[T] = rs[x].size + it[T \ {x}]
    <3>. HIDE DEF it
    <3>. QED BY <1>6, <2>3
  <2>. HIDE DEF it, w, x
  <2>. QED BY <2>4, <2>5, <2>6, <1>4
<1>. QED  BY <1>1, <1>7

\* The sum is a number, it grows with the set, and what is taken out is missing.
LEMMA SumFacts ==
  ASSUME NEW rs, NEW S, IsFiniteSet(S), \A k \in S : rs[k].size \in Nat
  PROVE  /\ LiveSum(rs, S) \in Nat
         /\ S = {} => LiveSum(rs, S) = 0
         /\ \A T \in SUBSET S : LiveSum(rs, T) <= LiveSum(rs, S)
         /\ \A k \in S : LiveSum(rs, S \ {k}) = LiveSum(rs, S) - rs[k].size
<1>1. \A T \in SUBSET S : IsFiniteSet(T) /\ IsFiniteSet(Units(rs, T))
  BY FS_Subset, UnitsAreFinite
<1>2. \A T \in SUBSET S : LiveSum(rs, T) = Cardinality(Units(rs, T))
  BY <1>1, SumIsUnits
<1>3. \A T \in SUBSET S : LiveSum(rs, T) \in Nat
  BY <1>1, <1>2, FS_CardinalityType
<1>4. S = {} => LiveSum(rs, S) = 0
  <2>1. Units(rs, {}) = {}
    BY DEF Units
  <2>. QED  BY <1>2, <2>1, FS_EmptySet
<1>5. ASSUME NEW T \in SUBSET S  PROVE LiveSum(rs, T) <= LiveSum(rs, S)
  <2>1. Units(rs, T) \in SUBSET Units(rs, S)
    BY DEF Units
  <2>2. Cardinality(Units(rs, T)) <= Cardinality(Units(rs, S))
    BY <1>1, <2>1, FS_Subset
  <2>. QED  BY <1>2, <2>2
<1>6. ASSUME NEW k \in S  PROVE LiveSum(rs, S \ {k}) = LiveSum(rs, S) - rs[k].size
  <2>1. Cardinality(Units(rs, S)) = rs[k].size + Cardinality(Units(rs, S \ {k}))
    <3>1. S \ {k} \in SUBSET S
      OBVIOUS
    <3>2. IsFiniteSet(Units(rs, S \ {k})) /\ rs[k].size \in Nat
      BY <1>1, <3>1
    <3>. QED  BY <3>2, UnitsOfOneMore, ZenonT(30)
  <2>2. LiveSum(rs, S) = rs[k].size + LiveSum(rs, S \ {k})
    BY <1>2, <2>1
  <2>3. LiveSum(rs, S \ {k}) \in Nat /\ rs[k].size \in Nat
    BY <1>3
  <2>. QED  BY <2>2, <2>3
<1>. QED  BY <1>3, <1>4, <1>5, <1>6

-----------------------------------------------------------------------------
(* The inductive invariant.                                                *)

Starts == {q.rs[k].start : k \in DOMAIN q.rs}
Seen == Starts \ times
At(t) == LiveSum(q.rs, LiveAt(q.rs, t))

\* A candidate with its restores.
WithRestores(c) == [keep |-> c.keep, evict |-> c.evict, restores |-> {Restore(q, o) : o \in c.evict}]

TypeOK ==
  /\ q.rs \in Seq(ResidencyRecords) /\ q.cap \in Int /\ q.policy \in {"none", "s0", "measured"}
  /\ \A o \in DOMAIN q.data : q.data[o].start \in Int /\ q.data[o].end \in Int
  /\ \A m \in DOMAIN q.table : q.table[m].time \in Int
  /\ pc \in {"load", "scan", "enumerate", "build", "select", "done", "failed"}
  /\ times \subseteq Starts /\ peak \in Nat
  /\ star \subseteq DOMAIN q.rs /\ pending \subseteq star
  /\ truncated \in BOOLEAN /\ selected \in Nat
  /\ cands \in Seq([keep : SUBSET Int, evict : SUBSET Int])
  /\ plan \in Seq({WithRestores(cands[n]) : n \in DOMAIN cands}) /\ Len(plan) <= Len(cands)

\* Nothing has happened yet.
Fresh == cands = <<>> /\ plan = <<>> /\ pending = {} /\ ~truncated /\ selected = 0

Loaded ==
  /\ q.rs # <<>> /\ q.cap > 0
  /\ \A k \in DOMAIN q.rs : q.rs[k].size > 0 /\ q.rs[k].start < q.rs[k].end

ScanInv ==
  /\ \A u \in Seen, t \in times : u < t
  /\ \A t \in Seen : At(t) <= peak
  /\ (Seen = {} /\ peak = 0) \/ \E t \in Seen : At(t) = peak
  /\ star = {} => \A t \in Seen : At(t) <= q.cap
  /\ star # {} => \E t \in Seen :
       star = LiveAt(q.rs, t) /\ At(t) > q.cap /\ \A u \in Seen : u < t => At(u) <= q.cap

Member(k) == <<Kept(k), {q.rs[k].object}>>
\* The candidates that evict one of S.
CandsFor(S) ==
  /\ {Identity(cands[n]) : n \in DOMAIN cands} = {Member(k) : k \in S}
  /\ \A k \in S : Enough(k)
  /\ S # {} => cands # <<>> /\ \E k \in star : IsIncoming(k) /\ cands[1].evict = {q.rs[k].object}

FamilyInv ==
  IF star = {} THEN ~truncated /\ cands = <<[keep |-> Objects(q.rs), evict |-> {}]>>
  ELSE IF truncated THEN cands = <<>> /\ \E k \in star : ~Enough(k)
  ELSE CandsFor(star)

\* Every candidate evicts one residency of star or none; what is in the plan
\* is the candidate, with its restores.
PlanInv ==
  /\ \A n \in DOMAIN cands : cands[n].evict = {} \/ \E k \in star : cands[n].evict = {q.rs[k].object}
  /\ \A n \in DOMAIN plan : plan[n] = WithRestores(cands[n])

\* A measured selection has been made from the ranking.
SelectedInv ==
  pc = "done" /\ q.policy = "measured" =>
    TableOK(q.table) /\ Cardinality(Ranked) >= 2 /\ selected = Min(ArgMin) /\ ~truncated

IInv ==
  /\ TypeOK /\ PlanInv
  /\ pc = "load" => Fresh /\ star = {} /\ times = {} /\ peak = 0 /\ q \in Inputs
  /\ pc \notin {"load", "failed"} => Loaded /\ ScanInv
  /\ pc = "scan" => Fresh
  /\ pc \notin {"load", "failed", "scan"} => times = {}
  /\ pc = "enumerate" => plan = <<>> /\ ~truncated /\ selected = 0 /\ pending # {} /\ CandsFor(star \ pending)
                          /\ (pending = star => cands = <<>>)
  /\ pc \in {"build", "select", "done"} => FamilyInv
  /\ pc = "build" => Len(plan) < Len(cands) /\ selected = 0
  /\ pc \in {"select", "done"} => Len(plan) = Len(cands)
  /\ pc = "done" /\ q.policy = "s0" => selected = 1 /\ plan # <<>>
  /\ SelectedInv

-----------------------------------------------------------------------------
(* Facts about a loaded input.                                             *)

\* The residencies are finitely many, and so are their starts.
LEMMA Residencies ==
  ASSUME q.rs \in Seq(ResidencyRecords)
  PROVE  /\ IsFiniteSet(DOMAIN q.rs)
         /\ DOMAIN q.rs \in SUBSET Nat
         /\ \A k \in DOMAIN q.rs : q.rs[k].size \in Int /\ q.rs[k].start \in Int /\ q.rs[k].end \in Int
         /\ IsFiniteSet(Starts) /\ Starts \in SUBSET Int
<1>1. Len(q.rs) \in Nat /\ DOMAIN q.rs = 1..Len(q.rs)
  OBVIOUS
<1>2. IsFiniteSet(DOMAIN q.rs)
  BY <1>1, FS_Interval
<1>3. \A k \in DOMAIN q.rs : q.rs[k] \in ResidencyRecords
  BY <1>1
<1>4. \A k \in DOMAIN q.rs : q.rs[k].size \in Int /\ q.rs[k].start \in Int /\ q.rs[k].end \in Int
  BY <1>3 DEF ResidencyRecords
<1>5. IsFiniteSet(Starts)
  <2>. DEFINE f == [k \in DOMAIN q.rs |-> q.rs[k].start]
  <2>1. f \in Surjection(DOMAIN q.rs, Starts)
    BY DEF Starts, Surjection
  <2>. QED  BY <1>2, <2>1, FS_Surjection
<1>. QED  BY <1>1, <1>2, <1>4, <1>5 DEF Starts

\* Min takes the least of the times that are left.
LEMMA MinIsLeast ==
  ASSUME NEW S \in SUBSET Int, S # {}, IsFiniteSet(S)
  PROVE  Min(S) \in S /\ \A x \in S : Min(S) <= x
BY LeastInt DEF Min

\* What is live at an instant adds up to a number, at least that of any part.
LEMMA AtIsNat ==
  ASSUME TypeOK, Loaded, NEW t
  PROVE  /\ At(t) \in Nat
         /\ LiveAt(q.rs, t) = {} => At(t) = 0
         /\ \A T \in SUBSET LiveAt(q.rs, t) : LiveSum(q.rs, T) <= At(t)
<1>1. LiveAt(q.rs, t) \in SUBSET DOMAIN q.rs
  BY DEF LiveAt
<1>2. IsFiniteSet(LiveAt(q.rs, t))
  BY <1>1, Residencies, FS_Subset DEF TypeOK
<1>3. \A k \in LiveAt(q.rs, t) : q.rs[k].size \in Nat
  BY <1>1, Residencies DEF TypeOK, Loaded
<1>. QED  BY <1>2, <1>3, SumFacts DEF At

\* The occupancy by intervals is the one the scan computes.
LEMMA OccupancyIsAt ==
  ASSUME TypeOK, Loaded, NEW t \in Int
  PROVE  Occupancy(t) = At(t)
<1>1. \A k \in DOMAIN q.rs : q.rs[k].start \in Int /\ q.rs[k].end \in Int
  BY Residencies DEF TypeOK
<1>2. \A k \in DOMAIN q.rs : t \in q.rs[k].start..(q.rs[k].end - 1) <=> q.rs[k].start <= t /\ t < q.rs[k].end
  BY <1>1
<1>3. LiveAt(q.rs, t) = {k \in DOMAIN q.rs : t \in q.rs[k].start..(q.rs[k].end - 1)}
  BY <1>2 DEF LiveAt
<1>. QED  BY <1>3 DEF Occupancy, At

\* What holds at an instant holds at the last start before it.
LEMMA LastStart ==
  ASSUME TypeOK, Loaded, NEW t \in Instants
  PROVE  /\ t \in Int
         /\ \E s \in Starts : s <= t /\ At(t) <= At(s)
<1>1. PICK k0 \in DOMAIN q.rs : t \in q.rs[k0].start..q.rs[k0].end
  BY DEF Instants
<1>2. \A k \in DOMAIN q.rs : q.rs[k].start \in Int /\ q.rs[k].end \in Int
  BY Residencies DEF TypeOK
<1>3. t \in Int /\ q.rs[k0].start <= t
  BY <1>1, <1>2
<1>. DEFINE B == {s \in Starts : s <= t}
<1>4. B \in SUBSET Int /\ B # {} /\ IsFiniteSet(B)
  <2>1. IsFiniteSet(Starts) /\ Starts \in SUBSET Int
    BY Residencies DEF TypeOK
  <2>2. B \in SUBSET Starts
    OBVIOUS
  <2>3. q.rs[k0].start \in B
    BY <1>3 DEF Starts
  <2>. QED  BY <2>1, <2>2, <2>3, FS_Subset
<1>5. PICK s \in B : \A u \in B : u <= s
  <2>. HIDE DEF B
  <2>. QED  BY <1>4, GreatestInt
<1>6. ASSUME NEW k \in LiveAt(q.rs, t)  PROVE k \in LiveAt(q.rs, s)
  <2>1. k \in DOMAIN q.rs /\ q.rs[k].start <= t /\ t < q.rs[k].end
    BY DEF LiveAt
  <2>2. q.rs[k].start \in B
    BY <2>1 DEF Starts
  <2>3. q.rs[k].start <= s /\ s <= t
    BY <1>5, <2>2
  <2>4. s \in Int /\ q.rs[k].end \in Int
    BY <1>2, <1>4, <2>1
  <2>5. s < q.rs[k].end
    BY <1>3, <2>1, <2>3, <2>4
  <2>. QED  BY <2>1, <2>3, <2>5 DEF LiveAt
<1>7. At(t) <= At(s)
  <2>1. LiveAt(q.rs, t) \in SUBSET LiveAt(q.rs, s)
    BY <1>6
  <2>. QED  BY <2>1, AtIsNat DEF At
<1>. QED  BY <1>3, <1>7

\* A start is an instant.
LEMMA StartsAreInstants ==
  ASSUME TypeOK, Loaded
  PROVE  Starts \subseteq Instants
<1>1. ASSUME NEW k \in DOMAIN q.rs  PROVE q.rs[k].start \in q.rs[k].start..q.rs[k].end
  <2>1. q.rs[k].start \in Int /\ q.rs[k].end \in Int /\ q.rs[k].start < q.rs[k].end
    BY Residencies DEF TypeOK, Loaded
  <2>. QED  BY <2>1
<1>. QED  BY <1>1 DEF Starts, Instants

\* When no start is left, the scan has seen every instant.
LEMMA ScanDone ==
  ASSUME TypeOK, Loaded, ScanInv, times = {}
  PROVE  ScanIsExact
<1>1. Seen = Starts
  BY DEF Seen
<1>2. Starts # {}
  <2>1. 1 \in DOMAIN q.rs
    BY DEF TypeOK, Loaded
  <2>. QED  BY <2>1 DEF Starts
<1>3. \A t \in Instants : t \in Int /\ Occupancy(t) = At(t) /\ At(t) \in Nat
  BY LastStart, OccupancyIsAt, AtIsNat
<1>4. peak \in Int /\ q.cap \in Int
  BY DEF TypeOK
<1>5. Starts \subseteq Instants
  BY StartsAreInstants
<1>6. ASSUME NEW t \in Instants, NEW c \in Int, \A s \in Starts : s <= t => At(s) <= c
      PROVE  Occupancy(t) <= c
  <2>1. PICK s \in Starts : s <= t /\ At(t) <= At(s)
    BY LastStart
  <2>2. At(s) <= c /\ At(s) \in Nat /\ At(t) \in Nat
    BY <2>1, <1>6, AtIsNat
  <2>. QED  BY <1>3, <2>1, <2>2
<1>7. \A t \in Instants : Occupancy(t) <= peak
  BY <1>1, <1>4, <1>6 DEF ScanInv
<1>8. \E t \in Instants : Occupancy(t) = peak
  BY <1>1, <1>2, <1>3, <1>5 DEF ScanInv
<1>9. star = {} => \A t \in Instants : Occupancy(t) <= q.cap
  BY <1>1, <1>4, <1>6 DEF ScanInv
<1>10. ASSUME star # {}
       PROVE  \E t \in Instants :
                /\ star = LiveAt(q.rs, t) /\ Occupancy(t) > q.cap
                /\ \A u \in Instants : u < t => Occupancy(u) <= q.cap
  <2>1. PICK t \in Starts : star = LiveAt(q.rs, t) /\ At(t) > q.cap /\ \A u \in Starts : u < t => At(u) <= q.cap
    BY <1>1, <1>10 DEF ScanInv
  <2>2. ASSUME NEW u \in Instants, u < t  PROVE Occupancy(u) <= q.cap
    <3>1. \A s \in Starts : s <= u => s < t
      <4>1. u \in Int /\ t \in Int /\ \A s \in Starts : s \in Int
        BY <1>3, <1>5
      <4>. QED  BY <4>1, <2>2
    <3>. QED  BY <1>4, <1>6, <2>1, <3>1
  <2>3. t \in Instants /\ Occupancy(t) = At(t)
    BY <1>3, <1>5
  <2>. QED  BY <2>1, <2>2, <2>3
<1>11. (\A t \in Instants : Occupancy(t) <= q.cap) => star = {}
  <2>1. SUFFICES ASSUME star # {}, \A t \in Instants : Occupancy(t) <= q.cap  PROVE FALSE
    OBVIOUS
  <2>2. PICK t \in Instants : Occupancy(t) > q.cap
    BY <1>10, <2>1
  <2>3. Occupancy(t) \in Int /\ Occupancy(t) <= q.cap
    BY <1>3, <2>1
  <2>. QED  BY <1>4, <2>2, <2>3
<1>. QED  BY <1>7, <1>8, <1>9, <1>10, <1>11 DEF ScanIsExact

-----------------------------------------------------------------------------
(* The invariant is inductive: one lemma per action.                       *)

\* Before it is loaded, the input is one of Inputs and nothing is computed.
LEMMA InitIInv == Init => IInv
<1>. SUFFICES ASSUME Init  PROVE IInv
  OBVIOUS
<1>1. q \in Inputs /\ pc = "load" /\ cands = <<>> /\ plan = <<>>
  BY DEF Init
<1>2. TypeOK
  <2>1. /\ q.rs \in Seq(ResidencyRecords) /\ q.cap \in Int /\ q.policy \in {"none", "s0", "measured"}
        /\ \A o \in DOMAIN q.data : q.data[o].start \in Int /\ q.data[o].end \in Int
        /\ \A m \in DOMAIN q.table : q.table[m].time \in Int
    BY <1>1, InputsAssumption
  <2>2. plan \in Seq({WithRestores(cands[n]) : n \in DOMAIN cands})
    BY <1>1
  <2>3. cands \in Seq([keep : SUBSET Int, evict : SUBSET Int])
    BY <1>1
  <2>4. Len(plan) <= Len(cands)
    BY <1>1
  <2>. QED  BY <1>1, <2>1, <2>2, <2>3, <2>4 DEF Init, TypeOK
<1>3. PlanInv
  BY <1>1 DEF PlanInv
<1>. QED  BY <1>1, <1>2, <1>3 DEF Init, IInv, Fresh, SelectedInv

\* _load_spec rejects, or leaves positive sizes and capacity, a budget included.
LEMMA LoadStep == IInv /\ Load => IInv'
<1>. SUFFICES ASSUME IInv, Load  PROVE IInv'
  OBVIOUS
<1>1. /\ pc = "load" /\ q \in Inputs /\ Fresh /\ star = {} /\ times = {} /\ peak = 0
      /\ UNCHANGED <<peak, star, pending, cands, truncated, plan, selected>>
  BY DEF IInv, Load
<1>2. /\ Fresh' /\ star' = {} /\ peak' = 0
      /\ PlanInv'
  BY <1>1 DEF Fresh, PlanInv
<1>3. CASE pc' = "failed" /\ UNCHANGED <<q, times>>
  <2>1. TypeOK'
    <3>1. plan' \in Seq({WithRestores(cands[n]) : n \in DOMAIN cands}')
      BY <1>2 DEF Fresh
    <3>. QED  BY <1>1, <1>3, <3>1 DEF IInv, TypeOK, Starts
  <2>. QED  BY <1>1, <1>2, <1>3, <2>1 DEF IInv, SelectedInv
<1>4. CASE /\ SpecOK(q) /\ BudgetOK(q) /\ pc' = "scan"
           /\ q' = Constrained(q) /\ times' = {q.rs[k].start : k \in DOMAIN q.rs}
  <2>1. /\ q'.rs = q.rs /\ q'.data = q.data /\ q'.table = q.table /\ q'.policy = q.policy
        /\ q'.cap \in Int /\ q'.cap > 0
    <3>1. CASE q.budget = {}
      BY <1>1, <1>4, <3>1 DEF Constrained, SpecOK, IInv, TypeOK
    <3>2. CASE q.budget # {}
      <4>. DEFINE b == CHOOSE x \in q.budget : TRUE
      <4>1. b \in q.budget
        BY <3>2
      <4>2. b.cap \in Int /\ b.cap > 0
        BY <1>1, <1>4, <4>1, InputsAssumption DEF BudgetOK
      <4>3. q' = [q EXCEPT !.cap = b.cap, !.space = b.space]
        BY <1>4, <3>2 DEF Constrained
      <4>4. DOMAIN q = {"rs", "cap", "space", "budget", "sources", "data", "order", "drop",
                        "policy", "table"}
        BY <1>1, InputsAssumption
      <4>. HIDE DEF b
      <4>. QED  BY <4>2, <4>3, <4>4
    <3>. QED  BY <3>1, <3>2
  <2>2. Loaded'
    BY <1>4, <2>1 DEF SpecOK, Loaded
  <2>3. TypeOK'
    <3>1. plan' \in Seq({WithRestores(cands[n]) : n \in DOMAIN cands}')
      BY <1>2 DEF Fresh
    <3>. QED  BY <1>1, <1>2, <1>4, <2>1, <3>1 DEF IInv, TypeOK, Starts, Fresh
  <2>4. Seen' = {}
    BY <1>4, <2>1 DEF Seen, Starts
  <2>5. ScanInv'
    BY <1>2, <2>4 DEF ScanInv
  <2>. QED  BY <1>2, <1>4, <2>2, <2>3, <2>5 DEF IInv, SelectedInv
<1>. QED  BY <1>3, <1>4 DEF Load

\* One more start is seen, later than all before.
LEMMA ScanStep == IInv /\ Scan => IInv'
<1>. SUFFICES ASSUME IInv, Scan  PROVE IInv'
  OBVIOUS
<1>. DEFINE t == Min(times)
<1>1. /\ pc = "scan" /\ times # {} /\ TypeOK /\ Loaded /\ ScanInv /\ Fresh /\ PlanInv
      /\ UNCHANGED <<q, pc, pending, cands, truncated, plan, selected>>
      /\ times' = times \ {t}
      /\ peak' = IF At(t) > peak THEN At(t) ELSE peak
      /\ star' = IF At(t) > q.cap /\ star = {} THEN LiveAt(q.rs, t) ELSE star
  BY DEF IInv, Scan, At
<1>2. t \in times /\ t \in Starts /\ t \in Int /\ \A x \in times : t <= x
  <2>1. times \in SUBSET Int /\ IsFiniteSet(times) /\ times \subseteq Starts
    BY <1>1, Residencies, FS_Subset DEF TypeOK
  <2>. QED  BY <1>1, <2>1, MinIsLeast
<1>3. /\ \A x \in Starts : x \in Int /\ At(x) \in Nat /\ At(x)' = At(x)
      /\ peak \in Nat /\ q.cap \in Int /\ Starts' = Starts /\ q' = q
      /\ times \subseteq Starts
  BY <1>1, AtIsNat, Residencies DEF TypeOK, At, Starts
<1>4. Seen' = Seen \cup {t}
  BY <1>1, <1>2, <1>3 DEF Seen
<1>5. Seen \subseteq Starts /\ t \notin Seen /\ \A u \in Seen : u < t
  BY <1>1, <1>2 DEF ScanInv, Seen
<1>6. At(t) > q.cap => LiveAt(q.rs, t) # {}
  BY <1>1, <1>3, AtIsNat DEF Loaded
<1>. HIDE DEF t
<1>7. TypeOK'
  <2>1. LiveAt(q.rs, t) \subseteq DOMAIN q.rs
    BY DEF LiveAt
  <2>2. peak' \in Nat /\ star' \subseteq DOMAIN q.rs /\ pending' \subseteq star'
    BY <1>1, <1>2, <1>3, <2>1 DEF TypeOK, Fresh
  <2>3. plan' \in Seq({WithRestores(cands[n]) : n \in DOMAIN cands}')
    BY <1>1 DEF Fresh
  <2>. QED  BY <1>1, <1>3, <2>2, <2>3 DEF TypeOK
<1>8. ScanInv'
  <2>1. \A u \in Seen', x \in times' : u < x
    <3>1. \A x \in times' : t < x
      <4>1. \A x \in times' : x # t /\ t <= x /\ x \in Int
        BY <1>1, <1>2, <1>3
      <4>. QED  BY <1>2, <4>1
    <3>. QED  BY <1>1, <1>4, <3>1 DEF ScanInv
  <2>2. \A x \in Seen' : At(x)' <= peak'
    <3>1. peak <= peak' /\ At(t) <= peak' /\ peak' \in Int
      BY <1>1, <1>2, <1>3
    <3>2. \A x \in Seen : At(x) <= peak /\ At(x) \in Int
      BY <1>1, <1>3, <1>5 DEF ScanInv
    <3>3. \A x \in Seen : At(x) <= peak'
      BY <1>3, <3>1, <3>2
    <3>. QED  BY <1>2, <1>3, <1>4, <1>5, <3>1, <3>3
  <2>3. \E x \in Seen' : At(x)' = peak'
    <3>1. CASE At(t) > peak
      BY <1>1, <1>2, <1>3, <1>4, <3>1
    <3>2. CASE ~(At(t) > peak)
      <4>1. peak' = peak
        BY <1>1, <3>2
      <4>2. CASE \E x \in Seen : At(x) = peak
        BY <1>3, <1>4, <1>5, <4>1, <4>2
      <4>3. CASE Seen = {} /\ peak = 0
        <5>1. At(t) = peak
          BY <1>2, <1>3, <3>2, <4>3
        <5>. QED  BY <1>2, <1>3, <1>4, <4>1, <5>1
      <4>. QED  BY <1>1, <4>2, <4>3 DEF ScanInv
    <3>. QED  BY <3>1, <3>2
  <2>4. star' = {} => \A x \in Seen' : At(x)' <= q'.cap
    <3>1. SUFFICES ASSUME star' = {}  PROVE \A x \in Seen' : At(x)' <= q'.cap
      OBVIOUS
    <3>2. star = {} /\ ~(At(t) > q.cap)
      BY <1>1, <1>6, <3>1
    <3>3. At(t) <= q.cap
      BY <1>2, <1>3, <3>2
    <3>4. \A x \in Seen : At(x) <= q.cap
      BY <1>1, <3>2 DEF ScanInv
    <3>. QED  BY <1>2, <1>3, <1>4, <1>5, <3>3, <3>4
  <2>5. star' # {} => \E x \in Seen' :
          star' = LiveAt(q'.rs, x) /\ At(x)' > q'.cap /\ \A u \in Seen' : u < x => At(u)' <= q'.cap
    <3>1. SUFFICES ASSUME star' # {}
                   PROVE  \E x \in Seen' : /\ star' = LiveAt(q.rs, x) /\ At(x) > q.cap
                                           /\ \A u \in Seen' : u < x => At(u) <= q.cap
      BY <1>2, <1>3, <1>4, <1>5
    <3>2. CASE star # {}
      <4>1. PICK x \in Seen : star = LiveAt(q.rs, x) /\ At(x) > q.cap /\ \A u \in Seen : u < x => At(u) <= q.cap
        BY <1>1, <3>2 DEF ScanInv
      <4>2. ~(t < x)
        BY <1>2, <1>3, <1>5
      <4>. QED  BY <1>1, <1>4, <3>2, <4>1, <4>2
    <3>3. CASE star = {}
      <4>1. At(t) > q.cap /\ star' = LiveAt(q.rs, t)
        BY <1>1, <3>1, <3>3
      <4>2. \A u \in Seen : At(u) <= q.cap
        BY <1>1, <3>3 DEF ScanInv
      <4>3. ~(t < t)
        BY <1>2
      <4>. QED  BY <1>4, <4>1, <4>2, <4>3
    <3>. QED  BY <3>2, <3>3
  <2>. QED  BY <2>1, <2>2, <2>3, <2>4, <2>5 DEF ScanInv
<1>9. Fresh' /\ Loaded' /\ PlanInv'
  BY <1>1 DEF Fresh, Loaded, PlanInv
<1>. QED  BY <1>1, <1>7, <1>8, <1>9 DEF IInv, SelectedInv

\* From here on the input and what the scan found stay as they are.
LEMMA ScanInvStays ==
  ASSUME UNCHANGED <<q, times, peak, star>>
  PROVE  ScanInv' = ScanInv /\ Loaded' = Loaded /\ Starts' = Starts
<1>1. \A t : At(t)' = At(t)
  BY DEF At
<1>2. Starts' = Starts /\ Seen' = Seen
  BY DEF Starts, Seen
<1>3. ScanInv' = ScanInv
  BY <1>1, <1>2 DEF ScanInv
<1>. QED  BY <1>2, <1>3 DEF Loaded

\* Without a conflict the family is a singleton; else every eviction is pending.
LEMMA EndScanStep == IInv /\ EndScan => IInv'
<1>. SUFFICES ASSUME IInv, EndScan  PROVE IInv'
  OBVIOUS
<1>1. /\ pc = "scan" /\ times = {} /\ TypeOK /\ Loaded /\ ScanInv /\ Fresh /\ PlanInv
      /\ UNCHANGED <<q, times, peak, star, truncated, plan, selected>>
  BY DEF IInv, EndScan
<1>2. ScanInv' /\ Loaded' /\ Starts' = Starts
  BY <1>1, ScanInvStays
<1>3. CASE star = {}
  <2>. DEFINE c == [keep |-> Objects(q.rs), evict |-> {}]
  <2>1. cands' = <<c>> /\ pc' = "build" /\ pending' = pending
    BY <1>3 DEF EndScan
  <2>2. c \in [keep : SUBSET Int, evict : SUBSET Int]
    <3>1. \A k \in DOMAIN q.rs : q.rs[k] \in ResidencyRecords
      BY <1>1 DEF TypeOK
    <3>2. Objects(q.rs) \in SUBSET Int
      BY <3>1 DEF Objects, ResidencyRecords
    <3>. QED  BY <3>2
  <2>3. /\ cands' \in Seq([keep : SUBSET Int, evict : SUBSET Int])
        /\ DOMAIN cands' = {1} /\ cands'[1].evict = {} /\ Len(cands') = 1
    BY <2>1, <2>2
  <2>4. plan' = <<>> /\ ~truncated' /\ selected' = 0
    BY <1>1 DEF Fresh
  <2>5. TypeOK'
    <3>1. plan' \in Seq({WithRestores(cands[n]) : n \in DOMAIN cands}')
      BY <2>4
    <3>. QED  BY <1>1, <1>2, <2>1, <2>3, <2>4, <3>1 DEF TypeOK
  <2>6. PlanInv'
    BY <2>3, <2>4 DEF PlanInv
  <2>7. FamilyInv'
    BY <1>1, <1>3, <2>1, <2>4 DEF FamilyInv
  <2>. QED  BY <1>1, <1>2, <2>1, <2>3, <2>4, <2>5, <2>6, <2>7 DEF IInv, SelectedInv
<1>4. CASE star # {}
  <2>1. pending' = star /\ pc' = "enumerate" /\ cands' = cands /\ plan' = <<>> /\ cands = <<>>
        /\ ~truncated' /\ selected' = 0
    BY <1>1, <1>4 DEF EndScan, Fresh
  <2>2. TypeOK'
    BY <1>1, <1>2, <2>1 DEF TypeOK
  <2>3. PlanInv'
    BY <2>1 DEF PlanInv
  <2>4. CandsFor(star \ pending)'
    <3>1. star' \ pending' = {} /\ DOMAIN cands' = {}
      BY <1>1, <2>1
    <3>. QED  BY <3>1 DEF CandsFor
  <2>. QED  BY <1>1, <1>2, <1>4, <2>1, <2>2, <2>3, <2>4 DEF IInv, SelectedInv
<1>. QED  BY <1>3, <1>4

\* One more eviction makes room, the incoming one first, or all is given up.
LEMMA EvictStep == IInv /\ Evict => IInv'
<1>. SUFFICES ASSUME IInv, Evict  PROVE IInv'
  OBVIOUS
<1>1. /\ pc = "enumerate" /\ TypeOK /\ Loaded /\ ScanInv /\ PlanInv /\ times = {}
      /\ plan = <<>> /\ ~truncated /\ selected = 0 /\ pending # {}
      /\ CandsFor(star \ pending) /\ (pending = star => cands = <<>>)
      /\ UNCHANGED <<q, times, peak, star, plan, selected>>
  BY DEF IInv, Evict
<1>2. ScanInv' /\ Loaded' /\ Starts' = Starts
  BY <1>1, ScanInvStays
<1>3. PICK k \in pending : NextInLine(k) /\ IF Enough(k) THEN Propose(k) ELSE GiveUp
  BY DEF Evict
<1>4. k \in star /\ star # {} /\ star \subseteq DOMAIN q.rs
  BY <1>1 DEF TypeOK
<1>5. CASE Enough(k) /\ Propose(k)
  <2>. DEFINE c == [keep |-> Kept(k), evict |-> {q.rs[k].object}]
              C == [keep : SUBSET Int, evict : SUBSET Int]
  <2>1. /\ cands' = Append(cands, c) /\ pending' = pending \ {k} /\ truncated' = truncated
        /\ pc' = IF pending' = {} THEN "build" ELSE pc
    BY <1>5 DEF Propose
  <2>2. c \in C
    <3>1. \A j \in DOMAIN q.rs : q.rs[j].object \in Int
      <4>1. \A j \in DOMAIN q.rs : q.rs[j] \in ResidencyRecords
        BY <1>1 DEF TypeOK
      <4>. QED  BY <4>1 DEF ResidencyRecords
    <3>2. Kept(k) \in SUBSET Int /\ {q.rs[k].object} \in SUBSET Int
      BY <1>4, <3>1 DEF Kept
    <3>. QED  BY <3>2
  <2>3. /\ cands \in Seq(C) /\ cands' \in Seq(C)
        /\ Len(cands) \in Nat /\ Len(cands') = Len(cands) + 1
        /\ DOMAIN cands = 1..Len(cands) /\ DOMAIN cands' = 1..(Len(cands) + 1)
        /\ \A n \in 1..Len(cands) : cands'[n] = cands[n]
        /\ cands'[Len(cands) + 1] = c
    <3>1. cands \in Seq(C)
      BY <1>1 DEF TypeOK
    <3>. HIDE DEF C, c
    <3>. QED  BY <2>1, <2>2, <3>1
  <2>. HIDE DEF c, C
  <2>4. DOMAIN cands' = DOMAIN cands \cup {Len(cands) + 1}
    BY <2>3
  <2>5. c.keep = Kept(k) /\ c.evict = {q.rs[k].object} /\ Identity(c) = Member(k)
    BY DEF c, Identity, Member
  <2>6. \A j : Member(j)' = Member(j) /\ Enough(j)' = Enough(j) /\ IsIncoming(j)' = IsIncoming(j)
    BY <1>1 DEF Member, Kept, Enough, IsIncoming
  <2>7. TypeOK'
    <3>1. plan' \in Seq({WithRestores(cands[n]) : n \in DOMAIN cands}') /\ Len(plan') = 0
      BY <1>1
    <3>2. cands' \in Seq([keep : SUBSET Int, evict : SUBSET Int]) /\ Len(plan') <= Len(cands')
      BY <2>3, <3>1 DEF C
    <3>3. pc' \in {"enumerate", "build"} /\ pending' \subseteq star'
      BY <1>1, <2>1 DEF TypeOK
    <3>. QED  BY <1>1, <1>2, <2>1, <3>1, <3>2, <3>3 DEF TypeOK
  <2>8. PlanInv'
    <3>1. \A n \in DOMAIN cands' : cands'[n].evict = {} \/ \E j \in star : cands'[n].evict = {q.rs[j].object}
      BY <1>1, <1>4, <2>3, <2>4, <2>5 DEF PlanInv
    <3>2. DOMAIN plan' = {} /\ star' = star /\ q' = q
      BY <1>1
    <3>. QED  BY <3>1, <3>2 DEF PlanInv
  <2>9. CandsFor(star \ pending)'
    <3>1. star' \ pending' = (star \ pending) \cup {k}
      BY <1>1, <1>3, <1>4, <2>1
    <3>2. {Identity(cands'[n]) : n \in DOMAIN cands'} = {Identity(cands[n]) : n \in DOMAIN cands} \cup {Identity(c)}
      BY <2>3, <2>4
    <3>3. {Identity(cands'[n]) : n \in DOMAIN cands'} = {Member(j) : j \in (star \ pending) \cup {k}}
      BY <1>1, <2>5, <3>2 DEF CandsFor
    <3>4. \A j \in (star \ pending) \cup {k} : Enough(j)
      BY <1>1, <1>5 DEF CandsFor
    <3>5. \E j \in star : IsIncoming(j) /\ cands'[1].evict = {q.rs[j].object}
      <4>1. CASE pending = star
        <5>1. Len(cands) = 0 /\ cands'[1] = c
          BY <1>1, <2>3, <4>1
        <5>2. IsIncoming(k)
          BY <1>3, <4>1 DEF NextInLine
        <5>. QED  BY <1>4, <2>5, <5>1, <5>2
      <4>2. CASE pending # star
        <5>1. star \ pending # {}
          BY <1>1, <4>2 DEF TypeOK
        <5>2. cands # <<>> /\ \E j \in star : IsIncoming(j) /\ cands[1].evict = {q.rs[j].object}
          BY <1>1, <5>1 DEF CandsFor
        <5>3. 1 \in 1..Len(cands)
          BY <2>3, <5>2
        <5>. QED  BY <2>3, <5>2, <5>3
      <4>. QED  BY <4>1, <4>2
    <3>6. cands' # <<>>
      BY <2>3
    <3>. QED  BY <1>1, <2>6, <3>1, <3>3, <3>4, <3>5, <3>6 DEF CandsFor
  <2>10. pending' # star'
    BY <1>1, <1>4, <2>1
  <2>11. CASE pending' = {}
    <3>1. FamilyInv'
      <4>1. (star \ pending)' = star'
        BY <2>11
      <4>2. CandsFor(star)'
        BY <2>9, <4>1 DEF CandsFor
      <4>. QED  BY <1>1, <1>4, <2>1, <4>2 DEF FamilyInv
    <3>2. pc' = "build" /\ Len(plan') = 0 /\ Len(plan') < Len(cands')
      BY <1>1, <2>1, <2>3, <2>11
    <3>. QED  BY <1>1, <1>2, <2>7, <2>8, <3>1, <3>2 DEF IInv, SelectedInv
  <2>12. CASE pending' # {}
    <3>1. pc' = "enumerate"
      BY <1>1, <2>1, <2>12
    <3>. QED  BY <1>1, <1>2, <2>1, <2>7, <2>8, <2>9, <2>10, <2>12, <3>1 DEF IInv, SelectedInv
  <2>. QED  BY <2>11, <2>12
<1>6. CASE ~Enough(k) /\ GiveUp
  <2>1. truncated' = TRUE /\ cands' = <<>> /\ pc' = "select" /\ pending' = pending
    BY <1>6 DEF GiveUp
  <2>2. plan' = <<>> /\ Len(plan') = Len(cands')
    BY <1>1, <2>1
  <2>3. TypeOK'
    <3>1. plan' \in Seq({WithRestores(cands[n]) : n \in DOMAIN cands}')
      BY <2>2
    <3>. QED  BY <1>1, <1>2, <2>1, <2>2, <3>1 DEF TypeOK
  <2>4. PlanInv'
    BY <2>1, <2>2 DEF PlanInv
  <2>5. FamilyInv'
    <3>1. ~Enough(k)' /\ k \in star'
      BY <1>1, <1>4, <1>6 DEF Enough
    <3>. QED  BY <1>1, <1>4, <2>1, <3>1 DEF FamilyInv
  <2>. QED  BY <1>1, <1>2, <2>1, <2>2, <2>3, <2>4, <2>5 DEF IInv, SelectedInv
<1>. QED  BY <1>3, <1>5, <1>6

\* The next candidate gets its restores, or the plan is refused.
LEMMA BuildStep == IInv /\ Build => IInv'
<1>. SUFFICES ASSUME IInv, Build  PROVE IInv'
  OBVIOUS
<1>. DEFINE c == cands[Len(plan) + 1]
            S == {WithRestores(cands[n]) : n \in DOMAIN cands}
<1>1. /\ pc = "build" /\ TypeOK /\ Loaded /\ ScanInv /\ PlanInv /\ times = {}
      /\ FamilyInv /\ Len(plan) < Len(cands) /\ selected = 0
      /\ UNCHANGED <<q, times, peak, star, pending, cands, truncated, selected>>
  BY DEF IInv, Build
<1>2. ScanInv' /\ Loaded' /\ Starts' = Starts
  BY <1>1, ScanInvStays
<1>3. /\ \A n : WithRestores(cands[n])' = WithRestores(cands[n])
      /\ \A k : Enough(k)' = Enough(k) /\ Member(k)' = Member(k) /\ IsIncoming(k)' = IsIncoming(k)
  BY <1>1 DEF WithRestores, Restore, SourceData, RestoreOrdering, DestInvalidation, Enough, Member, Kept, IsIncoming
<1>4. FamilyInv'
  <2>1. CandsFor(star) => CandsFor(star)'
    BY <1>1, <1>3 DEF CandsFor
  <2>2. (\E k \in star : ~Enough(k)) => (\E k \in star : ~Enough(k))'
    BY <1>1, <1>3
  <2>. QED  BY <1>1, <2>1, <2>2 DEF FamilyInv
<1>5. CASE pc' = "failed" /\ plan' = plan
  <2>1. TypeOK'
    <3>1. plan' \in Seq(S)'
      BY <1>1, <1>3, <1>5 DEF TypeOK
    <3>. QED  BY <1>1, <1>2, <1>5, <3>1 DEF TypeOK
  <2>2. PlanInv'
    BY <1>1, <1>3, <1>5 DEF PlanInv
  <2>. QED  BY <1>1, <1>5, <2>1, <2>2 DEF IInv, SelectedInv
<1>6. CASE plan' = Append(plan, WithRestores(c)) /\ pc' = IF Len(plan') = Len(cands) THEN "select" ELSE pc
  <2>1. Len(plan) + 1 \in DOMAIN cands /\ Len(plan) \in Nat /\ Len(cands) \in Nat
    BY <1>1 DEF TypeOK
  <2>2. plan \in Seq(S) /\ WithRestores(c) \in S
    BY <1>1, <2>1 DEF TypeOK
  <2>3. /\ plan' \in Seq(S) /\ Len(plan') = Len(plan) + 1
        /\ DOMAIN plan' = 1..(Len(plan) + 1) /\ DOMAIN plan = 1..Len(plan)
        /\ \A n \in 1..Len(plan) : plan'[n] = plan[n]
        /\ plan'[Len(plan) + 1] = WithRestores(c)
    <3>. HIDE DEF S, c
    <3>. QED  BY <1>6, <2>2
  <2>4. TypeOK'
    <3>1. plan' \in Seq(S)'
      BY <1>1, <1>3, <2>3
    <3>2. Len(plan') <= Len(cands') /\ pc' \in {"build", "select"}
      BY <1>1, <1>6, <2>1, <2>3
    <3>. QED  BY <1>1, <1>2, <3>1, <3>2 DEF TypeOK
  <2>5. PlanInv'
    <3>1. ASSUME NEW n \in DOMAIN plan'  PROVE plan'[n] = WithRestores(cands[n])
      <4>1. CASE n \in 1..Len(plan)
        BY <1>1, <2>3, <4>1 DEF PlanInv
      <4>2. CASE n = Len(plan) + 1
        BY <2>3, <4>2
      <4>. QED  BY <2>1, <2>3, <4>1, <4>2
    <3>. QED  BY <1>1, <1>3, <3>1 DEF PlanInv
  <2>6. pc' = "build" => Len(plan') < Len(cands')
    BY <1>1, <1>6, <2>1, <2>3
  <2>7. pc' = "select" => Len(plan') = Len(cands')
    BY <1>1, <1>6
  <2>8. pc' \in {"build", "select"}
    BY <1>1, <1>6
  <2>. QED  BY <1>1, <1>2, <1>4, <2>4, <2>5, <2>6, <2>7, <2>8 DEF IInv, SelectedInv
<1>. QED  BY <1>5, <1>6 DEF Build, WithRestores

\* A table without duplicates has at most one time for a candidate.
LEMMA MeasuredIsOne ==
  ASSUME TypeOK, TableOK(q.table), NEW n, Measured(n) # {}
  PROVE  /\ Min(Measured(n)) \in Int /\ Measured(n) = {Min(Measured(n))}
<1>. DEFINE J == {j \in DOMAIN q.table : /\ q.table[j].scope = "this" /\ q.table[j].good
                                         /\ Identity(q.table[j]) = Identity(plan[n])}
<1>1. PICK j \in J : TRUE
  BY DEF Measured
<1>2. \A m \in J : m = j
  BY DEF TableOK
<1>3. Measured(n) = {q.table[j].time} /\ q.table[j].time \in Int
  BY <1>1, <1>2 DEF Measured, TypeOK
<1>4. Min({q.table[j].time}) = q.table[j].time
  BY <1>3 DEF Min
<1>. QED  BY <1>3, <1>4

\* The fastest of the ranked candidates exist.
LEMMA ArgMinIsLeast ==
  ASSUME TypeOK, TableOK(q.table), Ranked # {}
  PROVE  /\ Min(ArgMin) \in Ranked
         /\ \A n \in Ranked : \/ Min(Measured(n)) > Min(Measured(Min(ArgMin)))
                              \/ Min(Measured(n)) = Min(Measured(Min(ArgMin))) /\ Min(ArgMin) <= n
<1>. DEFINE time(n) == Min(Measured(n))
            T == {time(n) : n \in Ranked}
<1>1. \A n \in Ranked : time(n) \in Int
  BY MeasuredIsOne DEF Ranked
<1>2. Ranked \in SUBSET Int /\ IsFiniteSet(Ranked)
  <2>1. Len(plan) \in Nat /\ DOMAIN plan = 1..Len(plan)
    BY DEF TypeOK
  <2>2. IsFiniteSet(1..Len(plan)) /\ Ranked \in SUBSET (1..Len(plan)) /\ 1..Len(plan) \in SUBSET Int
    BY <2>1, FS_Interval DEF Ranked
  <2>. QED  BY <2>2, FS_Subset
<1>3. IsFiniteSet(T)
  <2>. DEFINE f == [n \in Ranked |-> time(n)]
  <2>1. f \in Surjection(Ranked, T)
    BY DEF Surjection
  <2>. QED  BY <1>2, <2>1, FS_Surjection
<1>4. PICK n0 \in Ranked : \A m \in Ranked : time(n0) <= time(m)
  <2>1. T \in SUBSET Int /\ T # {}
    BY <1>1
  <2>2. PICK t \in T : \A u \in T : t <= u
    <3>. HIDE DEF T
    <3>. QED  BY <1>3, <2>1, LeastInt
  <2>. QED  BY <2>2
<1>5. ArgMin = {n \in Ranked : \A m \in Ranked : time(n) <= time(m)}
  BY DEF ArgMin
<1>6. ArgMin \in SUBSET Int /\ ArgMin # {} /\ IsFiniteSet(ArgMin)
  <2>1. ArgMin \in SUBSET Ranked /\ n0 \in ArgMin
    BY <1>4, <1>5
  <2>. QED  BY <1>2, <2>1, FS_Subset
<1>7. Min(ArgMin) \in ArgMin /\ \A n \in ArgMin : Min(ArgMin) <= n
  BY <1>6, MinIsLeast
<1>. DEFINE s == Min(ArgMin)
<1>8. s \in Ranked /\ \A m \in Ranked : time(s) <= time(m)
  BY <1>5, <1>7
<1>9. ASSUME NEW n \in Ranked  PROVE time(n) > time(s) \/ (time(n) = time(s) /\ s <= n)
  <2>. HIDE DEF time, s
  <2>1. time(s) \in Int /\ time(n) \in Int /\ time(s) <= time(n)
    BY <1>1, <1>8
  <2>2. CASE time(n) = time(s)
    <3>1. n \in ArgMin
      BY <1>5, <1>8, <2>2
    <3>. QED  BY <1>7, <2>2, <3>1 DEF s
  <2>. QED  BY <2>1, <2>2
<1>. QED  BY <1>8, <1>9

\* The selection reads the plan and changes nothing else.
LEMMA SelectStep == IInv /\ Select => IInv'
<1>. SUFFICES ASSUME IInv, Select  PROVE IInv'
  OBVIOUS
<1>. DEFINE S == {WithRestores(cands[n]) : n \in DOMAIN cands}
<1>1. /\ pc = "select" /\ TypeOK /\ Loaded /\ ScanInv /\ PlanInv /\ times = {}
      /\ FamilyInv /\ Len(plan) = Len(cands)
      /\ UNCHANGED <<q, times, peak, star, pending, cands, truncated, plan>>
  BY DEF IInv, Select
<1>2. ScanInv' /\ Loaded' /\ Starts' = Starts
  BY <1>1, ScanInvStays
<1>3. /\ \A n : WithRestores(cands[n])' = WithRestores(cands[n])
      /\ \A k : Enough(k)' = Enough(k) /\ Member(k)' = Member(k) /\ IsIncoming(k)' = IsIncoming(k)
  BY <1>1 DEF WithRestores, Restore, SourceData, RestoreOrdering, DestInvalidation, Enough, Member, Kept, IsIncoming
<1>4. FamilyInv' /\ PlanInv'
  <2>1. CandsFor(star) => CandsFor(star)'
    BY <1>1, <1>3 DEF CandsFor
  <2>2. (\E k \in star : ~Enough(k)) => (\E k \in star : ~Enough(k))'
    BY <1>1, <1>3
  <2>. QED  BY <1>1, <1>3, <2>1, <2>2 DEF FamilyInv, PlanInv
<1>5. ASSUME pc' \in {"done", "failed"}, selected' \in Nat  PROVE TypeOK'
  <2>1. plan' \in Seq(S)'
    BY <1>1, <1>3 DEF TypeOK
  <2>. QED  BY <1>1, <1>2, <1>5, <2>1 DEF TypeOK
<1>6. CASE pc' = "failed" /\ selected' = selected
  <2>1. selected \in Nat
    BY <1>1 DEF TypeOK
  <2>. QED  BY <1>1, <1>4, <1>5, <1>6, <2>1 DEF IInv, SelectedInv
<1>7. CASE q.policy = "none" /\ pc' = "done" /\ selected' = selected
  <2>1. selected \in Nat
    BY <1>1 DEF TypeOK
  <2>. QED  BY <1>1, <1>2, <1>4, <1>5, <1>7, <2>1 DEF IInv, SelectedInv
<1>8. CASE q.policy = "s0" /\ plan # <<>> /\ pc' = "done" /\ selected' = 1
  BY <1>1, <1>2, <1>4, <1>5, <1>8 DEF IInv, SelectedInv
<1>9. CASE q.policy = "measured" /\ plan # <<>> /\ TableOK(q.table) /\ Cardinality(Ranked) >= 2
           /\ pc' = "done" /\ selected' = Min(ArgMin)
  <2>1. Ranked # {}
    BY <1>9, FS_EmptySet
  <2>2. selected' \in Ranked
    BY <1>1, <1>9, <2>1, ArgMinIsLeast
  <2>3. selected' \in Nat
    BY <1>1, <2>2 DEF Ranked, TypeOK
  <2>4. ~truncated
    <3>1. SUFFICES ASSUME truncated  PROVE FALSE
      OBVIOUS
    <3>2. cands = <<>>
      BY <1>1, <3>1 DEF FamilyInv
    <3>3. Len(plan) = 0
      BY <1>1, <3>2
    <3>. QED  BY <1>1, <1>9, <3>3 DEF TypeOK
  <2>5. SelectedInv'
    <3>1. Ranked' = Ranked /\ ArgMin' = ArgMin
      BY <1>1 DEF Ranked, ArgMin, Measured
    <3>. QED  BY <1>1, <1>9, <2>4, <3>1 DEF SelectedInv
  <2>. QED  BY <1>1, <1>2, <1>4, <1>5, <1>9, <2>3, <2>5 DEF IInv
<1>. QED  BY <1>1, <1>6, <1>7, <1>8, <1>9 DEF Select, TypeOK

\* The invariant above holds of the whole pass, for every spec and every table.
THEOREM CapacityIInv == Spec => []IInv
<1>1. Init => IInv
  BY InitIInv
<1>2. IInv /\ [Next]_vars => IInv'
  <2>. SUFFICES ASSUME IInv, [Next]_vars  PROVE IInv'
    OBVIOUS
  <2>1. CASE Load
    BY <2>1, LoadStep
  <2>2. CASE Scan
    BY <2>2, ScanStep
  <2>3. CASE EndScan
    BY <2>3, EndScanStep
  <2>4. CASE Evict
    BY <2>4, EvictStep
  <2>5. CASE Build
    BY <2>5, BuildStep
  <2>6. CASE Select
    BY <2>6, SelectStep
  <2>7. CASE UNCHANGED vars
    <3>1. UNCHANGED <<q, pc, times, peak, star, pending, cands, truncated, plan, selected>>
      BY <2>7 DEF vars
    <3>2. ScanInv' = ScanInv /\ Loaded' = Loaded /\ Starts' = Starts
      BY <3>1, ScanInvStays
    <3>3. /\ \A n : WithRestores(cands[n])' = WithRestores(cands[n])
          /\ \A k : Enough(k)' = Enough(k) /\ Member(k)' = Member(k) /\ IsIncoming(k)' = IsIncoming(k)
      BY <3>1 DEF WithRestores, Restore, SourceData, RestoreOrdering, DestInvalidation, Enough, Member, Kept, IsIncoming
    <3>4. TypeOK' /\ PlanInv'
      BY <3>1, <3>2, <3>3 DEF IInv, TypeOK, PlanInv
    <3>5. \A S : CandsFor(S) => {Identity(cands[n]) : n \in DOMAIN cands} = {Member(k) : k \in S}
      BY DEF CandsFor
    <3>6. /\ CandsFor(star \ pending) => CandsFor(star \ pending)'
          /\ CandsFor(star) => CandsFor(star)'
      BY <3>1, <3>3 DEF CandsFor
    <3>7. FamilyInv => FamilyInv'
      <4>1. (\E k \in star : ~Enough(k)) => (\E k \in star : ~Enough(k))'
        BY <3>1, <3>3
      <4>. QED  BY <3>1, <3>6, <4>1 DEF FamilyInv
    <3>8. SelectedInv => SelectedInv'
      <4>1. Ranked' = Ranked /\ ArgMin' = ArgMin
        BY <3>1 DEF Ranked, ArgMin, Measured
      <4>. QED  BY <3>1, <4>1 DEF SelectedInv
    <3>. QED  BY <3>1, <3>2, <3>4, <3>6, <3>7, <3>8 DEF IInv, Fresh
  <2>. QED  BY <2>1, <2>2, <2>3, <2>4, <2>5, <2>6, <2>7 DEF Next
<1>. QED  BY <1>1, <1>2, PTL DEF Spec

-----------------------------------------------------------------------------
(* What the invariant says.                                                *)

\* The time of a candidate in the property is the one the ranking compares.
LEMMA IInvSelection == IInv => SelectionIsMeasured
<1>. SUFFICES ASSUME IInv, pc = "done", q.policy = "measured"  PROVE SelectionIsMeasured
  BY DEF SelectionIsMeasured
<1>. DEFINE rows == {q.table[m] : m \in {j \in DOMAIN q.table : q.table[j].scope = "this" /\ q.table[j].good}}
            timesOf(n) == {r.time : r \in {s \in rows : Identity(s) = Identity(plan[n])}}
            timeOf(n) == CHOOSE t \in timesOf(n) : TRUE
            known == {n \in DOMAIN plan : \E s \in rows : Identity(s) = Identity(plan[n])}
<1>1. TypeOK /\ TableOK(q.table) /\ Cardinality(Ranked) >= 2 /\ selected = Min(ArgMin) /\ ~truncated
  BY DEF IInv, SelectedInv
<1>2. Ranked # {}
  BY <1>1, FS_EmptySet
<1>3. \A n : timesOf(n) = Measured(n)
  BY DEF Measured
<1>4. known = Ranked
  <2>1. \A n : Measured(n) # {} <=> \E s \in rows : Identity(s) = Identity(plan[n])
    BY DEF Measured
  <2>. QED  BY <2>1 DEF Ranked
<1>5. ASSUME NEW n \in Ranked  PROVE timeOf(n) = Min(Measured(n))
  <2>1. Measured(n) = {Min(Measured(n))}
    BY <1>1, MeasuredIsOne DEF Ranked
  <2>2. timesOf(n) = {Min(Measured(n))}
    BY <1>3, <2>1
  <2>. HIDE DEF timesOf
  <2>. QED  BY <2>2
<1>6. selected \in Ranked
  BY <1>1, <1>2, ArgMinIsLeast
<1>7. \A n \in known : timeOf(n) > timeOf(selected) \/ (timeOf(n) = timeOf(selected) /\ selected <= n)
  <2>. HIDE DEF timeOf, known
  <2>. QED  BY <1>1, <1>2, <1>4, <1>5, <1>6, ArgMinIsLeast
<1>8. selected \in known /\ Cardinality(known) >= 2
  <2>. HIDE DEF known
  <2>. QED  BY <1>1, <1>4, <1>6
<1>. QED  BY <1>1, <1>7, <1>8, Zenon DEF SelectionIsMeasured

\* rank_measured_capacity never leaves F and never ranks a truncated one, needs
\* two records of this profile and workload, and takes the earliest of the
\* fastest whatever the order of the table.
THEOREM CapacitySelection == Spec => []SelectionIsMeasured
<1>1. Spec => []IInv
  BY CapacityIInv
<1>. QED  BY <1>1, IInvSelection, PTL

\* With distinct objects the window that is looked up is that of the residency.
LEMMA WindowOfDistinct ==
  ASSUME TypeOK, Distinct, NEW k \in DOMAIN q.rs
  PROVE  LiveWindow(q.rs, q.rs[k].object) = <<q.rs[k].start, q.rs[k].end>>
<1>1. {j \in DOMAIN q.rs : q.rs[j].object = q.rs[k].object} = {k}
  BY DEF Distinct
<1>2. k \in Int
  BY DEF TypeOK
<1>3. Max({k}) = k
  BY <1>2 DEF Max
<1>. QED  BY <1>1, <1>3 DEF LiveWindow

\* What is in the plan comes from star, and its windows from the residency.
LEMMA IInvUsable == IInv => UsableCovers
<1>. SUFFICES ASSUME IInv, Distinct, NEW n \in DOMAIN plan, NEW r \in plan[n].restores, r.usable
              PROVE  /\ r.valid
                     /\ \E k \in star :
                          /\ q.rs[k].object = r.object
                          /\ \A t \in q.rs[k].start..(q.rs[k].end - 1) :
                               t \in q.data[r.object].start..(q.data[r.object].end - 1)
                          /\ q.order[r.object].before = q.rs[k].end
  BY DEF UsableCovers
<1>1. TypeOK /\ PlanInv
  BY DEF IInv
<1>2. plan[n] = WithRestores(cands[n]) /\ n \in DOMAIN cands
  BY <1>1 DEF PlanInv, TypeOK
<1>3. PICK o \in cands[n].evict : r = Restore(q, o)
  BY <1>2 DEF WithRestores
<1>4. PICK k \in star : o = q.rs[k].object
  BY <1>1, <1>2, <1>3 DEF PlanInv
<1>5. r.object = o /\ r.valid /\ SourceData(q, o) /\ RestoreOrdering(q, o)
  BY <1>3 DEF Restore
<1>6. k \in DOMAIN q.rs
  BY <1>1 DEF TypeOK
<1>7. LiveWindow(q.rs, o) = <<q.rs[k].start, q.rs[k].end>>
  BY <1>1, <1>4, <1>6, WindowOfDistinct
<1>8. /\ o \in DOMAIN q.data /\ q.data[o].start <= q.rs[k].start /\ q.data[o].end >= q.rs[k].end
      /\ q.order[o].before = q.rs[k].end
  BY <1>5, <1>7 DEF SourceData, RestoreOrdering
<1>9. /\ q.data[o].start \in Int /\ q.data[o].end \in Int
      /\ q.rs[k].start \in Int /\ q.rs[k].end \in Int
  BY <1>1, <1>6, <1>8, Residencies DEF TypeOK
<1>10. \A t \in q.rs[k].start..(q.rs[k].end - 1) : t \in q.data[o].start..(q.data[o].end - 1)
  BY <1>8, <1>9
<1>. QED  BY <1>4, <1>5, <1>8, <1>10

\* A restore that _attach_restores calls usable brings back data that was not
\* changed while the evicted residency was live, before its consumer.
THEOREM CapacityUsable == Spec => []UsableCovers
<1>1. Spec => []IInv
  BY CapacityIInv
<1>. QED  BY <1>1, IInvUsable, PTL

\* To make room is to fit without it.
LEMMA EnoughIsFits ==
  ASSUME TypeOK, Loaded, NEW k \in star
  PROVE  Enough(k) <=> Fits(k)
<1>1. IsFiniteSet(star) /\ \A j \in star : q.rs[j].size \in Nat
  <2>1. star \in SUBSET DOMAIN q.rs /\ IsFiniteSet(DOMAIN q.rs)
    BY Residencies DEF TypeOK
  <2>2. \A j \in DOMAIN q.rs : q.rs[j].size \in Nat
    BY Residencies DEF TypeOK, Loaded
  <2>. QED  BY <2>1, <2>2, FS_Subset
<1>2. LiveSum(q.rs, star \ {k}) = LiveSum(q.rs, star) - q.rs[k].size
  BY <1>1, SumFacts
<1>3. Fits(k) <=> LiveSum(q.rs, star \ {k}) <= q.cap
  BY DEF Fits, LiveSum
<1>. QED  BY <1>2, <1>3 DEF Enough

\* The plan that is complete holds the members of F_capacity.
LEMMA PlannedIsFamily ==
  ASSUME IInv, pc \in {"select", "done"}
  PROVE  {Identity(plan[n]) : n \in DOMAIN plan} = Family
<1>1. TypeOK /\ PlanInv /\ FamilyInv /\ Len(plan) = Len(cands) /\ Loaded
  BY DEF IInv
<1>2. DOMAIN plan = DOMAIN cands
  BY <1>1 DEF TypeOK
<1>3. \A n \in DOMAIN plan : Identity(plan[n]) = Identity(cands[n])
  BY <1>1 DEF PlanInv, WithRestores, Identity
<1>4. {Identity(plan[n]) : n \in DOMAIN plan} = {Identity(cands[n]) : n \in DOMAIN cands}
  BY <1>2, <1>3
<1>5. \A k \in star : Enough(k) <=> Fits(k)
  BY <1>1, EnoughIsFits
<1>6. CASE star = {}
  <2>1. cands = <<[keep |-> Objects(q.rs), evict |-> {}]>>
    BY <1>1, <1>6 DEF FamilyInv
  <2>2. {Identity(cands[n]) : n \in DOMAIN cands} = {<<Objects(q.rs), {}>>}
    BY <2>1 DEF Identity
  <2>. QED  BY <1>4, <1>6, <2>2 DEF Family
<1>7. CASE star # {} /\ truncated
  <2>1. cands = <<>> /\ ~(\A k \in star : Fits(k))
    BY <1>1, <1>5, <1>7 DEF FamilyInv
  <2>2. {Identity(cands[n]) : n \in DOMAIN cands} = {}
    BY <2>1
  <2>. QED  BY <1>4, <1>7, <2>1, <2>2 DEF Family
<1>8. CASE star # {} /\ ~truncated
  <2>1. /\ {Identity(cands[n]) : n \in DOMAIN cands} = {Member(k) : k \in star}
        /\ \A k \in star : Fits(k)
    BY <1>1, <1>5, <1>8 DEF FamilyInv, CandsFor
  <2>2. {Member(k) : k \in star} = Family
    BY <1>8, <2>1 DEF Family, Member, Kept
  <2>. QED  BY <1>4, <2>1, <2>2
<1>. QED  BY <1>6, <1>7, <1>8

\* The scan is over, the candidates are those of star, and the first is the
\* incoming one.
LEMMA IInvFamily == IInv => FamilyIsExact
<1>. SUFFICES ASSUME IInv  PROVE FamilyIsExact
  OBVIOUS
<1>1. TypeOK /\ PlanInv
  BY DEF IInv
<1>2. ASSUME pc \in {"enumerate", "build", "select", "done"}  PROVE ScanIsExact
  <2>1. Loaded /\ ScanInv /\ times = {}
    BY <1>2 DEF IInv
  <2>. QED  BY <1>1, <2>1, ScanDone
<1>3. pc \in {"select", "done"} => {Identity(plan[n]) : n \in DOMAIN plan} = Family
  BY PlannedIsFamily
<1>4. ASSUME pc = "done", q.policy = "s0", Distinct  PROVE S0KeepsWorkingSet
  <2>1. FamilyInv /\ selected = 1 /\ plan # <<>> /\ Len(plan) = Len(cands)
    BY <1>4 DEF IInv
  <2>2. 1 \in DOMAIN plan /\ cands # <<>>
    BY <1>1, <2>1 DEF TypeOK
  <2>3. SUFFICES ASSUME NEW k \in star, q.rs[k].object \in plan[1].evict, NEW j \in star
                 PROVE  q.rs[j].start <= q.rs[k].start
    BY <2>1 DEF S0KeepsWorkingSet
  <2>4. PICK k0 \in star : IsIncoming(k0) /\ cands[1].evict = {q.rs[k0].object}
    BY <2>1, <2>2, <2>3 DEF FamilyInv, CandsFor
  <2>5. plan[1].evict = {q.rs[k0].object}
    BY <1>1, <2>2, <2>4 DEF PlanInv, WithRestores
  <2>6. k = k0 /\ k \in DOMAIN q.rs /\ j \in DOMAIN q.rs
    BY <1>1, <1>4, <2>3, <2>5 DEF Distinct, TypeOK
  <2>7. j = k \/ Newer(q.rs, k, j)
    BY <2>4, <2>6 DEF IsIncoming
  <2>. QED  BY <1>1, <2>6, <2>7, Residencies DEF Newer, TypeOK
<1>. QED  BY <1>2, <1>3, <1>4 DEF FamilyIsExact, Planned

\* _enumerate_capacity looks at start times only, and misses no conflict; its
\* scan, the order of its tries and the checks of _build_capacity_plan yield
\* F_capacity as docs/design define it, and the first member is what s0 names.
THEOREM CapacityFamily == Spec => []FamilyIsExact
<1>1. Spec => []IInv
  BY CapacityIInv
<1>. QED  BY <1>1, IInvFamily, PTL

-----------------------------------------------------------------------------
(* The names of a selection tell its candidate apart, and bind to a         *)
(* rewrite if they are two and one.                                         *)

\* The members of a finite set of numbers, from the least on.
Under(S, o) == {p \in S : p < o}

\* The position of a member in its set says which one it is.
LEMMA Positions ==
  ASSUME NEW S \in SUBSET Int, IsFiniteSet(S)
  PROVE  /\ \A o \in S : Cardinality(Under(S, o)) \in 0..(Cardinality(S) - 1)
         /\ \A o, p \in S : o < p => Cardinality(Under(S, o)) < Cardinality(Under(S, p))
<1>1. \A T \in SUBSET S : /\ IsFiniteSet(T) /\ Cardinality(T) \in Nat
                          /\ Cardinality(T) <= Cardinality(S)
                          /\ Cardinality(S) = Cardinality(T) => S = T
  BY FS_Subset, FS_CardinalityType
<1>2. \A o \in S : Under(S, o) \in SUBSET S /\ o \notin Under(S, o)
  BY DEF Under
<1>3. \A o \in S : Cardinality(Under(S, o)) \in 0..(Cardinality(S) - 1)
  <2>. TAKE o \in S
  <2>1. Cardinality(Under(S, o)) # Cardinality(S)
    BY <1>1, <1>2
  <2>2. Cardinality(S) \in Nat /\ Cardinality(Under(S, o)) \in Nat
        /\ Cardinality(Under(S, o)) <= Cardinality(S)
    BY <1>1, <1>2
  <2>. QED  BY <2>1, <2>2
<1>4. ASSUME NEW o \in S, NEW p \in S, o < p
      PROVE  Cardinality(Under(S, o)) < Cardinality(Under(S, p))
  <2>. o \in Int /\ p \in Int
    OBVIOUS
  <2>1. Under(S, o) \in SUBSET Under(S, p)
    <3>1. ASSUME NEW x \in Under(S, o) PROVE x \in Under(S, p)
      <4>1. x \in S /\ x \in Int /\ x < o
        BY DEF Under
      <4>2. x < p
        BY <1>4, <4>1
      <4>. QED  BY <4>1, <4>2 DEF Under
    <3>. QED  BY <3>1
  <2>2. o \in Under(S, p) /\ o \notin Under(S, o)
    BY <1>2, <1>4 DEF Under
  <2>3. IsFiniteSet(Under(S, p)) /\ Cardinality(Under(S, p)) \in Nat
        /\ Cardinality(Under(S, o)) \in Nat
    BY <1>1, <1>2
  <2>4. /\ Cardinality(Under(S, o)) <= Cardinality(Under(S, p))
        /\ Cardinality(Under(S, p)) = Cardinality(Under(S, o)) => Under(S, p) = Under(S, o)
    BY <2>1, <2>3, FS_Subset
  <2>. QED  BY <2>2, <2>3, <2>4
<1>. QED  BY <1>3, <1>4

\* Nth finds each member, each at one position.
LEMMA NthIsMember ==
  ASSUME NEW S \in SUBSET Int, IsFiniteSet(S)
  PROVE  /\ \A k \in 1..Cardinality(S) : Nth(S, k) \in S
         /\ \A k, l \in 1..Cardinality(S) : Nth(S, k) = Nth(S, l) => k = l
         /\ \A o \in S : \E k \in 1..Cardinality(S) : Nth(S, k) = o
<1>. DEFINE n == Cardinality(S)
            T == 0..(n - 1)
            f == [o \in S |-> Cardinality(Under(S, o))]
<1>1. n \in Nat
  BY FS_CardinalityType
<1>2. IsFiniteSet(T) /\ Cardinality(T) = n
  <2>1. \A a, b \in Int : IsFiniteSet(a..b) /\ Cardinality(a..b) = IF a > b THEN 0 ELSE b - a + 1
    BY FS_Interval
  <2>2. n - 1 \in Int /\ 0 \in Int
    BY <1>1
  <2>3. IsFiniteSet(T) /\ Cardinality(T) = IF 0 > n - 1 THEN 0 ELSE n - 1 - 0 + 1
    BY <2>1, <2>2
  <2>. HIDE DEF T, n
  <2>. QED  BY <1>1, <2>3
<1>3. \A o, p \in S : f[o] = f[p] => o = p
  <2>. SUFFICES ASSUME NEW o \in S, NEW p \in S, f[o] = f[p], o # p PROVE FALSE
    OBVIOUS
  <2>1. o < p \/ p < o
    OBVIOUS
  <2>2. f[o] \in Int /\ f[p] \in Int
    BY Positions
  <2>3. f[o] < f[p] \/ f[p] < f[o]
    BY <2>1, Positions
  <2>. QED  BY <2>2, <2>3
<1>4. f \in Injection(S, T)
  <2>1. f \in [S -> T]
    BY Positions
  <2>. QED  BY <1>3, <2>1 DEF Injection, IsInjective
<1>5. f \in Surjection(S, T)
  BY <1>2, <1>4, FS_Injection
<1>6. \A k \in 1..n : k - 1 \in T
  BY <1>1
<1>7. \A k \in 1..n : Nth(S, k) \in S /\ f[Nth(S, k)] = k - 1
  <2>. TAKE k \in 1..n
  <2>1. \E o \in S : f[o] = k - 1
    BY <1>5, <1>6 DEF Surjection
  <2>2. \E o \in S : Cardinality({p \in S : p < o}) = k - 1
    BY <2>1 DEF Under
  <2>3. Nth(S, k) \in S /\ Cardinality({p \in S : p < Nth(S, k)}) = k - 1
    BY <2>2, Zenon DEF Nth
  <2>. QED  BY <2>3 DEF Under
<1>8. \A o \in S : \E k \in 1..n : Nth(S, k) = o
  <2>. TAKE o \in S
  <2>1. f[o] \in T
    BY <1>4 DEF Injection
  <2>2. f[o] + 1 \in 1..n /\ f[o] \in Int
    BY <1>1, <2>1
  <2>. HIDE DEF f, T, n
  <2>3. \E k \in 1..n : k - 1 = f[o]
    <3>1. f[o] + 1 \in 1..n
      BY <2>2
    <3>. WITNESS f[o] + 1 \in 1..n
    <3>. QED  BY <2>2
  <2>4. PICK k \in 1..n : k - 1 = f[o]
    BY <2>3
  <2>5. Nth(S, k) \in S /\ f[Nth(S, k)] = f[o]
    BY <1>7, <2>4
  <2>. QED  BY <1>3, <2>5
<1>. HIDE DEF f
<1>9. \A k, l \in 1..n : Nth(S, k) = Nth(S, l) => k = l
  <2>. TAKE k, l \in 1..n
  <2>. HAVE Nth(S, k) = Nth(S, l)
  <2>1. k - 1 = l - 1
    BY <1>7
  <2>. QED  BY <1>1, <2>1
<1>. QED  BY <1>7, <1>8, <1>9

\* Objects whose names tell them apart.
NamesApart(N) == \A o, p \in N : ToString(o) # "" /\ (ToString(o) = ToString(p) => o = p)

\* The names of a set are those of its members, one for each.
LEMMA NamesAreOfMembers ==
  ASSUME NEW S \in SUBSET Int, IsFiniteSet(S)
  PROVE  /\ Cardinality(S) \in Nat
         /\ Len(Names(S)) = Cardinality(S)
         /\ DOMAIN Names(S) = 1..Cardinality(S)
         /\ \A k \in 1..Cardinality(S) : Names(S)[k] = ToString(Nth(S, k))
         /\ \A o \in S : \E k \in 1..Cardinality(S) : Names(S)[k] = ToString(o)
<1>. DEFINE n == Cardinality(S)
<1>1. n \in Nat
  BY FS_CardinalityType
<1>2. DOMAIN Names(S) = 1..n /\ \A k \in 1..n : Names(S)[k] = ToString(Nth(S, k))
  BY Zenon DEF Names
<1>3. Len(Names(S)) = n
  <2>. DEFINE v(k) == ToString(Nth(S, k))
  <2>1. Names(S) = [k \in 1..n |-> v(k)]
    BY DEF Names
  <2>. HIDE DEF v, n
  <2>. QED  BY <1>1, <2>1
<1>4. \A o \in S : \E k \in 1..n : Names(S)[k] = ToString(o)
  BY <1>2, NthIsMember
<1>. QED  BY <1>1, <1>2, <1>3, <1>4

\* Sets with the same names are the same.
LEMMA NamesTellApart ==
  ASSUME NEW N \in SUBSET Int, NamesApart(N), NEW S \in SUBSET N, NEW T \in SUBSET N,
         IsFiniteSet(S), IsFiniteSet(T), Names(S) = Names(T)
  PROVE  S = T
<1>1. S \in SUBSET Int /\ T \in SUBSET Int
  OBVIOUS
<1>2. ASSUME NEW A \in SUBSET N, NEW B \in SUBSET N, IsFiniteSet(A), IsFiniteSet(B),
             Names(A) = Names(B), NEW o \in A
      PROVE  o \in B
  <2>. A \in SUBSET Int /\ B \in SUBSET Int
    OBVIOUS
  <2>1. PICK k \in 1..Cardinality(A) : Names(A)[k] = ToString(o)
    BY <1>2, NamesAreOfMembers
  <2>2. 1..Cardinality(A) = 1..Cardinality(B)
    <3>1. DOMAIN Names(A) = 1..Cardinality(A) /\ DOMAIN Names(B) = 1..Cardinality(B)
      BY <1>2, NamesAreOfMembers
    <3>. QED  BY <1>2, <3>1
  <2>3. Names(B)[k] = ToString(Nth(B, k)) /\ Nth(B, k) \in B
    BY <1>2, <2>2, NamesAreOfMembers, NthIsMember
  <2>4. ToString(o) = ToString(Nth(B, k))
    BY <1>2, <2>1, <2>3
  <2>. QED  BY <2>3, <2>4 DEF NamesApart
<1>3. S \subseteq T
  BY <1>2
<1>4. T \subseteq S
  BY <1>2
<1>. QED  BY <1>3, <1>4

\* A candidate or a measured row whose objects are among N.
IsNamed(c, N) ==
  /\ c.keep \in SUBSET N /\ IsFiniteSet(c.keep)
  /\ c.evict \in SUBSET N /\ IsFiniteSet(c.evict)

\* Among named objects a selection says which candidate it is of.
LEMMA SelectionsTellApart ==
  ASSUME NEW N \in SUBSET Int, NamesApart(N), NEW c, NEW d, IsNamed(c, N), IsNamed(d, N)
  PROVE  SelectionOf(c) = SelectionOf(d) <=> Identity(c) = Identity(d)
<1>1. ASSUME Identity(c) = Identity(d) PROVE SelectionOf(c) = SelectionOf(d)
  <2>1. c.keep = d.keep /\ c.evict = d.evict
    BY <1>1 DEF Identity
  <2>. QED  BY <2>1, Zenon DEF SelectionOf
<1>2. ASSUME SelectionOf(c) = SelectionOf(d) PROVE Identity(c) = Identity(d)
  <2>1. Names(c.keep) = Names(d.keep) /\ Names(c.evict) = Names(d.evict)
    BY <1>2 DEF SelectionOf, Selection
  <2>2. c.keep = d.keep /\ c.evict = d.evict
    BY <2>1, NamesTellApart DEF IsNamed
  <2>. QED  BY <2>2 DEF Identity
<1>. QED  BY <1>1, <1>2

\* Three different names are three.
LEMMA ThreeElements ==
  ASSUME NEW a, NEW b, NEW e, a # b, a # e, b # e
  PROVE  Cardinality({a, b, e}) = 3
<1>. DEFINE A == {a}
            B == A \cup {b}
            C == B \cup {e}
<1>1. IsFiniteSet(A) /\ Cardinality(A) = 1
  BY FS_Singleton
<1>2. b \notin A
  OBVIOUS
<1>3. IsFiniteSet(B) /\ Cardinality(B) = 2
  <2>. HIDE DEF A
  <2>. QED  BY <1>1, <1>2, FS_AddElement
<1>4. e \notin B
  OBVIOUS
<1>5. Cardinality(C) = 3
  <2>. HIDE DEF B
  <2>. QED  BY <1>3, <1>4, FS_AddElement
<1>6. C = {a, b, e}
  OBVIOUS
<1>. QED  BY <1>5, <1>6

\* The names of two disjoint sets are as many as their objects, and none is "".
LEMMA SelectionBinds ==
  ASSUME NEW N \in SUBSET Int, NamesApart(N), NEW c, IsNamed(c, N), c.keep \cap c.evict = {}
  PROVE  Bindable(SelectionOf(c)) <=> Cardinality(c.keep) = 2 /\ Cardinality(c.evict) = 1
<1>. DEFINE s == Names(c.keep)
            t == Names(c.evict)
<1>. c.keep \in SUBSET Int /\ c.evict \in SUBSET Int
  BY DEF IsNamed
<1>1. /\ SelectionOf(c).keep = s /\ SelectionOf(c).evict = t /\ SelectionOf(c).remat = <<>>
      /\ Len(s) = Cardinality(c.keep) /\ Len(t) = Cardinality(c.evict)
  BY NamesAreOfMembers DEF SelectionOf, Selection, IsNamed
<1>2. ASSUME Cardinality(c.keep) = 2, Cardinality(c.evict) = 1
      PROVE  Bindable(SelectionOf(c))
  <2>1. /\ \A k \in 1..2 : Nth(c.keep, k) \in c.keep /\ s[k] = ToString(Nth(c.keep, k))
        /\ \A k, l \in 1..2 : Nth(c.keep, k) = Nth(c.keep, l) => k = l
        /\ Nth(c.evict, 1) \in c.evict /\ t[1] = ToString(Nth(c.evict, 1))
        /\ DOMAIN s = 1..2 /\ DOMAIN t = 1..1
    <3>1. IsFiniteSet(c.keep) /\ IsFiniteSet(c.evict)
      BY DEF IsNamed
    <3>2. /\ \A k \in 1..2 : Nth(c.keep, k) \in c.keep
          /\ \A k, l \in 1..2 : Nth(c.keep, k) = Nth(c.keep, l) => k = l
      BY <1>2, <3>1, NthIsMember
    <3>3. DOMAIN s = 1..2 /\ \A k \in 1..2 : s[k] = ToString(Nth(c.keep, k))
      BY <1>2, <3>1, NamesAreOfMembers
    <3>4. /\ \A k \in 1..1 : Nth(c.evict, k) \in c.evict
          /\ DOMAIN t = 1..1 /\ \A k \in 1..1 : t[k] = ToString(Nth(c.evict, k))
      BY <1>2, <3>1, NamesAreOfMembers, NthIsMember
    <3>. QED  BY <3>2, <3>3, <3>4
  <2>. DEFINE a == ToString(Nth(c.keep, 1))
              b == ToString(Nth(c.keep, 2))
              e == ToString(Nth(c.evict, 1))
              M == {a, b, e}
  <2>2. Nth(c.keep, 1) \in N /\ Nth(c.keep, 2) \in N /\ Nth(c.evict, 1) \in N
    BY <2>1 DEF IsNamed
  <2>3. /\ Nth(c.keep, 1) # Nth(c.keep, 2)
        /\ Nth(c.keep, 1) # Nth(c.evict, 1) /\ Nth(c.keep, 2) # Nth(c.evict, 1)
    BY <2>1
  <2>4. a # b /\ a # e /\ b # e /\ a # "" /\ b # "" /\ e # ""
    BY <2>2, <2>3 DEF NamesApart
  <2>5. s \in Seq(M) /\ t \in Seq(M)
    <3>1. s = [k \in 1..2 |-> ToString(Nth(c.keep, k))] /\ t = [k \in 1..1 |-> ToString(Nth(c.evict, k))]
      BY <1>2, Zenon DEF Names
    <3>2. \A k \in 1..2 : ToString(Nth(c.keep, k)) \in M
      OBVIOUS
    <3>3. \A k \in 1..1 : ToString(Nth(c.evict, k)) \in M
      OBVIOUS
    <3>. HIDE DEF M
    <3>. QED  BY <3>1, <3>2, <3>3
  <2>. HIDE DEF M, a, b, e, s, t
  <2>6. /\ s \o t \in Seq(M) /\ Len(s \o t) = 3
        /\ (s \o t)[1] = s[1] /\ (s \o t)[2] = s[2] /\ (s \o t)[3] = t[1]
    <3>1. /\ s \o t \in Seq(M) /\ Len(s \o t) = Len(s) + Len(t)
          /\ \A i \in 1..Len(s) + Len(t) :
               (s \o t)[i] = IF i <= Len(s) THEN s[i] ELSE t[i - Len(s)]
      BY <2>5, ConcatProperties
    <3>2. Len(s) = 2 /\ Len(t) = 1
      BY <1>1, <1>2
    <3>. QED  BY <3>1, <3>2
  <2>7. ToSet(s \o t) = M
    <3>1. DOMAIN (s \o t) = {1, 2, 3}
      BY <2>6
    <3>2. ToSet(s \o t) = {(s \o t)[1], (s \o t)[2], (s \o t)[3]}
      BY <3>1 DEF ToSet
    <3>. QED  BY <2>1, <2>6, <3>2 DEF M, a, b, e
  <2>8. s \o t \o <<>> = s \o t
    BY <2>6, ConcatEmptySeq
  <2>9. Cardinality(M) = 3 /\ "" \notin M
    <3>1. Cardinality(M) = 3
      BY <2>4, ThreeElements DEF M
    <3>. QED  BY <2>4, <3>1 DEF M
  <2>. QED  BY <1>1, <1>2, <2>7, <2>8, <2>9 DEF Bindable, Parsed
<1>3. ASSUME Bindable(SelectionOf(c))
      PROVE  Cardinality(c.keep) = 2 /\ Cardinality(c.evict) = 1
  BY <1>1, <1>3 DEF Bindable
<1>. QED  BY <1>2, <1>3

-----------------------------------------------------------------------------
(* What the evaluator reads from the four claims of a candidate, and what   *)
(* the way from the optimum to a bound plan asks of its selection.          *)

\* The four claims of a candidate as the evaluator reads them.
ClaimsOf(c) ==
  [k \in 1..4 |-> Record(RequiredPredicates[k], CapacityClaim(c, RequiredPredicates[k]),
                         <<SelectionOf(c), OBJECT_2>>, "")]

\* The four claims are about four subjects.
LEMMA FourPredicates ==
  /\ Predicates = {"usable", "restore-ordering", "dest-invalidation", "capacity-legal"}
  /\ \A k \in 1..4 : RequiredPredicates[k] \in Predicates
  /\ \A s \in Predicates : s # NoSubject /\ \E k \in 1..4 : RequiredPredicates[k] = s
  /\ \A k, l \in 1..4 : RequiredPredicates[k] = RequiredPredicates[l] => k = l
<1>1. DOMAIN RequiredPredicates = 1..4
  BY DEF RequiredPredicates
<1>2. Predicates = {RequiredPredicates[k] : k \in 1..4}
  BY <1>1, Zenon DEF Predicates, ToSet
<1>3. /\ RequiredPredicates[1] = "usable" /\ RequiredPredicates[2] = "restore-ordering"
      /\ RequiredPredicates[3] = "dest-invalidation" /\ RequiredPredicates[4] = "capacity-legal"
  BY DEF RequiredPredicates
<1>4. \A k \in 1..4 : k = 1 \/ k = 2 \/ k = 3 \/ k = 4
  OBVIOUS
<1>5. 1 \in 1..4 /\ 2 \in 1..4 /\ 3 \in 1..4 /\ 4 \in 1..4
  OBVIOUS
<1>6. Predicates = {"usable", "restore-ordering", "dest-invalidation", "capacity-legal"}
  BY <1>2, <1>3, <1>4, <1>5
<1>7. \A k, l \in 1..4 : RequiredPredicates[k] = RequiredPredicates[l] => k = l
  BY <1>3, <1>4
<1>8. \A s \in Predicates : s # NoSubject
  BY <1>6 DEF NoSubject
<1>. QED  BY <1>2, <1>6, <1>7, <1>8

\* A scope of two is compared in full.
LEMMA PairIsWhole ==
  ASSUME NEW x, NEW y
  PROVE  Len(<<x, y>>) = 2 /\ SubSeq(<<x, y>>, 1, 2) = <<x, y>>
<1>. DEFINE S == {x, y}
            s == <<x, y>>
            t == SubSeq(s, 1, 2)
<1>1. s \in Seq(S) /\ Len(s) = 2
  OBVIOUS
<1>. HIDE DEF S, s
<1>2. t \in Seq(S) /\ Len(t) = 2 /\ t[1] = s[1] /\ t[2] = s[2]
  BY <1>1
<1>3. t = s
  BY <1>1, <1>2
<1>. QED  BY <1>1, <1>3 DEF s

\* Each predicate is claimed once, for the candidate, with what its restores say.
LEMMA ClaimsAreRead ==
  ASSUME NEW c
  PROVE  /\ Stops(ClaimsOf(c), Predicates) = {}
         /\ \A s \in Predicates :
              /\ Given(ClaimsOf(c), s)
              /\ The(ClaimsOf(c), s).result = CapacityClaim(c, s)
              /\ ScopeOf(The(ClaimsOf(c), s), 2) = <<SelectionOf(c), OBJECT_2>>
<1>. DEFINE bag == ClaimsOf(c)
            scope == <<SelectionOf(c), OBJECT_2>>
<1>1. /\ DOMAIN bag = 1..4
      /\ \A k \in 1..4 : /\ bag[k].subject = RequiredPredicates[k]
                         /\ bag[k].result = CapacityClaim(c, RequiredPredicates[k])
                         /\ bag[k].scope = scope
  BY Zenon DEF ClaimsOf, Record
<1>. HIDE DEF bag
<1>2. Stops(bag, Predicates) = {}
  <2>1. ASSUME NEW i \in 1..4 PROVE bag[i].subject # NoSubject /\ ~Repeats(bag, i, Predicates)
    <3>1. bag[i].subject # NoSubject
      BY <1>1, FourPredicates
    <3>2. ASSUME NEW j \in 1..(i - 1) PROVE bag[j].subject # bag[i].subject
      <4>1. j \in 1..4 /\ j # i
        OBVIOUS
      <4>. QED  BY <1>1, <4>1, FourPredicates
    <3>. QED  BY <3>1, <3>2 DEF Repeats
  <2>. QED  BY <1>1, <2>1 DEF Stops
<1>3. ASSUME NEW s \in Predicates
      PROVE  /\ Given(bag, s)
             /\ The(bag, s).result = CapacityClaim(c, s)
             /\ ScopeOf(The(bag, s), 2) = scope
  <2>1. PICK k \in 1..4 : RequiredPredicates[k] = s
    BY FourPredicates
  <2>2. \A i \in DOMAIN bag : bag[i].subject = s <=> i = k
    BY <1>1, <2>1, FourPredicates
  <2>3. The(bag, s) = bag[k]
    BY <1>1, <2>2 DEF The
  <2>4. Given(bag, s)
    BY <1>1, <2>2 DEF Given
  <2>5. ScopeOf(bag[k], 2) = scope
    <3>1. bag[k].scope = scope /\ Len(scope) = 2 /\ SubSeq(scope, 1, 2) = scope
      BY <1>1, PairIsWhole
    <3>. QED  BY <3>1 DEF ScopeOf
  <2>. QED  BY <1>1, <2>1, <2>3, <2>4, <2>5
<1>. QED  BY <1>2, <1>3 DEF bag

\* A candidate is eligible if it evicts, has a restore for each object that it
\* evicts, and each of them is usable, in order, and its stale copy is dropped.
LEMMA EligibleIsShown ==
  ASSUME NEW c, \A r \in c.restores : /\ r.usable \in BOOLEAN /\ r.restoreOrdering \in BOOLEAN
                                      /\ r.destInvalidation \in BOOLEAN
  PROVE  Eligible(c) <=>
           /\ Shaped(c) /\ c.evict # {}
           /\ \A r \in c.restores : r.usable /\ r.restoreOrdering /\ r.destInvalidation
<1>. DEFINE bag == ClaimsOf(c)
            scope == <<SelectionOf(c), OBJECT_2>>
<1>1. CapacitySufficiency(c).decision = SufficiencyDecision(bag, scope)
  BY DEF CapacitySufficiency, EvaluateSufficiency, ClaimsOf
<1>2. Eligible(c) <=> PredicatesHold(bag)
  <2>. HIDE DEF bag
  <2>1. ~(\E s \in Predicates : Given(bag, s) /\ ScopeOf(The(bag, s), 2) # scope)
    BY ClaimsAreRead DEF bag
  <2>2. Stops(bag, Predicates) = {}
    BY ClaimsAreRead DEF bag
  <2>3. PredicatesHold(bag) => SufficiencyDecision(bag, scope).result = "yes"
    BY <2>1, <2>2 DEF SufficiencyDecision, Decision
  <2>4. ~PredicatesHold(bag) => SufficiencyDecision(bag, scope).result = "no"
    BY <2>1, <2>2, Zenon DEF SufficiencyDecision, Decision
  <2>. QED  BY <1>1, <2>3, <2>4 DEF Eligible
<1>3. PredicatesHold(bag) <=> \A s \in Predicates : CapacityClaim(c, s) = "yes"
  BY ClaimsAreRead, Zenon DEF PredicatesHold
<1>4. \A s \in {"usable", "restore-ordering", "dest-invalidation"} :
        CapacityClaim(c, s) = "yes" <=>
          Shaped(c) /\ c.evict # {} /\ \A r \in c.restores : Shows(r, s)
  BY DEF CapacityClaim
<1>5. CapacityClaim(c, "capacity-legal") = "yes"
  BY DEF CapacityClaim
<1>6. \A r \in c.restores : /\ Shows(r, "usable") <=> r.usable
                            /\ Shows(r, "restore-ordering") <=> r.restoreOrdering
                            /\ Shows(r, "dest-invalidation") <=> r.destInvalidation
  BY Zenon DEF Shows
<1>7. (\A s \in Predicates : CapacityClaim(c, s) = "yes") <=>
        \A s \in {"usable", "restore-ordering", "dest-invalidation"} : CapacityClaim(c, s) = "yes"
  BY <1>5, FourPredicates, Zenon
<1>8. (\A s \in {"usable", "restore-ordering", "dest-invalidation"} : CapacityClaim(c, s) = "yes") <=>
        /\ Shaped(c) /\ c.evict # {}
        /\ \A r \in c.restores : /\ Shows(r, "usable") /\ Shows(r, "restore-ordering")
                                 /\ Shows(r, "dest-invalidation")
  BY <1>4, Zenon
<1>. QED  BY <1>2, <1>3, <1>6, <1>7, <1>8, Zenon

\* A licence scope is the scope it is for, and one more.
LEMMA AppendKeeps ==
  ASSUME NEW S, NEW s \in Seq(S), NEW w \in S
  PROVE  Append(s, w) \in Seq(S) /\ \A i \in 1..Len(s) : Append(s, w)[i] = s[i]
OBVIOUS

\* The first three of a longer list.
LEMMA FirstThree ==
  ASSUME NEW S, NEW s \in Seq(S), NEW l \in Seq(S), Len(s) = 3, \A i \in 1..3 : l[i] = s[i]
  PROVE  SubSeq(l, 1, 3) = s
<1>. DEFINE t == SubSeq(l, 1, 3)
<1>1. \A i \in 1..3 : l[i] \in S
  <2>1. \A i \in 1..Len(s) : s[i] \in S
    BY ElementOfSeq
  <2>. QED  BY <2>1
<1>2. /\ t \in Seq(S) /\ Len(t) = IF 1 <= 3 THEN 3 - 1 + 1 ELSE 0
      /\ \A i \in 1..(3 - 1 + 1) : t[i] = l[1 + i - 1]
  BY <1>1, SubSeqProperties
<1>. HIDE DEF t
<1>3. Len(t) = 3 /\ \A i \in 1..3 : t[i] = l[i]
  BY <1>2
<1>4. t = s
  BY <1>2, <1>3
<1>. QED  BY <1>4 DEF t

\* So the scope of a strategy is read back from its licence.
LEMMA TripleIsWhole ==
  ASSUME NEW x, NEW y, NEW z, NEW w
  PROVE  /\ Len(<<x, y, z>>) = 3
         /\ SubSeq(Append(<<x, y, z>>, w), 1, 3) = <<x, y, z>>
         /\ Append(<<x, y, z>>, w)[1] = x
<1>. DEFINE S == {x, y, z, w}
            s == <<x, y, z>>
            l == Append(s, w)
<1>1. s \in Seq(S) /\ Len(s) = 3 /\ w \in S
  OBVIOUS
<1>. HIDE DEF S
<1>2. l \in Seq(S) /\ \A i \in 1..3 : l[i] = s[i]
  <2>. HIDE DEF s
  <2>. QED  BY <1>1, AppendKeeps
<1>3. SubSeq(l, 1, 3) = s
  <2>. HIDE DEF s, l
  <2>. QED  BY <1>1, <1>2, FirstThree
<1>. QED  BY <1>1, <1>2, <1>3

\* What the optimum licenses is open to a plan; it is bound if its names bind.
LEMMA OptimumBinds ==
  ASSUME NEW row, NEW x, NEW y, NEW z, row.scope = <<x, y, z>>
  PROVE  OptimumPlan(row).plan.result = "yes" <=> Bindable(x)
<1>. DEFINE e == OptimumEnvelope(row)
            expect == LicenseScope(row.scope)
            made == EvaluateRewrite(<<e>>, expect)
<1>1. SubSeq(expect, 1, 3) = row.scope /\ expect[1] = x
  BY TripleIsWhole DEF LicenseScope
<1>. HIDE DEF expect
<1>2. /\ e.schema = "authorization" /\ e.source = "decision" /\ e.wellFormed = TRUE
      /\ e.scope = row.scope /\ e.licenseScope = expect /\ e.own = <<>>
      /\ e.license.result = "yes" /\ e.authorized.result = "yes"
      /\ "schema" \in DOMAIN e
  BY DEF OptimumEnvelope, AuthorizationEnvelope, Decision, expect
<1>. HIDE DEF e
<1>3. LicensedFor(e, expect)
  BY <1>1, <1>2 DEF LicensedFor, Malformed, OwnDiffers
<1>4. RewriteDecision(<<e>>, expect).result = "yes"
  <2>1. DOMAIN <<e>> = {1} /\ <<e>>[1] = e
    OBVIOUS
  <2>2. IsEnvelope(e) /\ ~Nameless(e) /\ ~ClaimsSequence(e)
    BY <1>2 DEF IsEnvelope, Nameless, ClaimsSequence
  <2>3. Envelopes(<<e>>) = {1} /\ Sequences(<<e>>) = {}
    BY <2>1, <2>2 DEF Envelopes, Sequences
  <2>4. One(<<e>>, Envelopes(<<e>>)) = e
    BY <2>1, <2>3 DEF One
  <2>5. Cardinality({1}) = 1 /\ Cardinality({}) = 0
    BY FS_Singleton, FS_EmptySet
  <2>6. /\ ~(\E i \in DOMAIN <<e>> : Nameless(<<e>>[i]))
        /\ Envelopes(<<e>>) # {} /\ ~(Cardinality(Envelopes(<<e>>)) > 1)
        /\ ~(Cardinality(Sequences(<<e>>)) > 1)
        /\ ~(\E i \in Sequences(<<e>>) : <<e>>[i].claim # SEQUENCE_V01)
    BY <2>1, <2>2, <2>3, <2>5
  <2>. QED  BY <1>3, <2>4, <2>6, Zenon DEF RewriteDecision, Decision
<1>5. made.scope = expect /\ made.plan.result = "yes"
  BY <1>4 DEF EvaluateRewrite, RewriteEnvelope
<1>6. OptimumPlan(row) = BindRewritePlan(made)
  BY DEF OptimumPlan, e, expect
<1>. HIDE DEF made
<1>7. CASE Bindable(x)
  <2>1. BindRewritePlan(made) = [made EXCEPT !.sequence = BoundSequence(made.scope[1])]
    BY <1>1, <1>5, <1>7 DEF BindRewritePlan
  <2>. QED  BY <1>5, <1>6, <1>7, <2>1
<1>8. CASE ~Bindable(x)
  <2>1. BindRewritePlan(made) =
          [made EXCEPT !.plan = No("rewrite.sequence-mismatch"),
                       !.sequence = NoSteps, !.transformation = "n/a"]
    BY <1>1, <1>5, <1>8 DEF BindRewritePlan
  <2>2. "plan" \in DOMAIN made /\ DOMAIN made = DOMAIN made
    BY DEF made, EvaluateRewrite, RewriteEnvelope
  <2>3. BindRewritePlan(made).plan = No("rewrite.sequence-mismatch")
    BY <2>1, <2>2
  <2>. QED  BY <1>6, <1>8, <2>3 DEF No, Decision
<1>. QED  BY <1>7, <1>8

-----------------------------------------------------------------------------
(* The invariant of the hand-off: what the plan names can be told apart.    *)

\* What an input names is finite and told apart by its names; the plan names
\* objects of the spec, each kept or evicted, and no candidate twice.
Distinguished ==
  /\ \A m \in DOMAIN q.table : IsFiniteSet(q.table[m].keep) /\ IsFiniteSet(q.table[m].evict)
  /\ Named(q) \subseteq Int /\ NamesApart(Named(q))
PlanIsSet ==
  /\ \A n \in DOMAIN plan : /\ plan[n].keep \cup plan[n].evict \subseteq Objects(q.rs)
                            /\ plan[n].keep \cap plan[n].evict = {}
  /\ \A m, n \in DOMAIN plan : Identity(plan[m]) = Identity(plan[n]) => m = n
HandInv == Distinguished /\ PlanIsSet

\* Each input names its objects apart, and nothing is planned.
LEMMA InitHandInv == Init => HandInv
<1>. SUFFICES ASSUME Init  PROVE HandInv
  OBVIOUS
<1>1. q \in Inputs /\ plan = <<>>
  BY DEF Init
<1>2. Distinguished
  BY <1>1, ObjectsAreNamed DEF Distinguished, NamesApart
<1>3. PlanIsSet
  BY <1>1 DEF PlanIsSet
<1>. QED  BY <1>2, <1>3 DEF HandInv

\* A budget overrides the capacity and the space, not what is named.
LEMMA LoadKeepsNames == IInv /\ Load => q'.rs = q.rs /\ q'.table = q.table
<1>. SUFFICES ASSUME IInv, Load  PROVE q'.rs = q.rs /\ q'.table = q.table
  OBVIOUS
<1>1. q \in Inputs /\ (q' = q \/ q' = Constrained(q))
  BY DEF IInv, Load
<1>2. CASE q' = Constrained(q) /\ q.budget # {}
  <2>. DEFINE b == CHOOSE x \in q.budget : TRUE
  <2>1. q' = [q EXCEPT !.cap = b.cap, !.space = b.space]
    BY <1>2 DEF Constrained
  <2>2. DOMAIN q = {"rs", "cap", "space", "budget", "sources", "data", "order", "drop",
                    "policy", "table"}
    BY <1>1, InputsAssumption
  <2>. HIDE DEF b
  <2>. QED  BY <2>1, <2>2
<1>. QED  BY <1>1, <1>2 DEF Constrained

\* The checks of _build_capacity_plan are what keeps the plan a set.
LEMMA BuildKeepsSet == IInv /\ PlanIsSet /\ Build => PlanIsSet'
<1>. SUFFICES ASSUME IInv, PlanIsSet, Build  PROVE PlanIsSet'
  OBVIOUS
<1>. DEFINE c == cands[Len(plan) + 1]
            S == {WithRestores(cands[n]) : n \in DOMAIN cands}
<1>1. TypeOK /\ UNCHANGED <<q, cands>> /\ pc = "build" /\ Len(plan) < Len(cands)
  BY DEF IInv, Build
<1>2. CASE plan' = plan
  BY <1>1, <1>2 DEF PlanIsSet
<1>3. CASE /\ plan' = Append(plan, WithRestores(c))
           /\ c.keep \cup c.evict \subseteq Objects(q.rs) /\ c.keep \cap c.evict = {}
           /\ ~(\E n \in DOMAIN plan : Identity(plan[n]) = Identity(c))
  <2>1. plan \in Seq(S) /\ WithRestores(c) \in S
    <3>1. Len(plan) + 1 \in DOMAIN cands
      BY <1>1 DEF TypeOK
    <3>. QED  BY <1>1, <3>1 DEF TypeOK
  <2>2. /\ Len(plan) \in Nat
        /\ DOMAIN plan' = 1..(Len(plan) + 1) /\ DOMAIN plan = 1..Len(plan)
        /\ \A n \in 1..Len(plan) : plan'[n] = plan[n]
        /\ plan'[Len(plan) + 1] = WithRestores(c)
    <3>. HIDE DEF S, c
    <3>. QED  BY <1>3, <2>1
  <2>3. \A n \in DOMAIN plan' : n \in DOMAIN plan \/ n = Len(plan) + 1
    BY <2>2
  <2>4. /\ WithRestores(c).keep = c.keep /\ WithRestores(c).evict = c.evict
        /\ Identity(WithRestores(c)) = Identity(c)
    BY DEF WithRestores, Identity
  <2>. HIDE DEF S, c
  <2>5. \A n \in DOMAIN plan' : /\ plan'[n].keep \cup plan'[n].evict \subseteq Objects(q.rs)
                                /\ plan'[n].keep \cap plan'[n].evict = {}
    BY <1>3, <2>2, <2>3, <2>4 DEF PlanIsSet
  <2>6. \A m, n \in DOMAIN plan' : Identity(plan'[m]) = Identity(plan'[n]) => m = n
    BY <1>3, <2>2, <2>3, <2>4 DEF PlanIsSet
  <2>. QED  BY <1>1, <2>5, <2>6 DEF PlanIsSet
<1>. QED  BY <1>2, <1>3 DEF Build, WithRestores

\* Only Build changes the plan, and no step changes what is named.
LEMMA NextHandInv == IInv /\ HandInv /\ [Next]_vars => HandInv'
<1>. SUFFICES ASSUME IInv, HandInv, [Next]_vars  PROVE HandInv'
  OBVIOUS
<1>1. q'.rs = q.rs /\ q'.table = q.table
  BY LoadKeepsNames DEF Next, Scan, EndScan, Evict, Build, Select, vars
<1>2. Distinguished'
  <2>1. Named(q') = Named(q)
    BY <1>1 DEF Named, Objects
  <2>. QED  BY <1>1, <2>1 DEF HandInv, Distinguished
<1>3. PlanIsSet'
  <2>1. CASE Build
    BY <2>1, BuildKeepsSet DEF HandInv
  <2>2. CASE plan' = plan
    BY <1>1, <2>2 DEF HandInv, PlanIsSet, Objects
  <2>. QED  BY <2>1, <2>2 DEF Next, Load, Scan, EndScan, Evict, Select, vars
<1>. QED  BY <1>2, <1>3 DEF HandInv

\* What the plan names is told apart, in every state.
THEOREM CapacityHandInv == Spec => []HandInv
<1>1. Init => HandInv
  BY InitHandInv
<1>2. Spec => []IInv
  BY CapacityIInv
<1>3. IInv /\ HandInv /\ [Next]_vars => HandInv'
  BY NextHandInv
<1>. QED  BY <1>1, <1>2, <1>3, PTL DEF Spec

-----------------------------------------------------------------------------
(* How the program ends.                                                    *)

\* A spec that was loaded stays loaded; unless an object is live twice, no two
\* candidates evict the same one; and the outcome is the one promised.
EvictedApart ==
  ~LiveTwice => \A m, n \in DOMAIN cands : cands[m].evict = cands[n].evict => m = n
EndInv ==
  /\ pc \notin {"load", "failed"} => SpecOK(q) /\ BudgetOK(q)
  /\ pc \in {"enumerate", "build"} => EvictedApart
  /\ Final => Outcome

LEMMA FitsIsSum == \A k : Fits(k) <=> LiveSum(q.rs, star \ {k}) <= q.cap
BY DEF Fits, LiveSum

LEMMA FitsIsSumNext == (\A k : Fits(k) <=> LiveSum(q.rs, star \ {k}) <= q.cap)'
BY FitsIsSum, PTL

\* What is refused depends on the input and on the conflict only.
LEMMA RefusedStays ==
  ASSUME UNCHANGED <<q, star>>
  PROVE  /\ Overflows' <=> Overflows
         /\ LiveTwice' <=> LiveTwice
         /\ Refused' <=> Refused
<1>1. ASSUME NEW k PROVE Fits(k)' <=> Fits(k)
  <2>1. Fits(k) <=> LiveSum(q.rs, star \ {k}) <= q.cap
    BY FitsIsSum
  <2>2. Fits(k)' <=> LiveSum(q'.rs, star' \ {k}) <= q'.cap
    BY FitsIsSumNext
  <2>3. q' = q /\ star' = star
    OBVIOUS
  <2>. QED  BY <2>1, <2>2, <2>3, Zenon
<1>2. Overflows' <=> Overflows
  BY <1>1, Zenon DEF Overflows
<1>3. LiveTwice' <=> LiveTwice
  BY DEF LiveTwice
<1>4. Family' = Family
  <2>1. (\A k \in star : Fits(k))' <=> (\A k \in star : Fits(k))
    BY <1>1, Zenon
  <2>. QED  BY <2>1 DEF Family
<1>5. MeasuredMembers' = MeasuredMembers
  BY <1>4 DEF MeasuredMembers
<1>. QED  BY <1>2, <1>3, <1>5 DEF Refused

\* The enumeration was given up exactly where one eviction is not enough.
LEMMA TruncatedIsOverflow ==
  ASSUME IInv, pc \in {"build", "select", "done"}
  PROVE  /\ truncated <=> Overflows
         /\ truncated <=> cands = <<>>
<1>1. TypeOK /\ Loaded /\ FamilyInv
  BY DEF IInv
<1>2. \A k \in star : Enough(k) <=> Fits(k)
  BY <1>1, EnoughIsFits
<1>3. CASE star = {}
  <2>1. cands = <<[keep |-> Objects(q.rs), evict |-> {}]>> /\ ~truncated
    BY <1>1, <1>3 DEF FamilyInv
  <2>. QED  BY <1>3, <2>1 DEF Overflows
<1>4. CASE star # {} /\ truncated
  BY <1>1, <1>2, <1>4 DEF FamilyInv, Overflows
<1>5. CASE star # {} /\ ~truncated
  BY <1>1, <1>2, <1>5 DEF FamilyInv, CandsFor, Overflows
<1>. QED  BY <1>3, <1>4, <1>5

\* The checks of _build_capacity_plan let no complete plan keep what it evicts.
LEMMA CompleteIsLiveOnce ==
  ASSUME IInv, PlanIsSet, pc = "select", ~truncated
  PROVE  ~LiveTwice
<1>1. TypeOK /\ PlanInv /\ FamilyInv /\ Len(plan) = Len(cands)
  BY DEF IInv
<1>. SUFFICES ASSUME NEW j \in star, NEW k \in star, j # k, q.rs[j].object = q.rs[k].object
              PROVE  FALSE
  BY DEF LiveTwice
<1>2. {Identity(cands[n]) : n \in DOMAIN cands} = {Member(i) : i \in star}
  BY <1>1 DEF FamilyInv, CandsFor
<1>3. PICK n \in DOMAIN cands : Identity(cands[n]) = Member(k)
  BY <1>2
<1>4. n \in DOMAIN plan
  BY <1>1, <1>3 DEF TypeOK
<1>5. plan[n].keep = Kept(k) /\ plan[n].evict = {q.rs[k].object}
  BY <1>1, <1>3, <1>4 DEF PlanInv, WithRestores, Identity, Member
<1>6. q.rs[k].object \in Kept(k)
  BY DEF Kept
<1>. QED  BY <1>4, <1>5, <1>6 DEF PlanIsSet

\* The ranking counts the members of the family that were measured.
LEMMA RankedAreMembers ==
  ASSUME IInv, PlanIsSet, pc = "select"
  PROVE  /\ Cardinality(MeasuredMembers) = Cardinality(Ranked)
         /\ Cardinality(Ranked) \in Nat
<1>. DEFINE f == [n \in Ranked |-> Identity(plan[n])]
            Has(id) == \E m \in DOMAIN q.table :
              q.table[m].scope = "this" /\ q.table[m].good /\ Identity(q.table[m]) = id
<1>1. IsFiniteSet(Ranked)
  <2>1. Len(plan) \in Nat /\ DOMAIN plan = 1..Len(plan)
    BY DEF IInv, TypeOK
  <2>2. IsFiniteSet(1..Len(plan)) /\ Ranked \in SUBSET (1..Len(plan))
    BY <2>1, FS_Interval DEF Ranked
  <2>. QED  BY <2>2, FS_Subset
<1>2. {Identity(plan[n]) : n \in DOMAIN plan} = Family
  BY PlannedIsFamily
<1>3. \A n : Measured(n) # {} <=> Has(Identity(plan[n]))
  BY DEF Measured
<1>4. MeasuredMembers = {id \in Family : Has(id)}
  BY DEF MeasuredMembers
<1>5. Ranked = {n \in DOMAIN plan : Has(Identity(plan[n]))}
  BY <1>3 DEF Ranked
<1>6. MeasuredMembers = {Identity(plan[n]) : n \in Ranked}
  <2>. HIDE DEF Has
  <2>. QED  BY <1>2, <1>4, <1>5
<1>7. f \in Bijection(Ranked, MeasuredMembers)
  <2>1. \A m, n \in Ranked : Identity(plan[m]) = Identity(plan[n]) => m = n
    BY DEF PlanIsSet, Ranked
  <2>2. f \in [Ranked -> MeasuredMembers]
    BY <1>6
  <2>3. f \in Injection(Ranked, MeasuredMembers)
    BY <2>1, <2>2 DEF Injection, IsInjective
  <2>4. f \in Surjection(Ranked, MeasuredMembers)
    BY <1>6, <2>2 DEF Surjection
  <2>. QED  BY <2>3, <2>4 DEF Bijection
<1>. QED  BY <1>1, <1>7, FS_Bijection, FS_CardinalityType DEF ExistsBijection

LEMMA EndsOfLoad == IInv /\ EndInv /\ Load => EndInv'
<1>. SUFFICES ASSUME IInv, Load PROVE EndInv'
  OBVIOUS
<1>1. CASE ~(SpecOK(q) /\ BudgetOK(q))
  <2>1. pc' = "failed" /\ q' = q
    BY <1>1 DEF Load
  <2>. QED  BY <1>1, <2>1 DEF EndInv, Final, Outcome, Refused
<1>2. CASE SpecOK(q) /\ BudgetOK(q)
  <2>1. pc' = "scan" /\ q' = Constrained(q) /\ q \in Inputs
    BY <1>2 DEF Load, IInv
  <2>2. SpecOK(q') /\ BudgetOK(q')
    <3>1. CASE q.budget = {}
      BY <1>2, <2>1, <3>1 DEF Constrained
    <3>2. CASE q.budget # {}
      <4>. DEFINE b == CHOOSE x \in q.budget : TRUE
      <4>1. q' = [q EXCEPT !.cap = b.cap, !.space = b.space]
        BY <2>1, <3>2 DEF Constrained
      <4>2. b.cap > 0
        BY <1>2, <3>2 DEF BudgetOK
      <4>3. DOMAIN q = {"rs", "cap", "space", "budget", "sources", "data", "order", "drop",
                        "policy", "table"}
        BY <2>1, InputsAssumption
      <4>. HIDE DEF b
      <4>4. /\ q'.rs = q.rs /\ q'.cap = b.cap /\ q'.budget = q.budget /\ q'.sources = q.sources
            /\ q'.data = q.data /\ q'.order = q.order /\ q'.drop = q.drop
        BY <4>1, <4>3
      <4>. QED  BY <1>2, <4>2, <4>4 DEF SpecOK, BudgetOK
    <3>. QED  BY <3>1, <3>2
  <2>. QED  BY <2>1, <2>2 DEF EndInv, Final
<1>. QED  BY <1>1, <1>2

\* The residency tried next is not one of those that were evicted before.
LEMMA EndsOfEvict == IInv /\ EndInv /\ Evict => EndInv'
<1>. SUFFICES ASSUME IInv, EndInv, Evict PROVE EndInv'
  OBVIOUS
<1>1. /\ pc = "enumerate" /\ TypeOK /\ CandsFor(star \ pending) /\ EvictedApart
      /\ SpecOK(q) /\ BudgetOK(q) /\ UNCHANGED <<q, star>>
  BY DEF IInv, EndInv, Evict
<1>2. pc' \in {"enumerate", "build", "select"}
  BY <1>1 DEF Evict, Propose, GiveUp
<1>3. SUFFICES ASSUME pc' \in {"enumerate", "build"} PROVE EvictedApart'
  BY <1>1, <1>2 DEF EndInv, Final
<1>4. PICK k \in pending :
        /\ cands' = Append(cands, [keep |-> Kept(k), evict |-> {q.rs[k].object}])
  BY <1>3 DEF Evict, Propose, GiveUp
<1>. DEFINE C == [keep : SUBSET Int, evict : SUBSET Int]
            c == [keep |-> Kept(k), evict |-> {q.rs[k].object}]
<1>5. /\ DOMAIN cands' = DOMAIN cands \cup {Len(cands) + 1}
      /\ \A n \in DOMAIN cands : cands'[n] = cands[n]
      /\ cands'[Len(cands) + 1].evict = {q.rs[k].object}
  <2>1. cands \in Seq(C)
    BY <1>1 DEF TypeOK
  <2>2. /\ Len(cands) \in Nat /\ DOMAIN cands = 1..Len(cands)
        /\ DOMAIN cands' = 1..(Len(cands) + 1)
        /\ \A n \in 1..Len(cands) : cands'[n] = cands[n]
        /\ cands'[Len(cands) + 1] = c
    <3>. HIDE DEF C, c
    <3>1. cands' = Append(cands, c)
      BY <1>4 DEF c
    <3>. QED  BY <2>1, <3>1
  <2>3. c.evict = {q.rs[k].object}
    OBVIOUS
  <2>. HIDE DEF c
  <2>. QED  BY <2>2, <2>3
<1>6. SUFFICES ASSUME ~LiveTwice
               PROVE  \A n \in DOMAIN cands : cands[n].evict # {q.rs[k].object}
  <2>1. LiveTwice' = LiveTwice
    BY <1>1 DEF LiveTwice
  <2>. QED  BY <1>1, <1>5, <1>6, <2>1 DEF EvictedApart
<1>. TAKE n \in DOMAIN cands
<1>7. PICK j \in star \ pending : Identity(cands[n]) = Member(j)
  <2>1. Identity(cands[n]) \in {Member(i) : i \in star \ pending}
    BY <1>1 DEF CandsFor
  <2>. QED  BY <2>1
<1>8. cands[n].evict = {q.rs[j].object}
  BY <1>7 DEF Identity, Member
<1>9. j # k /\ j \in star /\ k \in star
  BY <1>1, <1>4 DEF TypeOK
<1>. QED  BY <1>6, <1>8, <1>9 DEF LiveTwice

\* Only a candidate that keeps what it evicts is refused here.
LEMMA EndsOfBuild == IInv /\ EndInv /\ Build => EndInv'
<1>. SUFFICES ASSUME IInv, EndInv, Build PROVE EndInv'
  OBVIOUS
<1>. DEFINE c == cands[Len(plan) + 1]
<1>1. /\ pc = "build" /\ TypeOK /\ PlanInv /\ FamilyInv /\ Len(plan) < Len(cands) /\ EvictedApart
      /\ SpecOK(q) /\ BudgetOK(q) /\ UNCHANGED <<q, star, cands, truncated>>
  BY DEF IInv, EndInv, Build
<1>2. pc' \in {"build", "select", "failed"}
  BY <1>1 DEF Build
<1>3. CASE pc' # "failed"
  BY <1>1, <1>2, <1>3 DEF EndInv, Final, EvictedApart, LiveTwice
<1>4. CASE pc' = "failed"
  <2>1. SUFFICES ~Overflows /\ LiveTwice
    <3>1. Refused'
      BY <1>1, <2>1, RefusedStays DEF Refused
    <3>. QED  BY <1>4, <3>1 DEF EndInv, Final, Outcome
  <2>2. ~truncated /\ ~Overflows
    <3>1. cands # <<>>
      BY <1>1 DEF TypeOK
    <3>. QED  BY <1>1, <3>1, TruncatedIsOverflow
  <2>3. \/ ~(c.keep \cup c.evict \subseteq Objects(q.rs))
        \/ c.keep \cap c.evict # {}
        \/ \E n \in DOMAIN plan : Identity(plan[n]) = Identity(c)
    BY <1>1, <1>4 DEF Build
  <2>4. Len(plan) + 1 \in DOMAIN cands /\ Len(plan) \in Nat
        /\ \A n \in DOMAIN plan : n \in DOMAIN cands /\ n # Len(plan) + 1
    BY <1>1 DEF TypeOK
  <2>5. CASE star = {}
    <3>1. cands = <<[keep |-> Objects(q.rs), evict |-> {}]>>
      BY <1>1, <2>5 DEF FamilyInv
    <3>2. Len(cands) = 1
      BY <3>1
    <3>3. Len(plan) = 0 /\ DOMAIN plan = {}
      BY <1>1, <2>4, <3>2 DEF TypeOK
    <3>4. c = [keep |-> Objects(q.rs), evict |-> {}]
      BY <3>1, <3>3
    <3>5. c.keep = Objects(q.rs) /\ c.evict = {}
      BY <3>4
    <3>. HIDE DEF c
    <3>. QED  BY <2>3, <3>3, <3>5
  <2>6. CASE star # {}
    <3>1. {Identity(cands[n]) : n \in DOMAIN cands} = {Member(i) : i \in star}
      BY <1>1, <2>2, <2>6 DEF FamilyInv, CandsFor
    <3>2. PICK k \in star : Identity(c) = Member(k)
      <4>. HIDE DEF c
      <4>1. Identity(c) \in {Identity(cands[n]) : n \in DOMAIN cands}
        BY <2>4 DEF c
      <4>. QED  BY <3>1, <4>1
    <3>3. c.keep = Kept(k) /\ c.evict = {q.rs[k].object}
      BY <3>2 DEF Identity, Member
    <3>4. c.keep \cup c.evict \subseteq Objects(q.rs)
      <4>1. star \subseteq DOMAIN q.rs
        BY <1>1 DEF TypeOK
      <4>. HIDE DEF c
      <4>. QED  BY <3>3, <4>1 DEF Kept, Objects
    <3>5. CASE c.keep \cap c.evict # {}
      <4>1. q.rs[k].object \in Kept(k)
        BY <3>3, <3>5
      <4>. QED  BY <2>2, <4>1 DEF Kept, LiveTwice
    <3>6. CASE \E n \in DOMAIN plan : Identity(plan[n]) = Identity(c)
      <4>1. PICK n \in DOMAIN plan : Identity(plan[n]) = Identity(c)
        BY <3>6
      <4>2. plan[n].evict = cands[n].evict /\ plan[n].evict = c.evict
        BY <1>1, <4>1 DEF PlanInv, WithRestores, Identity
      <4>. QED  BY <1>1, <2>2, <2>4, <4>2 DEF EvictedApart
    <3>. QED  BY <2>3, <3>4, <3>5, <3>6
  <2>. QED  BY <2>5, <2>6
<1>. QED  BY <1>3, <1>4

\* A selection fails where there is nothing to select from or too little to
\* rank, and only there.
LEMMA EndsOfSelect == IInv /\ EndInv /\ PlanIsSet /\ Select => EndInv'
<1>. SUFFICES ASSUME IInv, EndInv, PlanIsSet, Select PROVE EndInv'
  OBVIOUS
<1>1. /\ pc = "select" /\ TypeOK /\ Len(plan) = Len(cands) /\ SpecOK(q) /\ BudgetOK(q)
      /\ UNCHANGED <<q, star, cands, plan>> /\ q.policy \in {"none", "s0", "measured"}
  BY DEF IInv, EndInv, Select, TypeOK
<1>2. (truncated <=> Overflows) /\ (truncated <=> plan = <<>>) /\ (~truncated => ~LiveTwice)
  <2>1. plan = <<>> <=> cands = <<>>
    BY <1>1 DEF TypeOK
  <2>. QED  BY <1>1, <2>1, TruncatedIsOverflow, CompleteIsLiveOnce
<1>3. Cardinality(MeasuredMembers) = Cardinality(Ranked) /\ Cardinality(Ranked) \in Nat
  BY <1>1, RankedAreMembers
<1>4. Refused <=>
        \/ Overflows /\ q.policy # "none"
        \/ /\ ~Overflows /\ q.policy = "measured"
           /\ ~TableOK(q.table) \/ ~(Cardinality(Ranked) >= 2)
  BY <1>1, <1>2, <1>3 DEF Refused
<1>5. pc' \in {"done", "failed"} /\ (pc' = "failed" <=> Refused)
  <2>1. CASE q.policy = "none"
    <3>1. pc' = "done"
      BY <2>1 DEF Select
    <3>. QED  BY <1>4, <2>1, <3>1
  <2>2. CASE q.policy # "none" /\ plan = <<>>
    <3>1. pc' = "failed"
      BY <2>2 DEF Select
    <3>. QED  BY <1>2, <1>4, <2>2, <3>1
  <2>3. CASE q.policy = "s0" /\ plan # <<>>
    <3>1. pc' = "done"
      BY <2>3 DEF Select
    <3>. QED  BY <1>2, <1>4, <2>3, <3>1
  <2>4. CASE q.policy = "measured" /\ plan # <<>>
    <3>1. pc' = IF TableOK(q.table) /\ Cardinality(Ranked) >= 2 THEN "done" ELSE "failed"
      BY <2>4 DEF Select
    <3>. QED  BY <1>2, <1>4, <2>4, <3>1
  <2>. QED  BY <1>1, <2>1, <2>2, <2>3, <2>4
<1>6. Refused' <=> Refused
  BY <1>1, RefusedStays
<1>. QED  BY <1>1, <1>5, <1>6 DEF EndInv, Final, Outcome

\* The program fails exactly on what it refuses: a spec or a budget that does
\* not load, a selection where one eviction is not enough, an object that is
\* live twice where the plan does not fit, and a ranking by too few rows.
THEOREM CapacityOutcome == Spec => [](Final => Outcome)
<1>1. Init => EndInv
  BY DEF Init, EndInv, Final
<1>2. IInv /\ HandInv /\ EndInv /\ [Next]_vars => EndInv'
  <2>. SUFFICES ASSUME IInv, HandInv, EndInv, [Next]_vars PROVE EndInv'
    OBVIOUS
  <2>1. CASE Scan
    BY <2>1 DEF Scan, EndInv, Final
  <2>2. CASE EndScan
    <3>1. /\ pc = "scan" /\ pc' \in {"build", "enumerate"} /\ q' = q
          /\ cands' = <<[keep |-> Objects(q.rs), evict |-> {}]>> \/ cands' = cands
      BY <2>2 DEF EndScan
    <3>2. cands = <<>>
      BY <3>1 DEF IInv, Fresh
    <3>3. \A m, n \in DOMAIN cands' : m = n
      BY <3>1, <3>2
    <3>. QED  BY <3>1, <3>3 DEF EndInv, EvictedApart, Final
  <2>3. CASE UNCHANGED vars
    <3>1. UNCHANGED <<q, pc, star, cands>>
      BY <2>3 DEF vars
    <3>2. (Refused' <=> Refused) /\ (LiveTwice' <=> LiveTwice)
      BY <3>1, RefusedStays
    <3>. QED  BY <3>1, <3>2 DEF EndInv, EvictedApart, Final, Outcome
  <2>. QED  BY <2>1, <2>2, <2>3, EndsOfLoad, EndsOfEvict, EndsOfBuild, EndsOfSelect
            DEF Next, HandInv
<1>3. EndInv => (Final => Outcome)
  BY DEF EndInv
<1>4. Spec => [](IInv /\ HandInv)
  BY CapacityIInv, CapacityHandInv, PTL
<1>. QED  BY <1>1, <1>2, <1>3, <1>4, PTL DEF Spec

-----------------------------------------------------------------------------
(* Which candidates the gates speak for, and what their witnesses say.      *)

\* What a restore shows follows from its witnesses; a usable one has them all.
LEMMA RestoreShows ==
  ASSUME NEW o, NEW r, r = Restore(q, o)
  PROVE  /\ r.valid \in BOOLEAN /\ r.sourceData \in BOOLEAN /\ r.usable \in BOOLEAN
         /\ r.restoreOrdering \in BOOLEAN /\ r.destInvalidation \in BOOLEAN
         /\ r.usable => r.valid /\ r.sourceData /\ r.restoreOrdering
                          /\ SourceData(q, o) /\ RestoreOrdering(q, o)
         /\ r.destInvalidation => DestInvalidation(q, o)
<1>1. /\ r.valid \in BOOLEAN /\ r.sourceData \in BOOLEAN /\ r.usable \in BOOLEAN
      /\ r.restoreOrdering \in BOOLEAN /\ r.destInvalidation \in BOOLEAN
  BY DEF Restore
<1>2. r.usable => r.valid /\ SourceData(q, o) /\ RestoreOrdering(q, o)
  BY DEF Restore
<1>3. r.valid /\ SourceData(q, o) => r.sourceData
  BY DEF Restore
<1>4. r.valid /\ RestoreOrdering(q, o) => r.restoreOrdering
  BY DEF Restore
<1>5. r.destInvalidation => DestInvalidation(q, o)
  BY DEF Restore
<1>. QED  BY <1>1, <1>2, <1>3, <1>4, <1>5

\* A candidate of the plan: named objects, and a restore for the one it evicts.
LEMMA CandidateFacts ==
  ASSUME IInv, HandInv, NEW n \in DOMAIN plan
  PROVE  /\ IsNamed(plan[n], Named(q)) /\ plan[n].keep \cap plan[n].evict = {}
         /\ Shaped(plan[n])
         /\ \/ plan[n].evict = {}
            \/ \E k \in star : /\ plan[n].evict = {q.rs[k].object}
                               /\ plan[n].restores = {Restore(q, q.rs[k].object)}
         /\ \A r \in plan[n].restores : \E o : r = Restore(q, o)
<1>1. TypeOK /\ PlanInv /\ PlanIsSet
  BY DEF IInv, HandInv
<1>2. n \in DOMAIN cands /\ plan[n] = WithRestores(cands[n])
  BY <1>1 DEF PlanInv, TypeOK
<1>3. /\ plan[n].keep = cands[n].keep /\ plan[n].evict = cands[n].evict
      /\ plan[n].restores = {Restore(q, o) : o \in plan[n].evict}
  BY <1>2 DEF WithRestores
<1>4. ASSUME plan[n].evict = {}  PROVE Shaped(plan[n])
  <2>1. plan[n].restores = {}
    BY <1>3, <1>4
  <2>. QED  BY <1>4, <2>1 DEF Shaped
<1>5. ASSUME plan[n].evict # {}
      PROVE  \E k \in star : /\ plan[n].evict = {q.rs[k].object}
                             /\ plan[n].restores = {Restore(q, q.rs[k].object)}
  <2>1. PICK k \in star : plan[n].evict = {q.rs[k].object}
    BY <1>1, <1>2, <1>3, <1>5 DEF PlanInv
  <2>2. plan[n].restores = {Restore(q, q.rs[k].object)}
    BY <1>3, <2>1
  <2>. QED  BY <2>1, <2>2
<1>6. Shaped(plan[n])
  BY <1>4, <1>5, FS_Singleton DEF Shaped
<1>7. IsNamed(plan[n], Named(q))
  <2>1. IsFiniteSet(Objects(q.rs))
    <3>. DEFINE f == [k \in DOMAIN q.rs |-> q.rs[k].object]
    <3>1. f \in Surjection(DOMAIN q.rs, Objects(q.rs))
      BY DEF Objects, Surjection
    <3>. QED  BY <1>1, <3>1, Residencies, FS_Surjection DEF TypeOK
  <2>2. plan[n].keep \in SUBSET Objects(q.rs) /\ plan[n].evict \in SUBSET Objects(q.rs)
    BY <1>1 DEF PlanIsSet
  <2>3. Objects(q.rs) \subseteq Named(q)
    BY DEF Named
  <2>. QED  BY <2>1, <2>2, <2>3, FS_Subset DEF IsNamed
<1>8. plan[n].keep \cap plan[n].evict = {}
  BY <1>1 DEF PlanIsSet
<1>9. \A r \in plan[n].restores : \E o : r = Restore(q, o)
  BY <1>3
<1>. QED  BY <1>5, <1>6, <1>7, <1>8, <1>9

\* A truncated family has no candidates.
LEMMA NoneIfTruncated ==
  ASSUME IInv, pc \in {"select", "done"}, NEW n \in DOMAIN plan
  PROVE  ~truncated
<1>1. TypeOK /\ FamilyInv /\ Len(plan) = Len(cands)
  BY DEF IInv
<1>2. truncated => cands = <<>>
  BY <1>1 DEF FamilyInv
<1>3. n \in 1..Len(plan)
  BY <1>1 DEF TypeOK
<1>. QED  BY <1>1, <1>2, <1>3

\* The evaluator asks for what the gates say, of each restore.
LEMMA EligibleFacts ==
  ASSUME IInv, HandInv, NEW n \in DOMAIN plan
  PROVE  Eligible(plan[n]) <=>
           /\ plan[n].evict # {}
           /\ \A r \in plan[n].restores : r.usable /\ r.restoreOrdering /\ r.destInvalidation
<1>1. \A r \in plan[n].restores : /\ r.usable \in BOOLEAN /\ r.restoreOrdering \in BOOLEAN
                                  /\ r.destInvalidation \in BOOLEAN
  BY CandidateFacts, RestoreShows
<1>2. Shaped(plan[n])
  BY CandidateFacts
<1>. QED  BY <1>1, <1>2, EligibleIsShown

\* The gates say yes of the same candidates.
LEMMA EligibleIsSpoken ==
  ASSUME IInv, HandInv, pc \in {"select", "done"}
  PROVE  EligibleSet = {n \in DOMAIN plan : Spoken(n)}
<1>. SUFFICES ASSUME NEW n \in DOMAIN plan  PROVE Eligible(plan[n]) <=> Spoken(n)
  BY DEF EligibleSet
<1>. DEFINE c == plan[n]
<1>1. ~truncated
  BY NoneIfTruncated
<1>2. \A r \in c.restores : /\ r.usable => r.valid /\ r.sourceData
                            /\ r.usable \in BOOLEAN /\ r.restoreOrdering \in BOOLEAN
                            /\ r.destInvalidation \in BOOLEAN /\ r.valid \in BOOLEAN
  BY CandidateFacts, RestoreShows
<1>3. c.evict # {} => Complete(c)
  BY CandidateFacts DEF Complete, Shaped
<1>4. Sel(n) # <<>> /\ Sel(n)[1] = c
  BY DEF Sel
<1>. HIDE DEF c
<1>5. CASE c.evict = {}
  <2>1. Necessary(Sel(n)) = "n/a"
    BY <1>4, <1>5 DEF Necessary
  <2>2. ~Eligible(c)
    BY <1>5, EligibleFacts DEF c
  <2>. QED  BY <2>1, <2>2 DEF Spoken, c
<1>6. CASE c.evict # {}
  <2>1. /\ EvictClosed(Sel(n)) = "yes" <=> \A r \in c.restores : r.valid
        /\ SourceDataStatus(Sel(n)) = "yes" <=> \A r \in c.restores : r.sourceData
        /\ RestoreOrderingStatus(Sel(n)) = "yes" <=> \A r \in c.restores : r.restoreOrdering
        /\ UsableStatus(Sel(n)) = "yes" <=> \A r \in c.restores : r.usable
        /\ DestInvalidationStatus(Sel(n)) = "yes" <=> \A r \in c.restores : r.destInvalidation
    BY <1>3, <1>4, <1>6, Zenon
       DEF EvictClosed, SourceDataStatus, RestoreOrderingStatus, UsableStatus,
           DestInvalidationStatus, Status
  <2>2. /\ Necessary(Sel(n)) = "yes" <=> EvictClosed(Sel(n)) = "yes"
        /\ EvictClosed(Sel(n)) = "yes" => ReplicaExistsStatus(Sel(n)) = "yes"
    BY <1>1, <1>4, <1>6 DEF Necessary, ReplicaExistsStatus
  <2>3. Eligible(c) <=> \A r \in c.restores : r.usable /\ r.restoreOrdering /\ r.destInvalidation
    BY <1>6, EligibleFacts DEF c
  <2>. QED  BY <1>2, <2>1, <2>2, <2>3 DEF Spoken, c
<1>. QED  BY <1>5, <1>6

\* What the witnesses of an eligible candidate say.
LEMMA EligibleIsWitnessed ==
  ASSUME IInv, HandInv, pc \in {"select", "done"}, NEW n \in EligibleSet
  PROVE  \E k \in star :
           /\ plan[n].evict = {q.rs[k].object} /\ Fits(k)
           /\ q.data[q.rs[k].object].end >= q.order[q.rs[k].object].before
           /\ q.drop[q.rs[k].object].destination = q.space
<1>1. n \in DOMAIN plan /\ Eligible(plan[n])
  BY DEF EligibleSet
<1>2. /\ plan[n].evict # {}
      /\ \A r \in plan[n].restores : r.usable /\ r.destInvalidation
  BY <1>1, EligibleFacts
<1>3. PICK k \in star : /\ plan[n].evict = {q.rs[k].object}
                        /\ plan[n].restores = {Restore(q, q.rs[k].object)}
  BY <1>1, <1>2, CandidateFacts
<1>. DEFINE o == q.rs[k].object
<1>4. SourceData(q, o) /\ RestoreOrdering(q, o) /\ DestInvalidation(q, o)
  <2>1. Restore(q, o).usable /\ Restore(q, o).destInvalidation
    BY <1>2, <1>3
  <2>. QED  BY <2>1, RestoreShows
<1>5. q.data[o].end >= q.order[o].before /\ q.drop[o].destination = q.space
  BY <1>4 DEF SourceData, RestoreOrdering, DestInvalidation
<1>6. Fits(k)
  <2>1. TypeOK /\ Loaded /\ FamilyInv /\ ~truncated
    BY <1>1, NoneIfTruncated DEF IInv
  <2>2. Enough(k)
    BY <2>1 DEF FamilyInv, CandsFor
  <2>. QED  BY <2>1, <2>2, EnoughIsFits
<1>. QED  BY <1>3, <1>5, <1>6

-----------------------------------------------------------------------------
(* The rows of the optimum, and the cheapest of them.                       *)

\* The measured cost of a candidate is found under its selection.
LEMMA CostIsMeasured ==
  ASSUME IInv, HandInv, TableOK(q.table), NEW n \in DOMAIN plan
  PROVE  /\ SelectionOf(plan[n]) \in DOMAIN CostsFromMeasured(q.table) <=> n \in Ranked
         /\ n \in Ranked => CostsFromMeasured(q.table)[SelectionOf(plan[n])] = Min(Measured(n))
<1>. DEFINE id == SelectionOf(plan[n])
            rows == CostRows(q.table)
            J == {j \in DOMAIN q.table : /\ q.table[j].scope = "this" /\ q.table[j].good
                                         /\ Identity(q.table[j]) = Identity(plan[n])}
<1>1. TypeOK /\ Distinguished
  BY DEF IInv, HandInv
<1>2. rows = {q.table[j] : j \in {i \in DOMAIN q.table : q.table[i].scope = "this" /\ q.table[i].good}}
  BY DEF CostRows, ToSet
<1>3. \A j \in DOMAIN q.table : SelectionOf(q.table[j]) = id <=> Identity(q.table[j]) = Identity(plan[n])
  <2>. TAKE j \in DOMAIN q.table
  <2>1. IsNamed(q.table[j], Named(q))
    BY <1>1 DEF Distinguished, IsNamed, Named
  <2>2. IsNamed(plan[n], Named(q))
    BY CandidateFacts
  <2>3. Named(q) \in SUBSET Int /\ NamesApart(Named(q))
    BY <1>1 DEF Distinguished
  <2>. QED  BY <2>1, <2>2, <2>3, SelectionsTellApart
<1>4. {row \in rows : SelectionOf(row) = id} = {q.table[j] : j \in J}
  <2>. HIDE DEF id
  <2>. QED  BY <1>2, <1>3
<1>5. DOMAIN CostsFromMeasured(q.table) = {SelectionOf(row) : row \in rows}
  BY DEF CostsFromMeasured
<1>6. n \in Ranked <=> J # {}
  BY DEF Ranked, Measured
<1>7. id \in DOMAIN CostsFromMeasured(q.table) <=> n \in Ranked
  <2>. HIDE DEF id, rows, J
  <2>1. id \in DOMAIN CostsFromMeasured(q.table) <=> {row \in rows : SelectionOf(row) = id} # {}
    BY <1>5
  <2>. QED  BY <1>4, <1>6, <2>1
<1>8. ASSUME n \in Ranked PROVE CostsFromMeasured(q.table)[id] = Min(Measured(n))
  <2>. DEFINE row == CHOOSE r \in rows : SelectionOf(r) = id
  <2>1. CostsFromMeasured(q.table)[id] = row.time
    <3>1. id \in {SelectionOf(r) : r \in rows}
      BY <1>5, <1>7, <1>8
    <3>. HIDE DEF id
    <3>. QED  BY <3>1, Zenon DEF CostsFromMeasured
  <2>2. row \in {r \in rows : SelectionOf(r) = id}
    <3>. HIDE DEF id, rows, J
    <3>1. {r \in rows : SelectionOf(r) = id} # {}
      BY <1>4, <1>6, <1>8
    <3>. QED  BY <3>1
  <2>. HIDE DEF row
  <2>3. PICK j \in J : row = q.table[j]
    BY <1>4, <2>2
  <2>4. row.time \in Measured(n)
    BY <2>3 DEF Measured
  <2>5. Measured(n) = {Min(Measured(n))}
    BY <1>1, <1>8, MeasuredIsOne DEF Ranked
  <2>. QED  BY <2>1, <2>4, <2>5
<1>. QED  BY <1>7, <1>8

\* The strategies of the plan, in its order.
Strategies == StrategiesFromCapacity(plan, CostsFromMeasured(q.table))

\* A row is named for its candidate, and legal if that is eligible.
LEMMA StrategyFacts ==
  ASSUME IInv, HandInv, TableOK(q.table)
  PROVE  /\ DOMAIN Strategies = DOMAIN plan
         /\ \A n \in DOMAIN plan :
              /\ Strategies[n].id = SelectionOf(plan[n])
              /\ Strategies[n].scope = <<SelectionOf(plan[n]), OBJECT_2, ACTION_V01>>
              /\ Strategies[n].legal = IF n \in EligibleSet THEN "yes" ELSE "no"
              /\ n \in EligibleSet => Strategies[n].cost = Measured(n)
         /\ \A m, n \in DOMAIN plan : Strategies[m].id = Strategies[n].id => m = n
<1>1. DOMAIN Strategies = DOMAIN plan
  BY DEF Strategies, StrategiesFromCapacity
<1>2. ASSUME NEW n \in DOMAIN plan
      PROVE  /\ Strategies[n].id = SelectionOf(plan[n])
             /\ Strategies[n].scope = <<SelectionOf(plan[n]), OBJECT_2, ACTION_V01>>
             /\ Strategies[n].legal = IF n \in EligibleSet THEN "yes" ELSE "no"
             /\ Strategies[n].cost = CostOf(plan[n], CostsFromMeasured(q.table))
  <2>1. Strategies[n] =
          [id |-> SelectionOf(plan[n]),
           legal |-> IF Eligible(plan[n]) THEN "yes" ELSE "no",
           cost |-> CostOf(plan[n], CostsFromMeasured(q.table)),
           scope |-> <<SelectionOf(plan[n]), OBJECT_2, ACTION_V01>>]
    BY Zenon DEF Strategies, StrategiesFromCapacity
  <2>2. n \in EligibleSet <=> Eligible(plan[n])
    BY DEF EligibleSet
  <2>. QED  BY <2>1, <2>2
<1>3. ASSUME NEW n \in EligibleSet
      PROVE  CostOf(plan[n], CostsFromMeasured(q.table)) = Measured(n)
  <2>1. n \in DOMAIN plan /\ Eligible(plan[n])
    BY DEF EligibleSet
  <2>2. CASE n \in Ranked
    <3>1. CostOf(plan[n], CostsFromMeasured(q.table)) = {Min(Measured(n))}
      BY <2>1, <2>2, CostIsMeasured DEF CostOf
    <3>2. Measured(n) = {Min(Measured(n))}
      BY <2>2, MeasuredIsOne DEF IInv, Ranked
    <3>. QED  BY <3>1, <3>2
  <2>3. CASE n \notin Ranked
    <3>1. CostOf(plan[n], CostsFromMeasured(q.table)) = {}
      BY <2>1, <2>3, CostIsMeasured DEF CostOf
    <3>2. Measured(n) = {}
      BY <2>1, <2>3 DEF Ranked
    <3>. QED  BY <3>1, <3>2
  <2>. QED  BY <2>2, <2>3
<1>4. ASSUME NEW m \in DOMAIN plan, NEW n \in DOMAIN plan, Strategies[m].id = Strategies[n].id
      PROVE  m = n
  <2>1. SelectionOf(plan[m]) = SelectionOf(plan[n])
    BY <1>2, <1>4
  <2>2. IsNamed(plan[m], Named(q)) /\ IsNamed(plan[n], Named(q))
    BY CandidateFacts
  <2>3. Named(q) \in SUBSET Int /\ NamesApart(Named(q))
    BY DEF HandInv, Distinguished
  <2>4. Identity(plan[m]) = Identity(plan[n])
    BY <2>1, <2>2, <2>3, SelectionsTellApart
  <2>. QED  BY <2>4 DEF HandInv, PlanIsSet
<1>5. \A n \in EligibleSet : Strategies[n].cost = Measured(n)
  BY <1>2, <1>3 DEF EligibleSet
<1>. HIDE DEF Strategies
<1>. QED  BY <1>1, <1>2, <1>4, <1>5

\* No row is bad if each eligible candidate has a measured cost.
LEMMA NoRowIsBad ==
  ASSUME IInv, HandInv, TableOK(q.table)
  PROVE  BadRows(Strategies) = {} <=> EligibleSet \subseteq Ranked
<1>1. ASSUME NEW n \in DOMAIN plan
      PROVE  RowError(Strategies, n) = "none" <=> (n \in EligibleSet => n \in Ranked)
  <2>1. Strategies[n].legal \in {"yes", "no"}
    BY StrategyFacts
  <2>2. ~(\E j \in 1..(n - 1) : Strategies[j].id = Strategies[n].id)
    <3>1. plan \in Seq({WithRestores(cands[i]) : i \in DOMAIN cands})
      BY DEF IInv, TypeOK
    <3>2. ASSUME NEW j \in 1..(n - 1)  PROVE j \in DOMAIN plan /\ j # n
      BY <3>1
    <3>. QED  BY <3>2, StrategyFacts
  <2>3. Strategies[n].legal = "yes" <=> n \in EligibleSet
    BY StrategyFacts
  <2>4. n \in EligibleSet => (Strategies[n].cost = {} <=> n \notin Ranked)
    BY StrategyFacts DEF Ranked
  <2>. QED  BY <2>1, <2>2, <2>3, <2>4 DEF RowError
<1>2. EligibleSet \subseteq DOMAIN plan
  BY DEF EligibleSet
<1>. QED  BY <1>1, <1>2, StrategyFacts DEF BadRows

\* The cheapest of the legal rows are those of the fastest eligible candidates.
Fastest == {n \in EligibleSet : \A m \in EligibleSet : Min(Measured(n)) <= Min(Measured(m))}

\* A legal row carries the measured cost, so the comparison is that of the times.
LEMMA CheapestIsFastest ==
  ASSUME IInv, HandInv, TableOK(q.table), EligibleSet \subseteq Ranked
  PROVE  /\ LegalRows(Strategies) = {Strategies[n] : n \in EligibleSet}
         /\ Cheapest(Strategies) = {Strategies[n] : n \in Fastest}
         /\ IsFiniteSet(Cheapest(Strategies))
<1>1. EligibleSet \subseteq DOMAIN plan
  BY DEF EligibleSet
<1>2. LegalRows(Strategies) = {Strategies[n] : n \in EligibleSet}
  <2>1. \A n \in DOMAIN plan : Strategies[n].legal = "yes" <=> n \in EligibleSet
    BY StrategyFacts
  <2>2. ToSet(Strategies) = {Strategies[n] : n \in DOMAIN plan}
    BY StrategyFacts DEF ToSet
  <2>. QED  BY <1>1, <2>1, <2>2 DEF LegalRows
<1>3. \A n \in EligibleSet : Strategies[n].cost = {Min(Measured(n))}
  <2>. TAKE n \in EligibleSet
  <2>1. Measured(n) = {Min(Measured(n))}
    BY MeasuredIsOne DEF IInv, Ranked
  <2>. QED  BY <1>1, <2>1, StrategyFacts
<1>4. Cheapest(Strategies) = {Strategies[n] : n \in Fastest}
  <2>1. \A n, m \in EligibleSet :
          (\A c \in Strategies[n].cost, d \in Strategies[m].cost : c <= d)
            <=> Min(Measured(n)) <= Min(Measured(m))
    BY <1>3
  <2>2. ASSUME NEW n \in EligibleSet
        PROVE  (\A other \in LegalRows(Strategies) :
                  \A c \in Strategies[n].cost, d \in other.cost : c <= d) <=> n \in Fastest
    <3>1. (\A other \in LegalRows(Strategies) :
             \A c \in Strategies[n].cost, d \in other.cost : c <= d) <=>
            \A m \in EligibleSet : \A c \in Strategies[n].cost, d \in Strategies[m].cost : c <= d
      BY <1>2
    <3>. QED  BY <2>1, <3>1, Zenon DEF Fastest
  <2>3. Fastest \subseteq EligibleSet
    BY DEF Fastest
  <2>. QED  BY <1>2, <2>2, <2>3, Zenon DEF Cheapest
<1>5. IsFiniteSet(Cheapest(Strategies))
  <2>1. IsFiniteSet(DOMAIN plan)
    <3>1. Len(plan) \in Nat /\ DOMAIN plan = 1..Len(plan)
      BY DEF IInv, TypeOK
    <3>. QED  BY <3>1, FS_Interval
  <2>2. Fastest \in SUBSET (DOMAIN plan)
    BY <1>1 DEF Fastest
  <2>3. IsFiniteSet(Fastest)
    BY <2>1, <2>2, FS_Subset
  <2>. DEFINE f == [n \in Fastest |-> Strategies[n]]
  <2>4. f \in Surjection(Fastest, {Strategies[n] : n \in Fastest})
    BY DEF Surjection
  <2>. QED  BY <1>4, <2>3, <2>4, FS_Surjection
<1>. QED  BY <1>2, <1>4, <1>5

\* There is one cheapest row exactly if one candidate is faster than all others.
LEMMA OneIsCheapest ==
  ASSUME IInv, HandInv, TableOK(q.table), EligibleSet \subseteq Ranked
  PROVE  /\ \A n \in EligibleSet : Strictly(n) => Cheapest(Strategies) = {Strategies[n]}
         /\ Cardinality(Cheapest(Strategies)) = 1 =>
              \E n \in EligibleSet : Strictly(n) /\ Cheapest(Strategies) = {Strategies[n]}
<1>1. \A n \in EligibleSet : Min(Measured(n)) \in Int
  BY MeasuredIsOne DEF IInv, Ranked
<1>2. ASSUME NEW n \in EligibleSet, Strictly(n)
      PROVE  Cheapest(Strategies) = {Strategies[n]}
  <2>. DEFINE t(m) == Min(Measured(m))
  <2>1. \A m \in EligibleSet : t(m) \in Int /\ (m # n => t(n) < t(m))
    BY <1>1, <1>2 DEF Strictly
  <2>. HIDE DEF t
  <2>2. \A m \in EligibleSet : t(n) <= t(m) /\ (m # n => ~(t(m) <= t(n)))
    BY <2>1
  <2>3. Fastest = {m \in EligibleSet : \A l \in EligibleSet : t(m) <= t(l)}
    BY DEF Fastest, t
  <2>4. Fastest = {n}
    BY <2>2, <2>3
  <2>. QED  BY <2>4, CheapestIsFastest
<1>3. ASSUME Cardinality(Cheapest(Strategies)) = 1
      PROVE  \E n \in EligibleSet : Strictly(n) /\ Cheapest(Strategies) = {Strategies[n]}
  <2>1. PICK x : Cheapest(Strategies) = {x}
    BY <1>3, CheapestIsFastest, FS_Singleton
  <2>2. Fastest # {} /\ \A m \in Fastest : Strategies[m] = x
    BY <2>1, CheapestIsFastest
  <2>3. PICK n \in Fastest : TRUE
    BY <2>2
  <2>4. n \in EligibleSet /\ EligibleSet \subseteq DOMAIN plan /\ Fastest \subseteq EligibleSet
    BY DEF Fastest, EligibleSet
  <2>5. \A m \in Fastest : m = n
    <3>. TAKE m \in Fastest
    <3>1. Strategies[m].id = Strategies[n].id
      BY <2>2
    <3>. QED  BY <2>4, <3>1, StrategyFacts
  <2>6. Strictly(n)
    <3>. DEFINE t(m) == Min(Measured(m))
    <3>1. \A m \in EligibleSet : t(m) \in Int /\ t(n) <= t(m)
      BY <1>1 DEF Fastest
    <3>2. Fastest = {m \in EligibleSet : \A l \in EligibleSet : t(m) <= t(l)}
      BY DEF Fastest
    <3>3. \A m \in EligibleSet \ {n} : t(n) < t(m)
      <4>. HIDE DEF t
      <4>. TAKE m \in EligibleSet \ {n}
      <4>1. PICK l \in EligibleSet : ~(t(m) <= t(l))
        BY <2>5, <3>2
      <4>. QED  BY <2>4, <3>1, <4>1
    <3>. QED  BY <3>3 DEF Strictly
  <2>. QED  BY <2>1, <2>2, <2>4, <2>6
<1>. QED  BY <1>2, <1>3

-----------------------------------------------------------------------------
(* The licence.                                                             *)

\* The row that is chosen is bound if the candidate's names bind.
LEMMA ChosenIsBound ==
  ASSUME IInv, HandInv, TableOK(q.table), NEW n \in EligibleSet
  PROVE  /\ Len(Strategies[n].scope) = 3
         /\ OptimumPlan(Strategies[n]).plan.result = "yes" <=> CanBeBound(n)
<1>1. n \in DOMAIN plan
  BY DEF EligibleSet
<1>2. Strategies[n].scope = <<SelectionOf(plan[n]), OBJECT_2, ACTION_V01>>
  BY <1>1, StrategyFacts
<1>3. OptimumPlan(Strategies[n]).plan.result = "yes" <=> Bindable(SelectionOf(plan[n]))
  BY <1>2, OptimumBinds
<1>4. Bindable(SelectionOf(plan[n])) <=> CanBeBound(n)
  <2>1. IsNamed(plan[n], Named(q)) /\ plan[n].keep \cap plan[n].evict = {}
    BY <1>1, CandidateFacts
  <2>2. Named(q) \in SUBSET Int /\ NamesApart(Named(q))
    BY DEF HandInv, Distinguished
  <2>. QED  BY <2>1, <2>2, SelectionBinds DEF CanBeBound
<1>. QED  BY <1>2, <1>3, <1>4, TripleIsWhole

\* The optimum licenses the one fastest candidate, if its names bind.
LEMMA AuthorizedIsFastest ==
  ASSUME IInv, HandInv, TableOK(q.table)
  PROVE  /\ Authorized.result = "yes" <=>
              /\ EligibleSet \subseteq Ranked
              /\ \E n \in EligibleSet : Strictly(n) /\ CanBeBound(n)
         /\ Authorized.result = "yes" =>
              \E n \in EligibleSet :
                Strictly(n) /\ Authorized.row[1].id = SelectionOf(plan[n])
<1>. DEFINE answer == AuthorizeOptimum(Strategies)
<1>1. EligibleSet \subseteq DOMAIN plan
  BY DEF EligibleSet
<1>2. \A reason : Refuse(reason).result = "no"
  BY DEF Refuse, Choice
<1>3. Authorized = IF Strategies = <<>> THEN Refuse("optimum.no-legal") ELSE answer
  BY DEF Authorized, AuthorizeCapacity, Strategies
<1>4. CASE Strategies = <<>>
  <2>1. EligibleSet = {}
    BY <1>1, <1>4, StrategyFacts
  <2>2. Authorized.result = "no"
    BY <1>2, <1>3, <1>4
  <2>. QED  BY <2>1, <2>2
<1>5. CASE Strategies # <<>> /\ ~(EligibleSet \subseteq Ranked)
  <2>1. BadRows(Strategies) # {}
    BY <1>5, NoRowIsBad
  <2>2. answer.result = "no"
    BY <1>2, <1>5, <2>1 DEF AuthorizeOptimum
  <2>. QED  BY <1>3, <1>5, <2>2
<1>6. CASE Strategies # <<>> /\ EligibleSet \subseteq Ranked /\ ~(\E n \in EligibleSet : Strictly(n))
  <2>1. BadRows(Strategies) = {} /\ Cardinality(Cheapest(Strategies)) # 1
    BY <1>6, NoRowIsBad, OneIsCheapest
  <2>2. answer.result = "no"
    BY <1>2, <1>6, <2>1 DEF AuthorizeOptimum
  <2>. QED  BY <1>3, <1>6, <2>2
<1>7. ASSUME Strategies # <<>>, EligibleSet \subseteq Ranked, NEW n \in EligibleSet, Strictly(n)
      PROVE  /\ answer.result = "yes" <=> CanBeBound(n)
             /\ answer.result = "yes" => answer.row[1].id = SelectionOf(plan[n])
  <2>. DEFINE row == Strategies[n]
  <2>1. BadRows(Strategies) = {} /\ LegalRows(Strategies) # {}
    <3>1. LegalRows(Strategies) = {Strategies[m] : m \in EligibleSet}
      BY <1>7, CheapestIsFastest
    <3>2. LegalRows(Strategies) # {}
      BY <1>7, <3>1
    <3>. QED  BY <1>7, <3>2, NoRowIsBad
  <2>2. Cheapest(Strategies) = {row} /\ Cardinality(Cheapest(Strategies)) = 1
    BY <1>7, OneIsCheapest, FS_Singleton
  <2>3. (CHOOSE r \in Cheapest(Strategies) : TRUE) = row
    <3>. HIDE DEF row
    <3>. QED  BY <2>2
  <2>4. Len(row.scope) = 3 /\ (OptimumPlan(row).plan.result = "yes" <=> CanBeBound(n))
    BY ChosenIsBound
  <2>5. row.id = SelectionOf(plan[n])
    BY <1>1, StrategyFacts
  <2>. HIDE DEF row
  <2>6. answer = IF OptimumPlan(row).plan.result # "yes" THEN Refuse("optimum.unbound")
                 ELSE Choice("yes", "optimum.selected", <<row>>, <<OptimumPlan(row)>>)
    BY <1>7, <2>1, <2>2, <2>3, <2>4, Zenon DEF AuthorizeOptimum
  <2>. HIDE DEF answer
  <2>7. CASE CanBeBound(n)
    <3>1. answer = Choice("yes", "optimum.selected", <<row>>, <<OptimumPlan(row)>>)
      BY <2>4, <2>6, <2>7
    <3>2. answer.result = "yes" /\ answer.row[1] = row
      BY <3>1 DEF Choice
    <3>. QED  BY <2>5, <2>7, <3>2
  <2>8. CASE ~CanBeBound(n)
    <3>1. answer.result = "no"
      BY <1>2, <2>4, <2>6, <2>8
    <3>. QED  BY <2>8, <3>1
  <2>. QED  BY <2>7, <2>8
<1>8. CASE Strategies # <<>> /\ EligibleSet \subseteq Ranked /\ \E n \in EligibleSet : Strictly(n)
  <2>1. PICK n \in EligibleSet : Strictly(n)
    BY <1>8
  <2>2. Authorized = answer
    BY <1>3, <1>8
  <2>3. \A m \in EligibleSet : Strictly(m) => m = n
    <3>1. \A m \in EligibleSet : Min(Measured(m)) \in Int
      BY <1>8, MeasuredIsOne DEF IInv, Ranked
    <3>2. ASSUME NEW m \in EligibleSet, Strictly(m), m # n  PROVE FALSE
      <4>1. Min(Measured(m)) < Min(Measured(n)) /\ Min(Measured(n)) < Min(Measured(m))
        BY <2>1, <3>2 DEF Strictly
      <4>2. Min(Measured(m)) \in Int /\ Min(Measured(n)) \in Int
        BY <3>1
      <4>. QED  BY <4>1, <4>2
    <3>. QED  BY <3>2
  <2>4. /\ answer.result = "yes" <=> CanBeBound(n)
        /\ answer.result = "yes" => answer.row[1].id = SelectionOf(plan[n])
    BY <1>7, <1>8, <2>1
  <2>. HIDE DEF answer
  <2>. QED  BY <1>8, <2>1, <2>2, <2>3, <2>4
<1>. QED  BY <1>4, <1>5, <1>6, <1>8

\* The ranking names a candidate that no ranked one beats.
LEMMA RankingAgrees ==
  ASSUME IInv, TableOK(q.table), EligibleSet \subseteq Ranked,
         NEW n \in EligibleSet, Strictly(n), pc = "done", q.policy = "measured"
  PROVE  selected = n \/ selected \notin EligibleSet
<1>1. selected = Min(ArgMin) /\ n \in Ranked
  BY DEF IInv, SelectedInv
<1>2. \/ Min(Measured(n)) > Min(Measured(selected))
      \/ Min(Measured(n)) = Min(Measured(selected))
  BY <1>1, ArgMinIsLeast DEF IInv
<1>3. selected \in EligibleSet \ {n} => Min(Measured(n)) < Min(Measured(selected))
  BY DEF Strictly
<1>4. \A m \in EligibleSet : Min(Measured(m)) \in Int
  BY MeasuredIsOne DEF IInv, Ranked
<1>. QED  BY <1>2, <1>3, <1>4

\* What the two ways to a candidate have in common.
LEMMA IInvHandoff == IInv /\ HandInv => HandoffIsExact
<1>. SUFFICES ASSUME IInv, HandInv  PROVE HandoffIsExact
  OBVIOUS
<1>1. ASSUME pc \in {"select", "done"}, TableOK(q.table)
      PROVE  /\ EligibleSet = {n \in DOMAIN plan : Spoken(n)}
             /\ \A n \in EligibleSet : \E k \in star :
                  /\ plan[n].evict = {q.rs[k].object} /\ Fits(k)
                  /\ q.data[q.rs[k].object].end >= q.order[q.rs[k].object].before
                  /\ q.drop[q.rs[k].object].destination = q.space
             /\ Authorized.result = "yes" <=>
                  /\ EligibleSet \subseteq Ranked
                  /\ \E n \in EligibleSet : Strictly(n) /\ CanBeBound(n)
             /\ Authorized.result = "yes" =>
                  \E n \in EligibleSet :
                    /\ Strictly(n) /\ Authorized.row[1].id = SelectionOf(plan[n])
                    /\ pc = "done" /\ q.policy = "measured" =>
                         \/ selected = n
                         \/ selected \notin EligibleSet
  <2>1. EligibleSet = {n \in DOMAIN plan : Spoken(n)}
    BY <1>1, EligibleIsSpoken
  <2>2. \A n \in EligibleSet : \E k \in star :
          /\ plan[n].evict = {q.rs[k].object} /\ Fits(k)
          /\ q.data[q.rs[k].object].end >= q.order[q.rs[k].object].before
          /\ q.drop[q.rs[k].object].destination = q.space
    BY <1>1, EligibleIsWitnessed
  <2>3. Authorized.result = "yes" <=>
          /\ EligibleSet \subseteq Ranked
          /\ \E n \in EligibleSet : Strictly(n) /\ CanBeBound(n)
    BY <1>1, AuthorizedIsFastest
  <2>4. ASSUME Authorized.result = "yes"
        PROVE  \E n \in EligibleSet :
                 /\ Strictly(n) /\ Authorized.row[1].id = SelectionOf(plan[n])
                 /\ pc = "done" /\ q.policy = "measured" =>
                      \/ selected = n
                      \/ selected \notin EligibleSet
    <3>1. PICK n \in EligibleSet : Strictly(n) /\ Authorized.row[1].id = SelectionOf(plan[n])
      BY <1>1, <2>4, AuthorizedIsFastest
    <3>2. EligibleSet \subseteq Ranked
      BY <2>3, <2>4
    <3>3. pc = "done" /\ q.policy = "measured" => selected = n \/ selected \notin EligibleSet
      BY <1>1, <3>1, <3>2, RankingAgrees
    <3>. QED  BY <3>1, <3>3
  <2>. QED  BY <2>1, <2>2, <2>3, <2>4
<1>2. \A n : LicenseRestore(Sel(n))[2] # "yes"
  BY DEF LicenseRestore
<1>. QED  BY <1>1, <1>2 DEF HandoffIsExact

\* The optimum of a capacity plan is authorized exactly if the gates speak for
\* some candidate, each of those has a measured cost and one of them has the
\* least, alone, and can be bound.  Where the ranking chose one of them as well,
\* both name the same candidate, and no gate says more of a candidate than its
\* witnesses.
THEOREM CapacityHandoffIsExact == Spec => []HandoffIsExact
<1>1. Spec => []IInv
  BY CapacityIInv
<1>2. Spec => []HandInv
  BY CapacityHandInv
<1>. QED  BY <1>1, <1>2, IInvHandoff, PTL
=============================================================================
