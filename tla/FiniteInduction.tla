--------------------------- MODULE FiniteInduction ---------------------------
(***************************************************************************)
(* Induction by least counterexample.  The induction theorems of the       *)
(* library take a predicate as a parameter; these lemmas take a set, the   *)
(* set of the counterexamples, and give the least member of it.  What they *)
(* are used for most is recursion: that the equation of a recursive        *)
(* function has a solution, and what the concatenation of lists is.        *)
(***************************************************************************)
EXTENDS Selections, Integers, SequencesExt, FiniteSetTheorems, TLAPS

\* Every nonempty collection of finite sets has a minimal member.
LEMMA MinimalSet ==
  ASSUME NEW C, C # {}, \A T \in C : IsFiniteSet(T)
  PROVE  \E T \in C : \A U \in C : U \subseteq T => U = T
<1>1. C \subseteq FiniteSubsetsOf(UNION C)
  BY DEF FiniteSubsetsOf
<1>2. PICK T \in C : \A U \in C : ~(<<U, T>> \in StrictSubsetOrdering(UNION C))
  BY <1>1, FS_StrictSubsetOrderingWellFounded, WFMin
<1>3. ASSUME NEW U \in C, U \subseteq T, U # T  PROVE FALSE
  <2>1. <<U, T>> \in StrictSubsetOrdering(UNION C)
    BY <1>3 DEF StrictSubsetOrdering
  <2>. QED  BY <1>2, <2>1
<1>. QED  BY <1>3

\* Every nonempty finite set of integers has a least member.
LEMMA LeastInt ==
  ASSUME NEW S \in SUBSET Int, S # {}, IsFiniteSet(S)
  PROVE  \E n \in S : \A m \in S : n <= m
<1>. DEFINE Below(n) == {m \in S : m <= n}
            C == {Below(n) : n \in S}
<1>1. \A T \in C : IsFiniteSet(T)
  BY FS_Subset
<1>2. PICK T \in C : \A U \in C : U \subseteq T => U = T
  <2>. HIDE DEF C
  <2>1. C # {}
    BY DEF C
  <2>. QED  BY <1>1, <2>1, MinimalSet
<1>3. PICK n \in S : T = Below(n)
  OBVIOUS
<1>4. ASSUME NEW m \in S PROVE n <= m
  <2>1. SUFFICES ASSUME m < n PROVE FALSE
    OBVIOUS
  <2>2. \A x \in Int : x <= m => x <= n
    BY <2>1
  <2>3. Below(m) \subseteq Below(n)
    BY <2>2
  <2>4. Below(m) = Below(n)
    <3>. HIDE DEF Below
    <3>. QED  BY <1>2, <1>3, <2>3
  <2>5. n \in Below(n) /\ n \notin Below(m)
    BY <2>1
  <2>. QED  BY <2>4, <2>5
<1>. QED  BY <1>4

\* Every nonempty finite set of integers has a greatest member.
LEMMA GreatestInt ==
  ASSUME NEW S \in SUBSET Int, S # {}, IsFiniteSet(S)
  PROVE  \E n \in S : \A m \in S : m <= n
<1>. DEFINE Above(n) == {m \in S : n <= m}
            C == {Above(n) : n \in S}
<1>1. \A T \in C : IsFiniteSet(T)
  BY FS_Subset
<1>2. PICK T \in C : \A U \in C : U \subseteq T => U = T
  <2>. HIDE DEF C
  <2>1. C # {}
    BY DEF C
  <2>. QED  BY <1>1, <2>1, MinimalSet
<1>3. PICK n \in S : T = Above(n)
  OBVIOUS
<1>4. ASSUME NEW m \in S PROVE m <= n
  <2>1. SUFFICES ASSUME n < m PROVE FALSE
    OBVIOUS
  <2>2. \A x \in Int : m <= x => n <= x
    BY <2>1
  <2>3. Above(m) \subseteq Above(n)
    BY <2>2
  <2>4. Above(m) = Above(n)
    <3>. HIDE DEF Above
    <3>. QED  BY <1>2, <1>3, <2>3
  <2>5. n \in Above(n) /\ n \notin Above(m)
    BY <2>1
  <2>. QED  BY <2>4, <2>5
<1>. QED  BY <1>4

\* Every nonempty set of natural numbers has a least member.
LEMMA LeastNat ==
  ASSUME NEW S \in SUBSET Nat, S # {}
  PROVE  \E n \in S : \A m \in S : n <= m
<1>1. PICK k \in S : TRUE
  OBVIOUS
<1>. DEFINE T == {m \in S : m <= k}
<1>2. T \subseteq 0..k /\ IsFiniteSet(0..k)
  <2>1. k \in Nat
    OBVIOUS
  <2>2. \A m \in Nat : m <= k => m \in 0..k
    BY <2>1
  <2>3. T \subseteq 0..k
    BY <2>2
  <2>. QED  BY <2>1, <2>3, FS_Interval
<1>3. IsFiniteSet(T)
  BY <1>2, FS_Subset
<1>4. k \in T /\ T \in SUBSET Int
  <2>1. k \in Nat /\ \A m \in T : m \in Nat
    OBVIOUS
  <2>2. \A m \in Nat : m \in Int /\ m <= m
    OBVIOUS
  <2>. QED  BY <2>1, <2>2
<1>5. PICK n \in T : \A m \in T : n <= m
  <2>. HIDE DEF T
  <2>. QED  BY <1>3, <1>4, LeastInt
<1>. QED  BY <1>5

\* Induction along 0..n.
LEMMA StepsReach ==
  ASSUME NEW n \in Nat, NEW T, 0 \in T, \A k \in 1..n : k - 1 \in T => k \in T
  PROVE  0..n \subseteq T
<1>. DEFINE Bad == (0..n) \ T
<1>. SUFFICES ASSUME Bad # {} PROVE FALSE
  OBVIOUS
<1>1. Bad \in SUBSET Nat
  OBVIOUS
<1>2. PICK k \in Bad : \A m \in Bad : k <= m
  <2>. HIDE DEF Bad
  <2>. QED  BY <1>1, LeastNat
<1>3. k \in 1..n /\ k - 1 \in 0..n /\ k \notin T /\ k - 1 < k
  OBVIOUS
<1>4. k - 1 \notin Bad
  <2>. HIDE DEF Bad
  <2>. QED  BY <1>1, <1>2, <1>3
<1>. QED  BY <1>3, <1>4

\* Recursion along 0..n: a value and a step, given as a function, have an
\* iteration.  A recursive function of a module is some solution of its
\* equation, and this says that there is one.
StepsOf(X, n) == [1..n -> [X -> X]]
Iteration(g, X, b, n, F) ==
  g \in [0..n -> X] /\ g[0] = b /\ \A k \in 1..n : g[k] = F[k][g[k - 1]]

LEMMA IterationExists ==
  ASSUME NEW X, NEW b \in X, NEW n \in Nat, NEW F \in StepsOf(X, n)
  PROVE  \E g : Iteration(g, X, b, n, F)
<1>. USE DEF StepsOf, Iteration
<1>. DEFINE Solves(g, m) == g[0] = b /\ \A k \in 1..m : g[k] = F[k][g[k - 1]]
            Bad == {m \in 0..n : ~ \E g \in [0..m -> X] : Solves(g, m)}
<1>. SUFFICES ASSUME Bad # {} PROVE FALSE
  <2>1. n \in 0..n
    OBVIOUS
  <2>2. Bad = {} => \E g \in [0..n -> X] : Solves(g, n)
    <3>. HIDE DEF Solves
    <3>. QED  BY <2>1
  <2>. QED  BY <2>2
<1>1. PICK m \in Bad : \A k \in Bad : m <= k
  <2>1. Bad \in SUBSET Nat
    OBVIOUS
  <2>. HIDE DEF Bad
  <2>. QED  BY <2>1, LeastNat
<1>2. m \in 0..n /\ ~ \E g \in [0..m -> X] : Solves(g, m)
  OBVIOUS
<1>. HIDE DEF Solves
<1>3. CASE m = 0
  <2>. DEFINE h == [k \in 0..0 |-> b]
  <2>1. h \in [0..0 -> X] /\ Solves(h, 0)
    BY DEF Solves
  <2>. QED  BY <1>2, <1>3, <2>1
<1>4. CASE m # 0
  <2>1. m - 1 \in 0..n /\ m - 1 \notin Bad /\ m \in 1..n
    <3>1. m \in 1..n
      BY <1>2, <1>4
    <3>2. m - 1 \in 0..n /\ ~(m <= m - 1)
      BY <3>1
    <3>. HIDE DEF Bad
    <3>. QED  BY <1>1, <3>1, <3>2
  <2>2. PICK g \in [0..(m - 1) -> X] : Solves(g, m - 1)
    BY <2>1
  <2>. DEFINE h == [k \in 0..m |-> IF k = m THEN F[m][g[m - 1]] ELSE g[k]]
  <2>3. F[m][g[m - 1]] \in X /\ \A k \in 0..(m - 1) : g[k] \in X
    BY <2>1, <2>2
  <2>4. h \in [0..m -> X]
    BY <2>1, <2>3
  <2>5. h[0] = b
    BY <2>1, <2>2 DEF Solves
  <2>6. \A k \in 1..m : h[k] = F[k][h[k - 1]]
    BY <2>1, <2>2 DEF Solves
  <2>7. Solves(h, m)
    <3>. HIDE DEF h
    <3>. QED  BY <2>5, <2>6 DEF Solves
  <2>. QED  BY <1>2, <2>4, <2>7
<1>. QED  BY <1>3, <1>4

-----------------------------------------------------------------------------
\* The concatenations of the first lists of ss, as an iteration has them.
Concatenations(h, X, ss, n) ==
  /\ h \in [0..n -> Seq(X)] /\ h[0] = <<>>
  /\ \A k \in 1..n : h[k] = h[k - 1] \o ss[k]

\* Whatever the lists are, there are such concatenations.
LEMMA ConcatenationsExist ==
  ASSUME NEW X, NEW n \in Nat, NEW ss, \A k \in 1..n : ss[k] \in Seq(X)
  PROVE  \E h : Concatenations(h, X, ss, n)
<1>. DEFINE F == [k \in 1..n |-> [v \in Seq(X) |-> v \o ss[k]]]
<1>1. F \in StepsOf(Seq(X), n) /\ <<>> \in Seq(X)
  <2>1. \A k \in 1..n, v \in Seq(X) : v \o ss[k] \in Seq(X)
    OBVIOUS
  <2>. QED  BY <2>1 DEF StepsOf
<1>2. PICK h : Iteration(h, Seq(X), <<>>, n, F)
  <2>. HIDE DEF F
  <2>. QED  BY <1>1, IterationExists, Zenon
<1>3. \A k \in 1..n : h[k] = h[k - 1] \o ss[k]
  <2>. SUFFICES ASSUME NEW k \in 1..n PROVE h[k] = h[k - 1] \o ss[k]
    OBVIOUS
  <2>1. k - 1 \in 0..n /\ h[k - 1] \in Seq(X)
    BY <1>2 DEF Iteration
  <2>2. F[k] = [v \in Seq(X) |-> v \o ss[k]]
    OBVIOUS
  <2>. HIDE DEF F
  <2>. QED  BY <1>2, <2>1, <2>2 DEF Iteration
<1>. QED  BY <1>2, <1>3 DEF Iteration, Concatenations

\* The same without the empty one, as FlattenSeq has them.
Flattening(g, X, ss, n) ==
  /\ g \in [1..n -> Seq(X)] /\ g[1] = ss[1]
  /\ \A k \in 2..n : g[k] = g[k - 1] \o ss[k]

\* FlattenSeq, which is recursive, is the last of the concatenations.
LEMMA FlattenUnfolds ==
  ASSUME NEW X, NEW ss \in Seq(Seq(X)), NEW n \in Nat, n = Len(ss), n # 0
  PROVE  \E g : Flattening(g, X, ss, n) /\ FlattenSeq(ss) = g[n]
<1>. DEFINE E(g) == g = [i \in 1..n |-> IF i = 1 THEN ss[i] ELSE g[i - 1] \o ss[i]]
            it == CHOOSE g : E(g)
<1>1. n >= 1 /\ 1 \in 1..n /\ ss \in [1..n -> Seq(X)]
      /\ \A k \in 1..n : ss[k] \in Seq(X) /\ k - 1 \in 0..n
  OBVIOUS
<1>0. /\ \A u, v \in Seq(X) : u \o v \in Seq(X)
      /\ \A v \in Seq(X) : <<>> \o v = v
  OBVIOUS
<1>2. FlattenSeq(ss) = it[n]
  BY DEF FlattenSeq
<1>4. PICK h \in [0..n -> Seq(X)] : h[0] = <<>> /\ \A k \in 1..n : h[k] = h[k - 1] \o ss[k]
  <2>1. \A k \in 1..n : ss[k] \in Seq(X)
    BY <1>1
  <2>2. \E h : Concatenations(h, X, ss, n)
    BY <2>1, ConcatenationsExist, Zenon
  <2>. QED  BY <2>2 DEF Concatenations
<1>5. h[1] = ss[1] /\ \A k \in 2..n : h[k] = h[k - 1] \o ss[k]
  <2>2. h[1] = h[0] \o ss[1] /\ ss[1] \in Seq(X) /\ h[0] = <<>>
    <3>1. h[1] = h[1 - 1] \o ss[1]
      BY <1>1, <1>4
    <3>2. 1 - 1 = 0
      OBVIOUS
    <3>. QED  BY <1>1, <1>4, <3>1, <3>2
  <2>3. h[1] = ss[1]
    BY <1>0, <2>2
  <2>4. 2..n \subseteq 1..n
    OBVIOUS
  <2>. QED  BY <1>4, <2>3, <2>4
<1>. DEFINE w == [k \in 1..n |-> h[k]]
<1>6. E(w)
  <2>1. \A k \in 1..n : w[k] = IF k = 1 THEN ss[k] ELSE w[k - 1] \o ss[k]
    <3>. SUFFICES ASSUME NEW k \in 1..n
                  PROVE  w[k] = IF k = 1 THEN ss[k] ELSE w[k - 1] \o ss[k]
      OBVIOUS
    <3>1. CASE k = 1
      BY <1>1, <1>5, <3>1
    <3>2. CASE k # 1
      <4>1. k \in 2..n /\ k - 1 \in 1..n
        BY <3>2
      <4>2. w[k - 1] = h[k - 1] /\ w[k] = h[k]
        BY <4>1
      <4>. HIDE DEF w
      <4>. QED  BY <1>5, <3>2, <4>1, <4>2
    <3>. QED  BY <3>1, <3>2
  <2>. QED  BY <2>1, Zenon
<1>7. E(it)
  <2>. HIDE DEF w, E
  <2>. QED  BY <1>6
<1>8. DOMAIN it = 1..n /\ it[1] = ss[1] /\ \A k \in 2..n : it[k] = it[k - 1] \o ss[k]
  <2>. DEFINE e == [i \in 1..n |-> IF i = 1 THEN ss[i] ELSE it[i - 1] \o ss[i]]
  <2>1. DOMAIN e = 1..n /\ e[1] = ss[1]
    BY <1>1
  <2>2. \A k \in 2..n : e[k] = it[k - 1] \o ss[k]
    <3>1. \A k \in 2..n : k \in 1..n /\ k # 1
      OBVIOUS
    <3>. HIDE DEF it
    <3>. QED  BY <3>1
  <2>3. it = e
    BY <1>7
  <2>. HIDE DEF it, e
  <2>. QED  BY <2>1, <2>2, <2>3
<1>9. it \in [1..n -> Seq(X)]
  <2>. HIDE DEF it
  <2>. DEFINE Bad == {k \in 1..n : it[k] \notin Seq(X)}
  <2>1. Bad = {}
    <3>. SUFFICES ASSUME Bad # {} PROVE FALSE
      OBVIOUS
    <3>1. PICK k \in Bad : \A j \in Bad : k <= j
      <4>1. Bad \in SUBSET Nat
        BY <1>1
      <4>. HIDE DEF Bad
      <4>. QED  BY <4>1, LeastNat
    <3>2. CASE k = 1
      BY <1>1, <1>8, <3>2
    <3>3. CASE k # 1
      <4>1. k \in 2..n /\ k - 1 \in 1..n /\ ~(k <= k - 1)
        BY <1>1, <3>3
      <4>2. it[k - 1] \in Seq(X)
        BY <3>1, <4>1
      <4>3. it[k] = it[k - 1] \o ss[k] /\ ss[k] \in Seq(X)
        BY <1>1, <1>8, <4>1
      <4>4. it[k] \in Seq(X)
        BY <1>0, <4>2, <4>3
      <4>. QED  BY <4>4
    <3>. QED  BY <3>2, <3>3
  <2>2. it = [k \in 1..n |-> it[k]]
    BY <1>7
  <2>. QED  BY <2>1, <2>2
<1>. QED
  <2>. HIDE DEF it
  <2>. QED  BY <1>2, <1>8, <1>9 DEF Flattening

\* The concatenation of lists is a list.
LEMMA FlattenIsList ==
  ASSUME NEW X, NEW ss \in Seq(Seq(X))
  PROVE  FlattenSeq(ss) \in Seq(X)
<1>1. Len(ss) \in Nat /\ (Len(ss) = 0 => ss = <<>>)
  OBVIOUS
<1>2. CASE Len(ss) = 0
  <2>1. FlattenSeq(ss) = ss
    BY <1>2, Zenon DEF FlattenSeq
  <2>2. <<>> \in Seq(X)
    OBVIOUS
  <2>. QED  BY <1>1, <1>2, <2>1, <2>2, Zenon
<1>3. CASE Len(ss) # 0
  <2>1. PICK g : Flattening(g, X, ss, Len(ss)) /\ FlattenSeq(ss) = g[Len(ss)]
    BY <1>1, <1>3, FlattenUnfolds, Zenon
  <2>2. Len(ss) \in 1..Len(ss)
    BY <1>1, <1>3
  <2>. QED  BY <2>1, <2>2 DEF Flattening
<1>. QED  BY <1>2, <1>3

(***************************************************************************)
(* Where the members of a concatenation come from: the first k lists, one  *)
(* after another, each in its order.                                       *)
(***************************************************************************)
Pieces(s, lst, ofs, ss, k) ==
  /\ lst \in [1..Len(s) -> 1..k]
  /\ \A n \in 1..Len(s) : ofs[n] \in 1..Len(ss[lst[n]]) /\ s[n] = ss[lst[n]][ofs[n]]
  /\ \A m, n \in 1..Len(s) : m < n => lst[m] < lst[n] \/ (lst[m] = lst[n] /\ ofs[m] < ofs[n])
  /\ \A a \in 1..k : \A j \in 1..Len(ss[a]) : \E n \in 1..Len(s) : lst[n] = a /\ ofs[n] = j

IsPieced(s, ss, k) == \E lst, ofs : Pieces(s, lst, ofs, ss, k)

LEMMA PiecesGrow ==
  ASSUME NEW X, NEW s \in Seq(X), NEW ss, NEW k \in Nat, ss[k + 1] \in Seq(X),
         IsPieced(s, ss, k)
  PROVE  IsPieced(s \o ss[k + 1], ss, k + 1)
<1>. DEFINE n == Len(s)
            l == Len(ss[k + 1])
            last == ss[k + 1]
            t == s \o ss[k + 1]
<1>1. /\ n \in Nat /\ l \in Nat /\ n = Len(s) /\ l = Len(last) /\ last = ss[k + 1]
      /\ Len(t) = n + l /\ \A m \in 1..n : t[m] = s[m]
      /\ \A m \in 1..l : t[n + m] = last[m]
  OBVIOUS
<1>2. /\ \A m \in 1..(n + l) : m \in 1..n \/ (m > n /\ m - n \in 1..l /\ n + (m - n) = m)
      /\ \A m \in 1..n : m \in 1..(n + l) /\ ~(m > n)
      /\ \A m \in 1..l : n + m \in 1..(n + l) /\ n + m > n /\ (n + m) - n = m
  BY <1>1
<1>. SUFFICES IsPieced(t, ss, k + 1)
  OBVIOUS
<1>. HIDE DEF t, n, l, last
<1>3. PICK lst, ofs : Pieces(s, lst, ofs, ss, k)
  BY DEF IsPieced
<1>4. /\ lst \in [1..n -> 1..k]
      /\ \A m \in 1..n : ofs[m] \in 1..Len(ss[lst[m]]) /\ s[m] = ss[lst[m]][ofs[m]]
      /\ \A m, j \in 1..n : m < j => lst[m] < lst[j] \/ (lst[m] = lst[j] /\ ofs[m] < ofs[j])
      /\ \A a \in 1..k : \A j \in 1..Len(ss[a]) : \E m \in 1..n : lst[m] = a /\ ofs[m] = j
  BY <1>1, <1>3 DEF Pieces
<1>. DEFINE lst2 == [m \in 1..(n + l) |-> IF m > n THEN k + 1 ELSE lst[m]]
            ofs2 == [m \in 1..(n + l) |-> IF m > n THEN m - n ELSE ofs[m]]
<1>5. /\ \A m \in 1..n : lst2[m] = lst[m] /\ ofs2[m] = ofs[m]
      /\ \A m \in 1..l : lst2[n + m] = k + 1 /\ ofs2[n + m] = m
      /\ \A m \in 1..(n + l) : m > n => lst2[m] = k + 1 /\ ofs2[m] = m - n
  BY <1>2
<1>6. lst2 \in [1..(n + l) -> 1..(k + 1)]
  <2>1. \A m \in 1..n : lst[m] \in 1..(k + 1)
    BY <1>4
  <2>2. k + 1 \in 1..(k + 1)
    OBVIOUS
  <2>3. \A m \in 1..(n + l) : (IF m > n THEN k + 1 ELSE lst[m]) \in 1..(k + 1)
    BY <1>2, <2>1, <2>2
  <2>. QED  BY <2>3
<1>. HIDE DEF lst2, ofs2
<1>7. \A m \in 1..(n + l) : ofs2[m] \in 1..Len(ss[lst2[m]]) /\ t[m] = ss[lst2[m]][ofs2[m]]
  <2>. TAKE m \in 1..(n + l)
  <2>1. CASE m \in 1..n
    BY <1>1, <1>4, <1>5, <2>1
  <2>2. CASE m > n /\ m - n \in 1..l /\ n + (m - n) = m
    <3>1. t[m] = last[m - n] /\ lst2[m] = k + 1 /\ ofs2[m] = m - n
      BY <1>1, <1>5, <2>2
    <3>. QED  BY <1>1, <2>2, <3>1
  <2>. QED  BY <1>2, <2>1, <2>2
<1>8. \A m, j \in 1..(n + l) :
        m < j => lst2[m] < lst2[j] \/ (lst2[m] = lst2[j] /\ ofs2[m] < ofs2[j])
  <2>. SUFFICES ASSUME NEW m \in 1..(n + l), NEW j \in 1..(n + l), m < j
                PROVE  lst2[m] < lst2[j] \/ (lst2[m] = lst2[j] /\ ofs2[m] < ofs2[j])
    OBVIOUS
  <2>1. CASE j \in 1..n
    <3>1. m \in 1..n
      BY <1>1, <2>1
    <3>. QED  BY <1>4, <1>5, <2>1, <3>1
  <2>2. CASE m \in 1..n /\ j > n
    <3>1. lst2[m] \in 1..k /\ lst2[j] = k + 1
      BY <1>4, <1>5, <2>2
    <3>. QED  BY <3>1
  <2>3. CASE m > n /\ j > n
    <3>1. lst2[m] = k + 1 /\ lst2[j] = k + 1 /\ ofs2[m] = m - n /\ ofs2[j] = j - n
      BY <1>5, <2>3
    <3>. QED  BY <1>1, <3>1
  <2>. QED  BY <1>2, <2>1, <2>2, <2>3
<1>9. \A a \in 1..(k + 1) : \A j \in 1..Len(ss[a]) : \E m \in 1..(n + l) : lst2[m] = a /\ ofs2[m] = j
  <2>. TAKE a \in 1..(k + 1)
  <2>. TAKE j \in 1..Len(ss[a])
  <2>1. CASE a \in 1..k
    <3>1. PICK m \in 1..n : lst[m] = a /\ ofs[m] = j
      BY <1>4, <2>1
    <3>. QED  BY <1>2, <1>5, <3>1
  <2>2. CASE a = k + 1
    <3>1. j \in 1..l
      BY <1>1, <2>2
    <3>. QED  BY <1>2, <1>5, <2>2, <3>1
  <2>. QED  BY <2>1, <2>2
<1>10. Pieces(t, lst2, ofs2, ss, k + 1)
  BY <1>1, <1>6, <1>7, <1>8, <1>9 DEF Pieces
<1>. QED  BY <1>10 DEF IsPieced

\* A concatenation has the members of its lists in their order.
LEMMA FlattenIsPieced ==
  ASSUME NEW X, NEW ss \in Seq(Seq(X))
  PROVE  IsPieced(FlattenSeq(ss), ss, Len(ss))
<1>. DEFINE n == Len(ss)
<1>1. n \in Nat /\ n = Len(ss) /\ (n = 0 => ss = <<>>) /\ (n # 0 => n \in 1..n)
      /\ \A k \in 1..n : ss[k] \in Seq(X)
  OBVIOUS
<1>. SUFFICES IsPieced(FlattenSeq(ss), ss, n)
  OBVIOUS
<1>. HIDE DEF n
<1>2. IsPieced(<<>>, ss, 0)
  <2>. DEFINE none == [m \in 1..0 |-> 0]
  <2>1. 1..0 = {} /\ Len(<<>>) = 0 /\ none \in [1..0 -> 1..0]
    OBVIOUS
  <2>2. Pieces(<<>>, none, none, ss, 0)
    BY <2>1 DEF Pieces
  <2>. HIDE DEF none
  <2>. QED  BY <2>2 DEF IsPieced
<1>3. CASE n = 0
  <2>1. FlattenSeq(ss) = <<>>
    <3>1. FlattenSeq(ss) = ss
      BY <1>1, <1>3, Zenon DEF FlattenSeq
    <3>. QED  BY <1>1, <1>3, <3>1
  <2>. QED  BY <1>2, <1>3, <2>1
<1>4. CASE n # 0
  <2>1. PICK g : Flattening(g, X, ss, n) /\ FlattenSeq(ss) = g[n]
    BY <1>1, <1>4, FlattenUnfolds, Zenon
  <2>2. /\ g \in [1..n -> Seq(X)] /\ g[1] = ss[1]
        /\ \A k \in 2..n : g[k] = g[k - 1] \o ss[k]
    BY <2>1 DEF Flattening
  <2>. DEFINE h == [k \in 0..n |-> IF k = 0 THEN <<>> ELSE g[k]]
  <2>3. /\ h[0] = <<>> /\ \A k \in 1..n : h[k] = g[k] /\ k \in 0..n
        /\ \A k \in 0..n : h[k] \in Seq(X)
    <3>1. /\ \A k \in 1..n : k \in 0..n /\ k # 0
          /\ 0 \in 0..n /\ \A k \in 0..n : k = 0 \/ k \in 1..n
      BY <1>1
    <3>2. <<>> \in Seq(X)
      OBVIOUS
    <3>3. h[0] = <<>> /\ \A k \in 1..n : h[k] = g[k] /\ k \in 0..n
      BY <3>1
    <3>. HIDE DEF h
    <3>. QED  BY <2>2, <3>1, <3>2, <3>3
  <2>. HIDE DEF h
  <2>4. \A k \in 1..n : k - 1 \in 0..n /\ h[k] = h[k - 1] \o ss[k] /\ (k - 1) + 1 = k /\ k - 1 \in Nat
    <3>. TAKE k \in 1..n
    <3>0. k - 1 \in 0..n /\ (k - 1) + 1 = k /\ k - 1 \in Nat
      BY <1>1
    <3>1. CASE k = 1
      <4>1. h[k] = ss[1] /\ h[k - 1] = <<>> /\ ss[1] \in Seq(X)
        BY <1>1, <2>2, <2>3, <3>1
      <4>2. \A v \in Seq(X) : <<>> \o v = v
        OBVIOUS
      <4>. QED  BY <3>0, <3>1, <4>1, <4>2
    <3>2. CASE k # 1
      <4>1. k \in 2..n /\ k - 1 \in 1..n
        BY <1>1, <3>2
      <4>. QED  BY <2>2, <2>3, <3>0, <4>1
    <3>. QED  BY <3>1, <3>2
  <2>. DEFINE T == {k \in 0..n : IsPieced(h[k], ss, k)}
  <2>5. 0 \in T
    BY <1>1, <1>2, <2>3
  <2>6. ASSUME NEW k \in 1..n, k - 1 \in T PROVE k \in T
    <3>1. /\ h[k - 1] \in Seq(X) /\ ss[k] \in Seq(X) /\ k - 1 \in Nat /\ (k - 1) + 1 = k
          /\ IsPieced(h[k - 1], ss, k - 1) /\ h[k] = h[k - 1] \o ss[k]
      BY <1>1, <2>3, <2>4, <2>6
    <3>2. ss[(k - 1) + 1] \in Seq(X)
      BY <3>1
    <3>3. IsPieced(h[k - 1] \o ss[(k - 1) + 1], ss, (k - 1) + 1)
      BY <3>1, <3>2, PiecesGrow, Zenon
    <3>4. IsPieced(h[k], ss, k)
      BY <3>1, <3>3
    <3>. QED  BY <2>3, <3>4
  <2>7. 0..n \subseteq T
    <3>. HIDE DEF T
    <3>. QED  BY <1>1, <2>5, <2>6, StepsReach
  <2>8. n \in 0..n
    BY <1>1
  <2>. QED  BY <1>1, <1>4, <2>1, <2>3, <2>7, <2>8
<1>. QED  BY <1>3, <1>4

-----------------------------------------------------------------------------
(***************************************************************************)
(* The rows picked of a list, by the equations Picked solves.              *)
(***************************************************************************)
Picking(p, n, R, rows, S) ==
  /\ p \in [0..n -> Seq(R)] /\ p[0] = <<>> /\ Picked(rows, S) = p[n]
  /\ \A i \in 1..n : p[i] = IF i \in S THEN Append(p[i - 1], rows[i]) ELSE p[i - 1]

LEMMA PickedUnfolds ==
  ASSUME NEW R, NEW rows \in Seq(R), NEW n \in Nat, n = Len(rows), NEW S
  PROVE  \E p : Picking(p, n, R, rows, S)
<1>. DEFINE E(g) == g = [i \in 0..n |->
                      IF i = 0 THEN <<>>
                      ELSE IF i \in S THEN Append(g[i - 1], rows[i]) ELSE g[i - 1]]
            it == CHOOSE g : E(g)
            F == [i \in 1..n |-> [v \in Seq(R) |-> IF i \in S THEN Append(v, rows[i]) ELSE v]]
<1>1. Picked(rows, S) = it[n]
  BY DEF Picked
<1>2. /\ \A i \in 1..n : rows[i] \in R /\ i - 1 \in 0..n /\ i # 0 /\ i \in 0..n
      /\ <<>> \in Seq(R) /\ \A v \in Seq(R), x \in R : Append(v, x) \in Seq(R)
  OBVIOUS
<1>3. F \in StepsOf(Seq(R), n)
  <2>1. \A i \in 1..n, v \in Seq(R) : (IF i \in S THEN Append(v, rows[i]) ELSE v) \in Seq(R)
    BY <1>2
  <2>. QED  BY <2>1 DEF StepsOf
<1>4. PICK h : Iteration(h, Seq(R), <<>>, n, F)
  <2>. HIDE DEF F
  <2>. QED  BY <1>2, <1>3, IterationExists, Zenon
<1>5. /\ h \in [0..n -> Seq(R)] /\ h[0] = <<>>
      /\ \A i \in 1..n : h[i] = IF i \in S THEN Append(h[i - 1], rows[i]) ELSE h[i - 1]
  <2>1. h \in [0..n -> Seq(R)] /\ h[0] = <<>> /\ \A i \in 1..n : h[i] = F[i][h[i - 1]]
    BY <1>4 DEF Iteration
  <2>2. \A i \in 1..n : h[i - 1] \in Seq(R)
    BY <1>2, <2>1
  <2>. QED  BY <2>1, <2>2
<1>6. E(h)
  <2>1. \A i \in 0..n : h[i] = IF i = 0 THEN <<>>
                      ELSE IF i \in S THEN Append(h[i - 1], rows[i]) ELSE h[i - 1]
    <3>1. \A i \in 0..n : i = 0 \/ i \in 1..n
      OBVIOUS
    <3>. QED  BY <1>2, <1>5, <3>1
  <2>. QED  BY <1>5, <2>1, Zenon
<1>7. E(it)
  <2>. HIDE DEF E
  <2>. QED  BY <1>6
<1>8. /\ it[0] = <<>>
      /\ \A i \in 1..n : it[i] = IF i \in S THEN Append(it[i - 1], rows[i]) ELSE it[i - 1]
      /\ it = [i \in 0..n |-> it[i]]
  <2>1. 0 \in 0..n
    OBVIOUS
  <2>. DEFINE e == [i \in 0..n |-> IF i = 0 THEN <<>>
                      ELSE IF i \in S THEN Append(it[i - 1], rows[i]) ELSE it[i - 1]]
  <2>2. it = e
    BY <1>7
  <2>. HIDE DEF it
  <2>3. e[0] = <<>> /\ e = [i \in 0..n |-> e[i]]
    BY <2>1
  <2>4. \A i \in 1..n : e[i] = IF i \in S THEN Append(it[i - 1], rows[i]) ELSE it[i - 1]
    BY <1>2
  <2>. HIDE DEF e
  <2>. QED  BY <2>2, <2>3, <2>4
<1>9. it \in [0..n -> Seq(R)]
  <2>. HIDE DEF it
  <2>. DEFINE T == {i \in 0..n : it[i] \in Seq(R)}
  <2>1. 0 \in T /\ \A i \in 1..n : i - 1 \in T => i \in T
    BY <1>2, <1>8
  <2>2. 0..n \subseteq T
    <3>. HIDE DEF T
    <3>. QED  BY <2>1, StepsReach
  <2>. QED  BY <1>8, <2>2
<1>10. Picking(it, n, R, rows, S)
  <2>. HIDE DEF it
  <2>. QED  BY <1>1, <1>8, <1>9 DEF Picking
<1>. HIDE DEF it
<1>. QED  BY <1>10

(***************************************************************************)
(* What is picked has the members of the list at the given positions, each *)
(* once, in their order.                                                   *)
(***************************************************************************)
Selects(s, pos, rows, S) ==
  /\ pos \in [1..Len(s) -> S]
  /\ \A j \in 1..Len(s) : s[j] = rows[pos[j]]
  /\ \A i, j \in 1..Len(s) : i # j => pos[i] # pos[j]
  /\ \A i, j \in 1..Len(s) : i < j => pos[i] < pos[j]
  /\ \A i \in S : \E j \in 1..Len(s) : pos[j] = i

LEMMA SelectionGrows ==
  ASSUME NEW R, NEW s \in Seq(R), NEW rows, NEW pos, NEW S, NEW k, \A i \in S : i # k /\ i < k,
         rows[k] \in R, Selects(s, pos, rows, S)
  PROVE  \E more : Selects(Append(s, rows[k]), more, rows, S \cup {k})
<1>. DEFINE n == Len(s)
            t == Append(s, rows[k])
            more == [j \in 1..(n + 1) |-> IF j = n + 1 THEN k ELSE pos[j]]
<1>1. /\ n \in Nat /\ Len(t) = n + 1 /\ t[n + 1] = rows[k] /\ \A j \in 1..n : t[j] = s[j]
      /\ \A j \in 1..(n + 1) : j = n + 1 \/ (j \in 1..n /\ j # n + 1)
      /\ \A j \in 1..n : j \in 1..(n + 1) /\ j # n + 1
      /\ n + 1 \in 1..(n + 1)
      /\ \A i, j \in 1..(n + 1) : i < j => i \in 1..n
  OBVIOUS
<1>. HIDE DEF t, n
<1>2. /\ pos \in [1..n -> S] /\ \A j \in 1..n : s[j] = rows[pos[j]]
      /\ \A i, j \in 1..n : i # j => pos[i] # pos[j]
      /\ \A i, j \in 1..n : i < j => pos[i] < pos[j]
      /\ \A i \in S : \E j \in 1..n : pos[j] = i
  BY DEF Selects, n
<1>3. more[n + 1] = k /\ \A j \in 1..n : more[j] = pos[j]
  BY <1>1
<1>4. more \in [1..(n + 1) -> S \cup {k}]
  <2>1. \A j \in 1..(n + 1) : (IF j = n + 1 THEN k ELSE pos[j]) \in S \cup {k}
    BY <1>1, <1>2
  <2>. QED  BY <2>1
<1>. HIDE DEF more
<1>5. \A j \in 1..(n + 1) : t[j] = rows[more[j]]
  BY <1>1, <1>2, <1>3
<1>6. \A i, j \in 1..(n + 1) : i # j => more[i] # more[j]
  BY <1>1, <1>2, <1>3
<1>7. \A i \in S \cup {k} : \E j \in 1..(n + 1) : more[j] = i
  BY <1>1, <1>2, <1>3
<1>8. \A i, j \in 1..(n + 1) : i < j => more[i] < more[j]
  BY <1>1, <1>2, <1>3
<1>9. Selects(t, more, rows, S \cup {k})
  BY <1>1, <1>4, <1>5, <1>6, <1>7, <1>8 DEF Selects
<1>. QED  BY <1>9 DEF t

LEMMA PickedSelects ==
  ASSUME NEW R, NEW rows \in Seq(R), NEW S \in SUBSET DOMAIN rows
  PROVE  Picked(rows, S) \in Seq(R) /\ \E pos : Selects(Picked(rows, S), pos, rows, S)
<1>. DEFINE n == Len(rows)
<1>1. n \in Nat /\ n = Len(rows) /\ DOMAIN rows = 1..n /\ \A i \in 1..n : rows[i] \in R
  OBVIOUS
<1>. HIDE DEF n
<1>0. PICK p : Picking(p, n, R, rows, S)
  BY <1>1, PickedUnfolds, Zenon
<1>2. /\ p \in [0..n -> Seq(R)] /\ p[0] = <<>> /\ Picked(rows, S) = p[n]
      /\ \A i \in 1..n : p[i] = IF i \in S THEN Append(p[i - 1], rows[i]) ELSE p[i - 1]
  BY <1>0 DEF Picking
<1>. DEFINE Below(k) == {i \in S : i <= k}
            T == {k \in 0..n : \E pos : Selects(p[k], pos, rows, Below(k))}
<1>3. 0 \in T
  <2>1. Below(0) = {}
    BY <1>1
  <2>. DEFINE none == [j \in 1..0 |-> 0]
  <2>2. Len(<<>>) = 0 /\ 1..0 = {} /\ none \in [1..0 -> {}]
    OBVIOUS
  <2>3. Selects(<<>>, none, rows, {})
    BY <2>2 DEF Selects
  <2>. HIDE DEF none, Below
  <2>4. Selects(p[0], none, rows, Below(0))
    BY <1>2, <2>1, <2>3, Zenon
  <2>. QED  BY <1>1, <2>4
<1>4. ASSUME NEW k \in 1..n, k - 1 \in T
      PROVE  k \in T
  <2>1. PICK pos : Selects(p[k - 1], pos, rows, Below(k - 1))
    BY <1>4
  <2>2. k \in 0..n /\ k - 1 \in 0..n /\ p[k - 1] \in Seq(R) /\ rows[k] \in R
    BY <1>1, <1>2
  <2>3. CASE k \in S
    <3>1. Below(k) = Below(k - 1) \cup {k} /\ \A i \in Below(k - 1) : i # k /\ i < k
      BY <1>1, <2>3
    <3>. HIDE DEF Below
    <3>2. \E more : Selects(Append(p[k - 1], rows[k]), more, rows, Below(k - 1) \cup {k})
      BY <2>1, <2>2, <3>1, SelectionGrows, Zenon
    <3>. QED  BY <1>2, <2>2, <2>3, <3>1, <3>2
  <2>4. CASE k \notin S
    <3>1. Below(k) = Below(k - 1)
      BY <1>1, <2>4
    <3>. HIDE DEF Below
    <3>. QED  BY <1>2, <2>1, <2>2, <2>4, <3>1
  <2>. QED  BY <2>3, <2>4
<1>5. 0..n \subseteq T
  <2>. HIDE DEF T
  <2>. QED  BY <1>1, <1>3, <1>4, StepsReach
<1>6. Below(n) = S /\ n \in 0..n
  BY <1>1
<1>. HIDE DEF Below
<1>. QED  BY <1>2, <1>5, <1>6

\* A selection of all positions from one on is what is left of the list.
IsRest(rest, R, rows, m) ==
  /\ rest \in Seq(R) /\ Len(rest) = Len(rows) - m
  /\ \A j \in 1..(Len(rows) - m) : rest[j] = rows[m + j]

LEMMA PickedFromOn ==
  ASSUME NEW R, NEW rows \in Seq(R), NEW m \in 0..Len(rows)
  PROVE  IsRest(Picked(rows, (m + 1)..Len(rows)), R, rows, m)
<1>. DEFINE n == Len(rows)
            S == (m + 1)..Len(rows)
<1>1. n \in Nat /\ n = Len(rows) /\ m \in 0..n /\ S = (m + 1)..n /\ \A i \in 1..n : rows[i] \in R
  OBVIOUS
<1>. SUFFICES IsRest(Picked(rows, S), R, rows, m)
  OBVIOUS
<1>. HIDE DEF n, S
<1>0. PICK p : Picking(p, n, R, rows, S)
  BY <1>1, PickedUnfolds, Zenon
<1>2. /\ p \in [0..n -> Seq(R)] /\ p[0] = <<>> /\ Picked(rows, S) = p[n]
      /\ \A i \in 1..n : p[i] = IF i \in S THEN Append(p[i - 1], rows[i]) ELSE p[i - 1]
  BY <1>0 DEF Picking
<1>. DEFINE Left(k) == IF k <= m THEN 0 ELSE k - m
            T == {k \in 0..n : /\ Len(p[k]) = Left(k)
                               /\ \A j \in 1..Left(k) : p[k][j] = rows[m + j]}
<1>3. 0 \in T
  <2>1. Left(0) = 0 /\ Len(p[0]) = 0 /\ 0 \in 0..n
    BY <1>1, <1>2
  <2>2. 1..0 = {}
    OBVIOUS
  <2>. HIDE DEF Left
  <2>. QED  BY <2>1, <2>2
<1>4. ASSUME NEW k \in 1..n, k - 1 \in T
      PROVE  k \in T
  <2>0. k \in 0..n /\ k - 1 \in 0..n /\ rows[k] \in R
    BY <1>1
  <2>1. /\ p[k - 1] \in Seq(R)
        /\ Len(p[k - 1]) = Left(k - 1) /\ \A j \in 1..Left(k - 1) : p[k - 1][j] = rows[m + j]
    <3>. HIDE DEF Left
    <3>. QED  BY <1>2, <1>4, <2>0
  <2>2. CASE k <= m
    <3>1. Left(k) = 0 /\ Left(k - 1) = 0 /\ k \notin S /\ 1..0 = {}
      BY <1>1, <2>2
    <3>2. p[k] = p[k - 1]
      BY <1>2, <3>1
    <3>. HIDE DEF Left
    <3>. QED  BY <2>1, <3>1, <3>2
  <2>3. CASE k > m
    <3>. DEFINE l == k - 1 - m
    <3>1. Left(k - 1) = l /\ Left(k) = l + 1 /\ l \in Nat /\ k \in S /\ m + (l + 1) = k
      BY <1>1, <2>3
    <3>2. p[k] = Append(p[k - 1], rows[k])
      BY <1>2, <3>1
    <3>. HIDE DEF l, Left
    <3>3. /\ Len(p[k]) = l + 1 /\ p[k][l + 1] = rows[k]
          /\ \A j \in 1..l : p[k][j] = p[k - 1][j]
      BY <2>1, <3>1, <3>2
    <3>4. \A j \in 1..(l + 1) : j \in 1..l \/ j = l + 1
      BY <3>1
    <3>5. \A j \in 1..(l + 1) : p[k][j] = rows[m + j]
      BY <2>1, <3>1, <3>3, <3>4
    <3>. QED  BY <2>1, <3>1, <3>3, <3>5
  <2>. QED  BY <1>1, <2>2, <2>3
<1>5. 0..n \subseteq T
  <2>. HIDE DEF T
  <2>. QED  BY <1>1, <1>3, <1>4, StepsReach
<1>6. n \in T /\ Left(n) = n - m
  BY <1>1, <1>5
<1>. HIDE DEF Left
<1>. QED  BY <1>1, <1>2, <1>6 DEF IsRest
=============================================================================
