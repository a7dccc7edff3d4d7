---------------------- MODULE ScheduleExecutionProofs ----------------------
(***************************************************************************)
(* Soundness of the happens-before oracle: no run of an accepted program   *)
(* contradicts the graph, and none reads a residency before a write of it  *)
(* is complete.  For programs without branches, of any size and nesting.   *)
(* In the second part the sequential baseline: the one block the patterns  *)
(* of the lowering leave is a linear extension of the graph, whatever      *)
(* order they fire in.  For all programs.                                  *)
(***************************************************************************)
EXTENDS ScheduleExecution, SequentialLowering, ExecutionOracleProofs, WellFoundedInduction

\* A non-empty set of numbers has a least element.
LEMMA NatMin ==
  ASSUME NEW T \in SUBSET Nat, T # {}
  PROVE  \E x \in T : \A y \in T : x <= y
<1>1. IsWellFoundedOn(OpToRel(<, Nat), Nat)
  BY NatLessThanWellFounded
<1>2. PICK x \in T : \A y \in T : ~(<<y, x>> \in OpToRel(<, Nat))
  BY <1>1, WFMin, Zenon
<1>3. \A y \in T : ~(y < x)
  <2>. SUFFICES ASSUME NEW y \in T, y < x PROVE FALSE
    OBVIOUS
  <2>1. <<y, x>> \in OpToRel(<, Nat)
    BY SMT DEF OpToRel
  <2>. QED  BY <1>2, <2>1
<1>. QED  BY <1>3, SMT

-----------------------------------------------------------------------------
(***************************************************************************)
(* The shape of a program.                                                 *)
(***************************************************************************)
\* A set that holds an operation and the children of its members holds every
\* operation the first one encloses.
LEMMA EnclosedByInduction ==
  ASSUME NEW q, Legal(q), NEW a \in Ops(q), NEW T, a \in T,
         \A i \in T : Children(q, i) \subseteq T,
         NEW w \in Ops(q), Encloses(q, a, w)
  PROVE  w \in T
<1>. DEFINE U == {x \in Ops(q) : Encloses(q, a, x) /\ x \notin T}
<1>. SUFFICES ASSUME U # {} PROVE FALSE
  OBVIOUS
<1>1. U \in SUBSET Nat /\ Ops(q) \subseteq Nat /\ a \in Nat
  BY Placement
<1>2. PICK x \in U : \A y \in U : x <= y
  <2>. HIDE DEF U
  <2>. QED  BY <1>1, NatMin
<1>3. /\ x \in Ops(q) /\ a < x /\ x \notin T /\ x \in Nat
      /\ \A j \in (a + 1)..x : q[j].parent >= a
  BY <1>1, <1>2 DEF Encloses
<1>. DEFINE y == q[x].parent
<1>4. y >= a /\ x \in Children(q, y)
  BY <1>1, <1>3 DEF Children
<1>5. y \in Ops(q) /\ y < x /\ y \in Nat
  <2>1. y # 0
    BY <1>1, <1>3, <1>4, Placement
  <2>. QED  BY <1>1, <1>3, <2>1, Placement
<1>6. y \in T
  <2>1. CASE y = a
    BY <2>1
  <2>2. CASE y # a
    <3>1. Encloses(q, a, y)
      BY <1>1, <1>3, <1>4, <1>5, <2>2 DEF Encloses
    <3>2. y \in T \/ y \in U
      BY <1>5, <3>1
    <3>. QED  BY <1>2, <1>3, <1>5, <3>2
  <2>. QED  BY <2>1, <2>2
<1>. QED  BY <1>3, <1>4, <1>6

-----------------------------------------------------------------------------
(***************************************************************************)
(* What RunInv gives: an operation is complete after its graph             *)
(* predecessors.                                                           *)
(***************************************************************************)
LEMMA RunFacts ==
  ASSUME OracleInv, RunInv
  PROVE  /\ Legal(p) /\ begun \subseteq Ops(p) /\ ended \subseteq begun
         /\ landed \subseteq AsyncWrites(p) \cap begun
         /\ Ops(p) \subseteq Nat \ {0}
  BY OpsArePositive DEF OracleInv, OracleTypeOK, RunInv, RunTypeOK

LEMMA BodyEnded ==
  ASSUME OracleInv, RunInv, Straight(p), NEW j \in ended
  PROVE  BodyFrontier(p, in, j) \subseteq ended
<1>1. Legal(p) /\ j \in Ops(p) /\ j \in begun
  BY RunFacts
<1>2. \A i \in ended : Children(p, i) \subseteq ended /\ Terms(p, i) \subseteq ended
  BY RunFacts, Placement DEF RunInv
<1>3. CASE Kind(p, j) = "concurrent"
  BY <1>2, <1>3 DEF BodyFrontier, TaskFrontier
<1>4. CASE Kind(p, j) = "pipeline"
  <2>1. in[j] \subseteq ended
    BY <1>1, <1>4 DEF RunInv, Walked
  <2>2. LastStage(p, j) # 0 => LastStage(p, j) \in ended
    BY <1>1, <1>2, <1>4, PipelineTerm
  <2>. QED  BY <1>2, <1>4, <2>1, <2>2 DEF BodyFrontier, TaskFrontier
<1>5. CASE Kind(p, j) \notin {"concurrent", "pipeline"}
  BY <1>2, <1>5 DEF BodyFrontier
<1>. QED  BY <1>3, <1>4, <1>5

LEMMA CompleteIsEnded ==
  ASSUME OracleInv, RunInv, Straight(p), NEW t, Complete(t)
  PROVE  t \in ended
<1>1. CASE t \in AsyncWrites(p)
  <2>1. t \in begun /\ Kind(p, t) \in LeafKinds
    BY <1>1, RunFacts DEF Complete, AsyncWrites, LeafKinds
  <2>. QED  BY <2>1 DEF RunInv
<1>. QED  BY <1>1 DEF Complete

LEMMA InvRespectsOrder == OracleInv /\ RunInv => OrderRespected
<1>. SUFFICES ASSUME OracleInv, RunInv, Straight(p),
                     NEW x \in Ops(p), NEW y \in succ[x], y \in ended
              PROVE  x \in ended
  BY DEF OrderRespected
<1>1. y \in begun /\ y \in Ops(p) /\ Walked(p, y) /\ x \in EdgesInto(p, in, y)
  BY RunFacts DEF OracleInv, WalkInv
<1>2. CASE Kind(p, y) \in RegionKinds
  BY <1>1, <1>2, BodyEnded DEF EdgesInto
<1>3. CASE Kind(p, y) \notin RegionKinds
  <2>1. pc = "accepted" /\ in[y] \subseteq ended
    BY <1>1 DEF RunInv
  <2>2. Incoming(p, in, y) = in[y]
    BY <1>1, <2>1 DEF OracleInv, WalkInv
  <2>3. \A t \in p[y].toks : t \in ended
    BY <1>1, CompleteIsEnded DEF RunInv
  <2>. QED  BY <1>1, <1>3, <2>1, <2>2, <2>3 DEF EdgesInto
<1>. QED  BY <1>2, <1>3

-----------------------------------------------------------------------------
(***************************************************************************)
(* The steps of a run keep RunInv.                                         *)
(***************************************************************************)
LEMMA OnlyTasksOwnCopies ==
  ASSUME NEW i, OwnCopies(i) # {}
  PROVE  Kind(p, i) = "task" /\ \A w \in OwnCopies(i) : Encloses(p, i, w) /\ w \in Ops(p)
  BY DEF OwnCopies, IsParentTask, TasksAround, OfKind, AsyncWrites, Kind

\* An operation starts when everything before it in the graph is complete.
LEMMA IncomingEnded ==
  ASSUME OracleInv, RunInv, Straight(p), pc = "accepted",
         NEW i \in Ops(p), Ready(i), Walked(p, i)
  PROVE  in[i] \subseteq ended
<1>1. Legal(p) /\ in[i] = Incoming(p, in, i)
  BY RunFacts DEF OracleInv, WalkInv
<1>2. CASE p[i].prev # 0 /\ ~InConcurrent(p, i)
  <2>1. p[i].prev \in Before(i)
    BY <1>1, <1>2, Placement DEF Before, Children, Legal, PlacedOK
  <2>2. p[i].prev \in ended
    BY <1>2, <2>1 DEF Ready
  <2>. QED  BY <1>1, <1>2, <2>2, BodyEnded DEF Incoming, Outgoing
<1>3. CASE ~(p[i].prev # 0 /\ ~InConcurrent(p, i)) /\ p[i].parent # 0
  <2>1. p[i].parent \in begun
    BY <1>3 DEF Ready
  <2>2. Kind(p, p[i].parent) \in RegionKinds
    BY <1>1, <1>3 DEF Legal, PlacedOK
  <2>3. Walked(p, p[i].parent)
    BY <2>2 DEF Walked, RegionKinds, Branches
  <2>4. in[p[i].parent] \subseteq ended
    BY <2>1, <2>3 DEF RunInv
  <2>. QED  BY <1>1, <1>3, <2>4 DEF Incoming
<1>4. CASE ~(p[i].prev # 0 /\ ~InConcurrent(p, i)) /\ p[i].parent = 0
  BY <1>1, <1>4 DEF Incoming
<1>. QED  BY <1>2, <1>3, <1>4

LEMMA IssuePreserves ==
  ASSUME OracleInv, RunInv, pc = "accepted", UNCHANGED oracleVars,
         NEW i \in Ops(p), Issue(i)
  PROVE  RunInv'
<1>1. UNCHANGED <<p, pc, next, in, sync, events, todo, cur, cands, failed, succ>>
  BY DEF oracleVars
<1>2. /\ i \notin begun /\ Ready(i) /\ begun' = begun \cup {i} /\ landed' = landed
      /\ ended' = IF Kind(p, i) \in RegionKinds THEN ended ELSE ended \cup {i}
  BY DEF Issue
<1>3. RunTypeOK'
  <2>1. \A c \in RegionsToRun(i) : c \in 0..2
    BY RunFacts DEF RegionsToRun, Legal, RegionsOK
  <2>2. taken' \in [Ops(p) -> 0..2]
    BY <2>1 DEF Issue, RunInv, RunTypeOK
  <2>. QED  BY <1>1, <1>2, <2>2, RunFacts DEF RunTypeOK, AsyncWrites
<1>4. ASSUME Straight(p), NEW j \in begun'
      PROVE  /\ Kind(p, j) \in LeafKinds => j \in ended'
             /\ p[j].parent # 0 => p[j].parent \in begun'
             /\ ~InConcurrent(p, j) \/ Kind(p, j) = "yield" => Before(j) \subseteq ended'
             /\ Walked(p, j) => in[j] \subseteq ended'
             /\ \A t \in p[j].toks : Complete(t)'
  <2>1. CASE j \in begun
    BY <1>1, <1>2, <1>4, <2>1 DEF RunInv, Complete
  <2>2. CASE j = i
    <3>1. Kind(p, i) \in LeafKinds => i \in ended'
      BY <1>2, RunFacts, LeavesAreLeaves
    <3>2. Walked(p, i) => in[i] \subseteq ended'
      BY <1>2, <1>4, IncomingEnded
    <3>3. \A t \in p[i].toks : Complete(t)'
      BY <1>1, <1>2 DEF Ready, Complete
    <3>. QED  BY <1>2, <2>2, <3>1, <3>2, <3>3 DEF Ready
  <2>. QED  BY <1>2, <2>1, <2>2
<1>5. ASSUME Straight(p), NEW j \in ended'
      PROVE  Children(p, j) \subseteq ended' /\ OwnCopies(j) \subseteq landed'
  <2>1. CASE j \in ended
    BY <1>2, <1>5, <2>1 DEF RunInv
  <2>2. CASE j \notin ended
    <3>1. j = i /\ Kind(p, i) \notin RegionKinds
      BY <1>2, <1>5, <2>2
    <3>2. Children(p, i) = {}
      BY <3>1, RunFacts, LeavesAreLeaves
    <3>3. OwnCopies(i) = {}
      BY <3>1, OnlyTasksOwnCopies DEF RegionKinds
    <3>. QED  BY <3>1, <3>2, <3>3
  <2>. QED  BY <2>1, <2>2
<1>6. \A j : Before(j)' = Before(j) /\ OwnCopies(j)' = OwnCopies(j)
  BY <1>1 DEF Before, OwnCopies
<1>. QED  BY <1>1, <1>3, <1>4, <1>5, <1>6 DEF RunInv

LEMMA LandPreserves ==
  ASSUME OracleInv, RunInv, pc = "accepted", UNCHANGED oracleVars,
         NEW i \in Ops(p), Land(i)
  PROVE  RunInv'
<1>1. UNCHANGED <<p, pc, next, in, sync, events, todo, cur, cands, failed, succ>>
  BY DEF oracleVars
<1>2. UNCHANGED <<begun, ended, taken>> /\ landed' = landed \cup {i}
      /\ i \in AsyncWrites(p) \cap begun
  BY DEF Land
<1>3. RunTypeOK'
  BY <1>1, <1>2 DEF RunInv, RunTypeOK
<1>4. \A j : Before(j)' = Before(j) /\ OwnCopies(j)' = OwnCopies(j) /\ (Complete(j) => Complete(j)')
  BY <1>1, <1>2 DEF Before, OwnCopies, Complete
<1>. QED  BY <1>1, <1>2, <1>3, <1>4 DEF RunInv

LEMMA FinishPreserves ==
  ASSUME OracleInv, RunInv, pc = "accepted", UNCHANGED oracleVars,
         NEW i \in Ops(p), Finish(i)
  PROVE  RunInv'
<1>1. UNCHANGED <<p, pc, next, in, sync, events, todo, cur, cands, failed, succ>>
  BY DEF oracleVars
<1>2. /\ i \in begun /\ i \notin ended /\ LastOps(i) \subseteq ended
      /\ OwnCopies(i) \cap begun \subseteq landed
      /\ ended' = ended \cup {i} /\ UNCHANGED <<begun, landed, taken>>
  BY DEF Finish
<1>3. RunTypeOK'
  BY <1>1, <1>2 DEF RunInv, RunTypeOK
<1>4. ASSUME Straight(p) PROVE Children(p, i) \subseteq ended
  <2>1. Terms(p, i) \subseteq ended
    BY <1>2, <1>4 DEF LastOps, IsBranch, Straight
  <2>2. ASSUME NEW c \in Children(p, i) PROVE c \in ended
    <3>1. PICK t \in Terms(p, i) : /\ t \in Children(p, i) /\ Kind(p, t) = "yield"
                                   /\ c = t \/ (c < t /\ p[c].region = p[t].region)
      BY RunFacts, YieldIsLast
    <3>2. t \in ended /\ t \in begun
      BY <2>1, <3>1, RunFacts
    <3>3. c \in Before(t) \/ c = t
      BY <3>1 DEF Before, Children
    <3>. QED  BY <1>4, <3>1, <3>2, <3>3 DEF RunInv
  <2>. QED  BY <2>2
<1>5. ASSUME Straight(p), NEW j \in ended'
      PROVE  Children(p, j) \subseteq ended' /\ OwnCopies(j) \subseteq landed'
  <2>1. CASE j \in ended
    BY <1>2, <1>5, <2>1 DEF RunInv
  <2>2. CASE j = i
    <3>1. \A k \in ended' : Children(p, k) \subseteq ended'
      BY <1>2, <1>4, <1>5 DEF RunInv
    <3>2. ASSUME NEW w \in OwnCopies(i) PROVE w \in landed
      <4>1. Encloses(p, i, w) /\ w \in Ops(p)
        BY <3>2, OnlyTasksOwnCopies
      <4>2. w \in ended'
        BY <1>2, <3>1, <4>1, RunFacts, EnclosedByInduction
      <4>3. w \in begun
        BY <1>2, <4>2, RunFacts
      <4>. QED  BY <1>2, <3>2, <4>3
    <3>. QED  BY <1>2, <1>4, <1>5, <2>2, <3>2
  <2>. QED  BY <1>2, <2>1, <2>2
<1>6. \A j : Before(j)' = Before(j) /\ OwnCopies(j)' = OwnCopies(j) /\ (Complete(j) => Complete(j)')
  BY <1>1, <1>2 DEF Before, OwnCopies, Complete
<1>. QED  BY <1>1, <1>2, <1>3, <1>5, <1>6 DEF RunInv

-----------------------------------------------------------------------------
(***************************************************************************)
(* An accepted program never reads an undefined residency.                 *)
(***************************************************************************)
LEMMA CarriesMonotone ==
  ASSUME NEW A1, NEW A2, A1 \subseteq A2, NEW u, NEW v, Carries(A1, u, v)
  PROVE  Carries(A2, u, v)
<1>. SUFFICES ASSUME u # v,
                     NEW S \in SUBSET {a[2] : a \in A2},
                     \A a \in A2 : a[1] = u \/ a[1] \in S => a[2] \in S
              PROVE  v \in S
  BY DEF Carries
<1>. DEFINE S1 == S \cap {a[2] : a \in A1}
<1>1. \A a \in A1 : a[1] = u \/ a[1] \in S1 => a[2] \in S1
  OBVIOUS
<1>. QED  BY <1>1 DEF Carries

\* Without branches, the aliases the oracle follows hold in every run.
LEMMA AliasesHold ==
  ASSUME Straight(p)
  PROVE  Aliases(p) \subseteq RunAliases
<1>. SUFFICES ASSUME NEW i \in Ops(p), NEW a \in AliasPairs(p, i)
              PROVE  a \in RunAliases
  BY DEF Aliases
<1>1. Kind(p, i) \notin {"for", "if", "switch"} /\ ~IsBranch(i)
  BY DEF Straight, IsBranch, Branches
<1>2. a \in UNION {Zipped(p[t].vals, i, 1) : t \in Terms(p, i)}
  BY <1>1 DEF AliasPairs
<1>. QED  BY <1>1, <1>2 DEF RunAliases

LEMMA AliasesStay ==
  ASSUME Straight(p), p' = p
  PROVE  RunAliases' = RunAliases
<1>1. \A i \in Ops(p) : ~IsBranch(i) /\ ~IsBranch(i)'
  BY DEF Straight, IsBranch
<1>. QED  BY <1>1 DEF RunAliases

\* A read that starts finds a completed write of another operation.
LEMMA ReadFindsWrite ==
  ASSUME OracleInv, RunInv, OracleInv', RunInv', Straight(p), pc = "accepted",
         UNCHANGED oracleVars, NEW r \in Ops(p), r \in Reads(p), Issue(r)
  PROVE  \E w \in Written \ {r} : Carries(RunAliases, p[w].dst, p[r].src)
<1>1. UNCHANGED <<p, pc, next, in, sync, events, todo, cur, cands, failed, succ>>
  BY DEF oracleVars
<1>2. r \notin begun /\ r \in ended' /\ ended' \subseteq ended \cup {r}
  BY DEF Issue, Reads, RegionKinds, Branches
<1>3. PICK c \in Candidates(r) : c # r /\ Ordered(succ, c, r)
  BY InvGivesVerdict DEF VerdictIsExact, Verdicts, Unproved
<1>4. c \in Ops(p) /\ succ \in [Ops(p) -> SUBSET Ops(p)]
  BY CandidatesAreOps DEF OracleInv, OracleTypeOK, IsGraph
<1>5. c \in ended
  <2>1. OrderRespected'
    BY InvRespectsOrder, PTL
  <2>2. \A x \in Ops(p) : \A y \in succ[x] : y \in ended' => x \in ended'
    BY <1>1, <2>1 DEF OrderRespected, Straight
  <2>. DEFINE S == {x \in Ops(p) : x \in ended' => c \in ended'}
  <2>3. succ[c] \subseteq S /\ Closed(succ, S) /\ S \in SUBSET DOMAIN succ
    BY <1>4, <2>2 DEF Closed
  <2>4. r \in S
    BY <1>3, <2>3 DEF Ordered
  <2>. QED  BY <1>2, <1>3, <2>4
<1>6. CASE c \in sync[p[r].src]
  <2>1. p[r].src \in Residencies(p)
    BY DEF Residencies
  <2>2. c \in SyncWrites(p) /\ Carries(Aliases(p), p[c].dst, p[r].src)
    BY <1>6, <2>1 DEF OracleInv, OracleTypeOK, AliasInv
  <2>3. Carries(RunAliases, p[c].dst, p[r].src)
    BY <2>2, AliasesHold, CarriesMonotone
  <2>. QED  BY <1>3, <1>5, <2>2, <2>3 DEF Written
<1>7. CASE c \notin sync[p[r].src]
  <2>1. PICK e \in events : e[2] = p[r].src /\ c \in Consumers(p, e[1])
    BY <1>3, <1>7 DEF Candidates
  <2>0. PICK w \in AsyncWrites(p) :
          e \in {<<t, p[w].dst>> : t \in {w} \cup {u \in Ops(p) : IsParentTask(p, u, w)}}
    BY <2>1 DEF OracleInv, OracleTypeOK, EventWrites
  <2>2. PICK t \in {w} \cup {u \in Ops(p) : IsParentTask(p, u, w)} : e = <<t, p[w].dst>>
    BY <2>0
  <2>3. t \in p[c].toks /\ p[w].dst = p[r].src
    BY <2>1, <2>2 DEF Consumers
  <2>4. Complete(t)
    BY <1>5, <2>3, RunFacts DEF RunInv
  <2>5. w \in landed
    <3>1. CASE t = w
      BY <2>2, <2>4, <3>1 DEF Complete
    <3>2. CASE t # w
      <4>1. IsParentTask(p, t, w) /\ Kind(p, t) = "task"
        BY <2>2, <3>2 DEF IsParentTask, TasksAround, OfKind, Kind
      <4>2. w \in OwnCopies(t) /\ t \in ended
        BY <2>4, <4>1, CompleteIsEnded DEF OwnCopies
      <4>. QED  BY <4>2 DEF RunInv
    <3>. QED  BY <3>1, <3>2
  <2>6. w # r
    BY <1>2, <2>5, RunFacts
  <2>. QED  BY <2>3, <2>5, <2>6 DEF Written, Carries
<1>. QED  BY <1>6, <1>7

LEMMA RunPreserves ==
  ASSUME OracleInv, RunInv, DefinedWhenRead, Run
  PROVE  OracleInv' /\ RunInv' /\ DefinedWhenRead'
<1>1. pc = "accepted" /\ UNCHANGED oracleVars /\ p' = p
  BY DEF Run, oracleVars
<1>2. OracleInv'
  BY <1>1, OracleStep
<1>3. PICK i \in Ops(p) : Issue(i) \/ Land(i) \/ Finish(i)
  BY DEF Run, RunStep
<1>4. RunInv'
  BY <1>1, <1>3, IssuePreserves, LandPreserves, FinishPreserves
<1>5. DefinedWhenRead'
  <2>. SUFFICES ASSUME Straight(p), NEW r \in Reads(p) \cap begun'
                PROVE  \E w \in Written' \ {r} : Carries(RunAliases, p[w].dst, p[r].src)
    BY <1>1, AliasesStay DEF DefinedWhenRead, Defined, Straight
  <2>1. Written \subseteq Written'
    BY <1>1, <1>3 DEF Written, Issue, Land, Finish
  <2>2. CASE r \in begun
    BY <2>1, <2>2 DEF DefinedWhenRead, Defined
  <2>3. CASE r \notin begun
    <3>1. r = i /\ Issue(i)
      BY <1>3, <2>3 DEF Issue, Land, Finish
    <3>. QED  BY <1>1, <1>2, <1>4, <2>1, <3>1, ReadFindsWrite
  <2>. QED  BY <2>2, <2>3
<1>. QED  BY <1>2, <1>4, <1>5

\* The pass itself starts nothing.
LEMMA CheckPreserves ==
  ASSUME OracleInv, RunInv, DefinedWhenRead, Check
  PROVE  OracleInv' /\ RunInv' /\ DefinedWhenRead'
<1>1. OracleInv'
  BY OracleStep DEF Check
<1>2. pc # "accepted" /\ p' = p
  BY DEF Check, OracleNext, WalkOp, Collect, CopyWrites, Fixpoint, NextRead,
         TryCandidate, SearchOn, ReadDefined, ReadUndefined, Verdict
<1>3. begun = {} /\ ended = {} /\ landed = {} /\ UNCHANGED <<begun, ended, landed, taken>>
  BY <1>2 DEF RunInv, RunTypeOK, Check, runVars
<1>4. RunInv'
  BY <1>2, <1>3 DEF RunInv, RunTypeOK
<1>5. DefinedWhenRead'
  BY <1>3 DEF DefinedWhenRead
<1>. QED  BY <1>1, <1>4, <1>5

LEMMA RunInit == Init => OracleInv /\ RunInv /\ DefinedWhenRead
<1>. SUFFICES ASSUME Init PROVE OracleInv /\ RunInv /\ DefinedWhenRead
  OBVIOUS
<1>1. OracleInv /\ begun = {} /\ ended = {} /\ landed = {} /\ taken = [i \in Ops(p) |-> 0]
  BY OracleInitInv DEF Init
<1>2. RunTypeOK
  BY <1>1 DEF RunTypeOK
<1>. QED  BY <1>1, <1>2 DEF RunInv, DefinedWhenRead

LEMMA RunStutters ==
  ASSUME OracleInv, RunInv, DefinedWhenRead, UNCHANGED vars
  PROVE  OracleInv' /\ RunInv' /\ DefinedWhenRead'
<1>1. UNCHANGED oracleVars /\ UNCHANGED <<p, pc, in>> /\ UNCHANGED <<begun, ended, landed, taken>>
  BY DEF vars, oracleVars, runVars
<1>2. OracleInv'
  BY <1>1, OracleStep
<1>3. RunInv'
  BY <1>1 DEF RunInv, RunTypeOK, Straight, InConcurrent, Before, OwnCopies, Complete
<1>4. DefinedWhenRead'
  <2>1. Written' = Written
    BY <1>1 DEF Written
  <2>. SUFFICES ASSUME Straight(p), NEW r \in Reads(p) \cap begun
                PROVE  \E w \in Written \ {r} : Carries(RunAliases, p[w].dst, p[r].src)
    BY <1>1, <2>1, AliasesStay DEF DefinedWhenRead, Defined, Straight
  <2>. QED  BY DEF DefinedWhenRead, Defined
<1>. QED  BY <1>2, <1>3, <1>4

\* The invariant of the pass and of the runs it lets through.
THEOREM RunInvariant == Spec => [](OracleInv /\ RunInv /\ DefinedWhenRead)
<1>1. OracleInv /\ RunInv /\ DefinedWhenRead /\ [Next]_vars
        => (OracleInv /\ RunInv /\ DefinedWhenRead)'
  BY CheckPreserves, RunPreserves, RunStutters DEF Next
<1>. QED  BY <1>1, RunInit, PTL DEF Spec

\* No run of an accepted program contradicts an edge of the graph.
THEOREM GraphIsSound == Spec => []OrderRespected
  BY RunInvariant, InvRespectsOrder, PTL

\* The checker is sound: an accepted program without branches never starts a
\* read of a residency before a write of it is complete.
THEOREM AcceptedIsDefined == Spec => []DefinedWhenRead
  BY RunInvariant, PTL

-----------------------------------------------------------------------------
(***************************************************************************)
(* The sequential baseline.  blk gives each region its block; the blocks   *)
(* are arranged when                                                       *)
(*   OnlyOnce   an operation stands in one block, at one position          *)
(*   AllKept    every effect stands in one                                 *)
(*   InPlace    a block holds what is inside the operations of its region  *)
(*   InOrder    what comes before another in the program does in the block *)
(*   Intact     while an operation stands, all that is left of what is     *)
(*              inside it stands in its own regions, not around it         *)
(*   OnlyTasks  the block of a concurrent holds its tasks                  *)
(* InOrder is not inductive without the others: that a pattern fires at i  *)
(* keeps the order because what it moves was inside i (InPlace) and what   *)
(* it is moved between was not (Intact).                                   *)
(***************************************************************************)
Regs(q) == {<<0, 1>>} \cup UNION {{<<i, r>> : r \in DOMAIN q[i].term} : i \in Ops(q)}
EffectsOf(q) == {i \in Ops(q) : Kind(q, i) \in LeafKinds \ {"wait", "barrier", "yield"}}
Within(q, b, i) == \E j \in Children(q, b[1]) : q[j].region = b[2] /\ Holds(q, j, i)
OnlyOnce(q, blk) ==
  \A b, c \in Regs(q) : \A m \in DOMAIN blk[b], n \in DOMAIN blk[c] :
    blk[b][m] = blk[c][n] => b = c /\ m = n
AllKept(q, blk) ==
  \A i \in EffectsOf(q) : \E b \in Regs(q) : \E k \in DOMAIN blk[b] : blk[b][k] = i
InPlace(q, blk) == \A b \in Regs(q) : \A k \in DOMAIN blk[b] : Within(q, b, blk[b][k])
InOrder(q, blk) ==
  \A b \in Regs(q) : \A m, n \in DOMAIN blk[b] : Precedes(q, blk[b][m], blk[b][n]) => m < n
Intact(q, blk) ==
  \A b, c \in Regs(q) : \A m \in DOMAIN blk[b], n \in DOMAIN blk[c] :
    Encloses(q, blk[b][m], blk[c][n]) => Holds(q, blk[b][m], c[1])
OnlyTasks(q, blk) ==
  \A b \in Regs(q) : b[1] \in OfKind(q, "concurrent") =>
    \A k \in DOMAIN blk[b] : blk[b][k] \in Children(q, b[1]) /\ Kind(q, blk[b][k]) = "task"
Arranged(q, blk) ==
  /\ blk \in [Regs(q) -> Seq(Ops(q))]
  /\ OnlyOnce(q, blk) /\ AllKept(q, blk) /\ InPlace(q, blk)
  /\ InOrder(q, blk) /\ Intact(q, blk) /\ OnlyTasks(q, blk)

\* Of two operations of a block only one holds a third.
LEMMA SiblingsApart ==
  ASSUME NEW q, Legal(q), NEW a \in Ops(q), NEW b \in Ops(q), NEW x \in Ops(q),
         q[a].parent = q[b].parent, Holds(q, a, x), Holds(q, b, x)
  PROVE  a = b
<1>0. a \in Nat /\ b \in Nat /\ q[a].parent < a /\ q[b].parent < b
      /\ q[a].parent \in Nat /\ q[b].parent \in Nat
  <2>1. PlacedOK(q, a) /\ PlacedOK(q, b)
    BY DEF Legal
  <2>. QED  BY <2>1, Placement DEF PlacedOK
<1>1. ASSUME NEW c \in Ops(q), NEW d \in Ops(q), q[c].parent = q[d].parent, c < d,
             Holds(q, c, x), Holds(q, d, x)
      PROVE  FALSE
  <2>1. Encloses(q, c, d)
    BY <1>1, HoldsBetween
  <2>2. c \in Nat /\ d \in Nat /\ q[c].parent < c /\ q[d].parent \in Nat
    <3>1. PlacedOK(q, c) /\ PlacedOK(q, d)
      BY DEF Legal
    <3>. QED  BY <3>1, Placement DEF PlacedOK
  <2>3. d \in (c + 1)..d
    BY <1>1, <2>2
  <2>. QED  BY <1>1, <2>1, <2>2, <2>3 DEF Encloses
<1>2. ~(a < b) /\ ~(b < a)
  BY <1>1
<1>. QED  BY <1>0, <1>2

\* What orders the contents of two operations of a block orders the two.
LEMMA SiblingsPrecede ==
  ASSUME NEW q, Legal(q), NEW a \in Ops(q), NEW b \in Ops(q), NEW x \in Ops(q), NEW y \in Ops(q),
         q[a].parent = q[b].parent, a # b, Holds(q, a, x), Holds(q, b, y), Precedes(q, x, y)
  PROVE  Precedes(q, a, b) /\ q[a].region = q[b].region
<1>1. Precedes(q, x, b)
  <2>1. Precedes(q, x, b) \/ Encloses(q, b, x)
    BY PrecedesOuter
  <2>. QED  BY <2>1, SiblingsApart DEF Holds
<1>2. PICK d \in Ops(q) : Holds(q, d, x) /\ Dominates(q, d, b)
  BY <1>1 DEF Precedes
<1>3. PICK j \in Children(q, q[d].parent) :
        d < j /\ q[j].region = q[d].region /\ (j = b \/ Encloses(q, j, b))
  BY <1>2 DEF Dominates
<1>4. j \in Ops(q) /\ q[j].parent = q[d].parent /\ d \in Nat /\ j \in Nat
  BY Placement DEF Children
<1>5. j = b
  <2>. SUFFICES ASSUME Encloses(q, j, b) PROVE FALSE
    BY <1>3
  <2>1. Encloses(q, j, a)
    BY <1>4, EnclosesBlock
  <2>2. Holds(q, j, x)
    BY <1>4, <2>1, HoldsTrans DEF Holds
  <2>3. j = d
    BY <1>2, <1>4, <2>2, SiblingsApart
  <2>. QED  BY <1>3, <1>4, <2>3
<1>6. d = a
  BY <1>2, <1>4, <1>5, SiblingsApart
<1>. QED  BY <1>2, <1>3, <1>5, <1>6 DEF Precedes, Holds

\* What follows something in an operation, and is not in it, follows it.
LEMMA PrecedesOut ==
  ASSUME NEW q, Legal(q), NEW i \in Ops(q), NEW x \in Ops(q), NEW y \in Ops(q),
         Encloses(q, i, x), ~Encloses(q, i, y), Precedes(q, x, y)
  PROVE  Precedes(q, i, y)
<1>1. PICK d \in Ops(q) : Holds(q, d, x) /\ Dominates(q, d, y)
  BY DEF Precedes
<1>2. d \in Nat /\ i \in Nat /\ Holds(q, i, x)
  BY Placement DEF Holds
<1>3. CASE d = i \/ d < i
  <2>1. Holds(q, d, i)
    BY <1>1, <1>2, <1>3, HoldsBetween DEF Holds
  <2>. QED  BY <1>1, <2>1 DEF Precedes
<1>4. CASE i < d
  <2>1. Encloses(q, i, d)
    BY <1>1, <1>2, <1>4, HoldsBetween
  <2>2. PICK j \in Children(q, q[d].parent) :
          d < j /\ q[j].region = q[d].region /\ (j = y \/ Encloses(q, j, y))
    BY <1>1 DEF Dominates
  <2>3. j \in Ops(q) /\ q[j].parent = q[d].parent
    BY DEF Children
  <2>4. Encloses(q, i, j)
    BY <2>1, <2>3, EnclosesBlock
  <2>. QED  BY <2>2, <2>3, <2>4, EnclosesTrans
<1>. QED  BY <1>2, <1>3, <1>4

-----------------------------------------------------------------------------
\* Putting a list in the place of a member of another.
IsSpliced(t, s, k, ops) ==
  /\ Len(t) = Len(s) - 1 + Len(ops)
  /\ \A n \in 1..(k - 1) : t[n] = s[n]
  /\ \A n \in 1..Len(ops) : t[k - 1 + n] = ops[n]
  /\ \A n \in (k + 1)..Len(s) : t[n - 1 + Len(ops)] = s[n]

\* One list and then another.
IsJoined(t, u, w) ==
  /\ Len(t) = Len(u) + Len(w)
  /\ \A n \in 1..Len(u) : t[n] = u[n]
  /\ \A n \in 1..Len(w) : t[Len(u) + n] = w[n]

LEMMA Joining ==
  ASSUME NEW R, NEW u \in Seq(R), NEW w \in Seq(R)
  PROVE  u \o w \in Seq(R) /\ IsJoined(u \o w, u, w)
BY DEF IsJoined

LEMMA Splicing ==
  ASSUME NEW R, NEW s \in Seq(R), NEW ops \in Seq(R), NEW k \in 1..Len(s)
  PROVE  LET t == SubSeq(s, 1, k - 1) \o ops \o SubSeq(s, k + 1, Len(s))
         IN  t \in Seq(R) /\ IsSpliced(t, s, k, ops)
<1>. DEFINE a == SubSeq(s, 1, k - 1)
            z == SubSeq(s, k + 1, Len(s))
            u == a \o ops
            t == u \o z
<1>1. a \in Seq(R) /\ Len(a) = k - 1 /\ \A n \in 1..(k - 1) : a[n] = s[n]
  OBVIOUS
<1>2. z \in Seq(R) /\ Len(z) = Len(s) - k /\ \A n \in 1..(Len(s) - k) : z[n] = s[k + n]
  OBVIOUS
<1>. HIDE DEF a, z
<1>5. u \in Seq(R) /\ IsJoined(u, a, ops)
  BY <1>1, Joining
<1>. HIDE DEF u
<1>6. t \in Seq(R) /\ IsJoined(t, u, z)
  BY <1>2, <1>5, Joining
<1>7. Len(ops) \in Nat /\ Len(s) \in Nat /\ k \in Nat \ {0} /\ k <= Len(s)
  OBVIOUS
<1>. HIDE DEF t
<1>8. Len(u) = k - 1 + Len(ops)
  BY <1>1, <1>5 DEF IsJoined
<1>3. /\ t \in Seq(R) /\ Len(t) = Len(s) - 1 + Len(ops)
      /\ \A n \in 1..(k - 1) : t[n] = s[n]
      /\ \A n \in 1..Len(ops) : t[k - 1 + n] = ops[n]
      /\ \A n \in (k + 1)..Len(s) : t[n - 1 + Len(ops)] = s[n]
  <2>1. t \in Seq(R) /\ Len(t) = Len(s) - 1 + Len(ops)
    BY <1>2, <1>6, <1>7, <1>8 DEF IsJoined
  <2>2. \A n \in 1..Len(u) : t[n] = u[n]
    BY <1>6 DEF IsJoined
  <2>3. \A n \in 1..(k - 1) : t[n] = s[n]
    <3>. TAKE n \in 1..(k - 1)
    <3>1. n \in 1..Len(u) /\ n \in 1..Len(a)
      BY <1>1, <1>7, <1>8
    <3>. QED  BY <1>1, <1>5, <2>2, <3>1 DEF IsJoined
  <2>4. \A n \in 1..Len(ops) : t[k - 1 + n] = ops[n]
    <3>. TAKE n \in 1..Len(ops)
    <3>1. k - 1 + n \in 1..Len(u)
      BY <1>7, <1>8
    <3>2. u[k - 1 + n] = ops[n]
      BY <1>1, <1>5 DEF IsJoined
    <3>. QED  BY <2>2, <3>1, <3>2
  <2>5. \A n \in (k + 1)..Len(s) : t[n - 1 + Len(ops)] = s[n]
    <3>. TAKE n \in (k + 1)..Len(s)
    <3>1. /\ n - k \in 1..Len(z) /\ n - k \in 1..(Len(s) - k) /\ k + (n - k) = n
          /\ n - 1 + Len(ops) = Len(u) + (n - k)
      BY <1>2, <1>7, <1>8
    <3>2. t[Len(u) + (n - k)] = z[n - k]
      BY <1>6, <3>1 DEF IsJoined
    <3>. QED  BY <1>2, <3>1, <3>2
  <2>. QED  BY <2>1, <2>3, <2>4, <2>5
<1>4. t \in Seq(R) /\ IsSpliced(t, s, k, ops)
  BY <1>3 DEF IsSpliced
<1>. QED  BY <1>4 DEF t, u, a, z

\* What a region holds is inside the operation of the region.
LEMMA WithinEncloses ==
  ASSUME NEW q, Legal(q), NEW b, b[1] \in Ops(q), NEW i \in Ops(q), Within(q, b, i)
  PROVE  Encloses(q, b[1], i)
<1>1. PICK j \in Children(q, b[1]) : Holds(q, j, i)
  BY DEF Within
<1>2. j \in Ops(q) /\ Encloses(q, b[1], j)
  BY ChildInside
<1>. QED  BY <1>1, <1>2, EnclosesTrans DEF Holds

\* A region is the function body or one of an operation.
LEMMA RegsAre ==
  ASSUME NEW q, Legal(q), NEW b \in Regs(q)
  PROVE  \/ b = <<0, 1>> /\ b[1] = 0 /\ b[1] \notin Ops(q)
         \/ b[1] \in Ops(q) /\ b[2] \in DOMAIN q[b[1]].term /\ b = <<b[1], b[2]>>
<1>1. 0 \notin Ops(q)
  BY DEF Legal
<1>2. CASE b = <<0, 1>>
  BY <1>1, <1>2
<1>3. CASE b # <<0, 1>>
  <2>1. PICK i \in Ops(q) : \E r \in DOMAIN q[i].term : b = <<i, r>>
    BY <1>3 DEF Regs
  <2>. QED  BY <2>1
<1>. QED  BY <1>2, <1>3

-----------------------------------------------------------------------------
\* What a region holds at the start.
Held(q, b) == {i \in Children(q, b[1]) : q[i].region = b[2] /\ Kind(q, i) # "yield"}
Start(q) == [b \in Regs(q) |-> Picked([i \in Ops(q) |-> i], Held(q, b))]

Lists(s, S) ==
  /\ \A m \in DOMAIN s : s[m] \in S
  /\ \A m, n \in DOMAIN s : s[m] < s[n] => m < n
  /\ \A m, n \in DOMAIN s : s[m] = s[n] => m = n
  /\ \A i \in S : \E m \in DOMAIN s : s[m] = i

\* Body lists the operations of a region in their order.
LEMMA StartLists ==
  ASSUME NEW q, Legal(q), NEW b \in Regs(q)
  PROVE  Start(q)[b] \in Seq(Ops(q)) /\ Lists(Start(q)[b], Held(q, b))
<1>. DEFINE rows == [i \in Ops(q) |-> i]
            S == Held(q, b)
            s == Picked(rows, S)
<1>1. Ops(q) = 1..Len(q) /\ Len(q) \in Nat
  BY DEF Legal
<1>2. rows \in Seq(Ops(q)) /\ DOMAIN rows = Ops(q)
  <2>1. rows \in [1..Len(q) -> Ops(q)]
    BY <1>1
  <2>. QED  BY <1>1, <2>1
<1>3. S \in SUBSET DOMAIN rows
  BY <1>2 DEF Held, Children
<1>4. s \in Seq(Ops(q)) /\ \E pos : Selects(s, pos, rows, S)
  <2>. HIDE DEF rows, S
  <2>. QED  BY <1>2, <1>3, PickedSelects
<1>5. PICK pos : Selects(s, pos, rows, S)
  BY <1>4
<1>6. S \in SUBSET Ops(q) /\ \A i \in S : rows[i] = i
  BY <1>2, <1>3
<1>7. Start(q)[b] = s
  BY DEF Start
<1>. HIDE DEF s, rows, S
<1>8. DOMAIN s = 1..Len(s) /\ Len(s) \in Nat
  BY <1>4
<1>9. /\ \A m \in 1..Len(s) : s[m] = pos[m] /\ pos[m] \in S
      /\ \A m, n \in 1..Len(s) : m < n => pos[m] < pos[n]
      /\ \A m, n \in 1..Len(s) : m # n => pos[m] # pos[n]
      /\ \A i \in S : \E m \in 1..Len(s) : pos[m] = i
  BY <1>5, <1>6 DEF Selects
<1>10. \A m, n \in 1..Len(s) : s[m] < s[n] => m < n
  <2>. SUFFICES ASSUME NEW m \in 1..Len(s), NEW n \in 1..Len(s), s[m] < s[n] PROVE m < n
    OBVIOUS
  <2>1. m \in Nat /\ n \in Nat /\ pos[m] \in Nat /\ pos[n] \in Nat /\ pos[m] < pos[n]
    BY <1>1, <1>6, <1>8, <1>9
  <2>2. ~(n < m) /\ n # m
    BY <1>9, <2>1
  <2>. QED  BY <2>1, <2>2
<1>11. Lists(s, S)
  BY <1>8, <1>9, <1>10 DEF Lists
<1>. QED  BY <1>4, <1>7, <1>11 DEF S

\* The program as it is given is arranged.
LEMMA StartArranged ==
  ASSUME NEW q, Legal(q), \A i \in Children(q, 0) : q[i].region = 1
  PROVE  Arranged(q, Start(q))
<1>. DEFINE blk == Start(q)
<1>0. Ops(q) = 1..Len(q) /\ Len(q) \in Nat
  BY DEF Legal
<1>1. blk \in [Regs(q) -> Seq(Ops(q))]
  <2>1. blk = [b \in Regs(q) |-> blk[b]]
    BY DEF Start
  <2>2. \A b \in Regs(q) : blk[b] \in Seq(Ops(q))
    BY StartLists
  <2>. HIDE DEF blk
  <2>. QED  BY <2>1, <2>2
<1>2. \A b \in Regs(q) : Lists(blk[b], Held(q, b))
  BY StartLists
<1>. HIDE DEF blk
<1>3. \A b \in Regs(q) : \A m \in DOMAIN blk[b] :
        /\ blk[b][m] \in Held(q, b) /\ blk[b][m] \in Ops(q)
        /\ q[blk[b][m]].parent = b[1] /\ q[blk[b][m]].region = b[2]
  BY <1>2 DEF Lists, Held, Children
<1>4. OnlyOnce(q, blk)
  <2>. SUFFICES ASSUME NEW b \in Regs(q), NEW c \in Regs(q), NEW m \in DOMAIN blk[b],
                       NEW n \in DOMAIN blk[c], blk[b][m] = blk[c][n]
                PROVE  b = c /\ m = n
    BY DEF OnlyOnce
  <2>1. b[1] = c[1] /\ b[2] = c[2]
    BY <1>3
  <2>2. b = c
    BY <2>1, RegsAre
  <2>. QED  BY <1>2, <2>2 DEF Lists
<1>5. AllKept(q, blk)
  <2>. SUFFICES ASSUME NEW i \in EffectsOf(q)
                PROVE  \E b \in Regs(q) : \E k \in DOMAIN blk[b] : blk[b][k] = i
    BY DEF AllKept
  <2>. DEFINE b == <<q[i].parent, q[i].region>>
  <2>1. i \in Ops(q) /\ i \in Children(q, b[1]) /\ Kind(q, i) # "yield"
    BY DEF EffectsOf, Children
  <2>2. i \in Held(q, b)
    BY <2>1 DEF Held
  <2>3. b \in Regs(q)
    <3>1. CASE q[i].parent = 0
      BY <2>1, <3>1 DEF Regs
    <3>2. CASE q[i].parent # 0
      <4>1. PlacedOK(q, i)
        BY <2>1 DEF Legal
      <4>2. q[i].parent \in Ops(q) /\ q[i].region \in DOMAIN q[q[i].parent].term
        BY <2>1, <3>2, <4>1, Placement DEF PlacedOK
      <4>. QED  BY <4>2 DEF Regs
    <3>. QED  BY <3>1, <3>2
  <2>. QED  BY <1>2, <2>2, <2>3 DEF Lists
<1>6. InPlace(q, blk)
  BY <1>3 DEF InPlace, Within, Holds, Children
<1>7. InOrder(q, blk)
  <2>. SUFFICES ASSUME NEW b \in Regs(q), NEW m \in DOMAIN blk[b], NEW n \in DOMAIN blk[b],
                       Precedes(q, blk[b][m], blk[b][n])
                PROVE  m < n
    BY DEF InOrder
  <2>1. blk[b][m] < blk[b][n]
    BY <1>3, PrecedesBefore
  <2>. QED  BY <1>2, <2>1 DEF Lists
<1>8. Intact(q, blk)
  <2>. SUFFICES ASSUME NEW b \in Regs(q), NEW c \in Regs(q), NEW m \in DOMAIN blk[b],
                       NEW n \in DOMAIN blk[c], Encloses(q, blk[b][m], blk[c][n])
                PROVE  Holds(q, blk[b][m], c[1])
    BY DEF Intact
  <2>1. blk[b][m] \in Ops(q) /\ blk[c][n] \in Ops(q) /\ q[blk[c][n]].parent = c[1]
    BY <1>3
  <2>. QED  BY <2>1, ParentHeld DEF Holds
<1>9. OnlyTasks(q, blk)
  <2>. SUFFICES ASSUME NEW b \in Regs(q), b[1] \in OfKind(q, "concurrent"), NEW k \in DOMAIN blk[b]
                PROVE  blk[b][k] \in Children(q, b[1]) /\ Kind(q, blk[b][k]) = "task"
    BY DEF OnlyTasks
  <2>1. blk[b][k] \in Children(q, b[1]) /\ Kind(q, blk[b][k]) # "yield"
    BY <1>3 DEF Held
  <2>2. b[1] \in Ops(q) /\ ConcurrentOK(q, b[1]) /\ Kind(q, b[1]) = "concurrent"
    <3>1. b[1] \in Ops(q) /\ Kind(q, b[1]) = "concurrent"
      BY DEF OfKind, Kind
    <3>. QED  BY <3>1 DEF Legal
  <2>. QED  BY <2>1, <2>2 DEF ConcurrentOK
<1>. QED  BY <1>1, <1>4, <1>5, <1>6, <1>7, <1>8, <1>9 DEF Arranged, blk

-----------------------------------------------------------------------------
\* The waits and barriers erased.
Unsynced(q, blk) ==
  [b \in Regs(q) |->
     Picked(blk[b], {k \in DOMAIN blk[b] : Kind(q, blk[b][k]) \notin {"wait", "barrier"}})]

\* Erasing them disturbs nothing else.
LEMMA ErasingArranged ==
  ASSUME NEW q, Legal(q), NEW blk, Arranged(q, blk)
  PROVE  Arranged(q, Unsynced(q, blk))
<1>. DEFINE new == Unsynced(q, blk)
            S(b) == {k \in DOMAIN blk[b] : Kind(q, blk[b][k]) \notin {"wait", "barrier"}}
<1>1. blk \in [Regs(q) -> Seq(Ops(q))]
  BY DEF Arranged
<1>2. \A b \in Regs(q) : new[b] = Picked(blk[b], S(b)) /\ S(b) \in SUBSET DOMAIN blk[b]
  BY DEF Unsynced
<1>3. new = [b \in Regs(q) |-> new[b]]
  BY DEF Unsynced
<1>. HIDE DEF new
<1>4. \A b \in Regs(q) : new[b] \in Seq(Ops(q)) /\ \E pos : Selects(new[b], pos, blk[b], S(b))
  <2>. HIDE DEF S
  <2>. QED  BY <1>1, <1>2, PickedSelects
<1>5. new \in [Regs(q) -> Seq(Ops(q))]
  BY <1>3, <1>4
<1>. DEFINE of == [b \in Regs(q) |-> CHOOSE pos : Selects(new[b], pos, blk[b], S(b))]
<1>6. \A b \in Regs(q) : Selects(new[b], of[b], blk[b], S(b))
  <2>. TAKE b \in Regs(q)
  <2>1. of[b] = CHOOSE pos : Selects(new[b], pos, blk[b], S(b))
    OBVIOUS
  <2>. HIDE DEF of, S
  <2>. QED  BY <1>4, <2>1, Zenon
<1>. HIDE DEF of
<1>7. \A b \in Regs(q) :
        /\ DOMAIN new[b] = 1..Len(new[b]) /\ DOMAIN blk[b] = 1..Len(blk[b])
        /\ \A m \in DOMAIN new[b] : of[b][m] \in DOMAIN blk[b] /\ new[b][m] = blk[b][of[b][m]]
        /\ \A m, n \in DOMAIN new[b] : m # n => of[b][m] # of[b][n]
        /\ \A m, n \in DOMAIN new[b] : m < n => of[b][m] < of[b][n]
        /\ \A i \in S(b) : \E m \in DOMAIN new[b] : of[b][m] = i
  <2>. TAKE b \in Regs(q)
  <2>1. DOMAIN new[b] = 1..Len(new[b]) /\ DOMAIN blk[b] = 1..Len(blk[b])
    BY <1>1, <1>4
  <2>2. S(b) \subseteq DOMAIN blk[b]
    OBVIOUS
  <2>. HIDE DEF S
  <2>. DEFINE t == new[b]
              s == blk[b]
              f == of[b]
              T == S(b)
  <2>3. Selects(t, f, s, T) /\ DOMAIN t = 1..Len(t) /\ DOMAIN s = 1..Len(s) /\ T \subseteq DOMAIN s
    BY <1>6, <2>1, <2>2
  <2>. SUFFICES /\ DOMAIN t = 1..Len(t) /\ DOMAIN s = 1..Len(s)
                /\ \A m \in DOMAIN t : f[m] \in DOMAIN s /\ t[m] = s[f[m]]
                /\ \A m, n \in DOMAIN t : m # n => f[m] # f[n]
                /\ \A m, n \in DOMAIN t : m < n => f[m] < f[n]
                /\ \A i \in T : \E m \in DOMAIN t : f[m] = i
    OBVIOUS
  <2>. HIDE DEF t, s, f, T
  <2>. QED  BY <2>3 DEF Selects
<1>8. OnlyOnce(q, new)
  <2>. SUFFICES ASSUME NEW b \in Regs(q), NEW c \in Regs(q), NEW m \in DOMAIN new[b],
                       NEW n \in DOMAIN new[c], new[b][m] = new[c][n]
                PROVE  b = c /\ m = n
    BY DEF OnlyOnce
  <2>. HIDE DEF S
  <2>1. b = c /\ of[b][m] = of[c][n]
    BY <1>7 DEF Arranged, OnlyOnce
  <2>. QED  BY <1>7, <2>1
<1>9. AllKept(q, new)
  <2>. SUFFICES ASSUME NEW i \in EffectsOf(q)
                PROVE  \E b \in Regs(q) : \E k \in DOMAIN new[b] : new[b][k] = i
    BY DEF AllKept
  <2>1. PICK b \in Regs(q) : \E k \in DOMAIN blk[b] : blk[b][k] = i
    BY DEF Arranged, AllKept
  <2>2. PICK k \in DOMAIN blk[b] : blk[b][k] = i
    BY <2>1
  <2>3. k \in S(b)
    BY <2>2 DEF EffectsOf
  <2>. HIDE DEF S
  <2>. QED  BY <1>7, <2>2, <2>3
<1>10. InPlace(q, new)
  <2>. HIDE DEF S
  <2>. QED  BY <1>7 DEF InPlace, Arranged
<1>11. InOrder(q, new)
  <2>. SUFFICES ASSUME NEW b \in Regs(q), NEW m \in DOMAIN new[b], NEW n \in DOMAIN new[b],
                       Precedes(q, new[b][m], new[b][n])
                PROVE  m < n
    BY DEF InOrder
  <2>. HIDE DEF S
  <2>1. of[b][m] < of[b][n] /\ of[b][m] \in DOMAIN blk[b] /\ of[b][n] \in DOMAIN blk[b]
    BY <1>7 DEF Arranged, InOrder
  <2>2. m \in Nat /\ n \in Nat /\ of[b][m] \in Nat /\ of[b][n] \in Nat
    BY <1>1, <1>4, <1>7, <2>1
  <2>3. ~(n < m) /\ n # m
    BY <1>7, <2>1, <2>2
  <2>. QED  BY <2>2, <2>3
<1>12. Intact(q, new)
  <2>. HIDE DEF S
  <2>. QED  BY <1>7 DEF Intact, Arranged
<1>13. OnlyTasks(q, new)
  <2>. HIDE DEF S
  <2>. QED  BY <1>7 DEF OnlyTasks, Arranged
<1>. QED  BY <1>5, <1>8, <1>9, <1>10, <1>11, <1>12, <1>13 DEF Arranged, new

\* ops is what the regions in src hold, each operation once and in an order
\* the program allows; the regions in gone belong to i or to a task it holds.
Gathered(q, blk, i, ops, src, gone) ==
  /\ ops \in Seq(Ops(q))
  /\ src \subseteq gone /\ gone \subseteq Regs(q)
  /\ \A n \in DOMAIN ops : \E c \in src : \E j \in DOMAIN blk[c] : ops[n] = blk[c][j]
  /\ \A c \in src : \A j \in DOMAIN blk[c] : \E n \in DOMAIN ops : ops[n] = blk[c][j]
  /\ \A m, n \in DOMAIN ops : ops[m] = ops[n] => m = n
  /\ \A m, n \in DOMAIN ops : Precedes(q, ops[m], ops[n]) => m < n
  /\ \A c \in gone :
       c[1] = i \/ \E d \in gone \ src : d[1] = i /\ \E j \in DOMAIN blk[d] : blk[d][j] = c[1]
  /\ \A c \in gone \ src : \A j \in DOMAIN blk[c] : Kind(q, blk[c][j]) = "task"

\* new is blk with ops in the place of the k-th operation of b, and the
\* regions in gone empty.
Inlines(q, blk, new, b, k, ops, gone) ==
  /\ new \in [Regs(q) -> Seq(Ops(q))]
  /\ IsSpliced(new[b], blk[b], k, ops)
  /\ \A c \in Regs(q) \ {b} : new[c] = IF c \in gone THEN <<>> ELSE blk[c]

\* Where the operations of a spliced list come from.
Stays(t, s, k, l, n) ==
  \E o \in DOMAIN s : t[n] = s[o] /\ ((o < k /\ n = o) \/ (o > k /\ n = o - 1 + l))
Comes(t, k, ops, n) == \E m \in DOMAIN ops : n = k - 1 + m /\ t[n] = ops[m]

LEMMA SplicedFrom ==
  ASSUME NEW R, NEW t \in Seq(R), NEW s \in Seq(R), NEW ops \in Seq(R), NEW k \in DOMAIN s,
         IsSpliced(t, s, k, ops)
  PROVE  /\ \A n \in DOMAIN t : Stays(t, s, k, Len(ops), n) \/ Comes(t, k, ops, n)
         /\ \A o \in DOMAIN s \ {k} : \E n \in DOMAIN t : t[n] = s[o]
         /\ \A m \in DOMAIN ops : \E n \in DOMAIN t : t[n] = ops[m]
<1>. DEFINE l == Len(ops)
            h == Len(s)
<1>1. /\ l \in Nat /\ h \in Nat /\ k \in 1..h /\ DOMAIN s = 1..h /\ DOMAIN ops = 1..l
      /\ DOMAIN t = 1..(h - 1 + l) /\ l = Len(ops)
      /\ \A n \in 1..(k - 1) : t[n] = s[n]
      /\ \A n \in 1..l : t[k - 1 + n] = ops[n]
      /\ \A n \in (k + 1)..h : t[n - 1 + l] = s[n]
  BY DEF IsSpliced
<1>. HIDE DEF l, h
<1>2. ASSUME NEW n \in DOMAIN t PROVE Stays(t, s, k, l, n) \/ Comes(t, k, ops, n)
  <2>0. n \in 1..(h - 1 + l) /\ n \in Int /\ k \in Int /\ k >= 1 /\ k <= h
    BY <1>1
  <2>1. CASE n < k
    <3>1. n \in 1..(k - 1) /\ n \in 1..h
      BY <1>1, <2>0, <2>1
    <3>2. n \in DOMAIN s /\ t[n] = s[n]
      BY <1>1, <3>1
    <3>. QED  BY <2>1, <3>2 DEF Stays
  <2>2. CASE n >= k /\ n <= k - 1 + l
    <3>1. n - k + 1 \in DOMAIN ops /\ n = k - 1 + (n - k + 1)
      BY <1>1, <2>2
    <3>2. t[n] = ops[n - k + 1]
      BY <1>1, <3>1
    <3>. QED  BY <3>1, <3>2 DEF Comes
  <2>3. CASE n > k - 1 + l
    <3>. DEFINE o == n + 1 - l
    <3>0. l \in Nat /\ h \in Nat /\ n \in Int /\ k \in Int /\ k >= 1 /\ n >= k + l /\ n <= h - 1 + l
      BY <1>1, <2>0, <2>3
    <3>1. o \in (k + 1)..h /\ n = o - 1 + l /\ o \in 1..h /\ o > k
      BY <3>0
    <3>. HIDE DEF o
    <3>2. t[n] = s[o]
      BY <1>1, <3>1
    <3>. QED  BY <1>1, <3>1, <3>2 DEF Stays
  <2>. QED  BY <1>1, <2>0, <2>1, <2>2, <2>3
<1>3. ASSUME NEW o \in DOMAIN s \ {k} PROVE \E n \in DOMAIN t : t[n] = s[o]
  <2>1. CASE o < k
    <3>1. o \in DOMAIN t /\ o \in 1..(k - 1)
      BY <1>1, <2>1
    <3>. QED  BY <1>1, <3>1
  <2>2. CASE o > k
    <3>1. o - 1 + l \in DOMAIN t /\ o \in (k + 1)..h
      BY <1>1, <2>2
    <3>. QED  BY <1>1, <3>1
  <2>. QED  BY <1>1, <2>1, <2>2
<1>4. ASSUME NEW m \in DOMAIN ops PROVE \E n \in DOMAIN t : t[n] = ops[m]
  <2>1. k - 1 + m \in DOMAIN t
    BY <1>1
  <2>. QED  BY <1>1, <2>1
<1>. QED  BY <1>1, <1>2, <1>3, <1>4

(***************************************************************************)
(* Inlining keeps the blocks arranged.  What moves was inside i and comes  *)
(* to stand where i stood: what is before or after something in i is       *)
(* before or after i.                                                      *)
(***************************************************************************)
LEMMA InliningArranged ==
  ASSUME NEW q, Legal(q), NEW blk, Arranged(q, blk), NEW b \in Regs(q), NEW k \in DOMAIN blk[b],
         Kind(q, blk[b][k]) \notin LeafKinds, b[1] \notin OfKind(q, "concurrent"),
         NEW ops, NEW src, NEW gone, Gathered(q, blk, blk[b][k], ops, src, gone),
         NEW new, Inlines(q, blk, new, b, k, ops, gone)
  PROVE  Arranged(q, new)
<1>. DEFINE i == blk[b][k]
            l == Len(ops)
            Was(o, n) == (o < k /\ n = o) \/ (o > k /\ n = o - 1 + l)
<1>1. /\ blk \in [Regs(q) -> Seq(Ops(q))] /\ ops \in Seq(Ops(q))
      /\ new \in [Regs(q) -> Seq(Ops(q))]
      /\ src \subseteq gone /\ gone \subseteq Regs(q)
  BY DEF Arranged, Gathered, Inlines
<1>2. /\ \A c \in Regs(q) : \A n \in DOMAIN blk[c] : blk[c][n] \in Ops(q)
      /\ \A c \in Regs(q) : \A n \in DOMAIN new[c] : new[c][n] \in Ops(q)
      /\ \A n \in DOMAIN ops : ops[n] \in Ops(q)
      /\ i \in Ops(q) /\ l \in Nat /\ k \in Nat
      /\ \A c \in Regs(q) : \A n \in DOMAIN blk[c] : n \in Nat
      /\ \A c \in Regs(q) : \A n \in DOMAIN new[c] : n \in Nat
      /\ \A n \in DOMAIN ops : n \in 1..l
  BY <1>1
<1>3. /\ \A n \in DOMAIN ops : \E c \in src : \E j \in DOMAIN blk[c] : ops[n] = blk[c][j]
      /\ \A c \in src : \A j \in DOMAIN blk[c] : \E n \in DOMAIN ops : ops[n] = blk[c][j]
      /\ \A m, n \in DOMAIN ops : ops[m] = ops[n] => m = n
      /\ \A m, n \in DOMAIN ops : Precedes(q, ops[m], ops[n]) => m < n
      /\ \A c \in gone :
           c[1] = i \/ \E d \in gone \ src : d[1] = i /\ \E j \in DOMAIN blk[d] : blk[d][j] = c[1]
      /\ \A c \in gone \ src : \A j \in DOMAIN blk[c] : Kind(q, blk[c][j]) = "task"
  BY DEF Gathered
<1>4. /\ \A c, d \in Regs(q) : \A m \in DOMAIN blk[c], n \in DOMAIN blk[d] :
           blk[c][m] = blk[d][n] => c = d /\ m = n
      /\ \A c \in Regs(q) : \A n \in DOMAIN blk[c] : Within(q, c, blk[c][n])
      /\ \A c \in Regs(q) : \A m, n \in DOMAIN blk[c] : Precedes(q, blk[c][m], blk[c][n]) => m < n
      /\ \A c, d \in Regs(q) : \A m \in DOMAIN blk[c], n \in DOMAIN blk[d] :
           Encloses(q, blk[c][m], blk[d][n]) => Holds(q, blk[c][m], d[1])
  BY DEF Arranged, OnlyOnce, InPlace, InOrder, Intact
<1>5. /\ \A n \in DOMAIN new[b] : Stays(new[b], blk[b], k, l, n) \/ Comes(new[b], k, ops, n)
      /\ \A o \in DOMAIN blk[b] \ {k} : \E n \in DOMAIN new[b] : new[b][n] = blk[b][o]
      /\ \A m \in DOMAIN ops : \E n \in DOMAIN new[b] : new[b][n] = ops[m]
      /\ \A c \in Regs(q) \ {b} : c \in gone => new[c] = <<>>
      /\ \A c \in Regs(q) \ {b} : c \notin gone => new[c] = blk[c]
  <2>1. IsSpliced(new[b], blk[b], k, ops) /\ new[b] \in Seq(Ops(q)) /\ blk[b] \in Seq(Ops(q))
    BY <1>1 DEF Inlines
  <2>2. \A c \in Regs(q) \ {b} : new[c] = IF c \in gone THEN <<>> ELSE blk[c]
    BY DEF Inlines
  <2>. QED  BY <1>1, <2>1, <2>2, SplicedFrom
<1>6. Kind(q, i) \notin LeafKinds
  OBVIOUS
<1>. HIDE DEF i, l
\* Where the regions that go are.
<1>7. \A c \in gone : c[1] \in Ops(q) /\ Holds(q, i, c[1])
  <2>. TAKE c \in gone
  <2>1. CASE c[1] = i
    BY <1>2, <2>1 DEF Holds
  <2>2. CASE c[1] # i
    <3>1. PICK d \in gone \ src : d[1] = i /\ \E j \in DOMAIN blk[d] : blk[d][j] = c[1]
      BY <1>3, <2>2
    <3>2. Within(q, d, c[1]) /\ c[1] \in Ops(q)
      BY <1>1, <1>2, <1>4, <3>1
    <3>. QED  BY <1>2, <3>1, <3>2, WithinEncloses DEF Holds
  <2>. QED  BY <2>1, <2>2
<1>8. ~Holds(q, i, b[1]) /\ b \notin gone
  <2>1. Within(q, b, i)
    BY <1>4 DEF i
  <2>2. CASE b[1] \in Ops(q)
    <3>1. Encloses(q, b[1], i)
      BY <1>2, <2>1, <2>2, WithinEncloses
    <3>2. b[1] < i /\ b[1] \in Nat /\ i \in Nat
      BY <1>2, <2>2, <3>1, Placement DEF Encloses
    <3>3. ~Holds(q, i, b[1])
      BY <3>2 DEF Holds, Encloses
    <3>. QED  BY <1>7, <3>3
  <2>3. CASE b[1] \notin Ops(q)
    <3>1. b[1] = 0 /\ i \in Nat \ {0}
      BY <1>2, <2>3, RegsAre, Placement
    <3>2. ~Holds(q, i, b[1])
      BY <3>1 DEF Holds, Encloses
    <3>. QED  BY <1>7, <2>3, <3>2
  <2>. QED  BY <2>2, <2>3
<1>9. \A c \in gone : \A j \in DOMAIN blk[c] : Encloses(q, i, blk[c][j])
  <2>. TAKE c \in gone
  <2>. TAKE j \in DOMAIN blk[c]
  <2>1. c \in Regs(q) /\ c[1] \in Ops(q) /\ Holds(q, i, c[1]) /\ Within(q, c, blk[c][j])
        /\ blk[c][j] \in Ops(q)
    BY <1>1, <1>2, <1>4, <1>7
  <2>2. Encloses(q, c[1], blk[c][j])
    BY <2>1, WithinEncloses
  <2>. QED  BY <1>2, <2>1, <2>2, EnclosesTrans DEF Holds
\* Where the operations of the new blocks were.
<1>10. ASSUME NEW c \in Regs(q), NEW n \in DOMAIN new[c]
       PROVE  \/ /\ c \notin gone
                 /\ \E o \in DOMAIN blk[c] :
                      /\ new[c][n] = blk[c][o] /\ (c = b => o # k)
                      /\ c # b => n = o
                      /\ c = b => Was(o, n)
              \/ c = b /\ \E m \in DOMAIN ops : n = k - 1 + m /\ new[c][n] = ops[m]
  <2>1. CASE c = b
    <3>1. CASE Stays(new[b], blk[b], k, l, n)
      <4>1. PICK o \in DOMAIN blk[b] :
              new[b][n] = blk[b][o] /\ Was(o, n)
        BY <3>1 DEF Stays
      <4>2. o # k
        BY <1>2, <4>1
      <4>. QED  BY <1>8, <2>1, <4>1, <4>2
    <3>2. CASE Comes(new[b], k, ops, n)
      BY <2>1, <3>2 DEF Comes
    <3>. QED  BY <1>5, <2>1, <3>1, <3>2
  <2>2. CASE c # b
    <3>1. c \notin gone /\ new[c] = blk[c]
      BY <1>5, <2>2
    <3>. QED  BY <2>2, <3>1
  <2>. QED  BY <2>1, <2>2
<1>11. ASSUME NEW c \in Regs(q), NEW n \in DOMAIN new[c]
       PROVE  \E d \in Regs(q) : \E o \in DOMAIN blk[d] :
                /\ new[c][n] = blk[d][o] /\ ~(d = b /\ o = k)
                /\ (d = c /\ c \notin gone) \/ (d \in src /\ c = b)
  <2>1. CASE c \notin gone /\ \E o \in DOMAIN blk[c] : new[c][n] = blk[c][o] /\ (c = b => o # k)
    BY <2>1
  <2>2. CASE c = b /\ \E m \in DOMAIN ops : new[c][n] = ops[m]
    <3>1. PICK m \in DOMAIN ops : new[c][n] = ops[m]
      BY <2>2
    <3>2. PICK d \in src : \E j \in DOMAIN blk[d] : ops[m] = blk[d][j]
      BY <1>3
    <3>3. d # b /\ d \in Regs(q)
      BY <1>1, <1>8
    <3>. QED  BY <2>2, <3>1, <3>2, <3>3
  <2>. QED  BY <1>10, <2>1, <2>2
\* i is in no block any more.
<1>12. \A c \in Regs(q) : \A n \in DOMAIN new[c] : new[c][n] # i
  BY <1>4, <1>11 DEF i
<1>13. OnlyOnce(q, new)
  <2>. SUFFICES ASSUME NEW c \in Regs(q), NEW d \in Regs(q), NEW m \in DOMAIN new[c],
                       NEW n \in DOMAIN new[d], new[c][m] = new[d][n]
                PROVE  c = d /\ m = n
    BY DEF OnlyOnce
  <2>1. PICK e \in Regs(q) : \E o \in DOMAIN blk[e] :
          /\ new[c][m] = blk[e][o] /\ ~(e = b /\ o = k)
          /\ (e = c /\ c \notin gone) \/ (e \in src /\ c = b)
    BY <1>11
  <2>2. PICK f \in Regs(q) : \E o \in DOMAIN blk[f] :
          /\ new[d][n] = blk[f][o] /\ ~(f = b /\ o = k)
          /\ (f = d /\ d \notin gone) \/ (f \in src /\ d = b)
    BY <1>11
  <2>3. e = f
    BY <1>4, <2>1, <2>2
  <2>4. c = d
    BY <1>1, <2>1, <2>2, <2>3
  <2>5. CASE c # b
    <3>1. new[c] = blk[c]
      BY <1>5, <2>1, <2>5
    <3>. QED  BY <1>4, <2>4, <3>1
  <2>6. CASE c = b
    <3>1. CASE /\ \E o \in DOMAIN blk[b] : new[b][m] = blk[b][o] /\ Was(o, m)
               /\ \E o \in DOMAIN blk[b] : new[b][n] = blk[b][o] /\ Was(o, n)
      <4>1. PICK o \in DOMAIN blk[b] : new[b][m] = blk[b][o] /\ Was(o, m)
        BY <3>1
      <4>2. PICK o2 \in DOMAIN blk[b] : new[b][n] = blk[b][o2] /\ Was(o2, n)
        BY <3>1
      <4>3. o = o2
        BY <1>4, <2>4, <2>6, <4>1, <4>2
      <4>. QED  BY <1>2, <2>4, <2>6, <4>1, <4>2, <4>3
    <3>2. CASE /\ \E o \in DOMAIN ops : m = k - 1 + o /\ new[b][m] = ops[o]
               /\ \E o \in DOMAIN ops : n = k - 1 + o /\ new[b][n] = ops[o]
      BY <1>3, <2>4, <2>6, <3>2
    <3>3. ASSUME NEW x \in Ops(q), \E o \in DOMAIN blk[b] : x = blk[b][o]
          PROVE  ~(\E o \in DOMAIN ops : x = ops[o])
      <4>1. \A j \in src : j \in Regs(q) /\ j # b
        BY <1>1, <1>8
      <4>. QED  BY <1>3, <1>4, <3>3, <4>1
    <3>4. new[b][m] \in Ops(q) /\ new[b][n] = new[b][m] /\ c = b /\ d = b
      BY <1>2, <2>4, <2>6
    <3>. QED  BY <1>10, <3>1, <3>2, <3>3, <3>4
  <2>. QED  BY <2>4, <2>5, <2>6
<1>14. AllKept(q, new)
  <2>. SUFFICES ASSUME NEW x \in EffectsOf(q)
                PROVE  \E c \in Regs(q) : \E n \in DOMAIN new[c] : new[c][n] = x
    BY DEF AllKept
  <2>1. PICK c \in Regs(q) : \E j \in DOMAIN blk[c] : blk[c][j] = x
    BY DEF Arranged, AllKept
  <2>2. PICK j \in DOMAIN blk[c] : blk[c][j] = x
    BY <2>1
  <2>3. Kind(q, x) \in LeafKinds /\ Kind(q, x) # "task"
    BY DEF EffectsOf, LeafKinds
  <2>4. CASE c \in src
    <3>1. PICK n \in DOMAIN ops : ops[n] = x
      BY <1>3, <2>2, <2>4
    <3>. QED  BY <1>5, <3>1
  <2>5. CASE c \in gone \ src
    BY <1>3, <2>2, <2>3, <2>5
  <2>6. CASE c \notin gone /\ c # b
    BY <1>5, <2>2, <2>6
  <2>7. CASE c = b
    <3>1. j # k
      BY <1>6, <2>2, <2>3, <2>7 DEF i
    <3>. QED  BY <1>5, <2>2, <2>7, <3>1
  <2>. QED  BY <2>4, <2>5, <2>6, <2>7
<1>15. InPlace(q, new)
  <2>. SUFFICES ASSUME NEW c \in Regs(q), NEW n \in DOMAIN new[c]
                PROVE  Within(q, c, new[c][n])
    BY DEF InPlace
  <2>1. PICK d \in Regs(q) : \E o \in DOMAIN blk[d] :
          new[c][n] = blk[d][o] /\ (d = c \/ (d \in src /\ c = b))
    BY <1>11
  <2>2. PICK o \in DOMAIN blk[d] : new[c][n] = blk[d][o] /\ (d = c \/ (d \in src /\ c = b))
    BY <2>1
  <2>3. CASE d = c
    BY <1>4, <2>2, <2>3
  <2>4. CASE d \in src /\ c = b
    <3>1. Encloses(q, i, blk[d][o]) /\ blk[d][o] \in Ops(q)
      BY <1>1, <1>2, <1>9, <2>4
    <3>2. PICK j \in Children(q, b[1]) : q[j].region = b[2] /\ Holds(q, j, i)
      BY <1>4 DEF Within, i
    <3>3. j \in Ops(q)
      BY <3>2 DEF Children
    <3>4. Holds(q, j, blk[d][o])
      BY <1>2, <3>1, <3>2, <3>3, HoldsTrans DEF Holds
    <3>. QED  BY <2>2, <2>4, <3>2, <3>4 DEF Within
  <2>. QED  BY <2>2, <2>3, <2>4
<1>16. Intact(q, new)
  <2>. SUFFICES ASSUME NEW c \in Regs(q), NEW d \in Regs(q), NEW m \in DOMAIN new[c],
                       NEW n \in DOMAIN new[d], Encloses(q, new[c][m], new[d][n])
                PROVE  Holds(q, new[c][m], d[1])
    BY DEF Intact
  <2>. DEFINE e == new[c][m]
  <2>1. e \in Ops(q) /\ e # i
    BY <1>2, <1>12
  <2>2. \E f \in Regs(q) : \E o \in DOMAIN blk[f] : e = blk[f][o]
    BY <1>11
  <2>3. \A f \in Regs(q) : \A o \in DOMAIN blk[f] :
          Encloses(q, e, blk[f][o]) => Holds(q, e, f[1])
    BY <1>4, <2>2
  <2>4. PICK f \in Regs(q) : \E o \in DOMAIN blk[f] :
          new[d][n] = blk[f][o] /\ (f = d \/ (f \in src /\ d = b))
    BY <1>11
  <2>5. Holds(q, e, f[1])
    BY <2>3, <2>4
  <2>6. Holds(q, e, i) => Holds(q, e, b[1])
    BY <2>1, <2>3 DEF Holds, i
  <2>7. CASE f \in src /\ d = b
    <3>1. CASE f[1] = i
      BY <2>5, <2>6, <2>7, <3>1
    <3>2. CASE f[1] # i
      <4>1. PICK g \in gone \ src : g[1] = i /\ \E j \in DOMAIN blk[g] : blk[g][j] = f[1]
        BY <1>1, <1>3, <2>7, <3>2
      <4>2. PICK j \in DOMAIN blk[g] : blk[g][j] = f[1]
        BY <4>1
      <4>3. e # f[1]
        <5>1. PICK h \in Regs(q) : \E o \in DOMAIN blk[h] :
                /\ e = blk[h][o]
                /\ (h = c /\ c \notin gone) \/ (h \in src /\ c = b)
          BY <1>11
        <5>2. h # g /\ g \in Regs(q)
          BY <1>1, <4>1, <5>1
        <5>. QED  BY <1>4, <4>2, <5>1, <5>2
      <4>4. Encloses(q, e, blk[g][j]) /\ g \in Regs(q)
        BY <1>1, <2>5, <4>1, <4>2, <4>3 DEF Holds
      <4>5. Holds(q, e, g[1])
        BY <2>3, <4>4
      <4>. QED  BY <2>6, <2>7, <4>1, <4>5
    <3>. QED  BY <3>1, <3>2
  <2>. QED  BY <2>4, <2>5, <2>7
<1>17. OnlyTasks(q, new)
  <2>. SUFFICES ASSUME NEW c \in Regs(q), c[1] \in OfKind(q, "concurrent"), NEW n \in DOMAIN new[c]
                PROVE  new[c][n] \in Children(q, c[1]) /\ Kind(q, new[c][n]) = "task"
    BY DEF OnlyTasks
  <2>1. c # b
    OBVIOUS
  <2>2. new[c] = blk[c]
    BY <1>5, <1>10, <2>1
  <2>. QED  BY <2>2 DEF Arranged, OnlyTasks
<1>18. InOrder(q, new)
  <2>. SUFFICES ASSUME NEW c \in Regs(q), NEW m \in DOMAIN new[c], NEW n \in DOMAIN new[c],
                       Precedes(q, new[c][m], new[c][n])
                PROVE  m < n
    BY DEF InOrder
  <2>1. CASE c # b
    <3>1. new[c] = blk[c]
      BY <1>5, <1>10, <2>1
    <3>. QED  BY <1>4, <3>1
  <2>2. CASE c = b
    <3>. DEFINE x == new[b][m]
                y == new[b][n]
    <3>0. x \in Ops(q) /\ y \in Ops(q) /\ Precedes(q, x, y) /\ m \in Nat /\ n \in Nat
      BY <1>2, <2>2
    <3>1. \A o \in DOMAIN blk[b] : ~Encloses(q, i, blk[b][o])
      BY <1>4, <1>8 DEF i
    <3>2. \A o \in DOMAIN ops : Encloses(q, i, ops[o])
      BY <1>1, <1>3, <1>9
    <3>. HIDE DEF x, y
    <3>3. CASE /\ \E o \in DOMAIN blk[b] : x = blk[b][o] /\ Was(o, m)
               /\ \E o \in DOMAIN blk[b] : y = blk[b][o] /\ Was(o, n)
      <4>1. PICK o \in DOMAIN blk[b] : x = blk[b][o] /\ Was(o, m)
        BY <3>3
      <4>2. PICK o2 \in DOMAIN blk[b] : y = blk[b][o2] /\ Was(o2, n)
        BY <3>3
      <4>3. o < o2
        BY <1>4, <3>0, <4>1, <4>2
      <4>. QED  BY <1>2, <4>1, <4>2, <4>3
    <3>4. CASE /\ \E o \in DOMAIN blk[b] : x = blk[b][o] /\ Was(o, m)
               /\ \E o \in DOMAIN ops : n = k - 1 + o /\ y = ops[o]
      <4>1. PICK o \in DOMAIN blk[b] : x = blk[b][o] /\ Was(o, m)
        BY <3>4
      <4>2. PICK o2 \in DOMAIN ops : n = k - 1 + o2 /\ y = ops[o2]
        BY <3>4
      <4>3. Precedes(q, x, i) \/ Encloses(q, i, x)
        BY <1>2, <3>0, <3>2, <4>2, PrecedesOuter DEF Holds
      <4>4. Precedes(q, blk[b][o], blk[b][k])
        BY <3>1, <4>1, <4>3 DEF i
      <4>5. o < k
        BY <1>4, <4>4
      <4>. QED  BY <1>2, <4>1, <4>2, <4>5
    <3>5. CASE /\ \E o \in DOMAIN ops : m = k - 1 + o /\ x = ops[o]
               /\ \E o \in DOMAIN blk[b] : y = blk[b][o] /\ Was(o, n)
      <4>1. PICK o \in DOMAIN ops : m = k - 1 + o /\ x = ops[o]
        BY <3>5
      <4>2. PICK o2 \in DOMAIN blk[b] : y = blk[b][o2] /\ Was(o2, n)
        BY <3>5
      <4>3. Precedes(q, i, y)
        BY <1>2, <3>0, <3>1, <3>2, <4>1, <4>2, PrecedesOut
      <4>4. Precedes(q, blk[b][k], blk[b][o2])
        BY <4>2, <4>3 DEF i
      <4>5. k < o2
        BY <1>4, <4>4
      <4>. QED  BY <1>2, <4>1, <4>2, <4>5
    <3>6. CASE /\ \E o \in DOMAIN ops : m = k - 1 + o /\ x = ops[o]
               /\ \E o \in DOMAIN ops : n = k - 1 + o /\ y = ops[o]
      <4>1. PICK o \in DOMAIN ops : m = k - 1 + o /\ x = ops[o]
        BY <3>6
      <4>2. PICK o2 \in DOMAIN ops : n = k - 1 + o2 /\ y = ops[o2]
        BY <3>6
      <4>3. o < o2
        BY <1>3, <3>0, <4>1, <4>2
      <4>. QED  BY <1>2, <4>1, <4>2, <4>3
    <3>7. /\ \/ \E o \in DOMAIN blk[b] : x = blk[b][o] /\ Was(o, m)
             \/ \E o \in DOMAIN ops : m = k - 1 + o /\ x = ops[o]
          /\ \/ \E o \in DOMAIN blk[b] : y = blk[b][o] /\ Was(o, n)
             \/ \E o \in DOMAIN ops : n = k - 1 + o /\ y = ops[o]
      BY <1>10, <2>2 DEF x, y
    <3>. QED  BY <3>3, <3>4, <3>5, <3>6, <3>7
  <2>. QED  BY <2>1, <2>2
<1>. QED  BY <1>1, <1>13, <1>14, <1>15, <1>16, <1>17, <1>18 DEF Arranged

-----------------------------------------------------------------------------
\* The kinds of operation the patterns match have one region, or two.
LEMMA RegionCount ==
  ASSUME NEW q, Legal(q), NEW i \in Ops(q)
  PROVE  /\ Kind(q, i) \in {"task", "concurrent", "pipeline", "stage"} => DOMAIN q[i].term = {1}
         /\ Kind(q, i) = "overlap" => DOMAIN q[i].term = {1, 2}
<1>1. RegionsOK(q, i)
  BY DEF Legal
<1>2. CASE Kind(q, i) \in {"task", "concurrent", "pipeline", "stage"}
  <2>1. Len(q[i].term) = 1
    BY <1>1, <1>2, Zenon DEF RegionsOK
  <2>2. DOMAIN q[i].term = {1}
    BY <1>1, <2>1 DEF RegionsOK
  <2>. QED  BY <1>2, <2>2
<1>3. CASE Kind(q, i) = "overlap"
  <2>1. Len(q[i].term) = 2
    BY <1>1, <1>3, Zenon DEF RegionsOK
  <2>2. DOMAIN q[i].term = {1, 2}
    BY <1>1, <2>1 DEF RegionsOK
  <2>. QED  BY <1>3, <2>2
<1>. QED  BY <1>2, <1>3

LEMMA RegionIsReg ==
  ASSUME NEW q, NEW i \in Ops(q), NEW r \in DOMAIN q[i].term
  PROVE  <<i, r>> \in Regs(q)
BY DEF Regs

\* The one region of a task, a stage or a pipeline.
LEMMA BodyGathered ==
  ASSUME NEW q, Legal(q), NEW blk, Arranged(q, blk), NEW i \in Ops(q), <<i, 1>> \in Regs(q)
  PROVE  Gathered(q, blk, i, blk[<<i, 1>>], {<<i, 1>>}, {<<i, 1>>})
<1>. DEFINE c == <<i, 1>>
<1>1. c[1] = i /\ c \in Regs(q)
  OBVIOUS
<1>. SUFFICES Gathered(q, blk, i, blk[c], {c}, {c})
  OBVIOUS
<1>. HIDE DEF c
<1>2. blk[c] \in Seq(Ops(q))
  BY <1>1 DEF Arranged
<1>3. \A m, n \in DOMAIN blk[c] : blk[c][m] = blk[c][n] => m = n
  BY <1>1 DEF Arranged, OnlyOnce
<1>4. \A m, n \in DOMAIN blk[c] : Precedes(q, blk[c][m], blk[c][n]) => m < n
  BY <1>1 DEF Arranged, InOrder
<1>. QED  BY <1>1, <1>2, <1>3, <1>4 DEF Gathered

\* The regions of an overlap: no order of the program is between them.
LEMMA OverlapGathered ==
  ASSUME NEW q, Legal(q), NEW blk, Arranged(q, blk), NEW i \in Ops(q),
         <<i, 1>> \in Regs(q), <<i, 2>> \in Regs(q)
  PROVE  Gathered(q, blk, i, blk[<<i, 2>>] \o blk[<<i, 1>>],
                  {<<i, 1>>, <<i, 2>>}, {<<i, 1>>, <<i, 2>>})
<1>. DEFINE c == <<i, 1>>
            d == <<i, 2>>
<1>1. c[1] = i /\ d[1] = i /\ c[2] = 1 /\ d[2] = 2 /\ c # d /\ c \in Regs(q) /\ d \in Regs(q)
  OBVIOUS
<1>. SUFFICES Gathered(q, blk, i, blk[d] \o blk[c], {c, d}, {c, d})
  OBVIOUS
<1>. HIDE DEF c, d
<1>. DEFINE u == blk[d]
            w == blk[c]
            t == u \o w
            h == Len(u)
            l == Len(w)
<1>2. u \in Seq(Ops(q)) /\ w \in Seq(Ops(q))
  BY <1>1 DEF Arranged
<1>. HIDE DEF u, w
<1>3. /\ t \in Seq(Ops(q)) /\ h \in Nat /\ l \in Nat
      /\ DOMAIN u = 1..h /\ DOMAIN w = 1..l /\ DOMAIN t = 1..(h + l)
      /\ \A n \in 1..h : t[n] = u[n]
      /\ \A n \in 1..l : t[h + n] = w[n]
  BY <1>2
<1>4. /\ \A m, n \in DOMAIN u : u[m] = u[n] => m = n
      /\ \A m, n \in DOMAIN w : w[m] = w[n] => m = n
      /\ \A m \in DOMAIN u, n \in DOMAIN w : u[m] # w[n]
  BY <1>1 DEF Arranged, OnlyOnce, u, w
<1>5. /\ \A m, n \in DOMAIN u : Precedes(q, u[m], u[n]) => m < n
      /\ \A m, n \in DOMAIN w : Precedes(q, w[m], w[n]) => m < n
  BY <1>1 DEF Arranged, InOrder, u, w
<1>6. \A m \in DOMAIN w, n \in DOMAIN u : ~Precedes(q, w[m], u[n])
  <2>. SUFFICES ASSUME NEW m \in DOMAIN w, NEW n \in DOMAIN u, Precedes(q, w[m], u[n])
                PROVE  FALSE
    OBVIOUS
  <2>1. w[m] \in Ops(q) /\ u[n] \in Ops(q)
    BY <1>2
  <2>2. PICK a \in Children(q, i) : q[a].region = 1 /\ Holds(q, a, w[m])
    BY <1>1 DEF Arranged, InPlace, Within, w
  <2>3. PICK b \in Children(q, i) : q[b].region = 2 /\ Holds(q, b, u[n])
    BY <1>1 DEF Arranged, InPlace, Within, u
  <2>4. a \in Ops(q) /\ b \in Ops(q) /\ q[a].parent = q[b].parent /\ a # b
    BY <2>2, <2>3 DEF Children
  <2>5. q[a].region = q[b].region
    BY <2>1, <2>2, <2>3, <2>4, SiblingsPrecede
  <2>. QED  BY <2>2, <2>3, <2>5
<1>. HIDE DEF t, h, l
<1>7. \A n \in DOMAIN t :
        \/ n \in 1..h /\ n \in DOMAIN u /\ t[n] = u[n]
        \/ n - h \in 1..l /\ n - h \in DOMAIN w /\ t[n] = w[n - h] /\ n \in Int /\ n > h
  <2>. TAKE n \in DOMAIN t
  <2>1. CASE n <= h
    BY <1>3, <2>1
  <2>2. CASE n > h
    <3>1. n - h \in 1..l /\ h + (n - h) = n /\ n \in Int
      BY <1>3, <2>2
    <3>. QED  BY <1>3, <2>2, <3>1
  <2>. QED  BY <1>3, <2>1, <2>2
<1>8. \A n \in DOMAIN t : \E e \in {c, d} : \E j \in DOMAIN blk[e] : t[n] = blk[e][j]
  BY <1>7 DEF u, w
<1>9. \A e \in {c, d} : \A j \in DOMAIN blk[e] : \E n \in DOMAIN t : t[n] = blk[e][j]
  <2>1. \A j \in DOMAIN u : \E n \in DOMAIN t : t[n] = u[j]
    <3>1. \A j \in 1..h : j \in 1..(h + l)
      BY <1>3
    <3>. QED  BY <1>3, <3>1
  <2>2. \A j \in DOMAIN w : \E n \in DOMAIN t : t[n] = w[j]
    <3>1. \A j \in 1..l : h + j \in 1..(h + l)
      BY <1>3
    <3>. QED  BY <1>3, <3>1
  <2>. QED  BY <2>1, <2>2 DEF u, w
<1>10. \A m, n \in DOMAIN t : t[m] = t[n] => m = n
  <2>1. \A m, n \in DOMAIN t : m \in Int /\ n \in Int /\ h \in Int
    BY <1>3
  <2>2. \A m, n \in DOMAIN t : m - h = n - h => m = n
    BY <2>1
  <2>. QED  BY <1>4, <1>7, <2>2
<1>11. \A m, n \in DOMAIN t : Precedes(q, t[m], t[n]) => m < n
  <2>. SUFFICES ASSUME NEW m \in DOMAIN t, NEW n \in DOMAIN t, Precedes(q, t[m], t[n])
                PROVE  m < n
    OBVIOUS
  <2>1. m \in Int /\ n \in Int /\ h \in Int
    BY <1>3
  <2>2. CASE m \in DOMAIN u /\ t[m] = u[m] /\ n \in DOMAIN u /\ t[n] = u[n]
    BY <1>5, <2>2
  <2>3. CASE m \in 1..h /\ n > h
    BY <2>1, <2>3
  <2>4. CASE m - h \in DOMAIN w /\ t[m] = w[m - h] /\ n - h \in DOMAIN w /\ t[n] = w[n - h]
    <3>1. m - h < n - h
      BY <1>5, <2>4
    <3>. QED  BY <2>1, <3>1
  <2>. QED  BY <1>6, <1>7, <2>2, <2>3, <2>4
<1>12. \A e \in {c, d} : e[1] = i
  BY <1>1
<1>13. t \in Seq(Ops(q)) /\ {c, d} \subseteq Regs(q)
  BY <1>1, <1>3
<1>14. Gathered(q, blk, i, t, {c, d}, {c, d})
  BY <1>8, <1>9, <1>10, <1>11, <1>12, <1>13 DEF Gathered
<1>. QED  BY <1>14 DEF t, u, w

\* The tasks of a concurrent, in the order of its block.
TaskRegions(blk, i) == {<<t, 1>> : t \in ToSet(blk[<<i, 1>>])}
TaskBlocks(blk, i) == [k \in DOMAIN blk[<<i, 1>>] |-> blk[<<blk[<<i, 1>>][k], 1>>]]

LEMMA TasksGathered ==
  ASSUME NEW q, Legal(q), NEW blk, Arranged(q, blk), NEW i \in OfKind(q, "concurrent"),
         <<i, 1>> \in Regs(q)
  PROVE  /\ Gathered(q, blk, i, FlattenSeq(TaskBlocks(blk, i)), TaskRegions(blk, i),
                     {<<i, 1>>} \cup TaskRegions(blk, i))
<1>. DEFINE c == <<i, 1>>
            w == blk[c]
            ss == TaskBlocks(blk, i)
            t == FlattenSeq(ss)
            src == TaskRegions(blk, i)
            gone == {c} \cup src
            l == Len(w)
<1>1. i \in Ops(q) /\ c[1] = i /\ c \in Regs(q) /\ w \in Seq(Ops(q)) /\ DOMAIN w = 1..l /\ l \in Nat
  BY DEF OfKind, Arranged
<1>2. /\ ss = [k \in DOMAIN w |-> blk[<<w[k], 1>>]]
      /\ src = {<<w[k], 1>> : k \in DOMAIN w}
  <2>1. ToSet(w) = {w[k] : k \in DOMAIN w}
    BY DEF ToSet
  <2>. QED  BY <2>1 DEF TaskBlocks, TaskRegions
<1>. SUFFICES Gathered(q, blk, i, t, src, gone)
  OBVIOUS
<1>3. /\ \A k \in DOMAIN w : w[k] \in Children(q, i) /\ Kind(q, w[k]) = "task"
      /\ \A m, n \in DOMAIN w : w[m] = w[n] => m = n
      /\ \A m, n \in DOMAIN w : Precedes(q, w[m], w[n]) => m < n
  BY <1>1 DEF Arranged, OnlyTasks, OnlyOnce, InOrder
<1>. HIDE DEF c, w, ss, src, l
<1>4. \A k \in DOMAIN w :
        /\ w[k] \in Ops(q) /\ q[w[k]].parent = i /\ w[k] # i
        /\ <<w[k], 1>> \in Regs(q) /\ blk[<<w[k], 1>>] \in Seq(Ops(q))
  <2>. TAKE k \in DOMAIN w
  <2>1. w[k] \in Ops(q) /\ q[w[k]].parent = i /\ i < w[k] /\ i \in Nat
    BY <1>1, <1>3, ChildInside
  <2>2. <<w[k], 1>> \in Regs(q)
    BY <1>3, <2>1, RegionCount, RegionIsReg
  <2>3. w[k] # i
    BY <2>1
  <2>. QED  BY <2>1, <2>2, <2>3 DEF Arranged
<1>5. ss \in Seq(Seq(Ops(q))) /\ Len(ss) = l /\ DOMAIN ss = DOMAIN w
  <2>1. ss \in [1..l -> Seq(Ops(q))]
    BY <1>1, <1>2, <1>4
  <2>. QED  BY <1>1, <2>1
<1>6. t \in Seq(Ops(q)) /\ IsPieced(t, ss, l)
  BY <1>5, FlattenIsList, FlattenIsPieced
<1>. HIDE DEF t
<1>7. PICK lst, ofs : Pieces(t, lst, ofs, ss, l)
  BY <1>6 DEF IsPieced
<1>8. /\ DOMAIN t = 1..Len(t) /\ Len(t) \in Nat
      /\ \A n \in DOMAIN t : lst[n] \in DOMAIN w
      /\ \A n \in DOMAIN t : /\ ofs[n] \in DOMAIN blk[<<w[lst[n]], 1>>]
                             /\ t[n] = blk[<<w[lst[n]], 1>>][ofs[n]]
      /\ \A m, n \in DOMAIN t : m < n => lst[m] < lst[n] \/ (lst[m] = lst[n] /\ ofs[m] < ofs[n])
      /\ \A k \in DOMAIN w : \A j \in DOMAIN blk[<<w[k], 1>>] :
           \E n \in DOMAIN t : lst[n] = k /\ ofs[n] = j
  <2>1. DOMAIN t = 1..Len(t) /\ Len(t) \in Nat
    BY <1>6
  <2>2. \A k \in DOMAIN w : ss[k] = blk[<<w[k], 1>>] /\ 1..Len(ss[k]) = DOMAIN ss[k]
    BY <1>2, <1>4
  <2>3. /\ \A n \in DOMAIN t : lst[n] \in DOMAIN w
        /\ \A n \in DOMAIN t : ofs[n] \in 1..Len(ss[lst[n]]) /\ t[n] = ss[lst[n]][ofs[n]]
        /\ \A m, n \in DOMAIN t : m < n => lst[m] < lst[n] \/ (lst[m] = lst[n] /\ ofs[m] < ofs[n])
        /\ \A k \in DOMAIN w : \A j \in 1..Len(ss[k]) : \E n \in DOMAIN t : lst[n] = k /\ ofs[n] = j
    <3>. DEFINE D == DOMAIN t
                E == DOMAIN w
    <3>1. D = 1..Len(t) /\ E = 1..l
      BY <1>1, <2>1
    <3>2. \A n \in D : lst[n] \in E
      <4>1. lst \in [D -> E]
        <5>. HIDE DEF D, E
        <5>. QED  BY <1>7, <3>1 DEF Pieces
      <4>. HIDE DEF D, E
      <4>. QED  BY <4>1
    <3>. HIDE DEF D, E
    <3>3. \A n \in D : ofs[n] \in 1..Len(ss[lst[n]]) /\ t[n] = ss[lst[n]][ofs[n]]
      BY <1>7, <3>1 DEF Pieces
    <3>4. \A m, n \in D : m < n => lst[m] < lst[n] \/ (lst[m] = lst[n] /\ ofs[m] < ofs[n])
      BY <1>7, <3>1 DEF Pieces
    <3>5. \A k \in E : \A j \in 1..Len(ss[k]) : \E n \in D : lst[n] = k /\ ofs[n] = j
      BY <1>7, <3>1 DEF Pieces
    <3>. QED  BY <3>2, <3>3, <3>4, <3>5 DEF D, E
  <2>4. \A n \in DOMAIN t : /\ ofs[n] \in DOMAIN blk[<<w[lst[n]], 1>>]
                             /\ t[n] = blk[<<w[lst[n]], 1>>][ofs[n]]
    BY <2>2, <2>3
  <2>5. \A k \in DOMAIN w : \A j \in DOMAIN blk[<<w[k], 1>>] :
           \E n \in DOMAIN t : lst[n] = k /\ ofs[n] = j
    BY <2>2, <2>3
  <2>. QED  BY <2>1, <2>3, <2>4, <2>5
<1>9. \A n \in DOMAIN t :
        /\ t[n] \in Ops(q) /\ Encloses(q, w[lst[n]], t[n])
        /\ n \in Int /\ lst[n] \in Int /\ ofs[n] \in Int
  <2>. TAKE n \in DOMAIN t
  <2>. DEFINE e == <<w[lst[n]], 1>>
  <2>1. w[lst[n]] \in Ops(q) /\ e \in Regs(q) /\ blk[e] \in Seq(Ops(q)) /\ e[1] = w[lst[n]]
    BY <1>4, <1>8
  <2>2. ofs[n] \in DOMAIN blk[e] /\ t[n] = blk[e][ofs[n]]
    BY <1>8
  <2>. HIDE DEF e
  <2>3. t[n] \in Ops(q) /\ Within(q, e, t[n]) /\ ofs[n] \in Int
    BY <2>1, <2>2 DEF Arranged, InPlace
  <2>4. Encloses(q, w[lst[n]], t[n])
    BY <2>1, <2>3, WithinEncloses
  <2>5. n \in Int /\ lst[n] \in Int
    BY <1>1, <1>8
  <2>. QED  BY <2>3, <2>4, <2>5
<1>10. \A n \in DOMAIN t : \E e \in src : \E j \in DOMAIN blk[e] : t[n] = blk[e][j]
  <2>. TAKE n \in DOMAIN t
  <2>. DEFINE e == <<w[lst[n]], 1>>
  <2>1. e \in src
    BY <1>2, <1>8
  <2>2. ofs[n] \in DOMAIN blk[e] /\ t[n] = blk[e][ofs[n]]
    BY <1>8
  <2>. HIDE DEF e
  <2>. QED  BY <2>1, <2>2
<1>11. \A e \in src : \A j \in DOMAIN blk[e] : \E n \in DOMAIN t : t[n] = blk[e][j]
  <2>. SUFFICES ASSUME NEW k \in DOMAIN w, NEW j \in DOMAIN blk[<<w[k], 1>>]
                PROVE  \E n \in DOMAIN t : t[n] = blk[<<w[k], 1>>][j]
    BY <1>2
  <2>1. PICK n \in DOMAIN t : lst[n] = k /\ ofs[n] = j
    BY <1>8
  <2>. QED  BY <1>8, <2>1
<1>12. \A m, n \in DOMAIN t : t[m] = t[n] => lst[m] = lst[n] /\ ofs[m] = ofs[n]
  <2>. SUFFICES ASSUME NEW m \in DOMAIN t, NEW n \in DOMAIN t, t[m] = t[n]
                PROVE  lst[m] = lst[n] /\ ofs[m] = ofs[n]
    OBVIOUS
  <2>1. <<w[lst[m]], 1>> = <<w[lst[n]], 1>> /\ ofs[m] = ofs[n]
    <3>. DEFINE e == <<w[lst[m]], 1>>
                d == <<w[lst[n]], 1>>
    <3>1. /\ e \in Regs(q) /\ ofs[m] \in DOMAIN blk[e] /\ t[m] = blk[e][ofs[m]]
          /\ d \in Regs(q) /\ ofs[n] \in DOMAIN blk[d] /\ t[n] = blk[d][ofs[n]]
      BY <1>4, <1>8
    <3>. SUFFICES e = d /\ ofs[m] = ofs[n]
      OBVIOUS
    <3>. HIDE DEF d, e
    <3>2. blk[e][ofs[m]] = blk[d][ofs[n]]
      BY <3>1
    <3>. QED  BY <3>1, <3>2 DEF Arranged, OnlyOnce
  <2>2. w[lst[m]] = w[lst[n]]
    BY <2>1
  <2>. QED  BY <1>3, <1>8, <2>1, <2>2
<1>13. \A m, n \in DOMAIN t : t[m] = t[n] => m = n
  <2>. SUFFICES ASSUME NEW m \in DOMAIN t, NEW n \in DOMAIN t, t[m] = t[n]
                PROVE  m = n
    OBVIOUS
  <2>1. ~(m < n) /\ ~(n < m)
    BY <1>8, <1>9, <1>12
  <2>. QED  BY <1>9, <2>1
<1>14. \A m, n \in DOMAIN t : Precedes(q, t[m], t[n]) => m < n
  <2>. SUFFICES ASSUME NEW m \in DOMAIN t, NEW n \in DOMAIN t, Precedes(q, t[m], t[n]), ~(m < n)
                PROVE  FALSE
    OBVIOUS
  <2>1. n < m
    <3>1. m # n
      <4>1. t[m] \in Nat
        BY <1>9, Placement
      <4>. QED  BY <1>9, <4>1, PrecedesBefore
    <3>. QED  BY <1>9, <3>1
  <2>2. CASE lst[n] = lst[m] /\ ofs[n] < ofs[m]
    <3>. DEFINE e == <<w[lst[n]], 1>>
    <3>1. e \in Regs(q) /\ ofs[m] \in DOMAIN blk[e] /\ ofs[n] \in DOMAIN blk[e]
          /\ t[m] = blk[e][ofs[m]] /\ t[n] = blk[e][ofs[n]]
      BY <1>4, <1>8, <2>2
    <3>. HIDE DEF e
    <3>2. ofs[m] < ofs[n]
      BY <3>1 DEF Arranged, InOrder
    <3>. QED  BY <1>9, <2>2, <3>2
  <2>3. CASE lst[n] < lst[m]
    <3>1. lst[n] # lst[m] /\ lst[n] \in DOMAIN w /\ lst[m] \in DOMAIN w
      BY <1>8, <1>9, <2>3
    <3>2. w[lst[m]] # w[lst[n]] /\ q[w[lst[m]]].parent = q[w[lst[n]]].parent
          /\ w[lst[m]] \in Ops(q) /\ w[lst[n]] \in Ops(q)
      BY <1>3, <1>4, <3>1
    <3>3. /\ Holds(q, w[lst[m]], t[m]) /\ Holds(q, w[lst[n]], t[n])
          /\ t[m] \in Ops(q) /\ t[n] \in Ops(q)
      BY <1>9 DEF Holds
    <3>4. Precedes(q, w[lst[m]], w[lst[n]])
      BY <3>2, <3>3, SiblingsPrecede
    <3>5. lst[m] < lst[n]
      BY <1>3, <3>1, <3>4
    <3>. QED  BY <1>9, <2>3, <3>5
  <2>. QED  BY <1>8, <2>1, <2>2, <2>3
<1>15. c \notin src /\ src \subseteq Regs(q) /\ \A e \in src : \E j \in DOMAIN w : e[1] = w[j]
  <2>1. \A k \in DOMAIN w : <<w[k], 1>> # c
    BY <1>4 DEF c
  <2>. QED  BY <1>2, <1>4, <2>1
<1>16. src \subseteq gone /\ gone \subseteq Regs(q) /\ gone \ src = {c} /\ w = blk[c]
  BY <1>1, <1>15 DEF w
<1>17. \A e \in gone :
         e[1] = i \/ \E d \in gone \ src : d[1] = i /\ \E j \in DOMAIN blk[d] : blk[d][j] = e[1]
  BY <1>1, <1>15, <1>16
<1>18. \A e \in gone \ src : \A j \in DOMAIN blk[e] : Kind(q, blk[e][j]) = "task"
  BY <1>3, <1>16
<1>. HIDE DEF gone
<1>. QED  BY <1>6, <1>10, <1>11, <1>13, <1>14, <1>16, <1>17, <1>18 DEF Gathered

BlocksInv ==
  /\ Arranged(p, block)
  /\ stage # "idle" => pc = "accepted"

LEMMA RegionsAreRegs == AllRegions = Regs(p)
BY DEF AllRegions, Regions, Regs

LEMMA LowerInitInv == LowerInit => OracleInv /\ BlocksInv
<1>. SUFFICES ASSUME LowerInit PROVE OracleInv /\ BlocksInv
  OBVIOUS
<1>1. OracleInv /\ p \in Programs /\ stage = "idle" /\ block = [b \in AllRegions |-> Body(b)]
  BY OracleInitInv DEF LowerInit, OracleInit
<1>2. Legal(p) /\ \A i \in Children(p, 0) : p[i].region = 1
  BY <1>1, ProgramsAreLegal, BodyIsRegionOne
<1>3. block = Start(p)
  BY <1>1, RegionsAreRegs DEF Start, Body, Held
<1>. QED  BY <1>1, <1>2, <1>3, StartArranged DEF BlocksInv

\* The steps of the pass.
LEMMA ErasePreserves ==
  ASSUME OracleInv, BlocksInv, EraseSyncs, UNCHANGED oracleVars
  PROVE  BlocksInv'
<1>1. p' = p /\ pc' = pc /\ pc = "accepted" /\ Legal(p)
  BY DEF EraseSyncs, oracleVars, OracleInv, OracleTypeOK
<1>2. block' = Unsynced(p, block)
  BY RegionsAreRegs DEF EraseSyncs, Unsynced, IsSync
<1>. QED  BY <1>1, <1>2, ErasingArranged DEF BlocksInv

\* What a pattern puts in the place of an operation, and what it empties.
LEMMA InlinedGathered ==
  ASSUME Legal(p), Arranged(p, block), NEW i \in Ops(p),
         Kind(p, i) \in {"task", "concurrent", "overlap", "stage", "pipeline"}
  PROVE  \E src : Gathered(p, block, i, Inlined(i), src, Gone(i))
<1>1. \A r \in DOMAIN p[i].term : <<i, r>> \in Regs(p)
  BY RegionIsReg
<1>2. CASE Kind(p, i) = "overlap"
  <2>1. DOMAIN p[i].term = {1, 2}
    BY <1>2, RegionCount
  <2>2. Inlined(i) = block[<<i, 2>>] \o block[<<i, 1>>]
    BY <1>2, Zenon DEF Inlined
  <2>3. Gone(i) = {<<i, 1>>, <<i, 2>>}
    BY <1>2, <2>1 DEF Gone, Regions
  <2>4. <<i, 1>> \in Regs(p) /\ <<i, 2>> \in Regs(p)
    BY <1>1, <2>1
  <2>5. Gathered(p, block, i, block[<<i, 2>>] \o block[<<i, 1>>],
                 {<<i, 1>>, <<i, 2>>}, {<<i, 1>>, <<i, 2>>})
    BY <2>4, OverlapGathered
  <2>. QED  BY <2>2, <2>3, <2>5, Zenon
<1>3. CASE Kind(p, i) = "concurrent"
  <2>1. DOMAIN p[i].term = {1} /\ i \in OfKind(p, "concurrent")
    BY <1>3, RegionCount DEF OfKind, Kind
  <2>2. Inlined(i) = FlattenSeq(TaskBlocks(block, i))
    BY <1>3, Zenon DEF Inlined, TaskBlocks
  <2>3. Gone(i) = {<<i, 1>>} \cup TaskRegions(block, i)
    BY <1>3, <2>1 DEF Gone, Regions, TaskRegions
  <2>. QED  BY <1>1, <2>1, <2>2, <2>3, TasksGathered
<1>4. CASE Kind(p, i) \in {"task", "stage", "pipeline"}
  <2>1. DOMAIN p[i].term = {1}
    BY <1>4, RegionCount
  <2>2. Inlined(i) = block[<<i, 1>>]
    BY <1>4, Zenon DEF Inlined
  <2>3. Gone(i) = {<<i, 1>>}
    BY <1>4, <2>1 DEF Gone, Regions
  <2>. QED  BY <1>1, <2>1, <2>2, <2>3, BodyGathered
<1>. QED  BY <1>2, <1>3, <1>4

LEMMA InlinePreserves ==
  ASSUME OracleInv, BlocksInv, NEW b \in AllRegions, NEW i \in Ops(p), Inline(b, i),
         UNCHANGED oracleVars
  PROVE  BlocksInv'
<1>1. p' = p /\ pc' = pc /\ stage' = stage /\ Legal(p) /\ Arranged(p, block)
  BY DEF Inline, oracleVars, OracleInv, OracleTypeOK, BlocksInv
<1>2. /\ i \in ToSet(block[b]) /\ b \in Regs(p)
      /\ Kind(p, i) \in {"task", "concurrent", "overlap", "stage", "pipeline"}
      /\ Kind(p, i) = "task" => b[1] \notin OfKind(p, "concurrent")
      /\ block' = [c \in Regs(p) |-> IF c = b THEN Splice(b, i, Inlined(i))
                                     ELSE IF c \in Gone(i) THEN <<>> ELSE block[c]]
  BY RegionsAreRegs DEF Inline, Matches
<1>. DEFINE k == CHOOSE k \in DOMAIN block[b] : block[b][k] = i
<1>3. k \in DOMAIN block[b] /\ block[b][k] = i
  <2>1. \E j \in DOMAIN block[b] : block[b][j] = i
    BY <1>2 DEF ToSet
  <2>. QED  BY <2>1
<1>4. Splice(b, i, Inlined(i)) =
        SubSeq(block[b], 1, k - 1) \o Inlined(i) \o SubSeq(block[b], k + 1, Len(block[b]))
  BY DEF Splice
<1>. HIDE DEF k
<1>5. PICK src : Gathered(p, block, i, Inlined(i), src, Gone(i))
  BY <1>1, <1>2, InlinedGathered
<1>6. /\ Inlined(i) \in Seq(Ops(p)) /\ block \in [Regs(p) -> Seq(Ops(p))]
      /\ block[b] \in Seq(Ops(p)) /\ k \in 1..Len(block[b])
  BY <1>1, <1>2, <1>3, <1>5 DEF Gathered, Arranged
<1>7. /\ Splice(b, i, Inlined(i)) \in Seq(Ops(p))
      /\ IsSpliced(Splice(b, i, Inlined(i)), block[b], k, Inlined(i))
  BY <1>4, <1>6, Splicing
<1>8. Inlines(p, block, block', b, k, Inlined(i), Gone(i))
  <2>. DEFINE s == Splice(b, i, Inlined(i))
              g == Gone(i)
              new == [c \in Regs(p) |-> IF c = b THEN s ELSE IF c \in g THEN <<>> ELSE block[c]]
  <2>1. block' = new /\ s \in Seq(Ops(p)) /\ IsSpliced(s, block[b], k, Inlined(i))
    BY <1>2, <1>7
  <2>. HIDE DEF s, g
  <2>2. <<>> \in Seq(Ops(p))
    OBVIOUS
  <2>3. new \in [Regs(p) -> Seq(Ops(p))] /\ new[b] = s
        /\ \A c \in Regs(p) \ {b} : new[c] = IF c \in g THEN <<>> ELSE block[c]
    BY <1>2, <1>6, <2>1, <2>2
  <2>. HIDE DEF new
  <2>. QED  BY <2>1, <2>3 DEF Inlines, g
<1>9. Kind(p, i) \notin LeafKinds
  BY <1>2 DEF LeafKinds
<1>10. b[1] \notin OfKind(p, "concurrent")
  <2>1. b[1] \in OfKind(p, "concurrent") => Kind(p, i) = "task"
    BY <1>1, <1>2, <1>3 DEF Arranged, OnlyTasks
  <2>. QED  BY <1>2, <2>1
<1>11. /\ Gathered(p, block, block[b][k], Inlined(i), src, Gone(i))
       /\ Kind(p, block[b][k]) \notin LeafKinds
  BY <1>3, <1>5, <1>9
<1>12. Arranged(p, block')
  BY <1>1, <1>2, <1>3, <1>8, <1>10, <1>11, InliningArranged
<1>. QED  BY <1>1, <1>12 DEF BlocksInv

\* Every step of the pass and of the patterns keeps them.
LEMMA LowerStep ==
  ASSUME OracleInv, BlocksInv, [LowerNext]_lowerVars
  PROVE  OracleInv' /\ BlocksInv'
<1>1. CASE CheckFirst
  <2>1. OracleInv'
    BY <1>1, OracleStep DEF CheckFirst
  <2>2. pc # "accepted" /\ p' = p /\ block' = block /\ stage' = stage
    BY <1>1 DEF CheckFirst, seqVars, OracleNext, WalkOp, Collect, CopyWrites, Fixpoint, NextRead,
         TryCandidate, SearchOn, ReadDefined, ReadUndefined, Verdict
  <2>. QED  BY <2>1, <2>2 DEF BlocksInv
<1>2. CASE Lower
  <2>1. OracleInv' /\ p' = p /\ pc' = pc
    BY <1>2, OracleStep DEF Lower, oracleVars
  <2>2. CASE EraseSyncs
    BY <1>2, <2>1, <2>2, ErasePreserves DEF Lower
  <2>3. CASE Settled
    BY <2>1, <2>3 DEF Settled, BlocksInv
  <2>4. CASE \E b \in AllRegions, i \in Ops(p) : Inline(b, i)
    BY <1>2, <2>1, <2>4, InlinePreserves DEF Lower
  <2>. QED  BY <1>2, <2>2, <2>3, <2>4 DEF Lower, Sequentialize
<1>3. CASE UNCHANGED lowerVars
  <2>1. UNCHANGED oracleVars /\ p' = p /\ pc' = pc /\ block' = block /\ stage' = stage
    BY <1>3 DEF lowerVars, seqVars, oracleVars
  <2>2. OracleInv'
    BY <2>1, OracleStep
  <2>. QED  BY <2>1, <2>2 DEF BlocksInv
<1>. QED  BY <1>1, <1>2, <1>3 DEF LowerNext

\* What the invariant gives.
LEMMA InvKeepsEffects == OracleInv /\ BlocksInv => EffectsKept
<1>. SUFFICES ASSUME OracleInv, BlocksInv, NEW i \in Effects
              PROVE  Cardinality(Places(i)) = 1
  BY DEF EffectsKept
<1>1. Arranged(p, block) /\ i \in EffectsOf(p) /\ AllRegions = Regs(p)
  BY RegionsAreRegs DEF BlocksInv, Effects, EffectsOf
<1>2. PICK b \in Regs(p) : \E k \in DOMAIN block[b] : block[b][k] = i
  BY <1>1 DEF Arranged, AllKept
<1>3. PICK k \in DOMAIN block[b] : block[b][k] = i
  BY <1>2
<1>4. \A c \in Regs(p) : \A n \in DOMAIN block[c] : block[c][n] = i => c = b /\ n = k
  BY <1>1, <1>3 DEF Arranged, OnlyOnce
<1>5. Places(i) = {<<b, k>>}
  <2>. DEFINE At(c) == {<<c, n>> : n \in {j \in DOMAIN block[c] : block[c][j] = i}}
  <2>1. Places(i) = UNION {At(c) : c \in Regs(p)}
    BY <1>1 DEF Places
  <2>2. At(b) = {<<b, k>>} /\ \A c \in Regs(p) : At(c) \subseteq {<<b, k>>}
    BY <1>3, <1>4
  <2>. QED  BY <2>1, <2>2
<1>. QED  BY <1>5, FS_Singleton

LEMMA InvGivesExtension == OracleInv /\ BlocksInv => LinearExtension
<1>. SUFFICES ASSUME OracleInv, BlocksInv, stage = "done",
                     NEW m \in DOMAIN Order, NEW n \in DOMAIN Order,
                     Ordered(succ, Order[m], Order[n])
              PROVE  m < n
  BY InvKeepsEffects DEF LinearExtension
<1>. DEFINE b == <<0, 1>>
<1>1. Order = block[b] /\ b \in Regs(p) /\ b[1] = 0
  BY DEF Order, Regs
<1>. HIDE DEF b
<1>2. Arranged(p, block) /\ Legal(p) /\ pc # "walk"
  BY DEF BlocksInv, OracleInv, OracleTypeOK
<1>3. Order[m] \in Ops(p) /\ Order[n] \in Ops(p)
  BY <1>1, <1>2 DEF Arranged
<1>4. Framed(p, Order[m], Order[n])
  BY <1>2, <1>3, OrderIsFramed DEF InProgramOrder
<1>5. ~Encloses(p, Order[n], Order[m])
  <2>. SUFFICES ASSUME Encloses(p, Order[n], Order[m]) PROVE FALSE
    OBVIOUS
  <2>1. Holds(p, Order[n], 0)
    BY <1>1, <1>2 DEF Arranged, Intact
  <2>2. Order[n] \in Nat \ {0}
    BY <1>2, <1>3, Placement
  <2>. QED  BY <2>1, <2>2 DEF Holds, Encloses
<1>. QED  BY <1>1, <1>2, <1>4, <1>5 DEF Framed, Arranged, InOrder

\* What the patterns of SequentializeSchedule.cpp keep of an accepted program,
\* in whatever order they fire: every effect is in one block, once; a block
\* holds what was in its region; and it holds it in the order of the program.
THEOREM BlocksStayArranged == LowerSpec => [](OracleInv /\ BlocksInv)
<1>1. OracleInv /\ BlocksInv /\ [LowerNext]_lowerVars => (OracleInv /\ BlocksInv)'
  BY LowerStep
<1>. QED  BY <1>1, LowerInitInv, PTL DEF LowerSpec

\* The schedule -sequentialize-s2c2-schedule leaves is a valid one: for every
\* program, with branches or without, and every order of the patterns, each
\* effect is in one place, and the one block is a linear extension of the
\* happens-before graph of the pass.
THEOREM SequentialIsExtension == LowerSpec => []LinearExtension
  BY BlocksStayArranged, InvGivesExtension, PTL
=============================================================================
