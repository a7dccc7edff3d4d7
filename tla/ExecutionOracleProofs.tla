----------------------- MODULE ExecutionOracleProofs -----------------------
(***************************************************************************)
(* First the search: it answers correctly on every graph.  Its step lemmas *)
(* speak of one call only, so that the proofs about the whole pass, which  *)
(* makes many calls, can cite them.  Then the pass: its verdict is exactly *)
(* what its graph says, for every legal program (OracleInv is inductive),  *)
(* the order of the program is in the graph, and the graph orders nothing  *)
(* that the tree of the program does not.                                  *)
(***************************************************************************)
EXTENDS ExecutionOracle, HBSearch, FiniteInduction

-----------------------------------------------------------------------------
\* A call on two nodes of the graph starts a search that satisfies the
\* search invariant: only the start has been pushed.
LEMMA CallEstablishes ==
  ASSUME TypeOK, NEW a \in DOMAIN succ, NEW b \in DOMAIN succ,
         Call(a, b), UNCHANGED succ
  PROVE  TypeOK' /\ DfsInv'
<1>1. TypeOK'
  BY DEF TypeOK, DfsTypeOK, IsGraph, Call, Answers
<1>2. DfsInv'
  <2>1. CASE a = b
    BY <2>1 DEF Call, DfsInv
  <2>2. CASE a # b
    BY <2>2 DEF Call, DfsInv, Closed
  <2>. QED  BY <2>1, <2>2
<1>. QED  BY <1>1, <1>2

\* Expanding a node, or finding the work list empty, keeps the invariant.
LEMMA SearchPreserves ==
  ASSUME TypeOK, DfsInv, Search, UNCHANGED succ
  PROVE  TypeOK' /\ DfsInv'
<1>1. CASE Exhausted
  <2>1. TypeOK'
    BY <1>1 DEF TypeOK, DfsTypeOK, IsGraph, Exhausted, Answers
  <2>2. DfsInv'
    BY <1>1 DEF DfsInv, Exhausted, Closed
  <2>. QED  BY <2>1, <2>2
<1>2. CASE Visit
  <2>. PICK node \in stack :
         IF to \in succ[node]
         THEN answer' = "yes" /\ UNCHANGED <<seen, stack>>
         ELSE /\ seen' = seen \cup succ[node]
              /\ stack' = (stack \ {node}) \cup (succ[node] \ seen)
              /\ UNCHANGED answer
    BY <1>2 DEF Visit
  <2>. /\ answer = "busy" /\ UNCHANGED <<from, to, succ>>
       /\ node \in DOMAIN succ /\ succ[node] \subseteq DOMAIN succ
    BY <1>2 DEF Visit, TypeOK, DfsTypeOK, IsGraph
  <2>1. TypeOK'
    <3>1. IsGraph(succ')
      BY DEF TypeOK
    <3>2. DfsTypeOK'
      BY DEF TypeOK, DfsTypeOK, Answers
    <3>. QED  BY <3>1, <3>2 DEF TypeOK
  <2>2. CASE to \in succ[node]
    BY <2>1, <2>2 DEF DfsInv
  <2>3. CASE to \notin succ[node] /\ from # to
    <3>1. seen' = seen \cup succ[node] /\ stack' = (stack \ {node}) \cup (succ[node] \ seen)
          /\ answer' = "busy"
      BY <2>3
    <3>2. ASSUME NEW S \in SUBSET DOMAIN succ, succ[from] \subseteq S, Closed(succ, S)
          PROVE  seen' \subseteq S /\ stack' \subseteq S \cup {from}
      <4>1. seen \subseteq S /\ stack \subseteq S \cup {from}
        BY <2>3, <3>2 DEF DfsInv
      <4>2. succ[node] \subseteq S
        BY <3>2, <4>1 DEF Closed
      <4>. QED  BY <3>1, <4>1, <4>2
    <3>3. \A x \in seen' \cup {from} : x \in stack' \/ succ[x] \subseteq seen'
      BY <3>1, <2>3 DEF DfsInv
    <3>4. to \notin seen'
      BY <3>1, <2>3 DEF DfsInv
    <3>. QED  BY <2>1, <3>1, <3>2, <3>3, <3>4 DEF DfsInv, Closed
  <2>4. CASE from = to
    BY <2>1, <2>4 DEF DfsInv
  <2>. QED  BY <2>1, <2>2, <2>3, <2>4
<1>. QED  BY <1>1, <1>2 DEF Search

\* What the invariant gives at the end of a search with a negative answer:
\* the nodes pushed are a closed set that holds the successors of the start
\* and not the target.
LEMMA NoAnswer == TypeOK /\ DfsInv => NoIsUnordered
<1>. SUFFICES ASSUME TypeOK, DfsInv, answer = "no", from # to
              PROVE  ~Ordered(succ, from, to)
  BY DEF NoIsUnordered
<1>1. /\ stack = {} /\ to \notin seen
      /\ \A x \in seen \cup {from} : x \in stack \/ succ[x] \subseteq seen
  BY DEF DfsInv
<1>2. seen \in SUBSET DOMAIN succ
  BY DEF TypeOK, DfsTypeOK
<1>3. succ[from] \subseteq seen /\ Closed(succ, seen)
  BY <1>1 DEF Closed
<1>. QED  BY <1>1, <1>2, <1>3 DEF Ordered

LEMMA NoAnswerNext == TypeOK' /\ DfsInv' => NoIsUnordered'
BY NoAnswer, PTL

\* The step that answers yes has found an edge out of an expanded node.
LEMMA YesAnswer ==
  ASSUME TypeOK, DfsInv, Search, UNCHANGED succ
  PROVE  YesIsOrdered'
<1>. SUFFICES ASSUME answer' = "yes"  PROVE  Ordered(succ, from, to)
  BY DEF YesIsOrdered, Search, Visit, Exhausted
<1>1. answer = "busy" /\ Visit
  BY DEF Search, Visit, Exhausted
<1>2. PICK node \in stack : to \in succ[node]
  BY <1>1 DEF Visit
<1>3. SUFFICES ASSUME NEW S \in SUBSET DOMAIN succ,
                      succ[from] \subseteq S, Closed(succ, S)
               PROVE  to \in S
  BY DEF Ordered
<1>4. node \in S \/ node = from
  BY <1>1, <1>2, <1>3 DEF DfsInv
<1>. QED  BY <1>2, <1>3, <1>4 DEF Closed

-----------------------------------------------------------------------------
\* The invariant of the search, for every graph and every pair of nodes.
THEOREM SearchInvariant == SearchSpec => [](TypeOK /\ DfsInv /\ YesIsOrdered)
<1>1. SearchInit => TypeOK /\ DfsInv /\ YesIsOrdered
  BY GraphsAreGraphs DEF SearchInit, NoCall, TypeOK, DfsTypeOK, DfsInv, YesIsOrdered, Answers
<1>2. TypeOK /\ DfsInv /\ YesIsOrdered /\ [SearchNext]_<<succ, dfsVars>>
        => (TypeOK /\ DfsInv /\ YesIsOrdered)'
  <2>. SUFFICES ASSUME TypeOK, DfsInv, YesIsOrdered, [SearchNext]_<<succ, dfsVars>>
                PROVE  (TypeOK /\ DfsInv /\ YesIsOrdered)'
    OBVIOUS
  <2>1. ASSUME NEW a \in DOMAIN succ, NEW b \in DOMAIN succ, Call(a, b), UNCHANGED succ
        PROVE  (TypeOK /\ DfsInv /\ YesIsOrdered)'
    <3>1. TypeOK' /\ DfsInv'
      BY <2>1, CallEstablishes
    <3>2. YesIsOrdered'
      BY <2>1 DEF Call, YesIsOrdered
    <3>. QED  BY <3>1, <3>2
  <2>2. ASSUME Search, UNCHANGED succ
        PROVE  (TypeOK /\ DfsInv /\ YesIsOrdered)'
    BY <2>2, SearchPreserves, YesAnswer
  <2>3. CASE UNCHANGED <<succ, dfsVars>>
    BY <2>3 DEF dfsVars, TypeOK, DfsTypeOK, IsGraph, DfsInv, YesIsOrdered, Ordered, Closed
  <2>. QED  BY <2>1, <2>2, <2>3 DEF SearchNext
<1>. QED  BY <1>1, <1>2, PTL DEF SearchSpec

\* `reaches` decides the happens-before order: it answers yes to ordered pairs
\* only and no to unordered pairs only.
THEOREM ReachesIsExact == SearchSpec => []AnswerIsExact
<1>1. TypeOK /\ DfsInv /\ YesIsOrdered => AnswerIsExact
  BY NoAnswer DEF AnswerIsExact
<1>. QED  BY <1>1, SearchInvariant, PTL

-----------------------------------------------------------------------------
\* What the proofs use of Legal: operations are positive numbers.
LEMMA OpsArePositive ==
  ASSUME Legal(p)
  PROVE  /\ Ops(p) \subseteq Nat \ {0}
         /\ Reads(p) \subseteq Ops(p) /\ SyncWrites(p) \subseteq Ops(p)
         /\ 0 \notin Ops(p)
BY DEF Legal, Ops, Reads, SyncWrites

\* Following one more pair carries a residency one step further.
LEMMA CarriesStep ==
  ASSUME NEW A, NEW u, NEW a \in A, Carries(A, u, a[1])
  PROVE  Carries(A, u, a[2])
<1>. SUFFICES ASSUME NEW S \in SUBSET {x[2] : x \in A},
                     \A x \in A : x[1] = u \/ x[1] \in S => x[2] \in S
              PROVE  a[2] \in S
  BY DEF Carries
<1>1. a[1] = u \/ a[1] \in S
  BY DEF Carries
<1>. QED  BY <1>1

LEMMA AliasResidencies ==
  \A a \in Aliases(p) : a[1] \in Residencies(p) /\ a[2] \in Residencies(p)
BY DEF Residencies

\* Candidates are operations; the search is always called on operations.
LEMMA CandidatesAreOps ==
  ASSUME OracleTypeOK, pc # "walk", NEW r \in Reads(p)
  PROVE  Candidates(r) \subseteq Ops(p)
<1>1. p[r].src \in Residencies(p)
  BY OpsArePositive DEF OracleTypeOK, Residencies
<1>2. sync[p[r].src] \subseteq Ops(p)
  BY <1>1, OpsArePositive DEF OracleTypeOK
<1>3. \A i : Consumers(p, i) \subseteq Ops(p)
  BY DEF Consumers
<1>. QED  BY <1>2, <1>3 DEF Candidates

-----------------------------------------------------------------------------
LEMMA OracleInitInv == OracleInit => OracleInv
<1>. SUFFICES ASSUME OracleInit PROVE OracleInv
  OBVIOUS
<1>1. Legal(p)
  BY ProgramsAreLegal DEF OracleInit
<1>2. OracleTypeOK
  <2>1. IsGraph(succ) /\ DOMAIN succ = Ops(p) /\ in \in [Ops(p) -> SUBSET Ops(p)]
    BY DEF OracleInit, IsGraph
  <2>2. DfsTypeOK
    BY DEF OracleInit, NoCall, DfsTypeOK, Answers
  <2>3. pc = "walk" /\ next \in Nat \ {0}
    BY DEF OracleInit
  <2>5. failed \in BOOLEAN
    BY Zenon DEF OracleInit
  <2>4. todo \subseteq Reads(p) /\ cur \in Reads(p) \cup {0} /\ cands \subseteq Ops(p)
        /\ events \subseteq EventWrites(p)
    BY DEF OracleInit
  <2>. QED  BY <1>1, <2>1, <2>2, <2>3, <2>4, <2>5 DEF OracleTypeOK
<1>3. DfsInv /\ YesIsOrdered
  BY DEF OracleInit, NoCall, DfsInv, YesIsOrdered
<1>4. WalkInv
  BY <1>1, OpsArePositive DEF OracleInit, WalkInv
<1>5. AliasInv /\ QueryInv
  BY DEF OracleInit, NoCall, AliasInv, QueryInv, Verdicts
<1>. QED  BY <1>2, <1>3, <1>4, <1>5 DEF OracleInv

-----------------------------------------------------------------------------
(***************************************************************************)
(* The walk.  Only smaller operations matter to Incoming and EdgesInto, so *)
(* the frontiers computed so far are not disturbed by the next one.        *)
(***************************************************************************)
LEMMA Placement ==
  ASSUME NEW q, Legal(q), NEW i \in Ops(q)
  PROVE  /\ Ops(q) = 1..Len(q) /\ Len(q) \in Nat /\ i \in Nat \ {0}
         /\ q[i].parent # 0 => q[i].parent \in Ops(q) /\ q[i].parent < i
         /\ q[i].prev # 0 => /\ q[i].prev \in Ops(q) /\ q[i].prev < i
                             /\ q[q[i].prev].parent = q[i].parent
         /\ Terms(q, i) \subseteq Children(q, i)
         /\ Children(q, i) \subseteq Ops(q)
<1>1. Ops(q) = 1..Len(q) /\ Len(q) \in Nat
  BY DEF Legal
<1>2. PlacedOK(q, i) /\ RegionsOK(q, i)
  BY DEF Legal
<1>3. Terms(q, i) \subseteq Children(q, i)
  BY <1>2 DEF RegionsOK, Terms
<1>. QED  BY <1>1, <1>2, <1>3 DEF PlacedOK, Children

\* Leaves hold nothing.
LEMMA LeavesAreLeaves ==
  ASSUME NEW q, Legal(q), NEW i \in Ops(q)
  PROVE  /\ Kind(q, i) \in RegionKinds \cup LeafKinds
         /\ Kind(q, i) \in LeafKinds => Children(q, i) = {} /\ Kind(q, i) \notin RegionKinds
<1>1. Kind(q, i) \in RegionKinds \cup LeafKinds
  BY DEF Legal
<1>2. Kind(q, i) \in LeafKinds => Kind(q, i) \notin RegionKinds
  BY DEF LeafKinds, RegionKinds, Branches
<1>3. \A j \in Children(q, i) : Kind(q, i) \in RegionKinds
  BY Placement DEF Children, Legal, PlacedOK
<1>. QED  BY <1>1, <1>2, <1>3

\* An operation of a region is its yield or comes before it.
LEMMA YieldIsLast ==
  ASSUME NEW q, Legal(q), NEW i \in Ops(q), NEW c \in Children(q, i)
  PROVE  \E t \in Terms(q, i) :
           /\ t \in Children(q, i) /\ Kind(q, t) = "yield"
           /\ c = t \/ (c < t /\ q[c].region = q[t].region)
<1>1. c \in Ops(q) /\ q[c].parent = i /\ i \in Nat \ {0} /\ c \in Nat
  BY Placement DEF Children
<1>2. q[c].region \in DOMAIN q[i].term
  BY <1>1 DEF Legal, PlacedOK
<1>. DEFINE t == q[i].term[q[c].region]
<1>3. t \in Terms(q, i) /\ t \in Children(q, i) /\ Kind(q, t) = "yield" /\ q[t].region = q[c].region
  BY <1>2 DEF Terms, Legal, RegionsOK
<1>4. t \in Nat
  BY <1>3, Placement DEF Children
<1>5. ~(t < c)
  BY <1>1, <1>3 DEF Legal, PlacedOK, Children
<1>. QED  BY <1>1, <1>3, <1>4, <1>5

LEMMA PipelineTerm ==
  ASSUME NEW q, Legal(q), NEW i \in Ops(q), Kind(q, i) = "pipeline"
  PROVE  /\ q[i].term[1] \in Children(q, i) /\ Terms(q, i) = {q[i].term[1]}
         /\ LastStage(q, i) # 0 => LastStage(q, i) \in Children(q, i)
<1>1. RegionsOK(q, i)
  BY DEF Legal
<1>2. Len(q[i].term) = 1
  BY <1>1 DEF RegionsOK
<1>3. 1 \in DOMAIN q[i].term /\ DOMAIN q[i].term = {1}
  BY <1>1, <1>2 DEF RegionsOK
<1>. QED  BY <1>1, <1>3, Placement DEF Terms, RegionsOK, LastStage, Children

LEMMA FrontierTypes ==
  ASSUME NEW q, Legal(q), NEW f \in [Ops(q) -> SUBSET Ops(q)], NEW i \in Ops(q)
  PROVE  /\ BodyFrontier(q, f, i) \subseteq Ops(q)
         /\ Incoming(q, f, i) \subseteq Ops(q)
<1>1. ASSUME NEW j \in Ops(q)
      PROVE  BodyFrontier(q, f, j) \subseteq Ops(q)
  <2>1. \A k \in Ops(q) : TaskFrontier(q, k) \subseteq Ops(q)
    BY Placement DEF TaskFrontier
  <2>2. CASE Kind(q, j) = "concurrent"
    BY <2>1, <2>2, Placement DEF BodyFrontier
  <2>3. CASE Kind(q, j) = "pipeline"
    BY <2>1, <2>3, PipelineTerm, Placement DEF BodyFrontier
  <2>4. CASE Kind(q, j) \notin {"concurrent", "pipeline"}
    BY <2>4, Placement DEF BodyFrontier
  <2>. QED  BY <2>2, <2>3, <2>4
<1>. QED  BY <1>1, Placement DEF Incoming, Outgoing

LEMMA FrontierLocal ==
  ASSUME NEW q, Legal(q), NEW f, NEW g, NEW i \in Ops(q),
         \A j \in Ops(q) : j < i => f[j] = g[j]
  PROVE  /\ Incoming(q, f, i) = Incoming(q, g, i)
         /\ f[i] = g[i] => BodyFrontier(q, f, i) = BodyFrontier(q, g, i)
<1>1. ASSUME NEW j \in Ops(q), f[j] = g[j]
      PROVE  BodyFrontier(q, f, j) = BodyFrontier(q, g, j)
  BY <1>1 DEF BodyFrontier
<1>. QED  BY <1>1, Placement DEF Incoming, Outgoing

LEMMA EdgeTypes ==
  ASSUME NEW q, Legal(q), NEW f \in [Ops(q) -> SUBSET Ops(q)], NEW i \in Ops(q)
  PROVE  EdgesInto(q, f, i) \subseteq Ops(q)
<1>1. q[i].toks \subseteq Ops(q)
  <2>1. TokensOK(q, i) /\ Ops(q) = 1..Len(q) /\ Len(q) \in Nat
    BY DEF Legal
  <2>. QED  BY <2>1 DEF TokensOK
<1>. QED  BY <1>1, FrontierTypes DEF EdgesInto

LEMMA WalkPreserves == OracleInv /\ WalkOp => OracleInv'
<1>. SUFFICES ASSUME OracleInv, WalkOp PROVE OracleInv'
  OBVIOUS
<1>1. /\ pc = "walk" /\ next \in Ops(p) /\ next' = next + 1
      /\ UNCHANGED <<p, pc, sync, events, todo, cur, cands, failed>>
      /\ UNCHANGED <<from, to, seen, stack, answer>>
  BY DEF WalkOp, dfsVars
<1>2. /\ Legal(p) /\ Ops(p) \subseteq Nat \ {0}
      /\ in \in [Ops(p) -> SUBSET Ops(p)]
      /\ succ \in [Ops(p) -> SUBSET Ops(p)]
      /\ answer = "none" /\ cur = 0
  BY <1>1, OpsArePositive DEF OracleInv, OracleTypeOK, QueryInv, IsGraph
<1>. DEFINE InNext == [in EXCEPT ![next] = Incoming(p, in, next)]
            Added(x) == IF x \in EdgesInto(p, in', next) /\ x # next
                        THEN succ[x] \cup {next} ELSE succ[x]
<1>3. \/ Walked(p, next) /\ in' = InNext /\ succ' = [x \in Ops(p) |-> Added(x)]
      \/ ~Walked(p, next) /\ in' = in /\ succ' = succ
  BY DEF WalkOp
<1>4. in' \in [Ops(p) -> SUBSET Ops(p)]
  BY <1>1, <1>2, <1>3, FrontierTypes
<1>5. succ' \in [Ops(p) -> SUBSET Ops(p)]
  <2>1. \A x \in Ops(p) : Added(x) \in SUBSET Ops(p)
    BY <1>1, <1>2
  <2>. QED  BY <1>2, <1>3, <2>1
<1>6. OracleTypeOK'
  <2>1. IsGraph(succ)' /\ DOMAIN succ' = Ops(p)
    BY <1>5 DEF IsGraph
  <2>2. next' \in Nat \ {0}
    BY <1>1, <1>2
  <2>3. DfsTypeOK'
    BY <1>1, <1>2, <2>1 DEF OracleInv, OracleTypeOK, DfsTypeOK
  <2>. QED  BY <1>1, <1>4, <2>1, <2>2, <2>3 DEF OracleInv, OracleTypeOK
<1>7. WalkInv'
  <2>1. ASSUME NEW i \in Ops(p), i < next + 1, Walked(p, i)
        PROVE  in'[i] = Incoming(p, in', i)
    <3>1. \A j \in Ops(p) : j < next => in'[j] = in[j]
      BY <1>1, <1>2, <1>3
    <3>2. Incoming(p, in', i) = Incoming(p, in, i)
      BY <1>1, <1>2, <2>1, <3>1, FrontierLocal
    <3>3. CASE i < next
      BY <2>1, <3>1, <3>2, <3>3 DEF OracleInv, WalkInv
    <3>4. CASE i = next
      BY <1>1, <1>2, <1>3, <2>1, <3>2, <3>4
    <3>. QED  BY <1>1, <1>2, <2>1, <3>3, <3>4
  <2>2. ASSUME NEW x \in Ops(p), NEW y \in succ'[x]
        PROVE  y < next + 1 /\ Walked(p, y) /\ x \in EdgesInto(p, in', y)
    <3>1. CASE y \in succ[x]
      <4>1. y < next /\ Walked(p, y) /\ x \in EdgesInto(p, in, y) /\ y \in Ops(p)
        BY <1>2, <3>1 DEF OracleInv, WalkInv
      <4>2. \A j \in Ops(p) : j < next => in'[j] = in[j]
        BY <1>1, <1>2, <1>3
      <4>3. EdgesInto(p, in', y) = EdgesInto(p, in, y)
        <5>1. in'[y] = in[y] /\ \A j \in Ops(p) : j < y => in'[j] = in[j]
          BY <1>1, <1>2, <4>1, <4>2
        <5>2. /\ Incoming(p, in', y) = Incoming(p, in, y)
              /\ BodyFrontier(p, in', y) = BodyFrontier(p, in, y)
          BY <1>2, <4>1, <5>1, FrontierLocal
        <5>. QED  BY <5>2 DEF EdgesInto
      <4>. QED  BY <1>1, <1>2, <4>1, <4>3
    <3>2. CASE y \notin succ[x]
      <4>1. Walked(p, next) /\ succ' = [z \in Ops(p) |-> Added(z)]
        BY <1>3, <2>2, <3>2
      <4>2. y = next /\ x \in EdgesInto(p, in', next)
        BY <2>2, <3>2, <4>1
      <4>. QED  BY <1>1, <1>2, <4>1, <4>2
    <3>. QED  BY <3>1, <3>2
  <2>3. ASSUME NEW y \in Ops(p), y < next + 1, Walked(p, y),
               NEW x \in EdgesInto(p, in', y) \ {y}
        PROVE  y \in succ'[x]
    <3>1. EdgesInto(p, in', y) \subseteq Ops(p)
      BY <1>2, <1>4, FrontierTypes, EdgeTypes
    <3>2. CASE y = next
      BY <1>2, <1>3, <2>3, <3>1, <3>2
    <3>3. CASE y < next
      <4>1. \A j \in Ops(p) : j < y => in'[j] = in[j]
        BY <1>1, <1>2, <1>3, <3>3
      <4>2. in'[y] = in[y]
        BY <1>1, <1>2, <1>3, <3>3
      <4>3. EdgesInto(p, in', y) = EdgesInto(p, in, y)
        BY <1>2, <4>1, <4>2, FrontierLocal DEF EdgesInto
      <4>4. y \in succ[x]
        BY <2>3, <3>3, <4>3 DEF OracleInv, WalkInv
      <4>. QED  BY <1>2, <1>3, <3>1, <4>4
    <3>. QED  BY <1>1, <1>2, <2>3, <3>2, <3>3
  <2>. QED  BY <1>1, <2>1, <2>2, <2>3 DEF WalkInv
<1>8. DfsInv' /\ YesIsOrdered'
  BY <1>1, <1>2 DEF DfsInv, YesIsOrdered
<1>9. AliasInv' /\ QueryInv'
  BY <1>1, <1>2 DEF OracleInv, AliasInv, QueryInv, Verdicts
<1>. QED  BY <1>6, <1>7, <1>8, <1>9 DEF OracleInv

-----------------------------------------------------------------------------
(***************************************************************************)
(* Collecting the writes and carrying them along the yields.               *)
(***************************************************************************)
LEMMA CollectPreserves == OracleInv /\ Collect => OracleInv'
<1>. SUFFICES ASSUME OracleInv, Collect PROVE OracleInv'
  OBVIOUS
<1>1. /\ pc = "walk" /\ pc' = "alias" /\ next \notin Ops(p)
      /\ UNCHANGED <<p, next, in, cur, cands, failed, succ>>
      /\ UNCHANGED <<from, to, seen, stack, answer>>
      /\ sync' = [v \in Residencies(p) |-> {w \in SyncWrites(p) : p[w].dst = v}]
      /\ events' = EventWrites(p) /\ todo' = Reads(p)
  BY DEF Collect, dfsVars
<1>2. sync' \in [Residencies(p) -> SUBSET SyncWrites(p)]
  BY <1>1
<1>3. DfsTypeOK' /\ IsGraph(succ)'
  BY <1>1 DEF OracleInv, OracleTypeOK, DfsTypeOK, IsGraph
<1>4. OracleTypeOK'
  BY <1>1, <1>2, <1>3 DEF OracleInv, OracleTypeOK
<1>5. DfsInv' /\ YesIsOrdered'
  BY <1>1 DEF OracleInv, QueryInv, DfsInv, YesIsOrdered
<1>6. WalkInv'
  <2>1. \A i \in Ops(p) : i < next
    BY <1>1, OpsArePositive DEF OracleInv, OracleTypeOK, Legal, WalkInv
  <2>. QED  BY <1>1, <2>1 DEF OracleInv, WalkInv
<1>7. AliasInv'
  BY <1>1 DEF AliasInv, Carries
<1>8. QueryInv'
  BY <1>1 DEF OracleInv, QueryInv, Verdicts
<1>. QED  BY <1>4, <1>5, <1>6, <1>7, <1>8 DEF OracleInv

LEMMA CopyWritesPreserves == OracleInv /\ CopyWrites => OracleInv'
<1>. SUFFICES ASSUME OracleInv, CopyWrites PROVE OracleInv'
  OBVIOUS
<1>1. /\ pc = "alias"
      /\ UNCHANGED <<p, pc, next, in, events, todo, cur, cands, failed, succ>>
      /\ UNCHANGED <<from, to, seen, stack, answer>>
  BY DEF CopyWrites, dfsVars
<1>2. PICK a \in Aliases(p) : sync' = [sync EXCEPT ![a[2]] = @ \cup sync[a[1]]]
  BY DEF CopyWrites
<1>3. a[1] \in Residencies(p) /\ a[2] \in Residencies(p)
  BY AliasResidencies
<1>4. sync \in [Residencies(p) -> SUBSET SyncWrites(p)]
  BY <1>1 DEF OracleInv, OracleTypeOK
<1>5. sync' \in [Residencies(p) -> SUBSET SyncWrites(p)]
  BY <1>2, <1>3, <1>4
<1>6. DfsTypeOK' /\ IsGraph(succ)'
  BY <1>1 DEF OracleInv, OracleTypeOK, DfsTypeOK, IsGraph
<1>7. OracleTypeOK'
  BY <1>1, <1>5, <1>6 DEF OracleInv, OracleTypeOK
<1>8. DfsInv' /\ YesIsOrdered' /\ WalkInv'
  BY <1>1 DEF OracleInv, QueryInv, DfsInv, YesIsOrdered, WalkInv
<1>9. AliasInv'
  <2>. SUFFICES ASSUME NEW v \in Residencies(p), NEW w \in sync'[v]
                PROVE  Carries(Aliases(p), p[w].dst, v)
    BY <1>1 DEF AliasInv
  <2>1. CASE w \in sync[v]
    BY <1>1, <2>1 DEF OracleInv, AliasInv
  <2>2. CASE w \notin sync[v]
    <3>1. v = a[2] /\ w \in sync[a[1]]
      BY <1>2, <1>3, <1>4, <2>2
    <3>2. Carries(Aliases(p), p[w].dst, a[1])
      BY <1>1, <1>3, <3>1 DEF OracleInv, AliasInv
    <3>. QED  BY <3>1, <3>2, CarriesStep
  <2>. QED  BY <2>1, <2>2
<1>10. QueryInv'
  BY <1>1 DEF OracleInv, QueryInv, Verdicts
<1>. QED  BY <1>7, <1>8, <1>9, <1>10 DEF OracleInv

LEMMA FixpointPreserves == OracleInv /\ Fixpoint => OracleInv'
<1>. SUFFICES ASSUME OracleInv, Fixpoint PROVE OracleInv'
  OBVIOUS
<1>1. /\ pc = "alias" /\ pc' = "query"
      /\ UNCHANGED <<p, next, in, sync, events, todo, cur, cands, failed, succ>>
      /\ UNCHANGED <<from, to, seen, stack, answer>>
  BY DEF Fixpoint, dfsVars
<1>2. OracleTypeOK'
  BY <1>1 DEF OracleInv, OracleTypeOK, DfsTypeOK, IsGraph
<1>3. DfsInv' /\ YesIsOrdered' /\ WalkInv' /\ AliasInv'
  BY <1>1 DEF OracleInv, QueryInv, DfsInv, YesIsOrdered, WalkInv, AliasInv
<1>4. QueryInv'
  BY <1>1 DEF OracleInv, QueryInv, Verdicts, Unproved
<1>. QED  BY <1>2, <1>3, <1>4 DEF OracleInv

-----------------------------------------------------------------------------
(***************************************************************************)
(* The query.  None of its steps changes the graph or the writes.          *)
(***************************************************************************)
QueryFrame ==
  /\ pc = "query"
  /\ UNCHANGED <<p, next, in, sync, events, succ>>

LEMMA FrameKeeps ==
  ASSUME OracleInv, QueryFrame, pc' # "walk"
  PROVE  /\ WalkInv' /\ AliasInv' /\ IsGraph(succ)'
         /\ Unproved' = Unproved
         /\ \A r : Candidates(r)' = Candidates(r)
         /\ \A a, b : Ordered(succ, a, b)' <=> Ordered(succ, a, b)
<1>1. UNCHANGED <<p, next, in, sync, events, succ>> /\ pc = "query"
  BY DEF QueryFrame
<1>2. IsGraph(succ)' /\ WalkInv' /\ AliasInv'
  BY <1>1 DEF OracleInv, OracleTypeOK, IsGraph, WalkInv, AliasInv
<1>. QED  BY <1>1, <1>2 DEF Unproved, Candidates, Ordered, Closed

LEMMA FrameTypes ==
  ASSUME OracleInv, QueryFrame, pc' \in {"query"} \cup Verdicts,
         todo' \subseteq Reads(p), cur' \in Reads(p) \cup {0},
         cands' \subseteq Ops(p), failed' \in BOOLEAN, DfsTypeOK'
  PROVE  OracleTypeOK'
<1>1. UNCHANGED <<p, next, in, sync, events, succ>> /\ pc = "query"
  BY DEF QueryFrame
<1>2. IsGraph(succ)' /\ DOMAIN succ' = Ops(p)
  BY <1>1 DEF OracleInv, OracleTypeOK, IsGraph
<1>3. sync' \in [Residencies(p) -> SUBSET SyncWrites(p)]
  BY <1>1 DEF OracleInv, OracleTypeOK
<1>. QED  BY <1>1, <1>2, <1>3 DEF OracleInv, OracleTypeOK

LEMMA NextReadPreserves == OracleInv /\ NextRead => OracleInv'
<1>. SUFFICES ASSUME OracleInv, NextRead PROVE OracleInv'
  OBVIOUS
<1>1. /\ QueryFrame /\ pc' = pc /\ pc = "query" /\ cur = 0 /\ failed' = failed
      /\ UNCHANGED <<p, sync, events>>
      /\ seen' = {} /\ stack' = {} /\ answer' = "none"
  BY DEF NextRead, QueryFrame
<1>2. PICK r \in todo : cur' = r /\ todo' = todo \ {r} /\ cands' = Candidates(r)
  BY DEF NextRead
<1>3. r \in Reads(p) /\ r # 0 /\ 0 \notin Ops(p) /\ Reads(p) \subseteq Ops(p)
  BY OpsArePositive DEF OracleInv, OracleTypeOK
<1>4. DfsTypeOK' /\ DfsInv' /\ YesIsOrdered'
  BY <1>1 DEF DfsTypeOK, DfsInv, YesIsOrdered, Answers
<1>5. OracleTypeOK'
  <2>1. cands' \subseteq Ops(p)
    BY <1>1, <1>2, <1>3, CandidatesAreOps DEF OracleInv
  <2>2. todo' \subseteq Reads(p) /\ cur' \in Reads(p) \cup {0} /\ pc' \in {"query"} \cup Verdicts
    BY <1>1, <1>2, <1>3 DEF OracleInv, OracleTypeOK
  <2>3. failed' \in BOOLEAN
    BY <1>1, Zenon DEF OracleInv, OracleTypeOK
  <2>. QED  BY <1>1, <1>4, <2>1, <2>2, <2>3, FrameTypes
<1>6. WalkInv' /\ AliasInv' /\ Unproved' = Unproved /\ Candidates(r)' = Candidates(r)
  BY <1>1, FrameKeeps
<1>7. QueryInv'
  <2>1. Unproved \subseteq Reads(p) /\ \A q \in Unproved : q \in todo \/ failed
    BY <1>1, <1>3 DEF OracleInv, QueryInv, Unproved
  <2>2. failed => Unproved # {}
    BY <1>1 DEF OracleInv, QueryInv
  <2>3. Candidates(r)' = cands'
    BY <1>2, <1>6
  <2>. QED  BY <1>1, <1>2, <1>3, <1>6, <2>1, <2>2, <2>3 DEF QueryInv, Verdicts
<1>. QED  BY <1>4, <1>5, <1>6, <1>7 DEF OracleInv

LEMMA TryCandidatePreserves == OracleInv /\ TryCandidate => OracleInv'
<1>. SUFFICES ASSUME OracleInv, TryCandidate PROVE OracleInv'
  OBVIOUS
<1>1. /\ QueryFrame /\ pc' = pc /\ pc = "query" /\ cur # 0 /\ answer # "yes"
      /\ UNCHANGED <<p, succ, todo, cur, failed>>
  BY DEF TryCandidate, QueryFrame
<1>2. PICK c \in cands : Call(c, cur) /\ cands' = cands \ {c}
  BY DEF TryCandidate
<1>3. cur \in Reads(p) /\ c \in Ops(p) /\ cur \in Ops(p) /\ c \in Candidates(cur)
      /\ DOMAIN succ = Ops(p)
  BY <1>1, OpsArePositive DEF OracleInv, OracleTypeOK, QueryInv
<1>4. TypeOK' /\ DfsInv'
  BY <1>1, <1>2, <1>3, CallEstablishes DEF OracleInv, OracleTypeOK, TypeOK
<1>5. YesIsOrdered' /\ answer # "busy" /\ from' = c /\ to' = cur
      /\ (answer' = "busy" \/ (answer' = "no" /\ c = cur))
  BY <1>2 DEF Call, YesIsOrdered
<1>6. OracleTypeOK'
  <2>1. cands' \subseteq Ops(p) /\ todo' \subseteq Reads(p) /\ cur' \in Reads(p) \cup {0}
        /\ pc' \in {"query"} \cup Verdicts
    BY <1>1, <1>2 DEF OracleInv, OracleTypeOK
  <2>2. failed' \in BOOLEAN
    BY <1>1, Zenon DEF OracleInv, OracleTypeOK
  <2>. QED  BY <1>1, <1>4, <2>1, <2>2, FrameTypes DEF TypeOK
<1>7. WalkInv' /\ AliasInv' /\ Unproved' = Unproved /\ Candidates(cur)' = Candidates(cur)
      /\ \A a, b : Ordered(succ, a, b)' <=> Ordered(succ, a, b)
  BY <1>1, FrameKeeps
<1>8. QueryInv'
  <2>1. ASSUME NEW d \in Candidates(cur), d \notin cands'
        PROVE  (answer' = "busy" /\ d = from') \/ d = cur \/ ~Ordered(succ, d, cur)
    BY <1>1, <1>2, <1>5, <2>1 DEF OracleInv, QueryInv
  <2>2. cur' \notin todo' /\ cands' \subseteq Candidates(cur)
    BY <1>1, <1>2 DEF OracleInv, QueryInv
  <2>3. \A q \in Unproved : q \in todo' \cup {cur'} \/ failed'
    BY <1>1 DEF OracleInv, QueryInv
  <2>4. failed' => Unproved # {}
    BY <1>1 DEF OracleInv, QueryInv
  <2>5. Candidates(cur)' = Candidates(cur) /\ cur' = cur
    BY <1>1, <1>7
  <2>. QED
    BY <1>1, <1>3, <1>5, <1>7, <2>1, <2>2, <2>3, <2>4, <2>5 DEF QueryInv, Verdicts
<1>. QED  BY <1>4, <1>5, <1>6, <1>7, <1>8 DEF OracleInv

LEMMA SearchOnPreserves == OracleInv /\ SearchOn => OracleInv'
<1>. SUFFICES ASSUME OracleInv, SearchOn PROVE OracleInv'
  OBVIOUS
<1>1. /\ QueryFrame /\ pc' = pc /\ pc = "query" /\ cur # 0 /\ answer = "busy"
      /\ Search
      /\ UNCHANGED <<p, succ, todo, cur, cands, failed, from, to>>
  BY DEF SearchOn, QueryFrame, Search, Visit, Exhausted
<1>2. to = cur /\ from \in Candidates(cur)
  BY <1>1 DEF OracleInv, QueryInv
<1>3. TypeOK' /\ DfsInv' /\ YesIsOrdered'
  BY <1>1, SearchPreserves, YesAnswer DEF OracleInv, OracleTypeOK, TypeOK
<1>4. NoIsUnordered'
  BY <1>3, NoAnswerNext
<1>5. answer' \in {"busy", "yes", "no"} /\ from # to
  BY <1>1 DEF Search, Visit, Exhausted, OracleInv, DfsInv
<1>6. OracleTypeOK'
  <2>1. cands' \subseteq Ops(p) /\ todo' \subseteq Reads(p) /\ cur' \in Reads(p) \cup {0}
        /\ pc' \in {"query"} \cup Verdicts
    BY <1>1 DEF OracleInv, OracleTypeOK
  <2>2. failed' \in BOOLEAN
    BY <1>1, Zenon DEF OracleInv, OracleTypeOK
  <2>. QED  BY <1>1, <1>3, <2>1, <2>2, FrameTypes DEF TypeOK
<1>7. WalkInv' /\ AliasInv' /\ Unproved' = Unproved /\ Candidates(cur)' = Candidates(cur)
      /\ \A a, b : Ordered(succ, a, b)' <=> Ordered(succ, a, b)
  BY <1>1, FrameKeeps
<1>8. QueryInv'
  <2>1. ASSUME NEW d \in Candidates(cur), d \notin cands'
        PROVE  \/ answer' = "yes"
               \/ answer' = "busy" /\ d = from'
               \/ d = cur
               \/ ~Ordered(succ, d, cur)
    <3>1. d = from \/ d = cur \/ ~Ordered(succ, d, cur)
      BY <1>1, <2>1 DEF OracleInv, QueryInv
    <3>2. answer' = "no" => ~Ordered(succ, from, cur)
      BY <1>1, <1>2, <1>4, <1>5 DEF NoIsUnordered, Ordered, Closed
    <3>. QED  BY <1>1, <1>5, <3>1, <3>2
  <2>2. cur' \notin todo' /\ cands' \subseteq Candidates(cur)
        /\ (\A q \in Unproved : q \in todo' \cup {cur'} \/ failed')
        /\ (failed' => Unproved # {})
    BY <1>1 DEF OracleInv, QueryInv
  <2>. QED
    BY <1>1, <1>2, <1>5, <1>7, <2>1, <2>2 DEF QueryInv, Verdicts
<1>. QED  BY <1>3, <1>6, <1>7, <1>8 DEF OracleInv

LEMMA ReadDefinedPreserves == OracleInv /\ ReadDefined => OracleInv'
<1>. SUFFICES ASSUME OracleInv, ReadDefined PROVE OracleInv'
  OBVIOUS
<1>1. /\ QueryFrame /\ pc' = pc /\ pc = "query" /\ cur # 0 /\ answer = "yes"
      /\ cur' = 0 /\ cands' = {}
      /\ UNCHANGED <<p, succ, todo, failed>>
      /\ UNCHANGED <<from, to, seen, stack, answer>>
  BY DEF ReadDefined, QueryFrame, dfsVars
<1>2. DfsTypeOK' /\ DfsInv' /\ YesIsOrdered'
  BY <1>1 DEF OracleInv, OracleTypeOK, DfsTypeOK, DfsInv, YesIsOrdered, Ordered, Closed
<1>3. OracleTypeOK'
  <2>1. cands' \subseteq Ops(p) /\ todo' \subseteq Reads(p) /\ cur' \in Reads(p) \cup {0}
        /\ pc' \in {"query"} \cup Verdicts
    BY <1>1 DEF OracleInv, OracleTypeOK
  <2>2. failed' \in BOOLEAN
    BY <1>1, Zenon DEF OracleInv, OracleTypeOK
  <2>. QED  BY <1>1, <1>2, <2>1, <2>2, FrameTypes
<1>4. WalkInv' /\ AliasInv' /\ Unproved' = Unproved
  BY <1>1, FrameKeeps
<1>5. cur \notin Unproved
  <2>1. from \in Candidates(cur) /\ to = cur /\ from # cur
    BY <1>1 DEF OracleInv, QueryInv, DfsInv
  <2>2. Ordered(succ, from, cur)
    BY <1>1, <2>1 DEF OracleInv, YesIsOrdered
  <2>. QED  BY <2>1, <2>2 DEF Unproved
<1>6. QueryInv'
  <2>1. \A q \in Unproved : q \in todo' \cup {cur'} \/ failed'
    BY <1>1, <1>5 DEF OracleInv, QueryInv
  <2>2. failed' => Unproved # {}
    BY <1>1 DEF OracleInv, QueryInv
  <2>. QED  BY <1>1, <1>4, <2>1, <2>2 DEF QueryInv, Verdicts
<1>. QED  BY <1>2, <1>3, <1>4, <1>6 DEF OracleInv

LEMMA ReadUndefinedPreserves == OracleInv /\ ReadUndefined => OracleInv'
<1>. SUFFICES ASSUME OracleInv, ReadUndefined PROVE OracleInv'
  OBVIOUS
<1>1. /\ QueryFrame /\ pc' = pc /\ pc = "query" /\ cur # 0 /\ answer \in {"none", "no"}
      /\ cur' = 0 /\ cands = {} /\ failed' = TRUE
      /\ UNCHANGED <<p, succ, todo, cands>>
      /\ UNCHANGED <<from, to, seen, stack, answer>>
  BY DEF ReadUndefined, QueryFrame, dfsVars
<1>2. DfsTypeOK' /\ DfsInv' /\ YesIsOrdered'
  BY <1>1 DEF OracleInv, OracleTypeOK, DfsTypeOK, DfsInv, YesIsOrdered, Ordered, Closed
<1>3. OracleTypeOK'
  <2>1. cands' \subseteq Ops(p) /\ todo' \subseteq Reads(p) /\ cur' \in Reads(p) \cup {0}
        /\ pc' \in {"query"} \cup Verdicts
    BY <1>1 DEF OracleInv, OracleTypeOK
  <2>2. failed' \in BOOLEAN
    BY <1>1, Zenon
  <2>. QED  BY <1>1, <1>2, <2>1, <2>2, FrameTypes
<1>4. WalkInv' /\ AliasInv' /\ Unproved' = Unproved
  BY <1>1, FrameKeeps
<1>5. cur \in Unproved
  BY <1>1 DEF OracleInv, OracleTypeOK, QueryInv, Unproved
<1>6. QueryInv'
  BY <1>1, <1>4, <1>5 DEF QueryInv, Verdicts
<1>. QED  BY <1>2, <1>3, <1>4, <1>6 DEF OracleInv

LEMMA VerdictPreserves == OracleInv /\ Verdict => OracleInv'
<1>. SUFFICES ASSUME OracleInv, Verdict PROVE OracleInv'
  OBVIOUS
<1>1. /\ QueryFrame /\ pc = "query" /\ cur = 0 /\ todo = {}
      /\ pc' = (IF failed THEN "rejected" ELSE "accepted")
      /\ UNCHANGED <<p, succ, todo, cur, cands, failed>>
      /\ UNCHANGED <<from, to, seen, stack, answer>>
  BY DEF Verdict, QueryFrame, dfsVars
<1>2. DfsTypeOK' /\ DfsInv' /\ YesIsOrdered'
  BY <1>1 DEF OracleInv, OracleTypeOK, DfsTypeOK, DfsInv, YesIsOrdered, Ordered, Closed
<1>3. pc' \in Verdicts /\ (pc' = "rejected" <=> failed) /\ pc' # "walk" /\ pc' # "alias"
  BY <1>1 DEF Verdicts
<1>4. OracleTypeOK'
  <2>1. cands' \subseteq Ops(p) /\ todo' \subseteq Reads(p) /\ cur' \in Reads(p) \cup {0}
    BY <1>1 DEF OracleInv, OracleTypeOK
  <2>2. failed' \in BOOLEAN
    BY <1>1, Zenon DEF OracleInv, OracleTypeOK
  <2>. QED  BY <1>1, <1>2, <1>3, <2>1, <2>2, FrameTypes
<1>5. WalkInv' /\ AliasInv' /\ Unproved' = Unproved
  BY <1>1, <1>3, FrameKeeps
<1>6. QueryInv'
  BY <1>1, <1>3, <1>5 DEF OracleInv, QueryInv, Verdicts
<1>. QED  BY <1>2, <1>4, <1>5, <1>6 DEF OracleInv

-----------------------------------------------------------------------------
LEMMA OracleStep == OracleInv /\ [OracleNext]_oracleVars => OracleInv'
<1>1. CASE UNCHANGED oracleVars
  <2>1. UNCHANGED <<p, pc, next, in, sync, events, todo, cur, cands, failed, succ>>
        /\ UNCHANGED <<from, to, seen, stack, answer>>
    BY <1>1 DEF oracleVars, dfsVars
  <2>2. OracleTypeOK => OracleTypeOK'
    BY <2>1 DEF OracleTypeOK, DfsTypeOK, IsGraph, Legal
  <2>3. DfsInv /\ YesIsOrdered => DfsInv' /\ YesIsOrdered'
    BY <2>1 DEF DfsInv, YesIsOrdered, Ordered, Closed
  <2>4. WalkInv /\ AliasInv => WalkInv' /\ AliasInv'
    BY <2>1 DEF WalkInv, AliasInv
  <2>5. QueryInv => QueryInv'
    BY <2>1 DEF QueryInv, Unproved, Candidates, Ordered, Closed
  <2>. QED  BY <2>2, <2>3, <2>4, <2>5 DEF OracleInv
<1>2. CASE OracleNext
  BY <1>2, WalkPreserves, CollectPreserves, CopyWritesPreserves, FixpointPreserves,
     NextReadPreserves, TryCandidatePreserves, SearchOnPreserves,
     ReadDefinedPreserves, ReadUndefinedPreserves, VerdictPreserves DEF OracleNext
<1>. QED  BY <1>1, <1>2

\* The invariant of the whole pass, for every set of legal programs.
THEOREM OracleInvariant == OracleSpec => []OracleInv
  BY OracleInitInv, OracleStep, PTL DEF OracleSpec

\* The verdict is exactly what the graph says of the reads: no early exit of
\* the loops loses a read, and none accepts one that has no ordered write.
LEMMA InvGivesVerdict == OracleInv => VerdictIsExact
<1>. SUFFICES ASSUME OracleInv, pc \in Verdicts PROVE pc = "accepted" <=> Unproved = {}
  BY DEF VerdictIsExact
<1>1. todo = {} /\ (pc = "rejected" <=> failed) /\ cur = 0 /\ (failed => Unproved # {})
      /\ \A r \in Unproved : r \in todo \cup {cur} \/ failed
  BY DEF OracleInv, QueryInv, Verdicts
<1>2. Unproved \subseteq Reads(p) /\ 0 \notin Reads(p)
  BY OpsArePositive DEF OracleInv, OracleTypeOK, Unproved
<1>. QED  BY <1>1, <1>2 DEF Verdicts

THEOREM OracleVerdict == OracleSpec => []VerdictIsExact
  BY InvGivesVerdict, OracleInvariant, PTL

-----------------------------------------------------------------------------
(***************************************************************************)
(* The fixpoint.  AliasInv bounds the listed writes from above; from below *)
(* they hold what was collected, and once nothing more is copied they are  *)
(* closed under the yields.                                                *)
(***************************************************************************)
Collected == \A w \in SyncWrites(p) : w \in sync[p[w].dst]
YieldsFollowed == \A a \in Aliases(p) : sync[a[1]] \subseteq sync[a[2]]
CarriedInv ==
  /\ pc \in {"alias", "query"} => Collected
  /\ pc = "query" => YieldsFollowed

LEMMA WrittenResidencies ==
  ASSUME Legal(p), NEW w \in SyncWrites(p)
  PROVE  p[w].dst \in Residencies(p)
BY DEF SyncWrites, Residencies

LEMMA CarriedStep == OracleInv /\ CarriedInv /\ [OracleNext]_oracleVars => CarriedInv'
<1>. SUFFICES ASSUME OracleInv, CarriedInv, [OracleNext]_oracleVars PROVE CarriedInv'
  OBVIOUS
<1>1. ASSUME UNCHANGED <<p, pc, sync>> PROVE CarriedInv'
  BY <1>1 DEF CarriedInv, Collected, YieldsFollowed
<1>2. CASE WalkOp
  BY <1>1, <1>2 DEF WalkOp
<1>3. CASE Collect
  <2>1. /\ pc' = "alias" /\ p' = p
        /\ sync' = [v \in Residencies(p) |-> {w \in SyncWrites(p) : p[w].dst = v}]
    BY <1>3 DEF Collect
  <2>2. \A w \in SyncWrites(p) : p[w].dst \in Residencies(p)
    BY WrittenResidencies DEF OracleInv, OracleTypeOK
  <2>. QED  BY <2>1, <2>2 DEF CarriedInv, Collected
<1>4. CASE CopyWrites
  <2>1. /\ pc = "alias" /\ p' = p /\ pc' = pc
        /\ \E a \in Aliases(p) : sync' = [sync EXCEPT ![a[2]] = @ \cup sync[a[1]]]
    BY <1>4 DEF CopyWrites
  <2>2. sync \in [Residencies(p) -> SUBSET SyncWrites(p)]
    BY <2>1 DEF OracleInv, OracleTypeOK
  <2>3. \A v \in Residencies(p) : sync[v] \subseteq sync'[v]
    BY <2>1, <2>2
  <2>4. \A w \in SyncWrites(p) : p[w].dst \in Residencies(p)
    BY WrittenResidencies DEF OracleInv, OracleTypeOK
  <2>. QED  BY <2>1, <2>3, <2>4 DEF CarriedInv, Collected
<1>5. CASE Fixpoint
  <2>1. pc = "alias" /\ pc' = "query" /\ YieldsFollowed /\ UNCHANGED <<p, sync>>
    BY <1>5 DEF Fixpoint, YieldsFollowed
  <2>. QED  BY <2>1 DEF CarriedInv, Collected, YieldsFollowed
<1>6. CASE NextRead
  BY <1>1, <1>6 DEF NextRead
<1>7. CASE TryCandidate
  BY <1>1, <1>7 DEF TryCandidate
<1>8. CASE SearchOn
  BY <1>1, <1>8 DEF SearchOn
<1>9. CASE ReadDefined
  BY <1>1, <1>9 DEF ReadDefined
<1>10. CASE ReadUndefined
  BY <1>1, <1>10 DEF ReadUndefined
<1>11. CASE Verdict
  <2>1. pc' \in Verdicts
    BY <1>11 DEF Verdict, Verdicts
  <2>. QED  BY <2>1 DEF CarriedInv, Verdicts
<1>12. CASE UNCHANGED oracleVars
  BY <1>1, <1>12 DEF oracleVars
<1>. QED  BY <1>2, <1>3, <1>4, <1>5, <1>6, <1>7, <1>8, <1>9, <1>10, <1>11, <1>12 DEF OracleNext

\* The residencies that list a write hold its own and are closed under the
\* yields, so every residency that the yields carry it to lists it.
LEMMA CarriedIsListed ==
  ASSUME Collected, YieldsFollowed, NEW w \in SyncWrites(p), NEW v,
         Carries(Aliases(p), p[w].dst, v)
  PROVE  w \in sync[v]
<1>. DEFINE u == p[w].dst
            A == Aliases(p)
            S == {y \in {a[2] : a \in A} : w \in sync[y]}
<1>1. w \in sync[u]
  BY DEF Collected
<1>2. CASE u = v
  BY <1>1, <1>2
<1>3. CASE u # v
  <2>1. S \in SUBSET {a[2] : a \in A}
    OBVIOUS
  <2>2. ASSUME NEW a \in A, a[1] = u \/ a[1] \in S PROVE a[2] \in S
    BY <1>1, <2>2 DEF YieldsFollowed
  <2>3. v \in S
    <3>1. \A T \in SUBSET {a[2] : a \in A} :
            (\A a \in A : a[1] = u \/ a[1] \in T => a[2] \in T) => v \in T
      BY <1>3 DEF Carries
    <3>. HIDE DEF S, A
    <3>. QED  BY <2>1, <2>2, <3>1
  <2>. QED  BY <2>3
<1>. QED  BY <1>2, <1>3

\* "Validity follows SSA through task / concurrent yields": a residency has
\* every write that the yields of any program carry to it, and no other, when
\* the queries begin; no order of the copies ends the fixpoint too early.
THEOREM OracleWrites == OracleSpec => []WritesAreCarried
<1>1. OracleInit => CarriedInv
  BY DEF OracleInit, CarriedInv
<1>2. OracleInv /\ CarriedInv /\ [OracleNext]_oracleVars => CarriedInv'
  BY CarriedStep
<1>3. OracleInv /\ CarriedInv => WritesAreCarried
  <2>. SUFFICES ASSUME OracleInv, CarriedInv, pc = "query", NEW v \in Residencies(p)
                PROVE  sync[v] = {w \in SyncWrites(p) : Carries(Aliases(p), p[w].dst, v)}
    BY DEF WritesAreCarried
  <2>1. sync[v] \subseteq SyncWrites(p)
    BY DEF OracleInv, OracleTypeOK
  <2>2. \A w \in sync[v] : Carries(Aliases(p), p[w].dst, v)
    BY DEF OracleInv, AliasInv
  <2>3. \A w \in SyncWrites(p) : Carries(Aliases(p), p[w].dst, v) => w \in sync[v]
    BY CarriedIsListed DEF CarriedInv
  <2>. QED  BY <2>1, <2>2, <2>3
<1>. QED  BY <1>1, <1>2, <1>3, OracleInvariant, PTL DEF OracleSpec

-----------------------------------------------------------------------------
(***************************************************************************)
(* The order of the program is in the graph.  What an operation was walked *)
(* with comes before it (by least counterexample), and everything it was   *)
(* walked with is ordered before it: directly for a leaf, through the      *)
(* block it holds otherwise (by greatest counterexample, the operations of *)
(* its regions being later in the walk).                                   *)
(***************************************************************************)
LEMMA OrderedEdge ==
  ASSUME NEW g, NEW a, NEW b \in g[a]
  PROVE  Ordered(g, a, b)
BY DEF Ordered

LEMMA OrderedTrans ==
  ASSUME NEW g, NEW a, NEW b, NEW c, Ordered(g, a, b), Ordered(g, b, c)
  PROVE  Ordered(g, a, c)
<1>. SUFFICES ASSUME NEW S \in SUBSET DOMAIN g, g[a] \subseteq S, Closed(g, S)
              PROVE  c \in S
  BY DEF Ordered
<1>1. b \in S
  BY DEF Ordered
<1>2. g[b] \subseteq S
  BY <1>1 DEF Closed
<1>. QED  BY <1>2 DEF Ordered

\* What is inside the operation before i in its block comes before i.
LEMMA InsideIsBefore ==
  ASSUME NEW q, Legal(q), NEW i \in Ops(q), NEW a \in Ops(q), a < i, q[i].parent < a,
         NEW t \in Children(q, a)
  PROVE  t \in Ops(q) /\ t > a /\ t < i
<1>1. t \in Ops(q) /\ q[t].parent = a
  BY DEF Children
<1>2. Encloses(q, a, t) /\ Ops(q) = 1..Len(q) /\ Len(q) \in Nat
  BY <1>1 DEF Legal, PlacedOK
<1>3. i \in Nat /\ a \in Nat /\ t \in Nat /\ q[i].parent \in Nat
  BY <1>1, <1>2 DEF Legal, PlacedOK
<1>4. i \notin (a + 1)..t
  BY <1>2, <1>3 DEF Encloses
<1>. QED  BY <1>1, <1>2, <1>3, <1>4 DEF Encloses

LEMMA IncomingIsBefore ==
  ASSUME NEW q, Legal(q), NEW f \in [Ops(q) -> SUBSET Ops(q)],
         \A i \in Ops(q) : Walked(q, i) => f[i] = Incoming(q, f, i)
  PROVE  \A i \in Ops(q) : Walked(q, i) => \A x \in f[i] : x < i
<1>. DEFINE Bad == {i \in Ops(q) : Walked(q, i) /\ \E x \in f[i] : ~(x < i)}
<1>0. Ops(q) = 1..Len(q) /\ Len(q) \in Nat
  BY DEF Legal
<1>. SUFFICES ASSUME Bad # {} PROVE FALSE
  OBVIOUS
<1>1. PICK i \in Bad : \A j \in Bad : i <= j
  <2>1. Bad \in SUBSET Nat
    BY <1>0
  <2>. HIDE DEF Bad
  <2>. QED  BY <2>1, LeastNat
<1>2. i \in Ops(q) /\ f[i] = Incoming(q, f, i)
  OBVIOUS
<1>3. \A j \in Ops(q) : j < i /\ Walked(q, j) => \A x \in f[j] : x < j
  BY <1>0, <1>1
<1>4. PICK x \in f[i] : ~(x < i)
  OBVIOUS
<1>5. x \in Ops(q) /\ i \in Nat /\ x \in Nat
  BY <1>0, <1>2
<1>6. CASE q[i].prev # 0 /\ ~InConcurrent(q, i)
  <2>. DEFINE a == q[i].prev
  <2>1. a \in Ops(q) /\ a < i /\ q[a].parent = q[i].parent /\ a \in Nat
    BY <1>0, <1>2, <1>6, Placement
  <2>2. q[i].parent \in Nat /\ q[i].parent < a
    <3>1. q[a].parent \in 0..(a - 1)
      BY <2>1 DEF Legal, PlacedOK
    <3>. QED  BY <2>1, <3>1
  <2>3. \A t \in Children(q, a) : t \in Ops(q) /\ t > a /\ t < i
    BY <1>2, <2>1, <2>2, InsideIsBefore
  <2>4. \A t \in Children(q, a) : \A u \in Terms(q, t) : u < i
    <3>. SUFFICES ASSUME NEW t \in Children(q, a), NEW u \in Terms(q, t)
                  PROVE  u < i
      OBVIOUS
    <3>1. u \in Children(q, t) /\ t \in Ops(q)
      BY <2>3, Placement
    <3>2. q[i].parent < t /\ t < i
      BY <1>0, <2>1, <2>2, <2>3
    <3>. QED  BY <1>2, <3>1, <3>2, InsideIsBefore
  <2>5. x \in BodyFrontier(q, f, a) \cup {a}
    BY <1>2, <1>6 DEF Incoming, Outgoing
  <2>6. Terms(q, a) \subseteq Children(q, a)
    BY <2>1, Placement
  <2>7. CASE Kind(q, a) = "concurrent"
    BY <1>4, <2>1, <2>3, <2>4, <2>5, <2>7 DEF BodyFrontier, TaskFrontier
  <2>8. CASE Kind(q, a) = "pipeline"
    <3>1. CASE LastStage(q, a) = 0
      <4>1. x \in f[a] \/ x = a
        BY <2>5, <2>8, <3>1 DEF BodyFrontier
      <4>2. x = a \/ x < a
        BY <1>3, <2>1, <2>8, <4>1 DEF Walked
      <4>. QED  BY <1>4, <1>5, <2>1, <4>2
    <3>2. CASE LastStage(q, a) # 0
      <4>1. LastStage(q, a) \in Children(q, a)
        BY <2>1, <2>8, <3>2, PipelineTerm
      <4>. QED  BY <1>4, <2>1, <2>3, <2>4, <2>5, <2>8, <3>2, <4>1 DEF BodyFrontier, TaskFrontier
    <3>. QED  BY <3>1, <3>2
  <2>9. CASE Kind(q, a) \notin {"concurrent", "pipeline"}
    BY <1>4, <2>1, <2>3, <2>5, <2>6, <2>9 DEF BodyFrontier
  <2>. QED  BY <2>7, <2>8, <2>9
<1>7. CASE ~(q[i].prev # 0 /\ ~InConcurrent(q, i))
  <2>1. q[i].parent # 0 /\ x \in f[q[i].parent]
    BY <1>2, <1>7, <1>4 DEF Incoming
  <2>2. q[i].parent \in Ops(q) /\ q[i].parent < i
    BY <1>2, <2>1, Placement
  <2>3. Walked(q, q[i].parent)
    BY <1>2, <2>1 DEF Walked, Legal, PlacedOK, RegionKinds, Branches
  <2>4. x < q[i].parent /\ q[i].parent \in Nat
    BY <1>0, <1>3, <2>1, <2>2, <2>3
  <2>. QED  BY <1>4, <1>5, <2>2, <2>4
<1>. QED  BY <1>6, <1>7

\* What an operation was walked with, seen from inside its parent: the block
\* of a region operation other than a concurrent is one chain.
LEMMA WalkedChildren ==
  ASSUME NEW q, Legal(q), NEW i \in Ops(q), Kind(q, i) \in RegionKinds, Kind(q, i) # "concurrent",
         NEW f, NEW c \in Children(q, i), Walked(q, c)
  PROVE  /\ q[c].prev = 0 => Incoming(q, f, c) = f[i]
         /\ q[c].prev # 0 => /\ q[c].prev \in Incoming(q, f, c)
                             /\ q[c].prev \in Children(q, i)
                             /\ Walked(q, q[c].prev)
                             /\ q[c].prev < c
<1>1. c \in Ops(q) /\ q[c].parent = i /\ i # 0
  BY Placement DEF Children
<1>2. ~InConcurrent(q, c)
  BY <1>1 DEF InConcurrent
<1>3. q[c].prev = 0 => Incoming(q, f, c) = f[i]
  BY <1>1 DEF Incoming
<1>4. ASSUME q[c].prev # 0
      PROVE  /\ q[c].prev \in Incoming(q, f, c) /\ q[c].prev \in Children(q, i)
             /\ Walked(q, q[c].prev) /\ q[c].prev < c
  <2>. DEFINE a == q[c].prev
  <2>1. a \in Ops(q) /\ a < c /\ q[a].parent = i /\ q[a].region = q[c].region
    BY <1>1, <1>4, Placement DEF Legal, PlacedOK
  <2>2. Kind(q, a) # "yield"
    BY <1>1, <2>1 DEF Legal, PlacedOK, Children
  <2>. QED  BY <1>2, <1>4, <2>1, <2>2 DEF Incoming, Outgoing, Children, Walked
<1>. QED  BY <1>3, <1>4

\* The programs whose concurrent regions all hold a task.
TasksInConcurrent(q) ==
  \A i \in OfKind(q, "concurrent") : Children(q, i) \ Terms(q, i) # {}

LEMMA OrderThrough ==
  ASSUME NEW q, Legal(q), TasksInConcurrent(q), NEW f \in [Ops(q) -> SUBSET Ops(q)],
         \A i \in Ops(q) : Walked(q, i) => f[i] = Incoming(q, f, i),
         NEW g,
         \A y \in Ops(q) : Walked(q, y) => \A x \in EdgesInto(q, f, y) \ {y} : y \in g[x]
  PROVE  \A i \in Ops(q) : Walked(q, i) => \A x \in f[i] : Ordered(g, x, i)
<1>. DEFINE Bad == {i \in Ops(q) : Walked(q, i) /\ \E x \in f[i] : ~Ordered(g, x, i)}
<1>0. Ops(q) = 1..Len(q) /\ Len(q) \in Nat
  BY DEF Legal
<1>. SUFFICES ASSUME Bad # {} PROVE FALSE
  OBVIOUS
<1>1. PICK i \in Bad : \A j \in Bad : j <= i
  <2>1. Bad \subseteq 1..Len(q) /\ Bad \in SUBSET Int
    BY <1>0
  <2>2. IsFiniteSet(Bad)
    <3>. HIDE DEF Bad
    <3>1. IsFiniteSet(1..Len(q))
      BY <1>0, FS_Interval
    <3>. QED  BY <2>1, <3>1, FS_Subset
  <2>. HIDE DEF Bad
  <2>. QED  BY <2>1, <2>2, GreatestInt
<1>2. i \in Ops(q) /\ Walked(q, i) /\ f[i] = Incoming(q, f, i) /\ i \in Nat
  BY <1>0
<1>3. PICK x \in f[i] : ~Ordered(g, x, i)
  OBVIOUS
<1>4. x \in Ops(q) /\ x < i /\ x # i
  BY <1>0, <1>2, IncomingIsBefore
<1>5. \A j \in Ops(q) : j > i /\ Walked(q, j) => \A z \in f[j] : Ordered(g, z, j)
  BY <1>0, <1>1
<1>6. \A y \in EdgesInto(q, f, i) \ {i} : Ordered(g, y, i)
  BY <1>2, OrderedEdge
<1>7. Children(q, i) \subseteq Ops(q) /\ \A c \in Children(q, i) : c > i
  BY <1>0, <1>2, Placement DEF Children
<1>8. CASE Kind(q, i) \notin RegionKinds
  <2>1. x \in EdgesInto(q, f, i) \ {i}
    BY <1>2, <1>4, <1>8 DEF EdgesInto
  <2>. QED  BY <1>3, <1>6, <2>1
<1>9. CASE Kind(q, i) = "concurrent"
  <2>1. PICK t \in Children(q, i) \ Terms(q, i) : TRUE
    BY <1>2, <1>9 DEF TasksInConcurrent, OfKind, Kind
  <2>2. t \in Ops(q) /\ t > i /\ q[t].parent = i /\ InConcurrent(q, t) /\ i # 0
    BY <1>2, <1>7, <1>9, Placement DEF Children, InConcurrent
  <2>3. Walked(q, t)
    BY <1>2, <1>9, <2>1, <2>2 DEF Walked, Legal, PlacedOK
  <2>4. f[t] = f[i]
    BY <2>2, <2>3 DEF Incoming
  <2>5. Ordered(g, x, t)
    BY <1>5, <2>2, <2>3, <2>4
  <2>6. t \in EdgesInto(q, f, i) \ {i}
    BY <1>0, <1>9, <2>1, <2>2 DEF EdgesInto, BodyFrontier, TaskFrontier, RegionKinds
  <2>. QED  BY <1>3, <1>6, <2>5, <2>6, OrderedTrans
<1>10. CASE Kind(q, i) \in RegionKinds /\ Kind(q, i) # "concurrent"
  <2>1. \A c \in Children(q, i) : Walked(q, c) => Ordered(g, x, c)
    <3>. DEFINE Late == {c \in Children(q, i) : Walked(q, c) /\ ~Ordered(g, x, c)}
    <3>. SUFFICES ASSUME Late # {} PROVE FALSE
      OBVIOUS
    <3>1. PICK c \in Late : \A d \in Late : c <= d
      <4>1. Late \in SUBSET Nat
        BY <1>0, <1>7
      <4>. HIDE DEF Late
      <4>. QED  BY <4>1, LeastNat
    <3>2. c \in Children(q, i) /\ Walked(q, c) /\ ~Ordered(g, x, c) /\ c \in Ops(q) /\ c > i
      BY <1>7
    <3>3. f[c] = Incoming(q, f, c) /\ \A z \in f[c] : Ordered(g, z, c)
      BY <1>5, <3>2
    <3>4. CASE q[c].prev = 0
      BY <1>2, <1>10, <3>2, <3>3, <3>4, WalkedChildren
    <3>5. CASE q[c].prev # 0
      <4>. DEFINE a == q[c].prev
      <4>1. a \in f[c] /\ a \in Children(q, i) /\ Walked(q, a) /\ a < c
        BY <1>2, <1>10, <3>2, <3>3, <3>5, WalkedChildren
      <4>2. a \in Nat /\ c \in Nat
        BY <1>0, <1>7, <3>2, <4>1
      <4>3. Ordered(g, x, a)
        BY <3>1, <4>1, <4>2
      <4>. QED  BY <3>2, <3>3, <4>1, <4>3, OrderedTrans
    <3>. QED  BY <3>4, <3>5
  <2>2. EdgesInto(q, f, i) = BodyFrontier(q, f, i)
    BY <1>10 DEF EdgesInto
  <2>3. CASE Kind(q, i) = "pipeline"
    <3>1. CASE LastStage(q, i) = 0
      <4>1. x \in EdgesInto(q, f, i) \ {i}
        BY <1>4, <2>2, <2>3, <3>1 DEF BodyFrontier
      <4>. QED  BY <1>3, <1>6, <4>1
    <3>2. CASE LastStage(q, i) # 0
      <4>. DEFINE s == LastStage(q, i)
      <4>1. s \in Children(q, i)
        BY <1>2, <2>3, <3>2, PipelineTerm
      <4>2. s \in Ops(q) /\ s > i /\ s # i
        BY <1>0, <1>7, <4>1
      <4>3. Walked(q, s)
        <5>. DEFINE t == q[i].term[1]
        <5>1. t \in Ops(q) /\ q[t].parent = i
          BY <1>2, <2>3, PipelineTerm DEF Children
        <5>2. s = q[t].prev /\ PlacedOK(q, t)
          BY <5>1 DEF LastStage, Legal
        <5>3. s < t /\ q[s].region = q[t].region
          <6>1. /\ q[t].prev \in 0..(t - 1)
                /\ q[t].prev # 0 => q[q[t].prev].region = q[t].region
            BY <5>2, Zenon DEF PlacedOK
          <6>. HIDE DEF s, t
          <6>2. t \in Int /\ s \in 0..(t - 1) /\ q[s].region = q[t].region
            BY <1>0, <3>2, <5>1, <5>2, <6>1 DEF s
          <6>. QED  BY <6>2
        <5>4. Kind(q, s) # "yield"
          BY <4>1, <5>1, <5>2, <5>3 DEF PlacedOK
        <5>. QED  BY <5>4 DEF Walked
      <4>4. s \in EdgesInto(q, f, i) \ {i}
        BY <2>2, <2>3, <3>2, <4>2 DEF BodyFrontier, TaskFrontier
      <4>. QED  BY <1>3, <1>6, <2>1, <4>1, <4>3, <4>4, OrderedTrans
    <3>. QED  BY <3>1, <3>2
  <2>4. CASE Kind(q, i) # "pipeline"
    <3>. DEFINE t == q[i].term[1]
    <3>1. 1 \in DOMAIN q[i].term
      BY <1>2, <1>10, <2>4 DEF Legal, RegionsOK, RegionKinds, Branches
    <3>2. t \in Terms(q, i) /\ t \in Children(q, i)
      BY <1>2, <3>1, Placement DEF Terms
    <3>3. t \in Ops(q) /\ t # i /\ q[t].parent = i
      BY <1>0, <1>7, <3>2 DEF Children
    <3>4. Walked(q, t)
      BY <1>10, <2>4, <3>3 DEF Walked
    <3>5. t \in EdgesInto(q, f, i) \ {i}
      BY <1>10, <2>2, <2>4, <3>2, <3>3 DEF BodyFrontier
    <3>. QED  BY <1>3, <1>6, <2>1, <3>2, <3>4, <3>5, OrderedTrans
  <2>. QED  BY <2>3, <2>4
<1>. QED  BY <1>8, <1>9, <1>10

LEMMA InvGivesOrder == OracleInv /\ TasksInConcurrent(p) => ProgramOrderKept
<1>. SUFFICES ASSUME OracleInv, TasksInConcurrent(p), pc = "alias", NEW i \in Ops(p)
              PROVE  /\ Walked(p, i) /\ p[i].prev # 0 /\ ~InConcurrent(p, i)
                          => Ordered(succ, p[i].prev, i)
                     /\ \A t \in p[i].toks : Ordered(succ, t, i)
  BY DEF ProgramOrderKept
<1>1. /\ Legal(p) /\ in \in [Ops(p) -> SUBSET Ops(p)]
      /\ \A j \in Ops(p) : j < next
      /\ \A j \in Ops(p) : Walked(p, j) => in[j] = Incoming(p, in, j)
      /\ \A y \in Ops(p) : Walked(p, y) =>
           \A x \in EdgesInto(p, in, y) \ {y} : y \in succ[x]
  BY DEF OracleInv, OracleTypeOK, WalkInv
<1>2. ASSUME Walked(p, i), p[i].prev # 0, ~InConcurrent(p, i)
      PROVE  Ordered(succ, p[i].prev, i)
  <2>1. p[i].prev \in in[i]
    BY <1>1, <1>2 DEF Incoming, Outgoing
  <2>. QED  BY <1>1, <1>2, <2>1, OrderThrough
<1>3. ASSUME NEW t \in p[i].toks PROVE Ordered(succ, t, i)
  <2>1. TokensOK(p, i) /\ Ops(p) = 1..Len(p) /\ Len(p) \in Nat
    BY <1>1 DEF Legal
  <2>2. Kind(p, i) \in {"wait", "barrier"} /\ t \in 1..(i - 1) /\ t # i
    BY <2>1 DEF TokensOK
  <2>3. Walked(p, i) /\ t \in EdgesInto(p, in, i)
    BY <2>2 DEF Walked, EdgesInto, RegionKinds, Branches
  <2>. QED  BY <1>1, <2>2, <2>3, OrderedEdge
<1>. QED  BY <1>2, <1>3

\* The order of the program is in the graph of every legal program whose
\* concurrent regions hold a task.  (The frontier of an empty one is empty:
\* what stands before it is then not ordered before what stands after it.)
THEOREM OracleOrder == OracleSpec => [](TasksInConcurrent(p) => ProgramOrderKept)
<1>1. OracleInv => (TasksInConcurrent(p) => ProgramOrderKept)
  BY InvGivesOrder
<1>. QED  BY <1>1, OracleInvariant, PTL

-----------------------------------------------------------------------------
(***************************************************************************)
(* The converse: the tree of a program, and what comes before what in it.  *)
(***************************************************************************)
LEMMA ChildInside ==
  ASSUME NEW q, Legal(q), NEW a \in Ops(q), NEW c \in Children(q, a)
  PROVE  /\ c \in Ops(q) /\ a \in Nat \ {0} /\ c \in Nat \ {0}
         /\ Encloses(q, a, c) /\ a < c /\ ~Encloses(q, c, a)
         /\ q[c].parent = a
<1>1. c \in Ops(q) /\ q[c].parent = a /\ a \in Nat \ {0} /\ c \in Nat \ {0}
  BY Placement DEF Children
<1>2. Encloses(q, a, c)
  BY <1>1 DEF Legal, PlacedOK
<1>. QED  BY <1>1, <1>2 DEF Encloses

\* What encloses an operation encloses everything between the two.
LEMMA EnclosesOuter ==
  ASSUME NEW q, NEW e \in Nat, NEW k \in Nat, NEW i \in Nat, Encloses(q, e, i), e < k, k <= i
  PROVE  Encloses(q, e, k)
BY DEF Encloses

LEMMA EnclosesTrans ==
  ASSUME NEW q, Legal(q), NEW a \in Ops(q), NEW c \in Ops(q), NEW z \in Ops(q),
         Encloses(q, a, c), Encloses(q, c, z)
  PROVE  Encloses(q, a, z)
<1>1. /\ z \in Nat /\ c \in Nat /\ a \in Nat /\ c < z /\ a < c
      /\ \A j \in (c + 1)..z : q[j].parent >= c
      /\ \A j \in (a + 1)..c : q[j].parent >= a
  BY Placement DEF Encloses
<1>2. \A j \in (a + 1)..z : q[j].parent \in Nat
  <2>1. Ops(q) = 1..Len(q) /\ Len(q) \in Nat
    BY Placement
  <2>2. \A j \in (a + 1)..z : j \in Ops(q)
    BY <1>1, <2>1
  <2>3. \A j \in Ops(q) : q[j].parent \in 0..(j - 1) /\ j \in Nat
    BY <2>1 DEF Legal, PlacedOK
  <2>. QED  BY <2>2, <2>3
<1>3. \A j \in (a + 1)..z : j \in (a + 1)..c \/ j \in (c + 1)..z
  BY <1>1
<1>4. SUFFICES ASSUME NEW j \in (a + 1)..z PROVE q[j].parent >= a
  BY <1>1 DEF Encloses
<1>. QED  BY <1>1, <1>2, <1>3, <1>4

LEMMA EnclosesChild ==
  ASSUME NEW q, Legal(q), NEW a \in Ops(q), NEW c \in Ops(q), NEW z \in Children(q, c),
         Encloses(q, a, c)
  PROVE  Encloses(q, a, z)
BY ChildInside, EnclosesTrans

\* What holds an operation is its parent, or holds that one too.
LEMMA ParentHeld ==
  ASSUME NEW q, Legal(q), NEW a \in Ops(q), NEW i \in Ops(q), Encloses(q, a, i)
  PROVE  /\ q[i].parent \in Ops(q) /\ i \in Children(q, q[i].parent)
         /\ q[i].parent < i /\ ~(i <= q[i].parent)
         /\ Encloses(q, q[i].parent, i)
         /\ q[i].parent = a \/ (Encloses(q, a, q[i].parent) /\ a < q[i].parent)
<1>. DEFINE o == q[i].parent
<1>1. /\ a \in Nat \ {0} /\ i \in Nat \ {0} /\ o >= a /\ o \in 0..(i - 1)
  <2>1. a \in Nat \ {0} /\ i \in Nat \ {0}
    BY Placement
  <2>2. a < i /\ i \in (a + 1)..i
    BY <2>1 DEF Encloses
  <2>3. o \in 0..(i - 1)
    BY DEF Legal, PlacedOK
  <2>. QED  BY <2>1, <2>2, <2>3 DEF Encloses
<1>2. o \in Ops(q) /\ i \in Children(q, o) /\ o < i /\ ~(i <= o)
  BY <1>1, Placement DEF Children
<1>3. Encloses(q, o, i)
  BY <1>2, ChildInside
<1>4. o = a \/ (Encloses(q, a, o) /\ a < o)
  BY <1>1, <1>2, EnclosesOuter
<1>. QED  BY <1>2, <1>3, <1>4

\* d is z or an operation around it.
Holds(q, d, z) == d = z \/ Encloses(q, d, z)

\* z is, or is in, an operation that comes before i, or before what i is in,
\* in the same block.
Precedes(q, z, i) == \E d \in Ops(q) : Holds(q, d, z) /\ Dominates(q, d, i)

LEMMA HoldsTrans ==
  ASSUME NEW q, Legal(q), NEW a \in Ops(q), NEW b \in Ops(q), NEW z \in Ops(q),
         Holds(q, a, b), Holds(q, b, z)
  PROVE  Holds(q, a, z)
BY EnclosesTrans DEF Holds

\* Of two operations around a third, the later is in the earlier.
LEMMA HoldsBetween ==
  ASSUME NEW q, Legal(q), NEW a \in Ops(q), NEW b \in Ops(q), NEW z \in Ops(q),
         Holds(q, a, z), Holds(q, b, z), a < b
  PROVE  Encloses(q, a, b)
<1>1. a \in Nat /\ b \in Nat /\ z \in Nat
  BY Placement
<1>2. b <= z /\ Encloses(q, a, z)
  BY <1>1 DEF Holds, Encloses
<1>. QED  BY <1>1, <1>2, EnclosesOuter

\* What encloses an operation encloses the others of its block.
LEMMA EnclosesBlock ==
  ASSUME NEW q, Legal(q), NEW a \in Ops(q), NEW b \in Ops(q), NEW c \in Ops(q),
         Encloses(q, a, b), q[c].parent = q[b].parent
  PROVE  Encloses(q, a, c)
<1>. DEFINE o == q[b].parent
<1>1. o \in Ops(q) /\ (o = a \/ Encloses(q, a, o))
  BY ParentHeld
<1>2. c \in Children(q, o)
  BY <1>1 DEF Children
<1>. QED  BY <1>1, <1>2, ChildInside, EnclosesChild

LEMMA DominatesBefore ==
  ASSUME NEW q, Legal(q), NEW d \in Ops(q), NEW i \in Ops(q), Dominates(q, d, i)
  PROVE  d < i /\ ~Encloses(q, d, i)
<1>1. PICK j \in Children(q, q[d].parent) :
        d < j /\ q[j].region = q[d].region /\ (j = i \/ Encloses(q, j, i))
  BY DEF Dominates
<1>2. /\ j \in Ops(q) /\ j \in Nat /\ d \in Nat /\ i \in Nat /\ j <= i
      /\ q[j].parent \in 0..(d - 1)
  <2>1. j \in Ops(q) /\ q[j].parent = q[d].parent
    BY DEF Children
  <2>2. q[d].parent \in 0..(d - 1)
    BY DEF Legal, PlacedOK
  <2>. QED  BY <1>1, <2>1, <2>2, Placement DEF Encloses
<1>3. ~Encloses(q, d, j)
  BY <1>1, <1>2 DEF Encloses
<1>. QED  BY <1>1, <1>2, <1>3, EnclosesOuter

LEMMA PrecedesBefore ==
  ASSUME NEW q, Legal(q), NEW z \in Ops(q), NEW i \in Ops(q), Precedes(q, z, i)
  PROVE  z < i /\ ~Encloses(q, z, i)
<1>1. PICK d \in Ops(q) : Holds(q, d, z) /\ Dominates(q, d, i)
  BY DEF Precedes
<1>2. d < i /\ ~Encloses(q, d, i) /\ d \in Nat /\ i \in Nat /\ z \in Nat
  BY <1>1, DominatesBefore, Placement
<1>3. z < i
  BY <1>1, <1>2, EnclosesOuter DEF Holds
<1>. QED  BY <1>1, <1>2, <1>3, EnclosesTrans DEF Holds

\* What is before an operation is before all that is in it, and what is in an
\* operation before another one is before that one too.
LEMMA PrecedesInner ==
  ASSUME NEW q, Legal(q), NEW x \in Ops(q), NEW y \in Ops(q), NEW z \in Ops(q), NEW i \in Ops(q),
         Precedes(q, y, z), Holds(q, y, x), Holds(q, z, i)
  PROVE  Precedes(q, x, i)
<1>1. PICK d \in Ops(q) : Holds(q, d, y) /\ Dominates(q, d, z)
  BY DEF Precedes
<1>2. PICK j \in Children(q, q[d].parent) :
        d < j /\ q[j].region = q[d].region /\ (j = z \/ Encloses(q, j, z))
  BY <1>1 DEF Dominates
<1>3. j \in Ops(q) /\ Holds(q, j, z)
  BY <1>2 DEF Children, Holds
<1>4. Holds(q, j, i) /\ Holds(q, d, x)
  BY <1>1, <1>3, HoldsTrans
<1>5. Dominates(q, d, i)
  BY <1>2, <1>4 DEF Dominates, Holds
<1>. QED  BY <1>4, <1>5 DEF Precedes

\* What is before an operation is before the one around it, or in that one.
LEMMA PrecedesOuter ==
  ASSUME NEW q, Legal(q), NEW x \in Ops(q), NEW y \in Ops(q), NEW r \in Ops(q),
         Precedes(q, x, y), Holds(q, r, y)
  PROVE  Precedes(q, x, r) \/ Encloses(q, r, x)
<1>1. PICK d \in Ops(q) : Holds(q, d, x) /\ Dominates(q, d, y)
  BY DEF Precedes
<1>2. PICK j \in Children(q, q[d].parent) :
        d < j /\ q[j].region = q[d].region /\ (j = y \/ Encloses(q, j, y))
  BY <1>1 DEF Dominates
<1>3. j \in Ops(q) /\ Holds(q, j, y) /\ q[j].parent = q[d].parent /\ j \in Nat /\ r \in Nat
  BY <1>2, Placement DEF Children, Holds
<1>4. CASE j <= r
  <2>1. j = r \/ Encloses(q, j, r)
    BY <1>3, <1>4, HoldsBetween
  <2>. QED  BY <1>1, <1>2, <2>1 DEF Dominates, Precedes
<1>5. CASE r < j
  <2>1. Encloses(q, r, j)
    BY <1>3, <1>5, HoldsBetween
  <2>2. Encloses(q, r, d)
    BY <1>3, <2>1, EnclosesBlock
  <2>. QED  BY <1>1, <2>2, EnclosesTrans DEF Holds
<1>. QED  BY <1>3, <1>4, <1>5

LEMMA PrecedesTrans ==
  ASSUME NEW q, Legal(q), NEW x \in Ops(q), NEW y \in Ops(q), NEW r \in Ops(q),
         Precedes(q, x, y), Precedes(q, y, r)
  PROVE  Precedes(q, x, r)
<1>1. PICK d \in Ops(q) : Holds(q, d, y) /\ Dominates(q, d, r)
  BY DEF Precedes
<1>2. Holds(q, d, d)
  BY DEF Holds
<1>3. Precedes(q, d, r)
  BY <1>1, <1>2 DEF Precedes
<1>4. CASE Encloses(q, d, x)
  BY <1>3, <1>4, <1>2, PrecedesInner DEF Holds
<1>5. CASE Precedes(q, x, d)
  <2>1. PICK e \in Ops(q) : Holds(q, e, x) /\ Dominates(q, e, d)
    BY <1>5 DEF Precedes
  <2>2. PICK j \in Children(q, q[e].parent) :
          e < j /\ q[j].region = q[e].region /\ (j = d \/ Encloses(q, j, d))
    BY <2>1 DEF Dominates
  <2>3. PICK k \in Children(q, q[d].parent) :
          d < k /\ q[k].region = q[d].region /\ (k = r \/ Encloses(q, k, r))
    BY <1>1 DEF Dominates
  <2>4. /\ j \in Ops(q) /\ q[j].parent = q[e].parent
        /\ k \in Ops(q) /\ q[k].parent = q[d].parent
        /\ Holds(q, k, r) /\ e \in Nat /\ d \in Nat /\ j \in Nat /\ k \in Nat
    BY <2>2, <2>3, Placement DEF Children, Holds
  <2>5. CASE j = d
    <3>1. k \in Children(q, q[e].parent) /\ e < k /\ q[k].region = q[e].region
      BY <2>2, <2>3, <2>4, <2>5
    <3>. QED  BY <2>1, <2>4, <3>1 DEF Dominates, Precedes, Holds
  <2>6. CASE Encloses(q, j, d)
    <3>1. Encloses(q, j, k)
      BY <2>4, <2>6, EnclosesBlock
    <3>2. Holds(q, j, r)
      BY <2>4, <3>1, HoldsTrans DEF Holds
    <3>. QED  BY <2>1, <2>2, <3>2 DEF Dominates, Precedes, Holds
  <2>. QED  BY <2>2, <2>5, <2>6
<1>. QED  BY <1>1, <1>4, <1>5, PrecedesOuter

\* What a region operation leaves complete was in it, or before an empty
\* pipeline.
LEMMA BodyInside ==
  ASSUME NEW q, Legal(q), NEW f \in [Ops(q) -> SUBSET Ops(q)], NEW j \in Ops(q),
         NEW x \in BodyFrontier(q, f, j)
  PROVE  x \in Ops(q) /\ (Encloses(q, j, x) \/ (Kind(q, j) = "pipeline" /\ x \in f[j]))
<1>1. x \in Ops(q)
  BY FrontierTypes
<1>2. ASSUME NEW t \in Children(q, j), x \in TaskFrontier(q, t)
      PROVE  Encloses(q, j, x)
  <2>1. t \in Ops(q) /\ Encloses(q, j, t)
    BY ChildInside
  <2>2. x = t \/ x \in Children(q, t)
    BY <1>2, <2>1, Placement DEF TaskFrontier
  <2>. QED  BY <2>1, <2>2, EnclosesChild
<1>3. CASE Kind(q, j) = "concurrent"
  BY <1>1, <1>2, <1>3 DEF BodyFrontier
<1>4. CASE Kind(q, j) = "pipeline"
  BY <1>1, <1>2, <1>4, PipelineTerm DEF BodyFrontier
<1>5. CASE Kind(q, j) \notin {"concurrent", "pipeline"}
  <2>1. x \in Children(q, j)
    BY <1>5, Placement DEF BodyFrontier
  <2>. QED  BY <1>1, <2>1, ChildInside
<1>. QED  BY <1>3, <1>4, <1>5

\* What an operation is walked with comes before it.
LEMMA FrontierPrecedes ==
  ASSUME NEW q, Legal(q), NEW f \in [Ops(q) -> SUBSET Ops(q)],
         \A i \in Ops(q) : Walked(q, i) => f[i] = Incoming(q, f, i)
  PROVE  \A i \in Ops(q) : Walked(q, i) => \A x \in f[i] : Precedes(q, x, i)
<1>. DEFINE Bad == {i \in Ops(q) : Walked(q, i) /\ \E x \in f[i] : ~Precedes(q, x, i)}
<1>1. SUFFICES ASSUME NEW i0 \in Bad PROVE FALSE
  OBVIOUS
<1>2. PICK i \in Bad : \A k \in Bad : i <= k
  <2>1. Bad \subseteq Nat
    BY Placement
  <2>. HIDE DEF Bad
  <2>. QED  BY <1>1, <2>1, LeastNat
<1>3. i \in Ops(q) /\ Walked(q, i) /\ i \in Nat
  BY Placement
<1>4. PICK x \in f[i] : ~Precedes(q, x, i)
  OBVIOUS
<1>5. ASSUME NEW k \in Ops(q), k < i, Walked(q, k), NEW z \in f[k]
      PROVE  z \in Ops(q) /\ Precedes(q, z, k)
  BY <1>2, <1>3, <1>5, Placement
<1>6. x \in Incoming(q, f, i) /\ x \in Ops(q)
  BY <1>3
<1>7. CASE q[i].prev # 0 /\ ~InConcurrent(q, i)
  <2>. DEFINE j == q[i].prev
  <2>1. /\ j \in Ops(q) /\ j < i /\ q[j].parent = q[i].parent /\ q[j].region = q[i].region
        /\ i \in Children(q, q[j].parent)
    BY <1>3, <1>7, Placement DEF Legal, PlacedOK, Children
  <2>2. Dominates(q, j, i)
    BY <2>1 DEF Dominates
  <2>3. x = j \/ x \in BodyFrontier(q, f, j)
    BY <1>6, <1>7 DEF Incoming, Outgoing
  <2>4. CASE x = j \/ Encloses(q, j, x)
    BY <1>4, <2>1, <2>2, <2>4 DEF Precedes, Holds
  <2>5. CASE Kind(q, j) = "pipeline" /\ x \in f[j]
    <3>1. Walked(q, j)
      BY <2>5 DEF Walked
    <3>2. Precedes(q, x, j)
      BY <1>5, <2>1, <2>5, <3>1
    <3>3. Precedes(q, j, i)
      BY <2>1, <2>2 DEF Precedes, Holds
    <3>. QED  BY <1>3, <1>4, <1>6, <2>1, <3>2, <3>3, PrecedesTrans
  <2>. QED  BY <2>1, <2>3, <2>4, <2>5, BodyInside
<1>8. CASE ~(q[i].prev # 0 /\ ~InConcurrent(q, i))
  <2>. DEFINE j == q[i].parent
  <2>1. j # 0 /\ x \in f[j]
    BY <1>6, <1>8 DEF Incoming
  <2>2. j \in Ops(q) /\ j < i /\ i \in Children(q, j)
    BY <1>3, <2>1, Placement DEF Children
  <2>3. Walked(q, j)
    <3>1. Kind(q, j) \in RegionKinds
      BY <1>3, <2>1 DEF Legal, PlacedOK
    <3>. QED  BY <3>1 DEF Walked, RegionKinds, Branches
  <2>4. Precedes(q, x, j)
    BY <1>5, <2>1, <2>2, <2>3
  <2>5. Holds(q, j, i) /\ Holds(q, x, x)
    BY <2>2, ChildInside DEF Holds
  <2>. QED  BY <1>3, <1>4, <1>6, <2>2, <2>4, <2>5, PrecedesInner
<1>. QED  BY <1>7, <1>8

\* An edge leads to what comes later, or out of a region operation.
Framed(q, x, r) == Precedes(q, x, r) \/ Encloses(q, r, x)

LEMMA EdgePrecedes ==
  ASSUME NEW q, Legal(q), NEW f \in [Ops(q) -> SUBSET Ops(q)],
         \A i \in Ops(q) : Walked(q, i) => f[i] = Incoming(q, f, i),
         NEW y \in Ops(q), Walked(q, y), NEW x \in EdgesInto(q, f, y)
  PROVE  x \in Ops(q) /\ Framed(q, x, y)
<1>1. \A z \in f[y] : Precedes(q, z, y)
  BY FrontierPrecedes
<1>2. x \in Ops(q)
  BY EdgeTypes
<1>3. CASE Kind(q, y) \in RegionKinds
  <2>1. x \in BodyFrontier(q, f, y)
    BY <1>3 DEF EdgesInto
  <2>. QED  BY <1>1, <1>2, <2>1, BodyInside DEF Framed
<1>4. CASE Kind(q, y) \notin RegionKinds
  <2>1. x \in f[y] \/ x \in q[y].toks
    BY <1>4 DEF EdgesInto
  <2>2. x \in q[y].toks => Dominates(q, x, y)
    BY DEF Legal, TokensOK
  <2>. QED  BY <1>1, <1>2, <2>1, <2>2 DEF Framed, Precedes, Holds
<1>. QED  BY <1>3, <1>4

LEMMA FramedTrans ==
  ASSUME NEW q, Legal(q), NEW x \in Ops(q), NEW y \in Ops(q), NEW r \in Ops(q),
         Framed(q, x, y), y = r \/ Framed(q, y, r)
  PROVE  Framed(q, x, r)
<1>1. CASE Precedes(q, x, y) /\ Precedes(q, y, r)
  BY <1>1, PrecedesTrans DEF Framed
<1>2. CASE Precedes(q, x, y) /\ Encloses(q, r, y)
  <2>1. Holds(q, r, y)
    BY <1>2 DEF Holds
  <2>. QED  BY <1>2, <2>1, PrecedesOuter DEF Framed
<1>3. CASE Encloses(q, y, x) /\ Precedes(q, y, r)
  <2>1. Holds(q, y, x) /\ Holds(q, r, r)
    BY <1>3 DEF Holds
  <2>. QED  BY <1>3, <2>1, PrecedesInner DEF Framed
<1>4. CASE Encloses(q, y, x) /\ Encloses(q, r, y)
  BY <1>4, EnclosesTrans DEF Framed
<1>. QED  BY <1>1, <1>2, <1>3, <1>4 DEF Framed

\* Whatever the graph derives is so in the program.
InProgramOrder ==
  pc # "walk" => \A x, r \in Ops(p) : Ordered(succ, x, r) => Framed(p, x, r)

LEMMA OrderIsFramed == OracleInv => InProgramOrder
<1>. SUFFICES ASSUME OracleInv, pc # "walk", NEW x \in Ops(p), NEW r \in Ops(p), Ordered(succ, x, r)
              PROVE  Framed(p, x, r)
  BY DEF InProgramOrder
<1>1. /\ Legal(p) /\ in \in [Ops(p) -> SUBSET Ops(p)] /\ succ \in [Ops(p) -> SUBSET Ops(p)]
      /\ DOMAIN succ = Ops(p)
      /\ \A i \in Ops(p) : Walked(p, i) => in[i] = Incoming(p, in, i)
      /\ \A z \in Ops(p) : \A y \in succ[z] : Walked(p, y) /\ z \in EdgesInto(p, in, y)
  BY DEF OracleInv, OracleTypeOK, WalkInv, IsGraph
<1>2. ASSUME NEW z \in Ops(p), NEW y \in succ[z], y = r \/ Framed(p, y, r)
      PROVE  Framed(p, z, r)
  <2>1. y \in Ops(p) /\ Framed(p, z, y)
    BY <1>1, EdgePrecedes
  <2>. QED  BY <1>1, <1>2, <2>1, FramedTrans
<1>. DEFINE S == {y \in Ops(p) : y = r \/ Framed(p, y, r) => Framed(p, x, r)}
<1>3. S \subseteq DOMAIN succ
  BY <1>1
<1>4. succ[x] \subseteq S
  BY <1>1, <1>2
<1>5. Closed(succ, S)
  BY <1>1, <1>2 DEF Closed
<1>6. r \in S
  <2>. HIDE DEF S
  <2>. QED  BY <1>3, <1>4, <1>5 DEF Ordered
<1>. QED  BY <1>6

\* Whatever the graph of a legal program derives for an operation stands before
\* it in the program, or is in it: no path leads backwards, from a region
\* operation to what it holds, or from one branch into another, and the graph
\* has no cycle.
THEOREM OrderIsStructural == OracleSpec => []InProgramOrder
<1>1. OracleInv => InProgramOrder
  BY OrderIsFramed
<1>. QED  BY <1>1, OracleInvariant, PTL
=============================================================================
