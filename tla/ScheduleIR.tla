---------------------------- MODULE ScheduleIR ----------------------------
(***************************************************************************)
(* The part of an S2C2 module the happens-before layer looks at: a tree of *)
(* operations of the sched, comm, stor and scf dialects inside one         *)
(* function.  A program p is a sequence of operations in the order of a    *)
(* pre-order walk; an operation is named by its index.  Its fields are     *)
(*   kind    the operation                                                 *)
(*   parent  the operation whose region holds it, 0 for the function body  *)
(*   region  the region of the parent it is in                             *)
(*   prev    the operation before it in its block, 0 for the first         *)
(*   term    the terminators of its own (non-empty) regions, in order      *)
(*   src     the residency it reads,  dst  the residency it writes         *)
(*   toks    the operations that produce the tokens it consumes            *)
(*   vals    the operands of a yield,  inits  the init operands of a for   *)
(* A residency is an SSA value: <<0, k>> is the k-th buffer materialized   *)
(* outside the schedule, <<i, k>> the k-th result of operation i and       *)
(* <<i, -k>> the k-th iteration argument of the loop i.                    *)
(***************************************************************************)
EXTENDS Integers, Sequences

NoValue == <<0, 0>>

Branches == {"if", "switch", "for"}
RegionKinds == {"task", "concurrent", "overlap", "pipeline", "stage"} \cup Branches
LeafKinds == {"pack", "unpack", "transfer", "copy", "acopy", "stream",
              "wait", "barrier", "yield"}

Ops(p) == DOMAIN p
Kind(p, i) == p[i].kind
OfKind(p, k) == {i \in Ops(p) : p[i].kind = k}
Children(p, i) == {j \in Ops(p) : p[j].parent = i}
Terms(p, i) == {p[i].term[r] : r \in DOMAIN p[i].term}

\* Operations of the enclosing blocks, innermost first: parent, its parent...
Encloses(p, a, i) == a < i /\ \A j \in (a + 1)..i : p[j].parent >= a

\* The tasks around i; Operation::getParentOfType<TaskOp> is the innermost.
TasksAround(p, i) == {t \in OfKind(p, "task") : Encloses(p, t, i)}
IsParentTask(p, t, i) ==
  t \in TasksAround(p, i) /\ \A u \in TasksAround(p, i) : u <= t

-----------------------------------------------------------------------------
(***************************************************************************)
(* What the dialect verifiers and MLIR's own accept.                       *)
(***************************************************************************)
ConcurrentOK(p, i) ==      \* body: sched.task operations before the yield
  Kind(p, i) = "concurrent" =>
    \A j \in Children(p, i) : Kind(p, j) \in {"task", "yield"}

PipelineOK(p, i) ==        \* body: sched.stage operations, no values
  /\ Kind(p, i) = "pipeline" =>
       \A j \in Children(p, i) : Kind(p, j) \in {"stage", "yield"}
  /\ Kind(p, i) \in {"pipeline", "stage"} =>
       \A t \in Terms(p, i) : p[t].vals = <<>>
  /\ Kind(p, i) = "stage" => p[i].parent # 0 /\ Kind(p, p[i].parent) = "pipeline"

RegionsOK(p, i) ==         \* SizedRegion<n>, and an implicit or explicit yield
  /\ Len(p[i].term) \in
       CASE Kind(p, i) \in {"task", "concurrent", "pipeline", "stage", "for"} -> {1}
         [] Kind(p, i) = "overlap" -> {2}
         [] Kind(p, i) \in {"if", "switch"} -> {1, 2}
         [] OTHER -> {0}
  /\ \A r \in DOMAIN p[i].term :
       LET t == p[i].term[r] IN
         t \in Children(p, i) /\ Kind(p, t) = "yield" /\ p[t].region = r

\* An operation comes after the one before it in its block and inside its
\* parent, with nothing but operations of its parent in between.
PlacedOK(p, i) ==
  /\ p[i].parent \in 0..(i - 1) /\ Encloses(p, p[i].parent, i)
  /\ p[i].parent # 0 => Kind(p, p[i].parent) \in RegionKinds /\ p[i].region \in DOMAIN p[p[i].parent].term
  /\ p[i].prev \in 0..(i - 1)
  /\ p[i].prev # 0 => /\ p[p[i].prev].parent = p[i].parent
                      /\ p[p[i].prev].region = p[i].region
  /\ \A j \in Children(p, p[i].parent) :
       j < i /\ p[j].region = p[i].region => j <= p[i].prev /\ Kind(p, j) # "yield"
  /\ Kind(p, i) = "yield" /\ p[i].parent # 0 => i \in Terms(p, p[i].parent)

\* d comes before i, or before the operation around i that is in d's block.
Dominates(p, d, i) ==
  \E j \in Children(p, p[d].parent) :
    d < j /\ p[j].region = p[d].region /\ (j = i \/ Encloses(p, j, i))

TokensOK(p, i) ==
  /\ p[i].toks # {} => Kind(p, i) \in {"wait", "barrier"}
  /\ \A t \in p[i].toks :
       t \in 1..(i - 1) /\ Kind(p, t) \in {"acopy", "stream", "task"} /\ Dominates(p, t, i)

SourceOK(p, i) ==          \* what it reads is visible where it is
  LET d == p[i].src[1] IN
    d # 0 => IF p[i].src[2] > 0 THEN d \in Ops(p) /\ Dominates(p, d, i)
             ELSE Kind(p, d) = "for" /\ Encloses(p, d, i)

Legal(p) ==
  /\ Len(p) \in Nat /\ Ops(p) = 1..Len(p)
  /\ \A i \in Ops(p) :
       /\ Kind(p, i) \in RegionKinds \cup LeafKinds
       /\ ConcurrentOK(p, i) /\ PipelineOK(p, i) /\ RegionsOK(p, i)
       /\ PlacedOK(p, i) /\ TokensOK(p, i) /\ SourceOK(p, i)

-----------------------------------------------------------------------------
(***************************************************************************)
(* The walk that builds the graph.  in is the frontier an operation was    *)
(* walked with; an operation not walked yet, and the yields of concurrent  *)
(* and pipeline bodies, which are never walked, have none.                 *)
(***************************************************************************)
Walked(p, i) ==
  ~(Kind(p, i) = "yield" /\ p[i].parent # 0
    /\ Kind(p, p[i].parent) \in {"concurrent", "pipeline"})

InConcurrent(p, i) == p[i].parent # 0 /\ Kind(p, p[i].parent) = "concurrent"

LastStage(p, i) == p[p[i].term[1]].prev

TaskFrontier(p, i) == Terms(p, i) \cup {i}

\* walkOp's `join`/`cur`/`bodyOut`: what must be complete before the region
\* operation i itself is.
BodyFrontier(p, in, i) ==
  CASE Kind(p, i) = "concurrent" ->
         UNION {TaskFrontier(p, t) : t \in Children(p, i) \ Terms(p, i)}
    [] Kind(p, i) = "pipeline" ->
         IF LastStage(p, i) = 0 THEN in[i] ELSE TaskFrontier(p, LastStage(p, i))
    [] OTHER -> Terms(p, i)

Outgoing(p, in, i) == BodyFrontier(p, in, i) \cup {i}

\* Faulty variant: the tasks of a concurrent region in sequence.
IncomingInSequence(p, in, i) ==
  IF p[i].prev # 0
  THEN Outgoing(p, in, p[i].prev)
  ELSE IF p[i].parent = 0 THEN {} ELSE in[p[i].parent]

\* Tasks of a concurrent region are all walked with the frontier of the region
\* (no sibling order); any other operation with the one of its predecessor.
Incoming(p, in, i) ==
  IF p[i].prev # 0 /\ ~InConcurrent(p, i)
  THEN Outgoing(p, in, p[i].prev)
  ELSE IF p[i].parent = 0 THEN {} ELSE in[p[i].parent]

\* Faulty variant: tokens add no edge.
EdgesOfOrder(p, in, i) ==
  IF Kind(p, i) \in RegionKinds THEN BodyFrontier(p, in, i) ELSE Incoming(p, in, i)

\* The edges that lead to i once it is walked.
EdgesInto(p, in, i) ==
  IF Kind(p, i) \in RegionKinds THEN BodyFrontier(p, in, i)
  ELSE Incoming(p, in, i) \cup p[i].toks

-----------------------------------------------------------------------------
(***************************************************************************)
(* Reads, writes, and what is known of a write besides its place: the      *)
(* residency it defines, or the token that witnesses its completion.       *)
(***************************************************************************)
Reads(p) == {i \in Ops(p) : Kind(p, i) \in {"transfer", "copy", "acopy", "stream", "unpack"}}
SyncWrites(p) == {i \in Ops(p) : Kind(p, i) \in {"pack", "transfer", "copy"}}
AsyncWrites(p) == {i \in Ops(p) : Kind(p, i) \in {"acopy", "stream"}}
\* The pairs <<token, residency>>: the token of the asynchronous write and the
\* token of the task around it.
EventWrites(p) ==
  UNION {{<<t, p[w].dst>> : t \in {w} \cup {u \in Ops(p) : IsParentTask(p, u, w)}}
         : w \in AsyncWrites(p)}

\* Waits and barriers on the token of i.
Consumers(p, i) == {u \in Ops(p) : Kind(p, u) \in {"wait", "barrier"} /\ i \in p[u].toks}

\* copyWrites(from, to): the yield operand and the result it becomes.  Yields
\* of overlap regions are not followed.
Zipped(vals, i, sign) == {<<vals[k], <<i, sign * k>>>> : k \in DOMAIN vals}

AliasPairs(p, i) ==
  LET yields(sign) == UNION {Zipped(p[t].vals, i, sign) : t \in Terms(p, i)} IN
    CASE Kind(p, i) \in {"task", "concurrent", "if", "switch"} -> yields(1)
      [] Kind(p, i) = "for" -> yields(1) \cup yields(-1) \cup Zipped(p[i].inits, i, -1)
      [] OTHER -> {}

Aliases(p) == {a \in UNION {AliasPairs(p, i) : i \in Ops(p)} : a[1] # a[2]}

Residencies(p) ==
  {p[i].src : i \in Ops(p)} \cup {p[i].dst : i \in Ops(p)}
    \cup {a[1] : a \in Aliases(p)} \cup {a[2] : a \in Aliases(p)}

\* Following the pairs of A from the residency u leads to the residency v.
Carries(A, u, v) ==
  u = v \/ \A S \in SUBSET {a[2] : a \in A} :
             (\A a \in A : a[1] = u \/ a[1] \in S => a[2] \in S) => v \in S
=============================================================================
