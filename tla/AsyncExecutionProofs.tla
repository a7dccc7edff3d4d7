----------------------- MODULE AsyncExecutionProofs -----------------------
(***************************************************************************)
(* What a lowered program keeps of the happens-before order, for every     *)
(* legal program.  LoweringInv says what the passes have done so far: the  *)
(* loop over the waited tasks goes from the last, so a task is lowered     *)
(* before the ones it is in and nothing in it has been flattened or        *)
(* inlined (TaskOrderInv); a waited task ends up as the frame of one copy  *)
(* (FlatCopy) or as an execute that awaits its copies (ExecTask).  RunInv  *)
(* says that what has begun was ready, and that whatever the walk of the   *)
(* oracle put before it is done or in an agent that it is not part of.     *)
(* JoinInv says that every concurrent region has gone, none of them inside *)
(* another, and that a copy left to the task or stage around it is awaited *)
(* there: with it, what a read is ordered after has been written.          *)
(***************************************************************************)
EXTENDS AsyncExecution, ExecutionOracleProofs

Tasks == OfKind(p, "task")
Waits == OfKind(p, "wait") \cup OfKind(p, "barrier")
Concurrents == OfKind(p, "concurrent")
Lowering == {"execute", "flattened"}

\* What each form may stand for; only a flattened task has the token of another.
FormsInv ==
  /\ form \in [Ops(p) -> {"source", "execute", "flattened", "inlined", "await"}]
  /\ event \in [Ops(p) -> Ops(p)]
  /\ trailing \in [Ops(p) -> SUBSET Ops(p)]
  /\ \A i \in Ops(p) :
       /\ form[i] = "flattened" => i \in Tasks
       /\ form[i] = "execute" => i \in AsyncWrites(p) \/ i \in Tasks \/ Kind(p, i) = "stage"
       /\ form[i] = "inlined" => Kind(p, i) \in {"concurrent", "pipeline"}
       /\ form[i] = "await" => i \in Waits
       /\ form[i] # "flattened" => event[i] = i

\* The task was the frame of one asynchronous copy.
FlatCopy(t) ==
  form[t] = "flattened" /\
  \E x \in AsyncWrites(p) :
    Children(p, t) \ Terms(p, t) = {x} /\ form[x] = "execute" /\ event[t] = x

\* The task is an execute, and its copies are awaited in it.
ExecTask(t) ==
  form[t] = "execute" /\
  \A c \in Children(p, t) \cap AsyncWrites(p) :
    form[c] = "execute" /\ (c \in trailing[t] \/ \E w \in Children(p, t) : c \in p[w].toks)

\* A flattened task holds one operation, whose token stands for its own.
FlatShape(t) ==
  \E v \in Children(p, t) :
    /\ Children(p, t) \ Terms(p, t) = {v}
    /\ event[t] = event[v]
    /\ \/ v \in AsyncWrites(p) /\ form[v] = "execute"
       \/ v \in Tasks /\ form[v] \in Lowering

PendingIn(name) == IF pass \in {name, "undefined"} THEN worklist ELSE {}

CopiesInv == pass # "tokens" => \A i \in TokenCopies : form[i] = "execute"

TasksInv ==
  pass # "tokens" =>
    /\ \A t \in EventTasks \ PendingIn("tasks") : FlatCopy(t) \/ ExecTask(t)
    /\ \A t \in Tasks : form[t] # "source" => t \in EventTasks \ PendingIn("tasks") \/ InConcurrent(p, t)
    /\ \A t, u \in EventTasks \ PendingIn("tasks") : ~Encloses(p, t, u)
    /\ \A t \in Tasks : form[t] = "flattened" => FlatShape(t)

\* The walk is from the last: what is left to lower comes before what is done
\* and does not hold it.
TaskOrderInv ==
  pass = "tasks" =>
    /\ worklist \subseteq EventTasks
    /\ \A i \in Ops(p) : form[i] \notin {"inlined", "await"}
    /\ \A t \in Tasks : form[t] # "source" => t \in EventTasks \ worklist
    /\ \A t \in worklist \ erased : \A u \in EventTasks \ worklist : t < u /\ ~Encloses(p, t, u)

WaitDone(w) ==
  form[w] = "await" /\ \A t \in p[w].toks : Converted(t) /\ (t \in Tasks => t \in EventTasks)

WaitsInv ==
  /\ pass = "waits" =>
       /\ worklist \subseteq Waits
       /\ \A t \in Tasks : form[t] # "source" => t \in EventTasks
       /\ \A i \in Ops(p) : form[i] # "inlined"
  /\ pass \in {"waits", "concurrent", "pipeline", "done"} =>
       \A w \in Waits \ PendingIn("waits") : WaitDone(w)

ConcurrentInv ==
  /\ pass = "concurrent" =>
       /\ worklist \subseteq Concurrents
       /\ \A i \in Ops(p) : form[i] = "inlined" => i \in Concurrents \ worklist
       /\ \A c \in worklist \ erased : \A u \in Concurrents \ worklist : c < u /\ ~Encloses(p, c, u)
  /\ pass \in {"concurrent", "pipeline", "done"} =>
       \A c \in Concurrents \ PendingIn("concurrent") :
         \A t \in Children(p, c) \cap Tasks : form[t] \in Lowering
  /\ pass = "pipeline" => worklist \subseteq OfKind(p, "pipeline")

PassInv ==
  /\ pass \in {"tokens", "tasks", "waits", "concurrent", "pipeline", "done", "failed", "undefined"}
  /\ pc # "accepted" => pass = "tokens"
  /\ pass = "tokens" => LoweringInit
  /\ FailsOnlyOnKept

LoweringInv ==
  FormsInv /\ CopiesInv /\ TasksInv /\ TaskOrderInv /\ WaitsInv /\ ConcurrentInv /\ PassInv

RunInv ==
  /\ pass # "done" => begun = {} /\ ended = {} /\ landed = {}
  /\ begun \subseteq Ops(p) /\ ended \subseteq begun /\ landed \subseteq AsyncWrites(p) \cap begun
  /\ \A i \in begun : Kind(p, i) \notin RegionKinds => i \in ended
  /\ \A i \in begun : Ready(i)
  /\ \A i \in ended : Terms(p, i) \subseteq ended
  /\ \A i \in begun : Walked(p, i) => \A x \in in[i] : Done(x) \/ LeavesAgent(x, i)

\* The stage around the copy awaits it.
JoinedInStage(x) ==
  LET s == p[x].parent IN
    /\ s \in OfKind(p, "stage") /\ form[s] = "execute"
    /\ x \in trailing[s] \/ \E w \in Children(p, s) : x \in p[w].toks

\* The loop over the concurrent regions goes from the last: none it has done
\* is in another.
InlinedInv ==
  pass \in {"concurrent", "pipeline", "done"} =>
    /\ \A c \in Concurrents \ PendingIn("concurrent") : form[c] = "inlined"
    /\ \A c, d \in Concurrents \ PendingIn("concurrent") : ~Encloses(p, c, d)

\* A stage is lowered with its pipeline, which is then off the list.
StagesInv ==
  \A s \in OfKind(p, "stage") : form[s] # "source" =>
    /\ pass \notin {"tokens", "tasks", "waits", "concurrent"}
    /\ pass = "pipeline" => p[s].parent \notin worklist

\* A copy of a waited task that has become an execute is awaited around it.
CopiesJoined ==
  pass \in {"tasks", "waits", "concurrent", "pipeline", "done"} =>
    \A x \in AsyncWrites(p) \ TokenCopies :
      form[x] = "execute" => p[x].parent \in Tasks \/ JoinedInStage(x)

JoinInv == InlinedInv /\ StagesInv /\ CopiesJoined

AsyncIInv == OracleInv /\ LoweringInv /\ RunInv

-----------------------------------------------------------------------------
(***************************************************************************)
(* The tree of a program.                                                  *)
(***************************************************************************)
\* A task or a pipeline has one block, with its yield at the end.
LEMMA OneBlock ==
  ASSUME NEW q, Legal(q), NEW i \in Ops(q), Kind(q, i) \in {"task", "pipeline"}
  PROVE  \E y \in Children(q, i) :
           /\ Terms(q, i) = {y} /\ Kind(q, y) = "yield"
           /\ \A c \in Children(q, i) : c # y => c < y /\ q[c].region = q[y].region
                                               /\ Kind(q, c) # "yield"
<1>1. Len(q[i].term) = 1 /\ RegionsOK(q, i)
  BY DEF Legal, RegionsOK
<1>2. Terms(q, i) = {q[i].term[1]}
  BY <1>1 DEF RegionsOK, Terms
<1>. DEFINE y == q[i].term[1]
<1>3. y \in Children(q, i) /\ Kind(q, y) = "yield"
  BY <1>1 DEF RegionsOK
<1>4. ASSUME NEW c \in Children(q, i), c # y
      PROVE  c < y /\ q[c].region = q[y].region /\ Kind(q, c) # "yield"
  <2>1. c < y /\ q[c].region = q[y].region
    BY <1>2, <1>4, YieldIsLast
  <2>2. c \in Ops(q) /\ q[c].parent = i /\ i # 0
    BY ChildInside
  <2>3. Kind(q, c) # "yield"
    BY <1>2, <1>4, <2>2 DEF Legal, PlacedOK
  <2>. QED  BY <2>1, <2>3
<1>. QED  BY <1>2, <1>3, <1>4

\* The walk enters a task at its first operation.
LEMMA FirstChild ==
  ASSUME NEW q, Legal(q), NEW a \in Ops(q), Kind(q, a) = "task",
         NEW x \in Ops(q), Encloses(q, a, x), Kind(q, x) # "yield"
  PROVE  a + 1 \in Children(q, a) /\ Kind(q, a + 1) # "yield"
<1>1. /\ Ops(q) = 1..Len(q) /\ Len(q) \in Nat /\ a \in Nat \ {0} /\ x \in Nat \ {0} /\ a < x
      /\ \A j \in (a + 1)..x : q[j].parent >= a
  BY Placement DEF Encloses
<1>2. \A j \in (a + 1)..x : j \in Ops(q) /\ q[j].parent \in 0..(j - 1)
  <2>1. \A j \in (a + 1)..x : j \in Ops(q)
    BY <1>1
  <2>2. \A j \in Ops(q) : q[j].parent \in 0..(j - 1)
    BY DEF Legal, PlacedOK
  <2>. QED  BY <2>1, <2>2
<1>3. a + 1 \in Children(q, a)
  <2>1. a + 1 \in (a + 1)..x
    BY <1>1
  <2>2. a + 1 \in Ops(q) /\ q[a + 1].parent >= a /\ q[a + 1].parent \in 0..a
    BY <1>1, <1>2, <2>1
  <2>3. q[a + 1].parent = a
    BY <1>1, <2>2
  <2>. QED  BY <2>2, <2>3 DEF Children
<1>4. ASSUME Kind(q, a + 1) = "yield" PROVE FALSE
  <2>1. a + 2 \in (a + 1)..x /\ a + 2 \in Ops(q) /\ q[a + 2].parent \in {a, a + 1}
    <3>1. x # a + 1
      BY <1>4
    <3>. QED  BY <1>1, <1>2, <3>1
  <2>2. q[a + 2].parent # a + 1
    <3>1. Kind(q, a + 1) \notin RegionKinds
      BY <1>4 DEF RegionKinds, Branches
    <3>. QED  BY <1>1, <2>1, <3>1 DEF Legal, PlacedOK
  <2>3. q[a + 2].parent = a
    BY <2>1, <2>2
  <2>4. a + 2 \in Children(q, a)
    BY <2>1, <2>3 DEF Children
  <2>5. PICK y \in Children(q, a) :
          \A c \in Children(q, a) : c # y => c < y /\ Kind(q, c) # "yield"
    BY OneBlock
  <2>6. y = a + 1
    BY <1>3, <1>4, <2>5
  <2>. QED  BY <1>1, <2>4, <2>5, <2>6
<1>. QED  BY <1>3, <1>4

LEMMA ChildKinds ==
  ASSUME NEW q, Legal(q), NEW i \in Ops(q), NEW c \in Children(q, i)
  PROVE  /\ c \in Terms(q, i) <=> Kind(q, c) = "yield"
         /\ Kind(q, c) = "stage" => Kind(q, i) = "pipeline"
<1>1. c \in Ops(q) /\ q[c].parent = i /\ i # 0
  BY ChildInside
<1>. QED  BY <1>1 DEF Legal, PlacedOK, RegionsOK, PipelineOK, Terms

LEMMA AsyncLeaf ==
  ASSUME NEW q, Legal(q), NEW i \in AsyncWrites(q)
  PROVE  /\ i \in Ops(q) /\ Kind(q, i) \notin RegionKinds \cup {"yield", "task", "stage"}
         /\ Children(q, i) = {} /\ Terms(q, i) = {}
<1>1. i \in Ops(q) /\ Kind(q, i) \in {"acopy", "stream"}
  BY DEF AsyncWrites
<1>. QED  BY <1>1, LeavesAreLeaves, Placement DEF LeafKinds, RegionKinds, Branches

-----------------------------------------------------------------------------
(***************************************************************************)
(* What the direct operations of a task are, when nothing in it has been   *)
(* inlined and what has been flattened was the frame of one copy.          *)
(***************************************************************************)
PlainInside(t) ==
  /\ \A y \in Ops(p) : Encloses(p, t, y) => form[y] # "inlined"
  /\ \A c \in Children(p, t) : form[c] = "flattened" => FlatCopy(c)

LEMMA DirectChild ==
  ASSUME Legal(p), NEW t \in Tasks, NEW c \in Children(p, t), Kind(p, c) # "yield",
         form[c] \notin {"inlined", "flattened"}
  PROVE  c \in Direct(t)
<1>1. t \in Ops(p) /\ c \in Ops(p) /\ Encloses(p, t, c) /\ p[c].parent = t /\ c \in Nat /\ t \in Nat
  BY ChildInside DEF Tasks, OfKind
<1>2. \A y \in Ops(p) : ~(Encloses(p, t, y) /\ Encloses(p, y, c))
  <2>. SUFFICES ASSUME NEW y \in Ops(p), Encloses(p, t, y), Encloses(p, y, c) PROVE FALSE
    OBVIOUS
  <2>. QED  BY <1>1, Placement DEF Encloses
<1>. QED  BY <1>1, <1>2 DEF Direct

LEMMA DirectThrough ==
  ASSUME Legal(p), NEW t \in Tasks, NEW c \in Children(p, t), form[c] = "flattened", c \in Tasks,
         NEW z \in Children(p, c), z \in AsyncWrites(p), form[z] = "execute"
  PROVE  z \in Direct(t)
<1>1. t \in Ops(p) /\ c \in Ops(p) /\ Encloses(p, t, c) /\ p[c].parent = t /\ c \in Nat /\ t \in Nat /\ t < c
  BY ChildInside DEF Tasks, OfKind
<1>2. z \in Ops(p) /\ p[z].parent = c /\ z \in Nat /\ c < z
  BY <1>1, ChildInside
<1>3. Encloses(p, t, z) /\ Kind(p, z) # "yield"
  BY <1>1, EnclosesChild, AsyncLeaf
<1>4. ASSUME NEW y \in Ops(p), Encloses(p, t, y), Encloses(p, y, z)
      PROVE  y = c
  <2>1. y \in Nat /\ t < y /\ y <= c
    BY <1>1, <1>2, <1>4, Placement DEF Encloses
  <2>2. CASE y < c
    <3>1. p[c].parent >= y
      BY <1>1, <1>2, <1>4, <2>1, <2>2 DEF Encloses
    <3>. QED  BY <1>1, <2>1, <3>1
  <2>. QED  BY <1>1, <2>1, <2>2
<1>. QED  BY <1>2, <1>3, <1>4 DEF Direct

\* A task whose only direct operation is x holds x, or the task that was the
\* frame of x, and its yield.
LEMMA DirectSingle ==
  ASSUME Legal(p), FormsInv, NEW t \in Tasks, PlainInside(t), NEW x, Direct(t) = {x}
  PROVE  \E v \in Children(p, t) :
           /\ Children(p, t) \ Terms(p, t) = {v}
           /\ v = x \/ (form[v] = "flattened" /\ FlatCopy(v) /\ event[v] = x)
<1>1. t \in Ops(p) /\ Kind(p, t) = "task" /\ x \in Ops(p) /\ Encloses(p, t, x) /\ Kind(p, x) # "yield"
  <2>1. x \in Direct(t)
    OBVIOUS
  <2>. QED  BY <2>1 DEF Tasks, OfKind, Kind, Direct
<1>2. t + 1 \in Children(p, t) /\ Kind(p, t + 1) # "yield"
  BY <1>1, FirstChild
<1>3. ASSUME NEW c \in Children(p, t), Kind(p, c) # "yield"
      PROVE  c = x \/ (form[c] = "flattened" /\ FlatCopy(c) /\ event[c] = x /\ x \in Children(p, c))
  <2>1. c \in Ops(p) /\ Encloses(p, t, c)
    BY <1>1, ChildInside
  <2>2. CASE form[c] # "flattened"
    <3>1. form[c] # "inlined"
      BY <2>1 DEF PlainInside
    <3>. QED  BY <1>3, <2>2, <3>1, DirectChild
  <2>3. CASE form[c] = "flattened"
    <3>1. FlatCopy(c) /\ c \in Tasks
      BY <2>1, <2>3 DEF PlainInside, FormsInv
    <3>2. PICK z \in AsyncWrites(p) :
            Children(p, c) \ Terms(p, c) = {z} /\ form[z] = "execute" /\ event[c] = z
      BY <3>1 DEF FlatCopy
    <3>3. z \in Children(p, c)
      BY <3>2
    <3>4. z \in Direct(t)
      BY <2>3, <3>1, <3>2, <3>3, DirectThrough
    <3>. QED  BY <2>3, <3>1, <3>2, <3>3, <3>4
  <2>. QED  BY <2>2, <2>3
<1>4. ASSUME NEW c \in Children(p, t), NEW d \in Children(p, t),
             Kind(p, c) # "yield", Kind(p, d) # "yield"
      PROVE  c = d
  <2>1. p[c].parent = t /\ p[d].parent = t /\ t < c /\ t < d /\ t \in Nat /\ c \in Nat /\ d \in Nat
        /\ c \in Ops(p) /\ d \in Ops(p)
    BY <1>1, ChildInside
  <2>2. c = x \/ p[x].parent = c
    BY <1>3, <1>4 DEF Children
  <2>3. d = x \/ p[x].parent = d
    BY <1>3, <1>4 DEF Children
  <2>. QED  BY <2>1, <2>2, <2>3
<1>5. \A c \in Children(p, t) : c \in Terms(p, t) <=> Kind(p, c) = "yield"
  BY <1>1, ChildKinds
<1>6. Children(p, t) \ Terms(p, t) = {t + 1}
  BY <1>2, <1>4, <1>5
<1>. QED  BY <1>2, <1>3, <1>6

-----------------------------------------------------------------------------
(***************************************************************************)
(* Every step of the lowering keeps what has been lowered.                 *)
(***************************************************************************)
Keeps ==
  /\ UNCHANGED p
  /\ \A i \in Ops(p) :
       form[i] \in Lowering =>
         form'[i] = form[i] /\ event'[i] = event[i] /\ (i \in Tasks => trailing'[i] = trailing[i])

LEMMA SameProgram ==
  ASSUME UNCHANGED p
  PROVE  /\ Tasks' = Tasks /\ Waits' = Waits /\ Concurrents' = Concurrents
         /\ EventTasks' = EventTasks /\ TokenCopies' = TokenCopies
         /\ Legal(p)' = Legal(p)
<1>1. Tasks' = Tasks /\ Waits' = Waits /\ Concurrents' = Concurrents
  BY DEF Tasks, Waits, Concurrents
<1>2. EventTasks' = EventTasks
  BY DEF EventTasks, Valueless, Waited
<1>3. TokenCopies' = TokenCopies
  BY <1>2 DEF TokenCopies, InsideEventTask
<1>. QED  BY <1>1, <1>2, <1>3

LEMMA ShapesPersist ==
  ASSUME Legal(p), Keeps, NEW t \in Tasks
  PROVE  /\ FlatCopy(t) => FlatCopy(t)'
         /\ ExecTask(t) => ExecTask(t)'
         /\ form[t] = "flattened" /\ FlatShape(t) => FlatShape(t)'
<1>1. t \in Ops(p) /\ Tasks' = Tasks /\ p' = p /\ AsyncWrites(p) \subseteq Ops(p)
      /\ Children(p, t) \subseteq Ops(p) /\ Tasks \subseteq Ops(p)
  BY SameProgram, Placement, AsyncLeaf DEF Keeps, Tasks, OfKind
<1>2. \A i \in Ops(p) : form[i] = "execute" => form'[i] = "execute" /\ event'[i] = event[i]
  BY DEF Keeps, Lowering
<1>3. ASSUME FlatCopy(t) PROVE FlatCopy(t)'
  <2>1. PICK x \in AsyncWrites(p) :
          Children(p, t) \ Terms(p, t) = {x} /\ form[x] = "execute" /\ event[t] = x
    BY <1>3 DEF FlatCopy
  <2>2. form'[t] = "flattened" /\ event'[t] = event[t]
    BY <1>1, <1>3 DEF FlatCopy, Keeps, Lowering
  <2>. QED  BY <1>1, <1>2, <2>1, <2>2 DEF FlatCopy
<1>4. ASSUME ExecTask(t) PROVE ExecTask(t)'
  <2>1. form'[t] = "execute" /\ trailing'[t] = trailing[t]
    BY <1>1, <1>4 DEF ExecTask, Keeps, Lowering
  <2>. QED  BY <1>1, <1>2, <1>4, <2>1 DEF ExecTask
<1>5. ASSUME form[t] = "flattened", FlatShape(t) PROVE FlatShape(t)'
  <2>1. PICK v \in Children(p, t) :
          /\ Children(p, t) \ Terms(p, t) = {v}
          /\ event[t] = event[v]
          /\ \/ v \in AsyncWrites(p) /\ form[v] = "execute"
             \/ v \in Tasks /\ form[v] \in Lowering
    BY <1>5 DEF FlatShape
  <2>2. form[v] \in Lowering /\ v \in Ops(p)
    BY <1>1, <2>1 DEF Lowering
  <2>3. form'[v] = form[v] /\ event'[v] = event[v] /\ event'[t] = event[t]
    BY <1>1, <1>5, <2>2 DEF Keeps, Lowering
  <2>. QED  BY <1>1, <2>1, <2>3 DEF FlatShape
<1>. QED  BY <1>3, <1>4, <1>5

\* The effect of AsExecute besides the shape of the task.
Executed(t) ==
  /\ form'[t] \in Lowering
  /\ \A i \in Ops(p) : i # t =>
       /\ form'[i] = form[i] \/ (form'[i] = "execute" /\ i \in AsyncWrites(p)
                                 /\ form[i] \in {"source", "execute"})
       /\ event'[i] = event[i] /\ trailing'[i] = trailing[i]

Trailed(t) ==
  \A x \in Producers(t) \cup Executes(t) :
    form'[x] = "execute" /\ (event[x] \in trailing'[t] \/ event[x] \in AwaitedIn(t))

LEMMA ExecuteEffect ==
  ASSUME Legal(p), UNCHANGED p, FormsInv, NEW t \in Tasks, form[t] = "source", PlainInside(t),
         AsExecute(t)
  PROVE  /\ FormsInv' /\ Keeps /\ Executed(t)
         /\ form'[t] = "flattened" => FlatShape(t)'
         /\ form'[t] = "execute" => Trailed(t)
<1>0. /\ t \in Ops(p) /\ Kind(p, t) = "task" /\ t \notin AsyncWrites(p) /\ Tasks' = Tasks
      /\ Waits' = Waits /\ p' = p
      /\ Tasks \subseteq Ops(p) /\ AsyncWrites(p) \subseteq Ops(p)
  BY SameProgram, AsyncLeaf DEF Tasks, OfKind, Kind
<1>1. /\ DOMAIN form = Ops(p) /\ DOMAIN event = Ops(p) /\ DOMAIN trailing = Ops(p)
      /\ \A x \in Producers(t) \cup Executes(t) :
           /\ x \in Direct(t) /\ x \in Ops(p) /\ x # t
           /\ x \in Producers(t) => x \in AsyncWrites(p) /\ form[x] = "source"
           /\ x \in Executes(t) => form[x] = "execute"
  <2>1. DOMAIN form = Ops(p) /\ DOMAIN event = Ops(p) /\ DOMAIN trailing = Ops(p)
    BY DEF FormsInv
  <2>2. \A x \in Direct(t) : x \in Ops(p) /\ Encloses(p, t, x)
    BY DEF Direct
  <2>3. ~Encloses(p, t, t)
    BY <1>0, Placement DEF Encloses
  <2>. QED  BY <2>1, <2>2, <2>3 DEF Producers, Executes
<1>2. CASE Flattens(t)
  <2>1. PICK x \in Producers(t) \cup Executes(t) :
          /\ form' = [form EXCEPT ![t] = "flattened", ![x] = "execute"]
          /\ event' = [event EXCEPT ![t] = event[x]]
          /\ trailing' = trailing
    BY <1>2 DEF AsExecute
  <2>2. Direct(t) = {x}
    BY <1>1, <1>2, <2>1 DEF Flattens
  <2>3. /\ form'[t] = "flattened" /\ form'[x] = "execute"
        /\ \A i \in Ops(p) : i # t /\ i # x => form'[i] = form[i]
        /\ event'[t] = event[x] /\ event[x] = x
        /\ \A i \in Ops(p) : i # t => event'[i] = event[i]
    BY <1>0, <1>1, <2>1 DEF FormsInv
  <2>4. x \in Ops(p) /\ x # t /\ (form[x] = "execute" \/ (form[x] = "source" /\ x \in AsyncWrites(p)))
    BY <1>1
  <2>5. Executed(t)
    BY <2>1, <2>3, <2>4 DEF Executed, Lowering
  <2>6. Keeps
    BY <1>0, <2>3, <2>4, <2>1 DEF Keeps, Lowering
  <2>7. FormsInv'
    <3>1. form' \in [Ops(p) -> {"source", "execute", "flattened", "inlined", "await"}]
      BY <1>0, <2>1, <2>4 DEF FormsInv
    <3>2. event' \in [Ops(p) -> Ops(p)] /\ trailing' \in [Ops(p) -> SUBSET Ops(p)]
      BY <1>0, <2>1, <2>3, <2>4 DEF FormsInv
    <3>. QED  BY <1>0, <2>3, <2>4, <3>1, <3>2 DEF FormsInv
  <2>8. FlatShape(t)'
    <3>1. PICK v \in Children(p, t) :
            /\ Children(p, t) \ Terms(p, t) = {v}
            /\ v = x \/ (form[v] = "flattened" /\ FlatCopy(v) /\ event[v] = x)
      BY <2>2, DirectSingle
    <3>2. v \in Ops(p) /\ v # t /\ Kind(p, v) # "stage"
      BY <1>0, ChildInside, ChildKinds
    <3>3. event'[t] = event'[v]
      BY <2>3, <2>4, <3>1, <3>2
    <3>4. CASE v = x
      <4>1. form'[v] = "execute" /\ (v \in AsyncWrites(p) \/ v \in Tasks)
        BY <2>3, <2>4, <3>2, <3>4 DEF FormsInv
      <4>. QED  BY <3>1, <3>3, <4>1 DEF FlatShape, Lowering, Tasks
    <3>5. CASE form[v] = "flattened"
      <4>1. v \in Tasks /\ form'[v] = "flattened"
        BY <2>3, <2>4, <3>2, <3>5 DEF FormsInv
      <4>. QED  BY <1>0, <3>1, <3>3, <4>1 DEF FlatShape, Lowering
    <3>. QED  BY <3>1, <3>4, <3>5
  <2>. QED  BY <2>3, <2>5, <2>6, <2>7, <2>8
<1>3. CASE ~Flattens(t)
  <2>1. /\ form' = [x \in Ops(p) |-> IF x = t \/ x \in Producers(t) THEN "execute" ELSE form[x]]
        /\ trailing' = [trailing EXCEPT ![t] = {event[x] : x \in Producers(t) \cup Executes(t)}
                                                 \ AwaitedIn(t)]
        /\ event' = event
    BY <1>3 DEF AsExecute
  <2>2. /\ form'[t] = "execute"
        /\ \A i \in Ops(p) : i \in Producers(t) => form'[i] = "execute"
        /\ \A i \in Ops(p) : i # t /\ i \notin Producers(t) => form'[i] = form[i]
        /\ \A i \in Ops(p) : i # t => trailing'[i] = trailing[i]
    BY <1>0, <1>1, <2>1
  <2>3. Executed(t)
    BY <1>1, <2>1, <2>2 DEF Executed, Lowering
  <2>4. Keeps
    BY <1>0, <1>1, <2>1, <2>2 DEF Keeps, Lowering
  <2>5. FormsInv'
    <3>1. form' \in [Ops(p) -> {"source", "execute", "flattened", "inlined", "await"}]
      BY <1>0, <2>1 DEF FormsInv
    <3>2. event' \in [Ops(p) -> Ops(p)]
      BY <2>1 DEF FormsInv
    <3>3. trailing' \in [Ops(p) -> SUBSET Ops(p)]
      <4>1. {event[x] : x \in Producers(t) \cup Executes(t)} \ AwaitedIn(t) \in SUBSET Ops(p)
        BY <1>1 DEF FormsInv
      <4>. QED  BY <1>0, <2>1, <4>1 DEF FormsInv
    <3>. QED  BY <1>0, <1>1, <2>1, <2>2, <3>1, <3>2, <3>3 DEF FormsInv
  <2>6. Trailed(t)
    <3>1. trailing'[t] = {event[x] : x \in Producers(t) \cup Executes(t)} \ AwaitedIn(t)
      BY <1>0, <1>1, <2>1
    <3>. QED  BY <1>1, <2>2, <3>1 DEF Trailed
  <2>. QED  BY <2>2, <2>3, <2>4, <2>5, <2>6
<1>. QED  BY <1>2, <1>3

-----------------------------------------------------------------------------
(***************************************************************************)
(* The waited tasks.                                                       *)
(***************************************************************************)
LEMMA DirectIsChild ==
  ASSUME Legal(p), NEW t \in Tasks, NEW x \in Direct(t),
         \A y \in Ops(p) : Encloses(p, t, y) => form[y] \notin {"inlined", "flattened"}
  PROVE  x \in Children(p, t)
<1>1. /\ x \in Ops(p) /\ t \in Ops(p) /\ Encloses(p, t, x)
      /\ \A y \in Ops(p) : Encloses(p, t, y) /\ Encloses(p, y, x)
                              => form[y] \in {"inlined", "flattened"}
  BY DEF Direct, Tasks, OfKind
<1>2. /\ x \in Children(p, p[x].parent) /\ p[x].parent \in Ops(p) /\ Encloses(p, p[x].parent, x)
      /\ p[x].parent = t \/ Encloses(p, t, p[x].parent)
  BY <1>1, ParentHeld
<1>. QED  BY <1>1, <1>2

LEMMA TaskIsPlain ==
  ASSUME LoweringInv, pass = "tasks", NEW t \in worklist \ erased
  PROVE  \A y \in Ops(p) : Encloses(p, t, y) => form[y] \notin {"inlined", "flattened"}
                                                  /\ (y \in Tasks => form[y] = "source")
<1>1. /\ \A i \in Ops(p) : form[i] \notin {"inlined", "await"}
      /\ \A u \in Tasks : form[u] # "source" => u \in EventTasks \ worklist
      /\ \A u \in EventTasks \ worklist : ~Encloses(p, t, u)
      /\ \A i \in Ops(p) : form[i] = "flattened" => i \in Tasks
  BY DEF LoweringInv, TaskOrderInv, FormsInv
<1>. QED  BY <1>1

\* Lowering a waited task gives it one of the two shapes.
LEMMA TaskLowered ==
  ASSUME Legal(p), LoweringInv, NEW t, LowerTask(t), UNCHANGED <<p, pc>>
  PROVE  /\ t \in EventTasks /\ t \in Tasks /\ t \in worklist /\ t \notin erased /\ form[t] = "source"
         /\ FormsInv' /\ Keeps /\ Executed(t)
         /\ FlatCopy(t)' \/ ExecTask(t)'
         /\ form'[t] = "flattened" => FlatShape(t)'
<1>1. /\ pass = "tasks" /\ t \in LastOf(worklist) \ erased /\ AsExecute(t)
      /\ worklist' = worklist \ {t} /\ pass' = pass
  BY DEF LowerTask, Rewritten
<1>2. t \in worklist \ erased
  BY <1>1 DEF LastOf
<1>3. /\ FormsInv /\ worklist \subseteq EventTasks /\ EventTasks \subseteq Tasks
      /\ \A u \in Tasks : form[u] # "source" => u \in EventTasks \ worklist
      /\ \A u \in EventTasks \ worklist : FlatCopy(u) \/ ExecTask(u)
      /\ \A i \in Ops(p) : form[i] \notin {"inlined", "await"}
  BY <1>1 DEF LoweringInv, TaskOrderInv, TasksInv, PendingIn, EventTasks, Tasks
<1>4. \A y \in Ops(p) : Encloses(p, t, y) => form[y] \notin {"inlined", "flattened"}
                                                  /\ (y \in Tasks => form[y] = "source")
  BY <1>1, <1>2, TaskIsPlain
<1>5. t \in Ops(p) /\ t \in Tasks /\ form[t] = "source" /\ Children(p, t) \subseteq Ops(p)
      /\ \A c \in Children(p, t) : Encloses(p, t, c)
  <2>1. t \in Tasks /\ t \in Ops(p)
    BY <1>2, <1>3 DEF Tasks, OfKind
  <2>. QED  BY <1>2, <1>3, <2>1, ChildInside
<1>6. PlainInside(t)
  BY <1>4, <1>5 DEF PlainInside
<1>7. /\ FormsInv' /\ Keeps /\ Executed(t)
      /\ form'[t] = "flattened" => FlatShape(t)'
      /\ form'[t] = "execute" => Trailed(t)
  BY <1>1, <1>3, <1>5, <1>6, ExecuteEffect
<1>8. CASE form'[t] = "flattened"
  <2>1. PICK v \in Children(p, t) :
          /\ Children(p, t) \ Terms(p, t) = {v}
          /\ event'[t] = event'[v]
          /\ \/ v \in AsyncWrites(p) /\ form'[v] = "execute"
             \/ v \in Tasks /\ form'[v] \in Lowering
    BY <1>7, <1>8, SameProgram DEF FlatShape, Lowering
  <2>2. v \in Ops(p) /\ v # t /\ (v \in Tasks => v \notin AsyncWrites(p))
    BY <1>5, ChildInside, AsyncLeaf DEF Tasks, OfKind, Kind
  <2>3. ASSUME v \in Tasks PROVE form'[v] = form[v] /\ form[v] = "source"
    BY <1>4, <1>5, <1>7, <2>2, <2>3 DEF Executed
  <2>4. v \in AsyncWrites(p) /\ form'[v] = "execute"
    BY <2>1, <2>3 DEF Lowering
  <2>5. event'[v] = v
    BY <1>7, <2>2, <2>4 DEF FormsInv
  <2>6. FlatCopy(t)'
    BY <1>8, <2>1, <2>4, <2>5 DEF FlatCopy
  <2>. QED  BY <1>2, <1>3, <1>5, <1>7, <2>6
<1>9. CASE form'[t] = "execute"
  <2>1. ASSUME NEW c \in Children(p, t), c \in AsyncWrites(p)
        PROVE  /\ form'[c] = "execute"
               /\ c \in trailing'[t] \/ \E w \in Children(p, t) : c \in p[w].toks
    <3>1. c \in Ops(p) /\ Encloses(p, t, c) /\ Kind(p, c) # "yield" /\ p[c].parent = t
      BY <1>5, <2>1, AsyncLeaf, ChildInside
    <3>2. c \in Direct(t)
      BY <1>4, <1>5, <3>1, DirectChild
    <3>3. form[c] \in {"source", "execute"}
      BY <1>3, <1>4, <3>1 DEF FormsInv
    <3>4. c \in Producers(t) \cup Executes(t) /\ event[c] = c
      BY <1>3, <2>1, <3>1, <3>2, <3>3 DEF Producers, Executes, FormsInv
    <3>5. form'[c] = "execute" /\ (c \in trailing'[t] \/ c \in AwaitedIn(t))
      BY <1>7, <1>9, <3>4 DEF Trailed
    <3>6. ASSUME c \in AwaitedIn(t) PROVE \E w \in Children(p, t) : c \in p[w].toks
      <4>1. PICK w \in Direct(t) : \E u \in p[w].toks : event[u] = c
        BY <3>6 DEF AwaitedIn
      <4>2. w \in Children(p, t)
        BY <1>4, <1>5, DirectIsChild
      <4>3. PICK u \in p[w].toks : event[u] = c
        BY <4>1
      <4>4. u \in Ops(p)
        <5>1. w \in Ops(p) /\ w \in Nat
          BY <1>5, <4>2, ChildInside
        <5>. QED  BY <5>1, <4>3, Placement DEF Legal, TokensOK
      <4>5. CASE form[u] = "flattened"
        <5>1. u \in Tasks
          BY <1>3, <4>4, <4>5 DEF FormsInv
        <5>2. FlatCopy(u)
          BY <1>3, <4>5, <5>1 DEF ExecTask
        <5>3. c \in Children(p, u)
          BY <4>3, <5>2 DEF FlatCopy
        <5>4. u = t
          BY <3>1, <5>3 DEF Children
        <5>. QED  BY <1>5, <4>5, <5>4
      <4>6. CASE form[u] # "flattened"
        BY <1>3, <4>2, <4>3, <4>4, <4>6 DEF FormsInv
      <4>. QED  BY <4>5, <4>6
    <3>. QED  BY <3>5, <3>6
  <2>2. ExecTask(t)'
    BY <1>9, <2>1, SameProgram DEF ExecTask
  <2>. QED  BY <1>2, <1>3, <1>5, <1>7, <1>9, <2>2
<1>. QED  BY <1>7, <1>8, <1>9 DEF Executed, Lowering

LEMMA LowerTaskPreserves ==
  ASSUME Legal(p), LoweringInv, NEW t, LowerTask(t), UNCHANGED <<p, pc>>
  PROVE  LoweringInv'
<1>1. /\ pass = "tasks" /\ t \in LastOf(worklist) \ erased
      /\ worklist' = worklist \ {t} /\ erased' = erased \cup {j \in worklist : Encloses(p, t, j)}
      /\ pass' = "tasks"
  BY DEF LowerTask, Rewritten
<1>2. /\ t \in EventTasks /\ t \in Tasks /\ t \in worklist /\ t \notin erased /\ form[t] = "source"
      /\ FormsInv' /\ Keeps /\ Executed(t)
      /\ FlatCopy(t)' \/ ExecTask(t)'
      /\ form'[t] = "flattened" => FlatShape(t)'
  BY TaskLowered
<1>3. /\ p' = p /\ pc' = pc /\ Tasks' = Tasks /\ EventTasks' = EventTasks /\ TokenCopies' = TokenCopies
      /\ EventTasks \subseteq Tasks /\ Tasks \subseteq Ops(p) /\ Tasks \cap AsyncWrites(p) = {}
      /\ t \in Ops(p) /\ worklist \subseteq EventTasks
  <2>1. EventTasks \subseteq Tasks /\ Tasks \subseteq Ops(p)
    BY DEF EventTasks, Tasks, OfKind
  <2>2. Tasks \cap AsyncWrites(p) = {}
    BY DEF Tasks, OfKind, AsyncWrites, Kind
  <2>. QED  BY <1>1, <1>2, <2>1, <2>2, SameProgram DEF LoweringInv, TaskOrderInv
<1>4. /\ \A i \in TokenCopies : form[i] = "execute"
      /\ \A u \in EventTasks \ worklist : FlatCopy(u) \/ ExecTask(u)
      /\ \A u, v \in EventTasks \ worklist : ~Encloses(p, u, v)
      /\ \A u \in Tasks : form[u] = "flattened" => FlatShape(u)
      /\ \A i \in Ops(p) : form[i] \notin {"inlined", "await"}
      /\ \A u \in Tasks : form[u] # "source" => u \in EventTasks \ worklist
      /\ \A u \in worklist \ erased : \A v \in EventTasks \ worklist : u < v /\ ~Encloses(p, u, v)
  BY <1>1 DEF LoweringInv, CopiesInv, TasksInv, TaskOrderInv, PendingIn
<1>5. \A u \in Tasks : u # t => form'[u] = form[u]
  BY <1>2, <1>3 DEF Executed
<1>6. CopiesInv'
  <2>1. \A i \in TokenCopies : i \in Ops(p) /\ i # t
    <3>1. TokenCopies \subseteq AsyncWrites(p)
      BY DEF TokenCopies
    <3>. QED  BY <1>2, <1>3, <3>1 DEF AsyncWrites
  <2>. QED  BY <1>2, <1>3, <1>4, <2>1 DEF CopiesInv, Keeps, Lowering
<1>7. \A u \in worklist' \ erased' : u \in worklist \ erased /\ u < t /\ ~Encloses(p, u, t)
  <2>. SUFFICES ASSUME NEW u \in worklist' \ erased'
                PROVE  u \in worklist \ erased /\ u < t /\ ~Encloses(p, u, t)
    OBVIOUS
  <2>1. u \in worklist \ erased /\ u # t /\ ~Encloses(p, t, u)
    BY <1>1
  <2>2. u \in Nat /\ t \in Nat
    BY <1>2, <1>3, <2>1, Placement
  <2>3. ~(t < u)
    BY <1>1, <2>1 DEF LastOf
  <2>4. u < t => ~Encloses(p, u, t)
    BY <1>1, <2>1 DEF LastOf
  <2>. QED  BY <2>1, <2>2, <2>3, <2>4
<1>8. \A u \in EventTasks \ worklist' : u \in EventTasks \ worklist \/ u = t
  BY <1>1
<1>9. TaskOrderInv'
  <2>1. \A i \in Ops(p) : form'[i] \notin {"inlined", "await"}
    BY <1>2, <1>4 DEF Executed, Lowering
  <2>2. \A u \in Tasks : form'[u] # "source" => u \in EventTasks \ worklist'
    BY <1>1, <1>2, <1>4, <1>5
  <2>3. \A u \in worklist' \ erased' : \A v \in EventTasks \ worklist' : u < v /\ ~Encloses(p, u, v)
    BY <1>4, <1>7, <1>8
  <2>. QED  BY <1>1, <1>3, <2>1, <2>2, <2>3 DEF TaskOrderInv
<1>10. TasksInv'
  <2>1. \A u \in EventTasks \ worklist' : FlatCopy(u)' \/ ExecTask(u)'
    BY <1>2, <1>3, <1>4, <1>8, ShapesPersist
  <2>2. \A u \in Tasks : form'[u] # "source" => u \in EventTasks \ worklist'
    BY <1>1, <1>2, <1>4, <1>5
  <2>3. \A u, v \in EventTasks \ worklist' : ~Encloses(p, u, v)
    <3>. SUFFICES ASSUME NEW u \in EventTasks \ worklist', NEW v \in EventTasks \ worklist'
                  PROVE  ~Encloses(p, u, v)
      OBVIOUS
    <3>1. \A w \in EventTasks \ worklist : t < w /\ ~Encloses(p, t, w) /\ ~Encloses(p, w, t)
      <4>. SUFFICES ASSUME NEW w \in EventTasks \ worklist
                    PROVE  t < w /\ ~Encloses(p, t, w) /\ ~Encloses(p, w, t)
        OBVIOUS
      <4>1. t < w /\ ~Encloses(p, t, w) /\ t \in Nat /\ w \in Nat
        BY <1>2, <1>3, <1>4, Placement
      <4>. QED  BY <4>1 DEF Encloses
    <3>2. ~Encloses(p, t, t)
      BY <1>3, Placement DEF Encloses
    <3>. QED  BY <1>4, <1>8, <3>1, <3>2
  <2>4. \A u \in Tasks : form'[u] = "flattened" => FlatShape(u)'
    <3>. SUFFICES ASSUME NEW u \in Tasks, form'[u] = "flattened" PROVE FlatShape(u)'
      OBVIOUS
    <3>. QED  BY <1>2, <1>4, <1>5, ShapesPersist
  <2>. QED  BY <1>1, <1>3, <2>1, <2>2, <2>3, <2>4 DEF TasksInv, PendingIn
<1>11. WaitsInv' /\ ConcurrentInv'
  BY <1>1 DEF WaitsInv, ConcurrentInv
<1>12. PassInv'
  BY <1>1, <1>3 DEF LoweringInv, PassInv, FailsOnlyOnKept
<1>. QED  BY <1>2, <1>6, <1>9, <1>10, <1>11, <1>12 DEF LoweringInv

LEMMA KindsDiffer ==
  /\ EventTasks \subseteq Tasks /\ Tasks \subseteq Ops(p)
  /\ TokenCopies \subseteq AsyncWrites(p) /\ AsyncWrites(p) \subseteq Ops(p)
  /\ Concurrents \subseteq Ops(p) /\ Waits \subseteq Ops(p)
  /\ Tasks \cap AsyncWrites(p) = {} /\ Tasks \cap Concurrents = {} /\ Tasks \cap Waits = {}
  /\ \A i \in Tasks : Kind(p, i) = "task"
  /\ \A i \in Concurrents : Kind(p, i) = "concurrent"
  /\ \A i \in Waits : Kind(p, i) \in {"wait", "barrier"}
<1>1. EventTasks \subseteq Tasks /\ TokenCopies \subseteq AsyncWrites(p)
  BY DEF EventTasks, TokenCopies, Tasks
<1>2. /\ Tasks \subseteq Ops(p) /\ Concurrents \subseteq Ops(p) /\ Waits \subseteq Ops(p)
      /\ \A i \in Tasks : Kind(p, i) = "task"
      /\ \A i \in Concurrents : Kind(p, i) = "concurrent"
      /\ \A i \in Waits : Kind(p, i) \in {"wait", "barrier"}
  BY DEF Tasks, Concurrents, Waits, OfKind, Kind
<1>3. AsyncWrites(p) \subseteq Ops(p) /\ \A i \in AsyncWrites(p) : Kind(p, i) \in {"acopy", "stream"}
  BY DEF AsyncWrites
<1>. QED  BY <1>1, <1>2, <1>3

-----------------------------------------------------------------------------
(***************************************************************************)
(* The other steps of the lowering.                                        *)
(***************************************************************************)
LEMMA LowerCopiesPreserves ==
  ASSUME Legal(p), LoweringInv, LowerCopies, UNCHANGED <<p, pc>>, pc = "accepted"
  PROVE  LoweringInv'
<1>1. /\ pass = "tokens" /\ pass' = "tasks" /\ worklist' = EventTasks
      /\ form' = [i \in Ops(p) |-> IF i \in TokenCopies THEN "execute" ELSE form[i]]
      /\ erased' = erased /\ event' = event /\ trailing' = trailing
      /\ p' = p /\ pc' = pc /\ Tasks' = Tasks /\ EventTasks' = EventTasks /\ TokenCopies' = TokenCopies
  BY SameProgram DEF LowerCopies
<1>2. \A i \in Ops(p) : form[i] = "source" /\ event[i] = i /\ trailing[i] = {}
  BY <1>1 DEF LoweringInv, PassInv, LoweringInit
<1>3. \A i \in Ops(p) : form'[i] = IF i \in TokenCopies THEN "execute" ELSE "source"
  BY <1>1, <1>2
<1>4. FormsInv'
  <2>1. /\ event \in [Ops(p) -> Ops(p)] /\ trailing \in [Ops(p) -> SUBSET Ops(p)]
    BY DEF LoweringInv, FormsInv
  <2>2. form' \in [Ops(p) -> {"source", "execute", "flattened", "inlined", "await"}]
    BY <1>1, <1>2
  <2>. QED  BY <1>1, <1>2, <1>3, <2>1, <2>2, KindsDiffer DEF FormsInv
<1>5. CopiesInv'
  BY <1>1, <1>3, KindsDiffer DEF CopiesInv
<1>6. \A t \in Tasks : form'[t] = "source"
  BY <1>3, KindsDiffer
<1>7. TasksInv'
  BY <1>1, <1>6 DEF TasksInv, PendingIn
<1>8. TaskOrderInv'
  BY <1>1, <1>3, <1>6 DEF TaskOrderInv
<1>9. WaitsInv' /\ ConcurrentInv'
  BY <1>1 DEF WaitsInv, ConcurrentInv
<1>10. PassInv'
  BY <1>1 DEF PassInv, FailsOnlyOnKept
<1>. QED  BY <1>4, <1>5, <1>7, <1>8, <1>9, <1>10 DEF LoweringInv

\* What the token pass finds in the way of a wait.
LEMMA NotConverted ==
  ASSUME Legal(p), LoweringInv, pass = "waits", NEW w \in Waits, NEW t \in p[w].toks, ~Converted(t)
  PROVE  \/ t \in OfKind(p, "task") /\ ~Valueless(t)
         \/ t \in AsyncWrites(p) /\ InsideEventTask(t) /\ ~IsParentTask(p, p[t].parent, t)
<1>1. w \in Ops(p) /\ Kind(p, w) \in {"wait", "barrier"} /\ w \in Nat
  BY KindsDiffer, Placement
<1>2. t \in Ops(p) /\ Kind(p, t) \in {"acopy", "stream", "task"}
  BY <1>1, Placement DEF Legal, TokensOK
<1>3. /\ \A i \in TokenCopies : form[i] = "execute"
      /\ \A u \in EventTasks : FlatCopy(u) \/ ExecTask(u)
  BY DEF LoweringInv, CopiesInv, TasksInv, PendingIn
<1>4. CASE Kind(p, t) = "task"
  <2>1. t \in OfKind(p, "task") /\ Waited(t)
    BY <1>1, <1>2, <1>4 DEF OfKind, Kind, Waited, Consumers
  <2>2. t \notin EventTasks
    BY <1>3 DEF FlatCopy, ExecTask, Converted
  <2>. QED  BY <2>1, <2>2 DEF EventTasks
<1>5. CASE Kind(p, t) # "task"
  <2>1. t \in AsyncWrites(p)
    BY <1>2, <1>5 DEF AsyncWrites
  <2>2. InsideEventTask(t)
    BY <1>3, <2>1 DEF TokenCopies, Converted
  <2>3. PICK e \in EventTasks : IsParentTask(p, e, t)
    BY <2>2 DEF InsideEventTask
  <2>4. ASSUME IsParentTask(p, p[t].parent, t) PROVE FALSE
    <3>1. p[t].parent \in TasksAround(p, t) /\ e \in TasksAround(p, t)
          /\ e <= p[t].parent /\ p[t].parent <= e
      BY <2>3, <2>4 DEF IsParentTask
    <3>2. e = p[t].parent
      BY <3>1, Placement DEF TasksAround, OfKind
    <3>3. t \in Children(p, e)
      BY <1>2, <3>2 DEF Children
    <3>. QED  BY <1>3, <2>1, <2>3, <3>3, AsyncLeaf, ChildKinds, KindsDiffer
                DEF FlatCopy, ExecTask, Converted
  <2>. QED  BY <2>1, <2>2, <2>4
<1>. QED  BY <1>4, <1>5

LEMMA LowerWaitPreserves ==
  ASSUME Legal(p), LoweringInv, LowerWait, UNCHANGED <<p, pc>>
  PROVE  LoweringInv'
<1>1. /\ pass = "waits" /\ erased' = erased /\ event' = event /\ trailing' = trailing
      /\ p' = p /\ pc' = pc /\ Tasks' = Tasks /\ Waits' = Waits /\ Concurrents' = Concurrents
      /\ EventTasks' = EventTasks /\ TokenCopies' = TokenCopies
  BY SameProgram DEF LowerWait
<1>2. PICK w \in LastOf(worklist) :
        /\ \/ /\ \A t \in p[w].toks : Converted(t)
              /\ form' = [form EXCEPT ![w] = "await"] /\ pass' = pass
           \/ /\ ~ \A t \in p[w].toks : Converted(t)
              /\ pass' = "failed" /\ form' = form
        /\ worklist' = worklist \ {w}
  BY DEF LowerWait
<1>3. w \in worklist /\ worklist \subseteq Waits /\ w \in Waits /\ w \in Ops(p)
  BY <1>1, <1>2, KindsDiffer DEF LastOf, LoweringInv, WaitsInv
<1>4. /\ FormsInv
      /\ \A i \in TokenCopies : form[i] = "execute"
      /\ \A u \in EventTasks : FlatCopy(u) \/ ExecTask(u)
      /\ \A u, v \in EventTasks : ~Encloses(p, u, v)
      /\ \A u \in Tasks : form[u] = "flattened" => FlatShape(u)
      /\ \A t \in Tasks : form[t] # "source" => t \in EventTasks
      /\ \A i \in Ops(p) : form[i] # "inlined"
      /\ \A u \in Waits \ worklist : WaitDone(u)
  BY <1>1 DEF LoweringInv, CopiesInv, TasksInv, WaitsInv, PendingIn
<1>5. \A i \in Ops(p) : i # w => form'[i] = form[i]
  BY <1>2, <1>4 DEF FormsInv
<1>6. /\ pass' = "waits" \/ pass' = "failed"
      /\ form'[w] = form[w] \/ form'[w] = "await"
  BY <1>1, <1>2, <1>3, <1>4 DEF FormsInv
<1>7. form[w] \notin Lowering
  BY <1>3, <1>4, KindsDiffer DEF FormsInv, Lowering, AsyncWrites
<1>8. Keeps
  BY <1>1, <1>5, <1>7 DEF Keeps
<1>9. FormsInv'
  <2>1. form' \in [Ops(p) -> {"source", "execute", "flattened", "inlined", "await"}]
    BY <1>2, <1>3, <1>4 DEF FormsInv
  <2>2. form'[w] = "await" => event'[w] = w
    BY <1>1, <1>3, <1>4, <1>7 DEF FormsInv, Lowering
  <2>. QED  BY <1>1, <1>3, <1>4, <1>5, <1>6, <2>1, <2>2 DEF FormsInv
<1>10. CopiesInv'
  BY <1>1, <1>4, <1>8, KindsDiffer DEF CopiesInv, Keeps, Lowering
<1>11. \A t \in Tasks : form'[t] = form[t]
  BY <1>3, <1>5, KindsDiffer
<1>12. TasksInv'
  <2>1. \A u \in EventTasks : FlatCopy(u)' \/ ExecTask(u)'
    BY <1>4, <1>8, ShapesPersist, KindsDiffer
  <2>2. \A u \in Tasks : form'[u] = "flattened" => FlatShape(u)'
    BY <1>4, <1>8, <1>11, ShapesPersist
  <2>. QED  BY <1>1, <1>4, <1>6, <1>11, <2>1, <2>2 DEF TasksInv, PendingIn
<1>13. TaskOrderInv' /\ ConcurrentInv'
  BY <1>6 DEF TaskOrderInv, ConcurrentInv
<1>14. WaitsInv'
  <2>1. ASSUME pass' = "waits"
        PROVE  /\ worklist' \subseteq Waits
               /\ \A t \in Tasks : form'[t] # "source" => t \in EventTasks
               /\ \A i \in Ops(p) : form'[i] # "inlined"
               /\ \A u \in Waits \ worklist' : WaitDone(u)'
    <3>1. \A t \in p[w].toks : Converted(t)
      BY <1>2, <2>1
    <3>2. form'[w] = "await"
      BY <1>1, <1>2, <1>3, <1>4, <2>1 DEF FormsInv
    <3>3. ASSUME NEW u \in Waits \ worklist' PROVE WaitDone(u)'
      <4>1. u \in Ops(p) /\ \A t \in p[u].toks : t \in Ops(p)
        BY KindsDiffer, Placement DEF Legal, TokensOK
      <4>2. \A t \in p[u].toks : Converted(t) /\ (t \in Tasks => t \in EventTasks)
        BY <1>2, <1>4, <3>1, <3>3 DEF WaitDone, Converted
      <4>3. \A t \in p[u].toks : Converted(t)'
        BY <1>8, <4>1, <4>2 DEF Converted, Keeps, Lowering
      <4>4. form'[u] = "await"
        BY <1>2, <1>4, <1>5, <3>2, <3>3, <4>1 DEF WaitDone
      <4>. QED  BY <1>1, <4>2, <4>3, <4>4 DEF WaitDone
    <3>. QED  BY <1>2, <1>3, <1>4, <1>5, <1>11, <3>2, <3>3
  <2>. QED  BY <1>1, <1>6, <2>1 DEF WaitsInv, PendingIn
<1>15. PassInv'
  <2>1. ASSUME pass' = "failed"
        PROVE  \E t \in p[w].toks :
                 \/ t \in OfKind(p, "task") /\ ~Valueless(t)
                 \/ t \in AsyncWrites(p) /\ InsideEventTask(t) /\ ~IsParentTask(p, p[t].parent, t)
    BY <1>1, <1>2, <1>3, <2>1, NotConverted
  <2>2. \A t : Valueless(t)' = Valueless(t) /\ InsideEventTask(t)' = InsideEventTask(t)
    BY <1>1 DEF Valueless, InsideEventTask
  <2>3. FailsOnlyOnKept'
    BY <1>1, <1>3, <2>1, <2>2 DEF FailsOnlyOnKept
  <2>. QED  BY <1>1, <1>6, <2>3 DEF LoweringInv, PassInv
<1>. QED  BY <1>9, <1>10, <1>12, <1>13, <1>14, <1>15 DEF LoweringInv

LEMMA TouchErasedPreserves ==
  ASSUME Legal(p), LoweringInv, TouchErased, UNCHANGED <<p, pc>>
  PROVE  LoweringInv'
<1>1. /\ pass \in {"tasks", "concurrent", "pipeline"} /\ pass' = "undefined"
      /\ worklist' = worklist /\ form' = form /\ event' = event /\ trailing' = trailing
      /\ p' = p /\ pc' = pc /\ Tasks' = Tasks /\ EventTasks' = EventTasks /\ TokenCopies' = TokenCopies
      /\ Waits' = Waits
  BY SameProgram DEF TouchErased
<1>2. FormsInv'
  BY <1>1 DEF LoweringInv, FormsInv
<1>3. CopiesInv'
  BY <1>1 DEF LoweringInv, CopiesInv
<1>4. EventTasks \ PendingIn("tasks")' = EventTasks \ PendingIn("tasks")
  <2>1. CASE pass = "tasks"
    BY <1>1, <2>1 DEF PendingIn
  <2>2. CASE pass # "tasks"
    <3>1. worklist \cap EventTasks = {}
      BY <1>1, <2>2, KindsDiffer DEF LoweringInv, ConcurrentInv, OfKind, Kind
    <3>. QED  BY <1>1, <2>2, <3>1 DEF PendingIn
  <2>. QED  BY <2>1, <2>2
<1>5. Keeps
  BY <1>1 DEF Keeps
<1>6. TasksInv'
  <2>0. TasksInv /\ pass # "tokens" /\ pass' # "tokens"
    BY <1>1 DEF LoweringInv
  <2>1. \A t \in EventTasks \ PendingIn("tasks") : FlatCopy(t)' \/ ExecTask(t)'
    BY <2>0, <1>5, ShapesPersist, KindsDiffer DEF TasksInv
  <2>2. \A u \in Tasks : form'[u] = "flattened" => FlatShape(u)'
    BY <2>0, <1>1, <1>5, ShapesPersist DEF TasksInv
  <2>. QED  BY <1>1, <1>4, <2>0, <2>1, <2>2 DEF TasksInv
<1>7. TaskOrderInv' /\ WaitsInv' /\ ConcurrentInv'
  BY <1>1 DEF TaskOrderInv, WaitsInv, ConcurrentInv
<1>8. PassInv'
  BY <1>1 DEF LoweringInv, PassInv, FailsOnlyOnKept
<1>. QED  BY <1>2, <1>3, <1>6, <1>7, <1>8 DEF LoweringInv

LEMMA NextPassPreserves ==
  ASSUME Legal(p), LoweringInv, NextPass, UNCHANGED <<p, pc>>
  PROVE  LoweringInv'
<1>1. /\ worklist = {} /\ erased' = erased /\ form' = form /\ event' = event /\ trailing' = trailing
      /\ \/ pass = "tasks" /\ pass' = "waits" /\ worklist' = Waits
         \/ pass = "waits" /\ pass' = "concurrent" /\ worklist' = Concurrents
         \/ pass = "concurrent" /\ pass' = "pipeline" /\ worklist' = OfKind(p, "pipeline")
         \/ pass = "pipeline" /\ pass' = "done" /\ worklist' = worklist
      /\ p' = p /\ pc' = pc /\ Tasks' = Tasks /\ EventTasks' = EventTasks /\ TokenCopies' = TokenCopies
      /\ Waits' = Waits /\ Concurrents' = Concurrents
  BY SameProgram DEF NextPass, Waits, Concurrents
<1>2. FormsInv'
  BY <1>1 DEF LoweringInv, FormsInv
<1>3. CopiesInv'
  BY <1>1 DEF LoweringInv, CopiesInv
<1>4. PendingIn("tasks")' = {} /\ PendingIn("tasks") = {}
  BY <1>1 DEF PendingIn
<1>5. Keeps
  BY <1>1 DEF Keeps
<1>6. TasksInv'
  <2>0. TasksInv /\ pass # "tokens" /\ pass' # "tokens"
    BY <1>1 DEF LoweringInv
  <2>1. \A t \in EventTasks \ PendingIn("tasks") : FlatCopy(t)' \/ ExecTask(t)'
    BY <2>0, <1>5, ShapesPersist, KindsDiffer DEF TasksInv
  <2>2. \A u \in Tasks : form'[u] = "flattened" => FlatShape(u)'
    BY <2>0, <1>1, <1>5, ShapesPersist DEF TasksInv
  <2>. QED  BY <1>1, <1>4, <2>0, <2>1, <2>2 DEF TasksInv
<1>7. TaskOrderInv'
  BY <1>1 DEF TaskOrderInv
<1>8. WaitsInv'
  <2>1. CASE pass = "tasks"
    BY <1>1, <2>1 DEF LoweringInv, TaskOrderInv, WaitsInv, PendingIn
  <2>2. CASE pass # "tasks"
    <3>1. \A w \in Waits : WaitDone(w)
      BY <1>1, <2>2 DEF LoweringInv, WaitsInv, PendingIn
    <3>2. \A w \in Waits : WaitDone(w)'
      BY <1>1, <3>1 DEF WaitDone, Converted
    <3>. QED  BY <1>1, <2>2, <3>2 DEF WaitsInv
  <2>. QED  BY <2>1, <2>2
<1>9. ConcurrentInv'
  <2>1. CASE pass = "tasks"
    BY <1>1, <2>1 DEF ConcurrentInv
  <2>2. CASE pass = "waits"
    <3>1. \A i \in Ops(p) : form[i] # "inlined"
      BY <2>2 DEF LoweringInv, WaitsInv
    <3>. QED  BY <1>1, <2>2, <3>1 DEF ConcurrentInv, PendingIn
  <2>3. CASE pass \in {"concurrent", "pipeline"}
    <3>1. \A c \in Concurrents : \A t \in Children(p, c) \cap Tasks : form[t] \in Lowering
      BY <1>1, <2>3 DEF LoweringInv, ConcurrentInv, PendingIn
    <3>. QED  BY <1>1, <2>3, <3>1 DEF ConcurrentInv, PendingIn
  <2>. QED  BY <1>1, <2>1, <2>2, <2>3
<1>10. PassInv'
  BY <1>1 DEF LoweringInv, PassInv, FailsOnlyOnKept
<1>. QED  BY <1>2, <1>3, <1>6, <1>7, <1>8, <1>9, <1>10 DEF LoweringInv

LEMMA WaitsPersist ==
  ASSUME Legal(p), Keeps, NEW w \in Waits, form'[w] = form[w], WaitDone(w)
  PROVE  WaitDone(w)'
<1>1. p' = p /\ Tasks' = Tasks /\ EventTasks' = EventTasks
  BY SameProgram DEF Keeps
<1>2. w \in Ops(p) /\ \A t \in p[w].toks : t \in Ops(p)
  BY KindsDiffer, Placement DEF Legal, TokensOK
<1>3. \A t \in p[w].toks : Converted(t)'
  BY <1>2 DEF WaitDone, Converted, Keeps, Lowering
<1>. QED  BY <1>1, <1>2, <1>3 DEF WaitDone

\* What the last two passes keep of the ones before.
LEMMA LatePersist ==
  ASSUME Legal(p), LoweringInv, pass \in {"concurrent", "pipeline"}, pass' = pass,
         Keeps, FormsInv',
         \A w \in Waits : form'[w] = form[w],
         \A t \in Tasks : form'[t] = form[t] \/ (InConcurrent(p, t) /\ (form'[t] = "flattened" => FlatShape(t)'))
  PROVE  CopiesInv' /\ TasksInv' /\ TaskOrderInv' /\ WaitsInv'
<1>1. /\ p' = p /\ Tasks' = Tasks /\ EventTasks' = EventTasks /\ TokenCopies' = TokenCopies
      /\ Waits' = Waits /\ PendingIn("tasks") = {} /\ PendingIn("tasks")' = {}
      /\ PendingIn("waits") = {} /\ PendingIn("waits")' = {}
  BY SameProgram DEF Keeps, PendingIn
<1>2. CopiesInv'
  <2>1. \A i \in TokenCopies : form[i] = "execute" /\ i \in Ops(p)
    BY KindsDiffer DEF LoweringInv, CopiesInv
  <2>. QED  BY <1>1, <2>1 DEF CopiesInv, Keeps, Lowering
<1>3. TasksInv'
  <2>0. TasksInv
    BY DEF LoweringInv
  <2>1. \A t \in EventTasks : FlatCopy(t)' \/ ExecTask(t)'
    BY <1>1, <2>0, ShapesPersist, KindsDiffer DEF TasksInv
  <2>2. \A u \in Tasks : form'[u] = "flattened" => FlatShape(u)'
    BY <2>0, ShapesPersist DEF TasksInv
  <2>3. \A u \in Tasks : form'[u] # "source" => u \in EventTasks \/ InConcurrent(p, u)
    BY <1>1, <2>0 DEF TasksInv
  <2>4. \A u, v \in EventTasks : ~Encloses(p, u, v)
    BY <1>1, <2>0 DEF TasksInv
  <2>. QED  BY <1>1, <2>1, <2>2, <2>3, <2>4 DEF TasksInv
<1>4. TaskOrderInv'
  BY DEF TaskOrderInv
<1>5. WaitsInv'
  <2>1. \A w \in Waits : WaitDone(w)
    BY <1>1 DEF LoweringInv, WaitsInv
  <2>2. \A w \in Waits : WaitDone(w)'
    BY <2>1, WaitsPersist
  <2>. QED  BY <1>1, <2>2 DEF WaitsInv
<1>. QED  BY <1>2, <1>3, <1>4, <1>5

LEMMA LowerConcurrentPreserves ==
  ASSUME Legal(p), LoweringInv, NEW c, LowerConcurrent(c), UNCHANGED <<p, pc>>
  PROVE  LoweringInv'
<1>1. /\ pass = "concurrent" /\ pass' = pass /\ c \in LastOf(worklist) \ erased /\ c \in worklist \ erased
      /\ p' = p /\ pc' = pc /\ Tasks' = Tasks /\ Waits' = Waits /\ Concurrents' = Concurrents
      /\ PendingIn("concurrent") = worklist /\ PendingIn("concurrent")' = worklist'
      /\ PendingIn("tasks") = {}
  BY SameProgram DEF LowerConcurrent, LastOf, PendingIn
<1>2. /\ FormsInv /\ TasksInv /\ pass # "tokens" /\ worklist \subseteq Concurrents
      /\ \A i \in Ops(p) : form[i] = "inlined" => i \in Concurrents \ worklist
      /\ \A d \in worklist \ erased : \A u \in Concurrents \ worklist : d < u /\ ~Encloses(p, d, u)
      /\ \A d \in Concurrents \ worklist :
           \A t \in Children(p, d) \cap Tasks : form[t] \in Lowering
  BY <1>1 DEF LoweringInv, ConcurrentInv
<1>3. c \in Concurrents /\ c \in Ops(p) /\ Kind(p, c) = "concurrent"
  BY <1>1, <1>2, KindsDiffer
<1>4. PassInv'
  BY <1>1 DEF LoweringInv, PassInv, FailsOnlyOnKept
<1>5. ASSUME NEW t \in PendingTasks(c), AsExecute(t), worklist' = worklist, erased' = erased
      PROVE  LoweringInv'
  <2>1. /\ t \in Children(p, c) /\ form[t] = "source" /\ t \in Tasks /\ t \in Ops(p)
        /\ InConcurrent(p, t)
    <3>1. t \in Children(p, c) /\ Kind(p, t) = "task" /\ form[t] = "source"
      BY DEF PendingTasks
    <3>2. t \in Ops(p) /\ p[t].parent = c /\ c # 0
      BY <1>3, <3>1, ChildInside
    <3>. QED  BY <1>3, <3>1, <3>2 DEF InConcurrent, Tasks, OfKind, Kind
  <2>2. PlainInside(t)
    <3>1. ASSUME NEW y \in Ops(p), Encloses(p, t, y) PROVE form[y] # "inlined"
      <4>1. Encloses(p, c, t)
        BY <1>3, <2>1, ChildInside
      <4>2. Encloses(p, c, y)
        BY <1>3, <2>1, <3>1, <4>1, EnclosesTrans
      <4>. QED  BY <1>1, <1>2, <4>2
    <3>2. ASSUME NEW d \in Children(p, t), form[d] = "flattened" PROVE FlatCopy(d)
      <4>1. d \in Ops(p) /\ p[d].parent = t
        BY <2>1, ChildInside
      <4>2. d \in Tasks /\ ~InConcurrent(p, d)
        BY <1>2, <2>1, <3>2, <4>1, KindsDiffer DEF FormsInv, InConcurrent
      <4>3. d \in EventTasks
        BY <1>1, <1>2, <3>2, <4>2 DEF TasksInv
      <4>4. FlatCopy(d) \/ ExecTask(d)
        BY <1>1, <1>2, <4>3 DEF TasksInv
      <4>. QED  BY <3>2, <4>4 DEF ExecTask
    <3>. QED  BY <3>1, <3>2 DEF PlainInside
  <2>3. /\ FormsInv' /\ Keeps /\ Executed(t)
        /\ form'[t] = "flattened" => FlatShape(t)'
    BY <1>1, <1>2, <1>5, <2>1, <2>2, ExecuteEffect
  <2>4. /\ \A w \in Waits : form'[w] = form[w]
        /\ \A u \in Tasks : u # t => form'[u] = form[u]
    BY <2>1, <2>3, KindsDiffer DEF Executed, AsyncWrites
  <2>5. CopiesInv' /\ TasksInv' /\ TaskOrderInv' /\ WaitsInv'
    BY <1>1, <2>1, <2>3, <2>4, LatePersist
  <2>6. ConcurrentInv'
    <3>1. \A i \in Ops(p) : form'[i] = "inlined" => i \in Concurrents \ worklist
      BY <1>2, <2>3 DEF Executed, Lowering
    <3>2. \A d \in Concurrents \ worklist :
            \A u \in Children(p, d) \cap Tasks : form'[u] \in Lowering
      BY <1>2, <2>3, KindsDiffer DEF Keeps
    <3>. QED  BY <1>1, <1>2, <1>5, <3>1, <3>2 DEF ConcurrentInv
  <2>. QED  BY <1>4, <2>3, <2>5, <2>6 DEF LoweringInv
<1>6. ASSUME PendingTasks(c) = {}, form' = [form EXCEPT ![c] = "inlined"], Rewritten(c),
             event' = event, trailing' = trailing
      PROVE  LoweringInv'
  <2>1. /\ form'[c] = "inlined" /\ \A i \in Ops(p) : i # c => form'[i] = form[i]
        /\ worklist' = worklist \ {c} /\ erased' = erased \cup {j \in worklist : Encloses(p, c, j)}
    BY <1>2, <1>3, <1>6 DEF FormsInv, Rewritten
  <2>2. form[c] \notin Lowering
    BY <1>2, <1>3, KindsDiffer DEF FormsInv, Lowering, AsyncWrites
  <2>3. Keeps
    BY <1>1, <1>6, <2>1, <2>2 DEF Keeps
  <2>4. FormsInv'
    <3>1. form' \in [Ops(p) -> {"source", "execute", "flattened", "inlined", "await"}]
      BY <1>2, <1>3, <1>6 DEF FormsInv
    <3>2. event[c] = c
      BY <1>2, <1>3, <2>2 DEF FormsInv, Lowering
    <3>. QED  BY <1>1, <1>2, <1>3, <1>6, <2>1, <3>1, <3>2 DEF FormsInv
  <2>5. /\ \A w \in Waits : form'[w] = form[w]
        /\ \A u \in Tasks : form'[u] = form[u]
    BY <1>3, <2>1, KindsDiffer
  <2>6. CopiesInv' /\ TasksInv' /\ TaskOrderInv' /\ WaitsInv'
    BY <1>1, <2>3, <2>4, <2>5, LatePersist
  <2>7. \A t \in Children(p, c) \cap Tasks : form[t] \in Lowering
    <3>. SUFFICES ASSUME NEW t \in Children(p, c) \cap Tasks PROVE form[t] \in Lowering
      OBVIOUS
    <3>1. form[t] # "source" /\ t \in Ops(p) /\ Kind(p, t) = "task"
      BY <1>6, KindsDiffer DEF PendingTasks
    <3>2. t \notin Waits
      BY <3>1, KindsDiffer
    <3>. QED  BY <1>2, <3>1, <3>2 DEF FormsInv, Lowering
  <2>8. \A d \in worklist' \ erased' : d \in worklist \ erased /\ d < c /\ ~Encloses(p, d, c)
    <3>. SUFFICES ASSUME NEW d \in worklist' \ erased'
                  PROVE  d \in worklist \ erased /\ d < c /\ ~Encloses(p, d, c)
      OBVIOUS
    <3>1. d \in worklist \ erased /\ d # c /\ ~Encloses(p, c, d)
      BY <2>1
    <3>2. d \in Nat /\ c \in Nat
      BY <1>2, <1>3, <3>1, Placement, KindsDiffer
    <3>3. ~(c < d)
      BY <1>1, <3>1 DEF LastOf
    <3>4. d < c => ~Encloses(p, d, c)
      BY <1>1, <3>1 DEF LastOf
    <3>. QED  BY <3>1, <3>2, <3>3, <3>4
  <2>9. ConcurrentInv'
    <3>1. \A i \in Ops(p) : form'[i] = "inlined" => i \in Concurrents \ worklist'
      BY <1>2, <1>3, <2>1
    <3>2. \A d \in Concurrents \ worklist' :
            \A u \in Children(p, d) \cap Tasks : form'[u] \in Lowering
      BY <1>2, <2>1, <2>5, <2>7
    <3>3. \A d \in worklist' \ erased' : \A u \in Concurrents \ worklist' : d < u /\ ~Encloses(p, d, u)
      BY <1>2, <2>1, <2>8
    <3>. QED  BY <1>1, <1>2, <2>1, <3>1, <3>2, <3>3 DEF ConcurrentInv
  <2>. QED  BY <1>4, <2>4, <2>6, <2>9 DEF LoweringInv
<1>. QED  BY <1>5, <1>6 DEF LowerConcurrent

LEMMA LowerPipelinePreserves ==
  ASSUME Legal(p), LoweringInv, NEW i, LowerPipeline(i), UNCHANGED <<p, pc>>
  PROVE  LoweringInv'
<1>1. /\ pass = "pipeline" /\ pass' = pass /\ event' = event /\ i \in worklist /\ worklist' = worklist \ {i}
      /\ form' = [x \in Ops(p) |->
                    CASE x = i -> "inlined"
                      [] x \in Stages(i) \/ (\E s \in Stages(i) : x \in Producers(s)) -> "execute"
                      [] OTHER -> form[x]]
      /\ trailing' = [s \in Ops(p) |->
                        IF s \in Stages(i)
                        THEN {event[x] : x \in Producers(s) \cup Executes(s)} \ AwaitedIn(s)
                        ELSE trailing[s]]
      /\ p' = p /\ pc' = pc /\ Tasks' = Tasks /\ Waits' = Waits /\ Concurrents' = Concurrents
  BY SameProgram DEF LowerPipeline, Rewritten, LastOf
<1>2. /\ FormsInv /\ worklist \subseteq OfKind(p, "pipeline")
      /\ \A c \in Concurrents : \A t \in Children(p, c) \cap Tasks : form[t] \in Lowering
  BY <1>1 DEF LoweringInv, ConcurrentInv, PendingIn
<1>3. i \in Ops(p) /\ Kind(p, i) = "pipeline"
  BY <1>1, <1>2 DEF OfKind, Kind
<1>4. /\ \A s \in Stages(i) : s \in Ops(p) /\ Kind(p, s) = "stage" /\ s # i
      /\ \A s \in Stages(i) : \A x \in Producers(s) : x \in AsyncWrites(p) /\ form[x] = "source" /\ x # i
  BY <1>3, ChildInside DEF Stages, Producers, AsyncWrites
<1>5. \A x \in Ops(p) :
        \/ x = i /\ form'[x] = "inlined"
        \/ x # i /\ form'[x] = form[x] /\ x \notin Stages(i)
        \/ x # i /\ form'[x] = "execute" /\ x \in Stages(i)
        \/ x # i /\ form'[x] = "execute" /\ x \in AsyncWrites(p) /\ form[x] = "source"
  BY <1>1, <1>4
<1>6. \A x \in Stages(i) : form[x] \notin {"flattened"}
  BY <1>2, <1>4, KindsDiffer DEF FormsInv
<1>7. form[i] \notin Lowering
  BY <1>2, <1>3, KindsDiffer DEF FormsInv, Lowering, AsyncWrites
<1>8. \A x \in Tasks : trailing'[x] = trailing[x] /\ form'[x] = form[x]
  <2>. SUFFICES ASSUME NEW x \in Tasks PROVE trailing'[x] = trailing[x] /\ form'[x] = form[x]
    OBVIOUS
  <2>1. x \in Ops(p) /\ x \notin Stages(i) /\ x # i /\ x \notin AsyncWrites(p)
    BY <1>3, <1>4, KindsDiffer
  <2>. QED  BY <1>1, <1>5, <2>1
<1>9. \A w \in Waits : form'[w] = form[w]
  <2>. SUFFICES ASSUME NEW w \in Waits PROVE form'[w] = form[w]
    OBVIOUS
  <2>1. w \in Ops(p) /\ w \notin Stages(i) /\ w # i /\ w \notin AsyncWrites(p)
    BY <1>3, <1>4, KindsDiffer DEF AsyncWrites
  <2>. QED  BY <1>5, <2>1
<1>10. Keeps
  BY <1>1, <1>5, <1>6, <1>7, <1>8 DEF Keeps, Lowering
<1>11. FormsInv'
  <2>1. form' \in [Ops(p) -> {"source", "execute", "flattened", "inlined", "await"}]
    <3>1. \A x \in Ops(p) : form'[x] \in {"source", "execute", "flattened", "inlined", "await"}
      BY <1>2, <1>5 DEF FormsInv
    <3>2. form' = [x \in Ops(p) |-> form'[x]]
      BY <1>1
    <3>. QED  BY <3>1, <3>2
  <2>2. trailing' \in [Ops(p) -> SUBSET Ops(p)]
    <3>1. \A s \in Ops(p) : trailing'[s] \in SUBSET Ops(p)
      <4>. SUFFICES ASSUME NEW s \in Ops(p) PROVE trailing'[s] \in SUBSET Ops(p)
        OBVIOUS
      <4>1. Producers(s) \cup Executes(s) \subseteq Ops(p)
        BY DEF Producers, Executes, Direct
      <4>2. {event[x] : x \in Producers(s) \cup Executes(s)} \ AwaitedIn(s) \in SUBSET Ops(p)
        BY <1>2, <4>1 DEF FormsInv
      <4>3. trailing[s] \in SUBSET Ops(p)
        BY <1>2 DEF FormsInv
      <4>. QED  BY <1>1, <4>2, <4>3
    <3>2. trailing' = [x \in Ops(p) |-> trailing'[x]]
      BY <1>1
    <3>. QED  BY <3>1, <3>2
  <2>3. event[i] = i /\ \A x \in Stages(i) : event[x] = x
    BY <1>2, <1>3, <1>4, <1>6, <1>7 DEF FormsInv, Lowering
  <2>4. event' \in [Ops(p) -> Ops(p)]
    BY <1>1, <1>2 DEF FormsInv
  <2>5. \A x \in Ops(p) :
          /\ form'[x] = "flattened" => x \in Tasks
          /\ form'[x] = "execute" => x \in AsyncWrites(p) \/ x \in Tasks \/ Kind(p, x) = "stage"
          /\ form'[x] = "inlined" => Kind(p, x) \in {"concurrent", "pipeline"}
          /\ form'[x] = "await" => x \in Waits
          /\ form'[x] # "flattened" => event[x] = x
    BY <1>2, <1>3, <1>4, <1>5, <2>3 DEF FormsInv
  <2>. QED  BY <1>1, <2>1, <2>2, <2>4, <2>5 DEF FormsInv
<1>12. CopiesInv' /\ TasksInv' /\ TaskOrderInv' /\ WaitsInv'
  BY <1>1, <1>8, <1>9, <1>10, <1>11, LatePersist
<1>13. ConcurrentInv'
  BY <1>1, <1>2, <1>8 DEF ConcurrentInv, PendingIn
<1>14. PassInv'
  BY <1>1 DEF LoweringInv, PassInv, FailsOnlyOnKept
<1>. QED  BY <1>11, <1>12, <1>13, <1>14 DEF LoweringInv

LEMMA LowerPreserves ==
  ASSUME Legal(p), LoweringInv, Lower, UNCHANGED <<p, pc>>, pc = "accepted"
  PROVE  LoweringInv'
BY LowerCopiesPreserves, LowerWaitPreserves, TouchErasedPreserves, NextPassPreserves,
   LowerTaskPreserves, LowerConcurrentPreserves, LowerPipelinePreserves DEF Lower

\* The lowering starts after the verdict.
LEMMA CheckIsBefore ==
  ASSUME OracleNext
  PROVE  p' = p /\ pc # "accepted"
BY DEF OracleNext, WalkOp, Collect, CopyWrites, Fixpoint, NextRead, TryCandidate, SearchOn,
       ReadDefined, ReadUndefined, Verdict

LEMMA LoweringFrame ==
  ASSUME LoweringInv, UNCHANGED loweringVars, p' = p,
         pc' = pc \/ pass = "tokens"
  PROVE  LoweringInv'
<1>1. /\ pass' = pass /\ worklist' = worklist /\ erased' = erased /\ form' = form /\ event' = event
      /\ trailing' = trailing /\ p' = p
      /\ Tasks' = Tasks /\ EventTasks' = EventTasks /\ TokenCopies' = TokenCopies
      /\ Waits' = Waits /\ Concurrents' = Concurrents
      /\ PendingIn("tasks")' = PendingIn("tasks") /\ PendingIn("waits")' = PendingIn("waits")
      /\ PendingIn("concurrent")' = PendingIn("concurrent")
  BY SameProgram DEF loweringVars, PendingIn
<1>2. FormsInv'
  BY <1>1 DEF LoweringInv, FormsInv
<1>3. CopiesInv'
  BY <1>1 DEF LoweringInv, CopiesInv
<1>4. \A t : FlatCopy(t)' = FlatCopy(t) /\ ExecTask(t)' = ExecTask(t) /\ FlatShape(t)' = FlatShape(t)
  BY <1>1 DEF FlatCopy, ExecTask, FlatShape
<1>5. TasksInv'
  BY <1>1, <1>4 DEF LoweringInv, TasksInv
<1>6. TaskOrderInv'
  BY <1>1 DEF LoweringInv, TaskOrderInv
<1>7. WaitsInv'
  BY <1>1 DEF LoweringInv, WaitsInv, WaitDone, Converted
<1>8. ConcurrentInv'
  BY <1>1 DEF LoweringInv, ConcurrentInv
<1>9. PassInv'
  <2>1. FailsOnlyOnKept'
    BY <1>1 DEF LoweringInv, PassInv, FailsOnlyOnKept, Valueless, InsideEventTask
  <2>2. LoweringInit = LoweringInit'
    BY <1>1 DEF LoweringInit
  <2>. QED  BY <1>1, <2>1, <2>2 DEF LoweringInv, PassInv
<1>. QED  BY <1>2, <1>3, <1>5, <1>6, <1>7, <1>8, <1>9 DEF LoweringInv

-----------------------------------------------------------------------------
(***************************************************************************)
(* A run of the lowered program.                                           *)
(***************************************************************************)
LoweredFacts ==
  /\ Legal(p) /\ pass = "done" /\ FormsInv /\ RunInv
  /\ in \in [Ops(p) -> SUBSET Ops(p)]
  /\ \A i \in Ops(p) : Walked(p, i) => in[i] = Incoming(p, in, i)
  /\ \A i \in Ops(p) : Walked(p, i) => \A x \in in[i] : x \in Ops(p) /\ x < i
  /\ \A x \in Ops(p) : \A y \in succ[x] : y \in Ops(p) /\ Walked(p, y) /\ x \in EdgesInto(p, in, y)
  /\ \A w \in Waits : WaitDone(w)
  /\ \A t \in EventTasks : FlatCopy(t) \/ ExecTask(t)
  /\ \A t, u \in EventTasks : ~Encloses(p, t, u)
  /\ \A t \in Tasks : form[t] = "flattened" => FlatShape(t)
  /\ \A t \in Tasks : form[t] # "source" => t \in EventTasks \/ InConcurrent(p, t)
  /\ \A c \in Concurrents : \A t \in Children(p, c) \cap Tasks : form[t] \in Lowering

LEMMA InvFacts ==
  ASSUME OracleInv, LoweringInv, RunInv, pass = "done"
  PROVE  LoweredFacts
<1>1. Legal(p) /\ in \in [Ops(p) -> SUBSET Ops(p)] /\ succ \in [Ops(p) -> SUBSET Ops(p)]
  BY DEF OracleInv, OracleTypeOK, IsGraph
<1>2. pc = "accepted"
  BY DEF LoweringInv, PassInv
<1>3. /\ \A i \in Ops(p) : i < next
      /\ \A i \in Ops(p) : Walked(p, i) => in[i] = Incoming(p, in, i)
      /\ \A x \in Ops(p) : \A y \in succ[x] : y \in Ops(p) /\ Walked(p, y) /\ x \in EdgesInto(p, in, y)
  BY <1>1, <1>2 DEF OracleInv, WalkInv
<1>4. \A i \in Ops(p) : Walked(p, i) => \A x \in in[i] : x \in Ops(p) /\ x < i
  BY <1>1, <1>3, IncomingIsBefore
<1>5. PendingIn("tasks") = {} /\ PendingIn("waits") = {} /\ PendingIn("concurrent") = {}
  BY DEF PendingIn
<1>6. /\ \A w \in Waits : WaitDone(w)
      /\ \A t \in EventTasks : FlatCopy(t) \/ ExecTask(t)
      /\ \A t, u \in EventTasks : ~Encloses(p, t, u)
      /\ \A t \in Tasks : form[t] = "flattened" => FlatShape(t)
      /\ \A t \in Tasks : form[t] # "source" => t \in EventTasks \/ InConcurrent(p, t)
      /\ \A c \in Concurrents : \A t \in Children(p, c) \cap Tasks : form[t] \in Lowering
  BY <1>5 DEF LoweringInv, TasksInv, WaitsInv, ConcurrentInv
<1>. QED  BY <1>1, <1>3, <1>4, <1>6 DEF LoweredFacts, LoweringInv

LEMMA RunMonotone ==
  ASSUME UNCHANGED <<oracleVars, loweringVars>>,
         begun \subseteq begun', ended \subseteq ended', landed \subseteq landed'
  PROVE  /\ \A i : Fired(i) => Fired(i)'
         /\ \A i : Passed(i) => Passed(i)'
         /\ \A i : Ready(i) => Ready(i)'
         /\ \A i : Done(i) => Done(i)'
         /\ \A i, j : LeavesAgent(i, j)' = LeavesAgent(i, j)
<1>1. p' = p /\ form' = form /\ event' = event /\ trailing' = trailing
  BY DEF oracleVars, loweringVars
<1>2. \A i : Fired(i) => Fired(i)'
  BY <1>1 DEF Fired
<1>3. \A i : Passed(i) => Passed(i)'
  BY <1>1 DEF Passed
<1>4. \A i : Ready(i) => Ready(i)'
  <2>. SUFFICES ASSUME NEW i, Ready(i) PROVE Ready(i)'
    OBVIOUS
  <2>1. Earlier(i)' = Earlier(i) /\ \A c : AwaitedValues(c)' = AwaitedValues(c)
    BY <1>1 DEF Earlier, AwaitedValues
  <2>. QED  BY <1>1, <1>2, <1>3, <2>1 DEF Ready
<1>5. \A i : Done(i) => Done(i)'
  BY <1>1, <1>2 DEF Done
<1>6. \A i, j : LeavesAgent(i, j)' = LeavesAgent(i, j)
  BY <1>1 DEF LeavesAgent
<1>. QED  BY <1>2, <1>3, <1>4, <1>5, <1>6

LEMMA DoneEnded ==
  ASSUME LoweredFacts, NEW x \in ended, form[x] # "flattened",
         Kind(p, x) = "yield" => form[p[x].parent] # "flattened"
  PROVE  Done(x)
BY DEF Done

\* A task that is an execute, or was the frame of one, leaves its agent behind
\* for whatever comes after it.
LEMMA TaskLeaves ==
  ASSUME LoweredFacts, NEW t \in Tasks, form[t] \in Lowering,
         NEW x, x = t \/ x \in Children(p, t), NEW y, y # t, ~Encloses(p, t, y)
  PROVE  LeavesAgent(x, y)
<1>1. x = t \/ Encloses(p, t, x)
  BY ChildInside, KindsDiffer DEF LoweredFacts
<1>. QED  BY <1>1 DEF LeavesAgent, Lowering, Tasks

\* What is before the last stage of a pipeline that ended has ended.
LEMMA StagesEnded ==
  ASSUME LoweredFacts, NEW y \in ended, Kind(p, y) = "pipeline", NEW s \in Children(p, y) \ Terms(p, y)
  PROVE  s \in ended /\ Terms(p, s) \subseteq ended /\ Kind(p, s) = "stage"
<1>1. /\ Legal(p) /\ y \in Ops(p) /\ ended \subseteq begun /\ begun \subseteq Ops(p)
      /\ \A i \in begun : Ready(i)
      /\ \A i \in ended : Terms(p, i) \subseteq ended
  BY DEF LoweredFacts, RunInv
<1>2. PICK z \in Children(p, y) :
        /\ Terms(p, y) = {z} /\ Kind(p, z) = "yield"
        /\ \A c \in Children(p, y) : c # z => c < z /\ p[c].region = p[z].region
                                                /\ Kind(p, c) # "yield"
  BY <1>1, OneBlock
<1>3. s # z /\ s < z /\ p[s].region = p[z].region /\ Kind(p, s) # "yield" /\ s \in Ops(p)
      /\ p[z].parent = y
  BY <1>1, <1>2, ChildInside
<1>4. Kind(p, s) = "stage"
  BY <1>1, <1>3 DEF Legal, PipelineOK
<1>5. Ready(z)
  BY <1>1, <1>2
<1>6. s \in Earlier(z)
  BY <1>3 DEF Earlier
<1>7. Passed(s)
  BY <1>5, <1>6 DEF Ready
<1>8. s \in ended
  BY <1>4, <1>7 DEF Passed
<1>. QED  BY <1>1, <1>4, <1>8

LEMMA LastStageIsStage ==
  ASSUME NEW q, Legal(q), NEW y \in Ops(q), Kind(q, y) = "pipeline", LastStage(q, y) # 0
  PROVE  LastStage(q, y) \in Children(q, y) \ Terms(q, y)
<1>1. /\ q[y].term[1] \in Children(q, y) /\ Terms(q, y) = {q[y].term[1]}
      /\ LastStage(q, y) \in Children(q, y)
  BY PipelineTerm
<1>2. LastStage(q, y) # q[y].term[1]
  <2>1. q[y].term[1] \in Ops(q) /\ q[y].term[1] \in Nat
    BY <1>1, ChildInside
  <2>2. q[q[y].term[1]].prev \in 0..(q[y].term[1] - 1)
    BY <2>1 DEF Legal, PlacedOK
  <2>. QED  BY <2>1, <2>2 DEF LastStage
<1>. QED  BY <1>1, <1>2

\* What leaves an agent that y is in is still left seen from after y or from
\* inside it.
LEMMA LeavesLater ==
  ASSUME LoweredFacts, NEW y \in Ops(p), NEW x \in Ops(p), x < y, LeavesAgent(x, y),
         NEW i \in Ops(p), y < i
  PROVE  LeavesAgent(x, i)
<1>1. PICK e \in OfKind(p, "task") :
        /\ form[e] \in {"execute", "flattened"} /\ (x = e \/ Encloses(p, e, x))
        /\ y # e /\ ~Encloses(p, e, y)
  BY DEF LeavesAgent
<1>2. e \in Ops(p) /\ e \in Nat /\ x \in Nat /\ y \in Nat /\ i \in Nat
  BY Placement DEF LoweredFacts, OfKind
<1>3. e <= x
  BY <1>1, <1>2 DEF Encloses
<1>4. ~Encloses(p, e, i)
  BY <1>1, <1>2, <1>3, EnclosesOuter
<1>. QED  BY <1>1, <1>2, <1>3, <1>4 DEF LeavesAgent

\* What was complete before a region operation that ended is complete, or in
\* an agent that was launched in it.
LEMMA BodyDone ==
  ASSUME LoweredFacts, NEW y \in ended, Kind(p, y) \in RegionKinds, form[y] # "flattened",
         NEW x \in BodyFrontier(p, in, y)
  PROVE  \/ Done(x)
         \/ \E t \in Children(p, y) \cap Tasks : Kind(p, y) = "concurrent" /\ form[t] \in Lowering
                                                  /\ (x = t \/ x \in Children(p, t))
         \/ x \in in[y]
<1>1. /\ Legal(p) /\ y \in Ops(p) /\ FormsInv /\ ended \subseteq Ops(p)
      /\ \A i \in ended : Terms(p, i) \subseteq ended
      /\ \A c \in Concurrents : \A t \in Children(p, c) \cap Tasks : form[t] \in Lowering
  BY DEF LoweredFacts, RunInv
<1>2. ASSUME NEW s \in ended, form[s] # "flattened", NEW z \in Terms(p, s)
      PROVE  Done(z)
  <2>1. z \in ended /\ z \in Ops(p) /\ z \in Children(p, s) /\ s \in Ops(p)
    BY <1>1, <1>2, Placement
  <2>2. Kind(p, z) = "yield" /\ p[z].parent = s
    BY <1>1, <2>1, ChildKinds, ChildInside, <1>2
  <2>3. form[z] # "flattened"
    BY <1>1, <2>1, <2>2, KindsDiffer DEF FormsInv
  <2>. QED  BY <1>2, <2>1, <2>2, <2>3, DoneEnded
<1>3. CASE Kind(p, y) = "concurrent"
  <2>1. PICK t \in Children(p, y) \ Terms(p, y) : x \in TaskFrontier(p, t)
    BY <1>3 DEF BodyFrontier
  <2>2. t \in Ops(p) /\ Kind(p, t) = "task" /\ y \in Concurrents
    <3>1. t \in Ops(p) /\ Kind(p, t) # "yield"
      BY <1>1, <2>1, ChildInside, ChildKinds
    <3>. QED  BY <1>1, <1>3, <2>1, <3>1 DEF Legal, ConcurrentOK, Concurrents, OfKind, Kind
  <2>3. t \in Tasks
    BY <2>2 DEF Tasks, OfKind, Kind
  <2>4. x = t \/ x \in Children(p, t)
    BY <1>1, <2>1, <2>2, Placement DEF TaskFrontier
  <2>. QED  BY <1>1, <1>3, <2>1, <2>2, <2>3, <2>4
<1>4. CASE Kind(p, y) = "pipeline"
  <2>1. CASE LastStage(p, y) = 0
    BY <1>4, <2>1 DEF BodyFrontier
  <2>2. CASE LastStage(p, y) # 0
    <3>. DEFINE s == LastStage(p, y)
    <3>1. s \in Children(p, y) \ Terms(p, y)
      BY <1>1, <1>4, <2>2, LastStageIsStage
    <3>2. s \in ended /\ Terms(p, s) \subseteq ended /\ Kind(p, s) = "stage"
      BY <1>4, <3>1, StagesEnded
    <3>3. form[s] # "flattened"
      BY <1>1, <3>2, KindsDiffer DEF FormsInv
    <3>4. Done(s)
      BY <3>2, <3>3, DoneEnded
    <3>5. x \in Terms(p, s) \cup {s}
      BY <1>4, <2>2 DEF BodyFrontier, TaskFrontier
    <3>. QED  BY <1>2, <3>2, <3>3, <3>4, <3>5
  <2>. QED  BY <2>1, <2>2
<1>5. CASE Kind(p, y) \notin {"concurrent", "pipeline"}
  <2>1. x \in Terms(p, y)
    BY <1>5 DEF BodyFrontier
  <2>. QED  BY <1>2, <2>1
<1>. QED  BY <1>3, <1>4, <1>5

\* When control is past j, so is everything j was the place of, but for the
\* agents it launched.
LEMMA PassedFrontier ==
  ASSUME LoweredFacts, NEW i \in Ops(p), NEW j \in Ops(p), j < i, p[j].parent = p[i].parent,
         Kind(p, j) # "yield", Passed(j), NEW x \in Outgoing(p, in, j)
  PROVE  Done(x) \/ LeavesAgent(x, i)
<1>1. /\ Legal(p) /\ FormsInv /\ ended \subseteq begun /\ begun \subseteq Ops(p)
      /\ i \in Nat /\ j \in Nat /\ p[i].parent \in Nat /\ p[j].parent < j
      /\ \A k \in begun : Kind(p, k) \notin RegionKinds => k \in ended
      /\ \A k \in begun : Walked(p, k) => \A z \in in[k] : Done(z) \/ LeavesAgent(z, k)
      /\ \A k \in Ops(p) : Walked(p, k) => \A z \in in[k] : z \in Ops(p) /\ z < k
  <2>1. p[i].parent \in 0..(i - 1) /\ p[j].parent \in 0..(j - 1) /\ i \in Nat /\ j \in Nat
    BY Placement DEF LoweredFacts, Legal, PlacedOK
  <2>. QED  BY <2>1 DEF LoweredFacts, RunInv
<1>2. x = j \/ x \in BodyFrontier(p, in, j)
  BY DEF Outgoing
<1>3. j \in begun
  BY <1>1 DEF Passed
<1>5. i # j /\ ~Encloses(p, j, i)
  BY <1>1 DEF Encloses
<1>6. CASE Kind(p, j) \notin RegionKinds
  <2>1. BodyFrontier(p, in, j) = {}
    <3>1. Terms(p, j) = {}
      BY <1>1, <1>6, LeavesAreLeaves, Placement
    <3>. QED  BY <1>6, <3>1 DEF BodyFrontier, RegionKinds, Branches
  <2>2. j \in ended /\ form[j] # "flattened"
    BY <1>1, <1>3, <1>6, KindsDiffer DEF FormsInv, RegionKinds, Branches
  <2>. QED  BY <1>2, <2>1, <2>2, DoneEnded
<1>7. CASE j \in Tasks /\ form[j] \in Lowering
  <2>1. x = j \/ x \in Children(p, j)
    BY <1>1, <1>2, <1>7, KindsDiffer, Placement DEF BodyFrontier
  <2>. QED  BY <1>5, <1>7, <2>1, TaskLeaves
<1>8. CASE Kind(p, j) \in RegionKinds /\ ~(j \in Tasks /\ form[j] \in Lowering)
  <2>1. form[j] # "flattened" /\ (form[j] = "execute" => Kind(p, j) = "stage")
    BY <1>1, <1>8, AsyncLeaf DEF FormsInv, Lowering
  <2>2. j \in ended
    BY <2>1 DEF Passed
  <2>3. CASE x = j
    BY <2>1, <2>2, <2>3, DoneEnded
  <2>4. CASE x \in BodyFrontier(p, in, j)
    <3>1. CASE Done(x)
      BY <3>1
    <3>2. ASSUME NEW t \in Children(p, j) \cap Tasks, form[t] \in Lowering, x = t \/ x \in Children(p, t)
          PROVE  LeavesAgent(x, i)
      <4>1. t \in Nat /\ j < t /\ p[t].parent = j
        BY <1>1, ChildInside
      <4>2. i # t /\ ~Encloses(p, t, i)
        BY <1>1, <4>1 DEF Encloses
      <4>. QED  BY <3>2, <4>2, TaskLeaves
    <3>3. CASE x \in in[j]
      <4>1. Walked(p, j)
        BY DEF Walked
      <4>2. x \in Ops(p) /\ x < j /\ (Done(x) \/ LeavesAgent(x, j))
        BY <1>1, <1>3, <3>3, <4>1
      <4>. QED  BY <4>2, LeavesLater
    <3>. QED  BY <1>8, <2>1, <2>2, <2>4, <3>1, <3>2, <3>3, BodyDone
  <2>. QED  BY <1>2, <2>3, <2>4
<1>. QED  BY <1>6, <1>7, <1>8

LEMMA FrontierDone ==
  ASSUME LoweredFacts, NEW i \in Ops(p), Ready(i), Walked(p, i), NEW x \in in[i]
  PROVE  Done(x) \/ LeavesAgent(x, i)
<1>1. /\ Legal(p) /\ x \in Incoming(p, in, i) /\ i \in Nat
      /\ \A k \in begun : Walked(p, k) => \A z \in in[k] : Done(z) \/ LeavesAgent(z, k)
      /\ \A k \in Ops(p) : Walked(p, k) => \A z \in in[k] : z \in Ops(p) /\ z < k
  BY Placement DEF LoweredFacts, RunInv
<1>2. CASE p[i].prev # 0 /\ ~InConcurrent(p, i)
  <2>. DEFINE j == p[i].prev
  <2>1. j \in Ops(p) /\ j < i /\ p[j].parent = p[i].parent /\ p[j].region = p[i].region
    BY <1>1, <1>2, Placement DEF Legal, PlacedOK
  <2>2. j \in Children(p, p[i].parent)
    BY <2>1 DEF Children
  <2>3. Kind(p, j) # "yield"
    BY <1>1, <2>1, <2>2 DEF Legal, PlacedOK
  <2>4. Passed(j)
    BY <2>1, <2>2 DEF Ready, Earlier
  <2>5. x \in Outgoing(p, in, j)
    BY <1>1, <1>2 DEF Incoming
  <2>. QED  BY <2>1, <2>3, <2>4, <2>5, PassedFrontier
<1>3. CASE ~(p[i].prev # 0 /\ ~InConcurrent(p, i))
  <2>. DEFINE j == p[i].parent
  <2>1. j # 0 /\ x \in in[j]
    BY <1>1, <1>3 DEF Incoming
  <2>2. j \in Ops(p) /\ j < i /\ j \in begun
    BY <1>1, <2>1, Placement DEF Ready
  <2>3. Walked(p, j)
    <3>1. Kind(p, j) \in RegionKinds
      BY <1>1, <2>1 DEF Legal, PlacedOK
    <3>. QED  BY <3>1 DEF Walked, RegionKinds, Branches
  <2>4. x \in Ops(p) /\ x < j /\ (Done(x) \/ LeavesAgent(x, j))
    BY <1>1, <2>1, <2>2, <2>3
  <2>. QED  BY <2>2, <2>4, LeavesLater
<1>. QED  BY <1>2, <1>3

\* What a wait that is over has seen: the token of every operation it waits for.
LEMMA WaitFired ==
  ASSUME LoweredFacts, NEW w \in begun, NEW t \in p[w].toks
  PROVE  /\ t \in Ops(p) /\ w \in Waits /\ Fired(event[t])
         /\ form[t] \in Lowering /\ (t \in Tasks => t \in EventTasks)
         /\ t \in AsyncWrites(p) => t \in landed
<1>1. Legal(p) /\ FormsInv /\ w \in Ops(p) /\ Ready(w) /\ \A v \in Waits : WaitDone(v)
  BY DEF LoweredFacts, RunInv
<1>2. w \in Waits /\ t \in Ops(p)
  BY <1>1, Placement DEF Legal, TokensOK, Waits, OfKind, Kind
<1>3. form[w] = "await" /\ form[t] \in Lowering /\ (t \in Tasks => t \in EventTasks)
  BY <1>1, <1>2 DEF WaitDone, Converted, Lowering
<1>4. Fired(event[t])
  BY <1>1, <1>3 DEF Ready
<1>5. ASSUME t \in AsyncWrites(p) PROVE t \in landed
  <2>1. event[t] = t
    BY <1>1, <1>2, <1>5, KindsDiffer DEF FormsInv
  <2>. QED  BY <1>4, <1>5, <2>1 DEF Fired
<1>. QED  BY <1>2, <1>3, <1>4, <1>5

LEMMA InvDelivers ==
  ASSUME LoweredFacts
  PROVE  WaitDelivers
<1>1. /\ Legal(p) /\ FormsInv /\ ended \subseteq begun /\ begun \subseteq Ops(p)
      /\ landed \subseteq AsyncWrites(p) \cap begun
      /\ \A i \in begun : Kind(p, i) \notin RegionKinds => i \in ended
      /\ \A i \in begun : Ready(i)
      /\ \A i \in ended : Terms(p, i) \subseteq ended
      /\ \A t \in EventTasks : FlatCopy(t) \/ ExecTask(t)
      /\ \A t, u \in EventTasks : ~Encloses(p, t, u)
      /\ \A t \in Tasks : form[t] # "source" => t \in EventTasks \/ InConcurrent(p, t)
  BY DEF LoweredFacts, RunInv
<1>2. ASSUME NEW w \in ended, NEW t \in p[w].toks, t \in Tasks, NEW c \in Children(p, t)
      PROVE  Done(c) /\ (c \in AsyncWrites(p) => c \in landed)
  <2>1. t \in EventTasks /\ Fired(event[t]) /\ t \in Ops(p) /\ Kind(p, t) = "task"
        /\ t \notin AsyncWrites(p)
    BY <1>1, <1>2, WaitFired, KindsDiffer
  <2>2. c \in Ops(p) /\ p[c].parent = t /\ t # 0 /\ Encloses(p, t, c)
    BY <1>1, <2>1, ChildInside
  <2>3. c \in Terms(p, t) <=> Kind(p, c) = "yield"
    BY <1>1, <2>1, ChildKinds
  <2>4. Kind(p, c) = "yield" => c \notin AsyncWrites(p) /\ form[c] # "flattened"
    BY <1>1, <2>2, KindsDiffer DEF AsyncWrites, FormsInv
  <2>5. CASE FlatCopy(t)
    <3>1. PICK x \in AsyncWrites(p) :
            Children(p, t) \ Terms(p, t) = {x} /\ form[x] = "execute" /\ event[t] = x
      BY <2>5 DEF FlatCopy
    <3>2. x \in landed /\ x \in begun /\ x \in ended
      BY <1>1, <2>1, <3>1, AsyncLeaf DEF Fired
    <3>3. CASE c \in Terms(p, t)
      BY <2>1, <2>2, <2>3, <2>4, <2>5, <3>3 DEF Done, FlatCopy
    <3>4. CASE c = x
      <4>1. Kind(p, x) # "yield"
        BY <1>1, AsyncLeaf
      <4>. QED  BY <3>1, <3>2, <3>4, <4>1, DoneEnded
    <3>. QED  BY <3>1, <3>3, <3>4
  <2>6. CASE ExecTask(t)
    <3>1. /\ form[t] = "execute" /\ event[t] = t
          /\ \A x \in Children(p, t) \cap AsyncWrites(p) :
               form[x] = "execute" /\ (x \in trailing[t] \/ \E v \in Children(p, t) : x \in p[v].toks)
      BY <1>1, <2>1, <2>6 DEF ExecTask, FormsInv
    <3>2. t \in ended
      BY <2>1, <3>1 DEF Fired
    <3>3. PICK y \in Children(p, t) :
            /\ Terms(p, t) = {y} /\ Kind(p, y) = "yield"
            /\ \A x \in Children(p, t) : x # y => x < y /\ p[x].region = p[y].region
                                                    /\ Kind(p, x) # "yield"
      BY <1>1, <2>1, OneBlock
    <3>4. y \in ended /\ Ready(y) /\ p[y].parent = t
      BY <1>1, <2>1, <3>2, <3>3, ChildInside
    <3>5. \A e \in trailing[t] : Fired(e)
      BY <2>2, <3>3, <3>4 DEF Ready
    <3>6. \A x \in Children(p, t) : x # y => Passed(x)
      <4>. SUFFICES ASSUME NEW x \in Children(p, t), x # y PROVE Passed(x)
        OBVIOUS
      <4>1. x \in Earlier(y)
        BY <3>3, <3>4 DEF Earlier
      <4>. QED  BY <3>4, <4>1 DEF Ready
    <3>7. \A x \in Children(p, t) : x \in begun
      BY <1>1, <3>4, <3>6 DEF Passed
    <3>8. ASSUME NEW x \in Children(p, t), x \in AsyncWrites(p) PROVE x \in landed
      <4>1. CASE x \in trailing[t]
        BY <3>5, <3>8, <4>1 DEF Fired
      <4>2. CASE \E v \in Children(p, t) : x \in p[v].toks
        BY <3>7, <3>8, <4>2, WaitFired
      <4>. QED  BY <3>1, <3>8, <4>1, <4>2
    <3>9. c \in ended
      <4>1. CASE c = y
        BY <3>4, <4>1
      <4>2. CASE c # y /\ c \in AsyncWrites(p)
        BY <1>1, <3>7, <4>2, AsyncLeaf
      <4>3. CASE c # y /\ c \notin AsyncWrites(p)
        <5>1. c \notin Tasks \/ form[c] = "source"
          <6>1. ASSUME c \in Tasks, form[c] # "source" PROVE FALSE
            <7>1. ~InConcurrent(p, c)
              BY <2>1, <2>2 DEF InConcurrent
            <7>. QED  BY <1>1, <2>1, <2>2, <6>1, <7>1
          <6>. QED  BY <6>1
        <5>2. form[c] = "execute" => Kind(p, c) = "stage"
          BY <1>1, <2>2, <4>3, <5>1 DEF FormsInv
        <5>. QED  BY <3>6, <4>3, <5>2 DEF Passed
      <4>. QED  BY <4>1, <4>2, <4>3
    <3>10. form[c] # "flattened"
      <4>1. ASSUME form[c] = "flattened" PROVE FALSE
        <5>1. c \in Tasks /\ ~InConcurrent(p, c)
          BY <1>1, <2>1, <2>2, <4>1 DEF FormsInv, InConcurrent
        <5>. QED  BY <1>1, <2>1, <2>2, <4>1, <5>1
      <4>. QED  BY <4>1
    <3>11. Done(c)
      BY <2>2, <3>1, <3>9, <3>10, DoneEnded
    <3>. QED  BY <3>8, <3>11
  <2>. QED  BY <1>1, <2>1, <2>5, <2>6
<1>3. ASSUME NEW w \in ended, NEW t \in p[w].toks, t \in AsyncWrites(p) PROVE t \in landed
  BY <1>1, <1>3, WaitFired
<1>. QED  BY <1>2, <1>3 DEF WaitDelivers, Tasks

LEMMA TokenDone ==
  ASSUME LoweredFacts, NEW w \in begun, NEW t \in p[w].toks
  PROVE  Done(t)
<1>1. /\ Legal(p) /\ FormsInv /\ w \in Ops(p)
      /\ landed \subseteq AsyncWrites(p) \cap begun
      /\ \A i \in begun : Kind(p, i) \notin RegionKinds => i \in ended
  BY DEF LoweredFacts, RunInv
<1>2. t \in Ops(p) /\ Fired(event[t]) /\ form[t] \in Lowering /\ Kind(p, t) # "yield"
  <2>1. t \in Ops(p) /\ Fired(event[t]) /\ form[t] \in Lowering
    BY WaitFired
  <2>2. Kind(p, t) # "yield"
    BY <1>1 DEF Legal, TokensOK
  <2>. QED  BY <2>1, <2>2
<1>3. CASE form[t] = "flattened"
  BY <1>2, <1>3 DEF Done
<1>4. CASE form[t] = "execute"
  <2>1. event[t] = t
    BY <1>1, <1>2, <1>4 DEF FormsInv
  <2>2. t \in ended
    BY <1>1, <1>2, <2>1, AsyncLeaf DEF Fired
  <2>. QED  BY <1>2, <1>4, <2>2, DoneEnded
<1>. QED  BY <1>2, <1>3, <1>4 DEF Lowering

\* The yield of a flattened task: the one operation before it is done when the
\* token of the task has come.
LEMMA FlatYield ==
  ASSUME LoweredFacts, NEW t \in Tasks, form[t] = "flattened", Fired(event[t]),
         NEW y \in Terms(p, t), NEW x \in Incoming(p, in, y)
  PROVE  Done(x)
<1>1. /\ Legal(p) /\ FormsInv /\ t \in Ops(p) /\ Kind(p, t) = "task" /\ FlatShape(t)
      /\ landed \subseteq AsyncWrites(p) \cap begun
      /\ \A i \in begun : Kind(p, i) \notin RegionKinds => i \in ended
      /\ \A i \in ended : Terms(p, i) \subseteq ended
  BY KindsDiffer DEF LoweredFacts, RunInv
<1>2. PICK v \in Children(p, t) :
        /\ Children(p, t) \ Terms(p, t) = {v}
        /\ event[t] = event[v]
        /\ \/ v \in AsyncWrites(p) /\ form[v] = "execute"
           \/ v \in Tasks /\ form[v] \in Lowering
  BY <1>1 DEF FlatShape
<1>3. PICK z \in Children(p, t) :
        /\ Terms(p, t) = {z} /\ Kind(p, z) = "yield"
        /\ \A c \in Children(p, t) : c # z => c < z /\ p[c].region = p[z].region
                                                /\ Kind(p, c) # "yield"
  BY <1>1, OneBlock
<1>4. /\ y = z /\ y \in Ops(p) /\ p[y].parent = t /\ v \in Ops(p) /\ p[v].parent = t
      /\ v # y /\ v < y /\ p[v].region = p[y].region /\ Kind(p, v) # "yield"
      /\ v \in Nat \ {0} /\ y \in Nat
  BY <1>1, <1>2, <1>3, ChildInside
<1>5. p[y].prev = v
  <2>1. v <= p[y].prev /\ p[y].prev \in 0..(y - 1)
    BY <1>1, <1>2, <1>4 DEF Legal, PlacedOK
  <2>2. p[y].prev # 0
    BY <1>4, <2>1
  <2>3. p[y].prev \in Children(p, t) /\ p[y].prev # y
    BY <1>1, <1>4, <2>1, <2>2, Placement DEF Children
  <2>4. p[y].prev \notin Terms(p, t)
    BY <1>3, <1>4, <2>3
  <2>. QED  BY <1>2, <2>3, <2>4
<1>6. x \in BodyFrontier(p, in, v) \cup {v}
  <2>1. ~InConcurrent(p, y)
    BY <1>1, <1>4 DEF InConcurrent
  <2>. QED  BY <1>4, <1>5, <2>1 DEF Incoming, Outgoing
<1>7. Fired(event[v])
  BY <1>2
<1>8. CASE v \in AsyncWrites(p) /\ form[v] = "execute"
  <2>1. Terms(p, v) = {} /\ Kind(p, v) \notin RegionKinds
    BY <1>1, <1>8, AsyncLeaf
  <2>2. x = v
    BY <1>6, <2>1 DEF BodyFrontier, RegionKinds, Branches
  <2>3. event[v] = v
    BY <1>1, <1>4, <1>8 DEF FormsInv
  <2>4. v \in ended
    BY <1>1, <1>7, <1>8, <2>1, <2>3 DEF Fired
  <2>. QED  BY <1>4, <1>8, <2>2, <2>4, DoneEnded
<1>9. CASE v \in Tasks /\ form[v] \in Lowering
  <2>1. Kind(p, v) = "task" /\ v \notin AsyncWrites(p)
    BY <1>9, KindsDiffer
  <2>2. x = v \/ x \in Terms(p, v)
    BY <1>6, <2>1 DEF BodyFrontier
  <2>3. \A u \in Terms(p, v) : u \in Children(p, v) /\ Kind(p, u) = "yield" /\ p[u].parent = v /\ v # 0
                                /\ u \in Ops(p) /\ form[u] # "flattened"
    <3>1. \A u \in Terms(p, v) : u \in Children(p, v)
      BY <1>1, <1>4, Placement
    <3>2. \A u \in Terms(p, v) : Kind(p, u) = "yield" /\ p[u].parent = v /\ v # 0 /\ u \in Ops(p)
      BY <1>1, <1>4, <3>1, ChildKinds, ChildInside
    <3>. QED  BY <1>1, <3>1, <3>2, KindsDiffer DEF FormsInv
  <2>4. CASE form[v] = "flattened"
    BY <1>7, <2>2, <2>3, <2>4 DEF Done
  <2>5. CASE form[v] = "execute"
    <3>1. event[v] = v
      BY <1>1, <1>4, <2>5 DEF FormsInv
    <3>2. v \in ended /\ Terms(p, v) \subseteq ended
      BY <1>1, <1>7, <2>1, <3>1 DEF Fired
    <3>. QED  BY <1>4, <2>2, <2>3, <2>5, <3>2, DoneEnded
  <2>. QED  BY <1>9, <2>4, <2>5 DEF Lowering
<1>. QED  BY <1>2, <1>8, <1>9

LEMMA InvInOrder ==
  ASSUME LoweredFacts
  PROVE  DoneInOrder
<1>1. /\ Legal(p) /\ FormsInv /\ ended \subseteq begun /\ begun \subseteq Ops(p)
      /\ \A i \in Ops(p) : Walked(p, i) => in[i] = Incoming(p, in, i)
      /\ \A i \in begun : Walked(p, i) => \A x \in in[i] : Done(x) \/ LeavesAgent(x, i)
  BY DEF LoweredFacts, RunInv
<1>. SUFFICES ASSUME NEW x \in Ops(p), NEW y \in succ[x], Done(y),
                     LeavesAgent(x, y) => x \in p[y].toks
              PROVE  Done(x)
  BY DEF DoneInOrder
<1>2. y \in Ops(p) /\ Walked(p, y) /\ x \in EdgesInto(p, in, y)
  BY DEF LoweredFacts
<1>3. p[y].toks # {} => Kind(p, y) \in {"wait", "barrier"}
  BY <1>1, <1>2 DEF Legal, TokensOK
<1>4. CASE Kind(p, y) \in RegionKinds
  <2>1. x \in BodyFrontier(p, in, y) /\ Kind(p, y) # "yield" /\ ~LeavesAgent(x, y)
    BY <1>2, <1>3, <1>4 DEF EdgesInto, RegionKinds, Branches
  <2>2. CASE form[y] = "flattened"
    <3>1. y \in Tasks /\ Kind(p, y) = "task"
      BY <1>1, <1>2, <2>2, KindsDiffer DEF FormsInv
    <3>2. x \in Terms(p, y)
      BY <2>1, <3>1 DEF BodyFrontier
    <3>3. x \in Children(p, y)
      BY <1>1, <1>2, <3>2, Placement
    <3>4. Kind(p, x) = "yield" /\ p[x].parent = y /\ y # 0
      BY <1>1, <1>2, <3>2, <3>3, ChildKinds, ChildInside
    <3>5. form[x] # "flattened"
      BY <1>1, <3>4, KindsDiffer DEF FormsInv
    <3>. QED  BY <2>2, <3>4, <3>5 DEF Done
  <2>3. CASE form[y] # "flattened"
    <3>1. y \in ended
      BY <2>1, <2>3 DEF Done
    <3>2. CASE Done(x)
      BY <3>2
    <3>3. ASSUME NEW t \in Children(p, y) \cap Tasks, form[t] \in Lowering, x = t \/ x \in Children(p, t)
          PROVE  FALSE
      <4>1. y # t /\ ~Encloses(p, t, y)
        BY <1>1, <1>2, ChildInside
      <4>. QED  BY <2>1, <3>3, <4>1, TaskLeaves
    <3>4. CASE x \in in[y]
      BY <1>1, <1>2, <2>1, <3>1, <3>4
    <3>. QED  BY <1>4, <2>1, <2>3, <3>1, <3>2, <3>3, <3>4, BodyDone
  <2>. QED  BY <2>2, <2>3
<1>5. CASE Kind(p, y) \notin RegionKinds
  <2>1. x \in Incoming(p, in, y) \/ x \in p[y].toks
    BY <1>2, <1>5 DEF EdgesInto
  <2>2. form[y] # "flattened"
    BY <1>1, <1>2, <1>5, KindsDiffer DEF FormsInv, RegionKinds
  <2>3. CASE Kind(p, y) = "yield" /\ p[y].parent # 0 /\ form[p[y].parent] = "flattened"
    <3>. DEFINE t == p[y].parent
    <3>1. t \in Ops(p) /\ t \in Tasks
      BY <1>1, <1>2, <2>3, Placement DEF FormsInv
    <3>2. y \in Terms(p, t)
      BY <1>1, <1>2, <2>3 DEF Legal, PlacedOK
    <3>3. Fired(event[t])
      BY <2>2, <2>3 DEF Done
    <3>4. x \in Incoming(p, in, y)
      BY <1>3, <2>1, <2>3
    <3>. QED  BY <2>3, <3>1, <3>2, <3>3, <3>4, FlatYield
  <2>4. CASE ~(Kind(p, y) = "yield" /\ p[y].parent # 0 /\ form[p[y].parent] = "flattened")
    <3>1. y \in begun
      BY <1>1, <2>2, <2>4 DEF Done
    <3>2. x \in p[y].toks => Done(x)
      BY <3>1, TokenDone
    <3>3. x \in Incoming(p, in, y) => Done(x) \/ LeavesAgent(x, y)
      BY <1>1, <1>2, <3>1
    <3>. QED  BY <2>1, <3>2, <3>3
  <2>. QED  BY <2>3, <2>4
<1>. QED  BY <1>4, <1>5

-----------------------------------------------------------------------------
\* Until the passes are over nothing has begun and no operation is done.
LEMMA InvKeepsOrder == AsyncIInv => AgentsKeepOrder
<1>. SUFFICES ASSUME OracleInv, LoweringInv, RunInv PROVE DoneInOrder /\ WaitDelivers
  BY DEF AsyncIInv, AgentsKeepOrder
<1>1. CASE pass = "done"
  BY <1>1, InvFacts, InvDelivers, InvInOrder
<1>2. CASE pass # "done"
  <2>1. ended = {} /\ landed = {}
    BY <1>2 DEF RunInv
  <2>2. \A y : ~Done(y)
    BY <2>1 DEF Done, Fired
  <2>. QED  BY <2>1, <2>2 DEF DoneInOrder, WaitDelivers
<1>. QED  BY <1>1, <1>2

LEMMA RunPreserves ==
  ASSUME OracleInv, LoweringInv, RunInv, Run
  PROVE  RunInv'
<1>0. /\ pass = "done" /\ UNCHANGED <<oracleVars, loweringVars>>
      /\ p' = p /\ pass' = pass /\ in' = in
  BY DEF Run, oracleVars, loweringVars
<1>1. LoweredFacts
  BY <1>0, InvFacts
<1>2. /\ begun \subseteq Ops(p) /\ ended \subseteq begun /\ landed \subseteq AsyncWrites(p) \cap begun
      /\ \A i \in begun : Kind(p, i) \notin RegionKinds => i \in ended
      /\ \A i \in begun : Ready(i)
      /\ \A i \in ended : Terms(p, i) \subseteq ended
      /\ \A i \in begun : Walked(p, i) => \A x \in in[i] : Done(x) \/ LeavesAgent(x, i)
      /\ Legal(p)
  BY <1>1 DEF RunInv, LoweredFacts
<1>3. PICK i \in Ops(p) : Start(i) \/ Land(i) \/ Finish(i)
  BY DEF Run
<1>4. begun \subseteq begun' /\ ended \subseteq ended' /\ landed \subseteq landed'
  BY <1>3 DEF Start, Land, Finish
<1>5. /\ \A j : Ready(j) => Ready(j)'
      /\ \A j : Done(j) => Done(j)'
      /\ \A j, k : LeavesAgent(j, k)' = LeavesAgent(j, k)
  BY <1>0, <1>4, RunMonotone
<1>6. ASSUME NEW j \in begun PROVE Ready(j)' /\ (Walked(p, j) => \A x \in in[j] : Done(x)' \/ LeavesAgent(x, j)')
  BY <1>2, <1>5, <1>6
<1>7. CASE Start(i)
  <2>1. /\ Ready(i) /\ begun' = begun \cup {i} /\ landed' = landed
        /\ ended' = IF Kind(p, i) \in RegionKinds THEN ended ELSE ended \cup {i}
    BY <1>7 DEF Start
  <2>2. Walked(p, i) => \A x \in in[i] : Done(x)' \/ LeavesAgent(x, i)'
    BY <1>1, <1>5, <2>1, FrontierDone
  <2>3. Kind(p, i) \notin RegionKinds => Terms(p, i) = {}
    BY <1>2, LeavesAreLeaves, Placement
  <2>4. /\ \A j \in begun' : Ready(j)'
        /\ \A j \in begun' : Walked(p, j) => \A x \in in[j] : Done(x)' \/ LeavesAgent(x, j)'
    BY <1>5, <1>6, <2>1, <2>2
  <2>5. /\ begun' \subseteq Ops(p) /\ ended' \subseteq begun' /\ landed' \subseteq AsyncWrites(p) \cap begun'
        /\ \A j \in begun' : Kind(p, j) \notin RegionKinds => j \in ended'
        /\ \A j \in ended' : Terms(p, j) \subseteq ended'
    BY <1>2, <2>1, <2>3
  <2>. QED  BY <1>0, <2>4, <2>5 DEF RunInv
<1>8. CASE Land(i)
  <2>1. /\ i \in AsyncWrites(p) \cap begun /\ begun' = begun /\ ended' = ended /\ landed' = landed \cup {i}
    BY <1>8 DEF Land
  <2>2. /\ \A j \in begun' : Ready(j)'
        /\ \A j \in begun' : Walked(p, j) => \A x \in in[j] : Done(x)' \/ LeavesAgent(x, j)'
    BY <1>6, <2>1
  <2>. QED  BY <1>0, <1>2, <2>1, <2>2 DEF RunInv
<1>9. CASE Finish(i)
  <2>1. /\ i \in begun /\ begun' = begun /\ ended' = ended \cup {i} /\ landed' = landed
        /\ Terms(p, i) \subseteq ended
    BY <1>9 DEF Finish
  <2>2. /\ \A j \in begun' : Ready(j)'
        /\ \A j \in begun' : Walked(p, j) => \A x \in in[j] : Done(x)' \/ LeavesAgent(x, j)'
    BY <1>6, <2>1
  <2>. QED  BY <1>0, <1>2, <2>1, <2>2 DEF RunInv
<1>. QED  BY <1>3, <1>7, <1>8, <1>9

LEMMA RunFrame ==
  ASSUME RunInv, UNCHANGED <<oracleVars, loweringVars, asyncVars>>
  PROVE  RunInv'
<1>1. /\ p' = p /\ in' = in /\ pass' = pass /\ begun' = begun /\ ended' = ended /\ landed' = landed
      /\ UNCHANGED <<oracleVars, loweringVars>>
  BY DEF oracleVars, loweringVars, asyncVars
<1>2. /\ \A i : Ready(i) => Ready(i)'
      /\ \A i : Done(i) => Done(i)'
      /\ \A i, j : LeavesAgent(i, j)' = LeavesAgent(i, j)
  BY <1>1, RunMonotone
<1>. QED  BY <1>1, <1>2 DEF RunInv

LEMMA AsyncInit == Init => AsyncIInv
<1>. SUFFICES ASSUME Init PROVE AsyncIInv
  OBVIOUS
<1>1. OracleInv /\ pc = "walk" /\ LoweringInit /\ begun = {} /\ ended = {} /\ landed = {}
  BY OracleInitInv DEF Init, OracleInit
<1>2. /\ pass = "tokens" /\ worklist = {} /\ erased = {}
      /\ form = [i \in Ops(p) |-> "source"]
      /\ event = [i \in Ops(p) |-> i]
      /\ trailing = [i \in Ops(p) |-> {}]
  BY <1>1 DEF LoweringInit
<1>3. FormsInv
  BY <1>2 DEF FormsInv
<1>4. CopiesInv /\ TasksInv /\ TaskOrderInv /\ WaitsInv /\ ConcurrentInv
  BY <1>2 DEF CopiesInv, TasksInv, TaskOrderInv, WaitsInv, ConcurrentInv
<1>5. PassInv
  BY <1>1, <1>2 DEF PassInv, FailsOnlyOnKept
<1>6. RunInv
  BY <1>1, <1>2 DEF RunInv
<1>. QED  BY <1>1, <1>3, <1>4, <1>5, <1>6 DEF AsyncIInv, LoweringInv

LEMMA AsyncStep == AsyncIInv /\ [Next]_vars => AsyncIInv'
<1>. SUFFICES ASSUME OracleInv, LoweringInv, RunInv, [Next]_vars
              PROVE  OracleInv' /\ LoweringInv' /\ RunInv'
  BY DEF AsyncIInv
<1>1. Legal(p)
  BY DEF OracleInv, OracleTypeOK
<1>2. CASE Check
  <2>1. OracleNext /\ UNCHANGED loweringVars /\ UNCHANGED asyncVars
    BY <1>2 DEF Check
  <2>2. p' = p /\ pc # "accepted" /\ pass = "tokens"
    BY <2>1, CheckIsBefore DEF LoweringInv, PassInv
  <2>3. OracleInv'
    BY <2>1, OracleStep
  <2>4. LoweringInv'
    BY <2>1, <2>2, LoweringFrame
  <2>5. RunInv'
    <3>1. begun = {} /\ ended = {} /\ landed = {}
      BY <2>2 DEF RunInv
    <3>2. begun' = {} /\ ended' = {} /\ landed' = {}
      BY <2>1, <3>1 DEF asyncVars
    <3>. QED  BY <3>2 DEF RunInv
  <2>. QED  BY <2>3, <2>4, <2>5
<1>3. CASE Convert
  <2>1. pc = "accepted" /\ Lower /\ UNCHANGED oracleVars /\ UNCHANGED asyncVars /\ p' = p /\ pc' = pc
    BY <1>3 DEF Convert, oracleVars
  <2>2. OracleInv'
    BY <2>1, OracleStep
  <2>3. LoweringInv'
    BY <1>1, <2>1, LowerPreserves
  <2>4. RunInv'
    <3>1. pass # "done"
      BY <2>1 DEF Lower, LowerCopies, LowerWait, TouchErased, NextPass, LowerTask, LowerConcurrent,
                  LowerPipeline
    <3>2. begun = {} /\ ended = {} /\ landed = {}
      BY <3>1 DEF RunInv
    <3>3. begun' = {} /\ ended' = {} /\ landed' = {}
      BY <2>1, <3>2 DEF asyncVars
    <3>. QED  BY <3>3 DEF RunInv
  <2>. QED  BY <2>2, <2>3, <2>4
<1>4. CASE Run
  <2>1. UNCHANGED oracleVars /\ UNCHANGED loweringVars /\ p' = p /\ pc' = pc
    BY <1>4 DEF Run, oracleVars
  <2>2. OracleInv'
    BY <2>1, OracleStep
  <2>3. LoweringInv'
    BY <2>1, LoweringFrame
  <2>. QED  BY <1>4, <2>2, <2>3, RunPreserves
<1>5. CASE UNCHANGED vars
  <2>1. UNCHANGED oracleVars /\ UNCHANGED loweringVars /\ UNCHANGED asyncVars /\ p' = p /\ pc' = pc
    BY <1>5 DEF vars, oracleVars
  <2>2. OracleInv'
    BY <2>1, OracleStep
  <2>3. LoweringInv'
    BY <2>1, LoweringFrame
  <2>. QED  BY <2>1, <2>2, <2>3, RunFrame
<1>. QED  BY <1>2, <1>3, <1>4, <1>5 DEF Next

\* What the asynchronous form keeps of the order the oracle derived, for every
\* legal program that the passes lower to the end, and what a wait delivers.
THEOREM LoweringKeepsOrder == Spec => []AgentsKeepOrder
<1>1. AsyncIInv => AgentsKeepOrder
  BY InvKeepsOrder
<1>. QED  BY <1>1, AsyncInit, AsyncStep, PTL DEF Spec

\* The token pass refuses only what it was not made for.
THEOREM LoweringRefuses == Spec => []FailsOnlyOnKept
<1>1. AsyncIInv => FailsOnlyOnKept
  BY DEF AsyncIInv, LoweringInv, PassInv
<1>. QED  BY <1>1, AsyncInit, AsyncStep, PTL DEF Spec

-----------------------------------------------------------------------------
(***************************************************************************)
(* What is over when a read begins.                                        *)
(***************************************************************************)
Agent(e) == e \in Tasks /\ form[e] \in Lowering

\* Every operation in another is one of its operations, or in one of them.
LEMMA ChildHolds ==
  ASSUME NEW q, Legal(q), NEW a \in Ops(q), NEW z \in Ops(q), Encloses(q, a, z)
  PROVE  \E c \in Children(q, a) : Holds(q, c, z)
<1>. DEFINE Bad == {i \in Ops(q) : Encloses(q, a, i) /\ \A c \in Children(q, a) : ~Holds(q, c, i)}
<1>1. SUFFICES ASSUME NEW i0 \in Bad PROVE FALSE
  OBVIOUS
<1>2. PICK i \in Bad : \A k \in Bad : i <= k
  <2>1. Bad \subseteq Nat
    BY Placement
  <2>. HIDE DEF Bad
  <2>. QED  BY <1>1, <2>1, LeastNat
<1>3. /\ i \in Ops(q) /\ Encloses(q, a, i) /\ i \in Nat \ {0} /\ a \in Nat \ {0}
      /\ \A c \in Children(q, a) : ~Holds(q, c, i)
  BY Placement
<1>. DEFINE o == q[i].parent
<1>4. o \in Ops(q) /\ i \in Children(q, o) /\ ~(i <= o) /\ Encloses(q, o, i)
      /\ (o = a \/ Encloses(q, a, o))
  BY <1>3, ParentHeld
<1>5. CASE o = a
  BY <1>3, <1>4, <1>5 DEF Holds
<1>6. CASE o # a
  <2>1. o \notin Bad
    BY <1>2, <1>3, <1>4
  <2>2. PICK c \in Children(q, a) : Holds(q, c, o)
    BY <1>4, <1>6, <2>1
  <2>3. c \in Ops(q) /\ Holds(q, o, i)
    BY <1>4, ChildInside DEF Holds
  <2>4. Holds(q, c, i)
    BY <1>3, <1>4, <2>2, <2>3, HoldsTrans
  <2>. QED  BY <1>3, <2>2, <2>4
<1>. QED  BY <1>5, <1>6

\* An operation without regions holds itself only.
LEMMA LeafHolds ==
  ASSUME NEW q, Legal(q), NEW a \in Ops(q), Kind(q, a) \notin RegionKinds, NEW z \in Ops(q), Holds(q, a, z)
  PROVE  z = a
BY ChildHolds, LeavesAreLeaves DEF Holds

\* What has begun is in operations that have.
LEMMA HolderBegun ==
  ASSUME LoweredFacts, NEW a \in Ops(p), NEW z \in begun, Encloses(p, a, z)
  PROVE  a \in begun
<1>. DEFINE Bad == {i \in begun : Encloses(p, a, i) /\ a \notin begun}
<1>1. Legal(p) /\ begun \subseteq Ops(p) /\ \A i \in begun : Ready(i)
  BY DEF LoweredFacts, RunInv
<1>2. SUFFICES ASSUME NEW i0 \in Bad PROVE FALSE
  OBVIOUS
<1>3. PICK i \in Bad : \A k \in Bad : i <= k
  <2>1. Bad \subseteq Nat
    BY <1>1, Placement
  <2>. HIDE DEF Bad
  <2>. QED  BY <1>2, <2>1, LeastNat
<1>4. i \in Ops(p) /\ i \in begun /\ Encloses(p, a, i) /\ a \notin begun /\ i \in Nat \ {0} /\ a \in Nat \ {0}
  BY <1>1, Placement
<1>. DEFINE o == p[i].parent
<1>5. o \in Ops(p) /\ ~(i <= o) /\ (o = a \/ Encloses(p, a, o))
  BY <1>1, <1>4, ParentHeld
<1>6. o \in begun
  BY <1>1, <1>4, <1>5, Placement DEF Ready
<1>. QED  BY <1>3, <1>4, <1>5, <1>6

\* Control has passed what comes before an operation that has begun.
LEMMA DominatorPassed ==
  ASSUME LoweredFacts, NEW i \in begun, NEW d \in Ops(p), Dominates(p, d, i)
  PROVE  Passed(d)
<1>1. Legal(p) /\ begun \subseteq Ops(p) /\ \A k \in begun : Ready(k)
  BY DEF LoweredFacts, RunInv
<1>2. PICK j \in Children(p, p[d].parent) :
        d < j /\ p[j].region = p[d].region /\ (j = i \/ Encloses(p, j, i))
  BY DEF Dominates
<1>3. j \in Ops(p) /\ p[j].parent = p[d].parent
  BY DEF Children
<1>4. j \in begun
  BY <1>2, <1>3, HolderBegun
<1>5. d \in Earlier(j)
  BY <1>2, <1>3 DEF Earlier, Children
<1>. QED  BY <1>1, <1>4, <1>5 DEF Ready

\* What control has passed is over, unless it is an agent.
LEMMA PassedEnded ==
  ASSUME LoweredFacts, NEW d \in Ops(p), Passed(d), ~Agent(d)
  PROVE  d \in ended
<1>1. /\ Legal(p) /\ FormsInv
      /\ \A i \in begun : Kind(p, i) \notin RegionKinds => i \in ended
  BY DEF LoweredFacts, RunInv
<1>2. CASE form[d] = "execute" /\ Kind(p, d) # "stage"
  <2>1. d \in AsyncWrites(p)
    BY <1>1, <1>2 DEF FormsInv, Agent, Lowering
  <2>. QED  BY <1>1, <1>2, <2>1, AsyncLeaf DEF Passed
<1>. QED  BY <1>2 DEF Passed

\* With an operation its own are over, but for the agents launched in it.
LEMMA ChildEnded ==
  ASSUME LoweredFacts, NEW b \in ended, NEW z \in Children(p, b), ~Agent(z)
  PROVE  z \in ended
<1>1. /\ Legal(p) /\ b \in Ops(p) /\ ended \subseteq begun /\ \A i \in begun : Ready(i)
      /\ Terms(p, b) \subseteq ended
  BY DEF LoweredFacts, RunInv
<1>2. PICK y \in Terms(p, b) :
        y \in Children(p, b) /\ (z = y \/ (z < y /\ p[z].region = p[y].region))
  BY <1>1, YieldIsLast
<1>3. y \in ended /\ Ready(y)
  BY <1>1, <1>2
<1>4. CASE z # y
  <2>1. z \in Earlier(y)
    BY <1>2, <1>4 DEF Earlier, Children
  <2>2. Passed(z) /\ z \in Ops(p)
    BY <1>3, <2>1 DEF Ready, Children
  <2>. QED  BY <2>2, PassedEnded
<1>. QED  BY <1>2, <1>3, <1>4

\* With an operation all that it holds is over, up to the agents launched in it.
LEMMA EndedInside ==
  ASSUME LoweredFacts, NEW b \in ended, NEW z \in Ops(p), Encloses(p, b, z),
         \A e \in Ops(p) : Agent(e) /\ Encloses(p, b, e) => ~Holds(p, e, z)
  PROVE  z \in ended
<1>. DEFINE Free(i) == Encloses(p, b, i) /\ \A e \in Ops(p) : Agent(e) /\ Encloses(p, b, e) => ~Holds(p, e, i)
            Bad == {i \in Ops(p) : Free(i) /\ i \notin ended}
<1>1. Legal(p) /\ b \in Ops(p)
  BY DEF LoweredFacts, RunInv
<1>2. SUFFICES ASSUME NEW i0 \in Bad PROVE FALSE
  OBVIOUS
<1>3. PICK i \in Bad : \A k \in Bad : i <= k
  <2>1. Bad \subseteq Nat
    BY <1>1, Placement
  <2>. HIDE DEF Bad
  <2>. QED  BY <1>2, <2>1, LeastNat
<1>4. i \in Ops(p) /\ Free(i) /\ i \notin ended /\ i \in Nat \ {0} /\ b \in Nat \ {0}
  BY <1>1, Placement
<1>. DEFINE o == p[i].parent
<1>5. /\ o \in Ops(p) /\ i \in Children(p, o) /\ ~(i <= o) /\ Encloses(p, o, i)
      /\ o = b \/ Encloses(p, b, o)
  BY <1>1, <1>4, ParentHeld
<1>6. o \in ended
  <2>1. CASE o = b
    BY <2>1
  <2>2. CASE o # b
    <3>1. Encloses(p, b, o)
      BY <1>5, <2>2
    <3>2. ASSUME NEW e \in Ops(p), Agent(e), Encloses(p, b, e), Holds(p, e, o)
          PROVE  FALSE
      <4>1. Holds(p, o, i)
        BY <1>5 DEF Holds
      <4>2. Holds(p, e, i)
        BY <1>1, <1>4, <1>5, <3>2, <4>1, HoldsTrans
      <4>. QED  BY <1>4, <3>2, <4>2
    <3>. QED  BY <1>3, <1>4, <1>5, <3>1, <3>2
  <2>. QED  BY <2>1, <2>2
<1>7. ~Agent(i)
  BY <1>4 DEF Holds
<1>. QED  BY <1>4, <1>5, <1>6, <1>7, ChildEnded

\* What comes before a read in the program is over when the read begins, if
\* every agent around it is one the read is in.
LEMMA PrecedesEnded ==
  ASSUME LoweredFacts, NEW r \in begun, NEW c \in Ops(p), Precedes(p, c, r), ~LeavesAgent(c, r)
  PROVE  c \in ended
<1>1. Legal(p) /\ r \in Ops(p)
  BY DEF LoweredFacts, RunInv
<1>2. PICK d \in Ops(p) : Holds(p, d, c) /\ Dominates(p, d, r)
  BY DEF Precedes
<1>3. d < r /\ ~Encloses(p, d, r) /\ d # r
  BY <1>1, <1>2, DominatesBefore, Placement
<1>4. ASSUME NEW e \in Ops(p), Agent(e), Holds(p, e, c) PROVE r = e \/ Encloses(p, e, r)
  BY <1>4 DEF LeavesAgent, Agent, Holds, Tasks, Lowering
<1>5. ~Agent(d)
  BY <1>2, <1>3, <1>4
<1>6. d \in ended
  BY <1>2, <1>5, DominatorPassed, PassedEnded
<1>7. CASE c = d
  BY <1>6, <1>7
<1>8. CASE Encloses(p, d, c)
  <2>1. ASSUME NEW e \in Ops(p), Agent(e), Encloses(p, d, e), Holds(p, e, c) PROVE FALSE
    <3>1. Holds(p, e, r)
      BY <1>4, <2>1 DEF Holds
    <3>. QED  BY <1>1, <1>3, <2>1, <3>1, EnclosesTrans DEF Holds
  <2>. QED  BY <1>6, <1>8, <2>1, EndedInside
<1>. QED  BY <1>2, <1>7, <1>8 DEF Holds

\* What JoinInv says of a lowered program.
JoinFacts ==
  /\ \A c \in Concurrents : form[c] = "inlined"
  /\ \A c, d \in Concurrents : ~Encloses(p, c, d)
  /\ \A x \in AsyncWrites(p) \ TokenCopies :
       form[x] = "execute" => p[x].parent \in Tasks \/ JoinedInStage(x)

\* A task that was the frame of a copy holds nothing else.
LEMMA FlatHolds ==
  ASSUME Legal(p), NEW t \in Tasks, FlatCopy(t), NEW z \in Ops(p), Encloses(p, t, z), Kind(p, z) # "yield"
  PROVE  z \in AsyncWrites(p) /\ event[t] = z
<1>1. t \in Ops(p)
  BY DEF Tasks, OfKind
<1>2. PICK v \in AsyncWrites(p) :
        Children(p, t) \ Terms(p, t) = {v} /\ form[v] = "execute" /\ event[t] = v
  BY DEF FlatCopy
<1>3. PICK c \in Children(p, t) : Holds(p, c, z)
  BY <1>1, ChildHolds
<1>4. c \in Ops(p) /\ (Kind(p, c) = "yield" \/ c = v)
  BY <1>1, <1>2, <1>3, ChildInside, ChildKinds
<1>5. Kind(p, c) \notin RegionKinds
  BY <1>4, AsyncLeaf DEF RegionKinds, Branches
<1>6. z = c
  BY <1>3, <1>4, <1>5, LeafHolds
<1>. QED  BY <1>2, <1>4, <1>6

\* An event task that is over.
LEMMA ExecEnded ==
  ASSUME LoweredFacts, NEW t \in Tasks, ExecTask(t), Fired(event[t])
  PROVE  t \in ended
BY KindsDiffer DEF LoweredFacts, FormsInv, ExecTask, Fired

\* A copy in a waited task has landed when the wait is over, if the lowering
\* made it an execute.
LEMMA WaitedCopy ==
  ASSUME LoweredFacts, JoinFacts, NEW w \in ended, NEW t \in p[w].toks,
         NEW x \in AsyncWrites(p), form[x] # "source", IsParentTask(p, t, x)
  PROVE  x \in landed
<1>1. /\ Legal(p) /\ FormsInv /\ ended \subseteq begun /\ begun \subseteq Ops(p)
      /\ \A k \in begun : Ready(k)
      /\ \A k \in ended : Terms(p, k) \subseteq ended
      /\ x \in Ops(p) /\ Kind(p, x) # "yield"
  BY AsyncLeaf DEF LoweredFacts, RunInv
<1>2. t \in Tasks /\ Encloses(p, t, x) /\ t \in Ops(p) /\ \A u \in TasksAround(p, x) : u <= t
  BY DEF IsParentTask, TasksAround, Tasks, OfKind
<1>3. t \in EventTasks /\ Fired(event[t]) /\ (FlatCopy(t) \/ ExecTask(t))
  BY <1>1, <1>2, WaitFired DEF LoweredFacts
<1>4. CASE FlatCopy(t)
  BY <1>1, <1>2, <1>3, <1>4, FlatHolds DEF Fired
<1>5. CASE ExecTask(t)
  <2>1. t \in ended
    BY <1>2, <1>3, <1>5, ExecEnded
  <2>2. x \notin TokenCopies
    BY <1>3 DEF TokenCopies, InsideEventTask
  <2>3. form[x] = "execute"
    <3>1. x \notin Tasks /\ x \notin Waits /\ Kind(p, x) \notin {"concurrent", "pipeline"}
      <4>1. Kind(p, x) \in {"acopy", "stream"}
        BY DEF AsyncWrites
      <4>. QED  BY <4>1, KindsDiffer
    <3>2. form[x] \in {"source", "execute", "flattened", "inlined", "await"}
      BY <1>1 DEF FormsInv
    <3>. QED  BY <1>1, <3>1, <3>2 DEF FormsInv
  <2>. DEFINE s == p[x].parent
  <2>4. /\ s \in Ops(p) /\ x \in Children(p, s) /\ Encloses(p, s, x)
        /\ s = t \/ (Encloses(p, t, s) /\ t < s)
    BY <1>1, <1>2, ParentHeld
  <2>5. CASE s \in Tasks
    <3>1. s = t
      <4>1. s <= t /\ s \in Nat /\ t \in Nat
        BY <1>1, <1>2, <2>4, <2>5, Placement DEF TasksAround, Tasks
      <4>. QED  BY <2>4, <4>1
    <3>2. WaitDelivers
      BY InvDelivers
    <3>. QED  BY <1>2, <2>4, <3>1, <3>2 DEF WaitDelivers, Tasks
  <2>6. CASE JoinedInStage(x)
    <3>1. /\ s \in OfKind(p, "stage") /\ form[s] = "execute"
          /\ x \in trailing[s] \/ \E v \in Children(p, s) : x \in p[v].toks
      BY <2>6 DEF JoinedInStage
    <3>2. Encloses(p, t, s)
      <4>1. s # t
        BY <1>2, <3>1 DEF Tasks, OfKind
      <4>. QED  BY <2>4, <4>1
    <3>3. ASSUME NEW e \in Ops(p), Agent(e), Encloses(p, t, e), Holds(p, e, s) PROVE FALSE
      <4>1. Encloses(p, e, x)
        BY <1>1, <2>4, <3>3, EnclosesTrans DEF Holds
      <4>2. e \in TasksAround(p, x)
        BY <3>3, <4>1 DEF TasksAround, Agent, Tasks
      <4>3. e <= t /\ t < e /\ e \in Nat
        BY <1>2, <3>3, <4>2, Placement, <1>1 DEF Encloses
      <4>. QED  BY <1>1, <1>2, <4>3, Placement
    <3>4. s \in ended
      BY <2>1, <2>4, <3>2, <3>3, EndedInside
    <3>5. CASE x \in trailing[s]
      <4>1. PICK y \in Terms(p, s) : y \in Children(p, s) /\ Kind(p, y) = "yield"
        BY <1>1, <2>4, YieldIsLast
      <4>2. Ready(y) /\ p[y].parent = s /\ s # 0
        BY <1>1, <2>4, <3>4, <4>1, ChildInside
      <4>3. Fired(x)
        BY <3>5, <4>1, <4>2 DEF Ready
      <4>. QED  BY <4>3 DEF Fired
    <3>6. ASSUME NEW v \in Children(p, s), x \in p[v].toks PROVE x \in landed
      <4>1. v \in Ops(p) /\ Kind(p, v) \in {"wait", "barrier"}
        BY <1>1, <3>6 DEF Children, Legal, TokensOK
      <4>2. ~Agent(v)
        BY <4>1 DEF Agent, Tasks, OfKind, Kind
      <4>3. v \in ended
        BY <3>4, <4>2, ChildEnded
      <4>. QED  BY <1>1, <3>6, <4>3, WaitFired
    <3>. QED  BY <3>1, <3>5, <3>6
  <2>. QED  BY <2>2, <2>3, <2>5, <2>6 DEF JoinFacts
<1>. QED  BY <1>3, <1>4, <1>5

\* A known candidate that is over, and came first, has defined what r reads.
LEMMA KnownDefines ==
  ASSUME LoweredFacts, JoinFacts, AliasInv, pc = "accepted",
         NEW r \in Reads(p), NEW c \in KnownCandidates(r), c \in ended, c < r
  PROVE  Defined(r)
<1>1. /\ Legal(p) /\ ended \subseteq begun /\ begun \subseteq Ops(p) /\ r \in Ops(p) /\ r \in Nat
      /\ c \in Ops(p) /\ c \in Nat
  BY OpsArePositive DEF LoweredFacts, RunInv
<1>2. /\ c \in Candidates(r)
      /\ \/ c \in SyncWrites(p)
         \/ \E x \in AsyncWrites(p) :
              /\ p[x].dst = p[r].src
              /\ \/ x \in p[c].toks
                 \/ form[x] # "source" /\ \E t \in p[c].toks : IsParentTask(p, t, x)
  BY DEF KnownCandidates
<1>3. CASE c \in SyncWrites(p)
  <2>1. c \in sync[p[r].src]
    <3>1. \A i : c \notin Consumers(p, i)
      BY <1>3 DEF SyncWrites, Consumers
    <3>. QED  BY <1>2, <3>1 DEF Candidates
  <2>2. p[r].src \in Residencies(p)
    BY <1>1 DEF Residencies
  <2>3. Carries(Aliases(p), p[c].dst, p[r].src)
    BY <2>1, <2>2 DEF AliasInv
  <2>. QED  BY <1>1, <1>3, <2>3 DEF Defined, Written
<1>4. ASSUME NEW x \in AsyncWrites(p), p[x].dst = p[r].src,
             \/ x \in p[c].toks
             \/ form[x] # "source" /\ \E t \in p[c].toks : IsParentTask(p, t, x)
      PROVE  Defined(r)
  <2>1. x \in landed
    <3>1. x \in p[c].toks => x \in landed
      BY <1>1, WaitFired
    <3>. QED  BY <1>4, <3>1, WaitedCopy
  <2>2. x < c
    <3>1. ASSUME NEW t \in p[c].toks PROVE t \in Ops(p) /\ t < c /\ ~Encloses(p, t, c)
      <4>1. t \in Ops(p) /\ Dominates(p, t, c)
        BY <1>1, Placement DEF Legal, TokensOK
      <4>. QED  BY <1>1, <4>1, DominatesBefore
    <3>2. ASSUME NEW t \in p[c].toks, IsParentTask(p, t, x) PROVE x < c
      <4>1. Encloses(p, t, x) /\ t \in Nat /\ x \in Nat /\ x \in Ops(p)
        BY <1>1, <3>1, <3>2, AsyncLeaf, Placement DEF IsParentTask, TasksAround
      <4>. QED  BY <1>1, <3>1, <4>1, EnclosesOuter
    <3>. QED  BY <1>4, <3>1, <3>2
  <2>3. x # r
    BY <1>1, <2>2, AsyncLeaf, Placement
  <2>4. Carries(Aliases(p), p[x].dst, p[r].src)
    BY <1>4 DEF Carries
  <2>. QED  BY <2>1, <2>3, <2>4 DEF Defined, Written
<1>. QED  BY <1>2, <1>3, <1>4

\* Nothing in a task of a concurrent region is in another concurrent region.
LEMMA NoInnerConcurrent ==
  ASSUME LoweredFacts, JoinFacts, NEW t \in Tasks, InConcurrent(p, t), NEW e \in Tasks, Encloses(p, t, e)
  PROVE  ~InConcurrent(p, e)
<1>. DEFINE c == p[t].parent
            d == p[e].parent
<1>1. Legal(p) /\ t \in Ops(p) /\ e \in Ops(p)
  BY DEF LoweredFacts, Tasks, OfKind
<1>2. SUFFICES ASSUME InConcurrent(p, e) PROVE FALSE
  OBVIOUS
<1>3. c \in Concurrents /\ d \in Concurrents /\ t \in Children(p, c) /\ e \in Children(p, d)
  BY <1>1, <1>2, Placement DEF InConcurrent, Concurrents, OfKind, Kind, Children
<1>4. c \in Ops(p) /\ d \in Ops(p) /\ Encloses(p, c, t)
  BY <1>1, <1>3, ChildInside DEF Concurrents, OfKind
<1>5. d # t
  BY <1>3 DEF Concurrents, Tasks, OfKind
<1>6. Encloses(p, t, d)
  BY <1>1, <1>5, ParentHeld
<1>7. Encloses(p, c, d)
  BY <1>1, <1>4, <1>6, EnclosesTrans
<1>. QED  BY <1>3, <1>7 DEF JoinFacts

\* The agents in such a task are waited tasks, and are over when it is: the
\* last one that was not would have a wait in the task that is over.
LEMMA AgentsEnded ==
  ASSUME LoweredFacts, JoinFacts, NEW t \in ended, t \in Tasks, InConcurrent(p, t),
         NEW e \in Ops(p), Agent(e), Encloses(p, t, e), ExecTask(e)
  PROVE  e \in ended
<1>1. /\ Legal(p) /\ FormsInv /\ t \in Ops(p) /\ ended \subseteq begun /\ begun \subseteq Ops(p)
      /\ \A u \in EventTasks : FlatCopy(u) \/ ExecTask(u)
      /\ \A u, v \in EventTasks : ~Encloses(p, u, v)
      /\ \A u \in Tasks : form[u] # "source" => u \in EventTasks \/ InConcurrent(p, u)
  BY DEF LoweredFacts, RunInv
<1>2. ASSUME NEW f \in Ops(p), Agent(f), Encloses(p, t, f)
      PROVE  f \in EventTasks /\ f \in Tasks
  <2>1. f \in Tasks /\ form[f] # "source"
    BY <1>2 DEF Agent, Lowering
  <2>. QED  BY <1>1, <1>2, <2>1, NoInnerConcurrent
<1>. DEFINE Open == {f \in Ops(p) : Agent(f) /\ Encloses(p, t, f) /\ ExecTask(f) /\ f \notin ended}
<1>3. SUFFICES ASSUME e \in Open PROVE FALSE
  OBVIOUS
<1>4. PICK f \in Open : \A g \in Open : g <= f
  <2>1. Open \subseteq Int /\ IsFiniteSet(Open)
    <3>1. Ops(p) = 1..Len(p) /\ Len(p) \in Nat
      BY <1>1, Placement
    <3>2. IsFiniteSet(Ops(p)) /\ Ops(p) \subseteq Int
      BY <3>1, FS_Interval
    <3>. QED  BY <3>2, FS_Subset
  <2>. HIDE DEF Open
  <2>. QED  BY <1>3, <2>1, GreatestInt
<1>5. /\ f \in Ops(p) /\ Agent(f) /\ Encloses(p, t, f) /\ ExecTask(f) /\ f \notin ended
      /\ f \in EventTasks /\ f \in Tasks
  BY <1>2
<1>6. PICK w \in Ops(p) : f \in p[w].toks
  BY <1>5 DEF EventTasks, Waited, Consumers
<1>7. Dominates(p, f, w) /\ Kind(p, w) \in {"wait", "barrier"}
  BY <1>1, <1>6 DEF Legal, TokensOK
<1>8. ~Encloses(p, f, w)
  BY <1>1, <1>5, <1>7, DominatesBefore
<1>9. PICK j \in Children(p, p[f].parent) :
        f < j /\ p[j].region = p[f].region /\ (j = w \/ Encloses(p, j, w))
  BY <1>7 DEF Dominates
<1>10. j \in Ops(p) /\ p[j].parent = p[f].parent /\ Holds(p, j, w)
  BY <1>9 DEF Children, Holds
<1>11. Encloses(p, t, w)
  <2>1. Encloses(p, t, j)
    BY <1>1, <1>5, <1>10, EnclosesBlock
  <2>. QED  BY <1>1, <1>10, <2>1, EnclosesTrans DEF Holds
<1>12. w \in ended
  <2>1. CASE \E g \in Ops(p) : Agent(g) /\ Encloses(p, t, g) /\ Holds(p, g, w)
    <3>1. PICK g \in Ops(p) : Agent(g) /\ Encloses(p, t, g) /\ Holds(p, g, w)
      BY <2>1
    <3>2. g \in EventTasks /\ g \in Tasks
      BY <1>2, <3>1
    <3>3. g # w /\ Encloses(p, g, w) /\ w \notin AsyncWrites(p) /\ Kind(p, w) # "yield"
      BY <1>7, <3>1, <3>2 DEF Holds, Tasks, OfKind, Kind, AsyncWrites
    <3>4. ExecTask(g)
      BY <1>1, <3>2, <3>3, FlatHolds
    <3>5. ~(g < j)
      <4>1. ASSUME g < j PROVE FALSE
        <5>1. Encloses(p, g, j)
          BY <1>1, <1>10, <3>1, <4>1, HoldsBetween
        <5>2. Encloses(p, g, f)
          BY <1>1, <1>5, <1>10, <5>1, EnclosesBlock
        <5>. QED  BY <1>1, <1>5, <3>2, <5>2
      <4>. QED  BY <4>1
    <3>6. f < g
      BY <1>1, <1>9, <1>10, <3>5, Placement
    <3>7. g \in ended
      <4>1. ~(g <= f)
        BY <1>1, <1>5, <3>6, Placement
      <4>. QED  BY <1>4, <3>1, <3>4, <4>1
    <3>8. ASSUME NEW h \in Ops(p), Agent(h), Encloses(p, g, h) PROVE FALSE
      <4>1. Encloses(p, t, h)
        BY <1>1, <3>1, <3>8, EnclosesTrans
      <4>. QED  BY <1>1, <1>2, <3>2, <3>8, <4>1
    <3>. QED  BY <3>3, <3>7, <3>8, EndedInside
  <2>2. CASE ~\E g \in Ops(p) : Agent(g) /\ Encloses(p, t, g) /\ Holds(p, g, w)
    BY <1>11, <2>2, EndedInside
  <2>. QED  BY <2>1, <2>2
<1>13. Fired(event[f])
  BY <1>1, <1>6, <1>12, WaitFired
<1>. QED  BY <1>5, <1>13, ExecEnded

\* What a task of a concurrent region holds is over when the task is.
LEMMA TaskEnded ==
  ASSUME LoweredFacts, JoinFacts, NEW t \in ended, t \in Tasks, InConcurrent(p, t),
         NEW c \in Ops(p), Encloses(p, t, c), Kind(p, c) \notin {"task", "yield"}, c \notin AsyncWrites(p)
  PROVE  c \in ended
<1>1. /\ Legal(p) /\ t \in Ops(p)
      /\ \A u \in EventTasks : FlatCopy(u) \/ ExecTask(u)
      /\ \A u, v \in EventTasks : ~Encloses(p, u, v)
      /\ \A u \in Tasks : form[u] # "source" => u \in EventTasks \/ InConcurrent(p, u)
  BY DEF LoweredFacts, RunInv
<1>2. ASSUME NEW f \in Ops(p), Agent(f), Encloses(p, t, f)
      PROVE  f \in EventTasks /\ f \in Tasks
  <2>1. f \in Tasks /\ form[f] # "source"
    BY <1>2 DEF Agent, Lowering
  <2>. QED  BY <1>1, <1>2, <2>1, NoInnerConcurrent
<1>3. CASE \E e \in Ops(p) : Agent(e) /\ Encloses(p, t, e) /\ Holds(p, e, c)
  <2>1. PICK e \in Ops(p) : Agent(e) /\ Encloses(p, t, e) /\ Holds(p, e, c)
    BY <1>3
  <2>2. e \in EventTasks /\ e \in Tasks
    BY <1>2, <2>1
  <2>3. Encloses(p, e, c)
    BY <2>1, <2>2 DEF Holds, Tasks, OfKind, Kind
  <2>4. ExecTask(e)
    BY <1>1, <2>2, <2>3, FlatHolds
  <2>5. e \in ended
    BY <2>1, <2>4, AgentsEnded
  <2>6. ASSUME NEW h \in Ops(p), Agent(h), Encloses(p, e, h) PROVE FALSE
    <3>1. Encloses(p, t, h)
      BY <1>1, <2>1, <2>6, EnclosesTrans
    <3>. QED  BY <1>1, <1>2, <2>2, <2>6, <3>1
  <2>. QED  BY <2>3, <2>5, <2>6, EndedInside
<1>4. CASE ~\E e \in Ops(p) : Agent(e) /\ Encloses(p, t, e) /\ Holds(p, e, c)
  BY <1>4, EndedInside
<1>. QED  BY <1>3, <1>4

\* What a task of a concurrent region holds is over when the task's value is
\* read as a result of the region.
LEMMA ValueJoined ==
  ASSUME LoweredFacts, JoinFacts, NEW r \in Reads(p) \cap begun, NEW c \in Ops(p), JoinedByValue(c, r),
         Kind(p, c) \notin {"task", "yield"}, c \notin AsyncWrites(p)
  PROVE  c \in ended
<1>1. /\ Legal(p) /\ FormsInv /\ r \in Ops(p) /\ r \in begun /\ ended \subseteq begun
      /\ \A k \in begun : Ready(k)
      /\ \A k \in ended : Terms(p, k) \subseteq ended
      /\ \A u \in EventTasks : FlatCopy(u) \/ ExecTask(u)
      /\ \A u, w \in EventTasks : ~Encloses(p, u, w)
      /\ \A u \in Tasks : form[u] # "source" => u \in EventTasks \/ InConcurrent(p, u)
  BY DEF LoweredFacts, RunInv, Reads
<1>2. PICK t \in Tasks :
        /\ Encloses(p, t, c) /\ InConcurrent(p, t) /\ p[r].src[1] = p[t].parent
        /\ \E y \in Terms(p, p[t].parent) : \E k \in DOMAIN p[y].vals : p[y].vals[k][1] = t
  BY DEF JoinedByValue, Tasks
<1>. DEFINE C == p[t].parent
<1>3. C \in Concurrents /\ C \in Ops(p) /\ C # 0 /\ t \in Children(p, C) /\ t \in Ops(p)
  <2>1. t \in Ops(p)
    BY DEF Tasks, OfKind
  <2>2. C # 0 /\ Kind(p, C) = "concurrent"
    BY <1>2 DEF InConcurrent
  <2>3. C \in Ops(p) /\ t \in Children(p, C)
    BY <1>1, <2>1, <2>2, Placement DEF Children
  <2>. QED  BY <2>1, <2>2, <2>3 DEF Concurrents, OfKind, Kind
<1>4. Dominates(p, C, r)
  <2>1. SourceOK(p, r)
    BY <1>1 DEF Legal
  <2>2. Kind(p, C) # "for"
    BY <1>3 DEF Concurrents, OfKind, Kind
  <2>. QED  BY <1>2, <1>3, <2>1, <2>2 DEF SourceOK
<1>5. C \in ended
  <2>1. ~Agent(C)
    BY <1>3 DEF Agent, Concurrents, Tasks, OfKind
  <2>. QED  BY <1>1, <1>3, <1>4, <2>1, DominatorPassed, PassedEnded
<1>6. Fired(event[t])
  <2>1. PICK y \in Terms(p, C) : \E k \in DOMAIN p[y].vals : p[y].vals[k][1] = t
    BY <1>2
  <2>2. y \in Children(p, C) /\ Kind(p, y) = "yield"
    BY <1>1, <1>3, <2>1 DEF Legal, RegionsOK, Terms
  <2>3. y \in begun /\ p[y].parent = C
    BY <1>1, <1>5, <2>1, <2>2 DEF Children
  <2>4. form[C] = "inlined"
    BY <1>3 DEF JoinFacts
  <2>5. t \in AwaitedValues(C)
    BY <1>3, <2>1 DEF AwaitedValues
  <2>. QED  BY <1>1, <1>3, <2>2, <2>3, <2>4, <2>5 DEF Ready
<1>7. form[t] \in Lowering
  BY <1>3 DEF LoweredFacts
<1>8. CASE form[t] = "execute"
  <2>1. event[t] = t /\ t \notin AsyncWrites(p)
    BY <1>1, <1>3, <1>8, KindsDiffer DEF FormsInv
  <2>2. t \in ended
    BY <1>6, <2>1 DEF Fired
  <2>. QED  BY <1>2, <2>2, TaskEnded
<1>9. CASE form[t] = "flattened"
  <2>1. FlatShape(t)
    BY <1>9 DEF LoweredFacts
  <2>2. PICK v \in Children(p, t) :
          /\ Children(p, t) \ Terms(p, t) = {v}
          /\ event[t] = event[v]
          /\ \/ v \in AsyncWrites(p) /\ form[v] = "execute"
             \/ v \in Tasks /\ form[v] \in Lowering
    BY <2>1 DEF FlatShape
  <2>3. v \in Ops(p) /\ Holds(p, v, c) /\ p[v].parent = t /\ Encloses(p, t, v)
    <3>1. PICK w \in Children(p, t) : Holds(p, w, c)
      BY <1>1, <1>2, <1>3, ChildHolds
    <3>2. w \in Ops(p) /\ (Kind(p, w) = "yield" \/ w = v)
      BY <1>1, <1>3, <2>2, <3>1, ChildInside, ChildKinds
    <3>3. Kind(p, w) # "yield"
      <4>1. ASSUME Kind(p, w) = "yield" PROVE FALSE
        <5>1. Kind(p, w) \notin RegionKinds
          BY <4>1 DEF RegionKinds, Branches
        <5>. QED  BY <1>1, <3>1, <3>2, <4>1, <5>1, LeafHolds
      <4>. QED  BY <4>1
    <3>. QED  BY <1>1, <1>3, <3>1, <3>2, <3>3, ChildInside
  <2>4. v \in Tasks /\ form[v] \in Lowering
    <3>1. v \notin AsyncWrites(p)
      BY <1>1, <2>3, AsyncLeaf, LeafHolds
    <3>. QED  BY <2>2, <3>1
  <2>5. Encloses(p, v, c)
    BY <2>3, <2>4 DEF Holds, Tasks, OfKind, Kind
  <2>6. v \in EventTasks
    <3>1. ~InConcurrent(p, v)
      BY <2>3 DEF InConcurrent, Tasks, OfKind, Kind
    <3>. QED  BY <1>1, <2>4, <3>1 DEF Lowering
  <2>7. ExecTask(v)
    BY <1>1, <2>4, <2>5, <2>6, FlatHolds
  <2>8. v \in ended
    BY <1>6, <2>2, <2>4, <2>7, ExecEnded
  <2>9. ASSUME NEW e \in Ops(p), Agent(e), Encloses(p, v, e) PROVE FALSE
    <3>1. e \in Tasks /\ form[e] # "source"
      BY <2>9 DEF Agent, Lowering
    <3>2. Encloses(p, t, e)
      BY <1>1, <1>3, <2>3, <2>9, EnclosesTrans
    <3>3. ~InConcurrent(p, e)
      BY <1>2, <3>1, <3>2, NoInnerConcurrent
    <3>. QED  BY <1>1, <2>6, <2>9, <3>1, <3>3
  <2>. QED  BY <2>5, <2>8, <2>9, EndedInside
<1>. QED  BY <1>7, <1>8, <1>9 DEF Lowering

\* A read finds a write of its own agent, or of a task it is joined to, done.
LEMMA InvDefines ==
  ASSUME OracleInv, InProgramOrder, LoweredFacts, JoinFacts, pc = "accepted"
  PROVE  DefinedInAgent
<1>1. Legal(p) /\ begun \subseteq Ops(p)
  BY DEF LoweredFacts, RunInv
<1>2. AliasInv
  BY DEF OracleInv
<1>3. SUFFICES ASSUME NEW r \in Reads(p) \cap begun, NEW c \in KnownCandidates(r), Ordered(succ, c, r),
                      LeavesAgent(c, r) => JoinedByValue(c, r)
               PROVE  Defined(r)
  BY DEF DefinedInAgent
<1>4. r \in Ops(p) /\ Kind(p, r) \notin RegionKinds
  BY DEF Reads, RegionKinds, Branches
<1>5. c \in Ops(p) /\ Kind(p, c) \notin {"task", "yield"} /\ c \notin AsyncWrites(p)
  <2>1. c \in SyncWrites(p) \/ \E x \in AsyncWrites(p) : p[c].toks # {}
    BY DEF KnownCandidates
  <2>2. c \in Ops(p)
    <3>1. c \in sync[p[r].src] \/ \E t : c \in Consumers(p, t)
      BY DEF KnownCandidates, Candidates
    <3>2. p[r].src \in Residencies(p)
      BY <1>1 DEF Residencies
    <3>3. sync[p[r].src] \subseteq Ops(p)
      <4>1. sync \in [Residencies(p) -> SUBSET SyncWrites(p)]
        BY DEF OracleInv, OracleTypeOK
      <4>2. SyncWrites(p) \subseteq Ops(p)
        BY DEF SyncWrites
      <4>. QED  BY <3>2, <4>1, <4>2
    <3>. QED  BY <3>1, <3>3 DEF Consumers
  <2>3. Kind(p, c) \in {"pack", "transfer", "copy", "wait", "barrier"}
    BY <1>1, <2>1, <2>2 DEF SyncWrites, Legal, TokensOK, Kind
  <2>. QED  BY <2>2, <2>3 DEF AsyncWrites
<1>6. Precedes(p, c, r)
  <2>1. Framed(p, c, r)
    BY <1>3, <1>4, <1>5 DEF InProgramOrder
  <2>2. ~Encloses(p, r, c)
    <3>1. ASSUME Encloses(p, r, c) PROVE FALSE
      <4>1. Holds(p, r, c)
        BY <3>1 DEF Holds
      <4>2. c = r
        BY <1>1, <1>4, <1>5, <4>1, LeafHolds
      <4>. QED  BY <1>1, <1>4, <3>1, <4>2, Placement DEF Encloses
    <3>. QED  BY <3>1
  <2>. QED  BY <2>1, <2>2 DEF Framed
<1>7. c < r
  BY <1>1, <1>4, <1>5, <1>6, PrecedesBefore
<1>8. c \in ended
  BY <1>3, <1>5, <1>6, PrecedesEnded, ValueJoined
<1>. QED  BY <1>2, <1>7, <1>8, KnownDefines

-----------------------------------------------------------------------------
(***************************************************************************)
(* The passes establish what the joins rest on.                            *)
(***************************************************************************)
LEMMA InvJoin ==
  ASSUME JoinInv, pass = "done"
  PROVE  JoinFacts
BY DEF JoinInv, InlinedInv, CopiesJoined, JoinFacts, PendingIn

LEMMA JoinFrame ==
  ASSUME UNCHANGED <<p, loweringVars>>, JoinInv
  PROVE  JoinInv'
<1>1. /\ pass' = pass /\ worklist' = worklist /\ form' = form /\ trailing' = trailing /\ p' = p
      /\ Tasks' = Tasks /\ Concurrents' = Concurrents /\ TokenCopies' = TokenCopies
  BY SameProgram DEF loweringVars
<1>2. InlinedInv'
  BY <1>1 DEF JoinInv, InlinedInv, PendingIn
<1>3. StagesInv'
  BY <1>1 DEF JoinInv, StagesInv
<1>4. \A x : JoinedInStage(x)' = JoinedInStage(x)
  BY <1>1 DEF JoinedInStage
<1>5. CopiesJoined'
  BY <1>1, <1>4 DEF JoinInv, CopiesJoined
<1>. QED  BY <1>2, <1>3, <1>5 DEF JoinInv

LEMMA JoinPersists ==
  ASSUME UNCHANGED p, NEW x, JoinedInStage(x),
         form'[p[x].parent] = form[p[x].parent], trailing'[p[x].parent] = trailing[p[x].parent]
  PROVE  JoinedInStage(x)'
BY DEF JoinedInStage

\* The other operations that AsExecute rewrites are the copies of the task.
LEMMA NewCopies ==
  ASSUME FormsInv, NEW t \in Tasks, AsExecute(t), NEW i \in Ops(p), i # t
  PROVE  /\ trailing'[i] = trailing[i]
         /\ form'[i] = form[i] \/ i \in Producers(t)
<1>1. t \in Ops(p) /\ DOMAIN form = Ops(p) /\ DOMAIN trailing = Ops(p)
  BY DEF FormsInv, Tasks, OfKind
<1>2. CASE Flattens(t)
  <2>1. PICK x \in Producers(t) \cup Executes(t) :
          /\ form' = [form EXCEPT ![t] = "flattened", ![x] = "execute"]
          /\ trailing' = trailing
    BY <1>2 DEF AsExecute
  <2>2. CASE i = x
    <3>1. x \in Executes(t) => form'[i] = form[i]
      BY <1>1, <2>1, <2>2 DEF Executes
    <3>. QED  BY <2>1, <2>2, <3>1
  <2>3. CASE i # x
    BY <1>1, <2>1, <2>3
  <2>. QED  BY <2>2, <2>3
<1>3. CASE ~Flattens(t)
  <2>1. /\ form' = [x \in Ops(p) |-> IF x = t \/ x \in Producers(t) THEN "execute" ELSE form[x]]
        /\ trailing' = [trailing EXCEPT ![t] = {event[x] : x \in Producers(t) \cup Executes(t)}
                                                 \ AwaitedIn(t)]
    BY <1>3 DEF AsExecute
  <2>. QED  BY <1>1, <2>1
<1>. QED  BY <1>2, <1>3

\* What is true of a copy stays true when one task is lowered.
LEMMA ExecuteJoins ==
  ASSUME Legal(p), UNCHANGED p, FormsInv, NEW t \in Tasks, AsExecute(t), CopiesJoined,
         pass \in {"tasks", "concurrent"}, NEW x \in AsyncWrites(p) \ TokenCopies, form'[x] = "execute",
         x \in Producers(t) => x \in Children(p, t)
  PROVE  p[x].parent \in Tasks \/ JoinedInStage(x)'
<1>1. x \in Ops(p) /\ x # t
  BY AsyncLeaf DEF Tasks, OfKind, Kind
<1>2. CASE x \in Producers(t)
  BY <1>2 DEF Children
<1>3. CASE form[x] = "execute" /\ p[x].parent \notin Tasks
  <2>1. JoinedInStage(x)
    BY <1>3 DEF CopiesJoined
  <2>2. p[x].parent \in Ops(p) /\ p[x].parent # t /\ p[x].parent \notin AsyncWrites(p)
    BY <2>1 DEF JoinedInStage, OfKind, Tasks, AsyncWrites, Kind
  <2>3. /\ form'[p[x].parent] = form[p[x].parent]
        /\ trailing'[p[x].parent] = trailing[p[x].parent]
    BY <2>2, NewCopies DEF Producers
  <2>. QED  BY <2>1, <2>3, JoinPersists
<1>. QED  BY <1>1, <1>2, <1>3, NewCopies

LEMMA LowerCopiesJoins ==
  ASSUME Legal(p), LoweringInv, LowerCopies, UNCHANGED p
  PROVE  JoinInv'
<1>1. /\ pass = "tokens" /\ pass' = "tasks"
      /\ form' = [i \in Ops(p) |-> IF i \in TokenCopies THEN "execute" ELSE form[i]]
  BY DEF LowerCopies
<1>2. \A i \in Ops(p) : form[i] = "source"
  BY <1>1 DEF LoweringInv, PassInv, LoweringInit
<1>3. \A i \in Ops(p) : i \notin TokenCopies => form'[i] = "source"
  BY <1>1, <1>2
<1>4. OfKind(p, "stage") \cap TokenCopies = {} /\ TokenCopies' = TokenCopies
      /\ AsyncWrites(p) \subseteq Ops(p) /\ OfKind(p, "stage") \subseteq Ops(p)
  BY SameProgram DEF TokenCopies, AsyncWrites, OfKind, Kind
<1>5. InlinedInv'
  BY <1>1 DEF InlinedInv
<1>6. StagesInv'
  BY <1>3, <1>4 DEF StagesInv
<1>7. CopiesJoined'
  BY <1>3, <1>4 DEF CopiesJoined
<1>. QED  BY <1>5, <1>6, <1>7 DEF JoinInv

LEMMA LowerTaskJoins ==
  ASSUME Legal(p), LoweringInv, JoinInv, NEW t, LowerTask(t), UNCHANGED <<p, pc>>
  PROVE  JoinInv'
<1>1. /\ pass = "tasks" /\ pass' = pass /\ AsExecute(t) /\ FormsInv
      /\ StagesInv /\ CopiesJoined
  BY DEF LowerTask, LoweringInv, JoinInv
<1>2. t \in Tasks /\ t \in worklist \ erased
  BY TaskLowered
<1>3. Producers(t) \subseteq Children(p, t)
  <2>1. \A y \in Ops(p) : Encloses(p, t, y) => form[y] \notin {"inlined", "flattened"}
    BY <1>1, <1>2, TaskIsPlain
  <2>2. Producers(t) \subseteq Direct(t)
    BY DEF Producers
  <2>. QED  BY <1>2, <2>1, <2>2, DirectIsChild
<1>4. InlinedInv'
  BY <1>1 DEF InlinedInv
<1>5. StagesInv'
  <2>1. ASSUME NEW s \in OfKind(p, "stage") PROVE form'[s] = "source"
    <3>1. form[s] = "source"
      BY <1>1 DEF StagesInv
    <3>2. s \in Ops(p) /\ s # t /\ s \notin Producers(t)
      BY <1>2 DEF OfKind, Tasks, Producers, AsyncWrites, Kind
    <3>. QED  BY <1>1, <1>2, <3>1, <3>2, NewCopies
  <2>. QED  BY <2>1 DEF StagesInv
<1>6. CopiesJoined'
  <2>1. TokenCopies' = TokenCopies /\ Tasks' = Tasks
    BY SameProgram
  <2>2. \A x \in AsyncWrites(p) \ TokenCopies :
          form'[x] = "execute" => p[x].parent \in Tasks \/ JoinedInStage(x)'
    BY <1>1, <1>2, <1>3, ExecuteJoins
  <2>. QED  BY <2>1, <2>2 DEF CopiesJoined
<1>. QED  BY <1>4, <1>5, <1>6 DEF JoinInv

\* A step that leaves executes and concurrent regions as they were.
LEMMA QuietJoins ==
  ASSUME UNCHANGED <<p, trailing>>, StagesInv, CopiesJoined,
         \A x \in Ops(p) : Kind(p, x) \notin {"wait", "barrier", "concurrent"} => form'[x] = form[x],
         pass' = pass, worklist' \subseteq worklist
  PROVE  StagesInv' /\ CopiesJoined'
<1>1. TokenCopies' = TokenCopies /\ Tasks' = Tasks /\ p' = p
  BY SameProgram
<1>2. \A s \in OfKind(p, "stage") : s \in Ops(p) /\ form'[s] = form[s]
  BY DEF OfKind, Kind
<1>3. \A x \in AsyncWrites(p) : x \in Ops(p) /\ form'[x] = form[x]
  BY DEF AsyncWrites
<1>4. StagesInv'
  BY <1>1, <1>2 DEF StagesInv
<1>5. ASSUME NEW x \in AsyncWrites(p), JoinedInStage(x) PROVE JoinedInStage(x)'
  <2>1. p[x].parent \in OfKind(p, "stage")
    BY <1>5 DEF JoinedInStage
  <2>. QED  BY <1>2, <1>5, <2>1, JoinPersists
<1>6. CopiesJoined'
  BY <1>1, <1>3, <1>5 DEF CopiesJoined
<1>. QED  BY <1>4, <1>6

LEMMA LowerWaitJoins ==
  ASSUME Legal(p), LoweringInv, JoinInv, LowerWait, UNCHANGED p
  PROVE  JoinInv'
<1>1. PICK w \in LastOf(worklist) :
        /\ \/ form' = [form EXCEPT ![w] = "await"] /\ pass' = pass
           \/ pass' = "failed" /\ form' = form
        /\ worklist' = worklist \ {w}
  BY DEF LowerWait
<1>2. pass = "waits" /\ trailing' = trailing /\ p' = p /\ worklist \subseteq Waits /\ FormsInv
      /\ StagesInv /\ CopiesJoined
  BY DEF LowerWait, LoweringInv, WaitsInv, JoinInv
<1>3. w \in Waits
  BY <1>2 DEF LastOf
<1>4. \A x \in Ops(p) : Kind(p, x) \notin {"wait", "barrier", "concurrent"} => form'[x] = form[x]
  <2>1. Kind(p, w) \in {"wait", "barrier"}
    BY <1>3 DEF Waits, OfKind, Kind
  <2>. QED  BY <1>1, <1>2, <2>1 DEF FormsInv
<1>5. InlinedInv'
  BY <1>1, <1>2 DEF InlinedInv
<1>6. CASE pass' = pass
  BY <1>1, <1>2, <1>4, <1>5, <1>6, QuietJoins DEF JoinInv
<1>7. CASE pass' = "failed"
  <2>1. StagesInv'
    BY <1>7 DEF StagesInv
  <2>2. CopiesJoined'
    BY <1>7 DEF CopiesJoined
  <2>. QED  BY <1>5, <2>1, <2>2 DEF JoinInv
<1>. QED  BY <1>1, <1>6, <1>7

LEMMA TouchErasedJoins ==
  ASSUME TouchErased
  PROVE  JoinInv'
BY DEF TouchErased, JoinInv, InlinedInv, StagesInv, CopiesJoined

LEMMA NextPassJoins ==
  ASSUME Legal(p), LoweringInv, JoinInv, NextPass, UNCHANGED p
  PROVE  JoinInv'
<1>1. /\ form' = form /\ trailing' = trailing /\ p' = p /\ worklist = {}
      /\ InlinedInv /\ StagesInv /\ CopiesJoined
      /\ TokenCopies' = TokenCopies /\ Tasks' = Tasks /\ Concurrents' = Concurrents
  BY SameProgram DEF NextPass, JoinInv
<1>2. \/ pass = "tasks" /\ pass' = "waits"
      \/ pass = "waits" /\ pass' = "concurrent" /\ worklist' = Concurrents
      \/ pass = "concurrent" /\ pass' = "pipeline"
      \/ pass = "pipeline" /\ pass' = "done"
  BY DEF NextPass, Concurrents
<1>3. InlinedInv'
  <2>1. pass = "waits" /\ pass' = "concurrent" /\ worklist' = Concurrents => InlinedInv'
    BY <1>1 DEF InlinedInv, PendingIn
  <2>2. pass \in {"concurrent", "pipeline"} /\ pass' \in {"pipeline", "done"} => InlinedInv'
    BY <1>1 DEF InlinedInv, PendingIn
  <2>. QED  BY <1>2, <2>1, <2>2 DEF InlinedInv
<1>4. StagesInv'
  BY <1>1, <1>2 DEF StagesInv
<1>5. \A x : JoinedInStage(x) => JoinedInStage(x)'
  BY <1>1 DEF JoinedInStage
<1>6. CopiesJoined'
  BY <1>1, <1>2, <1>5 DEF CopiesJoined
<1>. QED  BY <1>3, <1>4, <1>6 DEF JoinInv

\* A copy of a waited task has been lowered by the time the regions are.
LEMMA NoLateCopy ==
  ASSUME Legal(p), LoweringInv, pass = "concurrent", NEW t \in Tasks, form[t] = "source"
  PROVE  Producers(t) \subseteq TokenCopies
<1>1. /\ \A u \in EventTasks : FlatCopy(u) \/ ExecTask(u)
  BY DEF LoweringInv, TasksInv, PendingIn
<1>2. SUFFICES ASSUME NEW x \in Producers(t), x \notin TokenCopies PROVE FALSE
  OBVIOUS
<1>3. /\ x \in AsyncWrites(p) /\ form[x] = "source" /\ x \in Ops(p) /\ Encloses(p, t, x) /\ t \in Ops(p)
      /\ \A y \in Ops(p) : Encloses(p, t, y) /\ Encloses(p, y, x) => form[y] \in {"inlined", "flattened"}
  BY DEF Producers, Direct, Tasks, OfKind
<1>4. PICK u \in EventTasks : IsParentTask(p, u, x)
  BY <1>2, <1>3 DEF TokenCopies, InsideEventTask
<1>5. u \in Tasks /\ u \in Ops(p) /\ Encloses(p, u, x) /\ t <= u
  BY <1>3, <1>4 DEF IsParentTask, TasksAround, Tasks, OfKind
<1>6. u # t
  BY <1>1, <1>4 DEF FlatCopy, ExecTask
<1>7. Encloses(p, t, u)
  <2>1. t \in Nat /\ u \in Nat /\ x \in Nat /\ u < x
    BY <1>3, <1>5, Placement DEF Encloses
  <2>. QED  BY <1>3, <1>5, <1>6, <2>1, EnclosesOuter
<1>8. FlatCopy(u)
  BY <1>1, <1>3, <1>4, <1>5, <1>7 DEF ExecTask
<1>9. event[u] = x
  BY <1>3, <1>5, <1>8, AsyncLeaf, FlatHolds
<1>. QED  BY <1>3, <1>8, <1>9 DEF FlatCopy

LEMMA LowerConcurrentJoins ==
  ASSUME Legal(p), LoweringInv, JoinInv, NEW c, LowerConcurrent(c), UNCHANGED p
  PROVE  JoinInv'
<1>1. /\ pass = "concurrent" /\ pass' = pass /\ FormsInv /\ p' = p
      /\ InlinedInv /\ StagesInv /\ CopiesJoined
      /\ worklist \subseteq Concurrents /\ c \in worklist /\ c \notin erased
      /\ \A e \in worklist \ erased : \A u \in Concurrents \ worklist : e < u /\ ~Encloses(p, e, u)
      /\ Concurrents \subseteq Ops(p)
      /\ TokenCopies' = TokenCopies /\ Tasks' = Tasks /\ Concurrents' = Concurrents
  BY SameProgram DEF LowerConcurrent, LoweringInv, ConcurrentInv, JoinInv, LastOf, Concurrents, OfKind
<1>2. CASE PendingTasks(c) # {}
  <2>1. PICK t \in PendingTasks(c) : AsExecute(t) /\ worklist' = worklist
    BY <1>2 DEF LowerConcurrent
  <2>2. t \in Tasks /\ form[t] = "source"
    BY <2>1 DEF PendingTasks, Tasks, OfKind, Children, Kind
  <2>3. \A i \in Ops(p) : Kind(p, i) \in {"concurrent", "stage"} => form'[i] = form[i]
    BY <1>1, <2>1, <2>2, NewCopies DEF Tasks, OfKind, Producers, AsyncWrites, Kind
  <2>4. InlinedInv'
    <3>1. \A d \in Concurrents : form'[d] = form[d]
      BY <1>1, <2>3 DEF Concurrents, OfKind, Kind
    <3>. QED  BY <1>1, <2>1, <3>1 DEF InlinedInv, PendingIn
  <2>5. StagesInv'
    BY <1>1, <2>1, <2>3 DEF StagesInv, OfKind, Kind
  <2>6. \A x \in AsyncWrites(p) \ TokenCopies :
          form'[x] = "execute" => p[x].parent \in Tasks \/ JoinedInStage(x)'
    BY <1>1, <2>1, <2>2, ExecuteJoins, NoLateCopy
  <2>7. CopiesJoined'
    BY <1>1, <2>6 DEF CopiesJoined
  <2>. QED  BY <2>4, <2>5, <2>7 DEF JoinInv
<1>3. CASE PendingTasks(c) = {}
  <2>1. form' = [form EXCEPT ![c] = "inlined"] /\ worklist' = worklist \ {c} /\ trailing' = trailing
    BY <1>3 DEF LowerConcurrent, Rewritten
  <2>2. form'[c] = "inlined" /\ \A i \in Ops(p) : i # c => form'[i] = form[i]
    BY <1>1, <2>1 DEF FormsInv
  <2>3. InlinedInv'
    <3>1. \A d \in Concurrents \ worklist' : d = c \/ d \in Concurrents \ worklist
      BY <2>1
    <3>2. \A d \in Concurrents \ worklist' : form'[d] = "inlined"
      BY <1>1, <2>2, <3>1 DEF InlinedInv, PendingIn
    <3>3. \A d, e \in Concurrents \ worklist' : ~Encloses(p, d, e)
      <4>1. SUFFICES ASSUME NEW d \in Concurrents \ worklist', NEW e \in Concurrents \ worklist',
                            Encloses(p, d, e)
                     PROVE  FALSE
        OBVIOUS
      <4>2. d \in Nat /\ e \in Nat /\ d < e
        BY <1>1, <4>1, Placement DEF Encloses
      <4>. QED  BY <1>1, <3>1, <4>1, <4>2 DEF InlinedInv, PendingIn
    <3>. QED  BY <1>1, <3>2, <3>3 DEF InlinedInv, PendingIn
  <2>4. \A x \in Ops(p) : Kind(p, x) \notin {"wait", "barrier", "concurrent"} => form'[x] = form[x]
    BY <1>1, <2>2 DEF Concurrents, OfKind, Kind
  <2>. QED  BY <1>1, <2>1, <2>3, <2>4, QuietJoins DEF JoinInv
<1>. QED  BY <1>2, <1>3

\* The copies and the waits of the block a stage becomes are its own.
LEMMA StageDirect ==
  ASSUME Legal(p), LoweringInv, pass = "pipeline", NEW s \in OfKind(p, "stage"), NEW z \in Direct(s),
         z \notin Tasks, Kind(p, z) # "stage", z \in AsyncWrites(p) => form[z] = "source"
  PROVE  z \in Children(p, s)
<1>1. /\ FormsInv /\ z \in Ops(p) /\ s \in Ops(p) /\ Encloses(p, s, z) /\ Kind(p, z) # "yield"
      /\ \A y \in Ops(p) : Encloses(p, s, y) /\ Encloses(p, y, z) => form[y] \in {"inlined", "flattened"}
      /\ \A t \in Tasks : form[t] = "flattened" => FlatShape(t)
  BY DEF LoweringInv, TasksInv, Direct, OfKind
<1>. DEFINE o == p[z].parent
<1>2. /\ o \in Ops(p) /\ z \in Children(p, o) /\ Encloses(p, o, z)
      /\ o = s \/ Encloses(p, s, o)
  BY <1>1, ParentHeld
<1>3. SUFFICES ASSUME o # s PROVE FALSE
  BY <1>2
<1>4. form[o] \in {"inlined", "flattened"}
  BY <1>1, <1>2, <1>3
<1>5. CASE form[o] = "inlined"
  <2>1. Kind(p, o) \in {"concurrent", "pipeline"}
    BY <1>1, <1>2, <1>5 DEF FormsInv
  <2>2. Kind(p, z) \in {"task", "stage", "yield"}
    BY <1>2, <2>1 DEF Legal, ConcurrentOK, PipelineOK
  <2>. QED  BY <1>1, <2>2 DEF Tasks, OfKind, Kind
<1>6. CASE form[o] = "flattened"
  <2>1. FlatShape(o)
    BY <1>1, <1>2, <1>6 DEF FormsInv
  <2>2. z \notin Terms(p, o)
    BY <1>1, <1>2, ChildKinds
  <2>3. \/ z \in AsyncWrites(p) /\ form[z] = "execute"
        \/ z \in Tasks
    BY <1>2, <2>1, <2>2 DEF FlatShape
  <2>. QED  BY <2>3
<1>. QED  BY <1>4, <1>5, <1>6

\* A copy that a stage gathers is awaited at its end, or in it.
LEMMA StageJoins ==
  ASSUME Legal(p), LoweringInv, pass = "pipeline", NEW s \in OfKind(p, "stage"), NEW x \in Producers(s)
  PROVE  /\ x \in Children(p, s)
         /\ event[x] = x
         /\ x \in AwaitedIn(s) => \E w \in Children(p, s) : x \in p[w].toks
<1>1. /\ FormsInv /\ x \in AsyncWrites(p) /\ form[x] = "source" /\ x \in Ops(p) /\ x \in Direct(s)
      /\ Kind(p, x) \in {"acopy", "stream"}
      /\ \A w \in Waits : WaitDone(w)
      /\ \A u \in EventTasks : FlatCopy(u) \/ ExecTask(u)
  BY DEF LoweringInv, WaitsInv, TasksInv, PendingIn, Producers, Direct, AsyncWrites
<1>2. x \notin Tasks /\ x \notin Waits /\ Kind(p, x) # "stage"
  BY <1>1, KindsDiffer
<1>3. x \in Children(p, s)
  BY <1>1, <1>2, StageDirect
<1>4. event[x] = x
  BY <1>1 DEF FormsInv
<1>5. ASSUME x \in AwaitedIn(s) PROVE \E w \in Children(p, s) : x \in p[w].toks
  <2>1. PICK w \in Direct(s) :
          (Kind(p, w) = "wait" \/ form[w] = "await") /\ x \in {event[t] : t \in p[w].toks}
    BY <1>5 DEF AwaitedIn
  <2>2. PICK t \in p[w].toks : x = event[t]
    BY <2>1
  <2>3. w \in Ops(p) /\ w \in Waits /\ Kind(p, w) \in {"wait", "barrier"}
    BY <1>1, <2>1 DEF Direct, FormsInv, Waits, OfKind, Kind
  <2>4. w \notin Tasks /\ Kind(p, w) # "stage" /\ w \notin AsyncWrites(p)
    BY <2>3 DEF Tasks, OfKind, Kind, AsyncWrites
  <2>5. w \in Children(p, s)
    BY <2>1, <2>4, StageDirect
  <2>6. Kind(p, t) \in {"acopy", "stream", "task"} /\ t \in Ops(p)
    <3>1. TokensOK(p, w) /\ w \in Nat /\ w <= Len(p) /\ Len(p) \in Nat /\ Ops(p) = 1..Len(p)
      BY <2>3, Placement DEF Legal
    <3>2. t \in 1..(w - 1) /\ Kind(p, t) \in {"acopy", "stream", "task"}
      BY <3>1 DEF TokensOK
    <3>. QED  BY <3>1, <3>2
  <2>7. t \in Tasks => t \in EventTasks
    BY <1>1, <2>3 DEF WaitDone
  <2>8. ASSUME t \in Tasks PROVE FALSE
    <3>1. FlatCopy(t) \/ ExecTask(t)
      BY <1>1, <2>7, <2>8
    <3>2. ~FlatCopy(t)
      BY <1>1, <2>2 DEF FlatCopy
    <3>3. event[t] = t
      BY <1>1, <2>6, <3>1, <3>2 DEF ExecTask, FormsInv
    <3>. QED  BY <1>2, <2>2, <2>8, <3>3
  <2>9. event[t] = t
    BY <1>1, <2>6, <2>8 DEF FormsInv
  <2>. QED  BY <2>2, <2>5, <2>9
<1>. QED  BY <1>3, <1>4, <1>5

LEMMA LowerPipelineJoins ==
  ASSUME Legal(p), LoweringInv, JoinInv, NEW i, LowerPipeline(i), UNCHANGED p
  PROVE  JoinInv'
<1>1. /\ pass = "pipeline" /\ pass' = pass /\ FormsInv /\ p' = p
      /\ InlinedInv /\ StagesInv /\ CopiesJoined
      /\ worklist \subseteq OfKind(p, "pipeline") /\ i \in worklist /\ worklist' = worklist \ {i}
      /\ TokenCopies' = TokenCopies /\ Tasks' = Tasks /\ Concurrents' = Concurrents
  BY SameProgram DEF LowerPipeline, LoweringInv, ConcurrentInv, JoinInv, LastOf, Rewritten
<1>2. /\ form' = [x \in Ops(p) |->
                   CASE x = i -> "inlined"
                     [] x \in Stages(i) \/ (\E s \in Stages(i) : x \in Producers(s)) -> "execute"
                     [] OTHER -> form[x]]
      /\ trailing' = [s \in Ops(p) |->
                       IF s \in Stages(i)
                       THEN {event[x] : x \in Producers(s) \cup Executes(s)} \ AwaitedIn(s)
                       ELSE trailing[s]]
  BY DEF LowerPipeline
<1>3. /\ i \in Ops(p) /\ Kind(p, i) = "pipeline"
      /\ \A s \in Stages(i) : s \in OfKind(p, "stage") /\ s \in Ops(p) /\ s # i /\ p[s].parent = i
      /\ \A s : \A x \in Producers(s) : x \in AsyncWrites(p) /\ form[x] = "source"
  BY <1>1 DEF OfKind, Kind, Stages, Children, Producers
<1>4. \A x \in Ops(p) : x # i /\ x \notin Stages(i) /\ x \notin AsyncWrites(p) => form'[x] = form[x]
  BY <1>2, <1>3
<1>5. InlinedInv'
  <2>1. ASSUME NEW d \in Concurrents PROVE form'[d] = form[d]
    <3>1. d \in Ops(p) /\ Kind(p, d) = "concurrent"
      BY DEF Concurrents, OfKind, Kind
    <3>. QED  BY <1>3, <1>4, <3>1 DEF Stages, AsyncWrites, Kind
  <2>. QED  BY <1>1, <2>1 DEF InlinedInv, PendingIn
<1>6. StagesInv'
  <2>1. ASSUME NEW s \in OfKind(p, "stage"), s \notin Stages(i) PROVE s \in Ops(p) /\ form'[s] = form[s]
    <3>1. s \in Ops(p) /\ Kind(p, s) = "stage"
      BY DEF OfKind, Kind
    <3>. QED  BY <1>3, <1>4, <2>1, <3>1 DEF AsyncWrites, Kind
  <2>. QED  BY <1>1, <1>3, <2>1 DEF StagesInv
<1>7. ASSUME NEW x \in AsyncWrites(p) \ TokenCopies, form'[x] = "execute", p[x].parent \notin Tasks
      PROVE  JoinedInStage(x)'
  <2>1. x \in Ops(p) /\ x # i /\ x \notin Stages(i)
    <3>1. x \in Ops(p) /\ Kind(p, x) \in {"acopy", "stream"}
      BY DEF AsyncWrites
    <3>. QED  BY <1>3, <3>1 DEF Stages
  <2>2. CASE form[x] = "execute"
    <3>1. JoinedInStage(x)
      BY <1>1, <1>7, <2>2 DEF CopiesJoined
    <3>. DEFINE s == p[x].parent
    <3>2. s \in OfKind(p, "stage") /\ form[s] = "execute"
      BY <3>1 DEF JoinedInStage
    <3>3. s \in Ops(p) /\ Kind(p, s) = "stage" /\ s \notin Stages(i) /\ s # i /\ s \notin AsyncWrites(p)
      <4>1. s \in Ops(p) /\ Kind(p, s) = "stage"
        BY <3>2 DEF OfKind, Kind
      <4>2. p[s].parent \notin worklist
        BY <1>1, <3>2 DEF StagesInv
      <4>. QED  BY <1>1, <1>3, <4>1, <4>2 DEF AsyncWrites
    <3>4. form'[s] = form[s] /\ trailing'[s] = trailing[s]
      BY <1>2, <1>4, <3>3
    <3>. QED  BY <1>1, <3>1, <3>4, JoinPersists
  <2>3. CASE form[x] # "execute"
    <3>1. PICK s \in Stages(i) : x \in Producers(s)
      BY <1>2, <1>7, <2>1, <2>3
    <3>2. /\ x \in Children(p, s) /\ event[x] = x
          /\ x \in AwaitedIn(s) => \E w \in Children(p, s) : x \in p[w].toks
      BY <1>1, <1>3, <3>1, StageJoins
    <3>3. form'[s] = "execute"
      BY <1>2, <1>3, <3>1
    <3>4. trailing'[s] = {event[y] : y \in Producers(s) \cup Executes(s)} \ AwaitedIn(s)
      BY <1>2, <1>3, <3>1
    <3>5. x \in trailing'[s] \/ x \in AwaitedIn(s)
      BY <3>1, <3>2, <3>4
    <3>6. p[x].parent = s
      BY <3>2 DEF Children
    <3>. QED  BY <1>1, <1>3, <3>1, <3>2, <3>3, <3>5, <3>6 DEF JoinedInStage
  <2>. QED  BY <2>2, <2>3
<1>8. CopiesJoined'
  BY <1>1, <1>7 DEF CopiesJoined
<1>. QED  BY <1>5, <1>6, <1>8 DEF JoinInv

LEMMA JoinStep == AsyncIInv /\ JoinInv /\ [Next]_vars => JoinInv'
<1>. SUFFICES ASSUME AsyncIInv, JoinInv, [Next]_vars PROVE JoinInv'
  OBVIOUS
<1>1. Legal(p) /\ LoweringInv
  BY DEF AsyncIInv, OracleInv, OracleTypeOK
<1>2. CASE Convert
  <2>1. Lower /\ p' = p /\ pc' = pc
    BY <1>2 DEF Convert, oracleVars
  <2>. QED  BY <1>1, <2>1, LowerCopiesJoins, LowerTaskJoins, LowerWaitJoins, TouchErasedJoins,
               NextPassJoins, LowerConcurrentJoins, LowerPipelineJoins DEF Lower
<1>3. CASE Check \/ Run \/ UNCHANGED vars
  <2>1. p' = p /\ UNCHANGED loweringVars
    <3>1. Check => p' = p /\ UNCHANGED loweringVars
      BY CheckIsBefore DEF Check
    <3>. QED  BY <1>3, <3>1 DEF Run, vars, oracleVars
  <2>. QED  BY <2>1, JoinFrame
<1>. QED  BY <1>2, <1>3 DEF Next

LEMMA JoinInit == Init => JoinInv
BY DEF Init, LoweringInit, JoinInv, InlinedInv, StagesInv, CopiesJoined, OfKind

\* What the passes made of an accepted program defines what each read reads,
\* when its write is in the agent of the read, or in what joins it.
THEOREM LoweringDefines == Spec => []DefinedInAgent
<1>1. AsyncIInv /\ JoinInv => DefinedInAgent
  <2>. SUFFICES ASSUME AsyncIInv, JoinInv PROVE DefinedInAgent
    OBVIOUS
  <2>1. CASE pass = "done"
    <3>1. OracleInv /\ InProgramOrder /\ LoweredFacts /\ JoinFacts
      BY <2>1, InvFacts, InvJoin, OrderIsFramed DEF AsyncIInv
    <3>2. pc = "accepted"
      BY <2>1 DEF AsyncIInv, LoweringInv, PassInv
    <3>. QED  BY <3>1, <3>2, InvDefines
  <2>2. CASE pass # "done"
    BY <2>2 DEF AsyncIInv, RunInv, DefinedInAgent
  <2>. QED  BY <2>1, <2>2
<1>2. Init => AsyncIInv /\ JoinInv
  BY AsyncInit, JoinInit
<1>3. AsyncIInv /\ JoinInv /\ [Next]_vars => (AsyncIInv /\ JoinInv)'
  BY AsyncStep, JoinStep
<1>. QED  BY <1>1, <1>2, <1>3, PTL DEF Spec
=============================================================================
