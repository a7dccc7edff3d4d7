------------------------- MODULE ScheduleExecution -------------------------
(***************************************************************************)
(* What running a schedule may look like, for the programs the oracle      *)
(* accepts.  This is the meaning of the sched operations, independent of   *)
(* the graph of the oracle: blocks are sequential, the tasks of a          *)
(* concurrent region and the two regions of an overlap have no order of    *)
(* their own, a wait holds until the operations behind its tokens are      *)
(* complete.  An asynchronous copy is issued where it stands and its data  *)
(* lands some time later; a task is complete when its body and the copies  *)
(* issued in it are.  A branch picks one region, a loop runs its body at   *)
(* most once (a bound).                                                    *)
(***************************************************************************)
EXTENDS ExecutionOracle

VARIABLES
  begun, ended,     \* operations that started, operations that completed
  landed,           \* asynchronous copies whose destination is written
  taken             \* the region each begun branch runs, 0 for none

runVars == <<begun, ended, landed, taken>>
vars == <<oracleVars, runVars>>

IsBranch(i) == Kind(p, i) \in Branches

\* The tokens of async copies and tasks fire when the producer is complete.
Complete(i) == IF i \in AsyncWrites(p) THEN i \in landed ELSE i \in ended

Before(i) ==
  {j \in Children(p, p[i].parent) : j < i /\ p[j].region = p[i].region}

\* The yield of a concurrent region joins its tasks; a task waits for nothing.
Ready(i) ==
  /\ p[i].parent # 0 =>
       /\ p[i].parent \in begun
       /\ IsBranch(p[i].parent) => taken[p[i].parent] = p[i].region
  /\ ~InConcurrent(p, i) \/ Kind(p, i) = "yield" => Before(i) \subseteq ended
  /\ \A t \in p[i].toks : Complete(t)

RegionsToRun(i) ==
  IF Kind(p, i) = "switch" \/ (Kind(p, i) = "if" /\ Len(p[i].term) = 2)
  THEN DOMAIN p[i].term ELSE {0} \cup DOMAIN p[i].term

Issue(i) ==
  /\ i \notin begun /\ Ready(i)
  /\ begun' = begun \cup {i}
  /\ ended' = IF Kind(p, i) \in RegionKinds THEN ended ELSE ended \cup {i}
  /\ IF IsBranch(i) THEN \E c \in RegionsToRun(i) : taken' = [taken EXCEPT ![i] = c]
                    ELSE UNCHANGED taken
  /\ UNCHANGED landed

Land(i) ==
  /\ i \in (AsyncWrites(p) \cap begun) \ landed
  /\ landed' = landed \cup {i}
  /\ UNCHANGED <<begun, ended, taken>>

\* Faulty variant: every region of a branch has to run.
LastOpsOfAll(i) == Terms(p, i)

LastOps(i) == IF IsBranch(i) THEN {p[i].term[r] : r \in {taken[i]} \ {0}} ELSE Terms(p, i)

\* Async copies a task answers for: it is the innermost task around them.
OwnCopies(i) == {w \in AsyncWrites(p) : IsParentTask(p, i, w)}

\* Faulty variant: a task is complete when its body is.
FinishAtBody(i) ==
  /\ i \in begun \ ended
  /\ LastOps(i) \subseteq ended
  /\ ended' = ended \cup {i}
  /\ UNCHANGED <<begun, landed, taken>>

Finish(i) ==
  /\ i \in begun \ ended
  /\ LastOps(i) \subseteq ended
  /\ OwnCopies(i) \cap begun \subseteq landed
  /\ ended' = ended \cup {i}
  /\ UNCHANGED <<begun, landed, taken>>

RunStep == \E i \in Ops(p) : Issue(i) \/ Land(i) \/ Finish(i)

Init ==
  /\ OracleInit
  /\ begun = {} /\ ended = {} /\ landed = {}
  /\ taken = [i \in Ops(p) |-> 0]

Check == OracleNext /\ UNCHANGED runVars
Run == pc = "accepted" /\ RunStep /\ UNCHANGED oracleVars

Next == Check \/ Run

Spec == Init /\ [][Next]_vars /\ WF_vars(Next)

-----------------------------------------------------------------------------
RunTypeOK ==
  /\ begun \subseteq Ops(p) /\ ended \subseteq begun
  /\ landed \subseteq AsyncWrites(p) \cap begun
  /\ taken \in [Ops(p) -> 0..2]

\* Programs whose control flow is fixed: the ones the oracle is exact about.
Straight(q) == \A i \in Ops(q) : Kind(q, i) \notin Branches

\* The residencies a run makes equal: a result is the operand its region
\* yields.  A branch passes on the operands of the region it runs and a loop
\* that does not run its init operands.
RunAliases ==
  UNION {
    CASE ~IsBranch(i) -> UNION {Zipped(p[t].vals, i, 1) : t \in Terms(p, i)}
      [] IsBranch(i) /\ taken[i] # 0 ->
           Zipped(p[p[i].term[taken[i]]].vals, i, 1) \cup Zipped(p[i].inits, i, -1)
      [] OTHER -> IF i \in begun THEN Zipped(p[i].inits, i, 1) ELSE {}
    : i \in Ops(p)}

Written == {w \in SyncWrites(p) : w \in ended} \cup landed

\* The residency r reads is defined once a write to it by another operation,
\* or to one it was yielded from, is complete.
Defined(r) == \E w \in Written \ {r} : Carries(RunAliases, p[w].dst, p[r].src)

\* The verdict of the pass is sound: in every run of an accepted program, an
\* operation that reads a residency starts after a write of it is complete,
\* whatever order the concurrent tasks and the copies in flight took.
DefinedWhenRead == Straight(p) => \A r \in Reads(p) \cap begun : Defined(r)

\* No run contradicts the graph: an operation is complete only after every
\* operation the walk put before it (an edge between siblings of a concurrent
\* region, or past the join, would break this).
OrderRespected ==
  Straight(p) => \A x \in Ops(p) : \A y \in succ[x] : y \in ended => x \in ended

\* What makes it so: what a begun operation waited for is complete, and an
\* operation is complete after everything in its regions.
RunInv ==
  /\ RunTypeOK
  /\ begun # {} => pc = "accepted"
  /\ Straight(p) =>
       /\ \A i \in begun :
            /\ Kind(p, i) \in LeafKinds => i \in ended
            /\ p[i].parent # 0 => p[i].parent \in begun
            /\ ~InConcurrent(p, i) \/ Kind(p, i) = "yield" => Before(i) \subseteq ended
            /\ Walked(p, i) => in[i] \subseteq ended
            /\ \A t \in p[i].toks : Complete(t)
       /\ \A i \in ended : Children(p, i) \subseteq ended /\ OwnCopies(i) \subseteq landed

\* Tokens never make a schedule wait for itself: an accepted program runs to
\* its end, each begun region included.
RunsToEnd ==
  (pc = "accepted") ~> (begun = ended /\ \A i \in Children(p, 0) : i \in ended)
=============================================================================
