--------------------------- MODULE AsyncExecution --------------------------
(***************************************************************************)
(* Running what the async passes made of an accepted program.  An          *)
(* async.execute hands its body to an agent of its own and control moves   *)
(* on; an await blocks until the execute behind its token is complete.     *)
(* Nothing else joins: a concurrent has gone, only the values it yields    *)
(* are awaited where it was.                                               *)
(***************************************************************************)
EXTENDS AsyncLowering

VARIABLES begun, ended, landed

asyncVars == <<begun, ended, landed>>
vars == <<oracleVars, loweringVars, asyncVars>>

\* Control is past j in its block: an execute is only launched, a stage awaited.
Passed(j) ==
  IF form[j] = "execute" /\ Kind(p, j) # "stage" THEN j \in begun ELSE j \in ended

\* The async.token of an execute: a copy that landed, a body that ended.
Fired(e) == IF e \in AsyncWrites(p) THEN e \in landed ELSE e \in ended

Earlier(i) ==
  {j \in Children(p, p[i].parent) : j < i /\ p[j].region = p[i].region}

\* Faulty variant: no value of a lowered concurrent is awaited.
AwaitedValuesNone(c) == {}

\* The executes whose values a lowered concurrent yields.
AwaitedValues(c) ==
  {t \in Children(p, c) : \E y \in Terms(p, c) :
     \E k \in DOMAIN p[y].vals : p[y].vals[k][1] = t}

Ready(i) ==
  /\ p[i].parent # 0 => p[i].parent \in begun
  /\ \A j \in Earlier(i) : Passed(j)
  /\ form[i] = "await" => \A t \in p[i].toks : Fired(event[t])
  /\ Kind(p, i) = "yield" /\ p[i].parent # 0 =>
       /\ \A e \in trailing[p[i].parent] : Fired(e)
       /\ form[p[i].parent] = "inlined" => \A t \in AwaitedValues(p[i].parent) : Fired(event[t])

Start(i) ==
  /\ i \notin begun /\ Ready(i)
  /\ begun' = begun \cup {i}
  /\ ended' = IF Kind(p, i) \in RegionKinds THEN ended ELSE ended \cup {i}
  /\ UNCHANGED landed

Land(i) ==
  /\ i \in (AsyncWrites(p) \cap begun) \ landed
  /\ landed' = landed \cup {i}
  /\ UNCHANGED <<begun, ended>>

Finish(i) ==
  /\ i \in begun \ ended
  /\ Terms(p, i) \subseteq ended
  /\ ended' = ended \cup {i}
  /\ UNCHANGED <<begun, landed>>

Init ==
  /\ OracleInit
  /\ LoweringInit
  /\ begun = {} /\ ended = {} /\ landed = {}

Check == OracleNext /\ UNCHANGED <<loweringVars, asyncVars>>
Convert == pc = "accepted" /\ Lower /\ UNCHANGED <<oracleVars, asyncVars>>
Run ==
  /\ pass = "done"
  /\ \E i \in Ops(p) : Start(i) \/ Land(i) \/ Finish(i)
  /\ UNCHANGED <<oracleVars, loweringVars>>

Next == Check \/ Convert \/ Run

Spec == Init /\ [][Next]_vars /\ WF_vars(Next)

-----------------------------------------------------------------------------
\* A task that gave its place to the execute in it is done when that one is.
Done(x) ==
  IF form[x] = "flattened" THEN Fired(event[x])
  ELSE IF Kind(p, x) = "yield" /\ p[x].parent # 0 /\ form[p[x].parent] = "flattened"
  THEN Fired(event[p[x].parent])
  ELSE x \in ended

\* x is part of an execute that y is not part of.
LeavesAgent(x, y) ==
  \E e \in OfKind(p, "task") :
    /\ form[e] \in {"execute", "flattened"}
    /\ x = e \/ Encloses(p, e, x)
    /\ y # e /\ ~Encloses(p, e, y)

\* Two operations of one agent, an operation and the agent launched after it,
\* and a producer and its waits are done in the order the oracle derived.
DoneInOrder ==
  \A x \in Ops(p) : \A y \in succ[x] :
    Done(y) /\ (LeavesAgent(x, y) => x \in p[y].toks) => Done(x)

\* Everything in a waited task is complete, the copies it issued included.
WaitDelivers ==
  \A w \in ended : \A t \in p[w].toks :
    /\ t \in AsyncWrites(p) => t \in landed
    /\ t \in OfKind(p, "task") =>
         \A c \in Children(p, t) : Done(c) /\ (c \in AsyncWrites(p) => c \in landed)

\* What the lowering keeps of the happens-before order, whatever the agents do,
\* and what a wait promised before the lowering and still delivers after it.
AgentsKeepOrder == DoneInOrder /\ WaitDelivers

Written == {w \in SyncWrites(p) : w \in ended} \cup landed
Defined(r) == \E w \in Written \ {r} : Carries(Aliases(p), p[w].dst, p[r].src)

\* "HB-preserving lowering" (line 10): what the oracle accepted is defined when
\* the lowered program runs.
LoweredDefined == \A r \in Reads(p) \cap begun : Defined(r)

\* c is in a task whose value r reads as a result of the concurrent region.
JoinedByValue(c, r) ==
  \E t \in OfKind(p, "task") :
    /\ Encloses(p, t, c) /\ InConcurrent(p, t)
    /\ p[r].src[1] = p[t].parent
    /\ \E y \in Terms(p, p[t].parent) : \E k \in DOMAIN p[y].vals : p[y].vals[k][1] = t

\* The candidates that stand for a write the lowering knows of: a copy that a
\* region separates from the waited task around it was left as it was.
KnownCandidates(r) ==
  {c \in Candidates(r) :
     \/ c \in SyncWrites(p)
     \/ \E x \in AsyncWrites(p) :
          /\ p[x].dst = p[r].src
          /\ \/ x \in p[c].toks
             \/ form[x] # "source" /\ \E t \in p[c].toks : IsParentTask(p, t, x)}

\* The same for the reads that find their write in their own agent, before the
\* launch of it, through a wait, or in a task that yields what they read.
DefinedInAgent ==
  \A r \in Reads(p) \cap begun :
    (\E c \in KnownCandidates(r) :
       Ordered(succ, c, r) /\ (LeavesAgent(c, r) => JoinedByValue(c, r))) => Defined(r)

\* The token pass gives up only on a wait for a task with values, or for a copy
\* that a region separates from the waited task around it.
FailsOnlyOnKept ==
  pass = "failed" =>
    \E w \in Ops(p) : \E t \in p[w].toks :
      \/ t \in OfKind(p, "task") /\ ~Valueless(t)
      \/ t \in AsyncWrites(p) /\ InsideEventTask(t) /\ ~IsParentTask(p, p[t].parent, t)

\* Every collected operation is rewritten while it is still in the module.
NeverUndefined == pass # "undefined"

\* No await blocks for good: a lowered program runs to its end.
LoweredRunsToEnd ==
  (pass = "done") ~> (begun = ended /\ landed = AsyncWrites(p) /\ Ops(p) \subseteq ended)
=============================================================================
