--------------------------- MODULE AsyncLowering ---------------------------
(***************************************************************************)
(* The three passes of S2C2ToAsync, run in the order the documents give    *)
(* (tokens, concurrent, pipeline), on a program the oracle has accepted.   *)
(* An operation keeps its name and its place in the tree; the passes give  *)
(* it a form:                                                              *)
(*   "source"     as it was                                                *)
(*   "execute"    an async.execute: a copy event, a task, a stage          *)
(*   "flattened"  a task replaced by the one execute in it (A4)            *)
(*   "inlined"    a concurrent or pipeline whose children took its place   *)
(*   "await"      a wait or barrier that became async.await operations     *)
(***************************************************************************)
EXTENDS ExecutionOracle

VARIABLES
  pass,       \* "tokens", "waits", "concurrent", "pipeline", "done", "failed", "undefined"
  worklist,   \* what the loop of the pass has collected and not rewritten yet
  erased,     \* collected operations that a rewrite has cloned and erased
  form,       \* the form of each operation
  event,      \* the operation whose async.token stands for the token of this one
  trailing    \* the tokens an execute awaits at the end of its body

loweringVars == <<pass, worklist, erased, form, event, trailing>>

Valueless(t) == \A y \in Terms(p, t) : p[y].vals = <<>>
Waited(t) == Consumers(p, t) # {}
EventTasks == {t \in OfKind(p, "task") : Valueless(t) /\ Waited(t)}
InsideEventTask(i) == \E t \in EventTasks : IsParentTask(p, t, i)
TokenCopies == {i \in AsyncWrites(p) : ~InsideEventTask(i)}

\* llvm::reverse of a post-order walk: later siblings first, a parent before
\* what it encloses.
LastOf(S) == {i \in S : \A j \in S : /\ j < i => ~Encloses(p, j, i)
                                     /\ i < j => Encloses(p, i, j)}

\* The operations of the block of b as it is now: children that took the place
\* of an inlined or flattened operation count, the terminator does not.
Direct(b) ==
  {x \in Ops(p) : /\ Encloses(p, b, x) /\ Kind(p, x) # "yield"
                  /\ form[x] \notin {"inlined", "flattened"}
                  /\ \A y \in Ops(p) : Encloses(p, b, y) /\ Encloses(p, y, x)
                                         => form[y] \in {"inlined", "flattened"}}

Executes(b) == {x \in Direct(b) : form[x] = "execute"}
Producers(b) == {x \in Direct(b) : x \in AsyncWrites(p) /\ form[x] = "source"}
AwaitedIn(b) == UNION {{event[t] : t \in p[w].toks} :
                         w \in {x \in Direct(b) : Kind(p, x) = "wait" \/ form[x] = "await"}}

\* What an operation of the execute e uses that the task t defines outside e.
Captures(t, e) ==
  {j \in Ops(p) : /\ Encloses(p, t, j) /\ j # e /\ ~Encloses(p, e, j)
                  /\ \E x \in {e} \cup {y \in Ops(p) : Encloses(p, e, y)} :
                       j \in {p[x].src[1], p[x].dst[1]} \cup p[x].toks}

\* A4: the task holds one token producer or one execute, no wait, and nothing
\* else, and what that uses comes from outside the task.
Flattens(t) ==
  /\ Valueless(t)
  /\ \E x \in Producers(t) \cup Executes(t) : Direct(t) = {x} /\ Captures(t, x) = {}

-----------------------------------------------------------------------------
LoweringInit ==
  /\ pass = "tokens" /\ worklist = {} /\ erased = {}
  /\ form = [i \in Ops(p) |-> "source"]
  /\ event = [i \in Ops(p) |-> i]
  /\ trailing = [i \in Ops(p) |-> {}]

\* Rewriting the operation i: whatever it encloses is cloned, the original
\* erased; a collected operation among them is left dangling.
Rewritten(i) ==
  /\ worklist' = worklist \ {i}
  /\ erased' = erased \cup {j \in worklist : Encloses(p, i, j)}

\* Streams and token copies first: each becomes an execute around a blocking
\* copy; the ones in a waited valueless task are left to the task.
LowerCopies ==
  /\ pass = "tokens" /\ \A i \in TokenCopies : form[i] = "source"
  /\ form' = [i \in Ops(p) |-> IF i \in TokenCopies THEN "execute" ELSE form[i]]
  /\ pass' = "tasks" /\ worklist' = EventTasks
  /\ UNCHANGED <<erased, event, trailing>>

\* Faulty variant: the execute does not await what its body launched.
AsExecuteUntrailed(t) ==
  IF Flattens(t)
  THEN \E x \in Producers(t) \cup Executes(t) :
         /\ form' = [form EXCEPT ![t] = "flattened", ![x] = "execute"]
         /\ event' = [event EXCEPT ![t] = event[x]]
         /\ UNCHANGED trailing
  ELSE /\ form' = [x \in Ops(p) |-> IF x = t \/ x \in Producers(t) THEN "execute" ELSE form[x]]
       /\ UNCHANGED <<event, trailing>>

\* lowerWaitedValuelessTask and lowerTaskAsConcurrentChild, which differ in
\* what they may meet in the body.
AsExecute(t) ==
  IF Flattens(t)
  THEN \E x \in Producers(t) \cup Executes(t) :
         /\ form' = [form EXCEPT ![t] = "flattened", ![x] = "execute"]
         /\ event' = [event EXCEPT ![t] = event[x]]
         /\ UNCHANGED trailing
  ELSE /\ form' = [x \in Ops(p) |-> IF x = t \/ x \in Producers(t) THEN "execute" ELSE form[x]]
       /\ trailing' = [trailing EXCEPT ![t] = {event[x] : x \in Producers(t) \cup Executes(t)}
                                                \ AwaitedIn(t)]
       /\ UNCHANGED event

LowerTask(t) ==
  /\ pass = "tasks" /\ t \in LastOf(worklist) \ erased
  /\ AsExecute(t)
  /\ Rewritten(t)
  /\ UNCHANGED pass

\* Faulty variant: the token of a flattened task is not found.
ConvertedInPlace(t) == form[t] = "execute"

\* A wait is replaced by one await per token, if each is an async.token by now.
Converted(t) == form[t] \in {"execute", "flattened"}

LowerWait ==
  /\ pass = "waits"
  /\ \E w \in LastOf(worklist) :
       /\ IF \A t \in p[w].toks : Converted(t)
          THEN form' = [form EXCEPT ![w] = "await"] /\ UNCHANGED pass
          ELSE pass' = "failed" /\ UNCHANGED form
       /\ worklist' = worklist \ {w}
  /\ UNCHANGED <<erased, event, trailing>>

\* Tasks still there become sibling executes, one at a time; the concurrent
\* goes when the last one has.
PendingTasks(c) == {t \in Children(p, c) : Kind(p, t) = "task" /\ form[t] = "source"}

LowerConcurrent(c) ==
  /\ pass = "concurrent" /\ c \in LastOf(worklist) \ erased
  /\ IF PendingTasks(c) # {}
     THEN /\ \E t \in PendingTasks(c) : (\A u \in PendingTasks(c) : t <= u) /\ AsExecute(t)
          /\ UNCHANGED <<worklist, erased>>
     ELSE /\ form' = [form EXCEPT ![c] = "inlined"]
          /\ Rewritten(c)
          /\ UNCHANGED <<event, trailing>>
  /\ UNCHANGED pass

\* Every stage becomes an execute that the pipeline awaits before the next.
Stages(i) == {s \in Children(p, i) : Kind(p, s) = "stage"}

\* Faulty variant: each stage awaits what any stage launched.
LowerPipelineAtOnce(i) ==
  /\ pass = "pipeline" /\ i \in LastOf(worklist) \ erased
  /\ form' = [x \in Ops(p) |->
                CASE x = i -> "inlined"
                  [] x \in Stages(i) \/ (\E s \in Stages(i) : x \in Producers(s)) -> "execute"
                  [] OTHER -> form[x]]
  /\ trailing' = [s \in Ops(p) |->
                    IF s \in Stages(i)
                    THEN UNION {{event[x] : x \in Producers(u) \cup Executes(u)} : u \in Stages(i)}
                    ELSE trailing[s]]
  /\ Rewritten(i)
  /\ UNCHANGED <<pass, event>>

LowerPipeline(i) ==
  /\ pass = "pipeline" /\ i \in LastOf(worklist) \ erased
  /\ form' = [x \in Ops(p) |->
                CASE x = i -> "inlined"
                  [] x \in Stages(i) \/ (\E s \in Stages(i) : x \in Producers(s)) -> "execute"
                  [] OTHER -> form[x]]
  /\ trailing' = [s \in Ops(p) |->
                    IF s \in Stages(i)
                    THEN {event[x] : x \in Producers(s) \cup Executes(s)} \ AwaitedIn(s)
                    ELSE trailing[s]]
  /\ Rewritten(i)
  /\ UNCHANGED <<pass, event>>

\* The next operation of the loop went with the one around it: what the
\* rewriter does with the erased operation is undefined.
TouchErased ==
  /\ pass \in {"tasks", "concurrent", "pipeline"}
  /\ LastOf(worklist) \cap erased # {}
  /\ pass' = "undefined"
  /\ UNCHANGED <<worklist, erased, form, event, trailing>>

NextPass ==
  /\ worklist = {}
  /\ \/ pass = "tasks" /\ pass' = "waits"
        /\ worklist' = OfKind(p, "wait") \cup OfKind(p, "barrier")
     \/ pass = "waits" /\ pass' = "concurrent" /\ worklist' = OfKind(p, "concurrent")
     \/ pass = "concurrent" /\ pass' = "pipeline" /\ worklist' = OfKind(p, "pipeline")
     \/ pass = "pipeline" /\ pass' = "done" /\ UNCHANGED worklist
  /\ UNCHANGED <<erased, form, event, trailing>>

Lower ==
  \/ LowerCopies \/ LowerWait \/ TouchErased \/ NextPass
  \/ \E i \in Ops(p) : LowerTask(i) \/ LowerConcurrent(i) \/ LowerPipeline(i)
=============================================================================
