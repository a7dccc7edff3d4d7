# S²C² IR: specifications, model checks and proofs

S²C² IR is an out-of-tree MLIR project. A program is written in four dialects:
`stor` (where data lives), `comp` (what is computed), `comm` (how data moves)
and `sched` (what may run beside what). Two claims hold it together. A schedule
has a *happens-before* order that can be decided from the text of the program
and that every lowering respects. And a measurement, a decision or a rewriting
is worth what the records behind it say: a chain of small programs in
`runtime/` turns evidence into decisions, decisions into authorizations and
authorizations into rewritings, and each is a gate that says no by default. This
directory states both in TLA+, checks them with TLC on small instances, and
proves the most important of them with TLAPS for all programs, records and
tables.

Paths below are relative to the repository; `CheckS2C2Execution.cpp` and so on
are found under `lib/`, the recorders under `runtime/`.

## 1. Inventory

| component | state | operations | what makes it hard |
|---|---|---|---|
| execution oracle `-check-s2c2-execution` (`lib/Analysis/CheckS2C2Execution`) | the graph `succ`; `reads`, `syncWrites`, `eventWrites` | one walk that threads a frontier through nested regions and adds edges; a fixpoint that carries writes along yields; a search per read and write | the frontier is threaded by hand through every kind of region; early exits in nested loops; the fixpoint depends on no order; cycles |
| `sched` dialect (`lib/Schedule/IR`, `include/s2c2/Schedule`) | - | verifiers; the meaning of `task`, `concurrent`, `overlap`, `pipeline`, `stage`, `wait` | tasks of a concurrent interleave; copies land late |
| `S2C2ToAsync` (`lib/Conversion/S2C2ToAsync`) | worklists of collected operations, token map | three passes: tokens, concurrent, pipeline | rewrites erase what is still in a worklist; agents that nobody joins |
| `SequentializeSchedule` | the module | erase waits, five inlining patterns under the greedy driver | patterns fire in any order; the order they pick must be a legal schedule |
| family walk `-s2c2-walk` (`lib/Analysis/S2C2Cost/S2C2Walk.cpp`) | `generated`, `legalChecked`, `scored`, `accepted`, current member | generate and validate the neighbours, score the frontier, select the next, restart | two loops driven by set sizes; a member is checked once and met again |
| capacity plan (`record_capacity.py`; twin in `S2C2CapabilitySchedule.cpp`) | residency windows, candidates, restore records, measured rows | windows to family to plan to selection; gates on the selection; hand-over to the optimum authorization | half-open windows, limits, restores with three proofs each, ties |
| sufficiency and authorization (`record_sufficiency.py`, `record_authorization.py`, `record_optimum_authorization.py`) | none between calls | four claims and a licence, or the one cheapest legal strategy, become an envelope | records in any order, repeated, about other scopes |
| storage rewrite and apply (`record_storage_rewrite.py`, `record_storage_apply.py`) | none between calls | envelope to plan; plan, program and witness to a rewritten program | records made for another object or an earlier program; the explicit order must survive |
| guarded apply and compiler spine (`record_scenario_corpus.py`, `record_apply_scenario.py`, `record_compiler_spine.py`) | process-wide function `evaluate_authorization`, `_GUARD_LOCK` | the host is called with the evaluator replaced by one that fails | threads: a replacement put back by the wrong call |
| MLIR carrier (`record_mlir_carrier.py`) | none | a program as text, and read back | what is refused, and in which order |
| usable decision (`record_decision.py`) | a bag of occupancy records | the decision of one scope | contradictions in any order |
| capability chain (`record_capability_applicability.py` ... `record_realization_checking_xid.py`) | a bag of capability records | applicability, profile, legality, findings on a claim | a bad record must refuse its own kind only, four programs later |
| capability catalog (`ascend/record_ascend.py`, `cuda/record_v3.py`) | rows of pairs and size bands | log to rows, projection, validation, query | two lines per measurement; bands that touch or overlap; the compiler's own lookup |
| evidence file (`record_evidence.py`) | one file of JSON lines, rewritten as a whole | ingest, ingest the frozen campaign, export, query, check | a crash between any two steps; collisions of identity |
| ArgMin, Enumerate, XForm, cost analyses (`lib/Analysis/S2C2Cost`) | the same graph with weights | one loop over the family; swap of independent tasks; longest path, contention, capacity | second and third copy of the happens-before walk |
| capability scheduling (`lib/Analysis/S2C2Capability`) | compiled-in catalogs, schedules | reuse of residencies, joint and global schedules | - |
| CUDA and Ascend adapters (`runtime/cuda`, `runtime/ascend`) | streams, events, staging slots | run a schedule arm; pipelined copies over a ring of slots | a slot is overwritten while a kernel reads it |
| storage and compute lowering (`StorToMemref`, `S2C2ToLinalg`, `ExpandCompComposites`, `LowerS2C2`) | the module | rewrites of single operations | types; no state |
| binding recorders (`record_q*.py`, `record_*_bind.py`) | none | print that two texts of the repository agree | none |
| drivers (`tools/s2c2-opt`, `s2c2-translate`) | none | registration | none |

How they interact. The dialect verifiers decide which programs exist. The oracle
accepts or rejects them; the two lowerings rely on its verdict (they add no
check of their own) and their acceptance criterion is stated in terms of its
order. The walk chooses a schedule, map and device from the scores. Campaigns on
a device fill the evidence file and the catalog; the catalog tells the compiler
which concurrent regions to flatten. The capacity plan decides what is kept and
evicted; its candidates become strategies, a strategy or a set of claims becomes
a licence, a licence a plan, and a plan a rewriting of a program that arrives as
text and leaves as text.

What makes each component correct:

- oracle: the search is exact; the graph holds program order and tokens and
  nothing a run could contradict; the verdict says what the graph says; an
  accepted program reads nothing undefined; the pass ends.
- async lowering: what a wait promised it still delivers; no new deadlock;
  no use of an erased operation; order kept within and between agents.
- sequential lowering: no effect lost or repeated; the result is a linear
  extension of happens-before; the patterns converge.
- walk: "complete" means complete; the output is the best of what was scored;
  steps are new; the walk ends.
- capacity plan: the first conflict is found; the family is all evictions that
  make room or none; a usable restore covers the window; ranking never leaves
  the family; an optimum is authorized only for a candidate all gates speak for.
- record chain: a program changes only by a rewriting that a complete licence
  for its own identity allows, keeps its order, and is not rewritten twice; the
  evaluator is put back.
- decisions: yes only from records that are there, agree and are of the scope;
  a contradiction is never overruled by a later record.
- catalog: no relation is applied that was not measured for the pair and size.
- evidence file: an identity has one payload while the file lives; the frozen
  campaign is reproducible; what is exported is what was measured.

## 2. Modules

```
HBReaches ── HBSearch                       the search
ScheduleIR ┐
HBReaches ─┴─ ExecutionOracle               the pass that uses it
                 ├─ ScheduleExecution       what a schedule means, run
                 ├─ AsyncLowering ── AsyncExecution     lowered, and run
                 └─ SequentialLowering      lowered to one block
FamilyWalk                                  the walk over F_0
DecisionRecords ── Authorization ── StorageRewrite ── StorageApply
    ── OptimumAuthorization ── MlirCarrier ── CompilerSpine
    ── LicenceChain                         the chain, from several threads
CapacityPlan ─────────┐                     what stays
OptimumAuthorization ─┴─ CapacityHandoff    and what may be rewritten
AuthorizedApply                             what the chain promises (abstract)
UsableDecision ── CapabilityChain ┐
CapabilityCatalog ────────────────┴─ DecisionBags
EvidenceDB                                  the evidence file
Selections                                  lists read by their positions
CaseMatrices                                the recorders' own cases, all of them
MCPrograms                                  program families for TLC
```

`MC*` modules give the constants values; `*Proofs` modules hold the theorems.
`Selections` says what a loop with `if ... continue` keeps of a list, as the rows
at a set of positions; SequentialLowering, CapabilityCatalog and EvidenceDB
use it. `FiniteInduction` holds what several proofs need of finite sets, least
elements, functions that are defined step by step, and `Picked` of Selections.

```
FiniteInduction ── ExecutionOracleProofs    the search and the pass
                       ├─ ScheduleExecutionProofs    runs, and the baseline
                       └─ AsyncExecutionProofs
                ── CapacityPlanProofs       the plan and its hand-off
                ── LicenceChainProofs
                ── EvidenceProofs           EvidenceDB and DecisionBags
FamilyWalkProofs
```

**HBReaches, HBSearch** — `HBGraph::reaches`. `succ` is the adjacency map of the
code, `seen` and `stack` the two containers of the search, `answer` its result.
`Visit` is one turn of the while loop. The stack is a set: the code pops its
back, but nothing in the result depends on which node is popped, and a set makes
the properties hold for every choice. `Ordered` is the reference definition:
*b* is in every set that holds the successors of *a* and is closed under edges.

**ScheduleIR** — a function as a tree of operations, numbered in pre-order. It
defines what the verifiers accept (`Legal`), and the pure parts of the pass: the
frontier an operation is given (`Incoming`) and leaves (`Outgoing`), the edges
into it, reads, writes, the tokens that witness a write, and the pairs of values
that yields make equal. Types, shapes, attributes and the compute operations,
which the oracle does not look at, are left out. A residency is an SSA value; a
token is named by the operation that produces it.

**ExecutionOracle** — `runOnOperation`. `WalkOp` walks one operation, `Collect`
is the second walk, `CopyWrites` one call that changes the map during the
fixpoint (in any order), `NextRead`/`TryCandidate`/`SearchOn`/`ReadDefined`/
`ReadUndefined` the nested query loops with their early exits, `Verdict` the end
of the pass. `in` records the frontier each operation was walked with; the code
holds it in a parameter.

**ScheduleExecution** — the meaning of a schedule, independent of the graph:
blocks are sequential, tasks of a concurrent and regions of an overlap are not
ordered, a wait holds until its producers are complete, an asynchronous copy
lands some time after it was issued, a task is complete when its body and the
copies it answers for are. Once the oracle accepts a program it runs.

**AsyncLowering, AsyncExecution** — the three passes in the documented order.
Each operation keeps its name and gets a *form*; `event` is the operation whose
`async.token` stands for a token, `trailing` the awaits added at the end of a
body. `LastOf` is the reverse post-order of the worklists: a later sibling before
an earlier one, and within it what encloses before what is enclosed. The lowered
program then runs with the meaning of `async.execute` and `async.await`.

**SequentialLowering** — `block` is what every region holds; `EraseSyncs` is the
loop before the driver, `Inline` one pattern application, in any order.

**FamilyWalk** — `walkFunc` with its options. `Install` is the code shared by
the first member and a restart; `Step` and `NoNext` are one turn of the inner
loop, `StartUnused` and `LocalStop` the outer one. `IsLegal` is the table of
`S2C2Legality.cpp`, `Scores` any three natural numbers per device. Scores and
options are chosen in the initial state.

**CapacityPlan, CapacityHandoff** — `query_capacity_plan` of
`record_capacity.py`, and its twin in the compiler (the command-line budget and
the constraint it sets exist only there). An input is a record of what the spec
and the command line say; residencies are numbered in their order in the spec, an
object is a number in the order of its identifier. `Load` is `_load_spec`, `Scan`,
`EndScan` and `Evict` are `_enumerate_capacity` (one start time, one eviction at
a time), `Build` one candidate of the plan with its restore records, `Select` is
`apply_capacity_policy`. A witness or scope is one the pass knows, or not; that is
all it compares. A spec may name an object twice, as the loader accepts: the family
and the end of the program are stated for such specs too, and `LiveTwice` is the
clash they end in. `Distinct` is left where the code itself looks up the last window
of an object: in `UsableCovers`, and in what s0 is said to name. CapacityHandoff
adds the gates that are printed of a selection and `authorize_capacity`, for which
an object has a name: candidates and measured rows are compared by objects in the
plan and by lists of names in the optimum.

**DecisionRecords ... OptimumAuthorization** — the evaluators, as operators: each
takes a bag (a sequence of records) and gives a decision with its reasons. The
early returns of the code are `Stops`: the first record that ends the loop
decides, and only then is anything looked up. A scope is a tuple of model
strings; a field that is missing is an empty one. The cost of a strategy is a set,
`{cost}` or `{}`: a cost is any integer, zero and below included, so no number can
stand for one that is missing. `ConstructCandidate` is the
rewriting itself: evict, transfer and restore around the region, with the
explicit order mapped. `EvaluateApply` gives back the program it was given
unless every comparison holds.

**MlirCarrier, CompilerSpine** — a text is what the tokenizer makes of it:
statements, attributes, whether anything is left over. `Render` and `Extract` are
the two directions. CompilerSpine adds `integrate`, the scenes and the corpus.

**AuthorizedApply, LicenceChain** — the abstract specification knows three things:
the identities licensed so far, the program each caller came with, the program it
got back. A call may fail; an answer is the program itself or a rewriting of it
under a licence. LicenceChain is the code: `Prepare` makes the plan without the
lock (the evaluators of authorization may run there, or in `Reopen` meet another
thread's guard and fail), `Enter`, `Swap`, `Host`, `Restore`, `Leave` are
`_apply_guarded` line by line. `Granted` says when an identity is licensed without
the evaluators, so the refinement compares two independent statements.
`Abstract!AbsSpec` is checked as a property and proved.

**UsableDecision, CapabilityChain, CapabilityCatalog, DecisionBags** — the
evaluators of occupancy, of capability (four programs in a row), and of the
catalog; DecisionBags lets the records arrive one by one, in every order, after
a campaign log was projected. Sizes count half mebibytes, so that rounding to
mebibytes shows; times are integers, ratios cross-multiplied.

**EvidenceDB** — the file, and one command at a time with every step at which it
may stop: `Open` truncates, `WriteRow` appends one record, `Crash` may leave half
of one. `kept` and `before` are history variables.

**CaseMatrices** — the recorders carry their own tests: a `_validate` with a table
of cases and the outcome each must have. These tables are modelled too
(`SufficiencyCases`, `ApplyCases`, `HostCases`, ...), and an assumption per
program says that the modelled evaluator gives the modelled outcome. This is
what ties the operators to the code they translate; TLC evaluates the assumptions
at the start of `evidence_store`, which has no other link to them.

## 3. Runs

| run | states | shows |
|---|---|---|
| `hb_search` | 11 thousand | the search answers exactly and returns, on all 512 graphs with three nodes and every pair of nodes |
| `schedule_execution` | 44 thousand | the oracle on straight and branching programs: graph, fixpoint, verdict, end; and the runs of those it accepts: nothing undefined is read, no edge is contradicted, every run ends |
| `async_lowering` | 5.0 thousand | the async passes and the runs of the lowered program |
| `sequential_lowering` | 2.7 thousand | the baseline in every order of its patterns |
| `family_walk` | 338 thousand | the walk for every subset of the axes, every option, three scores per device |
| `capacity_plan` | 134 thousand | family, plan, restores, selection and hand-over, for every arrangement of three residencies, table and witness |
| `licence_chain` | 5.7 thousand | two threads through the record chain and its guard; the chain implements AuthorizedApply |
| `decision_bags` | 215 thousand | every order of up to four records, after every campaign log with a line lost |
| `evidence_store` | 392 thousand | ingests and campaigns with a crash at every step; the case matrices |
| `unjoined_task`, `nested_task`, `lone_band` | - | findings, section 5 |

Properties (each is stated in words where it is defined):

- `hb_search`: `AnswerIsExact`, `CallReturns`.
- `schedule_execution`, of the oracle: `VerdictIsExact` (the early exits lose
  neither a report nor a write that was listed), `WritesAreCarried` (the fixpoint
  lists every write the yields carry to a residency, and no other),
  `ProgramOrderKept` (tokens too), `OracleInv` (the inductive invariant),
  `OracleDecides`; of the runs: `DefinedWhenRead` (the verdict is sound),
  `OrderRespected` (so is the graph), `RunInv` (the inductive invariant),
  `RunsToEnd` (tokens cause no deadlock).
- `async_lowering`: `AgentsKeepOrder` and `DefinedInAgent` (what is preserved of
  the order, of the waits and of definedness), `FailsOnlyOnKept` (when the
  token pass gives up), `LoweredRunsToEnd`.
- `sequential_lowering`: `LinearExtension` (with every effect once), `Converges`.
- `family_walk`: `CompleteIsX`, `NoScoredIsBetter`, `SegmentCovers`,
  `WalkEnds`.
- `capacity_plan`: `FamilyIsExact` (the scan, the definition of F_capacity in
  `docs/design/storage-capacity.md`, and s0), `SelectionIsMeasured`,
  `UsableCovers`, `HandoffIsExact` (gates, optimum and ranking agree on what they
  should, and only on that), `PlanEnds` (the program ends, and fails on exactly
  the inputs of `Refused`).
- `licence_chain`: `OnlyLicensedRewrites` (the refinement), `OrderIsKept`
  (happens-before of the semantic events, before and after),
  `NoSecondRewrite`, `GuardIsPutBack`, `GuardIsLifted` (liveness).
- `decision_bags`: `UsableIsClosed`, `FindingsAreExact` (a claim is satisfied or
  violated by exactly one sound record, and told neither by default),
  `AnswerIsSupported` (the recorder's and the compiler's lookup find one row, a
  relation is never guessed among several, nothing is flattened outside the range
  of its row, and what applies for the compiler is applicable for the recorder),
  `ConflictStays`.
- `evidence_store`: `StoreIsKeyed`, `SlicesAreImmutable`, `RefusalLeavesFile`,
  `FrozenIsReproducible`, `ExportIsFaithful` (a projection can be ingested again
  and is exported as it was).

**Bounds.** Three nodes are enough for the search to meet a cycle through its
start, a branch, and a node it finds twice. A program family is a sequence of
sets of words; every combination that parses is a program. The families hold
two buffers, up to fifteen operations and nesting three deep, which is where
every case of `walkOp`, every pattern and every form occurs, with and without
values, tokens and empty regions (but no `sched.concurrent` without tasks, see
section 5). In the runs a loop runs at most once: the second round of its body
meets the same writes as the first. The fixpoint has the loop-carried values of
every round: in one program a body writes what only the round before yields to. Three scores per device make ties, dominated and
incomparable members. The axes of the walk are those of the code, not a sample.
Three residencies over four instants, with sizes one and two
and capacities one to three, fit, conflict with room after one eviction, and
conflict without; four tiles with a table of up to four rows give families of
three candidates with ties, rows of other workloads and rows without evidence;
each of three tiles may miss one witness, or have no cost; costs include zero. Every run looks at
one function: the passes treat functions one by one.

Two threads are enough for a guard to be put back by the wrong call, and for one
thread to ask for authorization while the other's guard is installed; the first
thread has programs with one region, with the other identity, with two regions,
with an order that the rewriting loses and with identifiers it collides with,
and plans that are complete, incomplete, foreign, doubled or made for another
program. Four records hold a contradiction, both kinds and a record of another
scope; the records include each way to be malformed that the evaluators tell
apart, and the theorems of section 4 hold for bags of any length. The campaigns lose any one of their lines. The evidence tables hold a
measured, a fixture and a foreign row, a repeated row, a bad number, and the same
identity with another cost and with another status, in and out of the campaign;
commands repeat without bound, and the file stays finite because identities do.

**Fairness.** The passes have weak fairness of their next-state relation and no
more. A pass is sequential code: it takes a next step while it has one.
In a run of a schedule this says only that a machine that can do something does
something, in any order; since every step adds to what is complete and nothing is
undone, no stronger assumption is needed for a copy to land eventually. In
LicenceChain a thread that holds the lock takes its next step (`Advance`):
nothing between the lock and its release waits for another thread. A thread that
wants the lock is not assumed to get it, nor is any caller assumed to call. The
evidence file and the bags promise safety only. Deadlock is not checked where
passes and programs end, where the bound on records ends the run, and where a
thread may stop calling; that the lock comes free is `GuardIsLifted`.
`evidence_store` checks deadlock: there is always a next command.

**Faulty variants.** An operator marked *Faulty variant* is a plausible mistake in
the definition below it. `PROJECT.json` lists, for every property, the variant
that breaks it.

## 4. Theorems

All for every value of the constants: every graph, every legal program of any
size, every family, every score, every spec, any number of threads and calls,
every table.

| theorem | says |
|---|---|
| `ExecutionOracleProofs!SearchInvariant`, `ReachesIsExact` | the search is exact on every graph |
| `ExecutionOracleProofs!OracleInvariant` | the state of the oracle is well formed throughout |
| `ExecutionOracleProofs!OracleVerdict` | the verdict is exactly what the graph says |
| `ExecutionOracleProofs!OracleWrites` | when the queries begin a residency has exactly the writes that yields carry to it |
| `ExecutionOracleProofs!OracleOrder` | the graph orders what the text puts one after the other, and tokens |
| `ExecutionOracleProofs!OrderIsStructural` | what the graph derives is so in the program: no path backwards, none from a region operation into its own body, none between branches |
| `ScheduleExecutionProofs!RunInvariant` | what a begun operation waited for is complete |
| `ScheduleExecutionProofs!GraphIsSound` | no run of an accepted straight program contradicts an edge |
| `ScheduleExecutionProofs!AcceptedIsDefined` | in every run of an accepted straight program every read is defined |
| `ScheduleExecutionProofs!BlocksStayArranged` | the patterns of the baseline keep each effect in one block, in the order of the program |
| `ScheduleExecutionProofs!SequentialIsExtension` | the sequential baseline is a linear extension of the graph, in every order of its patterns, with branches or without |
| `AsyncExecutionProofs!LoweringKeepsOrder` | the lowered program keeps the order within its agents, and waits deliver |
| `AsyncExecutionProofs!LoweringRefuses` | the token pass gives up only on the waits it was not made for |
| `AsyncExecutionProofs!LoweringDefines` | in the lowered program a read finds the writes of its own agent, and of what it is joined to, done |
| `FamilyWalkProofs!WalkStateInv`, `WalkCompletesFamily`, `WalkKeepsBest` | the assertions of the walk, its claim of completeness, its output |
| `FamilyWalkProofs!WalkCoversSegment` | a segment that stops leaves no legal neighbour behind |
| `CapacityPlanProofs!CapacityIInv` | the inductive invariant of the capacity plan |
| `CapacityPlanProofs!CapacityFamily` | the scan finds the first conflict, and the family is F_capacity |
| `CapacityPlanProofs!CapacitySelection` | what is selected is of the family, measured, and the earliest of the fastest |
| `CapacityPlanProofs!CapacityUsable` | a usable restore covers the residency it is for |
| `CapacityPlanProofs!CapacityOutcome` | the program ends in failure exactly on the inputs of `Refused`, so a good spec, budget and table are never refused |
| `CapacityPlanProofs!CapacityHandInv` | the plan is a set of candidates, and what it names is told apart by its names |
| `CapacityPlanProofs!CapacityHandoffIsExact` | the optimum is licensed exactly if the gates speak for a candidate, each such candidate is measured, and one is faster than the others and can be bound; ranking and optimum then agree |
| `LicenceChainProofs!GuardAlwaysPutBack` | the real evaluator is installed whenever nobody holds the guard |
| `LicenceChainProofs!ChainImplementsAuthorizedApply` | the chain implements AuthorizedApply: only licensed rewritings |
| `LicenceChainProofs!RewrittenOnce` | a rewritten program has no region left to rewrite |
| `LicenceChainProofs!OrderAlwaysKept` | the rewritten program orders the programmer's events as before |
| `EvidenceProofs!StoreAlwaysKeyed`, `SlicesStayImmutable`, `RefusalKeepsFile` | each identity once and no ambiguous export; payloads do not change; a refused ingest changes nothing; crashes at every step included |
| `EvidenceProofs!FrozenStaysReproducible` | a campaign that succeeds leaves what its tables give, whatever was in the file and however often commands stopped before |
| `EvidenceProofs!ExportStaysFaithful` | an export, ingested under another revision, is exported unchanged; the query agrees with it |
| `EvidenceProofs!UsableStaysClosed` | occupancy is usable exactly when both kinds are said once, are yes, and nothing of the scope contradicts, for bags of any length in any order |
| `EvidenceProofs!FindingsStayExact` | a claim is satisfied or violated by exactly one sound record, through all four programs |
| `EvidenceProofs!ConflictsStay` | a contradiction is never overruled by a later record (an action property) |
| `EvidenceProofs!AnswersStaySupported` | a relation is answered from one measured row, which the recorder's lookup and the compiler's both take; nothing is flattened outside its range; what applies for the compiler is applicable for the recorder (for CUDA's, and only then); and a projected row is what the campaign timed, for every log and every file |

Assumptions: `GraphsAreGraphs`, `ProgramsAreLegal` (programs pass the verifiers,
MLIR's own rule that an operand dominates its use among them),
`ScoresAreNat`, `FamilyIsFinite`, `AxesListOnce` (an axis of the walk lists a value
once, as the constant arrays of the code do); `InputsAssumption` (numbers of a spec
are integers of any sign and size, which is all the loaders' `int()` gives);
`ObjectsAreNamed` (an object of a spec or a measured row has a name, and its own;
the sets of a row are finite);
`CallersAreNoNames`, `ProgramsArePrograms` and `RequestsAreLists` (the names of
threads are told from the real function; programs and bags are lists, and a cost is
an integer where there is one); `TablesAreLists`, `RowsAreNamed` and
`CampaignIsNamed` (a row names its profile and workload, since an empty filter of
an export is no filter; the tables of the campaign have a revision);
`BodyIsRegionOne` (a function has one region); `OccupancyIsPrinted`,
`RowsAreOfTheSchema`, `CampaignsAreLogs` and `MaxRecordsIsNat` (an identity names
three things and the reason is one the recorders print; a row has the fields of the
schema; a log has the lines its parser knows). TLC evaluates each for the values it is
given. `OracleOrder` has one hypothesis, `TasksInConcurrent`: without it the
statement is false, because of the empty concurrent of section 5.

### The argument

**Search and oracle.** `DfsInv` says that what the search has pushed is reachable,
that an expanded node has all its successors pushed, and that the target has not
been pushed; when the work list is empty the pushed nodes are a closed set without
the target. `OracleInv` adds that the graph holds exactly the edges of the
operations walked so far, that a write is listed only where the yields carry it,
and that the reads and candidates already dealt with were judged by the graph; the
verdict follows because at the end no read is left. That bounds the writes from
above only. `CarriedInv` says that, once collected, a residency has the writes made
to it directly, and that whenever the fixpoint has settled the lists are closed
under the yields; so all that is carried along a chain of yields is listed
(`CarriedIsListed`), which is `OracleWrites`. For `OracleOrder`, by least
counterexample: what is in the frontier an operation was walked with is ordered
before it, through the tasks of a concurrent where no edge leads straight there.
`OrderIsStructural` is the converse. "x is, or is in, an operation of a block that
comes before r or what r is in" (`Precedes`) is transitive in every legal tree, the
frontier of an operation holds only what precedes it, an edge into a region
operation leads out of its body, and the set of operations of which the conclusion
holds is closed under edges.

**Runs of a schedule.** `RunInv` is stated without the graph (what a begun
operation waited for is complete), which is what makes it inductive;
`GraphIsSound` derives each edge from it by the case the edge was added in, and
`AcceptedIsDefined` combines soundness of the edges, closure of the set of
completed operations under predecessors, the meaning of a wait, and the alias
invariant: a candidate ordered before the read has ended, so the write it stands
for has landed, and the yields carry it to the read.

**The sequential baseline.** `LinearExtension` is not inductive: while patterns fire,
several blocks hold parts of the program. `BlocksInv` (`Arranged`) speaks of all of
them: an effect stands in one block, at one position (`OnlyOnce`, `AllKept`); a block
holds what is inside the operations of its region (`InPlace`), in the order of the
program (`InOrder`); while an operation stands, all that is left of what is inside it
stands in its own regions and not around it (`Intact`); the block of a concurrent
holds its tasks (`OnlyTasks`). A pattern keeps the order because what it moves was
inside the operation it fires at, and what it is moved between was not. When one
block is left, a path of the graph
between two of its operations is `Precedes` of the program (`OrderIsStructural`),
hence an order of positions. Nothing here asks for straight programs.

**The lowered program.** `AsyncIInv` is `OracleInv`, what the passes have done so
far (`LoweringInv`) and what a run has done so far (`RunInv` of this module). The
heart of the first is `TaskOrderInv`: since the tasks are taken from the last, no
lowered task is inside one still to be lowered, so whatever the rewrite of a task
finds in it is as the token copies left it. A waited task thereby has one of two
shapes, the frame of one copy (`FlatCopy`) or an execute that awaits its copies
(`ExecTask`), and every later rewrite keeps it (concurrents likewise, and one in
another ends in `undefined`, the finding `nested_task`). In a run, what has begun
was ready, and all that the walk of the oracle had put before it is done or in an
agent it is not part of. That an edge is kept follows by the kind of its end; what
a wait delivers follows from the two shapes and what made the task's end ready.
`LoweringDefines` puts the paths of the graph aside: a candidate ordered before a
read precedes it in the program (`OrderIsStructural`), and control runs through a
block from the first operation to the last, so what precedes is over unless an
agent around it is still busy (`PrecedesEnded`). `DefinedInAgent` lets only the
task of a concurrent be such an agent, when the read uses the value it yields; that
value is a result of the concurrent, which dominates the read, and its yield awaits
the tasks that yield (`ValueJoined`). `JoinInv` supplies what this needs of the
lowering: all concurrents are gone and none was in another, and a copy left to the
task or stage around it is awaited there. For a stage that means the block it
becomes, where what was inlined or flattened inside left no copy behind
(`StageDirect`). A region with branches is run through all of them in this model
(section 6).
The proof of `TaskOrderInv` did not go through at first: `LastOf` had been written so that siblings
could be lowered in any order, which is not what `llvm::reverse` of a walk does,
and for which `TaskOrderInv` is false. The definition is now the order of the code.

**Walk.** `legalChecked = checked ∩ X` is the part of the invariant that makes
counting accepted members sound, and "the best member scored so far is accepted"
is inductive because a step accepts the best of its frontier. `SegmentInv` rests
on the table of `S2C2Legality.cpp`: under one schedule the legal members are the
maps times at most two devices. If those score alike, the maps are finished in
their order (`Level`); if one is better, the segment has only begun, is on the
better device, or came to the other when the better one was used up (`Sloped`). In
each case a walk with no next member has accepted the whole component.

**Capacity plan.** `IInv` says what each stage has made: no conflict before the
instant being scanned, candidates exactly for the residencies dealt with, one plan
record per candidate so far. `LiveSum` is a fold; read as the number of units of
size it is monotone, and changes upwards only where something starts, so scanning
the starts is scanning all instants. `CapacityFamily` then compares the code's
list with the definition of F_capacity, and `CapacityUsable` unfolds the three
proofs of a restore. For `CapacityOutcome`, `EndInv` says that
what was loaded was good, that no two candidates evict the same object unless one is
live twice (`EvictedApart`), and that a final state is the one promised. The rest is
to recognise at each end what was refused. The enumeration is cut off exactly where
one eviction is not enough (`TruncatedIsOverflow`); with an object live twice two
candidates evict it and each would keep it, so a plan that was built has none
(`CompleteIsLiveOnce`), and without one each check on a candidate passes; and the
rows that count in a ranking are those of members of the family (`RankedAreMembers`).

**The hand-off.** `HandInv` adds to `IInv` what the checks of
`_build_capacity_plan` are for: a candidate names objects of the spec, keeps or
evicts each, and occurs once. Sets of objects become lists of names; `NthIsMember`
shows by counting that each object gets one position, so equal lists are equal sets
(`SelectionsTellApart`), and the cost found under a selection is the one measured
for the candidate (`CostIsMeasured`). `EligibleIsShown` reads the four claims as
`evaluate_sufficiency` does and finds the gates (`EligibleIsSpoken`); no row is
refused if each eligible candidate has a cost (`NoRowIsBad`); one row is the
cheapest if one candidate is the fastest (`OneIsCheapest`); and the way from there
to a bound plan asks only whether the names are two and one (`OptimumBinds`,
`SelectionBinds`). The attempt corrected the model and the property. In the model
the cost 0 had stood for "no cost", which would refuse a candidate measured at 0;
the code tests for a missing value. And what an eligible candidate's witnesses say
holds whether or not the objects of the spec are distinct; the property had asked
that they are.

**Licence chain.** `GuardIsPutBack` alone is not inductive; `GuardInv` adds that
one thread at most is inside, that it holds the lock, and that what a thread
inside has saved is the real function. The refinement needs no invariant about the
guard; `CallInv` says that what a call asks for is granted already, that the
answer of the host waiting to be returned is that of the host for the program the
caller came with, or a rewriting of it under what is licensed. The weight is in
`HostIsLicensed`: a result that differs from its source comes from a plan that
says yes; a plan that says yes names an identity that one of the two ways to a
licence granted (`ClaimsPlanIsGranted`, `StrategyPlanIsGranted`); and that
identity is the region's. `RewritingsGrow` lets licences be added meanwhile.
`RewrittenOnce` and `OrderAlwaysKept` reuse the refinement: `AnswerInv` is kept by
every step AuthorizedApply allows, hence by the chain. A run of operations of the
rewritten block without an evict in it mirrors a run of the block the store was
taken from, shifted (`Mirrors`), so a region found there would be a region of the
source with the store between its ends, and there was only one. For the order,
what `_reach` computes is unfolded hop by hop and shown to settle after as many
rounds as there are nodes, by counting; so it is the least order that holds the
edges, and the projection, which names events one to one, carries it over.

**Evidence file.** `StoreInv` says that what is in memory is keyed and extends the
file it was read from, and that while the file is written it is a prefix of what is
in memory: a crash therefore leaves a prefix of a keyed list. `RefusalInv` says
that until a single ingest opens the file nothing changed it. `CampaignInv` counts
how many tables and rows a campaign has taken, and says that memory is what the
same tables give from an empty file. For exports, `SoundInv` says that every record
was made of a row that is not skipped; of a keyed list the selection holds each
position once, so a record comes back from its own row (`ComesBack`), and rows
added under a new revision meet nothing that is there (`AddedFresh`).

**Decisions and catalog.** `BagsInv` says that the bags are lists of the records
there are and that the file begins with what the campaign gave. What is decided from
a bag is then shown of every list: the evaluators' selections are sets of positions,
and a decision depends on how many positions they hold, none, one or more, which no
order of the records changes. `FindingsStayExact` follows a record through the four
programs by what each keeps of it. The compiler's lookup in the catalog is a pass that
holds the best row so far (`Passes`), the recorder's a selection; `Found` says that
they take the same row, or that both find none. What applies for the compiler is
measured and holds the payload in its range, if it has one (`AppliesWithin`); so
nothing is flattened on a row that is alone and was measured elsewhere. For a log, `ReadInv` says what the parser has after each line: the rows
listed for a pair have the verdicts that a timing followed, and what is pending is
the last verdict, so what is projected is what was timed (`TimedUpTo`).

**Induction.** What a recursive function or a fold computes is proved here by
a least counterexample (`LeastNat`, `StepsReach` of FiniteInduction), and that such
a function exists by building it one value at a time (`IterationExists`); the
induction theorems of the library are out of reach, as they take an operator.

### Only model-checked

Every invariant the passing runs check is proved; so are the action properties. What
stays with TLC:

- Everything about liveness (`CallReturns`, `OracleDecides`, `RunsToEnd`,
  `LoweredRunsToEnd`, `Converges`, `WalkEnds`, `PlanEnds`, `GuardIsLifted`), which
  the prover does not reach. Of `PlanEnds` that is the end alone: how the program
  ends is `CapacityOutcome`.
- Runs of programs with branches: the theorems on runs, lowered or not, speak of
  straight programs, since the verdict is not sound for others (section 5).
- The cases of CaseMatrices, which are finitely many and are evaluated.

## 5. Findings

- `unjoined_task`: a waited task becomes an `async.execute` that only its waits
  join, while the oracle orders whatever follows it after its body. The
  lowering is not HB-preserving for the oracle's order; `AgentsKeepOrder` and
  `DefinedInAgent` say what it does preserve. The children of a concurrent
  region that yield no value are in the same position
  (`S2C2ToAsync.cpp:411`), as `docs/design/phase2b-concurrent-to-async.md:41`
  says they are.
- `nested_task`: a waited valueless task inside another is erased by the
  rewrite of the outer one while it is still in the list of tasks to rewrite
  (`S2C2ToAsync.cpp:211`).

Met while modelling, and not the subject of a run:

- "Task completion includes unwaited inner events", says `S2C2ToAsync.cpp:165` of
  a waited task. The copies it then awaits are those directly in the body of
  the task; one in an overlap in the task is left out there, and was left out
  of the collection of copies before because a waited task is around it
  (`S2C2ToAsync.cpp:188`). It stays a stream, and nobody waits for it.
  `DefinedInAgent` therefore speaks of the writes the lowering knows of
  (`KnownCandidates`).
- The oracle counts a write in one branch, or in a loop body that may not run,
  as a write (`CheckS2C2Execution.cpp:311`). This is why the theorems on runs
  speak of straight programs.
- An empty `sched.concurrent` has no task to take an edge from, so what precedes
  it is not ordered before what follows it (`CheckS2C2Execution.cpp:134`), and a
  correct program is rejected. The program families hold none.
- `query_cap_schema` of the CUDA recorder answers with the first of several rows.
- A licence of a catalog row that is neither yes nor no is a licence to the
  recorder and none to the compiler; `AnswerIsSupported` says only that the
  compiler is the stricter of the two.
- When a log loses a verdict line the timing after it is added to the verdict of
  the run before, and both runs share one row.

## 6. Not modelled

Within the modelled components: tokens passed on as values of a yield (a token
is named by its producer); a score computation that fails, which ends the walk;
branches in the two lowerings; more than one round of a loop; more than one
function; printed reports, usage errors and the `main` functions that choose
between commands; the contracts each recorder prints about documents; two
commands that write the evidence file at once, which nothing prevents; the csv
beside a projected table; JSON and MLIR text below the level of statements.

The largest two files, `cuda/record_v3.py` and `ascend/record_ascend.py`, are for
the most part analyses of one campaign each (`analyze_*`): they read rows, print
sums and cross-checks against constants in the text, and keep nothing; the parts
that decide something another program relies on are in CapabilityCatalog. Of
`record_capacity.py` the sweeps that compare the C++ output with the recorder's
are left out. The `record_q*` and `record_*_bind` scripts compare texts.

Of the C++: XForm compares a module before and after a swap, for which operations
would need names that survive it; the cost analyses are one pass over the graph
to a number each, which `Scores` stands for; capability scheduling works over
catalogs that are compiled in; storage and compute lowering rewrite one operation
at a time and keep no state; the drivers register passes. The adapters are
measurement code against the runtimes of two vendors, whose streams and events
the repository does not contain. `PROJECT.json` lists every component with its
status.

## 7. Plan

What is left, in this order:

1. XForm and the cost walk, with operations that keep their name across a swap: a
   swap the pass accepts leaves happens-before as it was.
2. The second round of a loop body, and branches in the two lowerings.
3. Two commands on the evidence file at once.
