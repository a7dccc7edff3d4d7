---------------------------- MODULE CapacityPlan ----------------------------
(***************************************************************************)
(* runtime/record_capacity.py and the -query-capacity-plan pass, which is  *)
(* the same program in C++: from the residencies of one space, each        *)
(* an object with a size and a live window [start, end), to the family     *)
(* F_capacity of what may stay and what is evicted at the first instant    *)
(* that does not fit, the plan that attaches a restore record to every     *)
(* evicted object, and the selection of a candidate by a policy.           *)
(*                                                                         *)
(* An input of the pass is a record with the fields                        *)
(*   rs        the residencies, in the order of the spec                   *)
(*   cap       the capacity,  space  the constrained space                 *)
(*   budget    {} or {[cap, space]}, which overrides those of the spec     *)
(*             (an option of the pass only)                                *)
(*   sources   object -> space of its slower replica       (may be partial)*)
(*   data      object -> [replica, known, start, end]      (may be partial)*)
(*   order     object -> [known, before]                   (may be partial)*)
(*   drop      object -> [known, destination]              (may be partial)*)
(*   policy    "none", "s0" or "measured"                                  *)
(*   table     measured rows [scope, keep, evict, time, good]              *)
(* known: the witness and the scope are the ones the pass knows.  An       *)
(* object is a number, in the order of its identifier.                     *)
(***************************************************************************)
EXTENDS Integers, Sequences, FiniteSetsExt

CONSTANT Inputs

\* The loaders pass every number through int(), which has no bound.
ResidencyRecords == [object : Int, size : Int, start : Int, end : Int]
ASSUME InputsAssumption ==
  \A i \in Inputs :
    /\ DOMAIN i = {"rs", "cap", "space", "budget", "sources", "data", "order", "drop",
                   "policy", "table"}
    /\ i.rs \in Seq(ResidencyRecords) /\ i.cap \in Int
    /\ i.policy \in {"none", "s0", "measured"}
    /\ \A b \in i.budget : b.cap \in Int
    /\ \A o \in DOMAIN i.data : i.data[o].start \in Int /\ i.data[o].end \in Int
    /\ \A m \in DOMAIN i.table : i.table[m].time \in Int

VARIABLES
  q,              \* the input
  pc,             \* "load", "scan", "enumerate", "build", "select", "done" or "failed"
  times,          \* start times not looked at yet
  peak, star,     \* peak occupancy; the residencies (indices) live at t*, {} for none
  pending,        \* residencies of star not tried yet
  cands,          \* F_capacity so far, a sequence of [keep, evict]
  truncated,      \* one eviction is not enough
  plan,           \* the candidates that were checked, with their restores
  selected        \* the index of the selected candidate, 0 for none

vars == <<q, pc, times, peak, star, pending, cands, truncated, plan, selected>>

Objects(rs) == {rs[k].object : k \in DOMAIN rs}

\* What _load_spec (loadCapacitySpec) accepts.
SpecOK(i) ==
  /\ i.rs # <<>> /\ i.cap > 0
  /\ \A k \in DOMAIN i.rs : i.rs[k].size > 0 /\ i.rs[k].start < i.rs[k].end
  /\ DOMAIN i.sources \cup DOMAIN i.data \cup DOMAIN i.order \cup DOMAIN i.drop
       \subseteq Objects(i.rs)
  /\ \A o \in DOMAIN i.sources : i.sources[o] \in {"ssd", "host"}
  /\ \A o \in DOMAIN i.data :
       i.data[o].replica \in {"ssd", "host"} /\ i.data[o].start < i.data[o].end
  /\ \A o \in DOMAIN i.drop : i.drop[o].destination \in {"hbm", "ssd", "host"}

LiveAt(rs, t) == {k \in DOMAIN rs : rs[k].start <= t /\ t < rs[k].end}
LiveSum(rs, live) == MapThenSumSet(LAMBDA k : rs[k].size, live)

Init ==
  /\ q \in Inputs
  /\ pc = "load" /\ times = {} /\ peak = 0 /\ star = {} /\ pending = {}
  /\ cands = <<>> /\ truncated = FALSE /\ plan = <<>> /\ selected = 0

BudgetOK(i) == \A b \in i.budget : b.cap > 0

Constrained(i) ==
  IF i.budget = {} THEN i
  ELSE LET b == CHOOSE x \in i.budget : TRUE IN [i EXCEPT !.cap = b.cap, !.space = b.space]

Load ==
  /\ pc = "load"
  /\ IF SpecOK(q) /\ BudgetOK(q)
     THEN /\ q' = Constrained(q) /\ times' = {q.rs[k].start : k \in DOMAIN q.rs}
          /\ pc' = "scan"
     ELSE pc' = "failed" /\ UNCHANGED <<q, times>>
  /\ UNCHANGED <<peak, star, pending, cands, truncated, plan, selected>>

\* One turn of the loop over the start times.
Scan ==
  /\ pc = "scan" /\ times # {}
  /\ LET t == Min(times)
         live == LiveAt(q.rs, t)
         occ == LiveSum(q.rs, live)
     IN /\ times' = times \ {t}
        /\ peak' = IF occ > peak THEN occ ELSE peak
        /\ star' = IF occ > q.cap /\ star = {} THEN live ELSE star
  /\ UNCHANGED <<q, pc, pending, cands, truncated, plan, selected>>

EndScan ==
  /\ pc = "scan" /\ times = {}
  /\ IF star = {}
     THEN /\ cands' = <<[keep |-> Objects(q.rs), evict |-> {}]>>
          /\ pc' = "build" /\ UNCHANGED pending
     ELSE pending' = star /\ pc' = "enumerate" /\ UNCHANGED cands
  /\ UNCHANGED <<q, times, peak, star, truncated, plan, selected>>

\* max_element: the latest start, then the greatest object, then the first.
Newer(rs, a, b) ==
  \/ rs[a].start > rs[b].start
  \/ rs[a].start = rs[b].start /\ rs[a].object > rs[b].object
  \/ rs[a].start = rs[b].start /\ rs[a].object = rs[b].object /\ a < b

IsIncoming(k) == k \in star /\ \A j \in star \ {k} : Newer(q.rs, k, j)

\* The incoming residency first, the others by object.
NextInLine(k) ==
  IF pending = star THEN IsIncoming(k)
  ELSE k \in pending /\ \A j \in pending : q.rs[k].object <= q.rs[j].object

\* Faulty variant: the test for room is missing.
AlwaysEnough(k) == TRUE

\* Evicting k alone makes room.
Enough(k) == LiveSum(q.rs, star) - q.rs[k].size <= q.cap

\* Faulty variant: the evicted object stays in the list of what is kept.
KeptAll(k) == {q.rs[j].object : j \in star}

Kept(k) == {q.rs[j].object : j \in star \ {k}}

Propose(k) ==
  /\ cands' = Append(cands, [keep |-> Kept(k), evict |-> {q.rs[k].object}])
  /\ pending' = pending \ {k}
  /\ pc' = IF pending' = {} THEN "build" ELSE pc
  /\ UNCHANGED truncated

\* One eviction is not enough: no family is enumerated at all.
GiveUp ==
  /\ truncated' = TRUE /\ cands' = <<>>
  /\ pc' = "select" /\ UNCHANGED pending

Evict ==
  /\ pc = "enumerate"
  /\ \E k \in pending :
       /\ NextInLine(k)
       /\ IF Enough(k) THEN Propose(k) ELSE GiveUp
  /\ UNCHANGED <<q, times, peak, star, plan, selected>>

-----------------------------------------------------------------------------
\* The window the pass looks up for an object: the last residency of the list.
LiveWindow(rs, o) ==
  LET k == Max({j \in DOMAIN rs : rs[j].object = o}) IN <<rs[k].start, rs[k].end>>

\* Faulty variant: the witness has to meet the window, not to cover it.
SourceDataOverlaps(i, o) ==
  /\ o \in DOMAIN i.data /\ i.data[o].replica = i.sources[o] /\ i.data[o].known
  /\ i.data[o].start < LiveWindow(i.rs, o)[2] /\ i.data[o].end > LiveWindow(i.rs, o)[1]

SourceData(i, o) ==
  /\ o \in DOMAIN i.data /\ i.data[o].replica = i.sources[o] /\ i.data[o].known
  /\ i.data[o].start <= LiveWindow(i.rs, o)[1] /\ i.data[o].end >= LiveWindow(i.rs, o)[2]

RestoreOrdering(i, o) ==
  /\ o \in DOMAIN i.order /\ i.order[o].known
  /\ i.order[o].before = LiveWindow(i.rs, o)[2]

DestInvalidation(i, o) ==
  /\ o \in DOMAIN i.drop /\ i.drop[o].destination = i.space /\ i.drop[o].known

\* _attach_restores for one evicted object.
Restore(i, o) ==
  LET valid == o \in DOMAIN i.sources IN
    [object |-> o, valid |-> valid,
     sourceData |-> valid /\ SourceData(i, o),
     restoreOrdering |-> valid /\ RestoreOrdering(i, o),
     usable |-> valid /\ SourceData(i, o) /\ RestoreOrdering(i, o),
     destInvalidation |-> valid /\ DestInvalidation(i, o)]

Identity(c) == <<c.keep, c.evict>>

\* _build_capacity_plan for the next candidate.
Build ==
  /\ pc = "build"
  /\ LET c == cands[Len(plan) + 1] IN
       IF \/ ~(c.keep \cup c.evict \subseteq Objects(q.rs))
          \/ c.keep \cap c.evict # {}
          \/ \E n \in DOMAIN plan : Identity(plan[n]) = Identity(c)
       THEN pc' = "failed" /\ UNCHANGED plan
       ELSE /\ plan' = Append(plan, [keep |-> c.keep, evict |-> c.evict,
                                     restores |-> {Restore(q, o) : o \in c.evict}])
            /\ pc' = IF Len(plan') = Len(cands) THEN "select" ELSE pc
  /\ UNCHANGED <<q, times, peak, star, pending, cands, truncated, selected>>

-----------------------------------------------------------------------------
\* _load_measured_capacity_table: one row per profile, workload and candidate.
TableOK(table) ==
  \A m, n \in DOMAIN table :
    m # n => <<table[m].scope, Identity(table[m])>> # <<table[n].scope, Identity(table[n])>>

\* Faulty variant: rows of other profiles and workloads count.
MeasuredAnywhere(n) ==
  {q.table[m].time : m \in {j \in DOMAIN q.table :
     /\ q.table[j].good
     /\ Identity(q.table[j]) = Identity(plan[n])}}

\* The times of candidate n: at most one, and none without evidence.
Measured(n) ==
  {q.table[m].time : m \in {j \in DOMAIN q.table :
     /\ q.table[j].scope = "this" /\ q.table[j].good
     /\ Identity(q.table[j]) = Identity(plan[n])}}

\* Faulty variant: a time of zero counts as no evidence.
RankedNonzero == {n \in DOMAIN plan : Measured(n) \ {0} # {}}

Ranked == {n \in DOMAIN plan : Measured(n) # {}}
ArgMin == {n \in Ranked : \A m \in Ranked : Min(Measured(n)) <= Min(Measured(m))}

Select ==
  /\ pc = "select"
  /\ CASE q.policy = "none" -> pc' = "done" /\ UNCHANGED selected
       [] q.policy # "none" /\ plan = <<>> -> pc' = "failed" /\ UNCHANGED selected
       [] q.policy = "s0" /\ plan # <<>> -> pc' = "done" /\ selected' = 1
       [] q.policy = "measured" /\ plan # <<>> ->
            IF TableOK(q.table) /\ Cardinality(Ranked) >= 2
            THEN pc' = "done" /\ selected' = Min(ArgMin)
            ELSE pc' = "failed" /\ UNCHANGED selected
  /\ UNCHANGED <<q, times, peak, star, pending, cands, truncated, plan>>

Next == Load \/ Scan \/ EndScan \/ Evict \/ Build \/ Select

Spec == Init /\ [][Next]_vars /\ WF_vars(Next)

-----------------------------------------------------------------------------
Final == pc \in {"done", "failed"}
Planned == pc \in {"build", "select", "done"}

Instants == UNION {q.rs[k].start..q.rs[k].end : k \in DOMAIN q.rs}

\* What is live at an instant, by the definition of the interval.
Occupancy(t) ==
  LiveSum(q.rs, {k \in DOMAIN q.rs : t \in q.rs[k].start..(q.rs[k].end - 1)})

\* peak-live is the greatest occupancy of all instants, t* the first one over
\* the capacity, and there is one exactly if some instant is over it.
ScanIsExact ==
  /\ \A t \in Instants : Occupancy(t) <= peak
  /\ \E t \in Instants : Occupancy(t) = peak
  /\ star = {} <=> \A t \in Instants : Occupancy(t) <= q.cap
  /\ star # {} => \E t \in Instants :
       /\ star = LiveAt(q.rs, t) /\ Occupancy(t) > q.cap
       /\ \A u \in Instants : u < t => Occupancy(u) <= q.cap

Distinct == \A j, k \in DOMAIN q.rs : q.rs[j].object = q.rs[k].object => j = k

\* Under a conflict each single eviction that makes room, all of them or, if
\* one does not, none.
Fits(k) == MapThenSumSet(LAMBDA j : q.rs[j].size, star \ {k}) <= q.cap
Family ==
  IF star = {} THEN {<<Objects(q.rs), {}>>}
  ELSE IF \A k \in star : Fits(k)
  THEN {<<{q.rs[j].object : j \in star \ {k}}, {q.rs[k].object}>> : k \in star}
  ELSE {}

\* s0 is the first candidate: it evicts what came last, and keeps the working
\* set that was live before.
S0KeepsWorkingSet ==
  \A k \in star : q.rs[k].object \in plan[selected].evict =>
    \A j \in star : q.rs[j].start <= q.rs[k].start

\* _enumerate_capacity looks at start times only, and misses no conflict; its
\* scan, the order of its tries and the checks of _build_capacity_plan yield
\* F_capacity as docs/design define it, and the first member is what s0 names.
FamilyIsExact ==
  /\ Planned \/ pc = "enumerate" => ScanIsExact
  /\ pc \in {"select", "done"} => {Identity(plan[n]) : n \in DOMAIN plan} = Family
  /\ pc = "done" /\ q.policy = "s0" /\ Distinct => S0KeepsWorkingSet

\* rank_measured_capacity never leaves F and never ranks a truncated one, needs
\* two records of this profile and workload, and takes the earliest of the
\* fastest whatever the order of the table.
SelectionIsMeasured ==
  pc = "done" /\ q.policy = "measured" =>
    LET rows == {q.table[m] : m \in {j \in DOMAIN q.table :
                   q.table[j].scope = "this" /\ q.table[j].good}}
        timeOf(n) == CHOOSE t \in {r.time : r \in {s \in rows : Identity(s) = Identity(plan[n])}} : TRUE
        known == {n \in DOMAIN plan : \E s \in rows : Identity(s) = Identity(plan[n])}
    IN /\ selected \in known /\ Cardinality(known) >= 2 /\ ~truncated
       /\ \A n \in known : \/ timeOf(n) > timeOf(selected)
                           \/ timeOf(n) = timeOf(selected) /\ selected <= n

\* A restore that _attach_restores calls usable brings back data that was not
\* changed while the evicted residency was live, before its consumer.
UsableCovers ==
  Distinct =>
    \A n \in DOMAIN plan : \A r \in plan[n].restores : r.usable =>
      /\ r.valid
      /\ \E k \in star :
           /\ q.rs[k].object = r.object
           /\ \A t \in q.rs[k].start..(q.rs[k].end - 1) :
                t \in q.data[r.object].start..(q.data[r.object].end - 1)
           /\ q.order[r.object].before = q.rs[k].end

\* The members of F_capacity that a row of this profile and workload measured.
MeasuredMembers ==
  {f \in Family : \E m \in DOMAIN q.table :
     q.table[m].scope = "this" /\ q.table[m].good /\ Identity(q.table[m]) = f}

\* One eviction is not enough; an object is live twice where the plan does not
\* fit, so that no candidate can both keep and evict it.
Overflows == \E k \in star : ~Fits(k)
LiveTwice == \E j, k \in star : j # k /\ q.rs[j].object = q.rs[k].object

\* What the program refuses: a spec or a budget that does not load; a selection
\* where one eviction is not enough; a candidate that keeps what it evicts; and
\* a ranking by a table with a row given twice or too few for the family.
Refused ==
  \/ ~SpecOK(q) \/ ~BudgetOK(q)
  \/ IF Overflows THEN q.policy # "none"
     ELSE \/ LiveTwice
          \/ /\ q.policy = "measured"
             /\ ~TableOK(q.table) \/ Cardinality(MeasuredMembers) < 2

\* The program ends, and it fails exactly where it refuses: an order of the
\* tries, a check of _build_capacity_plan or a ranking that failed on a good
\* input, or let a bad one through, would end the other way.
Outcome == pc = "failed" <=> Refused
PlanEnds == <>(Final /\ Outcome)
=============================================================================
