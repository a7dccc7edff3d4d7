-------------------------- MODULE ExecutionOracle --------------------------
(***************************************************************************)
(* The -check-s2c2-execution pass: build the happens-before graph of a     *)
(* program, collect its reads and writes, carry the writes along the       *)
(* yields to a fixpoint, and ask for every read whether a write that       *)
(* defines its residency is ordered before it.                             *)
(***************************************************************************)
EXTENDS ScheduleIR, HBReaches

CONSTANT Programs       \* the programs the pass may be run on

ASSUME ProgramsAreLegal == \A q \in Programs : Legal(q)

VARIABLES
  p,                    \* the program
  pc,                   \* "walk", "collect", "alias", "query" or the verdict
  next,                 \* the operation to walk next
  in,                   \* the frontier each walked operation was given
  sync,                 \* syncWrites: residency -> writes that define it
  events,               \* eventWrites: pairs <<token, residency>>
  todo, cur,            \* reads not looked at yet, the read being looked at
  cands,                \* operations whose order before cur would define it
  failed                \* some read was reported

oracleVars == <<p, pc, next, in, sync, events, todo, cur, cands, failed, succ, dfsVars>>

Verdicts == {"accepted", "rejected"}

OracleInit ==
  /\ p \in Programs
  /\ pc = "walk" /\ next = 1
  /\ in = [i \in Ops(p) |-> {}]
  /\ succ = [i \in Ops(p) |-> {}]
  /\ sync = <<>> /\ events = {}
  /\ todo = {} /\ cur = 0 /\ cands = {} /\ failed = FALSE
  /\ NoCall

\* walkOp on the next operation of the pre-order walk.
WalkOp ==
  /\ pc = "walk" /\ next \in Ops(p)
  /\ next' = next + 1
  /\ IF Walked(p, next)
     THEN /\ in' = [in EXCEPT ![next] = Incoming(p, in, next)]
          /\ succ' = [x \in Ops(p) |->
                        IF x \in EdgesInto(p, in', next) /\ x # next
                        THEN succ[x] \cup {next} ELSE succ[x]]
     ELSE UNCHANGED <<in, succ>>
  /\ UNCHANGED <<p, pc, sync, events, todo, cur, cands, failed, dfsVars>>

\* The first walk of runOnOperation: reads, syncWrites and eventWrites.
Collect ==
  /\ pc = "walk" /\ next \notin Ops(p)
  /\ pc' = "alias"
  /\ sync' = [v \in Residencies(p) |-> {w \in SyncWrites(p) : p[w].dst = v}]
  /\ events' = EventWrites(p)
  /\ todo' = Reads(p)
  /\ UNCHANGED <<p, next, in, cur, cands, failed, succ, dfsVars>>

\* One copyWrites(from, to) that changes something (`aliased` is set).
CopyWrites ==
  /\ pc = "alias"
  /\ \E a \in Aliases(p) :
       /\ ~(sync[a[1]] \subseteq sync[a[2]])
       /\ sync' = [sync EXCEPT ![a[2]] = @ \cup sync[a[1]]]
  /\ UNCHANGED <<p, pc, next, in, events, todo, cur, cands, failed, succ, dfsVars>>

\* Faulty variant: a residency that has a write already counts as done.
FixpointTooSoon ==
  /\ pc = "alias"
  /\ \A a \in Aliases(p) : sync[a[1]] # {} => sync[a[2]] # {}
  /\ pc' = "query"
  /\ UNCHANGED <<p, next, in, sync, events, todo, cur, cands, failed, succ, dfsVars>>

Fixpoint ==
  /\ pc = "alias"
  /\ \A a \in Aliases(p) : sync[a[1]] \subseteq sync[a[2]]
  /\ pc' = "query"
  /\ UNCHANGED <<p, next, in, sync, events, todo, cur, cands, failed, succ, dfsVars>>

\* Faulty variant: an asynchronous write defines where it is issued.
CandidatesAtIssue(r) ==
  sync[p[r].src] \cup {e[1] : e \in {f \in events : f[2] = p[r].src}}

\* Definers of a read: the synchronous writes of its residency, and the
\* consumers of a token that witnesses an asynchronous write of it.
Candidates(r) ==
  sync[p[r].src] \cup UNION {Consumers(p, e[1]) : e \in {f \in events : f[2] = p[r].src}}

\* Faulty variant: the read stays in the list.
NextReadAgain ==
  /\ pc = "query" /\ cur = 0
  /\ \E r \in todo :
       /\ \A q \in todo : r <= q
       /\ cur' = r
       /\ cands' = Candidates(r)
  /\ from' = NoNode /\ to' = NoNode /\ seen' = {} /\ stack' = {} /\ answer' = "none"
  /\ UNCHANGED <<p, pc, next, in, sync, events, todo, failed, succ>>

\* Faulty variant: what was found for the read before is not reset.
NextReadStale ==
  /\ pc = "query" /\ cur = 0
  /\ \E r \in todo :
       /\ \A q \in todo : r <= q
       /\ cur' = r
       /\ todo' = todo \ {r}
       /\ cands' = Candidates(r)
  /\ UNCHANGED <<p, pc, next, in, sync, events, failed, succ, dfsVars>>

NextRead ==
  /\ pc = "query" /\ cur = 0
  /\ \E r \in todo :
       /\ \A q \in todo : r <= q
       /\ cur' = r
       /\ todo' = todo \ {r}
       /\ cands' = Candidates(r)
  /\ from' = NoNode /\ to' = NoNode /\ seen' = {} /\ stack' = {} /\ answer' = "none"
  /\ UNCHANGED <<p, pc, next, in, sync, events, failed, succ>>

TryCandidate ==
  /\ pc = "query" /\ cur # 0
  /\ answer # "yes"
  /\ \E c \in cands : Call(c, cur) /\ cands' = cands \ {c}
  /\ UNCHANGED <<p, pc, next, in, sync, events, todo, cur, failed, succ>>

SearchOn ==
  /\ pc = "query" /\ cur # 0
  /\ Search
  /\ UNCHANGED <<p, pc, next, in, sync, events, todo, cur, cands, failed, succ>>

\* `defined` is set and the loop over the writes breaks.
ReadDefined ==
  /\ pc = "query" /\ cur # 0
  /\ answer = "yes"
  /\ cur' = 0 /\ cands' = {}
  /\ UNCHANGED <<p, pc, next, in, sync, events, todo, failed, succ, dfsVars>>

\* Faulty variant: the first write that is not ordered before the read decides.
ReadUndefinedTooSoon ==
  /\ pc = "query" /\ cur # 0
  /\ answer \in {"none", "no"} /\ (cands = {} \/ answer = "no")
  /\ failed' = TRUE
  /\ cur' = 0
  /\ UNCHANGED <<p, pc, next, in, sync, events, todo, cands, succ, dfsVars>>

\* emitOpError "read of residency is undefined".
ReadUndefined ==
  /\ pc = "query" /\ cur # 0
  /\ answer \in {"none", "no"} /\ cands = {}
  /\ failed' = TRUE
  /\ cur' = 0
  /\ UNCHANGED <<p, pc, next, in, sync, events, todo, cands, succ, dfsVars>>

Verdict ==
  /\ pc = "query" /\ cur = 0 /\ todo = {}
  /\ pc' = IF failed THEN "rejected" ELSE "accepted"
  /\ UNCHANGED <<p, next, in, sync, events, todo, cur, cands, failed, succ, dfsVars>>

OracleNext ==
  \/ WalkOp \/ Collect \/ CopyWrites \/ Fixpoint
  \/ NextRead \/ TryCandidate \/ SearchOn \/ ReadDefined \/ ReadUndefined \/ Verdict

OracleSpec == OracleInit /\ [][OracleNext]_oracleVars /\ WF_oracleVars(OracleNext)

-----------------------------------------------------------------------------
OracleTypeOK ==
  /\ Legal(p)
  /\ pc \in {"walk", "alias", "query"} \cup Verdicts
  /\ next \in Nat \ {0}
  /\ in \in [Ops(p) -> SUBSET Ops(p)]
  /\ IsGraph(succ) /\ DOMAIN succ = Ops(p)
  /\ pc # "walk" => sync \in [Residencies(p) -> SUBSET SyncWrites(p)]
  /\ events \subseteq EventWrites(p)
  /\ todo \subseteq Reads(p) /\ cur \in Reads(p) \cup {0}
  /\ cands \subseteq Ops(p)
  /\ failed \in BOOLEAN
  /\ DfsTypeOK

\* The reads the verdict is about, once the aliases have been followed.
Unproved == {r \in Reads(p) : \A c \in Candidates(r) : c = r \/ ~Ordered(succ, c, r)}

\* The graph holds the edges of the operations walked so far and no other.
WalkInv ==
  /\ \A i \in Ops(p) : i < next /\ Walked(p, i) => in[i] = Incoming(p, in, i)
  /\ \A x \in Ops(p) : \A y \in succ[x] :
       y < next /\ Walked(p, y) /\ x \in EdgesInto(p, in, y)
  /\ \A y \in Ops(p) : y < next /\ Walked(p, y) =>
       \A x \in EdgesInto(p, in, y) \ {y} : y \in succ[x]
  /\ pc # "walk" => \A i \in Ops(p) : i < next

\* A write is listed for a residency only if the yields carry it there.
AliasInv ==
  pc # "walk" =>
    \A v \in Residencies(p) : \A w \in sync[v] : Carries(Aliases(p), p[w].dst, v)

\* The reads looked at so far have been judged by the graph, and so have the
\* candidates of the current read that were tried.
QueryInv ==
  /\ pc \in {"walk", "alias"} => answer = "none" /\ ~failed
  /\ pc # "query" => cur = 0
  /\ cur = 0 => answer # "busy"
  /\ cur # 0 =>
       /\ cur \notin todo /\ cands \subseteq Candidates(cur)
       /\ answer # "none" => to = cur /\ from \in Candidates(cur)
       /\ \A c \in Candidates(cur) \ cands :
            \/ answer = "yes"
            \/ answer = "busy" /\ c = from
            \/ c = cur
            \/ ~Ordered(succ, c, cur)
  /\ pc = "alias" => todo = Reads(p)
  /\ pc \in {"query"} \cup Verdicts =>
       /\ \A r \in Unproved : r \in todo \cup {cur} \/ failed
       /\ failed => Unproved # {}
  /\ pc \in Verdicts => todo = {} /\ (pc = "rejected" <=> failed)

OracleInv == OracleTypeOK /\ DfsInv /\ YesIsOrdered /\ WalkInv /\ AliasInv /\ QueryInv

\* The verdict is exactly what the graph says: a module is accepted when every
\* read has a candidate ordered before it and rejected otherwise (the early
\* exits of the loops at lines 345-370 lose no read and no write).
VerdictIsExact == pc \in Verdicts => (pc = "accepted" <=> Unproved = {})

\* "Validity follows SSA through task / concurrent yields": when the queries
\* begin, a residency has every write that the yields carry to it, over however
\* many regions and rounds of a loop, and no other.
WritesAreCarried ==
  pc = "query" =>
    \A v \in Residencies(p) :
      sync[v] = {w \in SyncWrites(p) : Carries(Aliases(p), p[w].dst, v)}

\* The order of the program is in the graph: an operation of a sequential block
\* is ordered after the operation before it, whatever regions that one holds,
\* and a wait after the producers of its tokens, wherever they are.
ProgramOrderKept ==
  pc = "alias" =>
    \A i \in Ops(p) :
      /\ Walked(p, i) /\ p[i].prev # 0 /\ ~InConcurrent(p, i) => Ordered(succ, p[i].prev, i)
      /\ \A t \in p[i].toks : Ordered(succ, t, i)

\* The alias fixpoint and the query loop end: every run reaches a verdict.
OracleDecides == <>(pc \in Verdicts)
=============================================================================
