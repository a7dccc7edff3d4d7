------------------------- MODULE SequentialLowering -------------------------
(***************************************************************************)
(* The sequential baseline: the waits and barriers of an accepted program  *)
(* are erased and its regions inlined by patterns, in any order, until one *)
(* block is left; the copies in it are blocking.  The order of the block   *)
(* has to be one of the orders the happens-before graph allows.            *)
(***************************************************************************)
EXTENDS ExecutionOracle, SequencesExt, Selections

\* The function body is one region.
ASSUME BodyIsRegionOne == \A q \in Programs : \A i \in Children(q, 0) : q[i].region = 1

VARIABLES
  stage,      \* "idle" until the waits are erased, "inline", "done"
  block       \* what each region holds now; <<0, 1>> is the function body

seqVars == <<stage, block>>
lowerVars == <<oracleVars, seqVars>>

Regions(i) == {<<i, r>> : r \in DOMAIN p[i].term}
AllRegions == {<<0, 1>>} \cup UNION {Regions(i) : i \in Ops(p)}

\* The operations of a region, in their order, without its terminator.
Body(b) ==
  Picked([i \in Ops(p) |-> i],
         {i \in Children(p, b[1]) : p[i].region = b[2] /\ Kind(p, i) # "yield"})

LowerInit ==
  /\ OracleInit
  /\ stage = "idle"
  /\ block = [b \in AllRegions |-> Body(b)]

IsSync(i) == Kind(p, i) \in {"wait", "barrier"}

EraseSyncs ==
  /\ stage = "idle" /\ pc = "accepted"
  /\ block' = [b \in AllRegions |->
                 Picked(block[b], {k \in DOMAIN block[b] : ~IsSync(block[b][k])})]
  /\ stage' = "inline"

\* Put the sequence ops in the place of the operation i of the block b.
Splice(b, i, ops) ==
  LET k == CHOOSE k \in DOMAIN block[b] : block[b][k] = i
  IN SubSeq(block[b], 1, k - 1) \o ops \o SubSeq(block[b], k + 1, Len(block[b]))

\* Faulty variant: the tasks of a concurrent in reverse order.
InlinedBackwards(i) ==
  CASE Kind(p, i) = "overlap" -> block[<<i, 2>>] \o block[<<i, 1>>]
    [] Kind(p, i) = "concurrent" -> FlattenSeq(Reverse([k \in DOMAIN block[<<i, 1>>] |->
                                                  block[<<block[<<i, 1>>][k], 1>>]]))
    [] OTHER -> block[<<i, 1>>]

\* What a pattern puts there: the children of a concurrent in IR order, the
\* communicate region of an overlap before its compute region.
Inlined(i) ==
  CASE Kind(p, i) = "overlap" -> block[<<i, 2>>] \o block[<<i, 1>>]
    [] Kind(p, i) = "concurrent" -> FlattenSeq([k \in DOMAIN block[<<i, 1>>] |->
                                                  block[<<block[<<i, 1>>][k], 1>>]])
    [] OTHER -> block[<<i, 1>>]

\* Faulty variant: no pattern for stages.
MatchesNoStage(b, i) ==
  /\ Kind(p, i) \in {"task", "concurrent", "overlap", "pipeline"}
  /\ Kind(p, i) = "task" => b[1] \notin OfKind(p, "concurrent")

\* A task is left alone while its parent is a concurrent.
Matches(b, i) ==
  /\ Kind(p, i) \in {"task", "concurrent", "overlap", "stage", "pipeline"}
  /\ Kind(p, i) = "task" => b[1] \notin OfKind(p, "concurrent")

Gone(i) ==
  Regions(i) \cup IF Kind(p, i) = "concurrent"
                  THEN {<<t, 1>> : t \in ToSet(block[<<i, 1>>])} ELSE {}

Inline(b, i) ==
  /\ stage = "inline" /\ i \in ToSet(block[b]) /\ Matches(b, i)
  /\ block' = [c \in AllRegions |->
                 IF c = b THEN Splice(b, i, Inlined(i))
                 ELSE IF c \in Gone(i) THEN <<>> ELSE block[c]]
  /\ UNCHANGED stage

Settled ==
  /\ stage = "inline"
  /\ \A b \in AllRegions : \A i \in ToSet(block[b]) : ~Matches(b, i)
  /\ stage' = "done" /\ UNCHANGED block

Sequentialize ==
  EraseSyncs \/ Settled \/ \E b \in AllRegions, i \in Ops(p) : Inline(b, i)

CheckFirst == OracleNext /\ UNCHANGED seqVars
Lower == Sequentialize /\ UNCHANGED oracleVars
LowerNext == CheckFirst \/ Lower

LowerSpec == LowerInit /\ [][LowerNext]_lowerVars /\ WF_lowerVars(LowerNext)

-----------------------------------------------------------------------------
Effects == {i \in Ops(p) : Kind(p, i) \in LeafKinds \ {"wait", "barrier", "yield"}}
Places(i) ==
  UNION {{<<b, k>> : k \in {j \in DOMAIN block[b] : block[b][j] = i}} : b \in AllRegions}

\* Inlining neither loses nor repeats an effect.
EffectsKept == \A i \in Effects : Cardinality(Places(i)) = 1

Order == block[<<0, 1>>]

\* "SequentialSchedule is a valid schedule": whatever the patterns did so far and
\* in whatever order, each effect is in one place; and the one block that is left
\* is a linear extension of happens-before.
LinearExtension ==
  /\ EffectsKept
  /\ stage = "done" =>
       \A m, n \in DOMAIN Order : Ordered(succ, Order[m], Order[n]) /\ Order[m] # Order[n] => m < n

\* The patterns run out: the greedy driver converges to one block.
Converges == (pc = "accepted") ~> (stage = "done" /\ ToSet(Order) = Effects)
=============================================================================
