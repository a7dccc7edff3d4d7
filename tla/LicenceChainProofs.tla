------------------------- MODULE LicenceChainProofs -------------------------
(***************************************************************************)
(* The guard of the corpus is lifted in every interleaving, and the record *)
(* chain implements what AuthorizedApply promises: the host's answer is the *)
(* program it was given or a rewriting that a complete licence allows,     *)
(* whatever bags, strategies, programs and witnesses the callers hand in.  *)
(* A program is rewritten once, and a rewritten program orders the events  *)
(* the programmer wrote as before: by what the rewriting of a block does   *)
(* to its windows, and by what _reach computes.                            *)
(***************************************************************************)
EXTENDS LicenceChain, FiniteInduction

-----------------------------------------------------------------------------
\* A list has the positions 1 to its length.
LEMMA ListPositions ==
  ASSUME NEW s, IsList(s)
  PROVE  /\ Len(s) \in Nat /\ DOMAIN s = 1..Len(s)
         /\ IsFiniteSet(DOMAIN s)
<1>1. Len(s) \in Nat /\ DOMAIN s = 1..Len(s)
  BY DEF IsList
<1>2. IsFiniteSet(1..Len(s))
  BY <1>1, FS_Interval
<1>. QED  BY <1>1, <1>2

\* A set with one element is the set of whatever CHOOSE picks from it.
LEMMA OnlyElement ==
  ASSUME NEW S, IsFiniteSet(S), Cardinality(S) = 1
  PROVE  S = {CHOOSE x \in S : TRUE}
<1>1. PICK x : S = {x}
  BY FS_Singleton
<1>. QED  BY <1>1

-----------------------------------------------------------------------------
\* A claim of a bag in which no claim is repeated, that is for the scope and
\* holds, is granted.
LEMMA ClaimIsGranted ==
  ASSUME NEW records, IsList(records), NEW scope, NEW s \in Claims,
         Stops(records, Claims) = {}, ~ClaimsForeign(records, scope),
         ClaimsHold(records, scope[3])
  PROVE  ClaimGranted(records, scope, s)
<1>1. PICK i \in DOMAIN records : records[i].subject = s
  BY DEF ClaimsHold, Given
<1>2. \A j \in DOMAIN records : records[j].subject = s => j = i
  <2>. SUFFICES ASSUME NEW j \in DOMAIN records, records[j].subject = s, j # i
                PROVE  FALSE
    OBVIOUS
  <2>. i \in Nat /\ j \in Nat /\ i >= 1 /\ j >= 1
    BY ListPositions
  <2>1. CASE j < i
    <3>1. Repeats(records, i, Claims)
      BY <2>1, <1>1 DEF Repeats
    <3>. QED  BY <3>1 DEF Stops
  <2>2. CASE i < j
    <3>1. Repeats(records, j, Claims)
      BY <2>2, <1>1 DEF Repeats
    <3>. QED  BY <3>1 DEF Stops
  <2>. QED  BY <2>1, <2>2
<1>3. The(records, s) = records[i]
  BY <1>1, <1>2 DEF The
<1>4. ClaimHolds(records[i], scope[3])
  BY <1>3 DEF ClaimsHold
<1>5. ScopeOf(records[i], IF s = "sufficient" THEN 2 ELSE 3) = ClaimScope(s, scope)
  BY <1>1, <1>3 DEF ClaimsForeign, Given
<1>. QED  BY <1>1, <1>2, <1>4, <1>5 DEF ClaimGranted, Once, ClaimHolds

\* A licence decision that says yes read one licence, for the scope.
LEMMA LicenceIsGranted ==
  ASSUME NEW records, IsList(records), NEW scope,
         LicenseDecision(records, scope).result = "yes"
  PROVE  /\ AuthorizedDecision(records, scope).result = "yes"
         /\ LicenceRead(records, scope)
         /\ LicenceGranted(records, scope)
<1>1. /\ AuthorizedDecision(records, scope).result = "yes"
      /\ LicenceRead(records, scope)
      /\ The(records, Licence).result = "yes"
  BY DEF LicenseDecision, No, Decision
<1>2. IsFiniteSet(Licences(records))
  BY ListPositions, FS_Subset DEF Licences
<1>3. PICK i : Licences(records) = {i}
  BY <1>1, <1>2, FS_Singleton DEF LicenceRead
<1>4. The(records, Licence) = records[i]
  BY <1>3 DEF The, Licences
<1>. QED  BY <1>1, <1>3, <1>4 DEF LicenceGranted, Once, Licences, LicenceRead

\* Claims whose plan says yes give a right to the identity of the plan.
LEMMA ClaimsPlanIsGranted ==
  ASSUME NEW q, IsList(q.bag), ClaimsPlan(q).plan.result = "yes"
  PROVE  ClaimsPlan(q).scope \in ClaimsGranted(q)
<1>. DEFINE e == EvaluateAuthorization(q.bag, q.scope)
<1>1. /\ e.license = LicenseDecision(q.bag, q.scope)
      /\ e.licenseScope = IF LicenceRead(q.bag, q.scope) THEN LicenseScope(q.scope) ELSE <<>>
      /\ IsEnvelope(e)
  BY DEF EvaluateAuthorization, AuthorizationEnvelope, IsEnvelope
<1>2. LicensedFor(e, q.expect)
  <2>1. RewriteDecision(<<e>>, q.expect).result = "yes"
    BY DEF ClaimsPlan, EvaluateRewrite, RewriteEnvelope
  <2>. HIDE DEF e
  <2>2. One(<<e>>, Envelopes(<<e>>)) = e
    BY <1>1 DEF One, Envelopes
  <2>. QED  BY <2>1, <2>2 DEF RewriteDecision, No, Decision
<1>3. /\ e.license.result = "yes"
      /\ e.licenseScope = q.expect
  BY <1>2 DEF LicensedFor
<1>4. /\ AuthorizedDecision(q.bag, q.scope).result = "yes"
      /\ LicenceRead(q.bag, q.scope)
      /\ LicenceGranted(q.bag, q.scope)
  BY <1>1, <1>3, LicenceIsGranted
<1>5. q.expect = LicenseScope(q.scope)
  BY <1>1, <1>3, <1>4
<1>6. \A s \in Claims : ClaimGranted(q.bag, q.scope, s)
  <2>1. /\ Stops(q.bag, Claims) = {} /\ ~ClaimsForeign(q.bag, q.scope)
        /\ ClaimsHold(q.bag, q.scope[3])
    BY <1>4 DEF AuthorizedDecision, No, Decision
  <2>. QED  BY <2>1, ClaimIsGranted
<1>7. ClaimsPlan(q).scope = q.expect
  BY DEF ClaimsPlan, EvaluateRewrite, RewriteEnvelope
<1>. QED  BY <1>4, <1>5, <1>6, <1>7 DEF ClaimsGranted

\* Binding the names of the selection neither opens a plan nor changes its scope.
LEMMA BindingKeeps ==
  ASSUME NEW made, BindRewritePlan(made).plan.result = "yes",
         made = RewriteEnvelope(made.scope, made.inputs, made.plan)
  PROVE  made.plan.result = "yes" /\ BindRewritePlan(made).scope = made.scope
  BY DEF BindRewritePlan, RewriteEnvelope, No, Decision

-----------------------------------------------------------------------------
\* The strategy that is chosen is legal and cheaper than every other legal one,
\* and its plan is for its scope.
LEMMA StrategyPlanIsGranted ==
  ASSUME NEW q, IsList(q.rows), \A j \in DOMAIN q.rows : IsCost(q.rows[j].cost),
         StrategyPlan(q).plan.result = "yes"
  PROVE  StrategyPlan(q).scope \in StrategyGranted(q)
<1>. DEFINE rows == q.rows
            row == CHOOSE r \in Cheapest(rows) : TRUE
<1>1. AuthorizeOptimum(rows).result = "yes"
  BY DEF StrategyPlan, RewriteEnvelope, No, Decision
<1>2. /\ BadRows(rows) = {} /\ Cardinality(Cheapest(rows)) = 1
      /\ OptimumPlan(row).plan.result = "yes"
      /\ AuthorizeOptimum(rows).plan = <<OptimumPlan(row)>>
  BY <1>1 DEF AuthorizeOptimum, Refuse, Choice
<1>3. Cheapest(rows) = {row}
  <2>1. IsFiniteSet(ToSet(rows))
    <3>1. rows \in Surjection(DOMAIN rows, ToSet(rows))
      BY ListPositions DEF IsList, ToSet, Surjection
    <3>. QED  BY <3>1, ListPositions, FS_Surjection
  <2>2. IsFiniteSet(Cheapest(rows))
    BY <2>1, FS_Subset DEF Cheapest, LegalRows
  <2>. QED  BY <1>2, <2>2, OnlyElement
<1>4. PICK j \in DOMAIN rows : rows[j] = row
  BY <1>3 DEF Cheapest, LegalRows, ToSet
<1>5. rows[j].legal = "yes"
  BY <1>3, <1>4 DEF Cheapest, LegalRows
<1>6. \A k \in DOMAIN rows : rows[k].legal = "yes" => \E c \in Int : rows[k].cost = {c}
  <2>. SUFFICES ASSUME NEW k \in DOMAIN rows, rows[k].legal = "yes"
                PROVE  \E c \in Int : rows[k].cost = {c}
    OBVIOUS
  <2>1. RowError(rows, k) = "none"
    BY <1>2 DEF BadRows
  <2>2. rows[k].cost # {}
    BY <2>1 DEF RowError
  <2>. QED  BY <2>2 DEF IsCost
<1>7. ASSUME NEW k \in DOMAIN rows \ {j}, rows[k].legal = "yes"
      PROVE  Cheaper(rows[j], rows[k])
  <2>1. rows[k].id # rows[j].id
    <3>. SUFFICES ASSUME rows[k].id = rows[j].id PROVE FALSE
      OBVIOUS
    <3>. j \in Nat /\ k \in Nat /\ j >= 1 /\ k >= 1
      BY ListPositions
    <3>1. RowError(rows, k) = "none" /\ RowError(rows, j) = "none"
      BY <1>2 DEF BadRows
    <3>2. CASE k < j
      BY <3>1, <3>2 DEF RowError
    <3>3. CASE j < k
      BY <3>1, <3>3 DEF RowError
    <3>. QED  BY <3>2, <3>3
  <2>2. rows[k] \in LegalRows(rows) \ {row}
    BY <1>4, <1>7, <2>1 DEF LegalRows, ToSet
  <2>3. PICK c \in Int, d \in Int : rows[j].cost = {c} /\ rows[k].cost = {d}
    BY <1>5, <1>6, <1>7
  <2>4. PICK other \in LegalRows(rows) : \E e \in other.cost : ~(d <= e)
    <3>1. rows[k] \notin Cheapest(rows)
      BY <1>3, <2>2
    <3>. QED  BY <2>2, <2>3, <3>1 DEF Cheapest
  <2>5. PICK e \in other.cost : ~(d <= e)
    BY <2>4
  <2>6. e \in Int
    <3>1. PICK m \in DOMAIN rows : rows[m] = other
      BY DEF LegalRows, ToSet
    <3>2. rows[m].legal = "yes"
      BY <3>1 DEF LegalRows
    <3>. QED  BY <1>6, <3>1, <3>2
  <2>7. c <= e
    BY <1>3, <1>4, <2>3 DEF Cheapest
  <2>8. c < d
    BY <2>5, <2>6, <2>7
  <2>. QED  BY <2>3, <2>8 DEF Cheaper
<1>8. rows[j].cost # {}
  BY <1>5, <1>6
<1>9. StrategyPlan(q).scope = LicenseScope(rows[j].scope)
  <2>. DEFINE made == EvaluateRewrite(<<OptimumEnvelope(row)>>, LicenseScope(row.scope))
  <2>1. StrategyPlan(q) = BindRewritePlan(made)
    BY <1>1, <1>2 DEF StrategyPlan, OptimumPlan
  <2>2. /\ made.scope = LicenseScope(row.scope)
        /\ made = RewriteEnvelope(made.scope, made.inputs, made.plan)
    BY DEF EvaluateRewrite, RewriteEnvelope
  <2>. HIDE DEF made
  <2>. QED  BY <1>4, <2>1, <2>2, BindingKeeps
<1>. QED  BY <1>4, <1>5, <1>7, <1>8, <1>9 DEF StrategyGranted

\* Every plan a call makes that says yes is for an identity the call is granted.
LEMMA PlanIsGranted ==
  ASSUME NEW k \in AllCalls, NEW i \in DOMAIN k.requests,
         PlanOf(k.requests[i]).plan.result = "yes"
  PROVE  PlanOf(k.requests[i]).scope \in Granted(k)
<1>. DEFINE q == k.requests[i]
<1>1. CASE q.kind # "claims"
  <2>1. IsList(q.rows) /\ \A j \in DOMAIN q.rows : IsCost(q.rows[j].cost)
    BY <1>1, RequestsAreLists
  <2>2. PlanOf(q).scope \in StrategyGranted(q)
    BY <1>1, <2>1, StrategyPlanIsGranted DEF PlanOf
  <2>. QED  BY <1>1, <2>2 DEF Granted, RequestGranted
<1>2. CASE q.kind = "claims"
  <2>1. IsList(q.bag)
    BY <1>2, RequestsAreLists
  <2>2. /\ ClaimsPlan(q).plan.result = "yes"
        /\ PlanOf(q).scope = ClaimsPlan(q).scope
    <3>. DEFINE made == ClaimsPlan(q)
    <3>1. made = RewriteEnvelope(made.scope, made.inputs, made.plan)
      BY DEF ClaimsPlan, EvaluateRewrite, RewriteEnvelope
    <3>. HIDE DEF made
    <3>2. CASE q.bound
      BY <1>2, <3>1, <3>2, BindingKeeps DEF PlanOf, made
    <3>3. CASE ~q.bound
      BY <1>2, <3>3 DEF PlanOf
    <3>. QED  BY <3>2, <3>3
  <2>3. PlanOf(q).scope \in ClaimsGranted(q)
    BY <2>1, <2>2, ClaimsPlanIsGranted
  <2>. QED  BY <1>2, <2>3 DEF Granted, RequestGranted
<1>. QED  BY <1>1, <1>2

-----------------------------------------------------------------------------
\* The host gives the program back, or a rewriting the call is licensed for.
LEMMA HostIsLicensed ==
  ASSUME NEW k \in AllCalls, NEW p
  PROVE  HostAnswer(k, p).program \in {p} \cup Rewritings(p, Granted(k))
<1>. DEFINE plans == PlansOf(k)
            r == TheRegion(p)
            candidate == ConstructCandidate(p, r)
<1>. SUFFICES ASSUME HostAnswer(k, p).program # p
              PROVE  HostAnswer(k, p).program \in Rewritings(p, Granted(k))
  OBVIOUS
<1>1. /\ plans # <<>> /\ ~(Len(plans) > 1)
      /\ plans[1].plan.result = "yes"
      /\ OneRegion(p)
      /\ plans[1].scope = RealizationIdentity(r)
      /\ Applicable(p, candidate, r, DEVICE, k.witness)
      /\ HostAnswer(k, p).program = candidate
  <2>. HIDE DEF plans
  <2>. QED  BY DEF HostAnswer, EvaluateApply, Reject, ApplyResult, plans
<1>2. r \in FindRegions(p)
  <2>1. FindRegions(p) # {}
    <3>1. Cardinality(FindRegions(p)) = 1
      BY <1>1 DEF OneRegion
    <3>2. Cardinality({}) = 0
      BY FS_EmptySet
    <3>. QED  BY <3>1, <3>2
  <2>. QED  BY <2>1 DEF TheRegion
<1>3. RealizationIdentity(r) \in Granted(k)
  <2>1. 1 \in DOMAIN k.requests /\ plans[1] = PlanOf(k.requests[1])
    <3>1. DOMAIN k.requests = 1..Len(k.requests) /\ Len(k.requests) \in Nat
      BY RequestsAreLists, ListPositions
    <3>2. CASE Len(k.requests) = 0
      BY <1>1, <3>1, <3>2 DEF PlansOf
    <3>3. CASE Len(k.requests) > 0
      BY <3>1, <3>3 DEF PlansOf
    <3>. QED  BY <3>1, <3>2, <3>3
  <2>. HIDE DEF plans
  <2>. QED  BY <1>1, <2>1, PlanIsGranted
<1>4. ProjectionHolds(p, candidate, r)
  BY <1>1 DEF Applicable
<1>. QED  BY <1>1, <1>2, <1>3, <1>4 DEF Rewritings

\* More licences allow no fewer rewritings.
LEMMA RewritingsGrow ==
  ASSUME NEW p, NEW L, NEW M, L \subseteq M
  PROVE  Rewritings(p, L) \subseteq Rewritings(p, M)
  BY DEF Rewritings

-----------------------------------------------------------------------------
(***************************************************************************)
(* What is true between two steps: the caller that holds the lock is the   *)
(* one in the section, and its guard is installed from the swap to the     *)
(* restore; what it will put back is the real function.                    *)
(***************************************************************************)
Labels == {"idle", "ready", "held", "swapped", "hosted", "restored"}
Inside == {"held", "swapped", "hosted", "restored"}
Guarding == {"swapped", "hosted"}

GuardInv ==
  /\ pc \in [Callers -> Labels]
  /\ DOMAIN saved = Callers
  /\ lock \in Callers \cup {Nobody}
  /\ \A c \in Callers : pc[c] \in Inside <=> lock = c
  /\ \A c \in Callers : pc[c] \in Guarding => auth = c /\ saved[c] = Real
  /\ (\A c \in Callers : pc[c] \notin Guarding) => auth = Real

\* What a caller carries: the call and its program until the host answers, the
\* answer of the host after it, and the licences of the call all along.
CallInv ==
  /\ DOMAIN source = Callers /\ DOMAIN answer = Callers
  /\ DOMAIN call = Callers /\ DOMAIN bag = Callers
  /\ pc \in [Callers -> Labels]
  /\ \A c \in Callers : pc[c] \in {"ready", "held", "swapped"} =>
       \E k \in AllCalls, p \in {source[c][1]} :
         /\ call[c] = <<k>> /\ source[c] = <<p>> /\ Granted(k) \subseteq licensed
  /\ \A c \in Callers : pc[c] \in {"hosted", "restored"} =>
       \E p \in {source[c][1]}, b \in {bag[c][1]} :
         /\ source[c] = <<p>> /\ bag[c] = <<b>>
         /\ b.program \in {p} \cup Rewritings(p, licensed)

LEMMA GuardInvInit == Init => GuardInv
  BY CallersAreNoNames DEF Init, GuardInv, Labels, Inside, Guarding

\* The steps of one caller keep the guard where it belongs.
LEMMA GuardInvStep == GuardInv /\ [Next]_vars => GuardInv'
<1>. SUFFICES ASSUME GuardInv, [Next]_vars PROVE GuardInv'
  OBVIOUS
<1>. USE CallersAreNoNames DEF GuardInv, Labels, Inside, Guarding
<1>1. ASSUME NEW c \in Callers, NEW k \in Calls[c], Prepare(c, k) PROVE GuardInv'
  BY <1>1 DEF Prepare
<1>2. ASSUME NEW c \in Callers, NEW k \in Calls[c], Reopen(c, k) PROVE GuardInv'
  BY <1>2 DEF Reopen
<1>3. ASSUME NEW c \in Callers, Enter(c) PROVE GuardInv'
  BY <1>3 DEF Enter, Nobody
<1>4. ASSUME NEW c \in Callers, Swap(c) PROVE GuardInv'
  <2>1. auth = Real
    BY <1>4 DEF Swap
  <2>. QED  BY <1>4, <2>1 DEF Swap
<1>5. ASSUME NEW c \in Callers, Host(c) PROVE GuardInv'
  BY <1>5 DEF Host
<1>6. ASSUME NEW c \in Callers, Restore(c) PROVE GuardInv'
  BY <1>6 DEF Restore
<1>7. ASSUME NEW c \in Callers, Leave(c) PROVE GuardInv'
  BY <1>7 DEF Leave
<1>8. CASE UNCHANGED vars
  BY <1>8 DEF vars
<1>. QED  BY <1>1, <1>2, <1>3, <1>4, <1>5, <1>6, <1>7, <1>8 DEF Next, Guarded

\* _apply_guarded never leaves its replacement installed: when the lock is free
\* the real function is there, whatever the callers do and however many.
THEOREM GuardAlwaysPutBack == Spec => []GuardIsPutBack
<1>1. GuardInv => GuardIsPutBack
  BY CallersAreNoNames DEF GuardInv, GuardIsPutBack, Inside, Guarding, Nobody, Real
<1>. QED  BY <1>1, GuardInvInit, GuardInvStep, PTL DEF Spec

-----------------------------------------------------------------------------
LEMMA CallInvInit == Init => CallInv
  BY DEF Init, CallInv, Labels

\* A step of one caller keeps what every caller carries: the caller's own part
\* by its action, the others' because licences are never withdrawn.
LEMMA CallInvStep == CallInv /\ [Next]_vars => CallInv'
<1>. SUFFICES ASSUME CallInv, [Next]_vars PROVE CallInv'
  OBVIOUS
<1>. USE DEF CallInv, Labels
<1>1. ASSUME NEW c \in Callers, NEW k \in Calls[c], Prepare(c, k) PROVE CallInv'
  <2>1. k \in AllCalls
    BY DEF AllCalls
  <2>2. \A p : Rewritings(p, licensed) \subseteq Rewritings(p, licensed')
    BY <1>1, RewritingsGrow DEF Prepare
  <2>3. PICK q : source' = [source EXCEPT ![c] = <<q>>]
    BY <1>1 DEF Prepare
  <2>4. \A d \in Callers \ {c} :
          /\ pc'[d] = pc[d] /\ call'[d] = call[d] /\ bag'[d] = bag[d]
          /\ source'[d] = source[d]
    BY <1>1, <2>3 DEF Prepare
  <2>5. \A d \in Callers : pc'[d] \in {"ready", "held", "swapped"} =>
          \E j \in AllCalls, p \in {source'[d][1]} :
            call'[d] = <<j>> /\ source'[d] = <<p>> /\ Granted(j) \subseteq licensed'
    <3>1. call'[c] = <<k>> /\ source'[c] = <<q>> /\ Granted(k) \subseteq licensed'
      BY <1>1, <2>3 DEF Prepare
    <3>2. licensed \subseteq licensed'
      BY <1>1 DEF Prepare
    <3>. QED  BY <2>1, <2>4, <3>1, <3>2
  <2>6. \A d \in Callers : pc'[d] \in {"hosted", "restored"} =>
          \E p \in {source'[d][1]}, b \in {bag'[d][1]} :
            /\ source'[d] = <<p>> /\ bag'[d] = <<b>>
            /\ b.program \in {p} \cup Rewritings(p, licensed')
    <3>1. pc'[c] = "ready"
      BY <1>1 DEF Prepare
    <3>. QED  BY <2>2, <2>4, <3>1
  <2>. QED  BY <1>1, <2>3, <2>5, <2>6 DEF Prepare
<1>2. ASSUME NEW c \in Callers, NEW k \in Calls[c], Reopen(c, k) PROVE CallInv'
  BY <1>2 DEF Reopen
<1>3. ASSUME NEW c \in Callers, Enter(c) PROVE CallInv'
  BY <1>3 DEF Enter
<1>4. ASSUME NEW c \in Callers, Swap(c) PROVE CallInv'
  BY <1>4 DEF Swap
<1>5. ASSUME NEW c \in Callers, Host(c) PROVE CallInv'
  <2>1. PICK k \in AllCalls, p \in {source[c][1]} :
          call[c] = <<k>> /\ source[c] = <<p>> /\ Granted(k) \subseteq licensed
    BY <1>5 DEF Host
  <2>2. HostAnswer(k, p).program \in {p} \cup Rewritings(p, licensed)
    BY <2>1, HostIsLicensed, RewritingsGrow
  <2>3. bag' = [bag EXCEPT ![c] = <<HostAnswer(k, p)>>]
    BY <1>5, <2>1 DEF Host
  <2>. QED  BY <1>5, <2>1, <2>2, <2>3 DEF Host
<1>6. ASSUME NEW c \in Callers, Restore(c) PROVE CallInv'
  BY <1>6 DEF Restore
<1>7. ASSUME NEW c \in Callers, Leave(c) PROVE CallInv'
  BY <1>7 DEF Leave
<1>8. CASE UNCHANGED vars
  BY <1>8 DEF vars
<1>. QED  BY <1>1, <1>2, <1>3, <1>4, <1>5, <1>6, <1>7, <1>8 DEF Next, Guarded

\* Every step of the chain is a step of AuthorizedApply, or leaves what it
\* speaks of alone.
LEMMA ChainStep ==
  CallInv /\ [Next]_vars => [Abstract!AbsNext]_(Abstract!absVars)
<1>. SUFFICES ASSUME CallInv, [Next]_vars
              PROVE  Abstract!AbsNext \/ UNCHANGED Abstract!absVars
  OBVIOUS
<1>. USE DEF Abstract!absVars
<1>1. ASSUME NEW c \in Callers, NEW k \in Calls[c], Prepare(c, k)
      PROVE  Abstract!AbsNext
  <2>1. k \in AllCalls
    BY DEF AllCalls
  <2>2. Abstract!Submit(c)
    BY <1>1, <2>1 DEF Prepare, Abstract!Submit
  <2>. QED  BY <2>2 DEF Abstract!AbsNext
<1>2. ASSUME NEW c \in Callers, NEW k \in Calls[c], Reopen(c, k)
      PROVE  Abstract!AbsNext
  BY <1>2 DEF Reopen, Abstract!Fail, Abstract!AbsNext
<1>3. ASSUME NEW c \in Callers, Enter(c) \/ Swap(c) \/ Host(c) \/ Restore(c)
      PROVE  UNCHANGED Abstract!absVars
  BY <1>3 DEF Enter, Swap, Host, Restore
<1>4. ASSUME NEW c \in Callers, Leave(c), called[c] PROVE Abstract!AbsNext
  BY <1>4 DEF Leave, Abstract!Fail, Abstract!AbsNext
<1>5. ASSUME NEW c \in Callers, Leave(c), ~called[c] PROVE Abstract!AbsNext
  <2>1. Abstract!Answer(c)
    BY <1>5 DEF Leave, CallInv, Abstract!Answer
  <2>. QED  BY <2>1 DEF Abstract!AbsNext
<1>6. CASE UNCHANGED vars
  BY <1>6 DEF vars
<1>. QED  BY <1>1, <1>2, <1>3, <1>4, <1>5, <1>6 DEF Next, Guarded

\* The record chain implements AuthorizedApply: a program that a caller gets
\* back is the one it sent or a rewriting of its one region that keeps the order
\* of events and for whose identity somebody has brought a complete licence.
THEOREM ChainImplementsAuthorizedApply == Spec => OnlyLicensedRewrites
<1>1. Init => Abstract!AbsInit
  BY DEF Init, Abstract!AbsInit
<1>. QED
  BY <1>1, CallInvInit, CallInvStep, ChainStep, PTL
  DEF Spec, OnlyLicensedRewrites, Abstract!AbsSpec

-----------------------------------------------------------------------------
\* What is a sequence over some set is a list.
LEMMA ListOfList ==
  ASSUME NEW X, NEW s \in Seq(X)
  PROVE  IsList(s)
<1>1. \A i \in 1..Len(s) : s[i] \in ToSet(s)
  BY DEF ToSet
<1>2. s \in [1..Len(s) -> ToSet(s)] /\ Len(s) \in Nat
  BY <1>1
<1>. QED  BY <1>2 DEF IsList

\* The blocks of a program are lists of the operations of some set.
LEMMA BlocksAreLists ==
  ASSUME NEW p, IsProgram(p)
  PROVE  \E X : p.blocks \in Seq(Seq(X))
<1>. DEFINE bs == p.blocks
            X == UNION {ToSet(bs[b]) : b \in DOMAIN bs}
<1>1. IsList(bs) /\ \A b \in DOMAIN bs : IsList(bs[b])
  BY DEF IsProgram
<1>2. Len(bs) \in Nat /\ DOMAIN bs = 1..Len(bs)
  BY <1>1, ListPositions
<1>3. \A b \in DOMAIN bs : bs[b] \in Seq(X)
  <2>. SUFFICES ASSUME NEW b \in DOMAIN bs PROVE bs[b] \in Seq(X)
    OBVIOUS
  <2>. DEFINE s == bs[b]
  <2>1. s \in Seq(ToSet(s)) /\ ToSet(s) \subseteq X
    BY <1>1 DEF IsList
  <2>. HIDE DEF X, s
  <2>2. s \in Seq(X)
    BY <2>1
  <2>. QED  BY <2>2 DEF s
<1>4. bs \in Seq(Seq(X))
  <2>. HIDE DEF X
  <2>1. bs \in Seq(ToSet(bs))
    BY <1>1 DEF IsList
  <2>2. bs = [b \in 1..Len(bs) |-> bs[b]]
    BY <2>1
  <2>. HIDE DEF bs
  <2>. QED  BY <1>2, <1>3, <2>2
<1>. QED  BY <1>4

\* A program has finitely many ids.
LEMMA IdsAreFinite ==
  ASSUME NEW p, IsProgram(p)
  PROVE  IsFiniteSet(Ids(p)) /\ IsFiniteSet(SemanticIds(p)) /\ SemanticIds(p) \subseteq Ids(p)
<1>1. PICK X : p.blocks \in Seq(Seq(X))
  BY BlocksAreLists
<1>. DEFINE ops == OpsOf(p)
<1>2. ops \in Seq(X)
  BY <1>1, FlattenIsList DEF OpsOf
<1>. HIDE DEF ops
<1>3. IsFiniteSet(1..Len(ops)) /\ DOMAIN ops = 1..Len(ops)
  BY <1>2, FS_Interval
<1>. DEFINE f == [i \in 1..Len(ops) |-> ops[i].id]
            I == {op.id : op \in ToSet(ops)}
<1>4. f \in Surjection(1..Len(ops), I)
  <2>1. I = {f[i] : i \in 1..Len(ops)}
    BY <1>3 DEF ToSet
  <2>2. f \in [1..Len(ops) -> I]
    BY <1>3 DEF ToSet
  <2>. QED  BY <2>1, <2>2 DEF Surjection
<1>5. IsFiniteSet(I)
  <2>. HIDE DEF f, I
  <2>. QED  BY <1>3, <1>4, FS_Surjection
<1>6. I = Ids(p)
  BY DEF ops, Ids
<1>7. SemanticIds(p) \subseteq Ids(p)
  BY DEF SemanticIds, Ids
<1>. QED  BY <1>5, <1>6, <1>7, FS_Subset

-----------------------------------------------------------------------------
\* A run of operations that a window may hold, in the first L operations that the
\* rewrite gives for the first k of a block, is a run of these, the store not in it.
Quiet(G, i, j) == \A x \in i..j : G[x].op \in AllowedBetween
SameRun(G, ops, r, k, i, j, d) ==
  \A x \in i..j : x - d \in 1..k /\ G[x] = ops[x - d] /\ ops[x - d].id # r.id
Mirrors(G, L, ops, r, k) ==
  \A i, j \in 1..L : i <= j /\ Quiet(G, i, j) =>
    \E d \in Int : SameRun(G, ops, r, k, i, j, d) /\ (j = L => d = L - k)

\* One more operation of the block, the store or another, keeps it so.
LEMMA MirrorsStep ==
  ASSUME NEW L \in Nat, NEW M \in Nat, NEW k \in Nat, NEW G, NEW H, NEW ops, NEW r,
         Mirrors(G, L, ops, r, k), \A x \in 1..L : H[x] = G[x],
         \/ M = L + 1 /\ H[L + 1] = ops[k + 1] /\ ops[k + 1].id # r.id
         \/ M = L + 3 /\ \A x \in (L + 1)..M : H[x].op \notin AllowedBetween
  PROVE  Mirrors(H, M, ops, r, k + 1)
<1>. SUFFICES ASSUME NEW i \in 1..M, NEW j \in 1..M, i <= j, Quiet(H, i, j)
              PROVE  \E d \in Int : SameRun(H, ops, r, k + 1, i, j, d) /\ (j = M => d = M - (k + 1))
  BY DEF Mirrors
<1>1. ASSUME NEW l \in 1..L, i <= l, l <= j
      PROVE  \E d \in Int : SameRun(H, ops, r, k, i, l, d) /\ (l = L => d = L - k)
  <2>1. i \in 1..L /\ \A x \in i..l : x \in 1..L /\ x \in i..j
    BY <1>1
  <2>2. Quiet(G, i, l)
    BY <2>1 DEF Quiet
  <2>3. PICK d \in Int : SameRun(G, ops, r, k, i, l, d) /\ (l = L => d = L - k)
    BY <1>1, <2>1, <2>2 DEF Mirrors
  <2>4. SameRun(H, ops, r, k, i, l, d)
    BY <2>1, <2>3 DEF SameRun
  <2>. QED  BY <2>3, <2>4
<1>2. \A l \in 1..L, d \in Int : SameRun(H, ops, r, k, i, l, d) => SameRun(H, ops, r, k + 1, i, l, d)
  BY DEF SameRun
<1>3. CASE j <= L
  <2>1. j \in 1..L /\ j # M
    BY <1>3
  <2>2. PICK d \in Int : SameRun(H, ops, r, k, i, j, d)
    BY <1>1, <2>1
  <2>. QED  BY <1>2, <2>1, <2>2
<1>4. CASE ~(j <= L)
  <2>1. j \in (L + 1)..M /\ j \in i..j
    BY <1>4
  <2>2. H[j].op \in AllowedBetween
    BY <2>1 DEF Quiet
  <2>3. M = L + 1 /\ j = L + 1 /\ H[j] = ops[k + 1] /\ ops[k + 1].id # r.id
    BY <2>1, <2>2
  <2>. DEFINE d == L - k
  <2>4. d \in Int /\ d = M - (k + 1) /\ j - d = k + 1 /\ k + 1 \in 1..(k + 1)
    BY <2>3
  <2>5. SameRun(H, ops, r, k + 1, i, j, d)
    <3>1. CASE i = L + 1
      <4>1. \A x \in i..j : x = j
        BY <2>3, <3>1
      <4>. HIDE DEF d
      <4>. QED  BY <2>3, <2>4, <4>1 DEF SameRun
    <3>2. CASE i # L + 1
      <4>1. L \in 1..L /\ i <= L /\ L <= j
        BY <2>3, <3>2
      <4>2. SameRun(H, ops, r, k + 1, i, L, d)
        BY <1>1, <1>2, <4>1
      <4>3. \A x \in i..j : x = j \/ x \in i..L
        BY <2>3
      <4>. HIDE DEF d
      <4>. QED  BY <2>3, <2>4, <4>2, <4>3 DEF SameRun
    <3>. QED  BY <3>1, <3>2
  <2>. QED  BY <2>4, <2>5
<1>. QED  BY <1>3, <1>4

\* Each operation is expanded to a list.
LEMMA ExpandedLists ==
  ASSUME NEW X, NEW ops \in Seq(X), NEW r
  PROVE  \E Y : /\ \A k \in 1..Len(ops) : Expanded(ops[k], r) \in Seq(Y)
                /\ [k \in DOMAIN ops |-> Expanded(ops[k], r)] \in Seq(Seq(Y))
<1>. DEFINE Y == UNION {ToSet(Expanded(ops[k], r)) : k \in 1..Len(ops)}
            ss == [k \in DOMAIN ops |-> Expanded(ops[k], r)]
<1>1. \A k \in 1..Len(ops) : Expanded(ops[k], r) \in Seq(Y)
  <2>. SUFFICES ASSUME NEW k \in 1..Len(ops) PROVE Expanded(ops[k], r) \in Seq(Y)
    OBVIOUS
  <2>1. Expanded(ops[k], r) \in Seq(ToSet(Expanded(ops[k], r)))
    <3>1. \A a : <<a>> \in Seq(ToSet(<<a>>))
      BY DEF ToSet
    <3>2. \A a, b, c : <<a, b, c>> \in Seq(ToSet(<<a, b, c>>))
      <4>. SUFFICES ASSUME NEW a, NEW b, NEW c PROVE <<a, b, c>> \in Seq(ToSet(<<a, b, c>>))
        OBVIOUS
      <4>. DEFINE v == <<a, b, c>>
      <4>1. v[1] \in ToSet(v) /\ v[2] \in ToSet(v) /\ v[3] \in ToSet(v)
        BY DEF ToSet
      <4>2. a \in ToSet(v) /\ b \in ToSet(v) /\ c \in ToSet(v)
        BY <4>1
      <4>. DEFINE T == ToSet(v)
      <4>. HIDE DEF T
      <4>3. v \in Seq(T)
        BY <4>2 DEF T
      <4>. QED  BY <4>3 DEF T
    <3>. QED  BY <3>1, <3>2, Zenon DEF Expanded
  <2>2. ToSet(Expanded(ops[k], r)) \subseteq Y
    OBVIOUS
  <2>. DEFINE v == Expanded(ops[k], r)
  <2>. HIDE DEF v, Y
  <2>3. v \in Seq(ToSet(v)) /\ ToSet(v) \subseteq Y => v \in Seq(Y)
    OBVIOUS
  <2>. QED  BY <2>1, <2>2, <2>3 DEF v
<1>2. ss \in Seq(Seq(Y))
  <2>. HIDE DEF Y
  <2>1. DOMAIN ops = 1..Len(ops) /\ Len(ops) \in Nat
    OBVIOUS
  <2>2. ss \in [1..Len(ops) -> Seq(Y)]
    BY <1>1, <2>1
  <2>. HIDE DEF ss
  <2>. QED  BY <2>1, <2>2
<1>. QED  BY <1>1, <1>2

\* The operations that the rewrite of region r puts in the place of a block.
RewrittenBlock(ops, r) == FlattenSeq([i \in DOMAIN ops |-> Expanded(ops[i], r)])

\* The fields of a candidate.
LEMMA CandidateFields ==
  ASSUME NEW p, IsProgram(p), NEW r, NEW q, q = ConstructCandidate(p, r)
  PROVE  /\ DOMAIN q = DOMAIN p
         /\ q.capacity = p.capacity /\ q.working = p.working
         /\ q.blocks = [b \in DOMAIN p.blocks |->
                          IF b = r.block THEN RewrittenBlock(p.blocks[b], r) ELSE p.blocks[b]]
         /\ q.hb = <<TransformEdges(DirectEdges(p), r, p.induced)>>
  BY DEF ConstructCandidate, IsProgram, RewrittenBlock

\* A block that is rewritten is a list.
LEMMA RewrittenIsList ==
  ASSUME NEW ops, IsList(ops), NEW r
  PROVE  IsList(RewrittenBlock(ops, r))
<1>. DEFINE ss == [i \in DOMAIN ops |-> Expanded(ops[i], r)]
<1>1. ops \in Seq(ToSet(ops))
  BY DEF IsList
<1>2. PICK Y : ss \in Seq(Seq(Y))
  <2>. HIDE DEF ss
  <2>. QED  BY <1>1, ExpandedLists, Zenon DEF ss
<1>. HIDE DEF ss
<1>3. FlattenSeq(ss) \in Seq(Y)
  BY <1>2, FlattenIsList
<1>. QED  BY <1>3, ListOfList DEF ss, RewrittenBlock

\* The candidate of a program is a program.
LEMMA CandidateIsProgram ==
  ASSUME NEW p, IsProgram(p), NEW r
  PROVE  IsProgram(ConstructCandidate(p, r))
<1>. DEFINE q == ConstructCandidate(p, r)
<1>1. /\ DOMAIN q = DOMAIN p
      /\ q.blocks = [b \in DOMAIN p.blocks |->
                          IF b = r.block THEN RewrittenBlock(p.blocks[b], r) ELSE p.blocks[b]]
      /\ q.hb = <<TransformEdges(DirectEdges(p), r, p.induced)>>
  BY CandidateFields
<1>. HIDE DEF q
<1>2. \A b \in DOMAIN q.blocks : IsList(q.blocks[b])
  BY <1>1, RewrittenIsList DEF IsProgram
<1>3. IsList(q.blocks)
  <2>. DEFINE qs == q.blocks
  <2>1. DOMAIN qs = 1..Len(p.blocks) /\ Len(p.blocks) \in Nat /\ qs = [b \in 1..Len(p.blocks) |-> qs[b]]
    BY <1>1, ListPositions DEF IsProgram
  <2>2. \A b \in DOMAIN qs : qs[b] \in ToSet(qs)
    BY DEF ToSet
  <2>. HIDE DEF qs
  <2>3. qs \in Seq(ToSet(qs))
    BY <2>1, <2>2
  <2>. QED  BY <2>3 DEF qs, IsList
<1>4. \A e \in DirectEdges(q) : e = <<e[1], e[2]>>
  <2>1. DirectEdges(q) = TransformEdges(DirectEdges(p), r, p.induced)
    BY <1>1 DEF DirectEdges
  <2>2. \A e \in TransformEdges(DirectEdges(p), r, p.induced) : \E a, b : e = <<a, b>>
    BY DEF TransformEdges
  <2>. QED  BY <2>1, <2>2
<1>. QED  BY <1>1, <1>2, <1>3, <1>4 DEF IsProgram, q

\* A program has finitely many regions.
LEMMA RegionsAreFinite ==
  ASSUME NEW p, IsProgram(p)
  PROVE  IsFiniteSet(FindRegions(p))
<1>. DEFINE D == DOMAIN p.blocks
            Ws(b) == Windows(p.blocks[b])
            Rs(b) == {Region(p, b, w[1], w[2], w[3]) : w \in Ws(b)}
            All == {Rs(b) : b \in D}
<1>1. \A b \in D : IsFiniteSet(Rs(b))
  <2>. SUFFICES ASSUME NEW b \in D PROVE IsFiniteSet(Rs(b))
    OBVIOUS
  <2>. DEFINE I == DOMAIN p.blocks[b]
              f == [w \in Ws(b) |-> Region(p, b, w[1], w[2], w[3])]
  <2>1. IsFiniteSet(I)
    BY ListPositions DEF IsProgram
  <2>2. IsFiniteSet(I \X I)
    <3>. HIDE DEF I
    <3>. QED  BY <2>1, FS_Product
  <2>3. IsFiniteSet(I \X (I \X I))
    <3>. HIDE DEF I
    <3>. QED  BY <2>1, <2>2, FS_Product
  <2>4. IsFiniteSet(Ws(b))
    <3>. DEFINE g == [t \in I \X (I \X I) |-> <<t[1], t[2][1], t[2][2]>>]
                T == I \X I \X I
    <3>1. g \in [I \X (I \X I) -> T]
      OBVIOUS
    <3>2. \A t \in T : \E s \in I \X (I \X I) : g[s] = t
      <4>. SUFFICES ASSUME NEW t \in T PROVE \E s \in I \X (I \X I) : g[s] = t
        OBVIOUS
      <4>1. <<t[1], <<t[2], t[3]>>>> \in I \X (I \X I) /\ t = <<t[1], t[2], t[3]>>
        OBVIOUS
      <4>. QED  BY <4>1
    <3>3. g \in Surjection(I \X (I \X I), T)
      <4>. HIDE DEF g, T, I
      <4>. QED  BY <3>1, <3>2 DEF Surjection
    <3>4. IsFiniteSet(T)
      <4>. HIDE DEF g, T, I
      <4>. QED  BY <2>3, <3>3, FS_Surjection
    <3>5. Ws(b) \subseteq T
      BY DEF Windows
    <3>. HIDE DEF T
    <3>. QED  BY <3>4, <3>5, FS_Subset
  <2>5. f \in Surjection(Ws(b), Rs(b))
    <3>1. Rs(b) = {f[w] : w \in Ws(b)}
      OBVIOUS
    <3>. HIDE DEF Rs
    <3>2. f \in [Ws(b) -> Rs(b)]
      BY <3>1
    <3>. HIDE DEF f, Ws
    <3>. QED  BY <3>1, <3>2 DEF Surjection
  <2>. HIDE DEF f, Ws, Rs
  <2>. QED  BY <2>4, <2>5, FS_Surjection
<1>2. IsFiniteSet(All)
  <2>. DEFINE f == [b \in D |-> Rs(b)]
  <2>1. f \in Surjection(D, All)
    <3>. HIDE DEF Rs
    <3>. QED  BY DEF Surjection
  <2>2. IsFiniteSet(D)
    BY ListPositions DEF IsProgram
  <2>. HIDE DEF f, D, All
  <2>. QED  BY <2>1, <2>2, FS_Surjection
<1>3. IsFiniteSet(UNION All)
  <2>. HIDE DEF All, Rs
  <2>1. \A T \in All : IsFiniteSet(T)
    BY <1>1 DEF All
  <2>. QED  BY <1>2, <2>1, FS_UNION
<1>. QED  BY <1>3, FS_EmptySet DEF FindRegions

\* The runs of a rewritten block mirror those of the block.
LEMMA RewrittenMirrors ==
  ASSUME NEW ops, IsList(ops), NEW r
  PROVE  LET G == RewrittenBlock(ops, r)
         IN  Len(G) \in Nat /\ DOMAIN G = 1..Len(G) /\ Mirrors(G, Len(G), ops, r, Len(ops))
<1>. DEFINE n == Len(ops)
            ss == [k \in DOMAIN ops |-> Expanded(ops[k], r)]
<1>1. ops \in Seq(ToSet(ops))
  BY DEF IsList
<1>2. n \in Nat /\ DOMAIN ops = 1..n
  BY <1>1
<1>3. PICK Y : ss \in Seq(Seq(Y)) /\ \A k \in 1..n : Expanded(ops[k], r) \in Seq(Y)
  <2>. HIDE DEF ss
  <2>. QED  BY <1>1, ExpandedLists, Zenon DEF ss
<1>4. n = Len(ss) /\ \A k \in 1..n : ss[k] = Expanded(ops[k], r)
  BY <1>2, <1>3
<1>0. \A d : Mirrors(d, 0, ops, r, 0)
  BY DEF Mirrors
<1>5. CASE n = 0
  <2>1. FlattenSeq(ss) = ss /\ ss = <<>>
    <3>1. ss = <<>>
      <4>1. \A s \in Seq(Seq(Y)) : Len(s) = 0 => s = <<>>
        OBVIOUS
      <4>. HIDE DEF ss, n
      <4>. QED  BY <1>3, <1>4, <1>5, <4>1, Zenon
    <3>. QED  BY <3>1, Zenon DEF FlattenSeq
  <2>2. RewrittenBlock(ops, r) = <<>>
    BY <2>1 DEF RewrittenBlock
  <2>. QED  BY <1>0, <1>5, <2>2
<1>6. CASE n # 0
  <2>. HIDE DEF ss
  <2>1. PICK g : Flattening(g, Y, ss, n) /\ FlattenSeq(ss) = g[n]
    BY <1>2, <1>3, <1>4, <1>6, FlattenUnfolds, Zenon
  <2>2. /\ \A k \in 1..n : g[k] \in Seq(Y) /\ Len(g[k]) \in Nat /\ DOMAIN g[k] = 1..Len(g[k])
        /\ g[1] = ss[1]
        /\ \A k \in 2..n : g[k] = g[k - 1] \o ss[k]
    <3>1. \A s \in Seq(Y) : Len(s) \in Nat /\ DOMAIN s = 1..Len(s)
      OBVIOUS
    <3>. HIDE DEF n
    <3>2. /\ \A k \in 1..n : g[k] \in Seq(Y)
          /\ g[1] = ss[1] /\ \A k \in 2..n : g[k] = g[k - 1] \o ss[k]
      BY <2>1 DEF Flattening
    <3>. QED  BY <3>1, <3>2
  \* What one more operation adds.
  <2>3. \A k \in 1..n :
          \/ Len(ss[k]) = 1 /\ ss[k][1] = ops[k] /\ ops[k].id # r.id
          \/ Len(ss[k]) = 3 /\ \A x \in 1..3 : ss[k][x].op \notin AllowedBetween
    <3>. SUFFICES ASSUME NEW k \in 1..n
                  PROVE  \/ Len(ss[k]) = 1 /\ ss[k][1] = ops[k] /\ ops[k].id # r.id
                         \/ Len(ss[k]) = 3 /\ \A x \in 1..3 : ss[k][x].op \notin AllowedBetween
      OBVIOUS
    <3>1. CASE ops[k].id # r.id
      <4>1. ss[k] = <<ops[k]>>
        BY <1>4, <3>1 DEF Expanded
      <4>. QED  BY <3>1, <4>1
    <3>2. CASE ops[k].id = r.id
      <4>1. ss[k] = <<[op |-> "evict", name |-> r.e, id |-> EvictId(r)],
                      [op |-> "transfer", name |-> r.e, id |-> TransferId(r)],
                      [op |-> "restore", name |-> r.e, id |-> RestoreId(r)]>>
        BY <1>4, <3>2 DEF Expanded
      <4>. QED  BY <4>1 DEF AllowedBetween
    <3>. QED  BY <3>1, <3>2
  <2>4. \A k \in 1..n : Mirrors(g[k], Len(g[k]), ops, r, k)
    <3>. DEFINE Bad == {k \in 1..n : ~Mirrors(g[k], Len(g[k]), ops, r, k)}
    <3>. SUFFICES ASSUME Bad # {} PROVE FALSE
      OBVIOUS
    <3>1. PICK k \in Bad : \A j \in Bad : k <= j
      <4>1. Bad \in SUBSET Nat
        BY <1>2
      <4>. HIDE DEF Bad
      <4>. QED  BY <4>1, LeastNat
    <3>2. CASE k = 1
      <4>. DEFINE M == Len(g[1])
      <4>1. /\ M \in Nat
            /\ \/ M = 1 /\ g[1][1] = ops[1] /\ ops[1].id # r.id
               \/ M = 3 /\ \A x \in 1..3 : g[1][x].op \notin AllowedBetween
        BY <1>2, <1>6, <2>2, <2>3
      <4>2. 0 \in Nat /\ \A x \in 1..0 : g[1][x] = g[1][x]
        OBVIOUS
      <4>3. Mirrors(g[1], M, ops, r, 0 + 1)
        <5>1. \/ M = 0 + 1 /\ g[1][0 + 1] = ops[0 + 1] /\ ops[0 + 1].id # r.id
              \/ M = 0 + 3 /\ \A x \in (0 + 1)..M : g[1][x].op \notin AllowedBetween
          BY <4>1
        <5>. HIDE DEF M
        <5>. QED  BY <1>0, <4>1, <4>2, <5>1, MirrorsStep
      <4>. QED  BY <3>2, <4>3
    <3>3. CASE k # 1
      <4>. DEFINE l == k - 1
                  L == Len(g[l])
                  M == Len(g[k])
      <4>1. l \in 1..n /\ k \in 2..n /\ k \in 1..n /\ l \in Nat /\ ~(k <= l) /\ l + 1 = k
        BY <1>2, <3>3
      <4>. HIDE DEF Bad
      <4>2. Mirrors(g[l], L, ops, r, l)
        BY <3>1, <4>1 DEF Bad
      <4>3. /\ g[k] = g[l] \o ss[k] /\ ss[k] \in Seq(Y) /\ g[l] \in Seq(Y)
            /\ Len(ss[k]) = 1 \/ Len(ss[k]) = 3
        <5>1. ss[k] = Expanded(ops[k], r) /\ Expanded(ops[k], r) \in Seq(Y) /\ k \in 1..n
          BY <1>3, <1>4, <4>1
        <5>2. g[l] \in Seq(Y) /\ g[k] = g[k - 1] \o ss[k]
          <6>. HIDE DEF l
          <6>. QED  BY <2>2, <4>1
        <5>. QED  BY <2>3, <5>1, <5>2
      <4>. HIDE DEF l
      <4>4. /\ M = L + Len(ss[k]) /\ L \in Nat /\ M \in Nat
            /\ \A x \in 1..L : g[k][x] = g[l][x]
            /\ \A x \in 1..Len(ss[k]) : g[k][L + x] = ss[k][x]
        <5>. DEFINE u == g[l]
                    v == ss[k]
        <5>1. u \in Seq(Y) /\ v \in Seq(Y) /\ g[k] = u \o v
          BY <4>3
        <5>. HIDE DEF u, v
        <5>. DEFINE z == g[k]
        <5>. HIDE DEF z
        <5>0. z = u \o v
          BY <5>1 DEF z
        <5>2. /\ Len(z) = Len(u) + Len(v) /\ Len(u) \in Nat /\ Len(z) \in Nat
              /\ \A x \in 1..Len(u) : z[x] = u[x]
              /\ \A x \in 1..Len(v) : z[Len(u) + x] = v[x]
          BY <5>0, <5>1
        <5>. QED  BY <5>2 DEF u, v, z
      <4>5. \/ M = L + 1 /\ g[k][L + 1] = ops[l + 1] /\ ops[l + 1].id # r.id
            \/ M = L + 3 /\ \A x \in (L + 1)..M : g[k][x].op \notin AllowedBetween
        <5>1. CASE Len(ss[k]) = 1
          BY <2>3, <4>1, <4>4, <5>1
        <5>2. CASE Len(ss[k]) = 3
          <6>1. \A x \in 1..3 : ss[k][x].op \notin AllowedBetween
            BY <2>3, <4>1, <5>2
          <6>2. \A x \in (L + 1)..M : x - L \in 1..3 /\ L + (x - L) = x
            BY <4>4, <5>2
          <6>3. \A y \in 1..3 : g[k][L + y] = ss[k][y]
            BY <4>4, <5>2
          <6>4. \A x \in (L + 1)..M : g[k][x] = ss[k][x - L]
            BY <6>2, <6>3
          <6>. QED  BY <4>4, <5>2, <6>1, <6>2, <6>4
        <5>. QED  BY <4>3, <5>1, <5>2
      <4>6. Mirrors(g[k], M, ops, r, l + 1)
        <5>. HIDE DEF L, M
        <5>. QED  BY <4>1, <4>2, <4>4, <4>5, MirrorsStep
      <4>. QED  BY <4>1, <4>6 DEF Bad
    <3>. QED  BY <3>2, <3>3
  <2>5. n \in 1..n
    BY <1>2, <1>6
  <2>6. RewrittenBlock(ops, r) = g[n]
    BY <2>1 DEF RewrittenBlock, ss
  <2>. QED  BY <2>2, <2>4, <2>5, <2>6
<1>. QED  BY <1>5, <1>6

\* When the one region of a program is rewritten, none is left.
LEMMA NoRegionLeft ==
  ASSUME NEW p, IsProgram(p), NEW r, FindRegions(p) = {r}
  PROVE  FindRegions(ConstructCandidate(p, r)) = {}
<1>. DEFINE q == ConstructCandidate(p, r)
            ops == p.blocks[r.block]
            G == RewrittenBlock(ops, r)
<1>1. /\ q.capacity = p.capacity /\ q.working = p.working
      /\ DOMAIN q.blocks = DOMAIN p.blocks
      /\ \A b \in DOMAIN p.blocks :
           q.blocks[b] = IF b = r.block THEN RewrittenBlock(p.blocks[b], r) ELSE p.blocks[b]
  <2>1. /\ q.capacity = p.capacity /\ q.working = p.working
        /\ q.blocks = [b \in DOMAIN p.blocks |->
                          IF b = r.block THEN RewrittenBlock(p.blocks[b], r) ELSE p.blocks[b]]
    BY CandidateFields
  <2>. HIDE DEF q
  <2>. QED  BY <2>1
<1>. HIDE DEF q
<1>2. \A b \in DOMAIN p.blocks : \A w \in Windows(p.blocks[b]) :
        p.capacity = 2 /\ ~(p.working <= 2) => Region(p, b, w[1], w[2], w[3]) = r
  BY DEF FindRegions
<1>. SUFFICES ASSUME NEW b \in DOMAIN p.blocks, NEW w \in Windows(q.blocks[b]),
                     p.capacity = 2, ~(p.working <= 2)
              PROVE  FALSE
  BY <1>1 DEF FindRegions, q
<1>3. CASE b # r.block
  <2>1. Region(p, b, w[1], w[2], w[3]) = r
    BY <1>1, <1>2, <1>3
  <2>. QED  BY <1>3, <2>1 DEF Region
<1>4. CASE b = r.block
  <2>1. q.blocks[b] = G
    BY <1>1, <1>4
  <2>2. IsList(ops) /\ DOMAIN ops = 1..Len(ops) /\ Len(ops) \in Nat
    BY <1>4, ListPositions DEF IsProgram
  <2>3. Len(G) \in Nat /\ DOMAIN G = 1..Len(G) /\ Mirrors(G, Len(G), ops, r, Len(ops))
    <3>. HIDE DEF ops
    <3>. QED  BY <2>2, RewrittenMirrors
  <2>. DEFINE i == w[1]
              m == w[2]
              j == w[3]
  <2>. HIDE DEF G, ops
  <2>4. i \in 1..Len(G) /\ m \in 1..Len(G) /\ j \in 1..Len(G) /\ i < m /\ m < j
        /\ Quiet(G, i, j) /\ StoreAt(G) \cap (i..j) = {i, m, j}
    BY <2>1, <2>3 DEF Windows, Window, Quiet
  <2>. HIDE DEF i, m, j
  <2>5. PICK d \in Int : SameRun(G, ops, r, Len(ops), i, j, d)
    <3>1. i <= j
      BY <2>4
    <3>. QED  BY <2>3, <2>4, <3>1 DEF Mirrors
  <2>. DEFINE a == i - d
              c == m - d
              e == j - d
  <2>6. a \in 1..Len(ops) /\ c \in 1..Len(ops) /\ e \in 1..Len(ops) /\ a < c /\ c < e
        /\ G[i] = ops[a] /\ G[m] = ops[c] /\ G[j] = ops[e] /\ ops[e].id # r.id
    BY <2>4, <2>5 DEF SameRun
  <2>7. \A y \in a..e : y + d \in i..j /\ y \in 1..Len(ops) /\ ops[y] = G[y + d]
                        /\ y + d \in 1..Len(G)
    <3>1. \A y \in a..e : y + d \in i..j /\ (y + d) - d = y
      BY <2>4
    <3>. QED  BY <2>4, <2>5, <3>1 DEF SameRun
  <2>8. Window(ops, a, c, e)
    <3>1. {a, c, e} \subseteq StoreAt(ops)
      <4>1. G[i].op = "store" /\ G[m].op = "store" /\ G[j].op = "store"
        BY <2>4 DEF StoreAt
      <4>. HIDE DEF a, c, e
      <4>. QED  BY <2>2, <2>6, <4>1 DEF StoreAt
    <3>2. StoreAt(ops) \cap (a..e) \subseteq {a, c, e}
      <4>. SUFFICES ASSUME NEW y \in a..e, ops[y].op = "store" PROVE y \in {a, c, e}
        BY DEF StoreAt
      <4>1. y + d \in StoreAt(G) \cap (i..j)
        BY <2>3, <2>7 DEF StoreAt
      <4>2. y + d \in {i, m, j}
        BY <2>4, <4>1
      <4>. QED  BY <2>4, <4>2
    <3>3. {a, c, e} \subseteq a..e
      BY <2>6
    <3>4. \A y \in a..e : ops[y].op \in AllowedBetween
      BY <2>4, <2>7 DEF Quiet
    <3>. HIDE DEF a, c, e
    <3>. QED  BY <2>6, <3>1, <3>2, <3>3, <3>4 DEF Window
  <2>. HIDE DEF a, c, e
  <2>9. <<a, c, e>> \in Windows(p.blocks[b])
    BY <1>4, <2>2, <2>6, <2>8 DEF Windows, ops
  <2>10. Region(p, b, a, c, e) = r
    BY <1>2, <2>9
  <2>11. Region(p, b, a, c, e).id = ops[e].id
    BY <1>4 DEF Region, ops
  <2>. QED  BY <2>6, <2>10, <2>11
<1>. QED  BY <1>3, <1>4

-----------------------------------------------------------------------------
\* A program that is rewritten has one region, and is rewritten at it.
LEMMA RewritingIsCandidate ==
  ASSUME NEW p, IsProgram(p), NEW L, NEW q \in Rewritings(p, L)
  PROVE  LET r == TheRegion(p)
         IN  /\ FindRegions(p) = {r} /\ q = ConstructCandidate(p, r)
             /\ ProjectionHolds(p, q, r)
<1>1. PICK r \in FindRegions(p) :
        /\ q = ConstructCandidate(p, r) /\ OneRegion(p)
        /\ ProjectionHolds(p, q, TheRegion(p))
  BY DEF Rewritings
<1>2. FindRegions(p) = {TheRegion(p)}
  BY <1>1, RegionsAreFinite, OnlyElement DEF OneRegion, TheRegion
<1>. QED  BY <1>1, <1>2

\* What a caller has: programs, and the answer the source or a rewriting of it.
AnswerInv ==
  /\ DOMAIN source = Callers /\ DOMAIN answer = Callers
  /\ \A c \in Callers : source[c] # <<>> =>
       source[c] = <<source[c][1]>> /\ IsProgram(source[c][1])
  /\ \A c \in Callers : answer[c] # <<>> =>
       /\ source[c] # <<>>
       /\ answer[c] = <<answer[c][1]>> /\ IsProgram(answer[c][1])
       /\ answer[c][1] \in {source[c][1]} \cup Rewritings(source[c][1], licensed)

\* It holds of no program at all.
LEMMA AnswerInvInit == Init => AnswerInv
  BY DEF Init, AnswerInv

\* It is kept by every step that AuthorizedApply allows, and so by the chain.
LEMMA AnswerInvStep == AnswerInv /\ CallInv /\ [Next]_vars => AnswerInv'
<1>. SUFFICES ASSUME AnswerInv, [Abstract!AbsNext]_(Abstract!absVars)
              PROVE  AnswerInv'
  BY ChainStep
<1>1. ASSUME NEW c \in Callers, Abstract!Submit(c) PROVE AnswerInv'
  <2>0. PICK k \in AllCalls :
          /\ \E p \in ProgramsOf(k, answer[c]) : source' = [source EXCEPT ![c] = <<p>>]
          /\ answer' = [answer EXCEPT ![c] = <<>>]
          /\ licensed' = licensed \cup Granted(k)
    BY <1>1 DEF Abstract!Submit
  <2>1. PICK p \in ProgramsOf(k, answer[c]) :
          /\ source' = [source EXCEPT ![c] = <<p>>]
          /\ answer' = [answer EXCEPT ![c] = <<>>]
          /\ licensed' = licensed \cup Granted(k)
    BY <2>0
  <2>2. IsProgram(p)
    BY <2>1, ProgramsArePrograms DEF ProgramsOf, AnswerInv
  <2>3. \A d \in Callers : /\ answer'[d] # <<>> => d # c /\ answer'[d] = answer[d]
                           /\ d # c => source'[d] = source[d]
    BY <2>1 DEF AnswerInv
  <2>4. \A d \in Callers : Rewritings(source[d][1], licensed) \subseteq Rewritings(source[d][1], licensed')
    BY <2>1, RewritingsGrow
  <2>5. source'[c] = <<p>> /\ source'[c][1] = p
    BY <2>1 DEF AnswerInv
  <2>. QED  BY <2>1, <2>2, <2>3, <2>4, <2>5 DEF AnswerInv
<1>2. ASSUME NEW c \in Callers, Abstract!Answer(c) PROVE AnswerInv'
  <2>1. PICK p \in {source[c][1]} \cup Rewritings(source[c][1], licensed) :
          answer' = [answer EXCEPT ![c] = <<p>>]
    BY <1>2 DEF Abstract!Answer
  <2>2. source[c] # <<>> /\ source' = source /\ licensed' = licensed
    BY <1>2 DEF Abstract!Answer
  <2>3. IsProgram(p)
    <3>1. IsProgram(source[c][1])
      BY <2>2 DEF AnswerInv
    <3>. QED  BY <2>1, <3>1, RewritingIsCandidate, CandidateIsProgram
  <2>4. answer'[c] = <<p>> /\ answer'[c][1] = p /\ \A d \in Callers \ {c} : answer'[d] = answer[d]
    BY <2>1 DEF AnswerInv
  <2>. QED  BY <2>1, <2>2, <2>3, <2>4 DEF AnswerInv
<1>3. ASSUME NEW c \in Callers, Abstract!Fail(c) PROVE AnswerInv'
  BY <1>3 DEF Abstract!Fail, AnswerInv
<1>4. CASE UNCHANGED Abstract!absVars
  BY <1>4 DEF Abstract!absVars, AnswerInv
<1>. QED  BY <1>1, <1>2, <1>3, <1>4 DEF Abstract!AbsNext

\* An answer that is not the source is a rewriting of it.
LEMMA AnswersAreRewritings ==
  ASSUME AnswerInv, NEW c \in Callers, Rewritten(c)
  PROVE  /\ IsProgram(source[c][1]) /\ IsProgram(answer[c][1])
         /\ answer[c][1] \in Rewritings(source[c][1], licensed)
  BY DEF AnswerInv, Rewritten

\* A rewritten program is not rewritten again: the window of the region is gone
\* and the rewriting makes no new one, however the callers interleave and whatever
\* answers are handed on.
THEOREM RewrittenOnce == Spec => []NoSecondRewrite
<1>1. AnswerInv => NoSecondRewrite
  BY AnswersAreRewritings, RewritingIsCandidate, NoRegionLeft DEF NoSecondRewrite
<1>. QED  BY <1>1, AnswerInvInit, AnswerInvStep, CallInvInit, CallInvStep, PTL DEF Spec

-----------------------------------------------------------------------------
\* The three sets that Reach is made of.
Steps(N, E) == {e \in E : {e[1], e[2]} \subseteq N /\ e[1] # e[2]}
Stay(N) == {<<z, z>> : z \in N}
Composed(V, T) == {<<p[1][1], p[2][2]>> : p \in {q \in V \X T : q[1][2] = q[2][1]}}

\* hop of Reach: from the edges, one more edge or none at every step.
Hops(h, N, E, n) ==
  /\ h \in [0..n -> SUBSET (N \X N)] /\ h[0] = Steps(N, E)
  /\ \A k \in 1..n : h[k] = Composed(h[k - 1], Steps(N, E) \cup Stay(N))

\* The composition of two relations on N.
LEMMA ComposedPairs ==
  ASSUME NEW N, NEW V \in SUBSET (N \X N), NEW T \in SUBSET (N \X N)
  PROVE  /\ Composed(V, T) \in SUBSET (N \X N)
         /\ \A x, z : <<x, z>> \in Composed(V, T) <=>
              \E m \in N : <<x, m>> \in V /\ <<m, z>> \in T
<1>1. Composed(V, T) \in SUBSET (N \X N)
  BY DEF Composed
<1>2. ASSUME NEW x, NEW z, <<x, z>> \in Composed(V, T)
      PROVE  \E m \in N : <<x, m>> \in V /\ <<m, z>> \in T
  <2>1. PICK p \in V \X T : p[1][2] = p[2][1] /\ <<x, z>> = <<p[1][1], p[2][2]>>
    BY <1>2 DEF Composed
  <2>. DEFINE a == p[1]
              b == p[2]
  <2>2. a \in N \X N /\ b \in N \X N /\ a \in V /\ b \in T /\ a[2] = b[1] /\ x = a[1] /\ z = b[2]
    BY <2>1
  <2>. HIDE DEF a, b
  <2>3. a = <<a[1], a[2]>> /\ b = <<b[1], b[2]>> /\ a[2] \in N
    BY <2>2
  <2>. QED  BY <2>2, <2>3
<1>3. ASSUME NEW x, NEW z, NEW m \in N, <<x, m>> \in V, <<m, z>> \in T
      PROVE  <<x, z>> \in Composed(V, T)
  <2>. DEFINE p == <<<<x, m>>, <<m, z>>>>
  <2>1. p \in V \X T /\ p[1][2] = p[2][1] /\ <<p[1][1], p[2][2]>> = <<x, z>>
    BY <1>3
  <2>. HIDE DEF p
  <2>. QED  BY <2>1 DEF Composed
<1>. QED  BY <1>1, <1>2, <1>3

\* The steps and the stays are relations on N.
LEMMA StepPairs ==
  ASSUME NEW N, NEW E, \A e \in E : e = <<e[1], e[2]>>
  PROVE  Steps(N, E) \in SUBSET (N \X N) /\ Steps(N, E) \cup Stay(N) \in SUBSET (N \X N)
<1>1. \A e \in Steps(N, E) : e \in N \X N
  <2>. SUFFICES ASSUME NEW e \in Steps(N, E) PROVE e \in N \X N
    OBVIOUS
  <2>1. e = <<e[1], e[2]>> /\ e[1] \in N /\ e[2] \in N
    BY DEF Steps
  <2>. QED  BY <2>1
<1>2. Stay(N) \subseteq N \X N
  BY DEF Stay
<1>. QED  BY <1>1, <1>2

\* Reach, which is recursive, is the last hop.
LEMMA ReachUnfolds ==
  ASSUME NEW N, IsFiniteSet(N), NEW E, \A e \in E : e = <<e[1], e[2]>>,
         NEW n, n = Cardinality(N)
  PROVE  \E h : Hops(h, N, E, n) /\ Reach(N, E) = h[n]
<1>. DEFINE X == SUBSET (N \X N)
            T == Steps(N, E) \cup Stay(N)
            Eq(g) == g = [k \in 0..n |-> IF k = 0 THEN Steps(N, E) ELSE Composed(g[k - 1], T)]
            it == CHOOSE g : Eq(g)
            F == [k \in 1..n |-> [v \in X |-> Composed(v, T)]]
<1>0. n \in Nat
  BY FS_CardinalityType
<1>1. Reach(N, E) = it[n]
  BY DEF Reach, Steps, Stay, Composed
<1>2. F \in StepsOf(X, n) /\ Steps(N, E) \in X
  <2>1. T \in X /\ Steps(N, E) \in X
    BY StepPairs
  <2>2. \A v \in X : Composed(v, T) \in X
    <3>. HIDE DEF T
    <3>. QED  BY <2>1, ComposedPairs
  <2>. HIDE DEF X, T
  <2>. QED  BY <2>1, <2>2 DEF StepsOf
<1>3. PICK h : Iteration(h, X, Steps(N, E), n, F)
  <2>. HIDE DEF F, X
  <2>. QED  BY <1>0, <1>2, IterationExists, Zenon
<1>4. /\ h \in [0..n -> X] /\ h[0] = Steps(N, E)
      /\ \A k \in 1..n : h[k] = Composed(h[k - 1], T)
  <2>1. h \in [0..n -> X] /\ h[0] = Steps(N, E) /\ \A k \in 1..n : h[k] = F[k][h[k - 1]]
    <3>. HIDE DEF F, X
    <3>. QED  BY <1>3 DEF Iteration
  <2>2. \A k \in 1..n : k - 1 \in 0..n
    BY <1>0
  <2>3. \A k \in 1..n : F[k][h[k - 1]] = Composed(h[k - 1], T)
    <3>. SUFFICES ASSUME NEW k \in 1..n PROVE F[k][h[k - 1]] = Composed(h[k - 1], T)
      OBVIOUS
    <3>1. F[k] = [v \in X |-> Composed(v, T)] /\ h[k - 1] \in X
      BY <2>1, <2>2
    <3>. HIDE DEF F, X, T
    <3>. QED  BY <3>1
  <2>. HIDE DEF F, X, T
  <2>. QED  BY <2>1, <2>3
<1>5. Eq(h)
  <2>. HIDE DEF X, T
  <2>1. \A k \in 0..n : h[k] = IF k = 0 THEN Steps(N, E) ELSE Composed(h[k - 1], T)
    <3>1. \A k \in 0..n : k # 0 => k \in 1..n
      BY <1>0
    <3>. QED  BY <1>4, <3>1
  <2>2. h = [k \in 0..n |-> h[k]]
    BY <1>4
  <2>. QED  BY <2>1, <2>2, Zenon
<1>6. Eq(it)
  <2>. HIDE DEF Eq
  <2>. QED  BY <1>5
<1>7. /\ DOMAIN it = 0..n /\ it[0] = Steps(N, E)
      /\ \A k \in 1..n : it[k] = Composed(it[k - 1], T)
  <2>. DEFINE w == [k \in 0..n |-> IF k = 0 THEN Steps(N, E) ELSE Composed(it[k - 1], T)]
  <2>1. it = w
    BY <1>6
  <2>. HIDE DEF it, T
  <2>2. 0 \in 0..n /\ \A k \in 1..n : k \in 0..n /\ k # 0
    BY <1>0
  <2>3. DOMAIN w = 0..n /\ w[0] = Steps(N, E) /\ \A k \in 1..n : w[k] = Composed(it[k - 1], T)
    BY <2>2
  <2>. HIDE DEF w
  <2>. QED  BY <2>1, <2>3
<1>8. it \in [0..n -> X]
  <2>. HIDE DEF it
  <2>. DEFINE Bad == {k \in 0..n : it[k] \notin X}
  <2>1. Bad = {}
    <3>. SUFFICES ASSUME Bad # {} PROVE FALSE
      OBVIOUS
    <3>1. PICK k \in Bad : \A j \in Bad : k <= j
      <4>1. Bad \in SUBSET Nat
        OBVIOUS
      <4>. HIDE DEF Bad
      <4>. QED  BY <4>1, LeastNat
    <3>. HIDE DEF X, T
    <3>2. CASE k = 0
      BY <1>2, <1>7, <3>2
    <3>3. CASE k # 0
      <4>1. k \in 1..n /\ k - 1 \in 0..n /\ ~(k <= k - 1)
        BY <1>0, <3>3
      <4>2. it[k - 1] \in X
        BY <3>1, <4>1
      <4>3. T \in X
        BY StepPairs DEF X, T
      <4>4. Composed(it[k - 1], T) \in X
        BY <4>2, <4>3, ComposedPairs DEF X
      <4>. QED  BY <1>7, <4>1, <4>4
    <3>. QED  BY <3>2, <3>3
  <2>2. it = [k \in 0..n |-> it[k]]
    BY <1>6
  <2>. QED  BY <2>1, <2>2
<1>. QED
  <2>. HIDE DEF it
  <2>. QED  BY <1>1, <1>7, <1>8 DEF Hops

\* A hop adds one step to what the hop before it joins.
LEMMA HopsGrow ==
  ASSUME NEW N, NEW E, \A e \in E : e = <<e[1], e[2]>>, NEW n \in Nat,
         NEW h, Hops(h, N, E, n), NEW k \in 1..n, NEW x
  PROVE  \A z : <<x, z>> \in h[k] <=>
           \/ <<x, z>> \in h[k - 1]
           \/ \E m \in N : <<x, m>> \in h[k - 1] /\ <<m, z>> \in Steps(N, E)
<1>. DEFINE T == Steps(N, E) \cup Stay(N)
<1>1. h[k - 1] \in SUBSET (N \X N) /\ h[k] = Composed(h[k - 1], T)
  <2>1. k - 1 \in 0..n
    OBVIOUS
  <2>. QED  BY <2>1 DEF Hops
<1>2. T \in SUBSET (N \X N)
  BY StepPairs
<1>3. \A z : <<x, z>> \in h[k] <=> \E m \in N : <<x, m>> \in h[k - 1] /\ <<m, z>> \in T
  <2>. DEFINE V == h[k - 1]
  <2>. HIDE DEF T, V
  <2>1. V \in SUBSET (N \X N) /\ h[k] = Composed(V, T)
    BY <1>1 DEF V
  <2>2. \A a, z : <<a, z>> \in Composed(V, T) <=> \E m \in N : <<a, m>> \in V /\ <<m, z>> \in T
    BY <1>2, <2>1, ComposedPairs
  <2>3. \A z : <<x, z>> \in h[k] <=> \E m \in N : <<x, m>> \in V /\ <<m, z>> \in T
    <3>. SUFFICES ASSUME NEW z
                  PROVE  <<x, z>> \in h[k] <=> \E m \in N : <<x, m>> \in V /\ <<m, z>> \in T
      OBVIOUS
    <3>1. <<x, z>> \in Composed(V, T) <=> \E m \in N : <<x, m>> \in V /\ <<m, z>> \in T
      BY <2>2
    <3>. QED  BY <2>1, <3>1
  <2>. QED  BY <2>3 DEF V
<1>4. \A m, z : <<m, z>> \in T <=> <<m, z>> \in Steps(N, E) \/ (m = z /\ z \in N)
  BY DEF Stay
<1>5. \A z : <<x, z>> \in h[k - 1] => z \in N
  BY <1>1
<1>. HIDE DEF T
<1>. QED  BY <1>3, <1>4, <1>5

\* After as many steps as there are nodes, everything that can be reached is.
LEMMA HopsSettle ==
  ASSUME NEW N, IsFiniteSet(N), NEW E, \A e \in E : e = <<e[1], e[2]>>,
         NEW n, n = Cardinality(N), NEW h, Hops(h, N, E, n), NEW x
  PROVE  \A e \in Steps(N, E) : <<x, e[1]>> \in h[n] => <<x, e[2]>> \in h[n]
<1>. DEFINE R(k) == {z \in N : <<x, z>> \in h[k]}
            Done(k) == \A e \in Steps(N, E) : e[1] \in R(k) => e[2] \in R(k)
            Big(k) == Cardinality(R(k)) >= k + 1
<1>0. n \in Nat
  BY FS_CardinalityType
<1>1. \A k \in 0..n : /\ R(k) \subseteq N /\ IsFiniteSet(R(k)) /\ Cardinality(R(k)) \in Nat
                      /\ Cardinality(R(k)) <= n
  <2>. SUFFICES ASSUME NEW k \in 0..n
                PROVE  /\ R(k) \subseteq N /\ IsFiniteSet(R(k)) /\ Cardinality(R(k)) \in Nat
                       /\ Cardinality(R(k)) <= n
    OBVIOUS
  <2>. DEFINE S == R(k)
  <2>1. S \in SUBSET N
    OBVIOUS
  <2>. HIDE DEF S
  <2>. QED  BY <2>1, FS_Subset, FS_CardinalityType DEF S
<1>2. \A k \in 1..n : \A z : z \in R(k) <=>
        z \in R(k - 1) \/ \E m \in R(k - 1) : <<m, z>> \in Steps(N, E)
  <2>. SUFFICES ASSUME NEW k \in 1..n, NEW z
                PROVE  z \in R(k) <=>
                         z \in R(k - 1) \/ \E m \in R(k - 1) : <<m, z>> \in Steps(N, E)
    OBVIOUS
  <2>1. <<x, z>> \in h[k] <=>
          <<x, z>> \in h[k - 1] \/ \E m \in N : <<x, m>> \in h[k - 1] /\ <<m, z>> \in Steps(N, E)
    BY <1>0, HopsGrow
  <2>2. \A m : <<m, z>> \in Steps(N, E) => z \in N
    BY DEF Steps
  <2>. QED  BY <2>1, <2>2
<1>3. \A e \in Steps(N, E) : e = <<e[1], e[2]>>
  BY DEF Steps
<1>. HIDE DEF R
<1>4. \A k \in 0..n : Done(k) \/ Big(k)
  <2>. DEFINE Bad == {k \in 0..n : ~(Done(k) \/ Big(k))}
  <2>. SUFFICES ASSUME Bad # {} PROVE FALSE
    OBVIOUS
  <2>1. PICK k \in Bad : \A j \in Bad : k <= j
    <3>1. Bad \in SUBSET Nat
      OBVIOUS
    <3>. HIDE DEF Bad
    <3>. QED  BY <3>1, LeastNat
  <2>2. k \in 0..n /\ ~Done(k) /\ ~Big(k)
    OBVIOUS
  <2>3. CASE k = 0
    <3>1. R(0) # {}
      BY <2>2, <2>3
    <3>2. Cardinality(R(0)) # 0
      <4>1. IsFiniteSet(R(0))
        BY <1>1, <2>2, <2>3
      <4>. QED  BY <3>1, <4>1, FS_EmptySet
    <3>. QED  BY <1>1, <2>2, <2>3, <3>2
  <2>4. CASE k # 0
    <3>1. k \in 1..n /\ k - 1 \in 0..n /\ ~(k <= k - 1)
      BY <1>0, <2>2, <2>4
    <3>2. Done(k - 1) \/ Big(k - 1)
      <4>. HIDE DEF Done, Big
      <4>. QED  BY <2>1, <3>1
    <3>3. CASE Done(k - 1)
      <4>1. \A z : z \in R(k) <=> z \in R(k - 1)
        <5>1. \A m, z : <<m, z>> \in Steps(N, E) /\ m \in R(k - 1) => z \in R(k - 1)
          <6>. SUFFICES ASSUME NEW m, NEW z, <<m, z>> \in Steps(N, E), m \in R(k - 1)
                        PROVE  z \in R(k - 1)
            OBVIOUS
          <6>1. <<m, z>>[1] = m /\ <<m, z>>[2] = z
            OBVIOUS
          <6>. QED  BY <3>3, <6>1
        <5>. QED  BY <1>2, <3>1, <5>1
      <4>. QED  BY <2>2, <3>3, <4>1
    <3>4. CASE ~Done(k - 1)
      <4>1. PICK e \in Steps(N, E) : e[1] \in R(k - 1) /\ e[2] \notin R(k - 1)
        BY <3>4
      <4>2. e[2] \in R(k) /\ R(k - 1) \subseteq R(k)
        BY <1>2, <1>3, <3>1, <4>1
      <4>. DEFINE A == R(k - 1)
                  B == R(k)
      <4>3. IsFiniteSet(A) /\ IsFiniteSet(B) /\ Cardinality(A) \in Nat /\ Cardinality(B) \in Nat
        BY <1>1, <2>2, <3>1
      <4>. HIDE DEF A, B
      <4>4. Cardinality(A) <= Cardinality(B) /\ Cardinality(A) # Cardinality(B)
        <5>1. A \in SUBSET B /\ A # B
          BY <4>1, <4>2 DEF A, B
        <5>. QED  BY <4>3, <5>1, FS_Subset
      <4>5. Cardinality(A) >= (k - 1) + 1
        BY <3>2, <3>4 DEF A
      <4>6. Cardinality(B) >= k + 1
        BY <2>2, <4>3, <4>4, <4>5
      <4>. QED  BY <2>2, <4>6 DEF B
    <3>. QED  BY <3>3, <3>4
  <2>. QED  BY <2>3, <2>4
<1>5. Done(n)
  <2>1. n \in 0..n
    BY <1>0
  <2>2. ~Big(n)
    BY <1>0, <1>1, <2>1
  <2>. HIDE DEF Done, Big
  <2>. QED  BY <1>4, <2>1, <2>2
<1>6. \A e \in Steps(N, E) : e[1] \in N /\ e[2] \in N
  BY DEF Steps
<1>. QED  BY <1>5, <1>6 DEF R

\* Reach is the least closed set: it relates two nodes exactly if no set that
\* the edges do not leave holds the first without the second.
LEMMA ReachIsLeast ==
  ASSUME NEW N, IsFiniteSet(N), NEW E, \A e \in E : e = <<e[1], e[2]>>,
         NEW x \in N, NEW y \in N, x # y
  PROVE  <<x, y>> \in Reach(N, E) <=>
           \A S \in SUBSET N :
             (\A e \in E : e[1] \in S \cup {x} /\ e[2] \in N => e[2] \in S) => y \in S
<1>. DEFINE n == Cardinality(N)
            Closed(S) == \A e \in E : e[1] \in S \cup {x} /\ e[2] \in N => e[2] \in S
<1>0. n \in Nat
  BY FS_CardinalityType
<1>1. PICK h : Hops(h, N, E, n) /\ Reach(N, E) = h[n]
  BY ReachUnfolds, Zenon
<1>. HIDE DEF n
<1>2. /\ \A k \in 0..n : h[k] \in SUBSET (N \X N)
      /\ h[0] = Steps(N, E)
  BY <1>1 DEF Hops
<1>3. \A k \in 1..n : \A z : <<x, z>> \in h[k] <=>
        <<x, z>> \in h[k - 1] \/ \E m \in N : <<x, m>> \in h[k - 1] /\ <<m, z>> \in Steps(N, E)
  BY <1>0, <1>1, HopsGrow
\* Nothing outside a closed set is reached.
<1>4. ASSUME NEW S \in SUBSET N, Closed(S), <<x, y>> \in h[n] PROVE y \in S
  <2>. DEFINE Inv(k) == \A z : <<x, z>> \in h[k] => z \in S \cup {x}
              Bad == {k \in 0..n : ~Inv(k)}
  <2>0. \A m, z : m \in S \cup {x} /\ <<m, z>> \in Steps(N, E) => z \in S
    <3>. SUFFICES ASSUME NEW m, NEW z, m \in S \cup {x}, <<m, z>> \in Steps(N, E)
                  PROVE  z \in S
      OBVIOUS
    <3>1. <<m, z>> \in E /\ <<m, z>>[1] = m /\ <<m, z>>[2] = z /\ z \in N
      BY DEF Steps
    <3>. QED  BY <1>4, <3>1
  <2>1. Bad = {}
    <3>. SUFFICES ASSUME Bad # {} PROVE FALSE
      OBVIOUS
    <3>1. PICK k \in Bad : \A j \in Bad : k <= j
      <4>1. Bad \in SUBSET Nat
        OBVIOUS
      <4>. HIDE DEF Bad
      <4>. QED  BY <4>1, LeastNat
    <3>2. k \in 0..n /\ ~Inv(k)
      OBVIOUS
    <3>3. CASE k = 0
      BY <1>2, <2>0, <3>2, <3>3
    <3>4. CASE k # 0
      <4>1. k \in 1..n /\ k - 1 \in 0..n /\ ~(k <= k - 1)
        BY <1>0, <3>2, <3>4
      <4>2. Inv(k - 1)
        <5>. HIDE DEF Inv
        <5>. QED  BY <3>1, <4>1
      <4>3. Inv(k)
        BY <1>3, <2>0, <4>1, <4>2
      <4>. QED  BY <3>2, <4>3
    <3>. QED  BY <3>3, <3>4
  <2>2. n \in 0..n
    BY <1>0
  <2>3. Inv(n)
    <3>. HIDE DEF Inv
    <3>. QED  BY <2>1, <2>2
  <2>. QED  BY <1>4, <2>3
\* What is reached, with x, is closed.
<1>5. ASSUME \A S \in SUBSET N : Closed(S) => y \in S PROVE <<x, y>> \in h[n]
  <2>. DEFINE S == {z \in N : z = x \/ <<x, z>> \in h[n]}
  <2>1. Closed(S)
    <3>. SUFFICES ASSUME NEW e \in E, e[1] \in S, e[2] \in N, e[1] # e[2]
                  PROVE  <<x, e[2]>> \in h[n] \/ e[2] = x
      OBVIOUS
    <3>1. e \in Steps(N, E) /\ e = <<e[1], e[2]>>
      BY DEF Steps
    <3>2. CASE <<x, e[1]>> \in h[n]
      <4>1. \A d \in Steps(N, E) : <<x, d[1]>> \in h[n] => <<x, d[2]>> \in h[n]
        BY <1>1, HopsSettle DEF n
      <4>. QED  BY <3>1, <3>2, <4>1
    <3>3. CASE e[1] = x
      <4>1. <<x, e[2]>> \in h[0]
        BY <1>2, <3>1, <3>3
      <4>. DEFINE Bad == {k \in 0..n : <<x, e[2]>> \notin h[k]}
      <4>2. Bad = {}
        <5>. SUFFICES ASSUME Bad # {} PROVE FALSE
          OBVIOUS
        <5>1. PICK k \in Bad : \A j \in Bad : k <= j
          <6>1. Bad \in SUBSET Nat
            OBVIOUS
          <6>. HIDE DEF Bad
          <6>. QED  BY <6>1, LeastNat
        <5>2. k \in 1..n /\ k - 1 \in 0..n /\ ~(k <= k - 1)
          BY <1>0, <4>1
        <5>3. <<x, e[2]>> \in h[k - 1]
          BY <5>1, <5>2
        <5>. QED  BY <1>3, <5>2, <5>3
      <4>3. n \in 0..n
        BY <1>0
      <4>. QED  BY <4>2, <4>3
    <3>. QED  BY <3>2, <3>3
  <2>2. y \in S
    <3>1. S \in SUBSET N
      OBVIOUS
    <3>. HIDE DEF S, Closed
    <3>. QED  BY <1>5, <2>1, <3>1
  <2>. QED  BY <2>2
<1>. QED  BY <1>1, <1>4, <1>5

\* The order that _reach computes is the least one.
LEMMA HappensBeforeIsReach ==
  ASSUME NEW p, IsProgram(p), NEW x \in Ids(p), NEW y \in Ids(p), x # y
  PROVE  HappensBefore(p, x, y) <=> <<x, y>> \in Reach(Ids(p), DirectEdges(p))
BY ReachIsLeast, IdsAreFinite DEF HappensBefore, IsProgram

\* The same for the events the programmer wrote.
LEMMA SemanticPairs ==
  ASSUME NEW p, IsProgram(p)
  PROVE  /\ \A e \in SemanticHB(p) :
              e = <<e[1], e[2]>> /\ e[1] \in SemanticIds(p) /\ e[2] \in SemanticIds(p)
         /\ \A x, y \in SemanticIds(p) : x # y =>
              (<<x, y>> \in SemanticHB(p) <=> HappensBefore(p, x, y))
<1>. DEFINE N == Ids(p)
            E == DirectEdges(p)
            n == Cardinality(N)
<1>1. IsFiniteSet(N) /\ SemanticIds(p) \subseteq N /\ \A e \in E : e = <<e[1], e[2]>>
  BY IdsAreFinite DEF IsProgram
<1>2. PICK h : Hops(h, N, E, n) /\ Reach(N, E) = h[n]
  <2>. HIDE DEF N, E
  <2>. QED  BY <1>1, ReachUnfolds, Zenon
<1>3. n \in 0..n
  <2>1. n \in Nat
    <3>. HIDE DEF N
    <3>. QED  BY <1>1, FS_CardinalityType
  <2>. HIDE DEF n
  <2>. QED  BY <2>1
<1>4. Reach(N, E) \in SUBSET (N \X N)
  <2>. HIDE DEF N, E, n
  <2>. QED  BY <1>2, <1>3 DEF Hops
<1>5. \A e \in SemanticHB(p) : e \in Reach(N, E) /\ e[1] \in SemanticIds(p) /\ e[2] \in SemanticIds(p)
  BY DEF SemanticHB
<1>6. \A e \in N \X N : e = <<e[1], e[2]>>
  OBVIOUS
<1>7. \A x, y \in SemanticIds(p) : <<x, y>> \in SemanticHB(p) <=> <<x, y>> \in Reach(N, E)
  BY DEF SemanticHB
<1>8. \A x, y \in SemanticIds(p) : x # y => (HappensBefore(p, x, y) <=> <<x, y>> \in Reach(N, E))
  BY <1>1, HappensBeforeIsReach
<1>. HIDE DEF N, E
<1>. QED  BY <1>4, <1>5, <1>6, <1>7, <1>8

\* If the projection of a program holds of a candidate, both order the events the
\* programmer wrote alike.
LEMMA ProjectionKeepsOrder ==
  ASSUME NEW p, IsProgram(p), NEW q, IsProgram(q), NEW r, ProjectionHolds(p, q, r),
         NEW x \in SemanticIds(p), NEW y \in SemanticIds(p), x # y
  PROVE  HappensBefore(p, x, y) <=> HappensBefore(q, Later(x, r), Later(y, r))
<1>. DEFINE pi == PiMap(p, r)
            D == SemanticIds(p)
            I == {pi[id] : id \in D}
<1>1. /\ DOMAIN pi = D
      /\ \A id \in D : pi[id] = Later(id, r)
  BY DEF PiMap, Later, MapStore
<1>2. /\ Cardinality(D) = Cardinality(I)
      /\ I = SemanticIds(q)
      /\ {<<pi[e[1]], pi[e[2]]>> : e \in SemanticHB(p)} = SemanticHB(q)
  <2>. HIDE DEF pi
  <2>. QED  BY <1>1 DEF ProjectionHolds, pi
<1>3. pi \in Surjection(D, I)
  <2>1. pi \in [D -> I]
    BY DEF PiMap
  <2>. HIDE DEF pi, D
  <2>. QED  BY <2>1 DEF Surjection
<1>4. \A a, b \in D : pi[a] = pi[b] => a = b
  <2>1. IsFiniteSet(D)
    BY IdsAreFinite
  <2>2. pi \in Injection(D, I)
    <3>. HIDE DEF pi, I, D
    <3>. QED  BY <1>2, <1>3, <2>1, FS_SurjSameCardinalityImpliesInj
  <2>. HIDE DEF pi, I, D
  <2>. QED  BY <2>2 DEF Injection, IsInjective
<1>5. \A e \in SemanticHB(p) : e = <<e[1], e[2]>> /\ e[1] \in D /\ e[2] \in D
  BY SemanticPairs
<1>. HIDE DEF pi
<1>6. <<x, y>> \in SemanticHB(p) <=> <<pi[x], pi[y]>> \in SemanticHB(q)
  <2>1. ASSUME <<x, y>> \in SemanticHB(p) PROVE <<pi[x], pi[y]>> \in SemanticHB(q)
    <3>1. <<x, y>>[1] = x /\ <<x, y>>[2] = y
      OBVIOUS
    <3>. QED  BY <1>2, <2>1, <3>1
  <2>2. ASSUME <<pi[x], pi[y]>> \in SemanticHB(q) PROVE <<x, y>> \in SemanticHB(p)
    <3>1. PICK e \in SemanticHB(p) : <<pi[x], pi[y]>> = <<pi[e[1]], pi[e[2]]>>
      BY <1>2, <2>2
    <3>2. pi[x] = pi[e[1]] /\ pi[y] = pi[e[2]]
      BY <3>1
    <3>. QED  BY <1>4, <1>5, <3>2
  <2>. QED  BY <2>1, <2>2
<1>7. pi[x] \in SemanticIds(q) /\ pi[y] \in SemanticIds(q) /\ pi[x] # pi[y]
  BY <1>2, <1>4
<1>8. <<x, y>> \in SemanticHB(p) <=> HappensBefore(p, x, y)
  BY SemanticPairs
<1>9. <<pi[x], pi[y]>> \in SemanticHB(q) <=> HappensBefore(q, pi[x], pi[y])
  BY <1>7, SemanticPairs
<1>. QED  BY <1>1, <1>6, <1>8, <1>9

\* A program that construct_candidate rewrote orders the events the programmer
\* wrote exactly as before, in the least order the edges give, whatever program,
\* plan and witness come together and however the callers interleave.
THEOREM OrderAlwaysKept == Spec => []OrderIsKept
<1>1. AnswerInv => OrderIsKept
  <2>. SUFFICES ASSUME AnswerInv, NEW c \in Callers, Rewritten(c)
                PROVE  LET p == source[c][1]
                           q == answer[c][1]
                           r == TheRegion(p)
                       IN  \A x, y \in SemanticIds(p) : x # y =>
                             (HappensBefore(p, x, y) <=> HappensBefore(q, Later(x, r), Later(y, r)))
    BY DEF OrderIsKept
  <2>. DEFINE p == source[c][1]
              q == answer[c][1]
  <2>1. IsProgram(p) /\ IsProgram(q) /\ q \in Rewritings(p, licensed)
    BY AnswersAreRewritings
  <2>. HIDE DEF p, q
  <2>2. ProjectionHolds(p, q, TheRegion(p))
    BY <2>1, RewritingIsCandidate
  <2>. QED  BY <2>1, <2>2, ProjectionKeepsOrder DEF p, q
<1>. QED  BY <1>1, AnswerInvInit, AnswerInvStep, CallInvInit, CallInvStep, PTL DEF Spec
=============================================================================
