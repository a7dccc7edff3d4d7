---------------------------- MODULE LicenceChain ----------------------------
(***************************************************************************)
(* The record chain as its callers use it, from several threads: claims or *)
(* strategies are authorized, the licence becomes a plan, and the plan is  *)
(* applied to a program by the host, called as _apply_guarded of           *)
(* record_scenario_corpus.py calls it: under a lock, with the process-wide *)
(* evaluate_authorization replaced by a function that counts and fails.    *)
(*   call     [program, again, requests, witness]; with again, the last    *)
(*            answer is handed on in the place of the program              *)
(*   request  [kind |-> "claims", bag, scope, expect, bound], or           *)
(*            [kind |-> "optimum", rows]                                   *)
(* A plan and a witness need not be of the program they come with: they    *)
(* may have been made for an earlier state of it.                          *)
(***************************************************************************)
EXTENDS CompilerSpine, Integers

CONSTANTS Callers, Calls    \* Calls[c]: the calls that caller c makes

VARIABLES
  auth,      \* the installed function: Real, or the caller whose guard it is
  lock,      \* _GUARD_LOCK: the caller that holds it, or Nobody
  pc,        \* "idle", "ready", "held", "swapped", "hosted" or "restored"
  saved,     \* what the caller will put back
  called,    \* the function of this caller's guard was called
  call,      \* <<the call of the caller>>
  bag,       \* <<the answer of the host>>
  licensed,  \* history: the identities that were granted
  source,    \* <<the program of the call, as the host sees it>>
  answer     \* <<the program the caller got back>>

vars == <<auth, lock, pc, saved, called, call, bag, licensed, source, answer>>

Real == "real"
Nobody == "nobody"

-----------------------------------------------------------------------------
(***************************************************************************)
(* When an identity is granted, said without the evaluators.  Claims: each *)
(* of the four, once, for the scope, with what v0.1 wants, and one licence *)
(* that says yes for the scope and the kind.  Strategies: the one that is  *)
(* legal and cheaper than every other legal one.                           *)
(***************************************************************************)
Once(records, s) ==
  \E i \in DOMAIN records :
    records[i].subject = s /\ \A j \in DOMAIN records : records[j].subject = s => j = i
ClaimGranted(records, scope, s) ==
  /\ Once(records, s)
  /\ \A i \in DOMAIN records : records[i].subject = s =>
       /\ records[i].result = "yes"
       /\ ScopeOf(records[i], IF s = "sufficient" THEN 2 ELSE 3) = ClaimScope(s, scope)
       /\ s = "policy-match" => records[i].claim = POLICY_V01
       /\ s = "provenance" => records[i].claim = "known"
       /\ s = "action-match" => records[i].claim = scope[3]
LicenceGranted(records, scope) ==
  /\ Once(records, Licence)
  /\ \A i \in DOMAIN records : records[i].subject = Licence =>
       records[i].result = "yes" /\ ScopeOf(records[i], 4) = LicenseScope(scope)
ClaimsGranted(q) ==
  {id \in {LicenseScope(q.scope)} :
     /\ \A s \in Claims : ClaimGranted(q.bag, q.scope, s)
     /\ LicenceGranted(q.bag, q.scope)}
Cheaper(row, other) == other.cost # {} /\ \A c \in row.cost, d \in other.cost : c < d
StrategyGranted(q) ==
  {LicenseScope(q.rows[i].scope) : i \in
     {j \in DOMAIN q.rows : /\ q.rows[j].legal = "yes" /\ q.rows[j].cost # {}
                            /\ \A k \in DOMAIN q.rows \ {j} : q.rows[k].legal = "yes" =>
                                 Cheaper(q.rows[j], q.rows[k])}}
RequestGranted(q) == IF q.kind = "claims" THEN ClaimsGranted(q) ELSE StrategyGranted(q)
Granted(k) == UNION {RequestGranted(k.requests[i]) : i \in DOMAIN k.requests}

\* Under L, a program becomes its candidate if it has one region, with an
\* identity of L, and the candidate keeps the order of its events.
Rewritings(p, L) ==
  {q \in {ConstructCandidate(p, r) : r \in {s \in FindRegions(p) : RealizationIdentity(s) \in L}} :
     OneRegion(p) /\ ProjectionHolds(p, q, TheRegion(p))}

-----------------------------------------------------------------------------
ClaimsPlan(q) ==
  EvaluateRewrite(<<EvaluateAuthorization(q.bag, q.scope)>>, q.expect)
StrategyPlan(q) ==
  LET chosen == AuthorizeOptimum(q.rows)
  IN  IF chosen.result = "yes" THEN chosen.plan[1]
      ELSE RewriteEnvelope(<<>>, <<>>, No(chosen.reason))
PlanOf(q) ==
  IF q.kind # "claims" THEN StrategyPlan(q)
  ELSE IF q.bound THEN BindRewritePlan(ClaimsPlan(q)) ELSE ClaimsPlan(q)
PlansOf(k) == [i \in DOMAIN k.requests |-> PlanOf(k.requests[i])]
AsksAuthorization(k) == \E i \in DOMAIN k.requests : k.requests[i].kind = "claims"

AllCalls == UNION {Calls[c] : c \in Callers}

IsList(s) == s \in Seq(ToSet(s))
IsCost(cost) == cost = {} \/ \E c \in cost : c \in Int /\ cost = {c}
IsProgram(p) ==
  /\ DOMAIN p = {"blocks", "capacity", "working", "hb", "induced"}
  /\ IsList(p.blocks) /\ \A b \in DOMAIN p.blocks : IsList(p.blocks[b])
  /\ \A e \in DirectEdges(p) : e = <<e[1], e[2]>>

\* A caller is neither the real function nor the absence of a caller; a program
\* is a list of lists, ordered by pairs; the bags, the strategies and the
\* requests are lists, and a cost is an integer where there is one.
ASSUME CallersAreNoNames == {Real, Nobody} \cap Callers = {}
ASSUME ProgramsArePrograms == \A k \in AllCalls : IsProgram(k.program)
ASSUME RequestsAreLists ==
  \A k \in AllCalls :
    /\ IsList(k.requests)
    /\ \A i \in DOMAIN k.requests :
         IF k.requests[i].kind = "claims" THEN IsList(k.requests[i].bag)
         ELSE /\ IsList(k.requests[i].rows)
              /\ \A j \in DOMAIN k.requests[i].rows : IsCost(k.requests[i].rows[j].cost)

\* The program of a call: given, or the last answer.
ProgramsOf(k, last) == {IF k.again /\ last # <<>> THEN last[1] ELSE k.program}

Init ==
  /\ auth = Real /\ lock = Nobody /\ licensed = {}
  /\ pc = [c \in Callers |-> "idle"] /\ saved = [c \in Callers |-> Real]
  /\ called = [c \in Callers |-> FALSE]
  /\ call = [c \in Callers |-> <<>>] /\ bag = [c \in Callers |-> <<>>]
  /\ source = [c \in Callers |-> <<>>] /\ answer = [c \in Callers |-> <<>>]

\* observe: the plan is made first, without the lock.
Prepare(c, k) ==
  /\ pc[c] = "idle" /\ (AsksAuthorization(k) => auth = Real)
  /\ pc' = [pc EXCEPT ![c] = "ready"]
  /\ call' = [call EXCEPT ![c] = <<k>>]
  /\ \E p \in ProgramsOf(k, answer[c]) : source' = [source EXCEPT ![c] = <<p>>]
  /\ answer' = [answer EXCEPT ![c] = <<>>]
  /\ licensed' = licensed \cup Granted(k)
  /\ UNCHANGED <<auth, lock, saved, called, bag>>

\* Authorization is asked while another caller's guard is installed: that call
\* is counted by the guard and fails here.
Reopen(c, k) ==
  /\ pc[c] = "idle" /\ AsksAuthorization(k) /\ auth # Real
  /\ called' = [called EXCEPT ![auth] = TRUE]
  /\ source' = [source EXCEPT ![c] = <<>>] /\ answer' = [answer EXCEPT ![c] = <<>>]
  /\ UNCHANGED <<auth, lock, pc, saved, call, bag, licensed>>

\* Faulty variant: the guard is not serialized.
EnterUnlocked(c) ==
  /\ pc[c] = "ready"
  /\ lock' = c /\ pc' = [pc EXCEPT ![c] = "held"]
  /\ UNCHANGED <<auth, saved, called, call, bag, licensed, source, answer>>

Enter(c) ==
  /\ pc[c] = "ready" /\ lock = Nobody
  /\ lock' = c /\ pc' = [pc EXCEPT ![c] = "held"]
  /\ UNCHANGED <<auth, saved, called, call, bag, licensed, source, answer>>

Swap(c) ==
  /\ pc[c] = "held"
  /\ saved' = [saved EXCEPT ![c] = auth] /\ auth' = c
  /\ called' = [called EXCEPT ![c] = FALSE]
  /\ pc' = [pc EXCEPT ![c] = "swapped"]
  /\ UNCHANGED <<lock, call, bag, licensed, source, answer>>

HostAnswer(k, p) == EvaluateApply(PlansOf(k), p, DEVICE, k.witness)
Host(c) ==
  /\ pc[c] = "swapped"
  /\ bag' = [bag EXCEPT ![c] = <<HostAnswer(call[c][1], source[c][1])>>]
  /\ call' = [call EXCEPT ![c] = <<>>] /\ pc' = [pc EXCEPT ![c] = "hosted"]
  /\ UNCHANGED <<auth, lock, saved, called, licensed, source, answer>>

Restore(c) ==
  /\ pc[c] = "hosted"
  /\ auth' = saved[c] /\ pc' = [pc EXCEPT ![c] = "restored"]
  /\ UNCHANGED <<lock, saved, called, call, bag, licensed, source, answer>>

\* Faulty variant: a call that fails returns with the lock held.
LeaveHolding(c) ==
  /\ pc[c] = "restored"
  /\ lock' = IF called[c] THEN lock ELSE Nobody
  /\ pc' = [pc EXCEPT ![c] = "idle"]
  /\ bag' = [bag EXCEPT ![c] = <<>>]
  /\ source' = [source EXCEPT ![c] = <<>>] /\ answer' = [answer EXCEPT ![c] = <<>>]
  /\ UNCHANGED <<auth, saved, called, call, licensed>>

\* The lock is released; a call that was counted makes this one fail.
Leave(c) ==
  /\ pc[c] = "restored"
  /\ lock' = Nobody /\ pc' = [pc EXCEPT ![c] = "idle"]
  /\ bag' = [bag EXCEPT ![c] = <<>>]
  /\ IF called[c]
     THEN /\ source' = [source EXCEPT ![c] = <<>>]
          /\ answer' = [answer EXCEPT ![c] = <<>>]
     ELSE /\ answer' = [answer EXCEPT ![c] = <<bag[c][1].program>>] /\ UNCHANGED source
  /\ UNCHANGED <<auth, saved, called, call, licensed>>

Guarded(c) == Swap(c) \/ Host(c) \/ Restore(c) \/ Leave(c)
Next ==
  \E c \in Callers :
    \/ \E k \in Calls[c] : Prepare(c, k) \/ Reopen(c, k)
    \/ Enter(c) \/ Guarded(c)

\* Nothing between the lock and its release waits for another thread: a caller
\* in there takes its next step, which is always to the next label.
Advance(c) ==
  \E m \in {<<"held", "swapped">>, <<"swapped", "hosted">>, <<"hosted", "restored">>,
            <<"restored", "idle">>} :
    pc[c] = m[1] /\ pc' = [pc EXCEPT ![c] = m[2]]
Fairness == \A c \in Callers : WF_pc(Advance(c))
Spec == Init /\ [][Next]_vars /\ Fairness

-----------------------------------------------------------------------------
Abstract ==
  INSTANCE AuthorizedApply WITH Calls <- AllCalls,
                                Programs <- ProgramsOf

\* The chain answers as AuthorizedApply promises: whatever plans, witnesses and
\* programs meet in a call, and however the calls of the threads interleave, a
\* program changes only by a rewriting that a complete licence allows.
OnlyLicensedRewrites == Abstract!AbsSpec

\* _apply_guarded puts back what it replaced: without the lock held, the real
\* function is installed, and never the replacement of a caller that has left.
GuardIsPutBack ==
  /\ lock = Nobody => auth = Real
  /\ auth # Real => auth = lock

\* Happens-before as the least closed set, without a search.
HappensBefore(p, x, y) ==
  \A S \in SUBSET Ids(p) :
    /\ \A e \in DirectEdges(p) : e[1] \in S \cup {x} /\ e[2] \in Ids(p) => e[2] \in S
    => y \in S
Later(x, r) == IF x = r.id THEN RestoreId(r) ELSE x

\* A program that construct_candidate rewrote orders the events the programmer
\* wrote as before, the restore standing for the store it replaces.
Rewritten(c) == source[c] # <<>> /\ answer[c] # <<>> /\ answer[c] # source[c]
OrderIsKept ==
  \A c \in Callers : Rewritten(c) =>
    LET p == source[c][1]
        q == answer[c][1]
        r == TheRegion(p)
    IN  \A x, y \in SemanticIds(p) : x # y =>
          (HappensBefore(p, x, y) <=> HappensBefore(q, Later(x, r), Later(y, r)))

\* What was rewritten is not rewritten again when it is handed on with the same
\* plan and witness: it has no region left.
NoSecondRewrite ==
  \A c \in Callers : Rewritten(c) =>
    FindRegions(source[c][1]) # {} /\ FindRegions(answer[c][1]) = {}

\* A caller that holds the guard lets go of it.
GuardIsLifted == \A c \in Callers : lock = c ~> lock # c
=============================================================================
