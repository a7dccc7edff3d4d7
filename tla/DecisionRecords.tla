-------------------------- MODULE DecisionRecords --------------------------
(***************************************************************************)
(* What the evaluators of runtime/record_*.py share.  A record is one      *)
(* claim about one scope:                                                  *)
(*   subject  what it speaks of; NoSubject when the field is missing       *)
(*   result   "yes", "no", "n/a", or something else                        *)
(*   scope    <<selected, object, action, license-kind>>, cut at the first *)
(*            component its identity does not give                         *)
(*   claim    the further field a subject has (policy, provenance, action) *)
(* An evaluator reads a bag of records, keeps at most one of each required *)
(* subject and answers with a decision: a result and its reasons.  Schema  *)
(* names of well-formed records, which no evaluator compares, are left     *)
(* out.                                                                    *)
(***************************************************************************)
EXTENDS Naturals, Sequences, FiniteSets, SequencesExt

NoSubject == ""

\* A selection, the text "keep{..}|evict{..}|rematerialize{..}" by its lists.
Selection(keep, evict, remat) == [keep |-> keep, evict |-> evict, remat |-> remat]
SELECTED_S0 == Selection(<<"0", "1">>, <<"2">>, <<>>)
SELECTED_S1 == Selection(<<"1", "2">>, <<"0">>, <<>>)
OBJECT_2 == "2"
OBJECT_3 == "3"

Decision(result, reasons) == [result |-> result, reasons |-> reasons]
No(reason) == Decision("no", <<reason>>)

Record(subject, result, scope, claim) ==
  [subject |-> subject, result |-> result, scope |-> scope, claim |-> claim]

\* The first n components of a record's identity, if it gives them.
ScopeOf(rec, n) == IF Len(rec.scope) < n THEN <<>> ELSE SubSeq(rec.scope, 1, n)

Given(bag, s) == \E i \in DOMAIN bag : bag[i].subject = s
The(bag, s) == bag[CHOOSE i \in DOMAIN bag : bag[i].subject = s]
About(bag, S) == SelectSeq(bag, LAMBDA r : r.subject \in S)

(***************************************************************************)
(* The scan of a bag ends at the first record without a subject and at the *)
(* first repetition of a required one; what was read before stays listed.  *)
(***************************************************************************)
Repeats(inputs, i, S) ==
  inputs[i].subject \in S /\ \E j \in 1..(i - 1) : inputs[j].subject = inputs[i].subject
Stops(inputs, S) ==
  {i \in DOMAIN inputs : inputs[i].subject = NoSubject \/ Repeats(inputs, i, S)}
StopAt(inputs, S) == CHOOSE i \in Stops(inputs, S) : \A j \in Stops(inputs, S) : i <= j
StopReason(inputs, S) ==
  IF inputs[StopAt(inputs, S)].subject = NoSubject
  THEN "decision.unknown-reason" ELSE "decision.duplicate-identity"
Scanned(inputs, S) ==
  IF Stops(inputs, S) = {} THEN inputs ELSE SubSeq(inputs, 1, StopAt(inputs, S) - 1)

\* Extra subjects are listed once, by their first record.
FirstSeen(bag) ==
  FoldLeft(LAMBDA acc, r : IF Given(acc, r.subject) THEN acc ELSE Append(acc, r),
           <<>>, bag)
InOrder(bag, required) ==
  LET given == SelectSeq(required, LAMBDA s : Given(bag, s))
  IN  [k \in DOMAIN given |-> The(bag, given[k])]
Shown(bag) == [k \in DOMAIN bag |-> <<bag[k].subject, bag[k].result>>]
=============================================================================
